---------------------------- MODULE MCCloudAgent ---------------------------
(* CloudAgent on small instances. *)
EXTENDS CloudAgent, TLC

\* Runners, goroutines of one runner and captures are only ever compared.
AgentSymmetry ==
    Permutations(Runners) \cup Permutations(Slots) \cup Permutations(Captures)

=============================================================================
