---------------------------- MODULE ConfigCheck ----------------------------
(***************************************************************************)
(* The two validators of a config document, and Load between them.         *)
(*                                                                         *)
(* config.ValidateYAML guards everything that is written or read as YAML:  *)
(* the console's Save, enroll, Load and the recovery of a saved revision.  *)
(* Config.Validate is an older pass that the daemon runs once more on what *)
(* Load returned, with the log level replaced by LOG_LEVEL when that is    *)
(* set.  The two were written separately and disagree in places; a         *)
(* document that passes the first and fails the second is saved, and at    *)
(* the next start the daemon drops it for an older revision.  Load also    *)
(* decodes the file with viper before it validates it, without the types   *)
(* of the fields: a boolean that is written `yes' is TRUE for the first    *)
(* validator and a word for viper, which cannot make a boolean of it.      *)
(*                                                                         *)
(* A value of a field stands for all values the two validators treat       *)
(* alike; the fields are edited one by one, as an admin does in the        *)
(* console's editor.  Messages and field paths are left out.               *)
(***************************************************************************)
EXTENDS Integers, Sequences, SequencesExt, FiniteSets

CONSTANT MaxDraftEdits   \* bound: how many fields an admin changes in one sitting

VARIABLES
    draft,        \* the document in the editor
    draftEdits,   \* fields changed so far
    logLevelEnv   \* LOG_LEVEL in the environment of the daemon, "" when unset

checkVars == <<draft, draftEdits, logLevelEnv>>

Levels == {"", "info", "noise"}

AuthWords ==
    [token : {"none", "empty", "blank", "set"},
     app : {"none", "noClient", "noInstallation", "negativeInstallation", "noKeyPath", "badKey", "set"}]

PathWords == {"", ":memory:", "writable", "unwritable"}

OneSet == [name |-> "a", backend |-> "docker", image |-> "img", max |-> 1,
           platform |-> "", runtime |-> ""]

OneTarget(name) ==
    [name |-> "good", auth |-> [token |-> "set", app |-> "none"],
     sets |-> <<[OneSet EXCEPT !.name = name]>>]

Blank ==
    [orgs |-> <<>>, repos |-> <<>>, cloud |-> {}, idle |-> 0, level |-> "", addr |-> "",
     origin |-> "", credentials |-> "", methods |-> "", headers |-> "", maxAge |-> 0,
     dbPath |-> "", logPath |-> ""]

CloudBlock == [url |-> "https", max |-> 1]

-----------------------------------------------------------------------------
(* Parts both validators read.                                             *)

SetsOf(targets) == FlattenSeq([i \in 1..Len(targets) |-> targets[i].sets])

SetNames(c) ==
    LET sets == SetsOf(c.orgs) \o SetsOf(c.repos)
    IN  [i \in 1..Len(sets) |-> sets[i].name]

HasTargets(c) == c.orgs # <<>> \/ c.repos # <<>>

CloudUsable(cloud) == cloud.url \in {"https", "local"} /\ cloud.max >= 1

ModeChosenOnce(c) ==
    /\ (c.cloud # {}) # HasTargets(c)
    /\ \A cloud \in c.cloud : CloudUsable(cloud)

OneAuth(auth) == (auth.token = "none") # (auth.app = "none")

RuntimeFits(set) ==
    /\ set.backend = "tart" => set.runtime = ""
    /\ set.runtime # "two words"

\* The words yaml.v3 takes for TRUE where a boolean is expected.
Credentials(c) == c.credentials \in {"true", "yes"}

CredentialsNeedOrigin(c) == Credentials(c) => c.origin \notin {"", "*"}

-----------------------------------------------------------------------------
(* config.ValidateYAML and ValidateConfig: every rule, after the defaults. *)

WithDefaults(c) ==
    [c EXCEPT !.idle = IF @ = 0 THEN 15 ELSE @,
              !.level = IF @ = "" THEN "info" ELSE @]

PathUsable(path) == path # "unwritable"

AuthAccepted(auth) ==
    /\ OneAuth(auth)
    /\ auth.token \in {"none", "set"}
    /\ auth.app \in {"none", "set"}

SetAccepted(set) ==
    /\ set.name \notin {"", " "}
    /\ set.backend \in {"docker", "tart"}
    /\ set.image \notin {"", " "}
    /\ set.max \in 1..1000
    /\ set.platform = "" \/ (set.backend = "docker" /\ set.platform = "linux/arm64")
    /\ RuntimeFits(set)

TargetAccepted(target) ==
    /\ target.name = "good"
    /\ AuthAccepted(target.auth)
    /\ target.sets # <<>>
    /\ \A i \in DOMAIN target.sets : SetAccepted(target.sets[i])

\* A plausible bug: one map of names for the orgs and another for the repos.
NamesUniqueInEachList(c) ==
    /\ IsInjective(SetNames([c EXCEPT !.repos = <<>>]))
    /\ IsInjective(SetNames([c EXCEPT !.orgs = <<>>]))

NamesUnique(c) == IsInjective(SetNames(c))

LongestMaxAge == 86400

LongestIdle == 1440   \* 24 hours

CorsAccepted(c) ==
    /\ CredentialsNeedOrigin(c)
    /\ c.origin \in {"", "*", "https://a"}
    /\ c.maxAge \in 0..LongestMaxAge
    /\ c.methods \in {"", "GET, POST"}
    /\ c.headers # "two lines"

Accepted(c) ==
    /\ ModeChosenOnce(c)
    /\ c.idle \in 1..LongestIdle
    /\ c.level # "noise"
    /\ c.addr \in {"", ":8080"}
    /\ CorsAccepted(c)
    /\ PathUsable(c.dbPath) /\ PathUsable(c.logPath)
    /\ \A i \in DOMAIN c.orgs : TargetAccepted(c.orgs[i])
    /\ \A i \in DOMAIN c.repos : TargetAccepted(c.repos[i])
    /\ NamesUnique(c)

AcceptedYAML(c) == Accepted(WithDefaults(c))

-----------------------------------------------------------------------------
(* Config.Validate: the first rule that fails.                             *)

AuthValid(auth) ==
    /\ OneAuth(auth)
    /\ auth.token # "empty"
    /\ auth.app \notin {"noClient", "noInstallation", "noKeyPath"}

SetValid(set) ==
    /\ set.name # ""
    /\ set.backend \in {"docker", "tart"}
    /\ set.max > 0
    /\ RuntimeFits(set)

TargetValid(target, nameWords) ==
    /\ target.name \in nameWords
    /\ AuthValid(target.auth)
    /\ target.sets # <<>>
    /\ \A i \in DOMAIN target.sets : SetValid(target.sets[i])

Valid(c) ==
    /\ ModeChosenOnce(c)
    /\ c.idle > 0
    /\ c.level # "noise"
    /\ CredentialsNeedOrigin(c)
    /\ \A i \in DOMAIN c.orgs : TargetValid(c.orgs[i], {"good", "odd", "noSlash"})
    /\ \A i \in DOMAIN c.repos : TargetValid(c.repos[i], {"good", "odd"})
    /\ IsInjective(SetNames(c))

\* viper.ReadInConfig and viper.Unmarshal, for a file that ValidateYAML accepts.
Decodes(c) == c.credentials # "yes"

\* What Load hands to the daemon for a document it has decoded and accepted.
Loaded(c, env) == [WithDefaults(c) EXCEPT !.level = IF env = "" THEN @ ELSE env]

\* The daemon starts on the document of the disk: Load and then Validate.
StartsOn(c, env) == Decodes(c) /\ AcceptedYAML(c) /\ Valid(Loaded(c, env))

-----------------------------------------------------------------------------
(* The editor.                                                             *)

SetEdits(set) ==
    {[set EXCEPT !.name = v] : v \in {"", " ", "a", "b"}}
    \union {[set EXCEPT !.backend = v] : v \in {"", "docker", "tart", "other"}}
    \union {[set EXCEPT !.image = v] : v \in {"", " ", "img"}}
    \union {[set EXCEPT !.max = v] : v \in {0, 1, 1000, 1001}}
    \union {[set EXCEPT !.platform = v] : v \in {"", "linux/arm64", "darwin"}}
    \union {[set EXCEPT !.runtime = v] : v \in {"", "runsc", "two words"}}

TargetEdits(target) ==
    {[target EXCEPT !.name = v] : v \in {"", "noSlash", "odd", "good"}}
    \union {[target EXCEPT !.auth = v] : v \in AuthWords}
    \union {[target EXCEPT !.sets = v] : v \in {<<>>, Append(target.sets, OneSet)}}
    \union UNION {{[target EXCEPT !.sets[i] = v] : v \in SetEdits(target.sets[i])} :
                    i \in DOMAIN target.sets}

ListEdits(targets) ==
    {Append(targets, OneTarget("a")), Append(targets, OneTarget("b"))}
    \union {Remove(targets, targets[i]) : i \in DOMAIN targets}
    \union UNION {{[targets EXCEPT ![i] = v] : v \in TargetEdits(targets[i])} :
                    i \in DOMAIN targets}

FieldWords ==
    [idle |-> {-1, 0, 15, LongestIdle + 1}, level |-> Levels, addr |-> {"", ":8080", "8080"},
     origin |-> {"", "*", "https://a", "word"}, credentials |-> {"", "true", "yes"},
     methods |-> {"", "GET, POST", "DELETE"}, headers |-> {"", "two lines"},
     maxAge |-> {-1, 0, LongestMaxAge, LongestMaxAge + 1},
     dbPath |-> PathWords, logPath |-> PathWords,
     cloud |-> {{}} \union {{[url |-> u, max |-> m]} :
                               u \in {"", "word", "http", "local", "https"}, m \in 0..1}]

ScalarEdits(c) ==
    UNION {{[c EXCEPT ![f] = v] : v \in FieldWords[f]} : f \in DOMAIN FieldWords}

CheckInit ==
    /\ draft \in {Blank, [Blank EXCEPT !.cloud = {CloudBlock}],
                  [Blank EXCEPT !.orgs = <<OneTarget("a")>>]}
    /\ draftEdits = 0
    /\ logLevelEnv \in Levels

EditField ==
    /\ draftEdits < MaxDraftEdits
    /\ draftEdits' = draftEdits + 1
    /\ draft' \in ScalarEdits(draft)
                  \union {[draft EXCEPT !.orgs = v] : v \in ListEdits(draft.orgs)}
                  \union {[draft EXCEPT !.repos = v] : v \in ListEdits(draft.repos)}
    /\ UNCHANGED logLevelEnv

CheckNext == EditField

CheckSpec == CheckInit /\ [][CheckNext]_checkVars

-----------------------------------------------------------------------------
(* A document that may be saved and that viper can decode is one the       *)
(* daemon starts on, as long as LOG_LEVEL is a log level: what             *)
(* ValidateYAML (validation.go:67) lets through, Config.Validate           *)
(* (config.go:179) lets through too, although it states its rules a second *)
(* time.  Of a document that viper decodes otherwise than yaml.v3          *)
(* (load.go:53) this is not true: it is saved, and the daemon does not     *)
(* start on it.                                                            *)
DecodableConfigStarts ==
    (AcceptedYAML(draft) /\ Decodes(draft) /\ logLevelEnv # "noise") =>
        StartsOn(draft, logLevelEnv)
=============================================================================
