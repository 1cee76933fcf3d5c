CONSTANTS
    Runners = {r1}
    Captures = {c1, c2}
    None = None
    Slots = {s1, s2}
    MaxCleanups = 1
    SetCleaner = SetCleaner
    Faults = {}
SPECIFICATION Spec
INVARIANT
    CaptureMovesWithTheRecord
