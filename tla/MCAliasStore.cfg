\* Two sessions; no file, one of the old format or an empty log; one write cut
\* short, two crashes.
SPECIFICATION Spec
CONSTANTS
    n1 = n1
    n2 = n2
    a1 = a1
    a2 = a2
    Names <- MCNames
    Answers <- MCAnswers
    NoAnswer = NoAnswer
    Sessions = {s1, s2}
    OldCache <- MCOldCache
    FirstFiles = {"none", "old", "log"}
    MaxCuts = 1
    MaxCrashes = 2
INVARIANTS TypeOK MissIsAMiss LossIsBounded LoadsUnlessCut RestartChangesNothing
PROPERTIES CacheSpec
CHECK_DEADLOCK FALSE
