\* Two runs in flight, up to three suggestions, one crash.
SPECIFICATION Spec
CONSTANTS
    Runs = {r1, r2}
    Pairs = {p1, p2}
    Deltas = {0, 2, 3}
    Ratios = {790, 804, 866}
    DefaultTol = 2
    DefaultMin = 800
    MaxItems = 3
    MaxCrashes = 1
    NoRun = NoRun
SYMMETRY Symmetry
INVARIANTS LearnedWithinDefaults
PROPERTIES OnlyApprovalChanges ApprovalsAddUp
CHECK_DEADLOCK FALSE
