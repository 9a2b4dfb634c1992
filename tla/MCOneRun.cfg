\* A run of either kind: every feed, decision and failure.
SPECIFICATION OneRunSpec
CONSTANTS
    Plain = Plain
    Runs = {p1, h1}
    Items = {i1, i2}
    HitlRuns = {h1}
    Feeds <- AllFeeds
    Gateway = TRUE
    Decisions = {"proceed", "zero_unmatched", "clear_issues"}
    MaxStarts = 3
    MaxCrashes = 2
SYMMETRY ItemSymmetry
INVARIANTS SignedOff ReviewRowsSeeAHuman PausedRunIsListed ReadyHasNothingPending RetriesBounded
PROPERTIES ResolvedStaysResolved ResolutionIsSanctioned CompletedIsFinal NoRework
CHECK_DEADLOCK FALSE
