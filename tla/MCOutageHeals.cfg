\* A source fails once and then recovers.
SPECIFICATION Spec
CONSTANTS
    Plain = Plain
    Runs = {p1}
    Items = {i1}
    HitlRuns = {}
    Feeds <- OutageFeeds
    Gateway = FALSE
    Decisions = {"proceed"}
    MaxStarts = 1
    MaxCrashes = 0
INVARIANT RecoveredSourceProceeds
CHECK_DEADLOCK FALSE
