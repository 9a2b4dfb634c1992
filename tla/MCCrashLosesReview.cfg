\* The queue is lost between resolution and consolidation.
SPECIFICATION Spec
CONSTANTS
    Plain = Plain
    Runs = {p1}
    Items = {i1}
    HitlRuns = {}
    Feeds <- HealthyFeeds
    Gateway = FALSE
    Decisions = {"proceed"}
    MaxStarts = 1
    MaxCrashes = 1
INVARIANT ReadyMeansReviewed
CHECK_DEADLOCK FALSE
