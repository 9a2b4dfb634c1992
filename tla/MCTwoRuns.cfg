\* A run of each kind sharing the process and its queue, over sources that may
\* be out; the scheduler keeps calling run_pipeline.
SPECIFICATION FairSpec
CONSTANTS
    Plain = Plain
    Runs = {p1, h1}
    Items = {i1}
    HitlRuns = {h1}
    Feeds <- OutageFeeds
    Gateway = FALSE
    Decisions = {"proceed"}
    MaxStarts = 1
    MaxCrashes = 1
INVARIANT SignedOff
PROPERTIES PipelineFinishes CallsReturn
CHECK_DEADLOCK FALSE
