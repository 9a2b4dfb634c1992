\* A run over two sources and one over a third, staged under the same name.
SPECIFICATION FairSpec
CONSTANTS
    r1 = r1
    r2 = r2
    csv = csv
    sftp = sftp
    other = other
    i1 = i1
    i2 = i2
    file = file
    Nothing = Nothing
    Runs = {r1, r2}
    Sources = {csv, sftp, other}
    Ids = {i1, i2}
    Files = {file}
    Configs <- TwoRuns
    StagedAs <- OneFile
    Flaky = {csv, other}
    Retries <- SomeTries
    Delay = 1
    Interval = 2
    OverSleep = 1
    Shipments <- SomeShipments
    Graphed = {r1}
    Gateway = TRUE
    MaxTries = 2
INVARIANTS TypeOK WholeOrLost NothingSlipsThrough GateSeesTheTruth
PROPERTIES AttemptsCounted Paced RunsEnd
