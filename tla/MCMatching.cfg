\* Up to two transactions on each side, with a model at hand.
SPECIFICATION Spec
CONSTANTS
    r1 = r1
    r2 = r2
    r3 = r3
    usd = usd
    eur = eur
    Blank = Blank
    Txns <- MCTxns
    Refs = {r1, r2, r3}
    Currencies = {usd, eur}
    Suspicious <- MCSuspicious
    Ratio <- MCRatio
    Tol = 2
    Window = 2
    FuzzyTol = 2
    MinRatio = 80000
    SemanticTol = 1
    MismatchTol = 3
    TimingWindow = 3
    Ids = {1, 2}
    MaxTxns = 2
    Gateway = TRUE
INVARIANTS NothingLost LeftoversWereAsked EvidenceIsBeyondTolerance EvidenceIsMutual
PROPERTIES PromiseSpec
CHECK_DEADLOCK FALSE
