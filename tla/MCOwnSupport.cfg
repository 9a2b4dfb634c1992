\* One run that comes to matching twice: expected to violate SupportIsOthers.
SPECIFICATION Spec
CONSTANTS
    Runs = {r1}
    Keys = {k1, k2}
    Texts = {t1, t2}
    Distance <- MCDistance
    Raw = {90}
    NoText = NoText
    MaxBatch = 2
    MaxAttempts = 2
INVARIANTS SupportIsOthers
