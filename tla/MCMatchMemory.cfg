\* Two runs on one memory, two attempts each; ids may come back with another
\* text.
SPECIFICATION Spec
CONSTANTS
    Runs = {r1, r2}
    Keys = {k1, k2}
    Texts = {t1, t2}
    Distance <- MCDistance
    Raw = {90}
    NoText = NoText
    MaxBatch = 2
    MaxAttempts = 2
SYMMETRY Symmetry
INVARIANTS SupportIsEarlier SupportLasts
