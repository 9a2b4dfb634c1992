\* Two sessions at one account; its name may also be tried with the address of
\* another.
SPECIFICATION FairSpec
CONSTANTS
    Users = {u1, u2}
    Emails = {e1}
    Passwords = {p1, p2}
    Tokens = {t1, t2}
    Clients = {c1, c2}
    NoRow = NoRow
    NoToken = NoToken
    NoUser = NoUser
    LockTicks = 2
    TokenTicks = 1
INVARIANTS CountIsHonest LockIsEarned ReusedOnlyByOverlap
PROPERTIES LockRunsItsTime LockIsTemporary
