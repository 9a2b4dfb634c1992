\* One link, opened in two sessions.
SPECIFICATION Spec
CONSTANTS
    Users = {u1}
    Emails = {e1}
    Passwords = {p1, p2}
    Tokens = {t1}
    Clients = {c1, c2}
    NoRow = NoRow
    NoToken = NoToken
    NoUser = NoUser
    LockTicks = 2
    TokenTicks = 1
INVARIANTS LinkWorksOnce
