------------------------------ MODULE Accounts ------------------------------
(***************************************************************************)
(* The user accounts (recon_platform/auth/service.py over the table of      *)
(* auth/db.py) as the login pages of demo_app.py use them.                  *)
(*                                                                         *)
(* Several browser sessions run against one database.  authenticate reads   *)
(* the row, checks a bcrypt hash, which is slow, and then writes;           *)
(* reset_password_with_token hashes the new password first, then reads the  *)
(* row and writes: transactions, but neither SQLite nor Postgres at its     *)
(* default level keeps other transactions from writing in between.  The two *)
(* steps are separate actions here.  Times are kept as what is left of      *)
(* them.                                                                   *)
(***************************************************************************)
EXTENDS Integers, FiniteSets

CONSTANTS Users,      \* user names
          Emails,
          Passwords,
          Tokens,     \* bound: reset tokens ever generated
          Clients,    \* browser sessions
          NoRow, NoToken, NoUser,
          LockTicks,  \* LOCKOUT_MINUTES, in ticks of the clock
          TokenTicks  \* RESET_TOKEN_TTL_MINUTES, in ticks of the clock

ASSUME TokenAssumption == NoToken \notin Tokens
ASSUME UserAssumption  == NoUser \notin Users
ASSUME TimeAssumption  == LockTicks \in Nat \ {0} /\ TokenTicks \in Nat \ {0}

MAX_FAILED_ATTEMPTS == 5

\* Bound: failures are told apart up to the threshold, beyond which the code
\* does not distinguish them either.
Failures == 0 .. MAX_FAILED_ATTEMPTS
OneMore(n) == IF n < MAX_FAILED_ATTEMPTS THEN n + 1 ELSE n

\* Bound: a token redeemed more than twice counts as redeemed twice.
MaxRedemptions == 2

Rows == [email : Emails, password : Passwords,
         failed    : Failures,
         lockLeft  : 0 .. LockTicks,   \* 0: locked_until is null or past
         token     : Tokens \cup {NoToken},
         tokenLeft : 0 .. TokenTicks]  \* 0: expired

ASSUME RowAssumption == NoRow \notin Rows

\* What a session missed: what was written between its reading of a row and
\* its own writing.
Missed == {"nothing", "failure", "clear"}

Idle     == [op |-> "idle"]
Logins   == [op : {"login"}, user : Users, right : BOOLEAN, failed : Failures,
             missed : Missed]
Resets   == [op : {"reset"}, user : Users, token : Tokens, password : Passwords,
             missed : Missed]

VARIABLES
    row,       \* database: the row of each user name
    client,    \* each session's transaction under way
    loggedIn,  \* each session's st.session_state.user
    inbox,     \* the reset links that were delivered or shown
    issued,    \* history: tokens generated
    redeemed,  \* history: how often each token changed a password
    hist       \* history: per user name, what happened since the last clear

vars == <<row, client, loggedIn, inbox, issued, redeemed, hist>>

\* Wrong passwords recorded since the counter was last cleared, and the worst
\* that a session which recorded one had missed.
History == [wrong : Failures, missed : Missed]

Init ==
    /\ row      = [u \in Users |-> NoRow]
    /\ client   = [c \in Clients |-> Idle]
    /\ loggedIn = [c \in Clients |-> NoUser]
    /\ inbox    = {}
    /\ issued   = {}
    /\ redeemed = [t \in Tokens |-> 0]
    /\ hist     = [u \in Users |-> [wrong |-> 0, missed |-> "nothing"]]

Registered == {u \in Users : row[u] # NoRow}

\* A session shows the login page only while nobody is logged in.
AtLogin(c) == loggedIn[c] = NoUser /\ client[c] = Idle

-----------------------------------------------------------------------------
(* Definitions named X_... are faulty variants of X, no part of the          *)
(* specification.                                                          *)

\* register_user: one INSERT, which the UNIQUE columns let through or not.
Register(c, u, e, p) ==
    /\ AtLogin(c)
    /\ u \notin Registered /\ \A v \in Registered : row[v].email # e
    /\ row' = [row EXCEPT ![u] = [email |-> e, password |-> p, failed |-> 0, lockLeft |-> 0,
                                  token |-> NoToken, tokenLeft |-> 0]]
    /\ loggedIn' = [loggedIn EXCEPT ![c] = u]
    /\ UNCHANGED <<client, inbox, issued, redeemed, hist>>

\* A locked account is checked like any other.
BeginLogin_IgnoresLock(c, u, p) ==
    /\ AtLogin(c)
    /\ u \in Registered
    /\ client' = [client EXCEPT ![c] =
                     [op |-> "login", user |-> u, right |-> (p = row[u].password),
                      failed |-> row[u].failed, missed |-> "nothing"]]
    /\ UNCHANGED <<row, loggedIn, inbox, issued, redeemed, hist>>

\* authenticate reads the row.  An unknown user and a locked account are
\* refused there and then, and nothing is written.
BeginLogin(c, u, p) ==
    /\ AtLogin(c)
    /\ u \in Registered /\ row[u].lockLeft = 0
    /\ client' = [client EXCEPT ![c] =
                     [op |-> "login", user |-> u, right |-> (p = row[u].password),
                      failed |-> row[u].failed, missed |-> "nothing"]]
    /\ UNCHANGED <<row, loggedIn, inbox, issued, redeemed, hist>>

\* Session c has written to the row of u; the transactions on that row that are
\* still open have missed it.
Commit(c, u, what) ==
    client' = [d \in Clients |->
        IF d = c THEN Idle
        ELSE IF client[d] # Idle /\ client[d].user = u
        THEN [client[d] EXCEPT !.missed = IF @ = "clear" THEN "clear" ELSE what]
        ELSE client[d]]

\* The counter and the lock are cleared; what was recorded before is settled.
Clears(c, u) ==
    /\ Commit(c, u, "clear")
    /\ hist' = [hist EXCEPT ![u] = [wrong |-> 0, missed |-> "nothing"]]

\* A failure is recorded by a session that missed this much.
Noted(u, missed) ==
    hist' = [hist EXCEPT ![u] =
        [wrong  |-> OneMore(hist[u].wrong),
         missed |-> IF missed = "nothing" \/ hist[u].missed = "clear"
                    THEN hist[u].missed ELSE missed]]

\* A right password leaves the counter alone.
RightPassword_KeepsCount(c) ==
    /\ client[c].op = "login" /\ client[c].right
    /\ Clears(c, client[c].user)
    /\ row'      = [row EXCEPT ![client[c].user].lockLeft = 0]
    /\ loggedIn' = [loggedIn EXCEPT ![c] = client[c].user]
    /\ UNCHANGED <<inbox, issued, redeemed>>

\* authenticate writes: the password was right.
RightPassword(c) ==
    /\ client[c].op = "login" /\ client[c].right
    /\ Clears(c, client[c].user)
    /\ row'      = [row EXCEPT ![client[c].user].failed = 0, ![client[c].user].lockLeft = 0]
    /\ loggedIn' = [loggedIn EXCEPT ![c] = client[c].user]
    /\ UNCHANGED <<inbox, issued, redeemed>>

\* One failure is enough to lock.
WrongPassword_OffByOne(c) ==
    /\ client[c].op = "login" /\ ~client[c].right
    /\ LET u == client[c].user
           n == OneMore(client[c].failed)
       IN  /\ Commit(c, u, "failure")
           /\ row'  = [row EXCEPT ![u].failed = n,
                                  ![u].lockLeft = IF n + 1 >= MAX_FAILED_ATTEMPTS
                                                  THEN LockTicks ELSE 0]
           /\ Noted(u, client[c].missed)
    /\ UNCHANGED <<loggedIn, inbox, issued, redeemed>>

\* authenticate writes: the password was wrong.  The counter it stores is one
\* more than the counter it read.
WrongPassword(c) ==
    /\ client[c].op = "login" /\ ~client[c].right
    /\ LET u == client[c].user
           n == OneMore(client[c].failed)
       IN  /\ Commit(c, u, "failure")
           /\ row'  = [row EXCEPT ![u].failed = n,
                                  ![u].lockLeft = IF n >= MAX_FAILED_ATTEMPTS
                                                  THEN LockTicks ELSE 0]
           /\ Noted(u, client[c].missed)
    /\ UNCHANGED <<loggedIn, inbox, issued, redeemed>>

Logout(c) ==
    /\ loggedIn[c] # NoUser
    /\ loggedIn' = [loggedIn EXCEPT ![c] = NoUser]
    /\ UNCHANGED <<row, client, inbox, issued, redeemed, hist>>

\* Asking for a link already ends a lock-out.
RequestReset_Unlocks(c, u, t) ==
    /\ AtLogin(c)
    /\ u \in Registered /\ t \notin issued
    /\ row'    = [row EXCEPT ![u].token = t, ![u].tokenLeft = TokenTicks, ![u].lockLeft = 0]
    /\ issued' = issued \cup {t}
    /\ inbox' \in {inbox, inbox \cup {t}}
    /\ UNCHANGED <<client, loggedIn, redeemed, hist>>

\* generate_password_reset_token and the mail with the link, which may fail to
\* go out.  A second request takes the place of the first.
RequestReset(c, u, t) ==
    /\ AtLogin(c)
    /\ u \in Registered /\ t \notin issued
    /\ row'    = [row EXCEPT ![u].token = t, ![u].tokenLeft = TokenTicks]
    /\ issued' = issued \cup {t}
    /\ inbox' \in {inbox, inbox \cup {t}}
    /\ UNCHANGED <<client, loggedIn, redeemed, hist>>

\* reset_password_with_token finds the row whose live token this is.
BeginReset(c, t, p) ==
    /\ AtLogin(c) /\ t \in inbox
    /\ \E u \in Registered :
          /\ row[u].token = t /\ row[u].tokenLeft > 0
          /\ client' = [client EXCEPT ![c] = [op |-> "reset", user |-> u, token |-> t,
                                              password |-> p, missed |-> "nothing"]]
    /\ UNCHANGED <<row, loggedIn, inbox, issued, redeemed, hist>>

Redeems(t) == redeemed' = [redeemed EXCEPT ![t] = IF @ < MaxRedemptions THEN @ + 1 ELSE @]

\* The token survives its use.
EndReset_KeepsToken(c) ==
    /\ client[c].op = "reset"
    /\ Clears(c, client[c].user)
    /\ row'  = [row EXCEPT ![client[c].user] =
                   [@ EXCEPT !.password = client[c].password, !.failed = 0, !.lockLeft = 0]]
    /\ Redeems(client[c].token)
    /\ UNCHANGED <<loggedIn, inbox, issued>>

\* It then sets the password, drops whatever token is on file by now, and
\* clears the lockout.
EndReset(c) ==
    /\ client[c].op = "reset"
    /\ Clears(c, client[c].user)
    /\ row'  = [row EXCEPT ![client[c].user] =
                   [@ EXCEPT !.password = client[c].password, !.failed = 0, !.lockLeft = 0,
                             !.token = NoToken, !.tokenLeft = 0]]
    /\ Redeems(client[c].token)
    /\ UNCHANGED <<loggedIn, inbox, issued>>

\* The connection or the process of a session goes away: its transaction is
\* rolled back, its login forgotten.
Disconnect(c) ==
    /\ client'   = [client EXCEPT ![c] = Idle]
    /\ loggedIn' = [loggedIn EXCEPT ![c] = NoUser]
    /\ UNCHANGED <<row, inbox, issued, redeemed, hist>>

Down(n) == IF n > 0 THEN n - 1 ELSE 0

\* Time passes.
Tick ==
    /\ row' = [u \in Users |->
          IF row[u] = NoRow THEN NoRow
          ELSE [row[u] EXCEPT !.lockLeft = Down(@), !.tokenLeft = Down(@)]]
    /\ UNCHANGED <<client, loggedIn, inbox, issued, redeemed, hist>>

-----------------------------------------------------------------------------
Session(c) ==
    \/ \E u \in Users, e \in Emails, p \in Passwords : Register(c, u, e, p)
    \/ \E u \in Users, p \in Passwords : BeginLogin(c, u, p)
    \/ \E u \in Users, t \in Tokens : RequestReset(c, u, t)
    \/ \E t \in Tokens, p \in Passwords : BeginReset(c, t, p)
    \/ RightPassword(c) \/ WrongPassword(c) \/ EndReset(c)
    \/ Logout(c) \/ Disconnect(c)

Next == (\E c \in Clients : Session(c)) \/ Tick

Spec == Init /\ [][Next]_vars

\* Time goes on; nobody is obliged to do anything.
FairSpec == Spec /\ WF_vars(Tick)

-----------------------------------------------------------------------------
(* Properties.                                                             *)

\* Every variable has its type, and no two accounts share an address.
TypeOK ==
    /\ row      \in [Users -> Rows \cup {NoRow}]
    /\ \A u, v \in Registered : row[u].email = row[v].email => u = v
    /\ client   \in [Clients -> {Idle} \cup Logins \cup Resets]
    /\ loggedIn \in [Clients -> Users \cup {NoUser}]
    /\ inbox    \subseteq issued /\ issued \subseteq Tokens
    /\ redeemed \in [Tokens -> 0 .. MaxRedemptions]
    /\ hist     \in [Users -> History]

\* The counter under concurrent attempts: it is the number of wrong passwords
\* recorded since the last success or reset if none of them overlapped another,
\* and when some did it may miss failures but does not invent any, except for an
\* attempt that was already under way when the counter was cleared.
CountIsHonest ==
    \A u \in Registered :
        /\ hist[u].missed = "nothing" => row[u].failed = hist[u].wrong
        /\ hist[u].missed = "failure" => row[u].failed <= hist[u].wrong

\* A lock-out means MAX_FAILED_ATTEMPTS wrong passwords since the last success
\* or reset, with the same exception.
LockIsEarned ==
    \A u \in Registered :
        row[u].lockLeft > 0 /\ hist[u].missed # "clear"
            => hist[u].wrong = MAX_FAILED_ATTEMPTS

\* A lock-out runs its time: only a success or a reset ends it early, or an
\* attempt that read the counter before the failure that locked the account.
LockRunsItsTime ==
    [][\A u \in Registered :
          row'[u].lockLeft < row[u].lockLeft - 1
             => hist'[u].wrong = 0 \/ hist'[u].missed # "nothing"]_vars

\* Whatever requests and resets overlap, a link that has changed a password can
\* do so again only for a session whose reset had found it on file before the
\* first was written (service.py:185-206); nobody finds it on file afterwards.
ReusedOnlyByOverlap ==
    \A c \in Clients :
        client[c].op = "reset" /\ redeemed[client[c].token] > 0 => client[c].missed = "clear"

\* tests/test_auth_service.py:181 `test_reset_token_is_single_use`: the second
\* use of a link is refused.  False of two resets that overlap.
LinkWorksOnce == \A t \in Tokens : redeemed[t] <= 1

\* A lock-out is temporary: attempts made during it do not prolong it.
LockIsTemporary ==
    \A u \in Users : (u \in Registered /\ row[u].lockLeft > 0)
                        ~> (u \in Registered /\ row[u].lockLeft = 0)
=============================================================================
