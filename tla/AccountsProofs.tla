--------------------------- MODULE AccountsProofs ---------------------------
(***************************************************************************)
(* Proofs about Accounts, for every number of users, sessions and tokens    *)
(* and every length of the timers.                                         *)
(***************************************************************************)
EXTENDS Accounts, TLAPS

-----------------------------------------------------------------------------
(* Types.                                                                  *)

\* Counting up stays within the failures told apart.
LEMMA OneMoreType == \A n \in Failures : OneMore(n) \in Failures
  BY SMT DEF OneMore, Failures, MAX_FAILED_ATTEMPTS

\* Counting down never leaves its range.
LEMMA DownType == \A k \in Nat : \A n \in 0 .. k : Down(n) \in 0 .. k
  BY SMT DEF Down

\* A session that is in a transaction holds a record of its kind.
LEMMA OpenLogin ==
    ASSUME TypeOK, NEW c \in Clients, client[c].op = "login"
    PROVE  client[c] \in Logins
  BY SMT DEF TypeOK, Idle, Logins, Resets

\* A session whose step is "reset" holds a reset transaction.
LEMMA OpenReset ==
    ASSUME TypeOK, NEW c \in Clients, client[c].op = "reset"
    PROVE  client[c] \in Resets
  BY SMT DEF TypeOK, Idle, Logins, Resets

\* A session that is not idle holds a login or a reset.
LEMMA OpenEither ==
    ASSUME TypeOK, NEW c \in Clients, client[c] # Idle
    PROVE  client[c] \in Logins \cup Resets
  BY DEF TypeOK

\* A commit leaves every session's transaction well typed, its own ended and the
\* others marked.
LEMMA CommitType ==
    ASSUME TypeOK, NEW c \in Clients, NEW u \in Users, NEW what \in Missed, Commit(c, u, what)
    PROVE  client' \in [Clients -> {Idle} \cup Logins \cup Resets]
<1> SUFFICES ASSUME NEW d \in Clients
             PROVE  client'[d] \in {Idle} \cup Logins \cup Resets
  BY DEF Commit
<1> DEFINE miss == IF client[d].missed = "clear" THEN "clear" ELSE what
<1>1. CASE d # c /\ client[d] # Idle /\ client[d].user = u
  <2>1. client'[d] = [client[d] EXCEPT !.missed = miss]
    BY <1>1 DEF Commit
  <2>2. miss \in Missed
    BY DEF Missed
  <2>3. client[d] \in Logins \cup Resets
    BY <1>1, OpenEither
  <2>4. CASE client[d] \in Logins
    BY <2>1, <2>2, <2>4, SMT DEF Logins
  <2>5. CASE client[d] \in Resets
    BY <2>1, <2>2, <2>5, SMT DEF Resets
  <2> QED BY <2>3, <2>4, <2>5
<1>2. CASE d = c
  BY <1>2 DEF Commit
<1>3. CASE d # c /\ ~(client[d] # Idle /\ client[d].user = u)
  BY <1>3 DEF Commit, TypeOK
<1> QED BY <1>1, <1>2, <1>3

\* The row of a registered user is a row, and RowAssumption tells it from NoRow.
LEMMA RowType ==
    ASSUME TypeOK, NEW u \in Registered
    PROVE  u \in Users /\ row[u] \in Rows
  BY DEF TypeOK, Registered

\* Writing one user's row, without touching its address, keeps the table typed
\* and its addresses apart.
LEMMA WriteRow ==
    ASSUME TypeOK, NEW u \in Registered, NEW r \in Rows,
           row' = [row EXCEPT ![u] = r], r.email = row[u].email
    PROVE  /\ row' \in [Users -> Rows \cup {NoRow}]
           /\ Registered' = Registered
           /\ \A v, w \in Registered' : row'[v].email = row'[w].email => v = w
<1>1. u \in Users /\ row[u] \in Rows
  BY RowType
<1>2. row' \in [Users -> Rows \cup {NoRow}]
  BY <1>1 DEF TypeOK
<1>3. Registered' = Registered
  BY <1>1, RowAssumption DEF TypeOK, Registered
<1>4. \A v \in Registered : row'[v].email = row[v].email
  BY <1>1 DEF TypeOK, Registered
<1> QED BY <1>2, <1>3, <1>4 DEF TypeOK

\* Recording a failure keeps the history of every user well typed.
LEMMA NotedType ==
    ASSUME TypeOK, NEW u \in Users, NEW m \in Missed, Noted(u, m)
    PROVE  hist' \in [Users -> History]
<1>1. hist[u].wrong \in Failures /\ hist[u].missed \in Missed
  BY DEF TypeOK, History
<1>2. [wrong  |-> OneMore(hist[u].wrong),
       missed |-> IF m = "nothing" \/ hist[u].missed = "clear"
                  THEN hist[u].missed ELSE m] \in History
  BY <1>1, OneMoreType DEF History
<1> QED BY <1>2 DEF Noted, TypeOK

\* So does clearing the counter, sessions included.
LEMMA ClearsType ==
    ASSUME TypeOK, NEW c \in Clients, NEW u \in Users, Clears(c, u)
    PROVE  /\ client' \in [Clients -> {Idle} \cup Logins \cup Resets]
           /\ hist' \in [Users -> History]
<1>1. "clear" \in Missed
  BY DEF Missed
<1>2. [wrong |-> 0, missed |-> "nothing"] \in History
  BY SMT DEF History, Failures, Missed, MAX_FAILED_ATTEMPTS
<1> QED BY <1>1, <1>2, CommitType DEF Clears, TypeOK

\* Initial and inductive parts of type correctness.
LEMMA TypeInit == Init => TypeOK
<1> SUFFICES ASSUME Init PROVE TypeOK
  OBVIOUS
<1>1. [wrong |-> 0, missed |-> "nothing"] \in History
  BY SMT DEF History, Failures, Missed, MAX_FAILED_ATTEMPTS
<1>2. Registered = {}
  BY DEF Init, Registered
<1>3. redeemed \in [Tokens -> 0 .. MaxRedemptions]
  BY SMT DEF Init, MaxRedemptions
<1> QED BY <1>1, <1>2, <1>3 DEF Init, TypeOK

\* register_user keeps the types, and addresses unique: it checks the address.
LEMMA TypeRegister ==
    ASSUME TypeOK, NEW c \in Clients, NEW u \in Users, NEW e \in Emails, NEW p \in Passwords,
           Register(c, u, e, p)
    PROVE  TypeOK'
<1> DEFINE r == [email |-> e, password |-> p, failed |-> 0, lockLeft |-> 0,
                 token |-> NoToken, tokenLeft |-> 0]
<1>1. r \in Rows
  BY TimeAssumption, SMT DEF Rows, Failures, MAX_FAILED_ATTEMPTS
<1>2. row' = [row EXCEPT ![u] = r] /\ \A v \in Registered : row[v].email # e
  BY DEF Register
<1>3. row' \in [Users -> Rows \cup {NoRow}]
  BY <1>1, <1>2 DEF TypeOK
<1>4. \A v \in Users : row'[v] = IF v = u THEN r ELSE row[v]
  BY <1>2 DEF TypeOK
<1>5. Registered' = Registered \cup {u}
  BY <1>1, <1>4, RowAssumption DEF Registered
<1>6. \A v, w \in Registered' : row'[v].email = row'[w].email => v = w
  <2> SUFFICES ASSUME NEW v \in Registered', NEW w \in Registered',
                      row'[v].email = row'[w].email
               PROVE  v = w
    OBVIOUS
  <2>1. v \in Users /\ w \in Users
    BY DEF Registered
  <2>2. r.email = e
    OBVIOUS
  <2>3. CASE v # u /\ w # u
    BY <1>4, <1>5, <2>1, <2>3 DEF TypeOK
  <2>4. CASE v = u /\ w # u
    BY <1>2, <1>4, <1>5, <2>1, <2>2, <2>4
  <2>5. CASE v # u /\ w = u
    BY <1>2, <1>4, <1>5, <2>1, <2>2, <2>5
  <2> QED BY <2>3, <2>4, <2>5
<1> QED BY <1>3, <1>6 DEF Register, TypeOK

\* The read of authenticate keeps the types.
LEMMA TypeBeginLogin ==
    ASSUME TypeOK, NEW c \in Clients, NEW u \in Users, NEW p \in Passwords,
           BeginLogin(c, u, p)
    PROVE  TypeOK'
<1>1. row[u] \in Rows
  BY RowType DEF BeginLogin
<1>2. [op |-> "login", user |-> u, right |-> (p = row[u].password),
       failed |-> row[u].failed, missed |-> "nothing"] \in Logins
  BY <1>1 DEF Logins, Rows, Missed
<1>3. client' \in [Clients -> {Idle} \cup Logins \cup Resets]
  BY <1>2 DEF BeginLogin, TypeOK
<1>4. UNCHANGED <<row, loggedIn, inbox, issued, redeemed, hist>>
  BY DEF BeginLogin
<1>5. Registered' = Registered
  BY <1>4 DEF Registered
<1> QED BY <1>3, <1>4, <1>5 DEF TypeOK

\* Its write after a right password does.
LEMMA TypeRightPassword ==
    ASSUME TypeOK, NEW c \in Clients, RightPassword(c), client[c].user \in Registered
    PROVE  TypeOK'
<1> DEFINE u == client[c].user
           r == [row[u] EXCEPT !.failed = 0, !.lockLeft = 0]
<1>1. u \in Users /\ row[u] \in Rows
  BY RowType
<1>0. 0 \in Failures /\ 0 \in 0 .. LockTicks
  BY TimeAssumption, SMT DEF Failures, MAX_FAILED_ATTEMPTS
<1>2. r \in Rows /\ r.email = row[u].email
  BY <1>0, <1>1 DEF Rows
<1>3. row' = [row EXCEPT ![u] = r]
  BY <1>1 DEF RightPassword, TypeOK
<1>4. /\ row' \in [Users -> Rows \cup {NoRow}]
      /\ \A v, w \in Registered' : row'[v].email = row'[w].email => v = w
  BY <1>2, <1>3, WriteRow
<1>5. /\ client' \in [Clients -> {Idle} \cup Logins \cup Resets]
      /\ hist' \in [Users -> History]
  BY <1>1, ClearsType DEF RightPassword
<1> QED BY <1>1, <1>4, <1>5 DEF RightPassword, TypeOK

\* Its write after a wrong one does; the counter stays within its bound.
LEMMA TypeWrongPassword ==
    ASSUME TypeOK, NEW c \in Clients, WrongPassword(c), client[c].user \in Registered
    PROVE  TypeOK'
<1> DEFINE u == client[c].user
           n == OneMore(client[c].failed)
           lock == IF n >= MAX_FAILED_ATTEMPTS THEN LockTicks ELSE 0
           r == [row[u] EXCEPT !.failed = n, !.lockLeft = lock]
<1>1. u \in Users /\ row[u] \in Rows
  BY RowType
<1>2. client[c] \in Logins
  BY OpenLogin DEF WrongPassword
<1>3. n \in Failures /\ client[c].missed \in Missed
  BY <1>2, OneMoreType DEF Logins
<1>4. lock \in 0 .. LockTicks
  BY TimeAssumption, SMT
<1>5. r \in Rows /\ r.email = row[u].email
  BY <1>1, <1>3, <1>4 DEF Rows
<1>6. row' = [row EXCEPT ![u] = r]
  BY <1>1 DEF WrongPassword, TypeOK
<1>7. /\ row' \in [Users -> Rows \cup {NoRow}]
      /\ \A v, w \in Registered' : row'[v].email = row'[w].email => v = w
  BY <1>5, <1>6, WriteRow
<1>8. client' \in [Clients -> {Idle} \cup Logins \cup Resets]
  BY <1>1, CommitType DEF WrongPassword, Missed
<1>9. hist' \in [Users -> History]
  BY <1>1, <1>3, NotedType DEF WrongPassword
<1> QED BY <1>7, <1>8, <1>9 DEF WrongPassword, TypeOK

\* generate_password_reset_token keeps the types, links only ever being issued
\* ones.
LEMMA TypeRequestReset ==
    ASSUME TypeOK, NEW c \in Clients, NEW u \in Users, NEW t \in Tokens, RequestReset(c, u, t)
    PROVE  TypeOK'
<1> DEFINE r == [row[u] EXCEPT !.token = t, !.tokenLeft = TokenTicks]
<1>1. u \in Registered /\ row[u] \in Rows
  BY RowType DEF RequestReset
<1>2. TokenTicks \in 0 .. TokenTicks
  BY TimeAssumption, SMT
<1>3. r \in Rows /\ r.email = row[u].email
  BY <1>1, <1>2 DEF Rows
<1>4. row' = [row EXCEPT ![u] = r]
  BY DEF RequestReset, TypeOK
<1>5. /\ row' \in [Users -> Rows \cup {NoRow}]
      /\ \A v, w \in Registered' : row'[v].email = row'[w].email => v = w
  BY <1>1, <1>3, <1>4, WriteRow
<1> QED BY <1>5 DEF RequestReset, TypeOK

\* The read of reset_password_with_token keeps the types.
LEMMA TypeBeginReset ==
    ASSUME TypeOK, NEW c \in Clients, NEW t \in Tokens, NEW p \in Passwords,
           BeginReset(c, t, p)
    PROVE  TypeOK'
<1>1. PICK u \in Registered :
          client' = [client EXCEPT ![c] = [op |-> "reset", user |-> u, token |-> t,
                                           password |-> p, missed |-> "nothing"]]
  BY DEF BeginReset
<1>2. [op |-> "reset", user |-> u, token |-> t, password |-> p, missed |-> "nothing"] \in Resets
  BY RowType DEF Resets, Missed
<1>3. client' \in [Clients -> {Idle} \cup Logins \cup Resets]
  BY <1>1, <1>2 DEF TypeOK
<1>4. UNCHANGED <<row, loggedIn, inbox, issued, redeemed, hist>>
  BY DEF BeginReset
<1>5. Registered' = Registered
  BY <1>4 DEF Registered
<1> QED BY <1>3, <1>4, <1>5 DEF TypeOK

\* Its write does.
LEMMA TypeEndReset ==
    ASSUME TypeOK, NEW c \in Clients, EndReset(c), client[c].user \in Registered
    PROVE  TypeOK'
<1> DEFINE u == client[c].user
           r == [row[u] EXCEPT !.password = client[c].password, !.failed = 0, !.lockLeft = 0,
                               !.token = NoToken, !.tokenLeft = 0]
<1>1. u \in Users /\ row[u] \in Rows
  BY RowType
<1>2. client[c] \in Resets
  BY OpenReset DEF EndReset
<1>3. client[c].password \in Passwords /\ client[c].token \in Tokens
  BY <1>2 DEF Resets
<1>4. 0 \in Failures /\ 0 \in 0 .. LockTicks /\ 0 \in 0 .. TokenTicks
  BY TimeAssumption, SMT DEF Failures, MAX_FAILED_ATTEMPTS
<1>5. r \in Rows /\ r.email = row[u].email
  BY <1>1, <1>3, <1>4 DEF Rows
<1>6. row' = [row EXCEPT ![u] = r]
  BY <1>1 DEF EndReset, TypeOK
<1>7. /\ row' \in [Users -> Rows \cup {NoRow}]
      /\ \A v, w \in Registered' : row'[v].email = row'[w].email => v = w
  BY <1>5, <1>6, WriteRow
<1>8. /\ client' \in [Clients -> {Idle} \cup Logins \cup Resets]
      /\ hist' \in [Users -> History]
  BY <1>1, ClearsType DEF EndReset
<1>9. redeemed' \in [Tokens -> 0 .. MaxRedemptions]
  <2> DEFINE n == redeemed[client[c].token]
             m == IF n < MaxRedemptions THEN n + 1 ELSE n
  <2>1. redeemed' = [redeemed EXCEPT ![client[c].token] = m]
    BY <1>1 DEF EndReset, Redeems, TypeOK
  <2>2. m \in 0 .. MaxRedemptions
    BY <1>3 DEF TypeOK, MaxRedemptions
  <2> QED BY <2>1, <2>2 DEF TypeOK
<1> QED BY <1>7, <1>8, <1>9 DEF EndReset, TypeOK

\* What a tick makes of the rows: it registers nobody and counts both times of
\* every account down.
LEMMA TickRows ==
    ASSUME TypeOK, Tick
    PROVE  /\ Registered' = Registered
           /\ \A u \in Registered : /\ row'[u] \in Rows
                                    /\ row'[u] = [row[u] EXCEPT !.lockLeft = Down(@),
                                                                !.tokenLeft = Down(@)]
           /\ \A u \in Users \ Registered : row'[u] = NoRow
<1>1. \A u \in Registered : row'[u] = [row[u] EXCEPT !.lockLeft = Down(@),
                                                     !.tokenLeft = Down(@)]
  BY DEF Tick, Registered
<1>2. \A u \in Registered : row'[u] \in Rows
  <2> TAKE u \in Registered
  <2>1. row[u] \in Rows
    BY RowType
  <2>2. Down(row[u].lockLeft) \in 0 .. LockTicks /\ Down(row[u].tokenLeft) \in 0 .. TokenTicks
    BY <2>1, DownType, TimeAssumption DEF Rows
  <2> QED BY <1>1, <2>1, <2>2 DEF Rows
<1>3. \A u \in Users \ Registered : row'[u] = NoRow
  BY DEF Tick, Registered
<1>4. Registered' = Registered
  BY <1>2, <1>3, RowAssumption DEF Registered
<1> QED BY <1>1, <1>2, <1>3, <1>4

\* The clock keeps the types.
LEMMA TypeTick == ASSUME TypeOK, Tick PROVE TypeOK'
<1>1. row' \in [Users -> Rows \cup {NoRow}]
  BY TickRows DEF Tick
<1>2. \A v, w \in Registered' : row'[v].email = row'[w].email => v = w
  <2>1. \A v \in Registered : row'[v].email = row[v].email
    <3> TAKE v \in Registered
    <3>1. row[v] \in Rows
      BY RowType
    <3> QED BY <3>1, TickRows DEF Rows
  <2> QED BY <2>1, TickRows DEF TypeOK
<1> QED BY <1>1, <1>2 DEF Tick, TypeOK

-----------------------------------------------------------------------------
(* The inductive invariant.  What a session in a transaction read is related *)
(* to the counter and to the history by how much it has missed since.       *)

\* Transactions under way are about registered users.
OpenInv == \A c \in Clients : client[c] # Idle => client[c].user \in Registered

\* An account that does not exist has no history.
FreshInv == \A u \in Users \ Registered : hist[u] = [wrong |-> 0, missed |-> "nothing"]

\* The counter, the history and the lock of each account.
RowInv ==
    \A u \in Registered :
        /\ hist[u].missed = "nothing" => row[u].failed = hist[u].wrong
        /\ hist[u].missed = "failure" => row[u].failed <= hist[u].wrong
        /\ row[u].lockLeft > 0 => row[u].failed = MAX_FAILED_ATTEMPTS

\* What a login read, against the counter and the history now.
ReadInv ==
    \A c \in Clients :
        client[c].op = "login" =>
            LET u == client[c].user
            IN  /\ client[c].missed = "nothing" => client[c].failed = row[u].failed
                /\ client[c].missed # "clear" /\ hist[u].missed # "clear"
                      => client[c].failed <= hist[u].wrong

Inv == TypeOK /\ OpenInv /\ FreshInv /\ RowInv /\ ReadInv

\* The invariant holds of an empty database.
LEMMA InvInit == Init => Inv
<1> SUFFICES ASSUME Init PROVE Inv
  OBVIOUS
<1>1. TypeOK
  BY TypeInit
<1>2. Registered = {}
  BY DEF Init, Registered
<1>3. \A c \in Clients : client[c] = Idle /\ client[c].op # "login"
  BY DEF Init, Idle
<1>4. FreshInv
  BY DEF Init, FreshInv
<1> QED BY <1>1, <1>2, <1>3, <1>4 DEF Inv, OpenInv, RowInv, ReadInv

\* Types preserved by every step.
LEMMA TypeStep == Inv /\ [Next]_vars => TypeOK'
<1> SUFFICES ASSUME Inv, [Next]_vars PROVE TypeOK'
  OBVIOUS
<1>0. TypeOK /\ \A c \in Clients : client[c] # Idle => client[c].user \in Registered
  BY DEF Inv, OpenInv
<1>1. ASSUME NEW c \in Clients, Session(c) PROVE TypeOK'
  <2>0. client[c].op \in {"login", "reset"} => client[c].user \in Registered
    BY <1>0 DEF Idle
  <2>1. CASE \E u \in Users, e \in Emails, p \in Passwords : Register(c, u, e, p)
    BY <1>0, <2>1, TypeRegister
  <2>2. CASE \E u \in Users, p \in Passwords : BeginLogin(c, u, p)
    BY <1>0, <2>2, TypeBeginLogin
  <2>3. CASE \E u \in Users, t \in Tokens : RequestReset(c, u, t)
    BY <1>0, <2>3, TypeRequestReset
  <2>4. CASE \E t \in Tokens, p \in Passwords : BeginReset(c, t, p)
    BY <1>0, <2>4, TypeBeginReset
  <2>5. CASE RightPassword(c)
    BY <1>0, <2>0, <2>5, TypeRightPassword DEF RightPassword
  <2>6. CASE WrongPassword(c)
    BY <1>0, <2>0, <2>6, TypeWrongPassword DEF WrongPassword
  <2>7. CASE EndReset(c)
    BY <1>0, <2>0, <2>7, TypeEndReset DEF EndReset
  <2>8. CASE Logout(c)
    BY <1>0, <2>8 DEF Logout, TypeOK, Registered
  <2>9. CASE Disconnect(c)
    BY <1>0, <2>9 DEF Disconnect, TypeOK, Registered
  <2> QED BY <1>1, <2>1, <2>2, <2>3, <2>4, <2>5, <2>6, <2>7, <2>8, <2>9 DEF Session
<1>2. CASE Tick
  BY <1>0, <1>2, TypeTick
<1>3. CASE UNCHANGED vars
  BY <1>0, <1>3 DEF vars, TypeOK, Registered
<1> QED BY <1>1, <1>2, <1>3 DEF Next

\* What a commit to the row of u does to the transactions still open.
LEMMA CommitClients ==
    ASSUME TypeOK, NEW c \in Clients, NEW u \in Users, NEW what \in Missed, Commit(c, u, what)
    PROVE  /\ client'[c] = Idle
           /\ \A d \in Clients \ {c} :
                 /\ client'[d].op = client[d].op
                 /\ client'[d] # Idle => client[d] # Idle
                 /\ client[d] # Idle => client'[d].user = client[d].user
                 /\ client[d].op = "login" =>
                       /\ client'[d].failed = client[d].failed
                       /\ client'[d].missed = IF client[d].user # u THEN client[d].missed
                                              ELSE IF client[d].missed = "clear" THEN "clear"
                                              ELSE what
<1>1. client'[c] = Idle
  BY DEF Commit
<1>2. ASSUME NEW d \in Clients \ {c}
      PROVE  /\ client'[d].op = client[d].op
             /\ client'[d] # Idle => client[d] # Idle
             /\ client[d] # Idle => client'[d].user = client[d].user
             /\ client[d].op = "login" =>
                   /\ client'[d].failed = client[d].failed
                   /\ client'[d].missed = IF client[d].user # u THEN client[d].missed
                                          ELSE IF client[d].missed = "clear" THEN "clear"
                                          ELSE what
  <2> DEFINE miss == IF client[d].missed = "clear" THEN "clear" ELSE what
  <2>1. CASE client[d] # Idle /\ client[d].user = u
    <3>1. client'[d] = [client[d] EXCEPT !.missed = miss]
      BY <2>1 DEF Commit
    <3>2. CASE client[d] \in Logins
      BY <2>1, <3>1, <3>2, SMT DEF Logins
    <3>3. CASE client[d] \in Resets
      BY <2>1, <3>1, <3>3, SMT DEF Resets
    <3> QED BY <2>1, <3>2, <3>3, OpenEither
  <2>2. CASE client[d] = Idle
    BY <2>2 DEF Commit, Idle
  <2>3. CASE client[d] # Idle /\ client[d].user # u
    BY <2>3 DEF Commit
  <2> QED BY <2>1, <2>2, <2>3
<1> QED BY <1>1, <1>2

\* A commit changes no other session's token, and what a session missed it
\* goes on having missed.
LEMMA CommitTokens ==
    ASSUME TypeOK, NEW c \in Clients, NEW u \in Users, NEW what \in Missed, Commit(c, u, what)
    PROVE  \A d \in Clients : client'[d].op = "reset" =>
              /\ client'[d].token = client[d].token
              /\ client[d].missed = "clear" \/ (what = "clear" /\ client[d].user = u)
                    => client'[d].missed = "clear"
<1> SUFFICES ASSUME NEW d \in Clients, client'[d].op = "reset"
             PROVE  /\ client'[d].token = client[d].token
                    /\ client[d].missed = "clear" \/ (what = "clear" /\ client[d].user = u)
                          => client'[d].missed = "clear"
  OBVIOUS
<1> DEFINE miss == IF client[d].missed = "clear" THEN "clear" ELSE what
<1>1. CASE d # c /\ client[d] # Idle /\ client[d].user = u
  <2>1. client'[d] = [client[d] EXCEPT !.missed = miss]
    BY <1>1 DEF Commit
  <2>2. CASE client[d] \in Logins
    BY <2>1, <2>2, SMT DEF Logins
  <2>3. CASE client[d] \in Resets
    BY <2>1, <2>3, SMT DEF Resets
  <2> QED BY <1>1, <2>2, <2>3, OpenEither
<1>2. CASE d = c
  BY <1>2 DEF Commit, Idle
<1>3. CASE d # c /\ ~(client[d] # Idle /\ client[d].user = u)
  BY <1>3 DEF Commit, Idle
<1> QED BY <1>1, <1>2, <1>3

\* A success and a reset settle the account's past.
LEMMA ClearStep ==
    ASSUME Inv, NEW c \in Clients, NEW u \in Registered, Clears(c, u),
           NEW r \in Rows, row' = [row EXCEPT ![u] = r], r.email = row[u].email,
           r.failed = 0, r.lockLeft = 0
    PROVE  OpenInv' /\ FreshInv' /\ RowInv' /\ ReadInv'
<1>1. TypeOK /\ u \in Users
  BY RowType DEF Inv
<1>2. Registered' = Registered
  BY <1>1, WriteRow
<1>3. \A v \in Registered : row'[v] = IF v = u THEN r ELSE row[v]
  BY <1>1 DEF TypeOK, Registered
<1>4. \A v \in Users : hist'[v] = IF v = u THEN [wrong |-> 0, missed |-> "nothing"] ELSE hist[v]
  BY <1>1 DEF Clears, TypeOK
<1>5. "clear" \in Missed /\ Commit(c, u, "clear")
  BY DEF Clears, Missed
<1>6. OpenInv'
  BY <1>1, <1>2, <1>5, CommitClients DEF OpenInv, Inv
<1>7. FreshInv'
  BY <1>2, <1>4 DEF FreshInv, Inv
<1>8. RowInv'
  <2> SUFFICES ASSUME NEW v \in Registered
               PROVE  /\ hist'[v].missed = "nothing" => row'[v].failed = hist'[v].wrong
                      /\ hist'[v].missed = "failure" => row'[v].failed <= hist'[v].wrong
                      /\ row'[v].lockLeft > 0 => row'[v].failed = MAX_FAILED_ATTEMPTS
    BY <1>2 DEF RowInv
  <2>1. v \in Users
    BY DEF Registered
  <2>2. CASE v = u
    BY <1>3, <1>4, <2>1, <2>2, SMT
  <2>3. CASE v # u
    BY <1>3, <1>4, <2>1, <2>3 DEF RowInv, Inv
  <2> QED BY <2>2, <2>3
<1>9. ReadInv'
  <2> SUFFICES ASSUME NEW d \in Clients, client'[d].op = "login"
               PROVE  /\ client'[d].missed = "nothing"
                            => client'[d].failed = row'[client'[d].user].failed
                      /\ client'[d].missed # "clear" /\ hist'[client'[d].user].missed # "clear"
                            => client'[d].failed <= hist'[client'[d].user].wrong
    BY DEF ReadInv
  <2>1. d # c
    BY <1>1, <1>5, CommitClients DEF Idle
  <2>2. client[d].op = "login" /\ client[d] # Idle /\ client'[d].user = client[d].user
    BY <1>1, <1>5, <2>1, CommitClients DEF Idle
  <2>3. client[d].user \in Registered /\ client[d].user \in Users
    BY <2>2, RowType DEF Inv, OpenInv
  <2>4. CASE client[d].user = u
    <3>1. client'[d].missed = "clear"
      BY <1>1, <1>5, <2>1, <2>2, <2>4, CommitClients
    <3> QED BY <3>1
  <2>5. CASE client[d].user # u
    <3>1. client'[d].missed = client[d].missed /\ client'[d].failed = client[d].failed
      BY <1>1, <1>5, <2>1, <2>2, <2>5, CommitClients
    <3> QED BY <1>3, <1>4, <2>2, <2>3, <2>5, <3>1 DEF ReadInv, Inv
  <2> QED BY <2>4, <2>5
<1> QED BY <1>6, <1>7, <1>8, <1>9

\* A failure is counted from what the session read.
LEMMA WrongStep ==
    ASSUME Inv, NEW c \in Clients, WrongPassword(c)
    PROVE  OpenInv' /\ FreshInv' /\ RowInv' /\ ReadInv'
<1> DEFINE u == client[c].user
           m == client[c].missed
           n == OneMore(client[c].failed)
           lock == IF n >= MAX_FAILED_ATTEMPTS THEN LockTicks ELSE 0
           r == [row[u] EXCEPT !.failed = n, !.lockLeft = lock]
<1>1. TypeOK /\ client[c] \in Logins /\ client[c].op = "login"
  BY OpenLogin DEF Inv, WrongPassword
<1>2. u \in Registered /\ u \in Users /\ row[u] \in Rows
  BY <1>1, RowType DEF Inv, OpenInv, Idle
<1>3. n \in Failures /\ client[c].failed \in Failures /\ m \in Missed
  BY <1>1, OneMoreType DEF Logins
<1>4. lock \in 0 .. LockTicks
  BY TimeAssumption, SMT
<1>5. r \in Rows /\ r.email = row[u].email /\ r.failed = n /\ r.lockLeft = lock
  BY <1>2, <1>3, <1>4 DEF Rows
<1>6. row' = [row EXCEPT ![u] = r]
  BY <1>2 DEF WrongPassword, TypeOK
<1>7. Registered' = Registered
  BY <1>1, <1>2, <1>5, <1>6, WriteRow
<1>8. \A v \in Registered : row'[v] = IF v = u THEN r ELSE row[v]
  BY <1>1, <1>6 DEF TypeOK, Registered
<1>9. "failure" \in Missed /\ Commit(c, u, "failure") /\ Noted(u, m)
  BY DEF WrongPassword, Missed
<1>10. /\ \A v \in Users \ {u} : hist'[v] = hist[v]
       /\ hist'[u].wrong = OneMore(hist[u].wrong)
       /\ hist'[u].missed = IF m = "nothing" \/ hist[u].missed = "clear"
                            THEN hist[u].missed ELSE m
  BY <1>1, <1>2, <1>9 DEF Noted, TypeOK
<1>11. hist[u].wrong \in Failures /\ hist[u].missed \in Missed /\ row[u].failed \in Failures
  BY <1>1, <1>2 DEF TypeOK, History, Rows
<1>12. /\ m = "nothing" => client[c].failed = row[u].failed
       /\ m # "clear" /\ hist[u].missed # "clear" => client[c].failed <= hist[u].wrong
  BY <1>1 DEF Inv, ReadInv
<1>13. /\ hist[u].missed = "nothing" => row[u].failed = hist[u].wrong
       /\ hist[u].missed = "failure" => row[u].failed <= hist[u].wrong
  BY <1>2 DEF Inv, RowInv
<1>14. OpenInv'
  BY <1>1, <1>2, <1>7, <1>9, CommitClients DEF OpenInv, Inv
<1>15. FreshInv'
  BY <1>2, <1>7, <1>10 DEF FreshInv, Inv
<1>16. RowInv'
  <2> SUFFICES ASSUME NEW v \in Registered
               PROVE  /\ hist'[v].missed = "nothing" => row'[v].failed = hist'[v].wrong
                      /\ hist'[v].missed = "failure" => row'[v].failed <= hist'[v].wrong
                      /\ row'[v].lockLeft > 0 => row'[v].failed = MAX_FAILED_ATTEMPTS
    BY <1>7 DEF RowInv
  <2>1. v \in Users
    BY DEF Registered
  <2>2. CASE v # u
    BY <1>8, <1>10, <2>1, <2>2 DEF RowInv, Inv
  <2>3. CASE v = u
    <3>1. row'[u].failed = n /\ row'[u].lockLeft = lock
      BY <1>2, <1>5, <1>8
    <3>2. lock > 0 => n = MAX_FAILED_ATTEMPTS
      BY <1>3, TimeAssumption, SMT DEF Failures, MAX_FAILED_ATTEMPTS
    <3>3. hist'[u].missed = "nothing" => n = OneMore(hist[u].wrong)
      BY <1>3, <1>10, <1>11, <1>12, <1>13 DEF Missed
    <3>4. hist'[u].missed = "failure" => client[c].failed <= hist[u].wrong
      <4> HAVE hist'[u].missed = "failure"
      <4>1. CASE m = "nothing"
        BY <1>10, <1>12, <1>13, <4>1
      <4>2. CASE m = "failure"
        BY <1>3, <1>10, <1>11, <1>12, <1>13, <4>2
      <4>3. CASE m = "clear"
        BY <1>10, <4>3
      <4> QED BY <1>3, <4>1, <4>2, <4>3 DEF Missed
    <3>5. hist'[u].missed = "failure" => n <= OneMore(hist[u].wrong)
      BY <1>3, <1>11, <3>4, SMT DEF OneMore, Failures, MAX_FAILED_ATTEMPTS
    <3> QED BY <1>10, <2>3, <3>1, <3>2, <3>3, <3>5
  <2> QED BY <2>2, <2>3
<1>17. ReadInv'
  <2> SUFFICES ASSUME NEW d \in Clients, client'[d].op = "login"
               PROVE  /\ client'[d].missed = "nothing"
                            => client'[d].failed = row'[client'[d].user].failed
                      /\ client'[d].missed # "clear" /\ hist'[client'[d].user].missed # "clear"
                            => client'[d].failed <= hist'[client'[d].user].wrong
    BY DEF ReadInv
  <2>1. d # c
    BY <1>1, <1>2, <1>9, CommitClients DEF Idle
  <2>2. /\ client[d].op = "login" /\ client[d] # Idle /\ client'[d].user = client[d].user
        /\ client'[d].failed = client[d].failed
    BY <1>1, <1>2, <1>9, <2>1, CommitClients DEF Idle
  <2>3. client[d].user \in Registered /\ client[d].user \in Users /\ client[d].failed \in Failures
    BY <1>1, <2>2, RowType, OpenLogin DEF Inv, OpenInv, Logins
  <2>4. CASE client[d].user = u
    <3>1. client'[d].missed = IF client[d].missed = "clear" THEN "clear" ELSE "failure"
      BY <1>1, <1>2, <1>9, <2>1, <2>2, <2>4, CommitClients
    <3>2. hist'[u].missed # "clear" => hist[u].missed # "clear"
      BY <1>10
    <3>3. client[d].missed # "clear" /\ hist[u].missed # "clear"
             => client[d].failed <= hist[u].wrong
      BY <2>2, <2>4 DEF Inv, ReadInv
    <3>4. hist[u].wrong <= OneMore(hist[u].wrong) /\ OneMore(hist[u].wrong) \in Failures
      BY <1>11, SMT DEF OneMore, Failures, MAX_FAILED_ATTEMPTS
    <3>5. client[d].failed <= hist[u].wrong => client[d].failed <= OneMore(hist[u].wrong)
      BY <1>11, <2>3, <3>4, SMT DEF Failures, MAX_FAILED_ATTEMPTS
    <3> QED BY <1>10, <2>2, <2>4, <3>1, <3>2, <3>3, <3>5
  <2>5. CASE client[d].user # u
    <3>1. client'[d].missed = client[d].missed
      BY <1>1, <1>2, <1>9, <2>1, <2>2, <2>5, CommitClients
    <3> QED BY <1>8, <1>10, <2>2, <2>3, <2>5, <3>1 DEF ReadInv, Inv
  <2> QED BY <2>4, <2>5
<1> QED BY <1>14, <1>15, <1>16, <1>17

\* A new account starts with a clear record, and disturbs no open transaction:
\* those are on registered names.
LEMMA RegisterStep ==
    ASSUME Inv, NEW c \in Clients, NEW u \in Users, NEW e \in Emails, NEW p \in Passwords,
           Register(c, u, e, p)
    PROVE  OpenInv' /\ FreshInv' /\ RowInv' /\ ReadInv'
<1> DEFINE r == [email |-> e, password |-> p, failed |-> 0, lockLeft |-> 0,
                 token |-> NoToken, tokenLeft |-> 0]
<1>1. u \notin Registered /\ row' = [row EXCEPT ![u] = r] /\ UNCHANGED <<client, hist>>
  BY DEF Register
<1>2. \A v \in Users : row'[v] = IF v = u THEN r ELSE row[v]
  BY <1>1 DEF Inv, TypeOK
<1>3. r \in Rows
  BY TimeAssumption, SMT DEF Rows, Failures, MAX_FAILED_ATTEMPTS
<1>4. Registered' = Registered \cup {u}
  BY <1>2, <1>3, RowAssumption DEF Registered
<1>5. hist[u] = [wrong |-> 0, missed |-> "nothing"]
  BY <1>1 DEF Inv, FreshInv
<1>6. OpenInv' /\ FreshInv'
  BY <1>1, <1>4 DEF Inv, OpenInv, FreshInv
<1>7. RowInv'
  <2> SUFFICES ASSUME NEW v \in Registered \cup {u}
               PROVE  /\ hist[v].missed = "nothing" => row'[v].failed = hist[v].wrong
                      /\ hist[v].missed = "failure" => row'[v].failed <= hist[v].wrong
                      /\ row'[v].lockLeft > 0 => row'[v].failed = MAX_FAILED_ATTEMPTS
    BY <1>1, <1>4 DEF RowInv
  <2>1. CASE v = u
    <3>1. row'[u].failed = 0 /\ row'[u].lockLeft = 0
      BY <1>2
    <3>2. ~(0 > 0)
      BY SMT
    <3> QED BY <1>5, <2>1, <3>1, <3>2
  <2>2. CASE v # u
    BY <1>2, <2>2 DEF Inv, RowInv, Registered
  <2> QED BY <2>1, <2>2
<1>8. ReadInv'
  <2> SUFFICES ASSUME NEW d \in Clients, client[d].op = "login"
               PROVE  client[d].user # u /\ client[d].user \in Users
    BY <1>1, <1>2 DEF Inv, ReadInv
  <2> QED BY <1>1 DEF Inv, OpenInv, Idle, Registered
<1> QED BY <1>6, <1>7, <1>8

\* A session begins a transaction of its own, the accounts standing still.
LEMMA BeginStep ==
    ASSUME Inv, NEW c \in Clients, NEW new \in Logins \cup Resets,
           client' = [client EXCEPT ![c] = new], UNCHANGED <<row, hist>>,
           new.user \in Registered,
           new.op = "login" => new.failed = row[new.user].failed
    PROVE  OpenInv' /\ FreshInv' /\ RowInv' /\ ReadInv'
<1>1. Registered' = Registered
  BY DEF Registered
<1>2. \A d \in Clients : client'[d] = IF d = c THEN new ELSE client[d]
  BY DEF Inv, TypeOK
<1>3. OpenInv' /\ FreshInv' /\ RowInv'
  BY <1>1, <1>2 DEF Inv, OpenInv, FreshInv, RowInv
<1>4. ReadInv'
  <2> SUFFICES ASSUME NEW d \in Clients, client'[d].op = "login"
               PROVE  /\ client'[d].missed = "nothing"
                            => client'[d].failed = row[client'[d].user].failed
                      /\ client'[d].missed # "clear" /\ hist[client'[d].user].missed # "clear"
                            => client'[d].failed <= hist[client'[d].user].wrong
    BY DEF ReadInv
  <2>1. CASE d # c
    BY <1>2, <2>1 DEF Inv, ReadInv
  <2>2. CASE d = c
    <3> DEFINE u == new.user
    <3>1. client'[d] = new /\ new.failed = row[u].failed
      BY <1>2, <2>2
    <3>2. u \in Registered /\ u \in Users /\ row[u].failed \in Failures
          /\ hist[u].missed \in Missed /\ hist[u].wrong \in Failures
      BY RowType DEF Inv, TypeOK, Rows, History
    <3>3. hist[u].missed # "clear" => row[u].failed <= hist[u].wrong
      <4>1. CASE hist[u].missed = "nothing"
        BY <3>2, <4>1, SMT DEF Inv, RowInv, Failures, MAX_FAILED_ATTEMPTS
      <4>2. CASE hist[u].missed = "failure"
        BY <3>2, <4>2 DEF Inv, RowInv
      <4> QED BY <3>2, <4>1, <4>2 DEF Missed
    <3> QED BY <3>1, <3>3
  <2> QED BY <2>1, <2>2
<1> QED BY <1>3, <1>4

\* Transactions may be dropped, and rows may change in what the invariant does
\* not read or lose time, without disturbing it.
LEMMA QuietStep ==
    ASSUME Inv, UNCHANGED hist, Registered' = Registered,
           \A d \in Clients : client'[d] = client[d] \/ client'[d] = Idle,
           \A u \in Registered : /\ row'[u].failed = row[u].failed
                                 /\ row'[u].lockLeft > 0 => row[u].lockLeft > 0
    PROVE  OpenInv' /\ FreshInv' /\ RowInv' /\ ReadInv'
<1>1. OpenInv' /\ FreshInv'
  BY DEF Inv, OpenInv, FreshInv
<1>2. RowInv'
  BY DEF Inv, RowInv
<1>3. ReadInv'
  <2> SUFFICES ASSUME NEW d \in Clients, client'[d].op = "login"
               PROVE  client'[d] = client[d] /\ client[d].user \in Registered
    BY DEF Inv, ReadInv
  <2>1. client'[d] = client[d] /\ client[d] # Idle
    BY DEF Idle
  <2> QED BY <2>1 DEF Inv, OpenInv
<1> QED BY <1>1, <1>2, <1>3

\* Every step preserves the invariant, one case per action.
LEMMA InvStep == Inv /\ [Next]_vars => Inv'
<1> SUFFICES ASSUME Inv, [Next]_vars PROVE Inv'
  OBVIOUS
<1>0. TypeOK'
  BY TypeStep
<1> DEFINE Rest == OpenInv' /\ FreshInv' /\ RowInv' /\ ReadInv'
<1>1. ASSUME NEW c \in Clients, Session(c) PROVE Rest
  <2>0. client[c].op \in {"login", "reset"} => client[c].user \in Registered
    BY DEF Inv, OpenInv, Idle
  <2>1. CASE \E u \in Users, e \in Emails, p \in Passwords : Register(c, u, e, p)
    BY <2>1, RegisterStep
  <2>2. ASSUME NEW u \in Users, NEW p \in Passwords, BeginLogin(c, u, p) PROVE Rest
    <3> DEFINE new == [op |-> "login", user |-> u, right |-> (p = row[u].password),
                       failed |-> row[u].failed, missed |-> "nothing"]
    <3>1. u \in Registered /\ client' = [client EXCEPT ![c] = new] /\ UNCHANGED <<row, hist>>
      BY <2>2 DEF BeginLogin
    <3>2. new \in Logins
      BY <3>1, RowType DEF Inv, Logins, Rows, Missed
    <3> HIDE DEF Rest
    <3> QED BY <3>1, <3>2, BeginStep DEF Rest
  <2>3. ASSUME NEW u \in Users, NEW t \in Tokens, RequestReset(c, u, t) PROVE Rest
    <3> DEFINE r == [row[u] EXCEPT !.token = t, !.tokenLeft = TokenTicks]
    <3>1. u \in Registered /\ row[u] \in Rows /\ row' = [row EXCEPT ![u] = r]
      BY <2>3, RowType DEF RequestReset, Inv, TypeOK
    <3>2. TokenTicks \in 0 .. TokenTicks
      BY TimeAssumption, SMT
    <3>3. r \in Rows /\ r.email = row[u].email /\ r.failed = row[u].failed
          /\ r.lockLeft = row[u].lockLeft
      BY <3>1, <3>2 DEF Rows
    <3>4. Registered' = Registered
      BY <3>1, <3>3, WriteRow DEF Inv
    <3>5. \A v \in Registered : row'[v] = IF v = u THEN r ELSE row[v]
      BY <3>1 DEF Inv, TypeOK, Registered
    <3> QED BY <2>3, <3>3, <3>4, <3>5, QuietStep DEF RequestReset
  <2>4. ASSUME NEW t \in Tokens, NEW p \in Passwords, BeginReset(c, t, p) PROVE Rest
    <3>1. PICK u \in Registered :
              client' = [client EXCEPT ![c] = [op |-> "reset", user |-> u, token |-> t,
                                               password |-> p, missed |-> "nothing"]]
      BY <2>4 DEF BeginReset
    <3> DEFINE new == [op |-> "reset", user |-> u, token |-> t, password |-> p,
                       missed |-> "nothing"]
    <3>2. new \in Resets /\ new.op # "login" /\ new.user = u
      BY RowType DEF Inv, Resets, Missed
    <3>3. UNCHANGED <<row, hist>>
      BY <2>4 DEF BeginReset
    <3> HIDE DEF Rest
    <3> QED BY <3>1, <3>2, <3>3, BeginStep DEF Rest
  <2>5. CASE RightPassword(c)
    <3> DEFINE u == client[c].user
               r == [row[u] EXCEPT !.failed = 0, !.lockLeft = 0]
    <3>1. u \in Registered /\ u \in Users /\ row[u] \in Rows /\ Clears(c, u)
      BY <2>0, <2>5, RowType DEF RightPassword, Inv
    <3>2. 0 \in Failures /\ 0 \in 0 .. LockTicks
      BY TimeAssumption, SMT DEF Failures, MAX_FAILED_ATTEMPTS
    <3>3. r \in Rows /\ r.email = row[u].email /\ r.failed = 0 /\ r.lockLeft = 0
      BY <3>1, <3>2 DEF Rows
    <3>4. row' = [row EXCEPT ![u] = r]
      BY <2>5, <3>1 DEF RightPassword, Inv, TypeOK
    <3> QED BY <3>1, <3>3, <3>4, ClearStep
  <2>6. CASE WrongPassword(c)
    BY <2>6, WrongStep
  <2>7. CASE EndReset(c)
    <3> DEFINE u == client[c].user
               r == [row[u] EXCEPT !.password = client[c].password, !.failed = 0,
                                   !.lockLeft = 0, !.token = NoToken, !.tokenLeft = 0]
    <3>1. u \in Registered /\ u \in Users /\ row[u] \in Rows /\ Clears(c, u)
      BY <2>0, <2>7, RowType DEF EndReset, Inv
    <3>2. client[c].password \in Passwords
      BY <2>7, OpenReset DEF EndReset, Inv, Resets
    <3>3. 0 \in Failures /\ 0 \in 0 .. LockTicks /\ 0 \in 0 .. TokenTicks
      BY TimeAssumption, SMT DEF Failures, MAX_FAILED_ATTEMPTS
    <3>4. r \in Rows /\ r.email = row[u].email /\ r.failed = 0 /\ r.lockLeft = 0
      BY <3>1, <3>2, <3>3 DEF Rows
    <3>5. row' = [row EXCEPT ![u] = r]
      BY <2>7, <3>1 DEF EndReset, Inv, TypeOK
    <3> QED BY <3>1, <3>4, <3>5, ClearStep
  <2>8. CASE Logout(c)
    BY <2>8, QuietStep DEF Logout, Registered
  <2>9. CASE Disconnect(c)
    <3>1. \A d \in Clients : client'[d] = client[d] \/ client'[d] = Idle
      BY <2>9 DEF Disconnect, Inv, TypeOK
    <3> QED BY <2>9, <3>1, QuietStep DEF Disconnect, Registered
  <2> QED BY <1>1, <2>1, <2>2, <2>3, <2>4, <2>5, <2>6, <2>7, <2>8, <2>9 DEF Session
<1>2. ASSUME Tick PROVE Rest
  <2>1. ASSUME NEW u \in Registered
        PROVE  /\ row'[u].failed = row[u].failed
               /\ row'[u].lockLeft > 0 => row[u].lockLeft > 0
    <3>1. row[u] \in Rows /\ row'[u].lockLeft = Down(row[u].lockLeft)
          /\ row'[u].failed = row[u].failed
      BY <1>2, TickRows, RowType DEF Inv, Rows
    <3>2. row[u].lockLeft \in 0 .. LockTicks
      BY <3>1 DEF Rows
    <3> QED BY <3>1, <3>2, TimeAssumption, SMT DEF Down
  <2> QED BY <1>2, <2>1, TickRows, QuietStep DEF Tick, Inv
<1>3. ASSUME UNCHANGED vars PROVE Rest
  BY <1>3, QuietStep DEF vars, Registered
<1> QED BY <1>0, <1>1, <1>2, <1>3 DEF Next, Inv

\* The inductive invariant: types, open transactions on registered accounts, and
\* how what a session read relates to what the row and its history hold by now.
THEOREM InvInductive == Spec => []Inv
<1>1. Init => Inv
  BY InvInit
<1>2. Inv /\ [Next]_vars => Inv'
  BY InvStep
<1> QED BY <1>1, <1>2, PTL DEF Spec

-----------------------------------------------------------------------------
(* What follows from it.                                                   *)

\* Every variable keeps its type, and addresses stay unique.
THEOREM TypeCorrect == Spec => []TypeOK
<1>1. Inv => TypeOK
  BY DEF Inv
<1> QED BY <1>1, InvInductive, PTL

\* The failure counter is exact without overlapping attempts, and with them
\* never too high unless an attempt was under way when it was cleared.
THEOREM CounterIsHonest == Spec => []CountIsHonest
<1>1. Inv => CountIsHonest
  BY DEF Inv, RowInv, CountIsHonest
<1> QED BY <1>1, InvInductive, PTL

\* Nobody is locked out short of the threshold, with the same exception.
THEOREM LockOutIsEarned == Spec => []LockIsEarned
<1>1. Inv => LockIsEarned
  <2> SUFFICES ASSUME Inv, NEW u \in Registered, row[u].lockLeft > 0, hist[u].missed # "clear"
               PROVE  hist[u].wrong = MAX_FAILED_ATTEMPTS
    BY DEF LockIsEarned
  <2>1. row[u].failed = MAX_FAILED_ATTEMPTS
    BY DEF Inv, RowInv
  <2>2. hist[u].missed \in Missed /\ hist[u].wrong \in Failures
    BY RowType DEF Inv, TypeOK, History
  <2>3. CASE hist[u].missed = "nothing"
    BY <2>1, <2>3 DEF Inv, RowInv
  <2>4. CASE hist[u].missed = "failure"
    <3>1. MAX_FAILED_ATTEMPTS <= hist[u].wrong
      BY <2>1, <2>4 DEF Inv, RowInv
    <3> QED BY <2>2, <3>1, SMT DEF Failures, MAX_FAILED_ATTEMPTS
  <2> QED BY <2>2, <2>3, <2>4 DEF Missed
<1> QED BY <1>1, InvInductive, PTL

\* A lock-out is cut short only by a success, a reset, or an attempt that read
\* the counter before the account was locked.
THEOREM LockOutRunsItsTime == Spec => LockRunsItsTime
<1> DEFINE Early(u) == row'[u].lockLeft < row[u].lockLeft - 1
           Excused(u) == hist'[u].wrong = 0 \/ hist'[u].missed # "nothing"
<1>1. Inv /\ [Next]_vars => [\A u \in Registered : Early(u) => Excused(u)]_vars
  <2> SUFFICES ASSUME Inv, Next, NEW u \in Registered, Early(u)
               PROVE  Excused(u)
    BY DEF vars
  <2>0. TypeOK /\ u \in Users /\ row[u] \in Rows /\ row[u].lockLeft \in 0 .. LockTicks
    BY RowType DEF Inv, Rows
  <2>1. CASE row'[u].lockLeft = row[u].lockLeft
    BY <2>0, <2>1, TimeAssumption, SMT
  <2>2. ASSUME NEW c \in Clients, Session(c) PROVE Excused(u)
    <3>1. ASSUME NEW v \in Users, NEW e \in Emails, NEW p \in Passwords, Register(c, v, e, p)
          PROVE  row'[u].lockLeft = row[u].lockLeft
      BY <2>0, <3>1 DEF Register, TypeOK, Registered
    <3>2. ASSUME NEW v \in Users, NEW t \in Tokens, RequestReset(c, v, t)
          PROVE  row'[u].lockLeft = row[u].lockLeft
      <4>1. row' = [row EXCEPT ![v] = [row[v] EXCEPT !.token = t, !.tokenLeft = TokenTicks]]
        BY <2>0, <3>2 DEF RequestReset, TypeOK
      <4> QED BY <2>0, <4>1 DEF TypeOK, Rows
    <3>3. ASSUME NEW v \in Users, Clears(c, v), v = u
          PROVE  Excused(u)
      BY <2>0, <3>3 DEF Clears, TypeOK
    <3>4. ASSUME RightPassword(c), client[c].user # u
          PROVE  row'[u].lockLeft = row[u].lockLeft
      BY <2>0, <3>4 DEF RightPassword, TypeOK
    <3>5. ASSUME EndReset(c), client[c].user # u
          PROVE  row'[u].lockLeft = row[u].lockLeft
      BY <2>0, <3>5 DEF EndReset, TypeOK
    <3>6. ASSUME WrongPassword(c), client[c].user # u
          PROVE  row'[u].lockLeft = row[u].lockLeft
      BY <2>0, <3>6 DEF WrongPassword, TypeOK
    <3>7. ASSUME WrongPassword(c), client[c].user = u
          PROVE  Excused(u)
      <4> DEFINE n == OneMore(client[c].failed)
      <4>1. client[c] \in Logins /\ client[c].op = "login"
        BY <2>0, <3>7, OpenLogin DEF WrongPassword
      <4>2. client[c].failed \in Failures /\ client[c].missed \in Missed
        BY <4>1 DEF Logins
      <4>3. row'[u].lockLeft = IF n >= MAX_FAILED_ATTEMPTS THEN LockTicks ELSE 0
        BY <2>0, <3>7 DEF WrongPassword, TypeOK, Rows
      <4>4. ~(n >= MAX_FAILED_ATTEMPTS) /\ row[u].lockLeft > 0
        BY <2>0, <4>3, TimeAssumption, SMT
      <4>5. row[u].failed = MAX_FAILED_ATTEMPTS
        BY <4>4 DEF Inv, RowInv
      <4>6. client[c].failed # row[u].failed
        BY <4>2, <4>4, <4>5, SMT DEF OneMore, Failures, MAX_FAILED_ATTEMPTS
      <4>7. client[c].missed # "nothing"
        BY <3>7, <4>1, <4>6 DEF Inv, ReadInv
      <4>8. hist'[u].missed = IF client[c].missed = "nothing" \/ hist[u].missed = "clear"
                              THEN hist[u].missed ELSE client[c].missed
        BY <2>0, <3>7 DEF WrongPassword, Noted, TypeOK
      <4> QED BY <4>7, <4>8
    <3>8. ASSUME NEW v \in Users, NEW p \in Passwords, BeginLogin(c, v, p) PROVE Excused(u)
      BY <2>1, <3>8 DEF BeginLogin
    <3>9. ASSUME NEW t \in Tokens, NEW p \in Passwords, BeginReset(c, t, p) PROVE Excused(u)
      BY <2>1, <3>9 DEF BeginReset
    <3>10. CASE Logout(c) \/ Disconnect(c)
      BY <2>1, <3>10 DEF Logout, Disconnect
    <3>11. ASSUME RightPassword(c) PROVE Excused(u)
      BY <2>0, <2>1, <3>3, <3>4, <3>11 DEF RightPassword
    <3>12. ASSUME EndReset(c) PROVE Excused(u)
      BY <2>0, <2>1, <3>3, <3>5, <3>12 DEF EndReset
    <3> HIDE DEF Excused, Early
    <3> QED BY <2>1, <2>2, <3>1, <3>2, <3>6, <3>7, <3>8, <3>9, <3>10, <3>11, <3>12 DEF Session
  <2>3. CASE Tick
    <3>1. row'[u].lockLeft = Down(row[u].lockLeft)
      BY <2>0, <2>3, TickRows DEF Rows
    <3> QED BY <2>0, <3>1, TimeAssumption, SMT DEF Down
  <2> QED BY <2>2, <2>3 DEF Next
<1>2. Spec => []Inv
  BY InvInductive
<1> QED BY <1>1, <1>2, PTL DEF Spec, LockRunsItsTime

-----------------------------------------------------------------------------
(* Reset links.  A token belongs to one account at most, the one that a      *)
(* session holding it is about to change, and a redeemed one to none.       *)

LinkInv ==
    /\ \A t \in Tokens : redeemed[t] > 0 => t \in issued
    /\ \A u \in Registered : row[u].token \in issued \cup {NoToken}
    /\ \A u, v \in Registered : u # v /\ row[u].token = row[v].token => row[u].token = NoToken
    /\ \A c \in Clients : client[c].op = "reset" =>
          /\ client[c].token \in issued
          /\ \A v \in Registered : v # client[c].user => row[v].token # client[c].token
    /\ \A c, d \in Clients :
          client[c].op = "reset" /\ client[d].op = "reset" /\ client[c].token = client[d].token
             => client[c].user = client[d].user
    /\ \A u \in Registered : row[u].token \in Tokens => redeemed[row[u].token] = 0
    /\ ReusedOnlyByOverlap

\* A step that only forgets tokens of accounts keeps the links in order.
LEMMA LinkQuiet ==
    ASSUME Inv, LinkInv, UNCHANGED <<issued, redeemed>>, Registered \subseteq Registered',
           \A u \in Registered' :
               (u \in Registered /\ row'[u].token = row[u].token) \/ row'[u].token = NoToken,
           \A c \in Clients : client'[c].op = "reset" =>
               /\ client[c].op = "reset" /\ client'[c].token = client[c].token
               /\ client'[c].user = client[c].user
               /\ client[c].missed = "clear" => client'[c].missed = "clear"
    PROVE  LinkInv'
<1>1. NoToken \notin Tokens
  BY TokenAssumption
<1>2. \A c \in Clients : client[c].op = "reset" => client[c].token \in Tokens
  BY OpenReset DEF Inv, TypeOK, Resets
<1>3. ReusedOnlyByOverlap'
  BY DEF LinkInv, ReusedOnlyByOverlap
<1> QED BY <1>1, <1>2, <1>3 DEF LinkInv

\* Every step preserves what the reset links need: a redeemed token is on file
\* nowhere, and a live one is of one account.
LEMMA LinkStep == Inv /\ LinkInv /\ [Next]_vars => LinkInv'
<1> SUFFICES ASSUME Inv, LinkInv, [Next]_vars PROVE LinkInv'
  OBVIOUS
<1>0. TypeOK
  BY DEF Inv
<1>1. ASSUME NEW c \in Clients, Session(c) PROVE LinkInv'
  <2>0. client[c].op \in {"login", "reset"} => client[c].user \in Registered /\ client[c].user \in Users
    BY RowType DEF Inv, OpenInv, Idle
  <2>1. ASSUME NEW u \in Users, NEW e \in Emails, NEW p \in Passwords, Register(c, u, e, p)
        PROVE  LinkInv'
    <3>1. \A v \in Users : row'[v] = IF v = u
             THEN [email |-> e, password |-> p, failed |-> 0, lockLeft |-> 0,
                   token |-> NoToken, tokenLeft |-> 0]
             ELSE row[v]
      BY <1>0, <2>1 DEF Register, TypeOK
    <3>2. \A v \in Registered' : (v \in Registered /\ row'[v].token = row[v].token)
                                  \/ row'[v].token = NoToken
      BY <3>1 DEF Registered
    <3>3. Registered \subseteq Registered'
      BY <2>1, <3>1 DEF Register, Registered
    <3> QED BY <2>1, <3>2, <3>3, LinkQuiet DEF Register
  <2>2. ASSUME NEW u \in Users, NEW p \in Passwords, BeginLogin(c, u, p) PROVE LinkInv'
    <3>1. \A d \in Clients : client'[d] = client[d] \/ client'[d].op = "login"
      BY <1>0, <2>2 DEF BeginLogin, TypeOK
    <3> QED BY <2>2, <3>1, LinkQuiet DEF BeginLogin, Registered
  <2>3. ASSUME NEW u \in Users, NEW t \in Tokens, RequestReset(c, u, t) PROVE LinkInv'
    <3>1. u \in Registered /\ row[u] \in Rows /\ t \notin issued
      BY <2>3, RowType, <1>0 DEF RequestReset
    <3>2. \A v \in Registered : row'[v] = IF v = u
             THEN [row[u] EXCEPT !.token = t, !.tokenLeft = TokenTicks] ELSE row[v]
      BY <1>0, <2>3 DEF RequestReset, TypeOK, Registered
    <3>3. \A v \in Registered : row'[v].token = IF v = u THEN t ELSE row[v].token
      BY <3>1, <3>2 DEF Rows
    <3>4. Registered' = Registered
      <4> DEFINE r == [row[u] EXCEPT !.token = t, !.tokenLeft = TokenTicks]
      <4>1. row' = [row EXCEPT ![u] = r]
        BY <1>0, <2>3 DEF RequestReset, TypeOK
      <4>2. TokenTicks \in 0 .. TokenTicks
        BY TimeAssumption, SMT
      <4>3. r \in Rows /\ r.email = row[u].email
        BY <3>1, <4>2 DEF Rows
      <4> QED BY <1>0, <3>1, <4>1, <4>3, WriteRow
    <3>5. t # NoToken /\ issued' = issued \cup {t} /\ UNCHANGED <<client, redeemed>>
      BY <2>3, TokenAssumption DEF RequestReset
    <3>6. redeemed[t] = 0
      BY <1>0, <3>1 DEF LinkInv, TypeOK, MaxRedemptions
    <3>7. ReusedOnlyByOverlap'
      BY <3>5 DEF LinkInv, ReusedOnlyByOverlap
    <3> QED BY <3>1, <3>3, <3>4, <3>5, <3>6, <3>7 DEF LinkInv
  <2>4. ASSUME NEW t \in Tokens, NEW p \in Passwords, BeginReset(c, t, p) PROVE LinkInv'
    <3>1. PICK u \in Registered :
              /\ row[u].token = t
              /\ client' = [client EXCEPT ![c] = [op |-> "reset", user |-> u, token |-> t,
                                                  password |-> p, missed |-> "nothing"]]
      BY <2>4 DEF BeginReset
    <3>2. t \in issued /\ t # NoToken /\ UNCHANGED <<row, issued, redeemed>>
      BY <1>0, <2>4, TokenAssumption DEF BeginReset, TypeOK
    <3>3. \A d \in Clients : client'[d] = IF d = c
             THEN [op |-> "reset", user |-> u, token |-> t, password |-> p, missed |-> "nothing"]
             ELSE client[d]
      BY <1>0, <3>1 DEF TypeOK
    <3>4. \A v \in Registered : v # u => row[v].token # t
      BY <3>1, <3>2 DEF LinkInv
    <3>5. redeemed[t] = 0
      BY <2>4, <3>1 DEF LinkInv
    <3>6. ReusedOnlyByOverlap'
      BY <3>2, <3>3, <3>5 DEF LinkInv, ReusedOnlyByOverlap
    <3>7. \A d \in Clients : client[d].op = "reset" /\ client[d].token = t => client[d].user = u
      BY <3>1 DEF LinkInv
    <3>8. \A d, b \in Clients :
             client'[d].op = "reset" /\ client'[b].op = "reset" /\ client'[d].token = client'[b].token
                => client'[d].user = client'[b].user
      BY <3>3, <3>7 DEF LinkInv
    <3> QED BY <3>1, <3>2, <3>3, <3>4, <3>6, <3>8 DEF LinkInv, Registered
  <2>5. CASE RightPassword(c)
    <3> DEFINE u == client[c].user
               r == [row[u] EXCEPT !.failed = 0, !.lockLeft = 0]
    <3>1. u \in Registered /\ u \in Users /\ row[u] \in Rows /\ Commit(c, u, "clear")
      BY <1>0, <2>0, <2>5, RowType DEF RightPassword, Clears
    <3>2. 0 \in Failures /\ 0 \in 0 .. LockTicks
      BY TimeAssumption, SMT DEF Failures, MAX_FAILED_ATTEMPTS
    <3>3. r \in Rows /\ r.email = row[u].email /\ r.token = row[u].token
      BY <3>1, <3>2 DEF Rows
    <3>4. row' = [row EXCEPT ![u] = r]
      BY <1>0, <2>5, <3>1 DEF RightPassword, TypeOK
    <3>5. Registered' = Registered /\ \A v \in Registered : row'[v].token = row[v].token
      BY <1>0, <3>1, <3>3, <3>4, WriteRow DEF TypeOK, Registered
    <3>6. \A d \in Clients : client'[d].op = "reset" =>
             /\ client[d].op = "reset" /\ client'[d].user = client[d].user
             /\ client'[d].token = client[d].token
             /\ client[d].missed = "clear" => client'[d].missed = "clear"
      BY <1>0, <3>1, CommitTokens, CommitClients DEF Missed, Idle
    <3> QED BY <2>5, <3>5, <3>6, LinkQuiet DEF RightPassword
  <2>6. CASE WrongPassword(c)
    <3> DEFINE u == client[c].user
               n == OneMore(client[c].failed)
               lock == IF n >= MAX_FAILED_ATTEMPTS THEN LockTicks ELSE 0
               r == [row[u] EXCEPT !.failed = n, !.lockLeft = lock]
    <3>1. u \in Registered /\ u \in Users /\ row[u] \in Rows /\ Commit(c, u, "failure")
      BY <1>0, <2>0, <2>6, RowType DEF WrongPassword
    <3>2. n \in Failures
      BY <1>0, <2>6, OpenLogin, OneMoreType DEF WrongPassword, Logins
    <3>3. lock \in 0 .. LockTicks
      BY TimeAssumption, SMT
    <3>4. r \in Rows /\ r.email = row[u].email /\ r.token = row[u].token
      BY <3>1, <3>2, <3>3 DEF Rows
    <3>5. row' = [row EXCEPT ![u] = r]
      BY <1>0, <2>6, <3>1 DEF WrongPassword, TypeOK
    <3>6. Registered' = Registered /\ \A v \in Registered : row'[v].token = row[v].token
      BY <1>0, <3>1, <3>4, <3>5, WriteRow DEF TypeOK, Registered
    <3>7. \A d \in Clients : client'[d].op = "reset" =>
             /\ client[d].op = "reset" /\ client'[d].user = client[d].user
             /\ client'[d].token = client[d].token
             /\ client[d].missed = "clear" => client'[d].missed = "clear"
      BY <1>0, <3>1, CommitTokens, CommitClients DEF Missed, Idle
    <3> QED BY <2>6, <3>6, <3>7, LinkQuiet DEF WrongPassword
  <2>7. CASE EndReset(c)
    <3> DEFINE u == client[c].user
               r == [row[u] EXCEPT !.password = client[c].password, !.failed = 0,
                                   !.lockLeft = 0, !.token = NoToken, !.tokenLeft = 0]
    <3>1. u \in Registered /\ u \in Users /\ row[u] \in Rows /\ Commit(c, u, "clear")
      BY <1>0, <2>0, <2>7, RowType DEF EndReset, Clears
    <3>2. client[c].password \in Passwords /\ client[c].op = "reset" /\ client[c].token \in Tokens
      BY <1>0, <2>7, OpenReset DEF EndReset, Resets
    <3>3. 0 \in Failures /\ 0 \in 0 .. LockTicks /\ 0 \in 0 .. TokenTicks
      BY TimeAssumption, SMT DEF Failures, MAX_FAILED_ATTEMPTS
    <3>4. r \in Rows /\ r.email = row[u].email /\ r.token = NoToken
      BY <3>1, <3>2, <3>3 DEF Rows
    <3>5. row' = [row EXCEPT ![u] = r]
      BY <1>0, <2>7, <3>1 DEF EndReset, TypeOK
    <3>6. Registered' = Registered
          /\ \A v \in Registered : row'[v].token = IF v = u THEN NoToken ELSE row[v].token
      BY <1>0, <3>1, <3>4, <3>5, WriteRow DEF TypeOK, Registered
    <3>7. \A d \in Clients : client'[d].op = "reset" =>
             /\ client[d].op = "reset" /\ client'[d].user = client[d].user
             /\ client'[d].token = client[d].token
             /\ client[d].missed = "clear" => client'[d].missed = "clear"
      BY <1>0, <3>1, CommitTokens, CommitClients DEF Missed, Idle
    <3>8. /\ issued' = issued /\ client'[c] = Idle
          /\ \A t \in Tokens : redeemed'[t] > 0 => redeemed[t] > 0 \/ t = client[c].token
          /\ \A t \in Tokens : t # client[c].token => redeemed'[t] = redeemed[t]
      BY <1>0, <2>7, <3>1, <3>2, CommitClients DEF EndReset, Redeems, TypeOK, Missed
    <3>9. NoToken \notin Tokens
      BY TokenAssumption
    <3>10. \A d \in Clients : client[d].op = "reset" => client[d].token \in Tokens
      BY <1>0, OpenReset DEF TypeOK, Resets
    <3>11. ReusedOnlyByOverlap'
      <4> SUFFICES ASSUME NEW d \in Clients, client'[d].op = "reset",
                          redeemed'[client'[d].token] > 0
                   PROVE  client'[d].missed = "clear"
        BY DEF ReusedOnlyByOverlap
      <4>1. client[d].op = "reset" /\ client'[d].token = client[d].token
        BY <3>7
      <4>2. CASE client[d].token = client[c].token
        <5>1. client[d].user = u
          BY <3>2, <4>1, <4>2 DEF LinkInv
        <5> QED BY <1>0, <3>1, <5>1, CommitTokens DEF Missed
      <4>3. CASE client[d].token # client[c].token
        <5>1. client[d].missed = "clear"
          BY <3>8, <3>10, <4>1, <4>3 DEF LinkInv, ReusedOnlyByOverlap
        <5> QED BY <3>7, <5>1
      <4> QED BY <4>2, <4>3
    <3>12. \A v \in Registered' : row'[v].token \in issued' \cup {NoToken}
      BY <3>6, <3>8 DEF LinkInv
    <3>13. \A v, w \in Registered' : v # w /\ row'[v].token = row'[w].token
                                        => row'[v].token = NoToken
      BY <3>6 DEF LinkInv
    <3>14. \A d \in Clients : client'[d].op = "reset" =>
              /\ client'[d].token \in issued'
              /\ \A v \in Registered' : v # client'[d].user => row'[v].token # client'[d].token
      BY <3>6, <3>7, <3>8, <3>9, <3>10 DEF LinkInv
    <3>15. \A d, b \in Clients :
              client'[d].op = "reset" /\ client'[b].op = "reset" /\ client'[d].token = client'[b].token
                 => client'[d].user = client'[b].user
      BY <3>7 DEF LinkInv
    <3>16. \A t \in Tokens : redeemed'[t] > 0 => t \in issued'
      BY <3>2, <3>8 DEF LinkInv
    <3>17. \A v \in Registered' : row'[v].token \in Tokens => redeemed'[row'[v].token] = 0
      <4> SUFFICES ASSUME NEW v \in Registered', row'[v].token \in Tokens
                   PROVE  redeemed'[row'[v].token] = 0
        OBVIOUS
      <4>1. v # u /\ v \in Registered /\ row'[v].token = row[v].token
        BY <3>6, <3>9
      <4>2. row[v].token # client[c].token
        BY <3>2, <4>1 DEF LinkInv
      <4>3. redeemed[row[v].token] = 0
        BY <4>1 DEF LinkInv
      <4> QED BY <3>8, <4>1, <4>2, <4>3
    <3> QED BY <3>11, <3>12, <3>13, <3>14, <3>15, <3>16, <3>17 DEF LinkInv
  <2>8. CASE Logout(c)
    BY <2>8, LinkQuiet DEF Logout, Registered
  <2>9. CASE Disconnect(c)
    <3>1. \A d \in Clients : client'[d] = client[d] \/ client'[d] = Idle
      BY <1>0, <2>9 DEF Disconnect, TypeOK
    <3> QED BY <2>9, <3>1, LinkQuiet DEF Disconnect, Registered, Idle
  <2> QED BY <1>1, <2>1, <2>2, <2>3, <2>4, <2>5, <2>6, <2>7, <2>8, <2>9 DEF Session
<1>2. CASE Tick
  <2>1. ASSUME NEW u \in Registered PROVE row'[u].token = row[u].token
    BY <1>0, <1>2, TickRows, RowType DEF Rows
  <2> QED BY <1>0, <1>2, <2>1, TickRows, LinkQuiet DEF Tick
<1>3. CASE UNCHANGED vars
  BY <1>3, LinkQuiet DEF vars, Registered
<1> QED BY <1>1, <1>2, <1>3 DEF Next

\* A link that changed a password changes it again only through a reset that was
\* under way when it first did: the second reader of service.py:185-190 is not
\* refused by the second writer of :191, and nobody else gets that far.
THEOREM LinksReusedOnlyByOverlap == Spec => []ReusedOnlyByOverlap
<1>1. Init => LinkInv
  BY DEF Init, Registered, LinkInv, ReusedOnlyByOverlap, Idle
<1>2. Inv /\ LinkInv /\ [Next]_vars => LinkInv'
  BY LinkStep
<1>3. LinkInv => ReusedOnlyByOverlap
  BY DEF LinkInv
<1> QED BY <1>1, <1>2, <1>3, InvInductive, PTL DEF Spec
=============================================================================
