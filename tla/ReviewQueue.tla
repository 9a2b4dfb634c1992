---------------------------- MODULE ReviewQueue ----------------------------
(***************************************************************************)
(* The human review queue: recon_platform/hitl/review_queue.py and the      *)
(* escalation rules of reasoning/agents/exception_escalation.py, as         *)
(* operators on a value of the queue.                                       *)
(*                                                                         *)
(* The code keeps ONE dictionary whose keys are strings of two shapes: the  *)
(* plain run id (a run paused for a decision) and "run:side:txn" (one       *)
(* escalated exception).  Here a key is a run and either an item, standing  *)
(* for the pair side:txn, or Plain.  Reasons, notes and SLA hours are left  *)
(* out.                                                                    *)
(***************************************************************************)
EXTENDS FiniteSets

CONSTANTS Runs,   \* run ids
          Items,  \* the transactions, as side and id, that may go unmatched
          Plain   \* the second half of a paused run's own key

ASSUME PlainAssumption == Plain \notin Items

Keys   == Items \cup {Plain}
Status == {"absent", "pending", "resolved"}
Queues == [Runs -> [Keys -> Status]]

\* The dictionary of a freshly started process.
EmptyQueue == [r \in Runs |-> [k \in Keys |-> "absent"]]

\* add() builds a new, unresolved item and overwrites whatever was there.
Add(q, r, k) == [q EXCEPT ![r][k] = "pending"]

\* Faulty variant: entries told apart by the item alone, not by run and item.
MarkResolved_AnyRun(q, r, k) ==
    [x \in Runs |-> [q[x] EXCEPT ![k] = IF @ = "absent" THEN "absent" ELSE "resolved"]]

\* mark_resolved() of an unknown key does nothing.
MarkResolved(q, r, k) ==
    [q EXCEPT ![r][k] = IF @ = "absent" THEN "absent" ELSE "resolved"]

\* The prefix "run:" selects the run's exceptions and never its plain entry.
PendingForRun(q, r) == {i \in Items : q[r][i] = "pending"}

-----------------------------------------------------------------------------
\* Faulty variants, which show what the properties of ReconGraph depend on.
Escalate_Reopens(q, r, risky) ==
    [q EXCEPT ![r] = [k \in Keys |-> IF k \in risky THEN "pending" ELSE q[r][k]]]

Escalate_DropsSome(q, r, risky) ==
    [q EXCEPT ![r] = [k \in Keys |->
        IF k \in risky /\ q[r][k] = "absent" /\ Cardinality(risky) = 1
        THEN "pending" ELSE q[r][k]]]
-----------------------------------------------------------------------------

\* escalate_exceptions(): every exception at or above the threshold gets an
\* entry unless its key already has one, resolved or not.
Escalate(q, r, risky) ==
    [q EXCEPT ![r] = [k \in Keys |->
        IF k \in risky /\ q[r][k] = "absent" THEN "pending" ELSE q[r][k]]]
=============================================================================
