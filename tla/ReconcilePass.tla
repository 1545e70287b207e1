--------------------------- MODULE ReconcilePass ---------------------------
(***************************************************************************)
(* reconcile_all of the reconciler: the sweep of sandboxes whose TTL is    *)
(* over, the choice of the rows to visit (oldest updated_at first, at most *)
(* Limit of them), and a commit after every row.  What a visit does to the *)
(* row and its VM is in Reconciler; what counts here is that _record       *)
(* assigns last_reconcile_at, so that a visited row's updated_at is new.   *)
(*                                                                         *)
(* order lists the rows by updated_at.  (Postgres stamps the beginning of  *)
(* the transaction, here it is the commit.)  The sweep's UPDATEs are sent  *)
(* by the autoflush before the second SELECT and hold their rows' locks    *)
(* until the transaction commits, with the first visited row or, if there  *)
(* is none, at the end of the handler.                                     *)
(***************************************************************************)
EXTENDS Naturals, Sequences, FiniteSets, SequencesExt

CONSTANTS
    Runtimes,       \* rows owned by ARM
    Sandboxes,      \* rows with runtime_class "sandbox"
    Superseded,     \* rows whose actual_state is SUPERSEDED
    Limit,          \* the limit parameter of reconcile_all
    MaxCrashes      \* bound on restarts of the ARM process

PassAssumption ==
    /\ Sandboxes \subseteq Runtimes /\ Superseded \subseteq Runtimes
    /\ Limit \in Nat \ {0} /\ MaxCrashes \in Nat

VARIABLES
    doomed,     \* desired_state is DESIRED_DESTROYED
    expired,    \* sandbox_expires_at has passed
    order,      \* rows by updated_at, oldest first
    pc,         \* where the pass is
    stale,      \* rows the sweep's SELECT found
    locked,     \* rows the sweep updated, not committed yet
    todo,       \* rows still to visit
    crashes

vars == <<doomed, expired, order, pc, stale, locked, todo, crashes>>

TypeOK ==
    /\ doomed \in [Runtimes -> BOOLEAN]
    /\ expired \in [Runtimes -> BOOLEAN]
    /\ order \in [1..Cardinality(Runtimes) -> Runtimes]
    /\ ToSet(order) = Runtimes
    /\ pc \in {"idle", "flush", "visit"}
    /\ stale \subseteq Sandboxes /\ locked \subseteq Sandboxes
    /\ todo \in BoundedSeq(Runtimes, Limit)
    /\ crashes \in 0..MaxCrashes

Init ==
    /\ doomed = [r \in Runtimes |-> FALSE]
    /\ expired = [r \in Runtimes |-> FALSE]
    /\ order \in SetToSeqs(Runtimes)
    /\ pc = "idle" /\ stale = {} /\ locked = {} /\ todo = <<>>
    /\ crashes = 0

\* The rows of S, in any order, get a new updated_at.
Touched(S) ==
    {SelectSeq(order, LAMBDA r : r \notin S) \o s : s \in SetToSeqs(S)}

---------------------------------------------------------------------------
(* The pass *)

SweepSelect ==
    /\ pc = "idle"
    /\ stale' = {r \in Sandboxes : expired[r] /\ ~doomed[r]}
    /\ pc' = "flush"
    /\ UNCHANGED <<doomed, expired, order, locked, todo, crashes>>

\* ORDER BY updated_at ASC LIMIT.
FirstRows(s) == SubSeq(s, 1, IF Len(s) < Limit THEN Len(s) ELSE Limit)

\* The autoflush of the sweep, and the SELECT of the rows to visit.
SelectRows ==
    /\ pc = "flush"
    /\ locked' = stale
    /\ stale' = {}
    /\ todo' = FirstRows(SelectSeq(order, LAMBDA r : ~doomed[r] /\ r \notin stale))
    /\ pc' = "visit"
    /\ UNCHANGED <<doomed, expired, order, crashes>>

\* Fault: a pass with no row to visit does not commit its sweep.
SweepRolledBack(S) ==
    /\ order' \in Touched(S)
    /\ doomed' = [r \in Runtimes |-> doomed[r] \/ (S # {} /\ r \in locked)]
    /\ locked' = {}

\* A commit that also writes the rows of S.
Commit(S) ==
    /\ order' \in Touched(S \cup locked)
    /\ doomed' = [r \in Runtimes |-> doomed[r] \/ r \in locked]
    /\ locked' = {}

\* Fault: a superseded row is skipped without being recorded.
RecordedUnlessSuperseded(r) == {r} \ Superseded

\* _record is called on every path of reconcile_runtime.
Recorded(r) == {r}

VisitRow ==
    /\ pc = "visit"
    /\ todo # <<>>
    /\ Commit(Recorded(Head(todo)))
    /\ todo' = Tail(todo)
    /\ UNCHANGED <<expired, pc, stale, crashes>>

PassEnds ==
    /\ pc = "visit"
    /\ todo = <<>>
    /\ Commit({})
    /\ pc' = "idle"
    /\ UNCHANGED <<expired, stale, todo, crashes>>

---------------------------------------------------------------------------
(* Other handlers, time, and restarts *)

\* POST .../desired-state; it waits for the sweep's lock.
SetDesiredState(r, x) ==
    /\ r \notin locked
    /\ doomed[r] # x
    /\ doomed' = [doomed EXCEPT ![r] = x]
    /\ order' \in Touched({r})
    /\ UNCHANGED <<expired, pc, stale, locked, todo, crashes>>

\* POST .../extend-ttl; it does not look at desired_state.
ExtendTtl(r) ==
    /\ r \in Sandboxes
    /\ r \notin locked
    /\ expired' = [expired EXCEPT ![r] = FALSE]
    /\ order' \in Touched({r})
    /\ UNCHANGED <<doomed, pc, stale, locked, todo, crashes>>

TtlExpires(r) ==
    /\ r \in Sandboxes
    /\ expired' = [expired EXCEPT ![r] = TRUE]
    /\ UNCHANGED <<doomed, order, pc, stale, locked, todo, crashes>>

\* The open transaction is rolled back.
Crash ==
    /\ crashes < MaxCrashes
    /\ crashes' = crashes + 1
    /\ pc' = "idle" /\ stale' = {} /\ locked' = {} /\ todo' = <<>>
    /\ UNCHANGED <<doomed, expired, order>>

---------------------------------------------------------------------------
(* Specification *)

Client(r) == ExtendTtl(r) \/ \E x \in BOOLEAN : SetDesiredState(r, x)

Next ==
    \/ SweepSelect \/ SelectRows \/ VisitRow \/ PassEnds
    \/ \E r \in Runtimes : Client(r) \/ TtlExpires(r)
    \/ Crash

Spec == Init /\ [][Next]_vars

\* A pass that was begun goes on: every wait in it is bounded.
PassGoesOn == SelectRows \/ VisitRow \/ PassEnds
FairSpec == Spec /\ WF_vars(PassGoesOn)

---------------------------------------------------------------------------
(* Properties *)

PassesRecur == []<><<SweepSelect>>_vars

\* While passes recur, every row that is not to be destroyed, and that its
\* clients leave alone, is visited again and again, however many more rows
\* there are than a pass visits (the order and the limit of reconcile_all).
NoRowStarves ==
    \A r \in Runtimes :
        PassesRecur /\ <>[](~doomed[r]) /\ <>[][~Client(r)]_vars
          => []<><<VisitRow /\ Head(todo) = r>>_vars

\* While passes recur, a sandbox whose TTL stays over is to be destroyed, again
\* and again should a client object (expire_stale_sandboxes has no limit).
ExpiredIsSwept ==
    \A r \in Sandboxes :
        PassesRecur /\ <>[](expired[r]) => []<>(doomed[r])
===========================================================================
