---------------------------- MODULE StaleRegister ----------------------------
(***************************************************************************)
(* What a reader of the active placement may rely on: a register whose     *)
(* reads return a value it has had since a time Ttl before the read began. *)
(* Reads of one reader need not be in order, and a write is not seen by    *)
(* its own writer at once.                                                 *)
(***************************************************************************)
EXTENDS Integers

CONSTANTS
    Readers,
    Ttl,
    Values,
    None        \* the value that means none

VARIABLES
    now,        \* the time
    had,        \* the values the register had at each time so far
    began,      \* when each read began; -1 while there is none
    got         \* what each reader's last read returned

vars == <<now, had, began, got>>

Init ==
    /\ now = 0 /\ had = [t \in {0} |-> {None}]
    /\ began = [r \in Readers |-> -1]
    /\ got = [r \in Readers |-> None]

\* At each time the register has the value it had last, and those written then.
Tick(v) ==
    /\ v \in had[now]
    /\ now' = now + 1
    /\ had' = [t \in 0..now' |-> IF t = now' THEN {v} ELSE had[t]]
    /\ UNCHANGED <<began, got>>

Write(v) ==
    /\ had' = [had EXCEPT ![now] = @ \cup {v}]
    /\ UNCHANGED <<now, began, got>>

Begin(r) ==
    /\ began[r] = -1
    /\ began' = [began EXCEPT ![r] = now]
    /\ UNCHANGED <<now, had, got>>

Return(r, v) ==
    /\ began[r] # -1
    /\ \E t \in 0..now : t > began[r] - Ttl /\ v \in had[t]
    /\ got' = [got EXCEPT ![r] = v]
    /\ began' = [began EXCEPT ![r] = -1]
    /\ UNCHANGED <<now, had>>

Next ==
    \/ \E v \in Values : Tick(v) \/ Write(v)
    \/ \E r \in Readers : Begin(r) \/ \E v \in Values : Return(r, v)

Spec == Init /\ [][Next]_vars
=============================================================================
