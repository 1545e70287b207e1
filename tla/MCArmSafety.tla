---------------------------- MODULE MCArmSafety ----------------------------
(***************************************************************************)
(* Parts of the Agent Runtime Manager that do not share state here, model- *)
(* checked side by side for safety: a behaviour is one of the part it      *)
(* began with, and the variables of the others keep their first values.    *)
(*                                                                         *)
(*   "turns"         Reconciler with two rows, one VMID and a DELETE;      *)
(*                   visits take turns, a start is refused only if the VM  *)
(*                   is gone, and there is no restart                      *)
(*   "overlap"       Reconciler with one row, visits that overlap, starts  *)
(*                   that are refused and a restart of ARM; no DELETE      *)
(*   "reservations"  SandboxNetwork: handlers that overlap, a restart of   *)
(*                   ARM, a failing call, foreign reservations, ordinary   *)
(*                   clients, slow guests that are stopped and started     *)
(*   "placement"     Placement with a preferred node, an inference node    *)
(*                   and an excluded one, two jobs at a time               *)
(***************************************************************************)
EXTENDS Reconciler, SandboxNetwork, Placement, TLC

VARIABLES part

allVars == <<part, vars, netVars, placeVars>>

Busy == {p \in Visits : vpc[p] # "idle"}
Known == {r \in Runtimes : actual[r] # "NONE"}

PartInit ==
    /\ part \in {"turns", "overlap", "reservations", "placement"}
    /\ Init /\ NetInit /\ PlaceInit
    /\ part # "placement" => online = {}

PartNext ==
    /\ UNCHANGED part
    /\ \/ /\ part = "turns" /\ Next
          /\ Cardinality(Busy') <= 1 /\ UNCHANGED crashes
          /\ \A p \in Visits : StartRaises(p) => ~vms[copy[p].vmid].exists
          /\ UNCHANGED <<netVars, placeVars>>
       \/ /\ part = "overlap" /\ Next
          /\ Cardinality(Known') <= 1 /\ UNCHANGED del
          /\ UNCHANGED <<netVars, placeVars>>
       \/ /\ part = "reservations" /\ NetNext
          /\ UNCHANGED <<vars, placeVars>>
       \/ /\ part = "placement" /\ PlaceNext
          /\ UNCHANGED <<vars, netVars>>

PartSpec == PartInit /\ [][PartNext]_allVars

\* Rows and sandboxes have the same names and are interchangeable, and so are the
\* workers of these names, which are of an inference class.
Symmetry == Permutations(Runtimes) \cup Permutations(Visits)
=============================================================================
