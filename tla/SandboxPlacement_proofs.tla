---------------------- MODULE SandboxPlacement_proofs ----------------------
(***************************************************************************)
(* Theorems about the surroundings of an ARM job, for every value of the   *)
(* constants:                                                              *)
(*                                                                         *)
(*   SandboxNetwork  types, what happens to reservations, and the          *)
(*                   isolation of READY sandboxes, for any pool, any       *)
(*                   number of sandboxes, failing calls and restarts       *)
(*   Placement       by how much the cap of an inference node is passed,   *)
(*                   for any policy, nodes, runtimes and number of jobs    *)
(*                   that run at the same time                             *)
(***************************************************************************)
EXTENDS SandboxNetwork, Placement, FiniteSetTheorems, TLAPS, WellFoundedInduction

---------------------------------------------------------------------------
(***************************************************************************)
(* SandboxNetwork                                                          *)
(***************************************************************************)

BeforeAdd == {"reservations", "leases", "probe", "drop", "dropApply", "add"}
Chosen == {"drop", "dropApply", "add", "addApply", "verify", "boot"}
UpToBoot == {"reservations", "leases", "probe"} \cup Chosen

\* Where a handler is, what its row says, and which address it works on.
PhaseInv ==
    \A s \in Sandboxes :
        /\ status[s] = "NEW" => pc[s] = "idle"
        /\ pc[s] \in JobSteps => status[s] = "PROVISIONING"
        /\ pc[s] \in DeleteSteps => status[s] = "READY"
        /\ pc[s] \in Chosen => loc[s].ip \in Pool
        /\ pc[s] \in {"boot", "waitip", "hygiene"} \/ status[s] = "READY"
             => loc[s].ip \in Pool /\ sandboxIp[s] = loc[s].ip

TypeInv == NetTypeOK /\ PhaseInv

\* The handlers that delete a reservation have looked it up, and it was not a
\* foreign one.
LookedUpInv ==
    \A s \in Sandboxes : pc[s] \in {"drop", "release"} => loc[s].existing # STATIC

\* A sandbox has one reservation at most: of the address its job chose, and not
\* before the job adds it.
MayHold(s, i) == i = loc[s].ip /\ pc[s] \notin BeforeAdd /\ status[s] # "NEW"

OneReservation(table) ==
    \A s \in Sandboxes, i \in Pool : table[i] = s => MayHold(s, i)

\* The end of the DELETE has dealt with the reservation.
ReleasedInv ==
    \A s \in Sandboxes :
        /\ pc[s] = "release" /\ resv[sandboxIp[s]] = s => loc[s].existing = s
        /\ s \notin leaked
             /\ (pc[s] \in {"releaseApply", "commit"} \/ status[s] = "DESTROYED")
             => \A i \in Pool : resv[i] # s

ReleaseInv == OneReservation(resv) /\ ReleasedInv

---------------------------------------------------------------------------
(* Isolation *)

\* A guest has no address before its job boots it, and a DELETE that has come to the
\* reservation has destroyed the VM.
PowerInv ==
    \A s \in Sandboxes :
        /\ status[s] = "NEW" \/ pc[s] \in UpToBoot => addr[s] = Nil /\ vm[s] # "running"
        /\ pc[s] \in {"lookup", "release", "releaseApply", "commit"} => vm[s] = "gone"

\* The gate has applied the reservation of the sandbox, which still has its VM.
Past(s) ==
    \/ pc[s] \in {"verify", "boot", "waitip", "hygiene"}
    \/ status[s] = "READY" /\ vm[s] # "gone"

\* From then on nothing but the handler of another sandbox takes the reservation away,
\* and nothing but a lease of another client the address.
Secured(s) ==
    /\ pc[s] = "addApply" => resv[loc[s].ip] = s
    /\ Past(s) => resv[loc[s].ip] = s /\ applied[loc[s].ip] = s
    /\ Past(s) /\ s \notin shutOut => addr[s] \in {Nil, loc[s].ip}

SecuredInv == \A s \in Sandboxes \ robbed : Secured(s)

IsolationInv ==
    PowerInv /\ SecuredInv /\ OneReservation(resv) /\ OneReservation(applied)

---------------------------------------------------------------------------
(* Types *)

\* allocate takes the lowest of the addresses it may return.
LEMMA MinIsMember == ASSUME NEW S \in SUBSET Pool, S # {} PROVE Min(S) \in S
<1> DEFINE Less == OpToRel(<, Nat)
<1>1. \E x \in S : \A y \in S : ~(<<y, x>> \in Less)
  <2>1. S \subseteq Nat
    BY SandboxAssumption DEF Pool
  <2> HIDE DEF Less
  <2>2. IsWellFoundedOn(Less, Nat)
    BY NatLessThanWellFounded DEF Less
  <2>. QED
    BY <2>1, <2>2, WFMin
<1>2. \E x \in S : \A y \in S : x <= y
  <2>1. \A x, y \in S : x \in Nat /\ y \in Nat
    BY SandboxAssumption DEF Pool
  <2>2. \A x, y \in Nat : y < x => <<y, x>> \in Less
    BY DEF OpToRel
  <2> HIDE DEF Less
  <2>3. PICK x \in S : \A y \in S : ~(<<y, x>> \in Less)
    BY <1>1
  <2>4. \A y \in S : ~(y < x)
    BY <2>1, <2>2, <2>3, Zenon
  <2>5. \A y \in S : x <= y
    BY <2>1, <2>4
  <2>. QED
    BY <2>5
<1>. QED
  BY <1>2 DEF Min

\* The assignments to the locals of a handler.
LEMMA LocalsTypes ==
    ASSUME loc \in [Sandboxes -> Locals], NEW s \in Sandboxes
    PROVE  /\ \A x \in [Pool -> Holder] :
                [loc EXCEPT ![s].reserved = x] \in [Sandboxes -> Locals]
           /\ \A x \in SUBSET Pool : [loc EXCEPT ![s].leased = x] \in [Sandboxes -> Locals]
           /\ \A x \in Holder : [loc EXCEPT ![s].existing = x] \in [Sandboxes -> Locals]
           /\ \A x \in Holder, i \in Pool :
                [loc EXCEPT ![s].ip = i, ![s].existing = x] \in [Sandboxes -> Locals]
<1> DEFINE l == loc[s]
<1>1. l \in Locals
  OBVIOUS
<1>2. \A x \in [Pool -> Holder] : [l EXCEPT !.reserved = x] \in Locals
  BY <1>1 DEF Locals
<1>3. \A x \in SUBSET Pool : [l EXCEPT !.leased = x] \in Locals
  BY <1>1 DEF Locals
<1>4. \A x \in Holder : [l EXCEPT !.existing = x] \in Locals
  BY <1>1 DEF Locals
<1>5. \A x \in Holder, i \in Pool : [l EXCEPT !.ip = i, !.existing = x] \in Locals
  BY <1>1 DEF Locals
<1>6. \A x \in Holder, i \in Pool :
        [loc EXCEPT ![s].ip = i, ![s].existing = x]
          = [loc EXCEPT ![s] = [l EXCEPT !.ip = i, !.existing = x]]
  OBVIOUS
<1>. QED
  BY <1>2, <1>3, <1>4, <1>5, <1>6

LEMMA FreeIsCandidate ==
    ASSUME NEW reserved, NEW leased
    PROVE  /\ Free(reserved, leased) \subseteq Candidates(reserved, leased)
           /\ Candidates(reserved, leased) \subseteq Pool
  BY DEF Free, Candidates

\* What allocate returns is a pool address that it read as not leased, and that
\* had no foreign reservation.
LEMMA AllocateChoice ==
    ASSUME NEW s \in Sandboxes, Allocate(s)
    PROVE  \E i \in Pool :
             /\ i \notin loc[s].leased /\ loc[s].reserved[i] # STATIC
             /\ loc' = [loc EXCEPT ![s].ip = i, ![s].existing = loc[s].reserved[i]]
             /\ Goto(s, IF loc[s].reserved[i] = Nil THEN "add" ELSE "drop")
<1> DEFINE free == Free(loc[s].reserved, loc[s].leased)
<1>1. free # {} /\ free \in SUBSET Pool /\ free \subseteq Candidates(loc[s].reserved, loc[s].leased)
  BY FreeIsCandidate DEF Allocate
<1>2. Min(free) \in free
  <2> HIDE DEF free
  <2>. QED
    BY <1>1, MinIsMember
<1>. QED
  BY <1>1, <1>2 DEF Allocate, Candidates

LEMMA InitTypes == NetInit => TypeInv
  BY SandboxAssumption
  DEF NetInit, TypeInv, NetTypeOK, PhaseInv, NoLocals, Locals, Holder, JobSteps, DeleteSteps, Chosen

LEMMA JobTypes ==
    ASSUME TypeInv, NEW s \in Sandboxes, JobStep(s)
    PROVE  TypeInv'
<1> USE DEF TypeInv, JobSteps, DeleteSteps, Chosen, Goto
<1>1. CASE EnterGate(s)
  <2>1. NetTypeOK'
    BY <1>1 DEF EnterGate, NetTypeOK, dhcp, losses, bounds
  <2>2. PhaseInv'
    BY <1>1 DEF EnterGate, NetTypeOK, PhaseInv
  <2>. QED
    BY <2>1, <2>2
<1>2. CASE ReadReservations(s) \/ ReadLeases(s)
  <2>1. loc' \in [Sandboxes -> Locals]
    <3>1. /\ resv \in [Pool -> Holder] /\ loc \in [Sandboxes -> Locals]
          /\ {i \in Pool : lease[i] # Nil} \in SUBSET Pool
      BY DEF NetTypeOK
    <3>2. \/ loc' = [loc EXCEPT ![s].reserved = resv]
          \/ loc' = [loc EXCEPT ![s].leased = {i \in Pool : lease[i] # Nil}]
      BY <1>2 DEF ReadReservations, ReadLeases
    <3>3. [loc EXCEPT ![s].reserved = resv] \in [Sandboxes -> Locals]
      BY <3>1, LocalsTypes
    <3>4. [loc EXCEPT ![s].leased = {i \in Pool : lease[i] # Nil}] \in [Sandboxes -> Locals]
      BY <3>1, LocalsTypes
    <3>. QED
      BY <3>2, <3>3, <3>4
  <2>2. /\ UNCHANGED <<dhcp, guests, rows, leaked, losses, bounds>>
        /\ pc' = [pc EXCEPT ![s] = "leases"] \/ pc' = [pc EXCEPT ![s] = "probe"]
    BY <1>2 DEF ReadReservations, ReadLeases
  <2>3. NetTypeOK'
    BY <2>1, <2>2 DEF NetTypeOK, dhcp, guests, rows, losses, bounds
  <2>4. PhaseInv'
    <3>1. \A t \in Sandboxes : loc'[t].ip = loc[t].ip
      <4>1. CASE ReadReservations(s)
        BY <4>1 DEF ReadReservations, NetTypeOK, Locals
      <4>2. CASE ReadLeases(s)
        BY <4>2 DEF ReadLeases, NetTypeOK, Locals
      <4>. QED
        BY <1>2, <4>1, <4>2
    <3>2. pc[s] \in {"reservations", "leases"}
      BY <1>2 DEF ReadReservations, ReadLeases
    <3>. QED
      BY <2>2, <3>1, <3>2 DEF NetTypeOK, PhaseInv, rows
  <2>. QED
    BY <2>3, <2>4
<1>3. CASE Allocate(s)
  <2>1. PICK i \in Pool :
          /\ loc' = [loc EXCEPT ![s].ip = i, ![s].existing = loc[s].reserved[i]]
          /\ Goto(s, IF loc[s].reserved[i] = Nil THEN "add" ELSE "drop")
    BY <1>3, AllocateChoice
  <2>2. UNCHANGED <<dhcp, guests, rows, leaked, losses, bounds>> /\ pc[s] = "probe"
    BY <1>3 DEF Allocate
  <2>3. loc' \in [Sandboxes -> Locals]
    <3>1. loc[s].reserved[i] \in Holder
      BY DEF NetTypeOK, Locals
    <3>. QED
      BY <2>1, <3>1, LocalsTypes DEF NetTypeOK
  <2>4. NetTypeOK'
    BY <2>1, <2>2, <2>3 DEF NetTypeOK, dhcp, guests, rows, losses, bounds
  <2>5. loc'[s].ip = i /\ \A t \in Sandboxes \ {s} : loc'[t] = loc[t]
    BY <2>1 DEF NetTypeOK, Locals
  <2>6. PhaseInv'
    BY <2>1, <2>2, <2>5 DEF NetTypeOK, PhaseInv, rows
  <2>. QED
    BY <2>4, <2>6
<1>4. CASE DropExisting(s) \/ AddReservation(s)
  <2>1. NetTypeOK'
    <3>1. resv' \in [Pool -> Holder]
      BY <1>4 DEF DropExisting, AddReservation, NetTypeOK, Holder
    <3>2. loc[s].existing \in Holder
      BY DEF NetTypeOK, Locals
    <3>3. robbed' \subseteq Holder /\ shutOut' = shutOut
      BY <1>4, <3>2 DEF DropExisting, AddReservation, NetTypeOK, losses
    <3>4. pc' \in [Sandboxes -> {"idle"} \cup JobSteps \cup DeleteSteps]
      BY <1>4 DEF DropExisting, AddReservation, NetTypeOK
    <3>5. UNCHANGED <<applied, lease, guests, rows, loc, leaked, bounds>>
      BY <1>4 DEF DropExisting, AddReservation
    <3>. QED
      BY <3>1, <3>3, <3>4, <3>5 DEF NetTypeOK, guests, rows, bounds
  <2>2. PhaseInv'
    BY <1>4 DEF DropExisting, AddReservation, NetTypeOK, PhaseInv, rows
  <2>. QED
    BY <2>1, <2>2
<1>5. CASE Reconfigure(s, "dropApply", "add") \/ Reconfigure(s, "addApply", "verify")
  <2>1. NetTypeOK'
    BY <1>5 DEF Reconfigure, NetTypeOK, guests, rows, losses, bounds
  <2>2. PhaseInv'
    BY <1>5 DEF Reconfigure, NetTypeOK, PhaseInv, rows
  <2>. QED
    BY <2>1, <2>2
<1>6. CASE VerifyReserved(s)
  <2>1. NetTypeOK'
    BY <1>6 DEF VerifyReserved, NetTypeOK, PhaseInv, dhcp, guests, losses, bounds
  <2>2. PhaseInv'
    BY <1>6 DEF VerifyReserved, NetTypeOK, PhaseInv
  <2>. QED
    BY <2>1, <2>2
<1>7. CASE Boot(s) \/ WaitForIp(s)
  <2>1. /\ vm' \in [Sandboxes -> {"none", "stopped", "running", "gone"}]
        /\ ip' \in [Sandboxes -> Pool \cup {Nil, DYN}]
        /\ pc' \in [Sandboxes -> {"idle"} \cup JobSteps \cup DeleteSteps]
    BY <1>7 DEF Boot, WaitForIp, NetTypeOK, guests, rows
  <2>2. UNCHANGED <<dhcp, addr, status, sandboxIp, loc, leaked, losses, bounds>>
    BY <1>7 DEF Boot, WaitForIp, guests, rows
  <2>3. NetTypeOK'
    BY <2>1, <2>2 DEF NetTypeOK, dhcp, losses, bounds
  <2>4. PhaseInv'
    BY <1>7 DEF Boot, WaitForIp, NetTypeOK, PhaseInv, rows
  <2>. QED
    BY <2>3, <2>4
<1>8. CASE HygieneAccepts(s)
  <2>1. NetTypeOK'
    BY <1>8 DEF HygieneAccepts, NetTypeOK, dhcp, guests, losses, bounds
  <2>2. PhaseInv'
    BY <1>8 DEF HygieneAccepts, NetTypeOK, PhaseInv
  <2>. QED
    BY <2>1, <2>2
<1>9. CASE JobFails(s) \/ JobCallFails(s)
  <2>1. faults' \in 0..MaxFaults
    BY <1>9, SandboxAssumption DEF JobFails, JobCallFails, NetTypeOK, bounds
  <2>2. /\ pc' = [pc EXCEPT ![s] = "idle"] /\ status' = [status EXCEPT ![s] = "FAILED"]
        /\ UNCHANGED <<dhcp, guests, sandboxIp, ip, loc, leaked, losses, netCrashes>>
    BY <1>9 DEF JobFails, JobCallFails, bounds
  <2>3. NetTypeOK'
    BY <2>1, <2>2 DEF NetTypeOK, dhcp, guests, losses
  <2>4. PhaseInv'
    BY <2>2 DEF NetTypeOK, PhaseInv
  <2>. QED
    BY <2>3, <2>4
<1>. QED
  BY <1>1, <1>2, <1>3, <1>4, <1>5, <1>6, <1>7, <1>8, <1>9 DEF JobStep

LEMMA DeleteTypes ==
    ASSUME TypeInv, NEW s \in Sandboxes, DeleteStep(s)
    PROVE  TypeInv'
<1> USE DEF TypeInv, JobSteps, DeleteSteps, Chosen, Goto
<1>1. CASE DeleteSandbox(s)
  BY <1>1 DEF DeleteSandbox, NetTypeOK, PhaseInv, dhcp, guests, rows, losses, bounds
<1>2. CASE DestroyVm(s)
  <2>1. NetTypeOK'
    BY <1>2 DEF DestroyVm, NetTypeOK, dhcp, rows, losses, bounds
  <2>2. PhaseInv'
    BY <1>2 DEF DestroyVm, NetTypeOK, PhaseInv, rows
  <2>. QED
    BY <2>1, <2>2
<1>3. CASE ReleaseLookup(s)
  <2>1. sandboxIp[s] \in Pool
    BY <1>3 DEF ReleaseLookup, PhaseInv
  <2>2. UNCHANGED <<dhcp, guests, rows, leaked, losses, bounds>> /\ pc[s] = "lookup"
    BY <1>3 DEF ReleaseLookup
  <2>3. /\ pc' = [pc EXCEPT ![s] = "release"] \/ pc' = [pc EXCEPT ![s] = "commit"]
        /\ loc' = [loc EXCEPT ![s].existing = resv[sandboxIp[s]]] \/ loc' = loc
    BY <1>3 DEF ReleaseLookup
  <2>4. /\ loc' \in [Sandboxes -> Locals]
        /\ \A t \in Sandboxes : loc'[t].ip = loc[t].ip
    <3>1. resv[sandboxIp[s]] \in Holder
      BY <2>1 DEF NetTypeOK
    <3>2. loc \in [Sandboxes -> Locals]
      BY DEF NetTypeOK
    <3>3. loc' \in [Sandboxes -> Locals]
      <4>1. [loc EXCEPT ![s].existing = resv[sandboxIp[s]]] \in [Sandboxes -> Locals]
        BY <3>1, <3>2, LocalsTypes
      <4>. QED
        BY <2>3, <3>2, <4>1
    <3>4. \A t \in Sandboxes : loc'[t].ip = loc[t].ip
      BY <2>3, <3>2 DEF Locals
    <3>. QED
      BY <3>3, <3>4
  <2>5. NetTypeOK'
    BY <2>2, <2>3, <2>4 DEF NetTypeOK, dhcp, guests, rows, losses, bounds
  <2>6. PhaseInv'
    BY <2>2, <2>3, <2>4 DEF NetTypeOK, PhaseInv, rows
  <2>. QED
    BY <2>5, <2>6
<1>4. CASE Release(s)
  <2>1. NetTypeOK'
    <3>1. resv' \in [Pool -> Holder]
      BY <1>4 DEF Release, NetTypeOK, Holder
    <3>2. loc[s].existing \in Holder
      BY DEF NetTypeOK, Locals
    <3>3. robbed' \subseteq Holder /\ shutOut' = shutOut
      BY <1>4, <3>2 DEF Release, NetTypeOK
    <3>4. pc' \in [Sandboxes -> {"idle"} \cup JobSteps \cup DeleteSteps]
      BY <1>4 DEF Release, NetTypeOK
    <3>5. UNCHANGED <<applied, lease, guests, rows, loc, leaked, bounds>>
      BY <1>4 DEF Release
    <3>. QED
      BY <3>1, <3>3, <3>4, <3>5 DEF NetTypeOK, guests, rows, bounds
  <2>2. PhaseInv'
    BY <1>4 DEF Release, NetTypeOK, PhaseInv, rows
  <2>. QED
    BY <2>1, <2>2
<1>5. CASE Reconfigure(s, "releaseApply", "commit")
  <2>1. NetTypeOK'
    BY <1>5 DEF Reconfigure, NetTypeOK, guests, rows, losses, bounds
  <2>2. PhaseInv'
    BY <1>5 DEF Reconfigure, NetTypeOK, PhaseInv, rows
  <2>. QED
    BY <2>1, <2>2
<1>6. CASE ReleaseCallFails(s)
  <2>1. faults' \in 0..MaxFaults
    BY <1>6, SandboxAssumption DEF ReleaseCallFails, NetTypeOK
  <2>2. NetTypeOK'
    BY <1>6, <2>1 DEF ReleaseCallFails, NetTypeOK, dhcp, guests, rows, losses
  <2>3. PhaseInv'
    BY <1>6 DEF ReleaseCallFails, NetTypeOK, PhaseInv, rows
  <2>. QED
    BY <2>2, <2>3
<1>7. CASE CommitDelete(s)
  <2>1. NetTypeOK'
    BY <1>7 DEF CommitDelete, NetTypeOK, dhcp, guests, losses, bounds
  <2>2. PhaseInv'
    BY <1>7 DEF CommitDelete, NetTypeOK, PhaseInv
  <2>. QED
    BY <2>1, <2>2
<1>. QED
  BY <1>1, <1>2, <1>3, <1>4, <1>5, <1>6, <1>7 DEF DeleteStep

LEMMA EnvironmentTypes == NetTypeOK /\ Environment => NetTypeOK'
<1> SUFFICES ASSUME NetTypeOK, Environment PROVE NetTypeOK'
  OBVIOUS
<1> USE DEF NetTypeOK, dhcp, guests, rows, losses, bounds
<1>1. ASSUME NEW s \in Sandboxes, Dhcp(s) PROVE NetTypeOK'
  <2>1. /\ addr' \in [Sandboxes -> Pool \cup {Nil, DYN}]
        /\ lease' \in [Pool -> Sandboxes \cup {Nil, ORDINARY}]
    BY <1>1 DEF Dhcp
  <2>2. /\ UNCHANGED <<resv, applied, vm, rows, pc, loc, leaked, robbed, bounds>>
        /\ shutOut' \subseteq Sandboxes
    BY <1>1 DEF Dhcp
  <2>. QED
    BY <2>1, <2>2
<1>2. ASSUME NEW s \in Sandboxes, RenewalRefused(s) PROVE NetTypeOK'
  BY <1>2 DEF RenewalRefused
<1>3. ASSUME NEW s \in Sandboxes, StopSandbox(s) \/ StartSandbox(s) \/ DisposeFailed(s)
      PROVE  NetTypeOK'
  BY <1>3 DEF StopSandbox, StartSandbox, DisposeFailed
<1>4. ASSUME NEW i \in Pool, OrdinaryLease(i) \/ LeaseEnds(i) PROVE NetTypeOK'
  BY <1>4 DEF OrdinaryLease, LeaseEnds
<1>5. ASSUME NEW i \in Pool, AddForeign(i) PROVE NetTypeOK'
  BY <1>5 DEF AddForeign, Holder
<1>. QED
  BY <1>1, <1>2, <1>3, <1>4, <1>5 DEF Environment

\* The environment changes neither handlers nor rows.
LEMMA EnvironmentFrame == Environment => UNCHANGED <<rows, pc, loc, leaked, bounds>>
  BY DEF Environment, Dhcp, RenewalRefused, StopSandbox, StartSandbox, DisposeFailed,
         OrdinaryLease, LeaseEnds, AddForeign

LEMMA NextTypes == TypeInv /\ [NetNext]_netVars => TypeInv'
<1> SUFFICES ASSUME TypeInv, [NetNext]_netVars PROVE TypeInv'
  OBVIOUS
<1>1. CASE Environment
  BY <1>1, EnvironmentTypes, EnvironmentFrame DEF TypeInv, PhaseInv, rows
<1>2. CASE NetCrash
  <2>1. NetTypeOK'
    BY <1>2, SandboxAssumption DEF NetCrash, TypeInv, NetTypeOK, dhcp, guests, rows, losses
  <2>2. PhaseInv'
    BY <1>2 DEF NetCrash, TypeInv, PhaseInv, rows, JobSteps, DeleteSteps, Chosen
  <2>. QED
    BY <2>1, <2>2 DEF TypeInv
<1>3. CASE UNCHANGED netVars
  BY <1>3 DEF netVars, TypeInv, NetTypeOK, PhaseInv
<1>. QED
  BY <1>1, <1>2, <1>3, JobTypes, DeleteTypes DEF NetNext

\* Every table, lease, row and local variable of the gate keeps its type: what
\* allocate returns is an address of the pool.
THEOREM TypeCorrect == NetSpec => []NetTypeOK
<1>1. TypeInv => NetTypeOK
  BY DEF TypeInv
<1>. QED
  BY <1>1, InitTypes, NextTypes, PTL DEF NetSpec

---------------------------------------------------------------------------
(* Foreign reservations *)

\* A handler works for one sandbox only.
OthersKept(s) ==
    /\ \A t \in Sandboxes \ {s} :
         /\ pc'[t] = pc[t] /\ loc'[t] = loc[t]
         /\ status'[t] = status[t] /\ sandboxIp'[t] = sandboxIp[t]
    /\ leaked \subseteq leaked'

LEMMA HandlerFrame ==
    ASSUME TypeInv, NEW s \in Sandboxes, JobStep(s) \/ DeleteStep(s)
    PROVE  OthersKept(s)
<1> USE DEF TypeInv, NetTypeOK, OthersKept, Goto, rows
<1>1. CASE EnterGate(s) \/ ReadReservations(s) \/ ReadLeases(s) \/ Allocate(s)
  BY <1>1 DEF EnterGate, ReadReservations, ReadLeases, Allocate
<1>2. CASE DropExisting(s) \/ AddReservation(s) \/ VerifyReserved(s) \/ Boot(s)
  BY <1>2 DEF DropExisting, AddReservation, VerifyReserved, Boot
<1>3. CASE WaitForIp(s) \/ HygieneAccepts(s) \/ JobFails(s) \/ JobCallFails(s)
  BY <1>3 DEF WaitForIp, HygieneAccepts, JobFails, JobCallFails
<1>4. CASE \/ Reconfigure(s, "dropApply", "add") \/ Reconfigure(s, "addApply", "verify")
           \/ Reconfigure(s, "releaseApply", "commit")
  BY <1>4 DEF Reconfigure
<1>5. CASE DeleteSandbox(s) \/ DestroyVm(s) \/ ReleaseLookup(s) \/ Release(s)
  BY <1>5 DEF DeleteSandbox, DestroyVm, ReleaseLookup, Release
<1>6. CASE ReleaseCallFails(s) \/ CommitDelete(s)
  BY <1>6 DEF ReleaseCallFails, CommitDelete
<1>. QED
  BY <1>1, <1>2, <1>3, <1>4, <1>5, <1>6 DEF JobStep, DeleteStep

LEMMA InitLookedUp == NetInit => LookedUpInv
  BY DEF NetInit, LookedUpInv

LEMMA NextLookedUp == TypeInv /\ LookedUpInv /\ [NetNext]_netVars => LookedUpInv'
<1> SUFFICES ASSUME TypeInv, LookedUpInv, [NetNext]_netVars PROVE LookedUpInv'
  OBVIOUS
<1>1. ASSUME NEW s \in Sandboxes, JobStep(s) \/ DeleteStep(s) PROVE LookedUpInv'
  <2>1. OthersKept(s)
    BY <1>1, HandlerFrame
  <2>2. pc'[s] \in {"drop", "release"} => loc'[s].existing # STATIC
    <3>1. CASE Allocate(s)
      <4>1. PICK i \in Pool :
              /\ loc[s].reserved[i] # STATIC
              /\ loc' = [loc EXCEPT ![s].ip = i, ![s].existing = loc[s].reserved[i]]
        BY <3>1, AllocateChoice
      <4>. QED
        BY <4>1 DEF TypeInv, NetTypeOK, Locals
    <3>2. CASE ReleaseLookup(s)
      BY <3>2 DEF ReleaseLookup, Releases, Goto, TypeInv, NetTypeOK, Locals
    <3>3. CASE ~Allocate(s) /\ ~ReleaseLookup(s)
      <4>1. pc'[s] \notin {"drop", "release"}
        BY <1>1, <3>3
        DEF JobStep, DeleteStep, EnterGate, ReadReservations, ReadLeases, DropExisting,
            AddReservation, VerifyReserved, Boot, WaitForIp, HygieneAccepts, JobFails,
            JobCallFails, Reconfigure, DeleteSandbox, DestroyVm, Release, ReleaseCallFails,
            CommitDelete, Goto, TypeInv, NetTypeOK
      <4>. QED
        BY <4>1
    <3>. QED
      BY <3>1, <3>2, <3>3
  <2>. QED
    BY <2>1, <2>2 DEF LookedUpInv, OthersKept
<1>2. CASE Environment
  BY <1>2, EnvironmentFrame DEF LookedUpInv
<1>3. CASE NetCrash
  BY <1>3 DEF NetCrash, LookedUpInv
<1>4. CASE UNCHANGED netVars
  BY <1>4 DEF netVars, LookedUpInv
<1>. QED
  BY <1>1, <1>2, <1>3, <1>4 DEF NetNext

\* Who changes the reservation model, and how.
LEMMA ReservationStep ==
    ASSUME TypeInv, LookedUpInv, [NetNext]_netVars, NEW i \in Pool, resv'[i] # resv[i]
    PROVE  \/ \E s \in Sandboxes : /\ DropExisting(s) \/ Release(s)
                                   /\ resv'[i] = Nil /\ resv[i] # STATIC
           \/ \E s \in Sandboxes : /\ AddReservation(s) /\ resv' = [resv EXCEPT ![loc[s].ip] = s]
                                   /\ i = loc[s].ip /\ resv'[i] = s /\ resv[i] = Nil
           \/ resv'[i] = STATIC /\ resv[i] = Nil
<1>1. ASSUME NEW s \in Sandboxes, DropExisting(s) \/ Release(s)
      PROVE  resv'[i] = Nil /\ resv[i] # STATIC
  BY <1>1 DEF DropExisting, Release, LookedUpInv, TypeInv, NetTypeOK
<1>2. ASSUME NEW s \in Sandboxes, AddReservation(s)
      PROVE  i = loc[s].ip /\ resv'[i] = s /\ resv[i] = Nil
  BY <1>2 DEF AddReservation, TypeInv, NetTypeOK
<1>3. ASSUME NEW j \in Pool, AddForeign(j) PROVE resv'[i] = STATIC /\ resv[i] = Nil
  BY <1>3 DEF AddForeign, TypeInv, NetTypeOK
<1>4. ASSUME NEW s \in Sandboxes, JobStep(s) \/ DeleteStep(s)
      PROVE  DropExisting(s) \/ Release(s) \/ AddReservation(s)
  BY <1>4
  DEF JobStep, DeleteStep, EnterGate, ReadReservations, ReadLeases, Allocate, VerifyReserved,
      Boot, WaitForIp, HygieneAccepts, JobFails, JobCallFails, Reconfigure, DeleteSandbox, DestroyVm,
      ReleaseLookup, ReleaseCallFails, CommitDelete, dhcp
<1>5. Environment => \E j \in Pool : AddForeign(j)
  BY DEF Environment, Dhcp, RenewalRefused, StopSandbox, StartSandbox, DisposeFailed,
         OrdinaryLease, LeaseEnds, dhcp
<1>6. ~NetCrash /\ ~UNCHANGED netVars
  BY DEF NetCrash, netVars, dhcp
<1>. QED
  BY <1>1, <1>2, <1>3, <1>4, <1>5, <1>6 DEF NetNext, AddReservation

\* Whatever handlers, netCrashes and failing calls interleave, a foreign
\* reservation is never deleted and never replaced.
THEOREM ForeignReservationsKept == NetSpec => ForeignKept
<1> DEFINE Kept == \A i \in DOMAIN resv : resv[i] = STATIC => resv'[i] = STATIC
<1>1. TypeInv /\ LookedUpInv /\ [NetNext]_netVars => Kept
  <2> SUFFICES ASSUME TypeInv, LookedUpInv, [NetNext]_netVars, NEW i \in Pool, resv[i] = STATIC
               PROVE  resv'[i] = STATIC
    BY DEF TypeInv, NetTypeOK
  <2>. QED
    BY ReservationStep, SandboxAssumption
<1>. QED
  BY <1>1, InitTypes, InitLookedUp, NextTypes, NextLookedUp, PTL DEF NetSpec, ForeignKept

---------------------------------------------------------------------------
(* The reservation of a destroyed sandbox *)

LEMMA InitRelease == NetInit => ReleaseInv
  BY SandboxAssumption DEF NetInit, ReleaseInv, OneReservation, ReleasedInv

\* A sandbox that may hold an address may hold it from then on: its job chooses
\* once.
LEMMA MayHoldForGood ==
    ASSUME TypeInv, [NetNext]_netVars, NEW s \in Sandboxes, NEW i \in Pool, MayHold(s, i)
    PROVE  MayHold(s, i)'
<1> USE DEF MayHold, BeforeAdd
<1>1. ASSUME NEW t \in Sandboxes, JobStep(t) \/ DeleteStep(t) PROVE MayHold(s, i)'
  <2>1. OthersKept(t)
    BY <1>1, HandlerFrame
  <2>2. CASE t # s
    BY <2>1, <2>2 DEF OthersKept
  <2>3. CASE t = s
    <3>1. loc'[s].ip = loc[s].ip
      <4>1. CASE loc' = loc
        BY <4>1
      <4>2. CASE ReleaseLookup(s)
        BY <4>2 DEF ReleaseLookup, TypeInv, NetTypeOK, Locals
      <4>3. loc' = loc \/ ReleaseLookup(s)
        BY <1>1, <2>3
        DEF JobStep, DeleteStep, EnterGate, ReadReservations, ReadLeases, Allocate,
            DropExisting, AddReservation, VerifyReserved, Boot, WaitForIp, HygieneAccepts,
            JobFails, JobCallFails, Reconfigure, DeleteSandbox, DestroyVm, Release, ReleaseCallFails,
            CommitDelete
      <4>. QED
        BY <4>1, <4>2, <4>3
    <3>2. pc'[s] \notin BeforeAdd
      BY <1>1, <2>3
      DEF JobStep, DeleteStep, EnterGate, ReadReservations, ReadLeases, Allocate,
          DropExisting, AddReservation, VerifyReserved, Boot, WaitForIp, HygieneAccepts,
          JobFails, JobCallFails, Reconfigure, DeleteSandbox, DestroyVm, ReleaseLookup, Release,
          ReleaseCallFails, CommitDelete, Goto, TypeInv, NetTypeOK
    <3>3. status'[s] # "NEW"
      BY <1>1, <2>3
      DEF JobStep, DeleteStep, EnterGate, ReadReservations, ReadLeases, Allocate,
          DropExisting, AddReservation, VerifyReserved, Boot, WaitForIp, HygieneAccepts,
          JobFails, JobCallFails, Reconfigure, DeleteSandbox, DestroyVm, ReleaseLookup, Release,
          ReleaseCallFails, CommitDelete, rows, TypeInv, NetTypeOK
    <3>. QED
      BY <3>1, <3>2, <3>3
  <2>. QED
    BY <2>2, <2>3
<1>2. CASE Environment
  BY <1>2, EnvironmentFrame DEF rows
<1>3. CASE NetCrash
  BY <1>3 DEF NetCrash, rows
<1>4. CASE UNCHANGED netVars
  BY <1>4 DEF netVars
<1>. QED
  BY <1>1, <1>2, <1>3, <1>4 DEF NetNext

\* A reservation a sandbox has not had before is the one its job adds.
LEMMA NewReservation ==
    ASSUME TypeInv, LookedUpInv, [NetNext]_netVars, NEW s \in Sandboxes, NEW i \in Pool,
           resv'[i] = s
    PROVE  resv[i] = s \/ (AddReservation(s) /\ i = loc[s].ip)
<1>1. s \notin {Nil, STATIC}
  BY SandboxAssumption
<1>2. CASE resv'[i] # resv[i]
  <2>1. PICK t \in Sandboxes : AddReservation(t) /\ i = loc[t].ip /\ resv'[i] = t
    BY <1>1, <1>2, ReservationStep, Zenon
  <2>. QED
    BY <2>1
<1>3. CASE resv'[i] = resv[i]
  BY <1>3
<1>. QED
  BY <1>2, <1>3

LEMMA NextOneReservation ==
    TypeInv /\ LookedUpInv /\ OneReservation(resv) /\ [NetNext]_netVars => OneReservation(resv)'
<1> SUFFICES ASSUME TypeInv, LookedUpInv, OneReservation(resv), [NetNext]_netVars,
                    NEW s \in Sandboxes, NEW i \in Pool, resv'[i] = s
             PROVE  MayHold(s, i)'
  BY DEF OneReservation
<1>1. CASE resv[i] = s
  BY <1>1, MayHoldForGood DEF OneReservation
<1>2. CASE AddReservation(s) /\ i = loc[s].ip
  BY <1>2
  DEF AddReservation, MayHold, BeforeAdd, Goto, rows, TypeInv, NetTypeOK, PhaseInv, JobSteps
<1>. QED
  BY <1>1, <1>2, NewReservation

LEMMA NextReleased ==
    TypeInv /\ LookedUpInv /\ ReleaseInv /\ [NetNext]_netVars => ReleasedInv'
<1> SUFFICES ASSUME TypeInv, LookedUpInv, ReleaseInv, [NetNext]_netVars, NEW s \in Sandboxes
             PROVE  /\ pc'[s] = "release" /\ resv'[sandboxIp'[s]] = s => loc'[s].existing = s
                    /\ s \notin leaked'
                         /\ (pc'[s] \in {"releaseApply", "commit"} \/ status'[s] = "DESTROYED")
                         => \A i \in Pool : resv'[i] # s
  BY DEF ReleasedInv
<1> DEFINE Goal == /\ pc'[s] = "release" /\ resv'[sandboxIp'[s]] = s => loc'[s].existing = s
                   /\ s \notin leaked'
                        /\ (pc'[s] \in {"releaseApply", "commit"} \/ status'[s] = "DESTROYED")
                        => \A i \in Pool : resv'[i] # s
<1>1. ASSUME pc'[s] = pc[s], status'[s] = status[s], sandboxIp'[s] = sandboxIp[s],
             loc'[s] = loc[s], leaked \subseteq leaked'
      PROVE  Goal
  <2>1. CASE pc[s] = "add"
    BY <1>1, <2>1 DEF TypeInv, PhaseInv, JobSteps
  <2>2. CASE pc[s] # "add"
    <3>1. \A i \in Pool : resv'[i] = s => resv[i] = s
      BY <2>2, NewReservation DEF AddReservation
    <3>2. pc[s] = "release" => sandboxIp[s] \in Pool
      BY DEF TypeInv, PhaseInv, DeleteSteps
    <3>. QED
      BY <1>1, <3>1, <3>2 DEF ReleaseInv, ReleasedInv
  <2>. QED
    BY <2>1, <2>2
<1>2. ASSUME NEW t \in Sandboxes, JobStep(t) \/ DeleteStep(t), t # s PROVE Goal
  <2>1. OthersKept(t)
    BY <1>2, HandlerFrame
  <2>. QED
    BY <1>1, <1>2, <2>1 DEF OthersKept
<1>3. CASE JobStep(s)
  <2>1. pc'[s] \notin DeleteSteps /\ status'[s] # "DESTROYED"
    <3>1. pc[s] = "idle" => EnterGate(s)
      BY <1>3
      DEF JobStep, ReadReservations, ReadLeases, Allocate, DropExisting, AddReservation,
          VerifyReserved, Boot, WaitForIp, HygieneAccepts, JobFails, JobCallFails, Reconfigure,
          JobSteps
    <3>2. pc[s] \notin DeleteSteps
      BY <1>3
      DEF JobStep, EnterGate, ReadReservations, ReadLeases, Allocate, DropExisting,
          AddReservation, VerifyReserved, Boot, WaitForIp, HygieneAccepts, JobFails,
          JobCallFails, Reconfigure, JobSteps, DeleteSteps, TypeInv, PhaseInv
    <3>3. EnterGate(s) \/ status[s] = "PROVISIONING"
      BY <3>1, <3>2 DEF TypeInv, NetTypeOK, PhaseInv
    <3>4. pc'[s] \notin DeleteSteps
      BY <1>3
      DEF JobStep, EnterGate, ReadReservations, ReadLeases, Allocate, DropExisting,
          AddReservation, VerifyReserved, Boot, WaitForIp, HygieneAccepts, JobFails,
          JobCallFails, Reconfigure, Goto, DeleteSteps, TypeInv, NetTypeOK
    <3>5. status'[s] # "DESTROYED"
      BY <1>3, <3>3
      DEF JobStep, EnterGate, ReadReservations, ReadLeases, Allocate, DropExisting,
          AddReservation, VerifyReserved, Boot, WaitForIp, HygieneAccepts, JobFails,
          JobCallFails, Reconfigure, rows, TypeInv, NetTypeOK
    <3>. QED
      BY <3>4, <3>5
  <2>. QED
    BY <2>1 DEF DeleteSteps
<1>4. CASE DeleteStep(s)
  <2>0. /\ \A i \in Pool : resv[i] = s => i = loc[s].ip
        /\ s \notin {Nil, STATIC}
    BY SandboxAssumption DEF ReleaseInv, OneReservation, MayHold
  <2>1. CASE DeleteSandbox(s) \/ DestroyVm(s)
    BY <2>1
    DEF DeleteSandbox, DestroyVm, Goto, rows, TypeInv, NetTypeOK, PhaseInv, DeleteSteps
  <2>2. CASE ReleaseLookup(s)
    <3>1. sandboxIp[s] \in Pool /\ sandboxIp[s] = loc[s].ip /\ status[s] = "READY"
      BY <2>2 DEF ReleaseLookup, TypeInv, PhaseInv, DeleteSteps
    <3>2. UNCHANGED <<resv, sandboxIp, status>>
      BY <2>2 DEF ReleaseLookup, dhcp, rows
    <3>3. CASE Releases(sandboxIp[s])
      BY <2>2, <3>1, <3>2, <3>3 DEF ReleaseLookup, Goto, TypeInv, NetTypeOK, Locals
    <3>4. CASE ~Releases(sandboxIp[s])
      BY <2>0, <2>2, <3>1, <3>2, <3>4 DEF ReleaseLookup, Releases, Goto, TypeInv, NetTypeOK
    <3>. QED
      BY <3>3, <3>4
  <2>3. CASE Release(s)
    <3>1. sandboxIp[s] \in Pool /\ sandboxIp[s] = loc[s].ip /\ pc'[s] # "release"
      BY <2>3 DEF Release, Goto, TypeInv, NetTypeOK, PhaseInv, DeleteSteps
    <3>2. resv'[sandboxIp[s]] # s
      BY <2>0, <2>3, <3>1 DEF Release, ReleaseInv, ReleasedInv, TypeInv, NetTypeOK
    <3>3. \A i \in Pool : resv'[i] = s => resv[i] = s
      BY <2>0, <2>3 DEF Release, TypeInv, NetTypeOK
    <3>. QED
      BY <2>0, <3>1, <3>2, <3>3
  <2>4. CASE Reconfigure(s, "releaseApply", "commit")
    <3>1. /\ UNCHANGED <<resv, leaked>> /\ pc[s] = "releaseApply" /\ pc'[s] = "commit"
      BY <2>4 DEF Reconfigure, Goto, TypeInv, NetTypeOK
    <3>. QED
      BY <3>1 DEF ReleaseInv, ReleasedInv
  <2>5. CASE ReleaseCallFails(s)
    BY <2>5 DEF ReleaseCallFails, Goto, TypeInv, NetTypeOK
  <2>6. CASE CommitDelete(s)
    <3>1. /\ UNCHANGED <<resv, leaked>> /\ pc[s] = "commit" /\ pc'[s] = "idle"
      BY <2>6 DEF CommitDelete, Goto, dhcp, TypeInv, NetTypeOK
    <3>. QED
      BY <3>1 DEF ReleaseInv, ReleasedInv
  <2>. QED
    BY <1>4, <2>1, <2>2, <2>3, <2>4, <2>5, <2>6 DEF DeleteStep
<1>5. CASE Environment
  BY <1>1, <1>5, EnvironmentFrame DEF rows
<1>6. CASE NetCrash
  <2>1. UNCHANGED <<resv, status, leaked>> /\ pc'[s] = "idle"
    BY <1>6 DEF NetCrash, dhcp, rows
  <2>. QED
    BY <2>1 DEF ReleaseInv, ReleasedInv
<1>7. CASE UNCHANGED netVars
  BY <1>1, <1>7 DEF netVars
<1>. QED
  BY <1>2, <1>3, <1>4, <1>5, <1>6, <1>7 DEF NetNext

\* Once a sandbox is destroyed no reservation is its own, unless a call of the
\* release failed and was audited: however handlers overlap and whatever is
\* reserved meanwhile at its address.
THEOREM DestroyedReleased == NetSpec => []DestroyedIsReleased
<1>1. TypeInv /\ ReleaseInv => DestroyedIsReleased
  BY DEF TypeInv, NetTypeOK, ReleaseInv, ReleasedInv, DestroyedIsReleased
<1>2. TypeInv /\ LookedUpInv /\ ReleaseInv /\ [NetNext]_netVars => ReleaseInv'
  BY NextOneReservation, NextReleased DEF ReleaseInv
<1>. QED
  BY <1>1, <1>2, InitTypes, InitLookedUp, InitRelease, NextTypes, NextLookedUp, PTL DEF NetSpec

---------------------------------------------------------------------------
(* The address of a READY sandbox *)

LEMMA InitIsolation == NetInit => IsolationInv
  BY SandboxAssumption
  DEF NetInit, IsolationInv, PowerInv, SecuredInv, Secured, Past, OneReservation, UpToBoot, Chosen

\* Handlers leave the leases and the VMs of other sandboxes alone.
LEMMA HandlerGuests ==
    ASSUME TypeInv, NEW t \in Sandboxes, JobStep(t) \/ DeleteStep(t)
    PROVE  /\ lease' = lease /\ shutOut' = shutOut
           /\ \A s \in Sandboxes \ {t} : vm'[s] = vm[s] /\ addr'[s] = addr[s]
<1>1. CASE EnterGate(t) \/ Boot(t) \/ DestroyVm(t)
  BY <1>1 DEF EnterGate, Boot, DestroyVm, dhcp, losses, TypeInv, NetTypeOK
<1>2. CASE ~(EnterGate(t) \/ Boot(t) \/ DestroyVm(t))
  BY <1>2
  DEF JobStep, DeleteStep, ReadReservations, ReadLeases, Allocate, DropExisting,
      AddReservation, VerifyReserved, WaitForIp, HygieneAccepts, JobFails, JobCallFails,
      Reconfigure, DeleteSandbox, ReleaseLookup, Release, ReleaseCallFails, CommitDelete, dhcp, guests,
      losses
<1>. QED
  BY <1>1, <1>2

\* What a handler does to its own sandbox's VM and guest.
LEMMA NextPower == TypeInv /\ PowerInv /\ [NetNext]_netVars => PowerInv'
<1> SUFFICES ASSUME TypeInv, PowerInv, [NetNext]_netVars PROVE PowerInv'
  OBVIOUS
<1> DEFINE Power(s) ==
      /\ status[s] = "NEW" \/ pc[s] \in UpToBoot => addr[s] = Nil /\ vm[s] # "running"
      /\ pc[s] \in {"lookup", "release", "releaseApply", "commit"} => vm[s] = "gone"
<1>1. ASSUME NEW t \in Sandboxes, JobStep(t) \/ DeleteStep(t) PROVE PowerInv'
  <2>1. \A s \in Sandboxes \ {t} : Power(s)'
    BY <1>1, HandlerFrame, HandlerGuests DEF OthersKept, PowerInv
  <2>2. Power(t)'
    <3> USE DEF PowerInv, TypeInv, NetTypeOK, PhaseInv, Goto, guests, rows, UpToBoot, Chosen,
                JobSteps, DeleteSteps
    <3>1. CASE EnterGate(t) \/ ReadReservations(t) \/ ReadLeases(t)
      BY <3>1 DEF EnterGate, ReadReservations, ReadLeases
    <3>7. CASE Allocate(t)
      <4>1. pc[t] = "probe" /\ UNCHANGED <<guests, rows>>
        BY <3>7 DEF Allocate
      <4>2. pc' = [pc EXCEPT ![t] = "add"] \/ pc' = [pc EXCEPT ![t] = "drop"]
        BY <3>7, AllocateChoice
      <4>. QED
        BY <4>1, <4>2
    <3>2. CASE DropExisting(t) \/ AddReservation(t) \/ VerifyReserved(t) \/ Boot(t)
      BY <3>2 DEF DropExisting, AddReservation, VerifyReserved, Boot
    <3>3. CASE WaitForIp(t) \/ HygieneAccepts(t) \/ JobFails(t) \/ JobCallFails(t)
      BY <3>3 DEF WaitForIp, HygieneAccepts, JobFails, JobCallFails
    <3>4. CASE \/ Reconfigure(t, "dropApply", "add") \/ Reconfigure(t, "addApply", "verify")
               \/ Reconfigure(t, "releaseApply", "commit")
      BY <3>4 DEF Reconfigure
    <3>5. CASE DeleteSandbox(t) \/ DestroyVm(t) \/ ReleaseLookup(t) \/ Release(t)
      BY <3>5 DEF DeleteSandbox, DestroyVm, ReleaseLookup, Release
    <3>6. CASE ReleaseCallFails(t) \/ CommitDelete(t)
      BY <3>6 DEF ReleaseCallFails, CommitDelete
    <3>. QED
      BY <1>1, <3>1, <3>2, <3>3, <3>4, <3>5, <3>6, <3>7 DEF JobStep, DeleteStep
  <2>. QED
    BY <2>1, <2>2 DEF PowerInv
<1>2. CASE Environment
  <2>1. UNCHANGED <<status, pc>>
    BY <1>2, EnvironmentFrame DEF rows
  <2>2. ASSUME NEW t \in Sandboxes, Dhcp(t) \/ RenewalRefused(t) PROVE PowerInv'
    BY <2>1, <2>2 DEF Dhcp, RenewalRefused, PowerInv, TypeInv, NetTypeOK
  <2>3. ASSUME NEW t \in Sandboxes, StopSandbox(t) \/ StartSandbox(t) \/ DisposeFailed(t)
        PROVE  PowerInv'
    BY <2>1, <2>3
    DEF StopSandbox, StartSandbox, DisposeFailed, PowerInv, TypeInv, NetTypeOK, PhaseInv,
        UpToBoot, Chosen, JobSteps, DeleteSteps
  <2>4. ASSUME UNCHANGED guests PROVE PowerInv'
    BY <2>1, <2>4 DEF guests, PowerInv
  <2>. QED
    BY <1>2, <2>2, <2>3, <2>4 DEF Environment, OrdinaryLease, LeaseEnds, AddForeign
<1>3. CASE NetCrash
  BY <1>3 DEF NetCrash, guests, rows, PowerInv, UpToBoot, Chosen
<1>4. CASE UNCHANGED netVars
  BY <1>4 DEF netVars, PowerInv
<1>. QED
  BY <1>1, <1>2, <1>3, <1>4 DEF NetNext

\* Kea's table is as it was, or the reservation model.
LEMMA AppliedStep == [NetNext]_netVars => applied' = applied \/ applied' = resv'
<1>1. ASSUME NEW t \in Sandboxes, JobStep(t) \/ DeleteStep(t)
      PROVE  applied' = applied \/ applied' = resv'
  BY <1>1
  DEF JobStep, DeleteStep, EnterGate, ReadReservations, ReadLeases, Allocate, DropExisting,
      AddReservation, VerifyReserved, Boot, WaitForIp, HygieneAccepts, JobFails, JobCallFails,
      Reconfigure, DeleteSandbox, DestroyVm, ReleaseLookup, Release, ReleaseCallFails, CommitDelete,
      dhcp
<1>2. Environment => applied' = applied \/ applied' = resv'
  BY DEF Environment, Dhcp, RenewalRefused, StopSandbox, StartSandbox, DisposeFailed,
         OrdinaryLease, LeaseEnds, AddForeign, dhcp
<1>. QED
  BY <1>1, <1>2 DEF NetNext, NetCrash, dhcp, netVars

LEMMA NextApplied ==
    ASSUME TypeInv, LookedUpInv, OneReservation(resv), OneReservation(applied), [NetNext]_netVars
    PROVE  OneReservation(applied)'
<1>1. CASE applied' = applied
  <2> SUFFICES ASSUME NEW s \in Sandboxes, NEW i \in Pool, applied'[i] = s
               PROVE  MayHold(s, i)'
    BY DEF OneReservation
  <2>. QED
    BY <1>1, MayHoldForGood DEF OneReservation
<1>2. CASE applied' = resv'
  BY <1>2, NextOneReservation DEF OneReservation
<1>. QED
  BY <1>1, <1>2, AppliedStep

\* Nothing is forgotten of what was taken away.
LEMMA LossesGrow == [NetNext]_netVars => robbed \subseteq robbed' /\ shutOut \subseteq shutOut'
<1> USE DEF losses
<1>1. ASSUME NEW t \in Sandboxes, JobStep(t) \/ DeleteStep(t)
      PROVE  robbed \subseteq robbed' /\ shutOut \subseteq shutOut'
  BY <1>1
  DEF JobStep, DeleteStep, EnterGate, ReadReservations, ReadLeases, Allocate, DropExisting,
      AddReservation, VerifyReserved, Boot, WaitForIp, HygieneAccepts, JobFails, JobCallFails,
      Reconfigure, DeleteSandbox, DestroyVm, ReleaseLookup, Release, ReleaseCallFails, CommitDelete
<1>2. Environment => robbed \subseteq robbed' /\ shutOut \subseteq shutOut'
  BY DEF Environment, Dhcp, RenewalRefused, StopSandbox, StartSandbox, DisposeFailed,
         OrdinaryLease, LeaseEnds, AddForeign
<1>. QED
  BY <1>1, <1>2 DEF NetNext, NetCrash, netVars

\* A reservation goes away by its own sandbox's release, or its sandbox was robbed.
LEMMA ReservationStays ==
    ASSUME TypeInv, LookedUpInv, [NetNext]_netVars, NEW s \in Sandboxes, s \notin robbed',
           ~Release(s), NEW i \in Pool, resv[i] = s
    PROVE  resv'[i] = s
<1>1. s \notin {Nil, STATIC}
  BY SandboxAssumption
<1>2. ASSUME NEW t \in Sandboxes, DropExisting(t), resv'[i] # resv[i] PROVE FALSE
  BY <1>2 DEF DropExisting, TypeInv, NetTypeOK
<1>3. ASSUME NEW t \in Sandboxes, Release(t), resv'[i] # resv[i] PROVE FALSE
  <2>1. t # s
    BY <1>3
  <2>. QED
    BY <1>3, <2>1 DEF Release, TypeInv, NetTypeOK
<1>4. CASE resv'[i] # resv[i]
  <2>1. \E t \in Sandboxes : DropExisting(t) \/ Release(t)
    BY <1>1, <1>4, ReservationStep
  <2>. QED
    BY <1>2, <1>3, <1>4, <2>1
<1>. QED
  BY <1>4

\* A handler keeps its own sandbox secured from the moment it has applied the reservation.
LEMMA HandlerSecured ==
    ASSUME TypeInv, LookedUpInv, IsolationInv, [NetNext]_netVars, NEW s \in Sandboxes,
           JobStep(s) \/ DeleteStep(s), s \notin robbed'
    PROVE  Secured(s)'
<1>0. Secured(s) /\ shutOut' = shutOut
  BY LossesGrow, HandlerGuests DEF IsolationInv, SecuredInv
<1> USE DEF TypeInv, NetTypeOK, PhaseInv, Goto, guests, rows, Past, Secured, JobSteps, DeleteSteps
\* Steps that only go on along the gate, or leave it.
<1>1. CASE EnterGate(s) \/ ReadReservations(s) \/ ReadLeases(s) \/ DropExisting(s)
  BY <1>1 DEF EnterGate, ReadReservations, ReadLeases, DropExisting
<1>2. CASE Allocate(s)
  <2>1. pc' = [pc EXCEPT ![s] = "add"] \/ pc' = [pc EXCEPT ![s] = "drop"]
    BY <1>2, AllocateChoice
  <2>2. status[s] = "PROVISIONING" /\ UNCHANGED rows
    BY <1>2 DEF Allocate
  <2>. QED
    BY <2>1, <2>2
<1>3. CASE AddReservation(s)
  <2>1. loc[s].ip \in Pool /\ status[s] = "PROVISIONING"
    BY <1>3 DEF AddReservation, Chosen
  <2>. QED
    BY <1>3, <2>1 DEF AddReservation
<1>4. CASE Reconfigure(s, "dropApply", "add") \/ Reconfigure(s, "addApply", "verify")
  <2>1. addr[s] = Nil /\ status[s] = "PROVISIONING"
    BY <1>4 DEF Reconfigure, IsolationInv, PowerInv, UpToBoot, Chosen
  <2>. QED
    BY <1>0, <1>4, <2>1 DEF Reconfigure
<1>5. CASE VerifyReserved(s) \/ Boot(s) \/ WaitForIp(s)
  BY <1>0, <1>5 DEF VerifyReserved, Boot, WaitForIp, dhcp
<1>6. CASE HygieneAccepts(s)
  BY <1>0, <1>6 DEF HygieneAccepts, dhcp
<1>7. CASE JobFails(s) \/ JobCallFails(s)
  <2>1. pc'[s] = "idle" /\ status'[s] = "FAILED"
    BY <1>7 DEF JobFails, JobCallFails
  <2>. QED
    BY <2>1
<1>8. CASE DeleteSandbox(s)
  BY <1>0, <1>8 DEF DeleteSandbox, dhcp
<1>9. CASE DestroyVm(s)
  BY <1>9 DEF DestroyVm
<1>10. CASE \/ ReleaseLookup(s) \/ Release(s) \/ Reconfigure(s, "releaseApply", "commit")
            \/ ReleaseCallFails(s) \/ CommitDelete(s)
  <2>1. vm[s] = "gone" /\ vm' = vm
    BY <1>10
    DEF ReleaseLookup, Release, Reconfigure, ReleaseCallFails, CommitDelete, IsolationInv,
        PowerInv
  <2>2. pc'[s] \notin {"addApply", "verify", "boot", "waitip", "hygiene"}
    BY <1>10 DEF ReleaseLookup, Release, Reconfigure, ReleaseCallFails, CommitDelete
  <2>. QED
    BY <2>1, <2>2
<1>. QED
  BY <1>1, <1>2, <1>3, <1>4, <1>5, <1>6, <1>7, <1>8, <1>9, <1>10 DEF JobStep, DeleteStep

\* Whatever others, operators, clients and Kea do, a secured sandbox stays so.
LEMMA OthersSecured ==
    ASSUME TypeInv, LookedUpInv, IsolationInv, [NetNext]_netVars, NEW s \in Sandboxes,
           s \notin robbed', ~(JobStep(s) \/ DeleteStep(s))
    PROVE  Secured(s)'
<1>0. Secured(s) /\ (s \notin shutOut' => s \notin shutOut)
  BY LossesGrow DEF IsolationInv, SecuredInv
<1>1. pc[s] = "addApply" \/ Past(s) => loc[s].ip \in Pool
  BY DEF TypeInv, PhaseInv, Past, Chosen
<1>2. \A i \in Pool : /\ resv[i] = s => resv'[i] = s
                      /\ resv[i] = s /\ applied[i] = s => applied'[i] = s
  BY ReservationStays, AppliedStep DEF DeleteStep
<1>3. ASSUME pc'[s] \in {pc[s], "idle"}, loc'[s] = loc[s], status'[s] = status[s],
             vm[s] = "gone" => vm'[s] = "gone",
             Past(s) /\ s \notin shutOut' => addr'[s] \in {addr[s], Nil, loc[s].ip}
      PROVE  Secured(s)'
  <2>1. Past(s)' => Past(s)
    BY <1>3 DEF Past
  <2>2. pc'[s] = "addApply" => pc[s] = "addApply"
    BY <1>3
  <2>3. ASSUME pc[s] = "addApply" PROVE resv'[loc[s].ip] = s
    <3>1. resv[loc[s].ip] = s
      BY <1>0, <2>3 DEF Secured
    <3>2. loc[s].ip \in Pool
      BY <1>1, <2>3
    <3>. QED
      BY <1>2, <3>1, <3>2, Zenon
  <2>4. ASSUME Past(s) PROVE resv'[loc[s].ip] = s /\ applied'[loc[s].ip] = s
    <3>1. resv[loc[s].ip] = s /\ applied[loc[s].ip] = s
      BY <1>0, <2>4 DEF Secured
    <3>2. loc[s].ip \in Pool
      BY <1>1, <2>4
    <3>. QED
      BY <1>2, <3>1, <3>2, Zenon
  <2>5. Past(s) /\ s \notin shutOut' => addr'[s] \in {Nil, loc[s].ip}
    BY <1>0, <1>3 DEF Secured
  <2>. QED
    BY <1>3, <2>1, <2>2, <2>3, <2>4, <2>5 DEF Secured
<1>4. ASSUME NEW t \in Sandboxes, JobStep(t) \/ DeleteStep(t) PROVE Secured(s)'
  <2>1. t # s
    BY <1>4
  <2>2. /\ pc'[s] = pc[s] /\ loc'[s] = loc[s] /\ status'[s] = status[s]
        /\ vm'[s] = vm[s] /\ addr'[s] = addr[s]
    BY <1>4, <2>1, HandlerFrame, HandlerGuests DEF OthersKept
  <2>. QED
    BY <1>3, <2>2
<1>5. CASE Environment
  <2>1. UNCHANGED <<status, pc, loc>>
    BY <1>5, EnvironmentFrame DEF rows
  <2>2. ASSUME NEW t \in Sandboxes, Dhcp(t) PROVE Secured(s)'
    <3>1. vm' = vm
      BY <2>2 DEF Dhcp
    <3>2. CASE t # s
      BY <1>3, <2>1, <2>2, <3>1, <3>2 DEF Dhcp, TypeInv, NetTypeOK
    <3>3. CASE t = s
      <4>1. \A i \in Pool : applied[i] = s => i = loc[s].ip
        BY DEF IsolationInv, OneReservation, MayHold
      <4>2. Past(s) => loc[s].ip \in Pool /\ applied[loc[s].ip] = s
        BY <1>0, <1>1 DEF Secured
      <4>3. Past(s) /\ s \notin shutOut' => addr'[s] = loc[s].ip
        BY <2>2, <3>3, <4>1, <4>2 DEF Dhcp, TypeInv, NetTypeOK
      <4>. QED
        BY <1>3, <2>1, <3>1, <4>3
    <3>. QED
      BY <3>2, <3>3
  <2>3. ASSUME NEW t \in Sandboxes, RenewalRefused(t) PROVE Secured(s)'
    BY <1>3, <2>1, <2>3 DEF RenewalRefused, TypeInv, NetTypeOK
  <2>4. ASSUME NEW t \in Sandboxes, StopSandbox(t) \/ StartSandbox(t) \/ DisposeFailed(t)
        PROVE  Secured(s)'
    <3>1. vm[s] = "gone" => vm'[s] = "gone"
      BY <2>4 DEF StopSandbox, StartSandbox, DisposeFailed, TypeInv, NetTypeOK
    <3>2. addr'[s] \in {addr[s], Nil}
      BY <2>4 DEF StopSandbox, StartSandbox, DisposeFailed, TypeInv, NetTypeOK
    <3>. QED
      BY <1>3, <2>1, <3>1, <3>2
  <2>5. ASSUME UNCHANGED guests PROVE Secured(s)'
    BY <1>3, <2>1, <2>5 DEF guests
  <2>. QED
    BY <1>5, <2>2, <2>3, <2>4, <2>5 DEF Environment, OrdinaryLease, LeaseEnds, AddForeign
<1>6. CASE NetCrash
  BY <1>3, <1>6 DEF NetCrash, guests, rows
<1>7. CASE UNCHANGED netVars
  BY <1>3, <1>7 DEF netVars
<1>. QED
  BY <1>4, <1>5, <1>6, <1>7 DEF NetNext

\* A READY sandbox that runs uses the address it reserved, and the running Kea keeps that
\* address for it, unless the handler of another sandbox deleted the reservation or
\* another client had a lease of the address: for any pool and any number of sandboxes,
\* however handlers overlap, calls fail, ARM restarts, guests are slow or restarted and
\* ordinary clients use the pool.
THEOREM IsolationHolds == NetSpec => []ReadyIsIsolated
<1> DEFINE Inv == TypeInv /\ LookedUpInv /\ IsolationInv
<1>1. NetInit => Inv
  BY InitTypes, InitLookedUp, InitIsolation
<1>2. Inv /\ [NetNext]_netVars => Inv'
  <2> SUFFICES ASSUME TypeInv, LookedUpInv, IsolationInv, [NetNext]_netVars PROVE IsolationInv'
    BY NextTypes, NextLookedUp
  <2>1. PowerInv'
    BY NextPower DEF IsolationInv
  <2>2. OneReservation(resv)' /\ OneReservation(applied)'
    BY NextOneReservation, NextApplied DEF IsolationInv
  <2>3. \A s \in Sandboxes : s \notin robbed' => Secured(s)'
    BY HandlerSecured, OthersSecured
  <2>4. SecuredInv'
    BY <2>3 DEF SecuredInv
  <2>. QED
    BY <2>1, <2>2, <2>4 DEF IsolationInv
<1>3. Inv => ReadyIsIsolated
  <2> SUFFICES ASSUME TypeInv, IsolationInv,
                      NEW s \in Sandboxes \ (robbed \cup shutOut),
                      status[s] = "READY", vm[s] = "running", addr[s] # Nil
               PROVE  addr[s] = sandboxIp[s] /\ applied[addr[s]] = s
    BY DEF ReadyIsIsolated
  <2>1. Secured(s) /\ Past(s) /\ s \notin shutOut
    BY DEF IsolationInv, SecuredInv, Past
  <2>2. sandboxIp[s] = loc[s].ip
    BY DEF TypeInv, PhaseInv
  <2>. QED
    BY <2>1, <2>2 DEF Secured
<1>. QED
  BY <1>1, <1>2, <1>3, PTL DEF NetSpec

---------------------------------------------------------------------------
(***************************************************************************)
(* Placement                                                               *)
(***************************************************************************)

\* The rows that count against the cap of a node.
On(n) == {r \in Inference : node[r] = n}

\* The rows that count, and those that will once their jobs are done.
Load(n) == {r \in Inference : node[r] = n \/ (phase[r] = "placed" /\ target[r] = n)}

LoadInv == \A n \in InferenceNodes : Cardinality(Load(n)) <= MaxWorkers + MaxJobs - 1

\* A row has a node only while its runtime lives, and what the jobs in flight will add is
\* bounded before they are done.
PlaceInv ==
    /\ PlaceTypeOK /\ LoadInv
    /\ \A r \in Workers : phase[r] # "live" => node[r] = NoNode

LEMMA OnIsFinite == \A n \in Nodes : IsFiniteSet(On(n)) /\ InferenceWorkers(n) = Cardinality(On(n))
                                       /\ InferenceWorkers(n) \in Nat
<1>1. IsFiniteSet(Inference)
  BY PlacementAssumption, FS_Subset
<1>2. \A n \in Nodes : IsFiniteSet(On(n))
  BY <1>1, FS_Subset DEF On
<1>. QED
  BY <1>2, FS_CardinalityType DEF On, InferenceWorkers

\* What select_node returns is a node, and has room for a runtime of an inference class.
LEMMA SelectedHasRoom ==
    ASSUME PlaceTypeOK, NEW r \in Workers, NEW n \in Selected(r)
    PROVE  /\ n \in Nodes
           /\ r \in Inference /\ n \in InferenceNodes => InferenceWorkers(n) < MaxWorkers
<1>1. CASE r \in Pinned
  BY <1>1, PlacementAssumption DEF Selected
<1>2. CASE r \notin Pinned
  <2>1. n \in Nodes /\ ~AtCap(r, n)
    BY <1>2 DEF Selected, Eligible, CandidateNodes, PlaceTypeOK
  <2>. QED
    BY <2>1, OnIsFinite, PlacementAssumption DEF AtCap
<1>. QED
  BY <1>1, <1>2

\* Nodes and the phases of jobs keep their types, however jobs overlap: the node that
\* select_node returns, and so the node in a row, is one of the cluster.
THEOREM PlaceTypeCorrect == PlaceSpec => []PlaceTypeOK
<1>1. PlaceInit => PlaceTypeOK
  BY DEF PlaceInit, PlaceTypeOK
<1>2. PlaceTypeOK /\ [PlaceNext]_placeVars => PlaceTypeOK'
  <2>. SUFFICES ASSUME PlaceTypeOK, [PlaceNext]_placeVars PROVE PlaceTypeOK'
    OBVIOUS
  <2>1. ASSUME NEW r \in Workers, Place(r) PROVE PlaceTypeOK'
    <3>1. PICK n \in Selected(r) : target' = [target EXCEPT ![r] = n]
      BY <2>1 DEF Place
    <3>2. n \in Nodes
      BY SelectedHasRoom
    <3>. QED
      BY <2>1, <3>1, <3>2 DEF Place, PlaceTypeOK
  <2>2. ASSUME NEW r \in Workers,
               PlacementRejected(r) \/ JobDone(r) \/ PlacedJobFails(r) \/ Destroy(r)
        PROVE  PlaceTypeOK'
    BY <2>2 DEF PlacementRejected, JobDone, PlacedJobFails, Destroy, PlaceTypeOK
  <2>3. ASSUME NEW n \in Nodes, NodeChanges(n) PROVE PlaceTypeOK'
    BY <2>3 DEF NodeChanges, PlaceTypeOK
  <2>4. CASE UNCHANGED placeVars
    BY <2>4 DEF placeVars, PlaceTypeOK
  <2>. QED
    BY <2>1, <2>2, <2>3, <2>4 DEF PlaceNext
<1>. QED
  BY <1>1, <1>2, PTL DEF PlaceSpec

LEMMA LoadIsFinite == \A n : IsFiniteSet(Load(n)) /\ Cardinality(Load(n)) \in Nat
<1>1. IsFiniteSet(Inference)
  BY PlacementAssumption, FS_Subset
<1>2. \A n : IsFiniteSet(Load(n))
  BY <1>1, FS_Subset DEF Load
<1>. QED
  BY <1>2, FS_CardinalityType

\* A step that adds nothing to what a node has or will have keeps the bound.
LEMMA LoadShrinks ==
    ASSUME LoadInv, \A n \in InferenceNodes : Load(n)' \subseteq Load(n)
    PROVE  LoadInv'
<1> SUFFICES ASSUME NEW n \in InferenceNodes
             PROVE  Cardinality(Load(n)') <= MaxWorkers + MaxJobs - 1
  BY DEF LoadInv
<1>1. Cardinality(Load(n)') \in Nat /\ Cardinality(Load(n)') <= Cardinality(Load(n))
  BY LoadIsFinite, FS_Subset, FS_CardinalityType
<1>2. Cardinality(Load(n)) \in Nat /\ Cardinality(Load(n)) <= MaxWorkers + MaxJobs - 1
  BY LoadIsFinite DEF LoadInv
<1>. QED
  BY <1>1, <1>2, PlacementAssumption

LEMMA InitPlace == PlaceInit => PlaceInv
<1> SUFFICES ASSUME PlaceInit PROVE PlaceInv
  OBVIOUS
<1>1. PlaceTypeOK /\ \A r \in Workers : node[r] = NoNode
  BY DEF PlaceInit, PlaceTypeOK
<1>2. \A n \in InferenceNodes : Load(n) = {} /\ Cardinality(Load(n)) = 0
  BY PlacementAssumption, FS_EmptySet DEF PlaceInit, Load
<1>3. LoadInv
  BY <1>2, PlacementAssumption DEF LoadInv
<1>. QED
  BY <1>1, <1>3 DEF PlaceInv

\* The job that places now saw room for one, and the others in flight are fewer than the
\* threads.
LEMMA PlaceLoad ==
    ASSUME PlaceInv, NEW r \in Workers, Place(r), NEW n \in InferenceNodes
    PROVE  Cardinality(Load(n)') <= MaxWorkers + MaxJobs - 1
<1>1. PICK m \in Selected(r) : target' = [target EXCEPT ![r] = m]
  BY DEF Place
<1>2. /\ node' = node /\ phase' = [phase EXCEPT ![r] = "placed"]
      /\ phase[r] = "new" /\ Cardinality(InFlight) < MaxJobs
  BY DEF Place, MayPlace
<1>3. PlaceTypeOK /\ LoadInv
  BY DEF PlaceInv
<1>4. CASE r \in Inference /\ m = n
  <2>1. /\ IsFiniteSet(On(n)) /\ Cardinality(On(n)) \in Nat
        /\ Cardinality(On(n)) < MaxWorkers
    BY <1>3, <1>4, OnIsFinite, SelectedHasRoom, PlacementAssumption
  <2>2. IsFiniteSet(InFlight) /\ Cardinality(InFlight) \in Nat
    BY PlacementAssumption, FS_Subset, FS_CardinalityType DEF InFlight
  <2>3. r \notin InFlight
    BY <1>2 DEF InFlight
  <2>4. /\ IsFiniteSet(InFlight \cup {r})
        /\ Cardinality(InFlight \cup {r}) = Cardinality(InFlight) + 1
    BY <2>2, <2>3, FS_AddElement
  <2> DEFINE All == On(n) \cup (InFlight \cup {r})
  <2>5. Load(n)' \subseteq All
    BY <1>1, <1>2, <1>3, PlacementAssumption DEF Load, On, InFlight, PlaceTypeOK
  <2>6. IsFiniteSet(All) /\ Cardinality(All)
          = Cardinality(On(n)) + Cardinality(InFlight \cup {r})
              - Cardinality(On(n) \cap (InFlight \cup {r}))
    BY <2>1, <2>4, FS_Union
  <2>7. Cardinality(On(n) \cap (InFlight \cup {r})) \in Nat
    <3>1. IsFiniteSet(On(n) \cap (InFlight \cup {r}))
      BY <2>1, FS_Subset
    <3>. QED
      BY <3>1, FS_CardinalityType
  <2>8. Cardinality(Load(n)') <= Cardinality(All) /\ Cardinality(Load(n)') \in Nat
    BY <2>5, <2>6, FS_Subset, FS_CardinalityType
  <2> HIDE DEF All
  <2>. QED
    BY <1>2, <2>1, <2>2, <2>4, <2>6, <2>7, <2>8, PlacementAssumption
<1>5. CASE ~(r \in Inference /\ m = n)
  <2>1. Load(n)' \subseteq Load(n)
    BY <1>1, <1>2, <1>3, <1>5, PlacementAssumption DEF Load, PlaceTypeOK
  <2>2. Cardinality(Load(n)') \in Nat /\ Cardinality(Load(n)') <= Cardinality(Load(n))
    BY <2>1, LoadIsFinite, FS_Subset, FS_CardinalityType
  <2>3. Cardinality(Load(n)) \in Nat /\ Cardinality(Load(n)) <= MaxWorkers + MaxJobs - 1
    BY <1>3, LoadIsFinite DEF LoadInv
  <2>. QED
    BY <2>2, <2>3, PlacementAssumption
<1>. QED
  BY <1>4, <1>5

LEMMA NextPlace == ASSUME PlaceInv, [PlaceNext]_placeVars PROVE PlaceInv'
<1> USE DEF PlaceInv
<1>1. ASSUME NEW r \in Workers, Place(r) PROVE PlaceInv'
  <2>1. PICK n \in Selected(r) : target' = [target EXCEPT ![r] = n]
    BY <1>1 DEF Place
  <2>2. node' = node /\ online' = online /\ phase' = [phase EXCEPT ![r] = "placed"] /\ phase[r] = "new"
    BY <1>1 DEF Place
  <2>3. PlaceTypeOK'
    BY <2>1, <2>2, SelectedHasRoom DEF PlaceTypeOK
  <2>4. \A s \in Workers : phase'[s] # "live" => node'[s] = NoNode
    BY <2>2 DEF PlaceTypeOK
  <2>5. LoadInv'
    BY <1>1, PlaceLoad DEF LoadInv
  <2>. QED
    BY <2>3, <2>4, <2>5
<1>2. ASSUME NEW r \in Workers, PlacementRejected(r) \/ PlacedJobFails(r) PROVE PlaceInv'
  <2>1. /\ UNCHANGED <<online, node>> /\ phase' = [phase EXCEPT ![r] = "failed"]
        /\ target' \in {target, [target EXCEPT ![r] = NoNode]} /\ phase[r] # "live"
    BY <1>2 DEF PlacementRejected, PlacedJobFails
  <2>2. PlaceTypeOK' /\ \A s \in Workers : phase'[s] # "live" => node'[s] = NoNode
    BY <2>1 DEF PlaceTypeOK
  <2>3. \A n \in InferenceNodes : Load(n)' \subseteq Load(n)
    BY <2>1, PlacementAssumption DEF Load, PlaceTypeOK
  <2>. QED
    BY <2>2, <2>3, LoadShrinks
\* The row of the job that ends counts where its job was counted on.
<1>3. ASSUME NEW r \in Workers, JobDone(r) PROVE PlaceInv'
  <2>1. /\ UNCHANGED online /\ phase' = [phase EXCEPT ![r] = "live"]
        /\ target' = [target EXCEPT ![r] = NoNode]
        /\ node' = [node EXCEPT ![r] = target[r]] /\ phase[r] = "placed"
    BY <1>3 DEF JobDone
  <2>2. PlaceTypeOK' /\ \A s \in Workers : phase'[s] # "live" => node'[s] = NoNode
    BY <2>1 DEF PlaceTypeOK
  <2>3. \A n \in InferenceNodes : Load(n)' \subseteq Load(n)
    BY <2>1, PlacementAssumption DEF Load, PlaceTypeOK
  <2>. QED
    BY <2>2, <2>3, LoadShrinks
<1>4. ASSUME NEW r \in Workers, Destroy(r) PROVE PlaceInv'
  <2>1. /\ UNCHANGED <<online, target>> /\ phase' = [phase EXCEPT ![r] = "destroyed"]
        /\ node' = [node EXCEPT ![r] = NoNode]
    BY <1>4 DEF Destroy
  <2>2. PlaceTypeOK' /\ \A s \in Workers : phase'[s] # "live" => node'[s] = NoNode
    BY <2>1 DEF PlaceTypeOK
  <2>3. \A n \in InferenceNodes : Load(n)' \subseteq Load(n)
    BY <2>1, PlacementAssumption DEF Load, PlaceTypeOK
  <2>. QED
    BY <2>2, <2>3, LoadShrinks
<1>5. CASE UNCHANGED <<phase, target, node>> /\ online' \subseteq Nodes
  <2>1. PlaceTypeOK' /\ \A s \in Workers : phase'[s] # "live" => node'[s] = NoNode
    BY <1>5 DEF PlaceTypeOK
  <2>2. \A n \in InferenceNodes : Load(n)' \subseteq Load(n)
    BY <1>5 DEF Load
  <2>. QED
    BY <2>1, <2>2, LoadShrinks
<1>6. ASSUME NEW n \in Nodes, NodeChanges(n) PROVE PlaceInv'
  BY <1>5, <1>6 DEF NodeChanges, PlaceTypeOK
<1>7. CASE UNCHANGED placeVars
  BY <1>5, <1>7 DEF placeVars, PlaceTypeOK
<1>. QED
  BY <1>1, <1>2, <1>3, <1>4, <1>6, <1>7 DEF PlaceNext

\* Jobs that run at the same time pass the cap of an inference node by less than their
\* number, and by no more: for any policy, nodes, runtimes and number of threads, whatever
\* nodes go down and come back and whatever is destroyed meanwhile.  The rows alone do not
\* show it: a job is on its way before its row counts, so what the jobs in flight will add
\* has to be bounded with it.
THEOREM OvershootIsBounded == PlaceSpec => []CapOvershoot
<1>1. PlaceInv => CapOvershoot
  <2> SUFFICES ASSUME PlaceInv, NEW n \in InferenceNodes
               PROVE  InferenceWorkers(n) <= MaxWorkers + MaxJobs - 1
    BY DEF CapOvershoot
  <2>1. On(n) \subseteq Load(n) /\ n \in Nodes
    BY PlacementAssumption DEF On, Load
  <2>2. Cardinality(On(n)) <= Cardinality(Load(n)) /\ InferenceWorkers(n) = Cardinality(On(n))
    BY <2>1, LoadIsFinite, OnIsFinite, FS_Subset
  <2>3. Cardinality(Load(n)) \in Nat /\ Cardinality(Load(n)) <= MaxWorkers + MaxJobs - 1
    BY LoadIsFinite DEF PlaceInv, LoadInv
  <2>4. InferenceWorkers(n) \in Nat
    BY <2>1, OnIsFinite
  <2>. QED
    BY <2>2, <2>3, <2>4, PlacementAssumption
<1>2. PlaceInv /\ [PlaceNext]_placeVars => PlaceInv'
  BY NextPlace
<1>. QED
  BY <1>1, <1>2, InitPlace, PTL DEF PlaceSpec
============================================================================
