------------------------ MODULE Reconciler_proofs ------------------------
(***************************************************************************)
(* Types, the bound on recovery starts and the meaning of STOPPED, of      *)
(* Reconciler for any number of rows, VMIDs, visits and DELETEs.           *)
(*                                                                         *)
(*   VisitInv, VmInv, DeleteInv   what a step in progress may rely on      *)
(*   BudgetInv                    the starts of visits that had their row  *)
(*                                for themselves are paid for by the       *)
(*                                counter, or by a session about to write  *)
(*   SerialInv                    what a visit knows of a row that never   *)
(*                                had two visits at once                   *)
(*   HonestInv                    who vouches for a row that says STOPPED  *)
(***************************************************************************)
EXTENDS Reconciler, TLAPS

Visiting(p, r) == vrt[p] = r /\ vpc[p] # "idle"

Committing(p, r) == vrt[p] = r /\ vpc[p] = "commit"

VisitInv ==
    \A p \in Visits :
        /\ vpc[p] # "idle" => vrt[p] \in Runtimes /\ actual[vrt[p]] # "NONE"
        /\ vpc[p] # "idle" => copy[p].actual # "NONE"
        /\ vpc[p] \in {"start", "shutdown", "wait"} => copy[p].vmid \in VmIds
        /\ vpc[p] = "start" => copy[p].count < MaxAttempts
        /\ vpc[p] = "commit" => /\ sess[p].actual # "NONE"
                                /\ sess[p].count <= copy[p].count + 1

\* Every VM carries a marker; a runtime has at most one VM, and none before it
\* is provisioned.
VmInv ==
    /\ \A v \in VmIds : vms[v].exists <=> vms[v].owner # NULL
    /\ \A v, w \in VmIds : vms[v].owner = vms[w].owner /\ vms[v].owner # NULL => v = w
    /\ \A v \in VmIds, r \in Runtimes : vms[v].owner = r => actual[r] # "NONE"
    /\ \A r \in Runtimes : vmid[r] # NULL => actual[r] # "NONE"

DeleteInv ==
    \A d \in Deleters :
        /\ del[d].pc = "destroy" => del[d].rt \in Runtimes /\ del[d].vmid \in VmIds
        /\ del[d].pc = "commit" => del[d].rt \in Runtimes

TypeInv == TypeOK /\ VisitInv /\ VmInv /\ DeleteInv

\* Of a row that never had two visits at once, nobody but its visit writes
\* recovery_count, and actual_state while the row has its VM.
SerialInv ==
    /\ \A p, q \in Visits, r \in Runtimes \ strayed : Visiting(p, r) /\ Visiting(q, r) => p = q
    /\ \A p \in Visits, r \in Runtimes \ strayed : Visiting(p, r) =>
         /\ copy[p].count = count[r]
         /\ vmid[r] # NULL => copy[p].vmid = vmid[r] /\ copy[p].actual = actual[r]

\* Visits that overlap know it, both.
MetInv ==
    \A p, q \in Visits, r \in Runtimes :
        Visiting(p, r) /\ Visiting(q, r) /\ p # q => p \in met

\* The visit will write a new count at its commit, and it pays for what was started.
Pays(p, r) ==
    /\ Committing(p, r) /\ sess[p].count # copy[p].count
    /\ solo[r] <= sess[p].count + crashes

\* What was started alone is counted in the row, or by a session about to write it; a
\* restart forgets one.  A visit that overlaps another may have loaded a count that
\* misses one start, and what it writes does not miss it.
Budget(r) ==
    /\ \A p \in Visits : Visiting(p, r) => solo[r] <= copy[p].count + 1 + crashes
    /\ \A p \in Visits \ met : Visiting(p, r) /\ vpc[p] # "commit"
                               => solo[r] <= copy[p].count + crashes
    /\ \A p \in Visits : Committing(p, r) => sess[p].count = copy[p].count \/ Pays(p, r)
    /\ solo[r] <= count[r] + 1 + crashes
    /\ solo[r] <= count[r] + crashes \/ \E p \in Visits : Pays(p, r)

BudgetInv == MetInv /\ \A r \in Runtimes : Budget(r)

\* STOPPED is vouched for by the row, or by the session about to write it.
Honest(r) ==
    vmid[r] # NULL /\ vms[vmid[r]].owner = r =>
        /\ \A p \in Visits : Committing(p, r) /\ sess[p].actual = "STOPPED"
                               => vms[vmid[r]].power = "stopped"
        /\ (\A p \in Visits : ~Committing(p, r)) /\ actual[r] = "STOPPED"
                               => vms[vmid[r]].power = "stopped"

HonestInv == crashes = 0 => \A r \in Runtimes \ strayed : Honest(r)

---------------------------------------------------------------------------
(* Types *)

LEMMA InitTypes == Init => TypeInv
  BY ReconcilerAssumption
  DEF Init, TypeInv, TypeOK, VisitInv, VmInv, DeleteInv, RuntimeState, ActualState, VM,
      Copy, SessionValues, Delete, NoVm, NoCopy, NoValues, IdleDelete

\* VMs may change their power, and only that.
SameVms == \A v \in VmIds : /\ vms'[v].exists = vms[v].exists
                            /\ vms'[v].owner = vms[v].owner

HistoryTypes ==
    /\ attempts \in [Runtimes -> 0..MaxAttempts + 1] /\ solo \in [Runtimes -> Nat]
    /\ met \subseteq Visits /\ strayed \subseteq Runtimes

\* A visit that ends leaves everything well-typed.
LEMMA EndsTypes ==
    ASSUME TypeInv, NEW p \in Visits, vpc[p] # "idle",
           NEW a \in ActualState \ {"NONE"}, NEW n \in 0..MaxAttempts, NEW g \in BOOLEAN,
           n <= copy[p].count + 1, Ends(p, a, n, g),
           vms' \in [VmIds -> VM], SameVms, HistoryTypes'
    PROVE  TypeInv'
<1> USE DEF TypeInv, Ends, row
<1>1. TypeOK'
  BY DEF TypeOK, SessionValues, HistoryTypes
<1>2. VisitInv'
  BY DEF TypeOK, VisitInv, SessionValues
<1>3. VmInv'
  BY DEF VmInv, SameVms
<1>4. DeleteInv'
  BY DEF DeleteInv
<1>. QED
  BY <1>1, <1>2, <1>3, <1>4

LEMMA EndsUnchangedTypes ==
    ASSUME TypeInv, NEW p \in Visits, vpc[p] # "idle",
           EndsUnchanged(p) \/ EndsInError(p) \/ Ends(p, copy[p].actual, copy[p].count, TRUE),
           UNCHANGED vms, HistoryTypes'
    PROVE  TypeInv'
<1>1. /\ copy[p].actual \in ActualState \ {"NONE"}
      /\ copy[p].count \in 0..MaxAttempts
      /\ copy[p].count <= copy[p].count + 1
      /\ copy[p].gaveUp \in BOOLEAN
  BY DEF TypeInv, TypeOK, VisitInv, Copy
<1>2. vms' \in [VmIds -> VM] /\ SameVms
  BY DEF TypeInv, TypeOK, SameVms
<1>3. \E g \in BOOLEAN : Ends(p, copy[p].actual, copy[p].count, g)
  BY <1>1 DEF EndsUnchanged, EndsInError
<1>. QED
  BY <1>1, <1>2, <1>3, EndsTypes

LEMMA VisitTypes ==
    ASSUME TypeInv, NEW p \in Visits, VisitStep(p)
    PROVE  TypeInv'
<1>0. HistoryTypes /\ vms \in [VmIds -> VM] /\ copy[p] \in Copy
  BY DEF TypeInv, TypeOK, HistoryTypes
<1>a. UNCHANGED history => HistoryTypes'
  BY <1>0 DEF HistoryTypes, history
<1>b. SeenAsDesired(vrt[p]) /\ UNCHANGED <<met, strayed>> => HistoryTypes'
  <2>1. 0 \in 0..MaxAttempts + 1 /\ 0 \in Nat
    BY ReconcilerAssumption
  <2>. QED
    BY <1>0, <2>1 DEF HistoryTypes, SeenAsDesired
<1>c. Called(vrt[p]) => attempts' \in [Runtimes -> 0..MaxAttempts + 1]
  <2>1. \A n \in 0..MaxAttempts + 1 : (IF n > MaxAttempts THEN n ELSE n + 1) \in 0..MaxAttempts + 1
    BY ReconcilerAssumption
  <2> DEFINE Next1(n) == IF n > MaxAttempts THEN n ELSE n + 1
  <2>2. Called(vrt[p]) => attempts' = [attempts EXCEPT ![vrt[p]] = Next1(@)]
    BY DEF Called
  <2>3. attempts \in [Runtimes -> 0..MaxAttempts + 1]
    BY <1>0 DEF HistoryTypes
  <2>4. \A n \in 0..MaxAttempts + 1 : Next1(n) \in 0..MaxAttempts + 1
    BY <2>1
  <2> HIDE DEF Next1
  <2>. QED
    BY <2>2, <2>3, <2>4
<1>1. CASE ObserveNothingToDo(p)
  BY <1>a, <1>1, EndsUnchangedTypes DEF ObserveNothingToDo, Observes, history
<1>2. CASE ObserveUnknown(p)
  BY <1>a, <1>2, EndsUnchangedTypes DEF ObserveUnknown, Observes, history
<1>3. CASE ObserveConverged(p)
  <2>1. vpc[p] # "idle" /\ SameVms
    BY <1>3 DEF ObserveConverged, Observes, SameVms
  <2>2. HistoryTypes'
    BY <1>b, <1>3 DEF ObserveConverged
  <2>3. \E a \in ActualState \ {"NONE"}, n \in 0..MaxAttempts :
          n <= copy[p].count + 1 /\ Ends(p, a, n, FALSE)
    <3>1. \A n \in {0, copy[p].count} : n \in 0..MaxAttempts /\ n <= copy[p].count + 1
      BY <1>0, ReconcilerAssumption DEF Copy
    <3>. QED
      BY <1>3, <3>1 DEF ObserveConverged, ActualState
  <2>. QED
    BY <1>0, <1>3, <2>1, <2>2, <2>3, EndsTypes DEF ObserveConverged
<1>4. CASE ObserveUnowned(p)
  BY <1>a, <1>4, EndsUnchangedTypes
  DEF ObserveUnowned, NeedsStart, NeedsShutdown, Observes, history
<1>5. CASE RecoveryExhausted(p)
  BY <1>a, <1>5, EndsUnchangedTypes DEF RecoveryExhausted, NeedsStart, Observes, history
<1>6. CASE DecideToAct(p)
  <2>1. vpc[p] = "observe" /\ copy[p].vmid \in VmIds
    BY <1>0, <1>6
    DEF DecideToAct, NeedsStart, NeedsShutdown, Observes, PveState, Copy
  <2>2. (vpc' = [vpc EXCEPT ![p] = "start"] /\ copy[p].count < MaxAttempts)
          \/ vpc' = [vpc EXCEPT ![p] = "shutdown"]
    BY <1>0, <1>6, ReconcilerAssumption DEF DecideToAct, AttemptsExhausted, Copy
  <2>3. UNCHANGED <<row, vms, vrt, copy, sess, del, history, outages, crashes>>
    BY <1>6 DEF DecideToAct
  <2>. QED
    BY <2>1, <2>2, <2>3
    DEF TypeInv, TypeOK, VisitInv, VmInv, DeleteInv, row, history
<1>7. CASE Start(p)
  <2>1. copy[p].vmid \in VmIds /\ vrt[p] \in Runtimes /\ copy[p].count < MaxAttempts
    BY <1>7 DEF Start, TypeInv, VisitInv
  <2>2. vms' \in [VmIds -> VM] /\ SameVms
    BY <1>0, <1>7, <2>1 DEF Start, Outcome, VM, SameVms
  <2>3. solo' \in [Runtimes -> Nat] /\ met' = met
    BY <1>0, <1>7, <2>1 DEF Start, Accepted, HistoryTypes
  <2>4. strayed' \subseteq Runtimes
    BY <1>0, <1>7, <2>1 DEF Start, TypeInv, VmInv, VM, HistoryTypes
  <2>6. HistoryTypes'
    BY <1>0, <1>c, <1>7, <2>3, <2>4 DEF Start, HistoryTypes
  <2>5. /\ copy[p].count + 1 \in 0..MaxAttempts /\ copy[p].count + 1 <= copy[p].count + 1
        /\ "RUNNING" \in ActualState \ {"NONE"}
    BY <1>0, <2>1, ReconcilerAssumption DEF Copy, ActualState
  <2>. QED
    BY <1>7, <2>2, <2>5, <2>6, EndsTypes, Zenon DEF Start
<1>8. CASE StartRaises(p)
  <2>1. HistoryTypes'
    BY <1>0, <1>c, <1>8 DEF StartRaises, HistoryTypes
  <2>. QED
    BY <1>8, <2>1, EndsUnchangedTypes DEF StartRaises
<1>9. CASE Shutdown(p)
  <2>1. copy[p].vmid \in VmIds
    BY <1>9 DEF Shutdown, TypeInv, VisitInv
  <2>2. vms' \in [VmIds -> VM] /\ SameVms
    BY <1>0, <1>9, <2>1 DEF Shutdown, Outcome, VM, SameVms
  <2>3. UNCHANGED <<row, vrt, copy, sess, del, history, outages, crashes>>
        /\ vpc[p] = "shutdown" /\ vpc' = [vpc EXCEPT ![p] = "wait"]
    BY <1>9 DEF Shutdown
  <2>4. TypeOK'
    BY <2>2, <2>3 DEF TypeInv, TypeOK, row, history
  <2>5. VisitInv'
    BY <2>1, <2>3 DEF TypeInv, TypeOK, VisitInv, row
  <2>6. VmInv' /\ DeleteInv'
    BY <2>2, <2>3 DEF TypeInv, VmInv, DeleteInv, SameVms, row
  <2>. QED
    BY <2>4, <2>5, <2>6 DEF TypeInv
<1>10. CASE ShutdownRaises(p)
  BY <1>a, <1>10, EndsUnchangedTypes DEF ShutdownRaises, history
<1>11. CASE WaitSeesStopped(p)
  <2>1. HistoryTypes' /\ SameVms
    BY <1>b, <1>11 DEF WaitSeesStopped, SameVms
  <2>2. 0 \in 0..MaxAttempts /\ 0 <= copy[p].count + 1
        /\ "STOPPED" \in ActualState \ {"NONE"}
    BY <1>0, ReconcilerAssumption DEF Copy, ActualState
  <2>. QED
    BY <1>0, <1>11, <2>1, <2>2, EndsTypes DEF WaitSeesStopped
<1>12. CASE WaitTimesOut(p)
  BY <1>a, <1>12, EndsUnchangedTypes DEF WaitTimesOut, history
<1>13. CASE VisitCommit(p)
  <2>1. /\ vrt[p] \in Runtimes /\ sess[p] \in SessionValues /\ sess[p].actual # "NONE"
        /\ actual[vrt[p]] # "NONE"
    BY <1>13 DEF VisitCommit, TypeInv, TypeOK, VisitInv
  <2>2. TypeOK'
    BY <1>13, <2>1, ReconcilerAssumption
    DEF VisitCommit, TypeInv, TypeOK, SessionValues, NoCopy, NoValues, Copy, RuntimeState,
        ActualState, history
  <2>3. \A r \in Runtimes : actual'[r] = "NONE" => actual[r] = "NONE"
    BY <1>13, <2>1 DEF VisitCommit, TypeInv, TypeOK
  <2>4. VisitInv'
    BY <1>13, <2>1, <2>3 DEF VisitCommit, TypeInv, TypeOK, VisitInv
  <2>5. VmInv' /\ DeleteInv'
    BY <1>13, <2>3 DEF VisitCommit, TypeInv, VmInv, DeleteInv
  <2>. QED
    BY <2>2, <2>4, <2>5 DEF TypeInv
<1>. QED
  BY <1>1, <1>2, <1>3, <1>4, <1>5, <1>6, <1>7, <1>8, <1>9, <1>10, <1>11, <1>12, <1>13
  DEF VisitStep, Acts

LEMMA ApiTypes ==
    ASSUME TypeInv, NEW r \in Runtimes, Provision(r) \/ Supersede(r)
                                          \/ \E x \in RuntimeState : SetDesiredState(r, x)
    PROVE  TypeInv'
<1>1. CASE Provision(r)
  <2>1. CASE UNCHANGED <<vmid, vms>> /\ actual' = [actual EXCEPT ![r] = "ERROR"]
    BY <1>1, <2>1
    DEF Provision, TypeInv, TypeOK, VisitInv, VmInv, DeleteInv, ActualState, visit, history
  <2>2. ASSUME NEW v \in VmIds, IsNextVmid(v), vmid' = [vmid EXCEPT ![r] = v],
               vms' = [vms EXCEPT ![v] = [exists |-> TRUE, owner |-> r, power |-> "running"]],
               actual' = [actual EXCEPT ![r] = "RUNNING"]
        PROVE  TypeInv'
    <3>1. TypeOK'
      BY <1>1, <2>2 DEF Provision, TypeInv, TypeOK, ActualState, VM, visit, history
    <3>2. VisitInv' /\ DeleteInv'
      BY <1>1, <2>2 DEF Provision, TypeInv, TypeOK, VisitInv, DeleteInv, visit
    <3>3. VmInv'
      <4>1. \A w \in VmIds : vms[w].owner # r
        BY <1>1 DEF Provision, TypeInv, VmInv
      <4>2. /\ vms'[v].exists /\ vms'[v].owner = r /\ r # NULL
            /\ \A w \in VmIds \ {v} : vms'[w] = vms[w]
        BY <2>2, ReconcilerAssumption DEF TypeInv, TypeOK
      <4>3. /\ actual'[r] = "RUNNING" /\ vmid'[r] = v
            /\ \A s \in Runtimes \ {r} : actual'[s] = actual[s] /\ vmid'[s] = vmid[s]
        BY <2>2 DEF TypeInv, TypeOK
      <4>. QED
        BY <4>1, <4>2, <4>3 DEF TypeInv, VmInv
    <3>. QED
      BY <3>1, <3>2, <3>3 DEF TypeInv
  <2>. QED
    BY <1>1, <2>1, <2>2 DEF Provision
<1>2. CASE Supersede(r)
  BY <1>2
  DEF Supersede, TypeInv, TypeOK, VisitInv, VmInv, DeleteInv, ActualState, visit, history
<1>3. CASE \E x \in RuntimeState : SetDesiredState(r, x)
  BY <1>3 DEF SetDesiredState, TypeInv, TypeOK, VisitInv, VmInv, DeleteInv, visit, history
<1>. QED
  BY <1>1, <1>2, <1>3

LEMMA DeleteTypes ==
    ASSUME TypeInv, NEW d \in Deleters,
           \/ \E r \in Runtimes : DeleteVerify(d, r)
           \/ DeleteDestroy(d) \/ DeleteCommit(d) \/ DeleteAborts(d)
    PROVE  TypeInv'
<1>1. ASSUME NEW r \in Runtimes, DeleteVerify(d, r) PROVE TypeInv'
  BY <1>1
  DEF DeleteVerify, TypeInv, TypeOK, VisitInv, VmInv, DeleteInv, Delete, row, visit, history
<1>2. CASE DeleteDestroy(d)
  <2>1. del[d].vmid \in VmIds /\ del[d].rt \in Runtimes
    BY <1>2 DEF DeleteDestroy, TypeInv, DeleteInv
  <2>2. TypeOK'
    <3>1. NoVm \in VM
      BY DEF NoVm, VM
    <3>2. vms' \in [VmIds -> VM]
      BY <1>2, <3>1 DEF DeleteDestroy, TypeInv, TypeOK
    <3>3. del' \in [Deleters -> Delete]
      BY <1>2, <2>1 DEF DeleteDestroy, TypeInv, TypeOK, Delete
    <3>. QED
      BY <1>2, <3>2, <3>3 DEF DeleteDestroy, TypeInv, TypeOK, row, visit, history
  <2>3. VisitInv' /\ DeleteInv'
    BY <1>2, <2>1 DEF DeleteDestroy, TypeInv, TypeOK, VisitInv, DeleteInv, Delete, row, visit
  <2>4. VmInv'
    BY <1>2, <2>1, ReconcilerAssumption DEF DeleteDestroy, TypeInv, TypeOK, VmInv, NoVm, row
  <2>. QED
    BY <2>2, <2>3, <2>4 DEF TypeInv
<1>3. CASE DeleteCommit(d)
  <2>1. del[d].rt \in Runtimes
    BY <1>3 DEF DeleteCommit, TypeInv, DeleteInv
  <2>2. TypeOK'
    BY <1>3, <2>1
    DEF DeleteCommit, TypeInv, TypeOK, Delete, IdleDelete, RuntimeState, ActualState, visit,
        history
  <2>3. VisitInv' /\ DeleteInv' /\ VmInv'
    BY <1>3, <2>1
    DEF DeleteCommit, TypeInv, TypeOK, VisitInv, VmInv, DeleteInv, IdleDelete, visit
  <2>. QED
    BY <2>2, <2>3 DEF TypeInv
<1>4. CASE DeleteAborts(d)
  BY <1>4
  DEF DeleteAborts, TypeInv, TypeOK, VisitInv, VmInv, DeleteInv, Delete, IdleDelete, row,
      visit, history
<1>. QED
  BY <1>1, <1>2, <1>3, <1>4

LEMMA NextTypes == TypeInv /\ [Next]_vars => TypeInv'
<1> SUFFICES ASSUME TypeInv, [Next]_vars PROVE TypeInv'
  OBVIOUS
<1>1. ASSUME NEW p \in Visits, NEW r \in Runtimes, Load(p, r) PROVE TypeInv'
  <2>1. [desired |-> desired[r], actual |-> actual[r], vmid |-> vmid[r],
         count |-> count[r], gaveUp |-> gaveUp[r]] \in Copy
    BY DEF TypeInv, TypeOK, Copy
  <2>2. TypeOK'
    <3>1. met' \subseteq Visits /\ strayed' \subseteq Runtimes
      BY <1>1 DEF Load, VisitsOf, TypeInv, TypeOK
    <3>. QED
      BY <1>1, <2>1, <3>1 DEF Load, TypeInv, TypeOK, row
  <2>3. VisitInv' /\ VmInv' /\ DeleteInv'
    BY <1>1 DEF Load, TypeInv, TypeOK, VisitInv, VmInv, DeleteInv, row
  <2>. QED
    BY <2>2, <2>3 DEF TypeInv
<1>2. ASSUME NEW v \in VmIds, VmStops(v) PROVE TypeInv'
  <2>1. TypeOK'
    <3>1. vms' \in [VmIds -> VM]
      BY <1>2 DEF VmStops, TypeInv, TypeOK, VM
    <3>2. outages' \in 0..MaxOutages
      BY <1>2, ReconcilerAssumption DEF VmStops, TypeInv, TypeOK
    <3>. QED
      BY <1>2, <3>1, <3>2 DEF VmStops, TypeInv, TypeOK, row, visit, history
  <2>2. VisitInv' /\ VmInv' /\ DeleteInv'
    BY <1>2 DEF VmStops, TypeInv, TypeOK, VisitInv, VmInv, DeleteInv, row, visit
  <2>. QED
    BY <2>1, <2>2 DEF TypeInv
<1>3. CASE Crash
  <2>1. TypeOK'
    BY <1>3, ReconcilerAssumption
    DEF Crash, TypeInv, TypeOK, NoCopy, NoValues, IdleDelete, Copy, SessionValues, Delete,
        RuntimeState, ActualState, row, history
  <2>2. VisitInv' /\ VmInv' /\ DeleteInv'
    BY <1>3 DEF Crash, TypeInv, TypeOK, VisitInv, VmInv, DeleteInv, IdleDelete, row
  <2>. QED
    BY <2>1, <2>2 DEF TypeInv
<1>4. CASE UNCHANGED vars
  BY <1>4
  DEF vars, TypeInv, TypeOK, VisitInv, VmInv, DeleteInv, row, visit, history
<1>. QED
  BY <1>1, <1>2, <1>3, <1>4, VisitTypes, ApiTypes, DeleteTypes DEF Next

LEMMA TypeInvariant == Spec => []TypeInv
  BY InitTypes, NextTypes, PTL DEF Spec

\* Every column, copy, session value and handler of the reconciler keeps its
\* type; recovery_count never passes settings.max_recovery_attempts, whether
\* or not visits of one row overlap.
THEOREM TypeCorrect == Spec => []TypeOK
  BY TypeInvariant, PTL DEF TypeInv

---------------------------------------------------------------------------
(* One visit of a row at a time *)

\* What a step of a visit leaves alone: the other visits and, until its
\* commit, the row and the copy.
VisitGoesOn(p) ==
    /\ UNCHANGED <<row, vrt, copy>>
    /\ \E x \in {"start", "shutdown", "wait", "commit"} : vpc' = [vpc EXCEPT ![p] = x]
    /\ sess' = sess \/ \E s \in SessionValues : sess' = [sess EXCEPT ![p] = s]

LEMMA VisitStepGoesOn ==
    ASSUME TypeInv, NEW p \in Visits, VisitStep(p)
    PROVE  /\ vpc[p] # "idle" /\ vrt[p] \in Runtimes
           /\ UNCHANGED <<desired, vmid, del, outages, crashes>>
           /\ VisitCommit(p) \/ VisitGoesOn(p)
<1>0. (\E a, n, g : Ends(p, a, n, g)) /\ TypeInv' /\ vpc[p] # "idle" =>
        VisitGoesOn(p) /\ UNCHANGED <<desired, vmid, del, outages, crashes>>
  BY DEF Ends, VisitGoesOn, TypeInv, TypeOK, row
<1>1. TypeInv'
  BY VisitTypes
<1>2. CASE DecideToAct(p) \/ Shutdown(p)
  BY <1>2
  DEF DecideToAct, Shutdown, NeedsStart, NeedsShutdown, Observes, VisitGoesOn, row, TypeInv,
      VisitInv
<1>3. CASE VisitCommit(p)
  BY <1>3 DEF VisitCommit, TypeInv, VisitInv
<1>4. CASE ~(DecideToAct(p) \/ Shutdown(p) \/ VisitCommit(p))
  <2>1. vpc[p] # "idle"
    BY <1>4
    DEF VisitStep, Acts, ObserveNothingToDo, ObserveUnknown, ObserveConverged, ObserveUnowned,
        RecoveryExhausted, Start, StartRaises, ShutdownRaises, WaitSeesStopped, WaitTimesOut,
        NeedsStart, NeedsShutdown, Observes
  <2>2. \E a, n, g : Ends(p, a, n, g)
    <3>1. EndsUnchanged(p) => \E a, n, g : Ends(p, a, n, g)
      BY Zenon DEF EndsUnchanged
    <3>2. EndsInError(p) => \E a, n, g : Ends(p, a, n, g)
      BY Zenon DEF EndsInError
    <3>3. ObserveConverged(p) => \E a, n, g : Ends(p, a, n, g)
      BY Zenon DEF ObserveConverged
    <3>4. RecoveryExhausted(p) \/ Start(p) \/ WaitSeesStopped(p)
            => \E a, n, g : Ends(p, a, n, g)
      BY Zenon DEF RecoveryExhausted, Start, WaitSeesStopped
    <3>. QED
      BY <1>4, <3>1, <3>2, <3>3, <3>4, Zenon
      DEF VisitStep, Acts, ObserveNothingToDo, ObserveUnknown, ObserveUnowned, StartRaises,
          ShutdownRaises, WaitTimesOut
  <2>. QED
    BY <1>0, <1>1, <2>1, <2>2 DEF TypeInv, VisitInv
<1>. QED
  BY <1>2, <1>3, <1>4

\* A visit creates and destroys no VM and changes no marker.
LEMMA VisitStepVms ==
    ASSUME TypeInv, NEW p \in Visits, VisitStep(p)
    PROVE  SameVms
<1>1. CASE vms' = vms
  BY <1>1 DEF SameVms
<1>2. ASSUME NEW v, NEW x, vms' = [vms EXCEPT ![v].power = x] PROVE SameVms
  BY <1>2 DEF SameVms, TypeInv, TypeOK, VM
<1>. QED
  BY <1>1, <1>2
  DEF VisitStep, Acts, ObserveNothingToDo, ObserveUnknown, ObserveConverged, ObserveUnowned,
      RecoveryExhausted, DecideToAct, Start, StartRaises, Shutdown, ShutdownRaises,
      WaitSeesStopped, WaitTimesOut, VisitCommit

LEMMA InitSerial == Init => SerialInv
  BY DEF Init, SerialInv, Visiting

\* A row that had two visits at once is never forgotten.
LEMMA StrayedGrows == [Next]_vars => strayed \subseteq strayed'
  BY DEF Next, VisitStep, Acts, Load, ObserveNothingToDo, ObserveUnknown, ObserveConverged,
      ObserveUnowned, RecoveryExhausted, DecideToAct, Start, StartRaises, Shutdown,
      ShutdownRaises, WaitSeesStopped, WaitTimesOut, VisitCommit, Provision, Supersede,
      SetDesiredState, DeleteVerify, DeleteDestroy, DeleteCommit, DeleteAborts, VmStops,
      Crash, vars, history

LEMMA NextSerial == TypeInv /\ SerialInv /\ [Next]_vars => SerialInv'
<1> SUFFICES ASSUME TypeInv, SerialInv, [Next]_vars PROVE SerialInv'
  OBVIOUS
<1> USE DEF SerialInv, Visiting
<1>0. strayed \subseteq strayed'
  BY StrayedGrows
<1>1. ASSUME NEW p \in Visits, NEW r \in Runtimes, Load(p, r) PROVE SerialInv'
  BY <1>1 DEF Load, VisitsOf, TypeInv, TypeOK, row
<1>2. ASSUME NEW p \in Visits, VisitStep(p) PROVE SerialInv'
  <2>1. CASE VisitGoesOn(p)
    <3>1. vpc[p] # "idle"
      BY <1>2, VisitStepGoesOn
    <3>2. \A q \in Visits : vpc'[q] # "idle" => vpc[q] # "idle"
      BY <2>1, <3>1 DEF VisitGoesOn, TypeInv, TypeOK
    <3>. QED
      BY <1>0, <2>1, <3>2 DEF VisitGoesOn, row
  <2>2. CASE VisitCommit(p)
    BY <1>0, <2>2 DEF VisitCommit, TypeInv, TypeOK, VisitInv
  <2>. QED
    BY <1>2, <2>1, <2>2, VisitStepGoesOn
<1>3. ASSUME NEW r \in Runtimes, Provision(r) PROVE SerialInv'
  <2>1. \A p \in Visits : ~Visiting(p, r)
    BY <1>3 DEF Provision, TypeInv, VisitInv
  <2>2. /\ UNCHANGED <<count, visit>>
        /\ \A s \in Runtimes \ {r} : actual'[s] = actual[s] /\ vmid'[s] = vmid[s]
    BY <1>3 DEF Provision, TypeInv, TypeOK
  <2>. QED
    BY <1>0, <2>1, <2>2 DEF visit
<1>4. ASSUME NEW r \in Runtimes, Supersede(r) PROVE SerialInv'
  BY <1>0, <1>4 DEF Supersede, TypeInv, TypeOK, visit
<1>5. ASSUME NEW d \in Deleters, DeleteCommit(d) PROVE SerialInv'
  BY <1>0, <1>5 DEF DeleteCommit, TypeInv, TypeOK, DeleteInv, visit
<1>6. ASSUME UNCHANGED <<actual, vmid, count, visit>> PROVE SerialInv'
  BY <1>0, <1>6 DEF visit
<1>7. ASSUME NEW d \in Deleters,
             DeleteDestroy(d) \/ DeleteAborts(d) \/ \E r \in Runtimes : DeleteVerify(d, r)
      PROVE  SerialInv'
  BY <1>6, <1>7 DEF DeleteDestroy, DeleteAborts, DeleteVerify, row
<1>8. ASSUME NEW r \in Runtimes, NEW x \in RuntimeState, SetDesiredState(r, x)
      PROVE  SerialInv'
  BY <1>6, <1>8 DEF SetDesiredState
<1>9. ASSUME NEW v \in VmIds, VmStops(v) PROVE SerialInv'
  BY <1>6, <1>9 DEF VmStops, row
<1>10. CASE Crash
  BY <1>10 DEF Crash
<1>11. CASE UNCHANGED vars
  BY <1>6, <1>11 DEF vars, row
<1>. QED
  BY <1>1, <1>2, <1>3, <1>4, <1>5, <1>7, <1>8, <1>9, <1>10, <1>11 DEF Next

---------------------------------------------------------------------------
(* The bound on recovery starts *)

LEMMA InitBudget == Init => BudgetInv
  BY ReconcilerAssumption DEF Init, BudgetInv, MetInv, Budget, Visiting, Committing

LEMMA BudgetTypes ==
    ASSUME TypeInv, NEW r \in Runtimes
    PROVE  /\ solo[r] \in Nat /\ count[r] \in Nat /\ crashes \in Nat
           /\ \A p \in Visits : copy[p].count \in Nat /\ sess[p].count \in Nat
  BY ReconcilerAssumption DEF TypeInv, TypeOK, Copy, SessionValues

\* A step that leaves what a row's budget speaks of as it is.
SameBudget(r) ==
    /\ solo'[r] = solo[r] /\ count'[r] = count[r] /\ crashes' = crashes
    /\ \A p \in Visits :
         /\ Visiting(p, r)' <=> Visiting(p, r)
         /\ Visiting(p, r) => /\ UNCHANGED <<copy[p], sess[p], vpc[p]>>
                              /\ p \in met => p \in met'

LEMMA BudgetFrame ==
    ASSUME NEW r \in Runtimes, Budget(r), SameBudget(r) PROVE Budget(r)'
<1>1. \A p \in Visits : (Committing(p, r)' <=> Committing(p, r)) /\ (Pays(p, r)' <=> Pays(p, r))
  BY DEF SameBudget, Committing, Visiting, Pays
<1>. QED
  BY <1>1 DEF Budget, SameBudget, Committing, Visiting

\* The end of a visit that started nothing alone: its session keeps the count, or pays.
LEMMA EndsBudget ==
    ASSUME TypeInv, TypeInv', NEW p \in Visits, NEW r \in Runtimes, r = vrt[p], Budget(r),
           vpc[p] \notin {"idle", "commit"}, NEW a, NEW n \in Nat, NEW g, Ends(p, a, n, g),
           met' = met, solo'[r] = solo[r], n = copy[p].count \/ n = copy[p].count + 1
    PROVE  Budget(r)'
<1>1. /\ UNCHANGED <<count, vrt, copy, crashes>> /\ vpc'[p] = "commit" /\ sess'[p].count = n
      /\ \A q \in Visits \ {p} : vpc'[q] = vpc[q] /\ sess'[q] = sess[q]
  BY DEF Ends, row, TypeInv, TypeOK
<1>2. \A q \in Visits \ {p} : (Committing(q, r)' <=> Committing(q, r)) /\ (Pays(q, r)' <=> Pays(q, r))
  BY <1>1 DEF Committing, Pays
<1>3. ~Pays(p, r) /\ \A q \in Visits : Visiting(q, r)' <=> Visiting(q, r)
  BY <1>1 DEF Pays, Committing, Visiting
<1>4. sess'[p].count = copy[p].count \/ Pays(p, r)'
  BY <1>1, BudgetTypes DEF Budget, Pays, Committing, Visiting
<1>5. \A q \in Visits : Committing(q, r)' => sess'[q].count = copy[q].count \/ Pays(q, r)'
  BY <1>1, <1>2, <1>4 DEF Budget
<1>. QED
  BY <1>1, <1>2, <1>3, <1>5 DEF Budget

\* The end of a visit that has seen the VM as desired.
LEMMA ConvergedBudget ==
    ASSUME TypeInv, TypeInv', NEW r \in Runtimes, solo'[r] = 0
    PROVE  Budget(r)'
<1>1. /\ count'[r] \in Nat /\ crashes' \in Nat
      /\ \A p \in Visits : copy'[p].count \in Nat /\ sess'[p].count \in Nat
  BY ReconcilerAssumption DEF TypeInv, TypeOK, Copy, SessionValues
<1>. QED
  BY <1>1 DEF Budget, Pays

\* A visit that never met another pays for its own start.
LEMMA StartBudget ==
    ASSUME TypeInv, TypeInv', BudgetInv, NEW p \in Visits, NEW r \in Runtimes, r = vrt[p],
           Start(p)
    PROVE  Budget(r)'
<1>0. /\ vpc[p] = "start" /\ Ends(p, "RUNNING", copy[p].count + 1, FALSE) /\ met' = met
      /\ solo' = [solo EXCEPT ![r] = IF p \in met THEN @ ELSE @ + 1]
      /\ solo \in [Runtimes -> Nat] /\ Budget(r)
  BY DEF Start, Accepted, TypeInv, TypeOK, BudgetInv
<1>1. CASE p \in met
  <2>1. solo'[r] = solo[r] /\ copy[p].count + 1 \in Nat
    BY <1>0, <1>1, BudgetTypes
  <2>. QED
    BY <1>0, <2>1, EndsBudget
<1>2. CASE p \notin met
  <2>1. \A q \in Visits : Visiting(q, r) => q = p
    BY <1>0, <1>2 DEF BudgetInv, MetInv, Visiting
  <2>2. /\ UNCHANGED <<count, vrt, copy, crashes>> /\ vpc'[p] = "commit"
        /\ sess'[p].count = copy[p].count + 1
        /\ \A q \in Visits \ {p} : vpc'[q] = vpc[q]
    BY <1>0 DEF Ends, row, TypeInv, TypeOK
  <2>3. \A q \in Visits : Visiting(q, r)' => q = p
    BY <2>1, <2>2 DEF Visiting
  <2>4. solo'[r] = solo[r] + 1 /\ solo[r] <= copy[p].count + crashes
    BY <1>0, <1>2 DEF Budget, Visiting
  <2>5. solo[r] <= count[r] + crashes
    <3>1. \A q \in Visits : ~Pays(q, r)
      BY <1>0, <2>1 DEF Pays, Committing, Visiting
    <3>. QED
      BY <1>0, <3>1 DEF Budget
  <2>6. Pays(p, r)'
    BY <2>2, <2>4, BudgetTypes DEF Pays, Committing
  <2>7. /\ solo'[r] <= copy[p].count + 1 + crashes
        /\ solo'[r] <= count[r] + 1 + crashes
    BY <2>4, <2>5, BudgetTypes
  <2>8. \A q \in Visits : Committing(q, r)' => q = p
    BY <2>3 DEF Committing, Visiting
  <2>. QED
    BY <2>2, <2>3, <2>6, <2>7, <2>8 DEF Budget
<1>. QED
  BY <1>1, <1>2

LEMMA CommitBudget ==
    ASSUME TypeInv, TypeInv', NEW p \in Visits, NEW r \in Runtimes, r = vrt[p], Budget(r),
           VisitCommit(p)
    PROVE  Budget(r)'
<1>1. /\ solo' = solo /\ crashes' = crashes /\ met' = met \ {p}
      /\ Committing(p, r)
      /\ count'[r] = IF sess[p].count # copy[p].count THEN sess[p].count ELSE count[r]
      /\ \A q \in Visits \ {p} : /\ vpc'[q] = vpc[q] /\ vrt'[q] = vrt[q]
                                 /\ sess'[q] = sess[q] /\ copy'[q] = copy[q]
      /\ vpc'[p] = "idle"
  BY DEF VisitCommit, Committing, TypeInv, TypeOK
<1>2. /\ ~Visiting(p, r)' /\ ~Committing(p, r)'
      /\ \A q \in Visits \ {p} : /\ Visiting(q, r)' <=> Visiting(q, r)
                                 /\ Committing(q, r)' <=> Committing(q, r)
                                 /\ Pays(q, r)' <=> Pays(q, r)
  BY <1>1 DEF Visiting, Committing, Pays
<1>3. /\ \A q \in Visits : Visiting(q, r)' => solo'[r] <= copy'[q].count + 1 + crashes'
      /\ \A q \in Visits \ met' : Visiting(q, r)' /\ vpc'[q] # "commit"
                                    => solo'[r] <= copy'[q].count + crashes'
      /\ \A q \in Visits : Committing(q, r)' => sess'[q].count = copy'[q].count \/ Pays(q, r)'
  BY <1>1, <1>2 DEF Budget
<1>4. CASE sess[p].count # copy[p].count
  <2>1. solo'[r] <= count'[r] + crashes'
    BY <1>1, <1>4 DEF Budget, Pays
  <2>2. solo'[r] <= count'[r] + 1 + crashes'
    BY <1>1, <1>4, <2>1, BudgetTypes
  <2>. QED
    BY <1>3, <2>1, <2>2 DEF Budget
<1>5. CASE sess[p].count = copy[p].count
  <2>1. ~Pays(p, r)
    BY <1>5 DEF Pays
  <2>. QED
    BY <1>1, <1>2, <1>3, <1>5, <2>1 DEF Budget
<1>. QED
  BY <1>4, <1>5

LEMMA VisitBudget ==
    ASSUME TypeInv, BudgetInv, NEW p \in Visits, VisitStep(p)
    PROVE  BudgetInv'
<1>0. PICK r \in Runtimes : r = vrt[p]
  BY VisitStepGoesOn
<1>1. TypeInv' /\ Budget(r) /\ copy[p].count \in Nat
  BY VisitTypes, BudgetTypes DEF BudgetInv
<1>2. /\ \A q \in Visits \ {p} : /\ vpc'[q] = vpc[q] /\ vrt'[q] = vrt[q]
                                 /\ sess'[q] = sess[q] /\ copy'[q] = copy[q]
      /\ vpc'[p] = "idle" \/ vrt'[p] = r
      /\ vpc[p] # "idle" /\ crashes' = crashes
      /\ \A s \in Runtimes \ {r} : count'[s] = count[s]
  <2>1. CASE VisitGoesOn(p)
    BY <1>0, <2>1, VisitStepGoesOn DEF VisitGoesOn, row, TypeInv, TypeOK
  <2>2. CASE VisitCommit(p)
    BY <1>0, <2>2, VisitStepGoesOn DEF VisitCommit, TypeInv, TypeOK
  <2>. QED
    BY <2>1, <2>2, VisitStepGoesOn
<1>3. /\ \A s \in Runtimes \ {r} : solo'[s] = solo[s]
      /\ \A q \in Visits \ {p} : q \in met' <=> q \in met
      /\ vpc'[p] # "idle" => (p \in met' <=> p \in met)
  <2>1. solo \in [Runtimes -> Nat]
    BY DEF TypeInv, TypeOK
  <2>2. CASE Start(p) \/ StartRaises(p) \/ VisitCommit(p)
    BY <1>0, <2>1, <2>2
    DEF Start, StartRaises, VisitCommit, Accepted, TypeInv, TypeOK
  <2>3. CASE ~(Start(p) \/ StartRaises(p) \/ VisitCommit(p))
    BY <1>0, <2>1, <2>3
    DEF VisitStep, Acts, ObserveNothingToDo, ObserveUnknown, ObserveConverged, ObserveUnowned,
        RecoveryExhausted, DecideToAct, Shutdown, ShutdownRaises, WaitSeesStopped,
        WaitTimesOut, SeenAsDesired, history
  <2>. QED
    BY <2>2, <2>3
<1>4. MetInv'
  <2> SUFFICES ASSUME NEW q \in Visits, NEW q2 \in Visits, NEW s \in Runtimes,
                      Visiting(q, s)', Visiting(q2, s)', q # q2
               PROVE  q \in met'
    BY DEF MetInv
  <2>1. Visiting(q, s) /\ Visiting(q2, s)
    BY <1>0, <1>2 DEF Visiting
  <2>2. q \in met
    BY <2>1 DEF BudgetInv, MetInv
  <2>. QED
    BY <1>3, <2>2 DEF Visiting
<1>5. ASSUME NEW s \in Runtimes \ {r} PROVE Budget(s)'
  <2>1. ~Visiting(p, s) /\ ~Visiting(p, s)'
    BY <1>0, <1>2, <1>5 DEF Visiting
  <2>2. SameBudget(s)
    BY <1>2, <1>3, <1>5, <2>1 DEF SameBudget, Visiting
  <2>. QED
    BY <1>5, <2>2, BudgetFrame DEF BudgetInv
<1>6. Budget(r)'
  <2>1. CASE Start(p)
    BY <1>0, <1>1, <2>1, StartBudget
  <2>2. CASE VisitCommit(p)
    BY <1>0, <1>1, <2>2, CommitBudget
  <2>3. CASE ObserveConverged(p) \/ WaitSeesStopped(p)
    <3>1. solo'[r] = 0
      BY <1>0, <2>3
      DEF ObserveConverged, WaitSeesStopped, SeenAsDesired, TypeInv, TypeOK
    <3>. QED
      BY <1>1, <3>1, ConvergedBudget
  <2>4. CASE DecideToAct(p) \/ Shutdown(p)
    <3>1. /\ UNCHANGED <<count, vrt, copy, sess, solo, met, crashes>>
          /\ vpc[p] \notin {"idle", "commit"} /\ vpc'[p] \notin {"idle", "commit"}
      BY <2>4
      DEF DecideToAct, Shutdown, NeedsStart, NeedsShutdown, Observes, row, history, TypeInv,
          TypeOK
    <3>2. \A q \in Visits : /\ Visiting(q, r)' <=> Visiting(q, r)
                            /\ Committing(q, r)' <=> Committing(q, r)
                            /\ Pays(q, r)' <=> Pays(q, r)
                            /\ vpc'[q] # "commit" <=> vpc[q] # "commit"
      BY <1>2, <3>1 DEF Visiting, Committing, Pays
    <3>. QED
      BY <1>1, <3>1, <3>2 DEF Budget
  <2>5. CASE \/ ObserveNothingToDo(p) \/ ObserveUnknown(p) \/ ObserveUnowned(p)
             \/ RecoveryExhausted(p) \/ ShutdownRaises(p) \/ WaitTimesOut(p) \/ StartRaises(p)
    <3>1. vpc[p] \notin {"idle", "commit"} /\ UNCHANGED <<solo, met>>
      BY <2>5
      DEF ObserveNothingToDo, ObserveUnknown, ObserveUnowned, RecoveryExhausted,
          ShutdownRaises, WaitTimesOut, StartRaises, NeedsStart, NeedsShutdown, Observes,
          history
    <3>2. \E a, g : Ends(p, a, copy[p].count, g)
      BY <2>5, Zenon
      DEF ObserveNothingToDo, ObserveUnknown, ObserveUnowned, RecoveryExhausted,
          ShutdownRaises, WaitTimesOut, StartRaises, EndsUnchanged, EndsInError
    <3>. QED
      BY <1>0, <1>1, <3>1, <3>2, EndsBudget
  <2>. QED
    BY <2>1, <2>2, <2>3, <2>4, <2>5 DEF VisitStep, Acts
<1>. QED
  BY <1>4, <1>5, <1>6 DEF BudgetInv

LEMMA LoadBudget ==
    ASSUME TypeInv, BudgetInv, NEW p \in Visits, NEW r \in Runtimes, Load(p, r)
    PROVE  BudgetInv'
<1>1. /\ UNCHANGED <<count, sess, solo, crashes>> /\ vpc[p] = "idle"
      /\ vpc'[p] = "observe" /\ vrt'[p] = r /\ copy'[p].count = count[r]
      /\ \A q \in Visits \ {p} : /\ vpc'[q] = vpc[q] /\ vrt'[q] = vrt[q]
                                 /\ copy'[q] = copy[q]
      /\ met \subseteq met'
  BY DEF Load, row, TypeInv, TypeOK
<1>2. \A q \in Visits \ {p} : Visiting(q, r) => q \in met' /\ p \in met'
  BY DEF Load, VisitsOf, Visiting
<1>3. /\ Visiting(p, r)' /\ ~Committing(p, r)' /\ ~Committing(p, r)
      /\ \A q \in Visits \ {p}, s \in Runtimes : Visiting(q, s)' <=> Visiting(q, s)
      /\ \A s \in Runtimes \ {r} : ~Visiting(p, s)' /\ ~Visiting(p, s)
  BY <1>1 DEF Visiting, Committing
<1>4. MetInv'
  <2> SUFFICES ASSUME NEW q \in Visits, NEW q2 \in Visits, NEW s \in Runtimes,
                      Visiting(q, s)', Visiting(q2, s)', q # q2
               PROVE  q \in met'
    BY DEF MetInv
  <2>1. CASE q # p /\ q2 # p
    BY <1>1, <1>3, <2>1 DEF BudgetInv, MetInv
  <2>2. CASE q = p \/ q2 = p
    BY <1>2, <1>3, <2>2
  <2>. QED
    BY <2>1, <2>2
<1>5. ASSUME NEW s \in Runtimes \ {r} PROVE Budget(s)'
  <2>1. SameBudget(s)
    BY <1>1, <1>3, <1>5 DEF SameBudget
  <2>. QED
    BY <1>5, <2>1, BudgetFrame DEF BudgetInv
<1>6. Budget(r)'
  <2>0. Budget(r)
    BY DEF BudgetInv
  <2>1. \A q \in Visits : (Committing(q, r)' <=> Committing(q, r)) /\ (Pays(q, r)' <=> Pays(q, r))
    BY <1>1, <1>3 DEF Committing, Pays
  <2>2. p \notin met' => solo[r] <= count[r] + crashes
    <3>1. p \notin met' => \A q \in Visits : ~Pays(q, r)
      BY <1>2, <1>3 DEF Pays, Committing, Visiting
    <3>. QED
      BY <2>0, <3>1 DEF Budget
  <2>3. \A q \in Visits : Visiting(q, r)' => solo[r] <= copy'[q].count + 1 + crashes
    BY <1>1, <1>3, <2>0 DEF Budget
  <2>4. \A q \in Visits \ met' : Visiting(q, r)' /\ vpc'[q] # "commit"
                                   => solo[r] <= copy'[q].count + crashes
    BY <1>1, <1>2, <1>3, <2>2
  <2>5. \A q \in Visits : Committing(q, r)' => sess[q].count = copy'[q].count \/ Pays(q, r)'
    BY <1>1, <1>3, <2>0, <2>1 DEF Budget
  <2>. QED
    BY <1>1, <2>0, <2>1, <2>3, <2>4, <2>5 DEF Budget
<1>. QED
  BY <1>4, <1>5, <1>6 DEF BudgetInv

LEMMA NextBudget == TypeInv /\ BudgetInv /\ [Next]_vars => BudgetInv'
<1> SUFFICES ASSUME TypeInv, BudgetInv, [Next]_vars PROVE BudgetInv'
  OBVIOUS
<1>1. ASSUME UNCHANGED <<count, visit, solo, met, crashes>> PROVE BudgetInv'
  BY <1>1 DEF BudgetInv, MetInv, Budget, Pays, Visiting, Committing, visit
<1>2. CASE Crash
  <2>1. /\ crashes' = crashes + 1 /\ UNCHANGED <<count, solo>>
        /\ \A q \in Visits : vpc'[q] = "idle"
    BY <1>2 DEF Crash, row
  <2>2. MetInv'
    BY <2>1 DEF MetInv, Visiting
  <2>3. ASSUME NEW r \in Runtimes PROVE Budget(r)'
    <3>1. /\ solo[r] <= count[r] + 1 + crashes
          /\ solo[r] \in Nat /\ count[r] \in Nat /\ crashes \in Nat
      BY BudgetTypes DEF BudgetInv, Budget
    <3>2. solo'[r] <= count'[r] + crashes' /\ solo'[r] <= count'[r] + 1 + crashes'
      BY <2>1, <3>1
    <3>. QED
      BY <2>1, <3>2 DEF Budget, Visiting, Committing
  <2>. QED
    BY <2>2, <2>3 DEF BudgetInv
<1>. QED
  BY <1>1, <1>2, VisitBudget, LoadBudget
  DEF Next, vars, row, history, Provision, Supersede, SetDesiredState, DeleteVerify,
      DeleteDestroy, DeleteCommit, DeleteAborts, VmStops

\* However visits of one row overlap, starts are refused, VMs are destroyed and their
\* VMIDs reused, and the process restarts: between two observations of the VM as desired,
\* the visits that had their row for themselves start it at most MaxAttempts times, and
\* once more for each restart.
THEOREM SoloStartsHold == Spec => []SoloStartsBounded
<1>1. TypeInv /\ BudgetInv => SoloStartsBounded
  <2> SUFFICES ASSUME TypeInv, BudgetInv, NEW r \in Runtimes
               PROVE  solo[r] <= MaxAttempts + crashes
    BY DEF SoloStartsBounded
  <2>1. /\ solo[r] \in Nat /\ count[r] \in 0..MaxAttempts /\ crashes \in Nat
        /\ MaxAttempts \in Nat
        /\ \A p \in Visits : sess[p].count \in 0..MaxAttempts
    BY ReconcilerAssumption DEF TypeInv, TypeOK, SessionValues
  <2>. QED
    BY <2>1 DEF BudgetInv, Budget, Pays
<1>. QED
  BY <1>1, InitTypes, InitBudget, NextTypes, NextBudget, PTL DEF Spec

---------------------------------------------------------------------------
(* The meaning of STOPPED *)

LEMMA InitHonest == Init => HonestInv
  BY DEF Init, HonestInv, Honest

\* A visit whose session holds STOPPED has seen its VM stopped, or holds what
\* the row says.
LEMMA EndsHonest ==
    ASSUME TypeInv, SerialInv, HonestInv, crashes = 0, NEW p \in Visits,
           vpc[p] \notin {"idle", "commit"}, NEW a, NEW n, NEW g, Ends(p, a, n, g),
           a = "STOPPED" => \/ copy[p].actual = "STOPPED"
                            \/ copy[p].vmid # NULL => vms[copy[p].vmid].power = "stopped",
           UNCHANGED <<vms, strayed>>
    PROVE  HonestInv'
<1> SUFFICES ASSUME NEW r \in Runtimes \ strayed PROVE Honest(r)'
  BY DEF HonestInv
<1> SUFFICES ASSUME vmid[r] # NULL, vms[vmid[r]].owner = r
             PROVE  /\ \A q \in Visits : Committing(q, r)' /\ sess'[q].actual = "STOPPED"
                                            => vms[vmid[r]].power = "stopped"
                    /\ (\A q \in Visits : ~Committing(q, r)') /\ actual[r] = "STOPPED"
                                            => vms[vmid[r]].power = "stopped"
  BY DEF Honest, Ends, row
<1>0. Honest(r)
  BY DEF HonestInv
<1>1. CASE vrt[p] = r
  <2>1. /\ copy[p].vmid = vmid[r] /\ copy[p].actual = actual[r]
        /\ \A q \in Visits : ~Committing(q, r)
        /\ \A q \in Visits : Committing(q, r)' => q = p
    BY <1>1 DEF SerialInv, Visiting, Committing, Ends, TypeInv, TypeOK
  <2>2. Committing(p, r)' /\ sess'[p].actual = a
    BY <1>1 DEF Committing, Ends, TypeInv, TypeOK
  <2>. QED
    BY <1>0, <2>1, <2>2 DEF Honest
<1>2. CASE vrt[p] # r
  <2>1. \A q \in Visits : /\ Committing(q, r)' <=> Committing(q, r)
                          /\ Committing(q, r) => sess'[q] = sess[q]
    <3>1. /\ vrt' = vrt
          /\ \A q \in Visits \ {p} : vpc'[q] = vpc[q] /\ sess'[q] = sess[q]
      BY DEF Ends, TypeInv, TypeOK
    <3>. QED
      BY <1>2, <3>1 DEF Committing
  <2>. QED
    BY <1>0, <2>1 DEF Honest, Committing
<1>. QED
  BY <1>1, <1>2

\* A step that leaves the row and its sessions alone, and does not start its VM.
Untouched(r) ==
    /\ vmid'[r] = vmid[r] /\ actual'[r] = actual[r]
    /\ \A q \in Visits : /\ Committing(q, r)' <=> Committing(q, r)
                         /\ Committing(q, r) => sess'[q] = sess[q]
    /\ \A v \in VmIds : vms'[v].owner = r =>
         /\ vms[v].owner = r
         /\ vms[v].power = "stopped" => vms'[v].power = "stopped"

LEMMA HonestFrame ==
    ASSUME TypeInv, HonestInv, crashes' = 0 => crashes = 0, strayed \subseteq strayed',
           \A r \in Runtimes \ strayed' : Untouched(r) \/ Honest(r)'
    PROVE  HonestInv'
<1> SUFFICES ASSUME crashes' = 0, NEW r \in Runtimes \ strayed', Untouched(r) PROVE Honest(r)'
  BY DEF HonestInv
<1>1. Honest(r)
  BY DEF HonestInv
<1> SUFFICES ASSUME vmid'[r] # NULL, vms'[vmid'[r]].owner = r
             PROVE  /\ \A q \in Visits : Committing(q, r)' /\ sess'[q].actual = "STOPPED"
                                            => vms'[vmid'[r]].power = "stopped"
                    /\ (\A q \in Visits : ~Committing(q, r)') /\ actual'[r] = "STOPPED"
                                            => vms'[vmid'[r]].power = "stopped"
  BY DEF Honest
<1>2. vmid[r] \in VmIds /\ vmid'[r] = vmid[r] /\ actual'[r] = actual[r]
  BY DEF Untouched, TypeInv, TypeOK
<1>. QED
  BY <1>1, <1>2 DEF Honest, Untouched

LEMMA VisitHonest ==
    ASSUME TypeInv, SerialInv, HonestInv, NEW p \in Visits, VisitStep(p)
    PROVE  HonestInv'
<1>a. PICK r \in Runtimes : r = vrt[p]
  BY VisitStepGoesOn
<1>0. /\ vrt[p] = r /\ vmid \in [Runtimes -> VmIds \cup {NULL}]
      /\ vms \in [VmIds -> VM]
      /\ UNCHANGED <<vmid, crashes>>
  BY <1>a, VisitStepGoesOn DEF TypeInv, TypeOK
<1> SUFFICES ASSUME crashes = 0 PROVE HonestInv'
  BY <1>0 DEF HonestInv
<1>1. CASE \/ ObserveNothingToDo(p) \/ ObserveUnknown(p) \/ ObserveUnowned(p)
           \/ RecoveryExhausted(p) \/ ShutdownRaises(p) \/ WaitTimesOut(p) \/ StartRaises(p)
  <2>1. vpc[p] \notin {"idle", "commit"} /\ UNCHANGED <<vms, strayed>>
    BY <1>1
    DEF ObserveNothingToDo, ObserveUnknown, ObserveUnowned, RecoveryExhausted, ShutdownRaises,
        WaitTimesOut, StartRaises, NeedsStart, NeedsShutdown, Observes, history
  <2>2. \E n, g : Ends(p, copy[p].actual, n, g)
    BY <1>1, Zenon
    DEF ObserveNothingToDo, ObserveUnknown, ObserveUnowned, RecoveryExhausted, ShutdownRaises,
        WaitTimesOut, StartRaises, EndsUnchanged, EndsInError
  <2>. QED
    BY <2>1, <2>2, EndsHonest
<1>2. "stopped" \in PveState(copy[p].vmid) /\ copy[p].vmid # NULL
        => vms[copy[p].vmid].power = "stopped"
  BY DEF PveState
<1>3. CASE ObserveConverged(p)
  <2>1. vpc[p] \notin {"idle", "commit"} /\ UNCHANGED <<vms, strayed>>
    BY <1>3 DEF ObserveConverged, Observes
  <2>2. \/ \E n : Ends(p, "RUNNING", n, FALSE)
        \/ \E n : Ends(p, "STOPPED", n, FALSE) /\ "stopped" \in PveState(copy[p].vmid)
    BY <1>3, Zenon DEF ObserveConverged, Observes
  <2>. QED
    BY <1>2, <2>1, <2>2, EndsHonest
<1>4. CASE WaitSeesStopped(p)
  BY <1>2, <1>4, EndsHonest DEF WaitSeesStopped
<1>5. CASE Start(p)
  <2>1. /\ copy[p].vmid \in VmIds /\ vpc[p] = "start"
        /\ strayed \subseteq strayed'
        /\ actual' = actual /\ vrt' = vrt
    BY <1>5 DEF Start, Ends, row, TypeInv, VisitInv
  <2>2. \A v \in VmIds : /\ vms'[v].owner = vms[v].owner
                         /\ v # copy[p].vmid => vms'[v] = vms[v]
    BY <1>0, <1>5 DEF Start, VM
  <2>3. \A s \in Runtimes \ {r} : vms[copy[p].vmid].owner = s => s \in strayed'
    BY <1>0, <1>5 DEF Start
  <2>4. /\ sess'[p].actual = "RUNNING" /\ vpc'[p] = "commit"
        /\ \A q \in Visits \ {p} : vpc'[q] = vpc[q] /\ sess'[q] = sess[q]
    BY <1>5 DEF Start, Ends, TypeInv, TypeOK
  <2>5. r \notin strayed => \A q \in Visits : Committing(q, r)' => q = p
    BY <1>0, <2>1, <2>4 DEF Committing, SerialInv, Visiting
  <2>6. Committing(p, r)'
    BY <1>0, <2>1, <2>4 DEF Committing
  <2>7. r \notin strayed => Honest(r)'
    BY <2>1, <2>4, <2>5, <2>6 DEF Honest
  <2>8. \A s \in Runtimes \ {r}, q \in Visits :
           (Committing(q, s)' <=> Committing(q, s)) /\ (Committing(q, s) => sess'[q] = sess[q])
    BY <1>0, <2>1, <2>4 DEF Committing
  <2>9. \A s \in Runtimes \ {r} : s \notin strayed' => Untouched(s)
    BY <1>0, <2>1, <2>2, <2>3, <2>8 DEF Untouched
  <2>. QED
    BY <1>0, <2>1, <2>7, <2>9, HonestFrame
<1>6. CASE DecideToAct(p) \/ Shutdown(p)
  <2>1. /\ UNCHANGED <<actual, vrt, sess, strayed>>
        /\ \A q \in Visits : vpc'[q] = "commit" <=> vpc[q] = "commit"
    BY <1>6
    DEF DecideToAct, NeedsStart, NeedsShutdown, Observes, Shutdown, row, history, TypeInv,
        TypeOK
  <2>2. \A v \in VmIds : /\ vms'[v].owner = vms[v].owner
                         /\ vms[v].power = "stopped" => vms'[v].power = "stopped"
    <3>1. CASE DecideToAct(p)
      BY <3>1 DEF DecideToAct
    <3>2. CASE Shutdown(p)
      BY <1>0, <3>2 DEF Shutdown, Outcome, VM
    <3>. QED
      BY <1>6, <3>1, <3>2
  <2>3. \A s \in Runtimes, q \in Visits : Committing(q, s)' <=> Committing(q, s)
    BY <2>1 DEF Committing
  <2>4. \A s \in Runtimes : Untouched(s)
    BY <1>0, <2>1, <2>2, <2>3 DEF Untouched
  <2>. QED
    BY <1>0, <2>1, <2>4, HonestFrame
<1>7. CASE VisitCommit(p)
  <2>1. /\ UNCHANGED <<vms, strayed>> /\ vpc[p] = "commit" /\ Committing(p, r)
        /\ \A s \in Runtimes \ {r} : actual'[s] = actual[s]
        /\ \A q \in Visits \ {p} : vpc'[q] = vpc[q] /\ vrt'[q] = vrt[q] /\ sess'[q] = sess[q]
        /\ vpc'[p] = "idle"
    BY <1>0, <1>7 DEF VisitCommit, Committing, history, TypeInv, TypeOK
  <2>2. r \notin strayed /\ vmid[r] # NULL => actual'[r] = sess[p].actual
    BY <1>0, <1>7 DEF VisitCommit, SerialInv, Visiting, TypeInv, TypeOK
  <2>3. r \notin strayed => \A q \in Visits : ~Committing(q, r)'
    BY <1>0, <2>1, ReconcilerAssumption DEF Committing, SerialInv, Visiting
  <2>4. r \notin strayed => Honest(r)
    BY <1>0 DEF HonestInv
  <2>5. r \notin strayed => Honest(r)'
    BY <1>0, <2>1, <2>2, <2>3, <2>4 DEF Honest
  <2>6. \A s \in Runtimes \ {r}, q \in Visits :
           (Committing(q, s)' <=> Committing(q, s)) /\ (Committing(q, s) => sess'[q] = sess[q])
    BY <2>1 DEF Committing
  <2>7. \A s \in Runtimes \ {r} : Untouched(s)
    BY <1>0, <2>1, <2>6 DEF Untouched
  <2>. QED
    BY <1>0, <2>1, <2>5, <2>7, HonestFrame
<1>. QED
  BY <1>1, <1>3, <1>4, <1>5, <1>6, <1>7 DEF VisitStep, Acts

LEMMA NextHonest == TypeInv /\ SerialInv /\ HonestInv /\ [Next]_vars => HonestInv'
<1> SUFFICES ASSUME TypeInv, SerialInv, HonestInv, [Next]_vars PROVE HonestInv'
  OBVIOUS
<1>0. vmid \in [Runtimes -> VmIds \cup {NULL}] /\ vms \in [VmIds -> VM]
  BY DEF TypeInv, TypeOK
<1>1. ASSUME UNCHANGED <<actual, vmid, vpc, vrt, sess, crashes, strayed>>,
             \A v \in VmIds, r \in Runtimes : vms'[v].owner = r =>
               /\ vms[v].owner = r
               /\ vms[v].power = "stopped" => vms'[v].power = "stopped"
      PROVE  HonestInv'
  <2>1. \A r \in Runtimes, q \in Visits : Committing(q, r)' <=> Committing(q, r)
    BY <1>1 DEF Committing
  <2>2. \A r \in Runtimes : Untouched(r)
    BY <1>1, <2>1 DEF Untouched
  <2>. QED
    BY <1>1, <2>2, HonestFrame
<1>2. ASSUME NEW p \in Visits, NEW r \in Runtimes, Load(p, r) PROVE HonestInv'
  <2>1. UNCHANGED <<actual, vmid, vms, sess, crashes>> /\ strayed \subseteq strayed'
    BY <1>2 DEF Load, row
  <2>2. \A s \in Runtimes, q \in Visits : Committing(q, s)' <=> Committing(q, s)
    BY <1>2 DEF Load, Committing, TypeInv, TypeOK
  <2>3. \A s \in Runtimes : Untouched(s)
    BY <2>1, <2>2 DEF Untouched
  <2>. QED
    BY <2>1, <2>3, HonestFrame
<1>3. ASSUME NEW r \in Runtimes, Provision(r) PROVE HonestInv'
  <2>1. /\ UNCHANGED <<vpc, vrt, sess, crashes, strayed>>
        /\ \A s \in Runtimes \ {r} : actual'[s] = actual[s] /\ vmid'[s] = vmid[s]
        /\ actual'[r] # "STOPPED"
    BY <1>3 DEF Provision, visit, history, TypeInv, TypeOK
  <2>2. \A s \in Runtimes, q \in Visits : Committing(q, s)' <=> Committing(q, s)
    BY <2>1 DEF Committing
  <2>3. \A q \in Visits : ~Committing(q, r)
    BY <1>3 DEF Provision, Committing, TypeInv, VisitInv
  <2>4. Honest(r)'
    BY <2>1, <2>2, <2>3 DEF Honest
  <2>5. \A v \in VmIds : vms'[v] = vms[v] \/ vms'[v].owner = r
    BY <1>0, <1>3 DEF Provision
  <2>6. \A s \in Runtimes \ {r} : Untouched(s)
    BY <2>1, <2>2, <2>5 DEF Untouched
  <2>. QED
    BY <2>1, <2>4, <2>6, HonestFrame
<1>4. ASSUME NEW r \in Runtimes, Supersede(r) PROVE HonestInv'
  <2>1. /\ UNCHANGED <<vmid, vms, vpc, vrt, sess, crashes, strayed>> /\ vmid[r] = NULL
        /\ \A s \in Runtimes \ {r} : actual'[s] = actual[s]
    BY <1>4 DEF Supersede, visit, history, TypeInv, TypeOK
  <2>2. \A s \in Runtimes, q \in Visits : Committing(q, s)' <=> Committing(q, s)
    BY <2>1 DEF Committing
  <2>3. Honest(r)'
    BY <2>1 DEF Honest
  <2>4. \A s \in Runtimes \ {r} : Untouched(s)
    BY <2>1, <2>2 DEF Untouched
  <2>. QED
    BY <2>1, <2>3, <2>4, HonestFrame
<1>5. ASSUME NEW d \in Deleters, DeleteCommit(d) PROVE HonestInv'
  <2>0. PICK r \in Runtimes : r = del[d].rt
    BY <1>5 DEF DeleteCommit, TypeInv, DeleteInv
  <2>1. /\ UNCHANGED <<vms, vpc, vrt, sess, crashes, strayed>>
        /\ \A s \in Runtimes \ {r} : actual'[s] = actual[s] /\ vmid'[s] = vmid[s]
        /\ vmid'[r] = NULL
    BY <1>5, <2>0 DEF DeleteCommit, visit, history, TypeInv, TypeOK
  <2>2. \A s \in Runtimes, q \in Visits : Committing(q, s)' <=> Committing(q, s)
    BY <2>1 DEF Committing
  <2>3. Honest(r)'
    BY <2>1 DEF Honest
  <2>4. \A s \in Runtimes \ {r} : Untouched(s)
    BY <2>1, <2>2 DEF Untouched
  <2>. QED
    BY <2>1, <2>3, <2>4, HonestFrame
<1>6. ASSUME NEW d \in Deleters, DeleteDestroy(d) PROVE HonestInv'
  <2>1. \A v \in VmIds : vms'[v] = vms[v] \/ vms'[v].owner = NULL
    BY <1>0, <1>6 DEF DeleteDestroy, NoVm
  <2>. QED
    BY <1>1, <1>6, <2>1, ReconcilerAssumption DEF DeleteDestroy, row, visit, history
<1>7. ASSUME NEW v \in VmIds, VmStops(v) PROVE HonestInv'
  <2>1. \A w \in VmIds : /\ vms'[w].owner = vms[w].owner
                         /\ vms[w].power = "stopped" => vms'[w].power = "stopped"
    BY <1>0, <1>7 DEF VmStops, VM
  <2>. QED
    BY <1>1, <1>7, <2>1 DEF VmStops, row, visit, history
<1>8. CASE Crash
  BY <1>8, ReconcilerAssumption DEF Crash, HonestInv, TypeInv, TypeOK
<1>9. ASSUME UNCHANGED <<actual, vmid, vms, visit, history, crashes>> PROVE HonestInv'
  BY <1>1, <1>9 DEF visit, history
<1>10. ASSUME NEW d \in Deleters,
              DeleteAborts(d) \/ \E r \in Runtimes : DeleteVerify(d, r)
       PROVE  HonestInv'
  BY <1>9, <1>10 DEF DeleteAborts, DeleteVerify, row
<1>11. ASSUME NEW r \in Runtimes, NEW x \in RuntimeState, SetDesiredState(r, x)
       PROVE  HonestInv'
  BY <1>9, <1>11 DEF SetDesiredState
<1>12. CASE UNCHANGED vars
  BY <1>9, <1>12 DEF vars, row
<1>. QED
  BY <1>2, <1>3, <1>4, <1>5, <1>6, <1>7, <1>8, <1>10, <1>11, <1>12, VisitHonest DEF Next

\* A row that never had two visits at once says STOPPED only if its VM was seen
\* stopped after the last start, unless the process restarted between
\* provider.start and the commit or a visit of another row started the VM.
THEOREM StoppedHonest == Spec => []StoppedIsHonest
<1>1. TypeInv /\ HonestInv => StoppedIsHonest
  <2> SUFFICES ASSUME TypeInv, HonestInv, crashes = 0, NEW r \in Runtimes \ strayed,
                      actual[r] = "STOPPED", vmid[r] # NULL, vms[vmid[r]].owner = r,
                      \A p \in Visits : vrt[p] # r
               PROVE  vms[vmid[r]].power = "stopped"
    BY DEF StoppedIsHonest
  <2>1. \A p \in Visits : ~Committing(p, r)
    BY DEF Committing
  <2>. QED
    BY <2>1 DEF HonestInv, Honest
<1>. QED
  BY <1>1, InitTypes, InitSerial, InitHonest, NextTypes, NextSerial, NextHonest, PTL
  DEF Spec
===========================================================================
