---------------------------- MODULE Reconciler ----------------------------
(***************************************************************************)
(* The desired-state reconciler of the Agent Runtime Manager: what one     *)
(* pass does to one row, while runtimes are provisioned, deleted and given *)
(* other desired states, VMs stop by themselves and the process restarts.  *)
(*                                                                         *)
(* A visit is one row's turn in POST .../{id}/reconcile or POST /reconcile.*)
(* It works on the copy of the row its session loaded: when the handler    *)
(* began, which for /reconcile is before the turns of all earlier rows,    *)
(* with their waits.  Its commit writes the columns whose value differs    *)
(* from the copy.  A visit's calls to Proxmox are separate steps.          *)
(*                                                                         *)
(* POST /agent-runtimes is one step here (its steps are in                 *)
(* RuntimeLifecycle), and so are the shutdown and the destruction of a     *)
(* DELETE.  Of last_error, the row keeps whether it says that recovery is  *)
(* exhausted.  Which rows a pass visits, and when, is in ReconcilePass.    *)
(***************************************************************************)
EXTENDS Naturals

CONSTANTS
    Runtimes,           \* uuids of rows
    VmIds,              \* the VMIDs of the cluster, a set of numbers
    Visits,             \* threads that reconcile
    Deleters,           \* threads serving DELETE
    MaxAttempts,        \* settings.max_recovery_attempts
    Flaky,              \* TRUE: Proxmox may be unreachable, or accept a start
                        \* or a shutdown that does not take effect
    StartsRaise,        \* TRUE: Proxmox may refuse to start a VM
    MaxOutages,         \* bound on VMs stopping by themselves
    MaxCrashes,         \* bound on restarts of the ARM process
    NULL

ASSUME ReconcilerAssumption ==
    /\ VmIds \subseteq Nat
    /\ MaxAttempts \in Nat \ {0}
    /\ Flaky \in BOOLEAN /\ StartsRaise \in BOOLEAN
    /\ MaxOutages \in Nat /\ MaxCrashes \in Nat
    /\ NULL \notin Runtimes \cup VmIds

VARIABLES
    \* columns of table agent_runtimes
    desired, actual, vmid,
    count,      \* recovery_count
    gaveUp,     \* last_error is "recovery exhausted"
    vms,        \* VMs known to Proxmox
    \* visits: next step, row, copy loaded, values the session holds
    vpc, vrt, copy, sess,
    del,        \* handlers of DELETE
    \* history
    attempts,   \* calls of provider.start since the VM was last seen as desired,
                \* counted up to one past the limit
    met,        \* visits that overlapped another visit of their row
    solo,       \* since then, the starts Proxmox accepted from the other visits
    strayed,    \* rows whose VM was started by a visit of another row, and rows
                \* that had two visits at once
    outages, crashes

row == <<desired, actual, vmid, count, gaveUp>>
visit == <<vpc, vrt, copy, sess>>
history == <<attempts, solo, met, strayed>>
vars == <<row, vms, visit, del, history, outages, crashes>>

---------------------------------------------------------------------------
(* Types and initial state *)

RuntimeState == {"DESIRED_RUNNING", "DESIRED_STOPPED", "DESIRED_DESTROYED"}

\* "NONE": there is no such row.
ActualState == {"NONE", "RUNNING", "STOPPED", "ERROR", "DESTROYED", "SUPERSEDED"}

\* owner is the runtime named by the VM's ownership marker.
VM == [exists: BOOLEAN, owner: Runtimes \cup {NULL}, power: {"stopped", "running"}]

Copy == [desired: RuntimeState, actual: ActualState, vmid: VmIds \cup {NULL},
         count: 0..MaxAttempts, gaveUp: BOOLEAN]

SessionValues == [actual: ActualState, count: 0..MaxAttempts, gaveUp: BOOLEAN]

Delete == [pc: {"idle", "destroy", "commit"}, rt: Runtimes \cup {NULL},
           vmid: VmIds \cup {NULL}]

TypeOK ==
    /\ desired \in [Runtimes -> RuntimeState]
    /\ actual \in [Runtimes -> ActualState]
    /\ vmid \in [Runtimes -> VmIds \cup {NULL}]
    /\ count \in [Runtimes -> 0..MaxAttempts]
    /\ gaveUp \in [Runtimes -> BOOLEAN]
    /\ vms \in [VmIds -> VM]
    /\ vpc \in [Visits -> {"idle", "observe", "start", "shutdown", "wait", "commit"}]
    /\ vrt \in [Visits -> Runtimes \cup {NULL}]
    /\ copy \in [Visits -> Copy]
    /\ sess \in [Visits -> SessionValues]
    /\ del \in [Deleters -> Delete]
    /\ attempts \in [Runtimes -> 0..MaxAttempts + 1]
    /\ met \subseteq Visits /\ solo \in [Runtimes -> Nat]
    /\ strayed \subseteq Runtimes
    /\ outages \in 0..MaxOutages
    /\ crashes \in 0..MaxCrashes

NoVm == [exists |-> FALSE, owner |-> NULL, power |-> "stopped"]

NoCopy == [desired |-> "DESIRED_RUNNING", actual |-> "NONE", vmid |-> NULL,
           count |-> 0, gaveUp |-> FALSE]

NoValues == [actual |-> "NONE", count |-> 0, gaveUp |-> FALSE]

IdleDelete == [pc |-> "idle", rt |-> NULL, vmid |-> NULL]

Init ==
    /\ desired = [r \in Runtimes |-> "DESIRED_RUNNING"]
    /\ actual = [r \in Runtimes |-> "NONE"]
    /\ vmid = [r \in Runtimes |-> NULL]
    /\ count = [r \in Runtimes |-> 0]
    /\ gaveUp = [r \in Runtimes |-> FALSE]
    /\ vms = [v \in VmIds |-> NoVm]
    /\ vpc = [p \in Visits |-> "idle"]
    /\ vrt = [p \in Visits |-> NULL]
    /\ copy = [p \in Visits |-> NoCopy]
    /\ sess = [p \in Visits |-> NoValues]
    /\ del = [d \in Deleters |-> IdleDelete]
    /\ attempts = [r \in Runtimes |-> 0]
    /\ met = {} /\ solo = [r \in Runtimes |-> 0]
    /\ strayed = {}
    /\ outages = 0 /\ crashes = 0

---------------------------------------------------------------------------
(* A visit: loading the row *)

\* The visits of the row that have not committed.
VisitsOf(r) == {q \in Visits : vpc[q] # "idle" /\ vrt[q] = r}

Load(p, r) ==
    /\ vpc[p] = "idle"
    /\ actual[r] # "NONE"
    /\ vpc' = [vpc EXCEPT ![p] = "observe"]
    /\ vrt' = [vrt EXCEPT ![p] = r]
    /\ copy' = [copy EXCEPT ![p] =
                  [desired |-> desired[r], actual |-> actual[r], vmid |-> vmid[r],
                   count |-> count[r], gaveUp |-> gaveUp[r]]]
    /\ IF VisitsOf(r) = {} THEN UNCHANGED <<met, strayed>>
       ELSE /\ met' = met \cup VisitsOf(r) \cup {p}
            /\ strayed' = strayed \cup {r}
    /\ UNCHANGED <<row, vms, sess, del, attempts, solo, outages, crashes>>

---------------------------------------------------------------------------
(* A visit: observing the VM and deciding *)

\* _pve_vm_state; a VM that is gone reads like an unreachable Proxmox.
PveState(v) ==
    IF v = NULL THEN {"absent"}
    ELSE {IF vms[v].exists THEN vms[v].power ELSE "unknown"}
           \cup (IF Flaky THEN {"unknown"} ELSE {})

\* The row has no desired state to execute.
Skipped(c) == c.actual = "SUPERSEDED" \/ c.desired = "DESIRED_DESTROYED"

Observes(p, pve) ==
    /\ vpc[p] = "observe"
    /\ ~Skipped(copy[p])
    /\ pve \in PveState(copy[p].vmid)

\* The visit is over but for its commit, with these values in the session.
Ends(p, act, n, g) ==
    /\ vpc' = [vpc EXCEPT ![p] = "commit"]
    /\ sess' = [sess EXCEPT ![p] = [actual |-> act, count |-> n, gaveUp |-> g]]
    /\ UNCHANGED <<row, vrt, copy, del, outages, crashes>>

\* History: the VM was seen as desired; provider.start was called.
SeenAsDesired(r) ==
    /\ attempts' = [attempts EXCEPT ![r] = 0]
    /\ solo' = [solo EXCEPT ![r] = 0]

Called(r) == attempts' = [attempts EXCEPT ![r] = IF @ > MaxAttempts THEN @ ELSE @ + 1]

Accepted(p) == solo' = [solo EXCEPT ![vrt[p]] = IF p \in met THEN @ ELSE @ + 1]

\* _record clears last_error when the row is as desired.
EndsUnchanged(p) ==
    Ends(p, copy[p].actual, copy[p].count,
         /\ copy[p].gaveUp
         /\ copy[p].actual #
              IF copy[p].desired = "DESIRED_RUNNING" THEN "RUNNING" ELSE "STOPPED")

\* An error other than exhaustion is recorded; nothing else changes.
EndsInError(p) == Ends(p, copy[p].actual, copy[p].count, FALSE)

\* SUPERSEDED, DESIRED_DESTROYED, or no VM to act on.
ObserveNothingToDo(p) ==
    /\ \/ vpc[p] = "observe" /\ Skipped(copy[p])
       \/ Observes(p, "absent")
    /\ EndsUnchanged(p)
    /\ UNCHANGED <<vms, history>>

ObserveUnknown(p) ==
    /\ Observes(p, "unknown")
    /\ EndsInError(p)
    /\ UNCHANGED <<vms, history>>

\* Fault: the observation does not correct the row.
ObserveTrustsRow(p) ==
    /\ \/ Observes(p, "running") /\ copy[p].desired = "DESIRED_RUNNING"
       \/ Observes(p, "stopped") /\ copy[p].desired = "DESIRED_STOPPED"
       \/ Observes(p, "running") /\ copy[p].desired = "DESIRED_STOPPED"
            /\ copy[p].actual = "STOPPED"
    /\ EndsUnchanged(p)
    /\ UNCHANGED <<vms, history>>

\* The VM is as desired: the row is corrected.  The recovery counter is reset
\* only if the row did not say RUNNING already.
ObserveConverged(p) ==
    /\ \/ /\ Observes(p, "running") /\ copy[p].desired = "DESIRED_RUNNING"
          /\ Ends(p, "RUNNING",
                  IF copy[p].actual = "RUNNING" THEN copy[p].count ELSE 0, FALSE)
       \/ /\ Observes(p, "stopped") /\ copy[p].desired = "DESIRED_STOPPED"
          /\ Ends(p, "STOPPED", copy[p].count, FALSE)
    /\ SeenAsDesired(vrt[p])
    /\ UNCHANGED <<vms, met, strayed>>

\* The VM is not as desired, and the row's claim on it is checked.
NeedsStart(p) == Observes(p, "stopped") /\ copy[p].desired = "DESIRED_RUNNING"

NeedsShutdown(p) == Observes(p, "running") /\ copy[p].desired = "DESIRED_STOPPED"

\* _verify_owned (the protected VMIDs are in RuntimeLifecycle).
VerifyOwned(p) ==
    /\ vms[copy[p].vmid].exists
    /\ vms[copy[p].vmid].owner = vrt[p]

ObserveUnowned(p) ==
    /\ NeedsStart(p) \/ NeedsShutdown(p)
    /\ ~VerifyOwned(p)
    /\ EndsInError(p)
    /\ UNCHANGED <<vms, history>>

\* Fault: the counter may pass the limit by one.
OneMoreAttempt(p) == copy[p].count > MaxAttempts

AttemptsExhausted(p) == copy[p].count >= MaxAttempts

RecoveryExhausted(p) ==
    /\ NeedsStart(p) /\ VerifyOwned(p)
    /\ AttemptsExhausted(p)
    /\ Ends(p, copy[p].actual, copy[p].count, TRUE)
    /\ UNCHANGED <<vms, history>>

\* The visit goes on to the call; before a start it may sleep for up to
\* backoff_cap_s seconds.
DecideToAct(p) ==
    /\ \/ /\ NeedsStart(p) /\ ~AttemptsExhausted(p)
          /\ vpc' = [vpc EXCEPT ![p] = "start"]
       \/ /\ NeedsShutdown(p)
          /\ vpc' = [vpc EXCEPT ![p] = "shutdown"]
    /\ VerifyOwned(p)
    /\ UNCHANGED <<row, vms, vrt, copy, sess, del, history, outages, crashes>>

---------------------------------------------------------------------------
(* A visit: acting on the VM *)

\* What an accepted call to Proxmox may leave the VM's power at.
Outcome(v, power) == IF Flaky THEN {power, vms[v].power} ELSE {power}

\* Fault: the attempt is not counted.
StartUncounted(p) ==
    /\ vpc[p] = "start"
    /\ vms[copy[p].vmid].exists
    /\ \E x \in Outcome(copy[p].vmid, "running") :
         vms' = [vms EXCEPT ![copy[p].vmid].power = x]
    /\ Ends(p, "RUNNING", copy[p].count, FALSE)
    /\ Called(vrt[p]) /\ Accepted(p)
    /\ strayed' = strayed \cup ({vms[copy[p].vmid].owner} \ {vrt[p]})
    /\ UNCHANGED met

\* provider.start, accepted: the row is RUNNING without another look.
Start(p) ==
    /\ vpc[p] = "start"
    /\ vms[copy[p].vmid].exists
    /\ \E x \in Outcome(copy[p].vmid, "running") :
         vms' = [vms EXCEPT ![copy[p].vmid].power = x]
    /\ Ends(p, "RUNNING", copy[p].count + 1, FALSE)
    /\ Called(vrt[p]) /\ Accepted(p)
    /\ strayed' = strayed \cup ({vms[copy[p].vmid].owner} \ {vrt[p]})
    /\ UNCHANGED met

\* provider.start raises: the counter stays.
StartRaises(p) ==
    /\ vpc[p] = "start"
    /\ StartsRaise \/ ~vms[copy[p].vmid].exists
    /\ EndsInError(p)
    /\ Called(vrt[p])
    /\ UNCHANGED <<vms, solo, met, strayed>>

Shutdown(p) ==
    /\ vpc[p] = "shutdown"
    /\ vms[copy[p].vmid].exists
    /\ \E x \in Outcome(copy[p].vmid, "stopped") :
         vms' = [vms EXCEPT ![copy[p].vmid].power = x]
    /\ vpc' = [vpc EXCEPT ![p] = "wait"]
    /\ UNCHANGED <<row, vrt, copy, sess, del, history, outages, crashes>>

\* Both the shutdown and the forced stop fail: the VM is gone.
ShutdownRaises(p) ==
    /\ vpc[p] = "shutdown"
    /\ ~vms[copy[p].vmid].exists
    /\ EndsInError(p)
    /\ UNCHANGED <<vms, history>>

\* Fault: the shutdown is taken for granted.
WaitAssumesStopped(p) ==
    /\ vpc[p] = "wait"
    /\ Ends(p, "STOPPED", 0, FALSE)
    /\ SeenAsDesired(vrt[p])
    /\ UNCHANGED <<vms, met, strayed>>

WaitSeesStopped(p) ==
    /\ vpc[p] = "wait"
    /\ "stopped" \in PveState(copy[p].vmid)
    /\ Ends(p, "STOPPED", 0, FALSE)
    /\ SeenAsDesired(vrt[p])
    /\ UNCHANGED <<vms, met, strayed>>

\* shutdown_wait_s is over and the VM was never seen stopped.
WaitTimesOut(p) ==
    /\ vpc[p] = "wait"
    /\ PveState(copy[p].vmid) # {"stopped"}
    /\ EndsInError(p)
    /\ UNCHANGED <<vms, history>>

\* The UPDATE at the commit names the columns that differ from the copy.
VisitCommit(p) ==
    /\ vpc[p] = "commit"
    /\ LET r == vrt[p] IN
       /\ actual' = [actual EXCEPT ![r] =
                       IF sess[p].actual # copy[p].actual THEN sess[p].actual ELSE @]
       /\ count' = [count EXCEPT ![r] =
                      IF sess[p].count # copy[p].count THEN sess[p].count ELSE @]
       /\ gaveUp' = [gaveUp EXCEPT ![r] =
                       IF sess[p].gaveUp # copy[p].gaveUp THEN sess[p].gaveUp ELSE @]
    /\ vpc' = [vpc EXCEPT ![p] = "idle"]
    /\ vrt' = [vrt EXCEPT ![p] = NULL]
    /\ copy' = [copy EXCEPT ![p] = NoCopy]
    /\ sess' = [sess EXCEPT ![p] = NoValues]
    /\ met' = met \ {p}
    /\ UNCHANGED <<desired, vmid, vms, del, attempts, solo, strayed, outages,
                   crashes>>

---------------------------------------------------------------------------
(* The other handlers of the API *)

IsNextVmid(v) ==
    /\ ~vms[v].exists
    /\ \A w \in VmIds : ~vms[w].exists => v <= w

\* A POST /agent-runtimes that ends well, or in error without a VM.
Provision(r) ==
    /\ actual[r] = "NONE"
    /\ \/ /\ actual' = [actual EXCEPT ![r] = "RUNNING"]
          /\ \E v \in VmIds :
               /\ IsNextVmid(v)
               /\ vmid' = [vmid EXCEPT ![r] = v]
               /\ vms' = [vms EXCEPT ![v] = [exists |-> TRUE, owner |-> r,
                                             power |-> "running"]]
       \/ /\ actual' = [actual EXCEPT ![r] = "ERROR"]
          /\ UNCHANGED <<vmid, vms>>
    /\ UNCHANGED <<desired, count, gaveUp, visit, del, history, outages, crashes>>

SetDesiredState(r, x) ==
    /\ actual[r] # "NONE"
    /\ desired' = [desired EXCEPT ![r] = x]
    /\ UNCHANGED <<actual, vmid, count, gaveUp, vms, visit, del, history, outages,
                   crashes>>

\* POST .../supersede of a row that has no VM and does not say RUNNING.
Supersede(r) ==
    /\ actual[r] \notin {"NONE", "SUPERSEDED", "RUNNING"}
    /\ vmid[r] = NULL
    /\ actual' = [actual EXCEPT ![r] = "SUPERSEDED"]
    /\ UNCHANGED <<desired, vmid, count, gaveUp, vms, visit, del, history, outages,
                   crashes>>

DeleteVerify(d, r) ==
    /\ del[d].pc = "idle"
    /\ vmid[r] # NULL
    /\ vms[vmid[r]].exists
    /\ vms[vmid[r]].owner = r
    /\ del' = [del EXCEPT ![d] = [pc |-> "destroy", rt |-> r, vmid |-> vmid[r]]]
    /\ UNCHANGED <<row, vms, visit, history, outages, crashes>>

DeleteDestroy(d) ==
    /\ del[d].pc = "destroy"
    /\ vms[del[d].vmid].exists
    /\ vms' = [vms EXCEPT ![del[d].vmid] = NoVm]
    /\ del' = [del EXCEPT ![d].pc = "commit"]
    /\ UNCHANGED <<row, visit, history, outages, crashes>>

DeleteCommit(d) ==
    /\ del[d].pc = "commit"
    /\ actual' = [actual EXCEPT ![del[d].rt] = "DESTROYED"]
    /\ desired' = [desired EXCEPT ![del[d].rt] = "DESIRED_DESTROYED"]
    /\ vmid' = [vmid EXCEPT ![del[d].rt] = NULL]
    /\ del' = [del EXCEPT ![d] = IdleDelete]
    /\ UNCHANGED <<count, gaveUp, vms, visit, history, outages, crashes>>

DeleteAborts(d) ==
    /\ del[d].pc = "destroy"
    /\ del' = [del EXCEPT ![d] = IdleDelete]
    /\ UNCHANGED <<row, vms, visit, history, outages, crashes>>

---------------------------------------------------------------------------
(* What happens to VMs and to the process *)

VmStops(v) ==
    /\ outages < MaxOutages
    /\ vms[v].power = "running"
    /\ vms' = [vms EXCEPT ![v].power = "stopped"]
    /\ outages' = outages + 1
    /\ UNCHANGED <<row, visit, del, history, crashes>>

Crash ==
    /\ crashes < MaxCrashes
    /\ crashes' = crashes + 1
    /\ vpc' = [p \in Visits |-> "idle"]
    /\ vrt' = [p \in Visits |-> NULL]
    /\ copy' = [p \in Visits |-> NoCopy]
    /\ sess' = [p \in Visits |-> NoValues]
    /\ del' = [d \in Deleters |-> IdleDelete]
    /\ met' = {}
    /\ UNCHANGED <<row, vms, attempts, solo, strayed, outages>>

---------------------------------------------------------------------------
(* Specification *)

Acts(p) == Start(p) \/ StartRaises(p) \/ Shutdown(p)

VisitStep(p) ==
    \/ ObserveNothingToDo(p) \/ ObserveUnknown(p) \/ ObserveConverged(p)
    \/ ObserveUnowned(p) \/ RecoveryExhausted(p) \/ DecideToAct(p)
    \/ Acts(p) \/ ShutdownRaises(p) \/ WaitSeesStopped(p) \/ WaitTimesOut(p)
    \/ VisitCommit(p)

Next ==
    \/ \E p \in Visits, r \in Runtimes : Load(p, r)
    \/ \E p \in Visits : VisitStep(p)
    \/ \E r \in Runtimes : Provision(r) \/ Supersede(r)
    \/ \E r \in Runtimes, x \in RuntimeState : SetDesiredState(r, x)
    \/ \E d \in Deleters, r \in Runtimes : DeleteVerify(d, r)
    \/ \E d \in Deleters : DeleteDestroy(d) \/ DeleteCommit(d) \/ DeleteAborts(d)
    \/ \E v \in VmIds : VmStops(v)
    \/ Crash

Spec == Init /\ [][Next]_vars

\* A visit that was begun goes on: every call and every wait has a deadline.
FairSpec == Spec /\ \A p \in Visits : WF_vars(VisitStep(p))

---------------------------------------------------------------------------
(* Properties *)

\* What is left of the limit on automatic recovery when starts are refused, visits of one
\* row overlap and the process restarts: between two observations of the VM as desired,
\* the visits that had their row for themselves start the VM at most MaxAttempts times,
\* and once more for each restart between the start and the commit of its count.  The
\* counter a stale visit writes back never gives them a new budget (the check of
\* recovery_count, the start and the UPDATE of a visit).  Calls that Proxmox refuses, and
\* the starts of visits that overlap, are not within the limit.
SoloStartsBounded == \A r \in Runtimes : solo[r] <= MaxAttempts + crashes

\* "maximum 5 automatic recovery attempts per incident" (ReconcileSettings): between two
\* observations of the VM as desired, provider.start is called at most MaxAttempts times.
RecoveryBounded == \A r \in Runtimes : attempts[r] <= MaxAttempts

\* A row says STOPPED only if its VM was seen stopped after the last start:
\* unless a visit is about to record otherwise, the runtime's VM does not run.
\* The exceptions are a restart between provider.start and the commit, two
\* visits of the row at once, of which the later commit may be the older news,
\* and a visit of another row that began before this row was given the VMID.
StoppedIsHonest ==
    crashes = 0 =>
        \A r \in Runtimes \ strayed :
            /\ actual[r] = "STOPPED" /\ vmid[r] # NULL /\ vms[vmid[r]].owner = r
            /\ \A p \in Visits : vrt[p] # r
            => vms[vmid[r]].power = "stopped"

\* The row is visited again and again.
Visited(r) == []<><<\E p \in Visits : Load(p, r)>>_vars

\* If a row that has a VM stays DESIRED_STOPPED and is visited again and
\* again, the VM ends up stopped and the row says so, whatever stale visits
\* and restarts happened before.
StoppedConverges ==
    \A r \in Runtimes :
        Visited(r) /\ <>[](desired[r] = "DESIRED_STOPPED" /\ vmid[r] # NULL)
          => <>[](actual[r] = "STOPPED" /\ vms[vmid[r]].power = "stopped")

\* If it stays DESIRED_RUNNING, the VM ends up running and the row says so, or
\* the row ends up asking for human attention.
RunningConverges ==
    \A r \in Runtimes :
        Visited(r) /\ <>[](desired[r] = "DESIRED_RUNNING" /\ vmid[r] # NULL)
          => <>[](\/ actual[r] = "RUNNING" /\ vms[vmid[r]].power = "running"
                  \/ gaveUp[r])

\* The safety model in the header of reconciliation.py: a visit acts only on
\* the VM that carries the marker of the row it reconciles.
VisitTouchesOwnVmOnly ==
    [][\A p \in Visits, v \in VmIds :
         Acts(p) /\ vms'[v] # vms[v] => vms[v].owner = vrt[p]]_vars
===========================================================================
