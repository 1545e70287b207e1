--------------------------- MODULE RecoveryEngine ---------------------------
(***************************************************************************)
(* The recovery engine of the LLM Manager (service/app/v011_recovery.py)   *)
(* beside the operators' desired-state and power-off handlers              *)
(* (service/app/v011_core.py).  The engine is one process that ticks for   *)
(* ever: it probes all hosts, reads the table hosts once, and then treats  *)
(* the hosts in the order of their address.  The recovery of one host takes*)
(* up to ten minutes, and what was read at the beginning of the tick is    *)
(* used all the same.  Attempts are counted in recovery_events, so that    *)
(* the bounds survive a restart of the engine.                             *)
(***************************************************************************)
EXTENDS Integers

CONSTANTS
    Hosts,              \* the keys of NODE_MAP; a host is its place in ORDER BY guest_ip
    Operators,          \* workers of the web service that serve power-off
    VmStartMax,         \* VM_START_MAX
    ServiceRestartMax,  \* SERVICE_RESTART_MAX
    AuditFails,         \* TRUE: an INSERT into recovery_events may fail
    MaxEngineFaults,    \* bound on failing calls to Proxmox and the database,
                        \* and on restarts of the engine
    MaxOrders,          \* bound on orders of the operators
    NoHost

ASSUME RecoveryEngineAssumption ==
    /\ Hosts \subseteq Nat
    /\ VmStartMax \in Nat /\ ServiceRestartMax \in Nat
    /\ AuditFails \in BOOLEAN
    /\ MaxEngineFaults \in Nat /\ MaxOrders \in Nat
    /\ NoHost \notin Hosts

VARIABLES
    \* columns of table hosts
    desired, mode, service,
    lateStarts,     \* history: starts since the host was last ordered off
    \* the hosts themselves: the VM runs; its model service answers
    vmOn, serving,
    \* table recovery_events: rows of the last 30 minutes, by host
    startEvents, restartEvents,
    fresh,          \* a restart row is younger than 3 minutes
    \* history: calls of the last 30 minutes
    startCalls, restartCalls,
    \* the engine: program counter, the hosts left, states of sync_registry
    \* and rows of table hosts as the tick read them
    enginePc, todo, states, snap,
    \* the host a power-off handler has checked
    powerOff,
    engineFaults, orders

hostRow == <<desired, mode, service, lateStarts>>
world == <<vmOn, serving>>
window == <<startEvents, restartEvents, fresh, startCalls, restartCalls>>
engine == <<enginePc, todo, states, snap>>
bounds == <<engineFaults, orders>>
engineVars == <<hostRow, world, window, engine, powerOff, bounds>>

PowerState == {"RUNNING", "STOPPED_INTENTIONAL"}
ManagementMode == {"MANAGED", "UNMANAGED"}
ServiceState == {"SERVING", "MAINTENANCE"}
ProbeState == {"healthy", "unhealthy", "unknown"}
HostRow == [desired : PowerState, mode : ManagementMode, service : ServiceState]
EngineSteps == {"sleep", "select", "host", "start", "waitvm", "restart", "waitservice"}

EngineTypeOK ==
    /\ desired \in [Hosts -> PowerState]
    /\ mode \in [Hosts -> ManagementMode]
    /\ service \in [Hosts -> ServiceState]
    /\ lateStarts \in [Hosts -> Nat]
    /\ vmOn \in [Hosts -> BOOLEAN]
    /\ serving \in [Hosts -> BOOLEAN]
    /\ startEvents \in [Hosts -> Nat]
    /\ restartEvents \in [Hosts -> Nat]
    /\ fresh \in [Hosts -> BOOLEAN]
    /\ startCalls \in [Hosts -> Nat]
    /\ restartCalls \in [Hosts -> Nat]
    /\ enginePc \in EngineSteps
    /\ todo \subseteq Hosts
    /\ states \in [Hosts -> ProbeState]
    /\ snap \in [Hosts -> HostRow]
    /\ powerOff \in [Operators -> Hosts \cup {NoHost}]
    /\ engineFaults \in 0..MaxEngineFaults /\ orders \in 0..MaxOrders

\* The defaults of the columns.
DefaultRow == [desired |-> "RUNNING", mode |-> "MANAGED", service |-> "SERVING"]

EngineInit ==
    /\ desired = [h \in Hosts |-> "RUNNING"]
    /\ mode = [h \in Hosts |-> "MANAGED"]
    /\ service = [h \in Hosts |-> "SERVING"]
    /\ lateStarts = [h \in Hosts |-> 0]
    /\ vmOn = [h \in Hosts |-> TRUE]
    /\ serving = [h \in Hosts |-> TRUE]
    /\ startEvents = [h \in Hosts |-> 0]
    /\ restartEvents = [h \in Hosts |-> 0]
    /\ fresh = [h \in Hosts |-> FALSE]
    /\ startCalls = [h \in Hosts |-> 0]
    /\ restartCalls = [h \in Hosts |-> 0]
    /\ enginePc = "sleep"
    /\ todo = {}
    /\ states = [h \in Hosts |-> "unknown"]
    /\ snap = [h \in Hosts |-> DefaultRow]
    /\ powerOff = [o \in Operators |-> NoHost]
    /\ engineFaults = 0 /\ orders = 0

---------------------------------------------------------------------------
(* The tick *)

\* probe_host and the states sync_registry may report of it: a service that
\* answers without a model is neither healthy nor unhealthy.
HostHealthy(h) == vmOn[h] /\ serving[h]
Probe(h) ==
    IF HostHealthy(h) THEN {"healthy"}
    ELSE {"unhealthy"} \cup (IF vmOn[h] THEN {"unknown"} ELSE {})

TickSync ==
    /\ enginePc = "sleep"
    /\ states' \in {f \in [Hosts -> ProbeState] : \A h \in Hosts : f[h] \in Probe(h)}
    /\ enginePc' = "select"
    /\ UNCHANGED <<hostRow, world, window, todo, snap, powerOff, bounds>>

\* No database: sync_registry returns an error, or pg() returns None.
TickGivesUp ==
    /\ enginePc \in {"sleep", "select"}
    /\ engineFaults < MaxEngineFaults
    /\ engineFaults' = engineFaults + 1
    /\ enginePc' = "sleep"
    /\ states' = [h \in Hosts |-> "unknown"]
    /\ UNCHANGED <<hostRow, world, window, todo, snap, powerOff, orders>>

\* Fault: the columns are unpacked in another order.
TickSelectSwapped ==
    /\ enginePc = "select"
    /\ snap' = [h \in Hosts |->
                  [desired |-> mode[h], mode |-> desired[h], service |-> service[h]]]
    /\ todo' = Hosts
    /\ enginePc' = "host"
    /\ UNCHANGED <<hostRow, world, window, states, powerOff, bounds>>
TickSelect ==
    /\ enginePc = "select"
    /\ snap' = [h \in Hosts |->
                  [desired |-> desired[h], mode |-> mode[h], service |-> service[h]]]
    /\ todo' = Hosts
    /\ enginePc' = "host"
    /\ UNCHANGED <<hostRow, world, window, states, powerOff, bounds>>

\* The host whose turn it is.
IsNext(h) == h \in todo /\ \A g \in todo : h <= g

\* The engine is done with host h, and with the tick after the last one; it
\* forgets what it read of the host.
Done(h) ==
    /\ todo' = todo \ {h}
    /\ enginePc' = IF todo = {h} THEN "sleep" ELSE "host"
    /\ states' = [states EXCEPT ![h] = "unknown"]
    /\ snap' = [snap EXCEPT ![h] = DefaultRow]

\* vm_status: no status when Proxmox does not answer.
SeesRunning(h, sees) ==
    \/ sees = vmOn[h] /\ UNCHANGED engineFaults
    \/ ~sees /\ engineFaults < MaxEngineFaults /\ engineFaults' = engineFaults + 1

\* The host is not managed, is off on purpose, or is well.
NothingToDo(h, sees) ==
    \/ snap[h].mode # "MANAGED"
    \/ snap[h].desired = "STOPPED_INTENTIONAL"
    \/ sees /\ (states[h] # "unhealthy" \/ snap[h].service = "MAINTENANCE")

\* Fault: a return in place of the continue.
LeaveAllAlone(h) ==
    /\ enginePc = "host" /\ IsNext(h)
    /\ \E sees \in BOOLEAN : SeesRunning(h, sees) /\ NothingToDo(h, sees)
    /\ enginePc' = "sleep"
    /\ todo' = {}
    /\ states' = [g \in Hosts |-> "unknown"]
    /\ snap' = [g \in Hosts |-> DefaultRow]
    /\ UNCHANGED <<hostRow, world, window, powerOff, orders>>
LeaveAlone(h) ==
    /\ enginePc = "host" /\ IsNext(h)
    /\ \E sees \in BOOLEAN : SeesRunning(h, sees) /\ NothingToDo(h, sees)
    /\ Done(h)
    /\ UNCHANGED <<hostRow, world, window, powerOff, orders>>

\* Fault: the desired power state is not looked at.
ManagedAtAll(h) == snap[h].mode = "MANAGED"
Managed(h) == snap[h].mode = "MANAGED" /\ snap[h].desired = "RUNNING"

\* The branches of tick that call recover_vm_start and recover_service.
NeedsStart(h) ==
    /\ enginePc = "host" /\ IsNext(h) /\ Managed(h)
    /\ SeesRunning(h, FALSE)

NeedsRestart(h) ==
    /\ enginePc = "host" /\ IsNext(h) /\ Managed(h)
    /\ SeesRunning(h, TRUE)
    /\ states[h] = "unhealthy" /\ snap[h].service # "MAINTENANCE"

\* audit: the row is inserted, or the failure goes to a log file.
Audited(count, h) ==
    \/ count' = [count EXCEPT ![h] = @ + 1]
    \/ AuditFails /\ UNCHANGED count

\* Fault: one attempt more than VM_START_MAX.
StartOnceMore(h) == startEvents[h] > VmStartMax
\* recover_vm_start: the attempts are exhausted (recent_count).
StartExhausted(h) == startEvents[h] >= VmStartMax

RecoverVmGivesUp(h) ==
    /\ NeedsStart(h)
    /\ StartExhausted(h)
    /\ Done(h)
    /\ UNCHANGED <<hostRow, world, window, powerOff, orders>>

\* The attempt is on record before Proxmox is called.
AuditStart(h) ==
    /\ NeedsStart(h)
    /\ ~StartExhausted(h)
    /\ Audited(startEvents, h)
    /\ enginePc' = "start"
    /\ UNCHANGED <<hostRow, world, restartEvents, fresh, startCalls, restartCalls,
                   todo, states, snap, powerOff, orders>>

\* vm_power: its result is not looked at.
StartVm(h) ==
    /\ enginePc = "start" /\ IsNext(h)
    /\ \/ vmOn' = [vmOn EXCEPT ![h] = TRUE] /\ UNCHANGED engineFaults
       \/ engineFaults < MaxEngineFaults /\ engineFaults' = engineFaults + 1 /\ UNCHANGED vmOn
    /\ startCalls' = [startCalls EXCEPT ![h] = @ + 1]
    /\ \/ desired[h] = "RUNNING" /\ UNCHANGED lateStarts
       \/ /\ desired[h] = "STOPPED_INTENTIONAL"
          /\ lateStarts' = [lateStarts EXCEPT ![h] = @ + 1]
    /\ enginePc' = "waitvm"
    /\ UNCHANGED <<desired, mode, service, serving, startEvents, restartEvents, fresh,
                   restartCalls, todo, states, snap, powerOff, orders>>

\* The waits of recover_vm_start and recover_service end with a healthy
\* probe or after their last round.
WaitEnds(h) ==
    /\ enginePc \in {"waitvm", "waitservice"} /\ IsNext(h)
    /\ Done(h)
    /\ UNCHANGED <<hostRow, world, window, powerOff, bounds>>

\* recover_service: the attempts are exhausted, or one was just made.
RestartRefused(h) == restartEvents[h] >= ServiceRestartMax \/ fresh[h]

\* recent_count cannot read the table and answers 99: no recovery action.
CountFails(h) ==
    /\ enginePc = "host" /\ IsNext(h) /\ Managed(h)
    /\ ~vmOn[h] \/ (states[h] = "unhealthy" /\ snap[h].service # "MAINTENANCE")
    /\ engineFaults < MaxEngineFaults
    /\ engineFaults' = engineFaults + 1
    /\ Done(h)
    /\ UNCHANGED <<hostRow, world, window, powerOff, orders>>

RecoverServiceGivesUp(h) ==
    /\ NeedsRestart(h)
    /\ RestartRefused(h)
    /\ Done(h)
    /\ UNCHANGED <<hostRow, world, window, powerOff, orders>>

AuditRestart(h) ==
    /\ NeedsRestart(h)
    /\ ~RestartRefused(h)
    /\ Audited(restartEvents, h)
    /\ fresh' = [fresh EXCEPT ![h] = restartEvents'[h] > restartEvents[h]]
    /\ enginePc' = "restart"
    /\ UNCHANGED <<hostRow, world, startEvents, startCalls, restartCalls,
                   todo, states, snap, powerOff, orders>>

\* _control_restart: the service comes up, or it does not.
RestartService(h) ==
    /\ enginePc = "restart" /\ IsNext(h)
    /\ \E up \in BOOLEAN : serving' = [serving EXCEPT ![h] = up]
    /\ restartCalls' = [restartCalls EXCEPT ![h] = @ + 1]
    /\ enginePc' = "waitservice"
    /\ UNCHANGED <<hostRow, vmOn, startEvents, restartEvents, fresh, startCalls,
                   todo, states, snap, powerOff, bounds>>

\* The engine is restarted (systemd brings it up again), or an exception ends
\* the tick and main goes on with the next one.
Crash ==
    /\ engineFaults < MaxEngineFaults
    /\ engineFaults' = engineFaults + 1
    /\ enginePc' = "sleep"
    /\ todo' = {}
    /\ states' = [h \in Hosts |-> "unknown"]
    /\ snap' = [h \in Hosts |-> DefaultRow]
    /\ UNCHANGED <<hostRow, world, window, powerOff, orders>>

---------------------------------------------------------------------------
(* Operators *)

Ordered == orders < MaxOrders /\ orders' = orders + 1

\* POST /api/hosts/{ip}/desired-state (two columns, a commit each), and the
\* maintenance flag, which operators set in the table.
SetDesiredState(h) ==
    /\ Ordered
    /\ \/ /\ \E x \in PowerState \ {desired[h]} : desired' = [desired EXCEPT ![h] = x]
          /\ lateStarts' = [lateStarts EXCEPT ![h] = 0]
          /\ UNCHANGED <<mode, service>>
       \/ /\ \E x \in ManagementMode \ {mode[h]} : mode' = [mode EXCEPT ![h] = x]
          /\ UNCHANGED <<desired, service, lateStarts>>
       \/ /\ \E x \in ServiceState \ {service[h]} : service' = [service EXCEPT ![h] = x]
          /\ UNCHANGED <<desired, mode, lateStarts>>
    /\ UNCHANGED <<world, window, engine, powerOff, engineFaults>>

\* POST /api/hosts/{ip}/power-off: refused unless the host is to be off.
PowerOffCheck(o, h) ==
    /\ powerOff[o] = NoHost
    /\ desired[h] = "STOPPED_INTENTIONAL"
    /\ powerOff' = [powerOff EXCEPT ![o] = h]
    /\ UNCHANGED <<hostRow, world, window, engine, bounds>>

PowerOff(o) ==
    /\ powerOff[o] # NoHost
    /\ \/ /\ vmOn' = [vmOn EXCEPT ![powerOff[o]] = FALSE]
          /\ serving' = [serving EXCEPT ![powerOff[o]] = FALSE]
          /\ UNCHANGED engineFaults
       \/ engineFaults < MaxEngineFaults /\ engineFaults' = engineFaults + 1 /\ UNCHANGED world
    /\ powerOff' = [powerOff EXCEPT ![o] = NoHost]
    /\ UNCHANGED <<hostRow, window, engine, orders>>

---------------------------------------------------------------------------
(* Hosts and time *)

\* A VM stops, or its model service does, by itself.
Outage(h) ==
    /\ vmOn[h]
    /\ \E on \in BOOLEAN : vmOn' = [vmOn EXCEPT ![h] = on]
    /\ serving' = [serving EXCEPT ![h] = FALSE]
    /\ UNCHANGED <<hostRow, window, engine, powerOff, bounds>>

\* The service of a VM that boots comes up.
ServiceUp(h) ==
    /\ vmOn[h] /\ ~serving[h]
    /\ serving' = [serving EXCEPT ![h] = TRUE]
    /\ UNCHANGED <<hostRow, vmOn, window, engine, powerOff, bounds>>

\* The oldest attempt of a kind is more than 30 minutes ago: its row, its
\* call (an attempt cut short has no call, one not audited no row).
Ages(rows, calls, h) ==
    \/ /\ rows[h] > 0 /\ calls[h] > 0
       /\ rows' = [rows EXCEPT ![h] = @ - 1]
       /\ calls' = [calls EXCEPT ![h] = @ - 1]
    \/ /\ rows[h] > calls[h]
       /\ rows' = [rows EXCEPT ![h] = @ - 1]
       /\ UNCHANGED calls
    \/ /\ calls[h] > rows[h]
       /\ calls' = [calls EXCEPT ![h] = @ - 1]
       /\ UNCHANGED rows

\* The attempt the engine is about to make is seconds old.
StartAges(h) ==
    /\ ~(enginePc = "start" /\ IsNext(h))
    /\ Ages(startEvents, startCalls, h)
    /\ UNCHANGED <<hostRow, world, restartEvents, fresh, restartCalls, engine, powerOff, bounds>>

RestartAges(h) ==
    /\ ~(enginePc = "restart" /\ IsNext(h))
    /\ fresh[h] => restartEvents[h] > 1
    /\ Ages(restartEvents, restartCalls, h)
    /\ UNCHANGED <<hostRow, world, startEvents, fresh, startCalls, engine, powerOff, bounds>>

FreshEnds(h) ==
    /\ fresh[h]
    /\ fresh' = [fresh EXCEPT ![h] = FALSE]
    /\ UNCHANGED <<hostRow, world, startEvents, restartEvents, startCalls, restartCalls,
                   engine, powerOff, bounds>>

---------------------------------------------------------------------------
(* Specification *)

TreatHost(h) ==
    \/ LeaveAlone(h)
    \/ RecoverVmGivesUp(h) \/ AuditStart(h) \/ StartVm(h)
    \/ CountFails(h) \/ RecoverServiceGivesUp(h) \/ AuditRestart(h) \/ RestartService(h)
    \/ WaitEnds(h)

RecoveryTick == TickSync \/ TickSelect \/ \E h \in Hosts : TreatHost(h)

TimePasses(h) == StartAges(h) \/ RestartAges(h) \/ FreshEnds(h)

EngineNext ==
    \/ RecoveryTick
    \/ TickGivesUp
    \/ Crash
    \/ \E h \in Hosts : SetDesiredState(h) \/ Outage(h) \/ ServiceUp(h) \/ TimePasses(h)
    \/ \E o \in Operators, h \in Hosts : PowerOffCheck(o, h)
    \/ \E o \in Operators : PowerOff(o)

EngineSpec == EngineInit /\ [][EngineNext]_engineVars

\* The loop of main never ends and systemd restarts it; time passes.
Fairness == WF_engineVars(RecoveryTick) /\ \A h \in Hosts : WF_engineVars(StartAges(h))

---------------------------------------------------------------------------
(* Properties *)

\* "bounded recovery, never an infinite restart loop" (header of v011_core.py):
\* in any 30 minutes a host is started at most VM_START_MAX times and its
\* service restarted at most SERVICE_RESTART_MAX times, restarts of the engine
\* included (recover_vm_start, recover_service).  It needs every audit row.
RecoveryIsBounded ==
    \A h \in Hosts :
        startCalls[h] <= VmStartMax /\ restartCalls[h] <= ServiceRestartMax

\* A managed host that is to run does run again and again, whatever state the
\* hosts treated before it are in (the loop of tick, the bounded waits).
HostsRecover ==
    \A h \in Hosts :
        <>[](desired[h] = "RUNNING" /\ mode[h] = "MANAGED") => []<>(vmOn[h])

\* A host ordered off is started at most once more, by the tick that read its
\* row before the order, however long that tick takes: one that stays off is
\* left off (tick, recover_vm_start).
OneLateStart == \A h \in Hosts : lateStarts[h] <= 1

\* What makes OneLateStart inductive: the start a tick may still make of a host
\* it read as RUNNING is counted.
MayStart(h) ==
    /\ h \in todo /\ snap[h].desired = "RUNNING"
    /\ IsNext(h) => enginePc \in {"host", "start"}
LateStartsCounted ==
    \A h \in Hosts :
        /\ enginePc \in {"sleep", "select"} => h \notin todo
        /\ enginePc = "start" /\ IsNext(h) => snap[h].desired = "RUNNING"
        /\ \/ lateStarts[h] = 0
           \/ lateStarts[h] = 1 /\ desired[h] = "STOPPED_INTENTIONAL" /\ ~MayStart(h)

\* What makes RecoveryIsBounded inductive: every call, and the one the engine
\* is about to make, has its row among the rows that are counted.
About(h, step) == IF enginePc = step /\ IsNext(h) THEN 1 ELSE 0
StartsCounted ==
    \A h \in Hosts : /\ startCalls[h] + About(h, "start") <= startEvents[h]
                     /\ startEvents[h] <= VmStartMax
RestartsCounted ==
    \A h \in Hosts : /\ restartCalls[h] + About(h, "restart") <= restartEvents[h]
                     /\ restartEvents[h] <= ServiceRestartMax
=============================================================================
