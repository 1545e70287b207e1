----------------------- MODULE RecoveryRegistry_proofs -----------------------
(***************************************************************************)
(* The loop of the LLM Manager that keeps hosts and routing as desired.    *)
(* RecoveryEngine: types, the bound on recovery actions and the one late   *)
(* start, for every number of hosts, every bound and any number of engineFaults  *)
(* and orders.  ModelRegistry: types, and the bound on the alias' rows,    *)
(* for any number of backends, models and processes that sync.             *)
(***************************************************************************)
EXTENDS RecoveryEngine, ModelRegistry, TLAPS, WellFoundedInduction, FiniteSetTheorems

---------------------------------------------------------------------------
(* RecoveryEngine *)

\* The operators that a step of the engine is made of keep the types of what
\* they write.
LEMMA DoneTypes ==
    ASSUME EngineTypeOK, NEW h \in Hosts, Done(h)
    PROVE  /\ enginePc' \in EngineSteps /\ todo' \subseteq Hosts
           /\ states' \in [Hosts -> ProbeState] /\ snap' \in [Hosts -> HostRow]
  BY DEF EngineTypeOK, Done, EngineSteps, ProbeState, HostRow, DefaultRow, PowerState,
         ManagementMode, ServiceState

LEMMA SeesTypes ==
    ASSUME EngineTypeOK, NEW h \in Hosts, NEW sees \in BOOLEAN, SeesRunning(h, sees)
    PROVE  engineFaults' \in 0..MaxEngineFaults
  BY RecoveryEngineAssumption DEF EngineTypeOK, SeesRunning, RecoveryEngineAssumption

\* The branches of tick for one host keep the types.
LEMMA TreatHostTypes ==
    ASSUME EngineTypeOK, NEW h \in Hosts, TreatHost(h)
    PROVE  EngineTypeOK'
<1>1. CASE LeaveAlone(h)
  <2>1. engineFaults' \in 0..MaxEngineFaults
    BY <1>1, SeesTypes DEF LeaveAlone
  <2>. QED
    BY <1>1, <2>1, DoneTypes
    DEF LeaveAlone, EngineTypeOK, hostRow, world, window
<1>2. CASE RecoverVmGivesUp(h)
  <2>1. engineFaults' \in 0..MaxEngineFaults
    BY <1>2, SeesTypes DEF RecoverVmGivesUp, NeedsStart
  <2>. QED
    BY <1>2, <2>1, DoneTypes
    DEF RecoverVmGivesUp, EngineTypeOK, hostRow, world, window
<1>3. CASE AuditStart(h)
  <2>1. engineFaults' \in 0..MaxEngineFaults
    BY <1>3, SeesTypes DEF AuditStart, NeedsStart
  <2>2. startEvents' \in [Hosts -> Nat]
    BY <1>3 DEF AuditStart, Audited, EngineTypeOK
  <2>. QED
    BY <1>3, <2>1, <2>2 DEF AuditStart, EngineTypeOK, hostRow, world, EngineSteps
<1>4. CASE StartVm(h)
  <2>1. vmOn' \in [Hosts -> BOOLEAN]
    BY <1>4 DEF StartVm, EngineTypeOK
  <2>2. engineFaults' \in 0..MaxEngineFaults
    BY <1>4, RecoveryEngineAssumption DEF StartVm, EngineTypeOK, RecoveryEngineAssumption
  <2>3. startCalls' \in [Hosts -> Nat] /\ lateStarts' \in [Hosts -> Nat]
    BY <1>4 DEF StartVm, EngineTypeOK
  <2>. QED
    BY <1>4, <2>1, <2>2, <2>3 DEF StartVm, EngineTypeOK, hostRow, EngineSteps
<1>5. CASE CountFails(h)
  <2>1. engineFaults' \in 0..MaxEngineFaults
    BY <1>5, RecoveryEngineAssumption DEF CountFails, EngineTypeOK, RecoveryEngineAssumption
  <2>. QED
    BY <1>5, <2>1, DoneTypes DEF CountFails, EngineTypeOK, hostRow, world, window
<1>6. CASE RecoverServiceGivesUp(h)
  <2>1. engineFaults' \in 0..MaxEngineFaults
    BY <1>6, SeesTypes DEF RecoverServiceGivesUp, NeedsRestart
  <2>. QED
    BY <1>6, <2>1, DoneTypes
    DEF RecoverServiceGivesUp, EngineTypeOK, hostRow, world, window
<1>7. CASE AuditRestart(h)
  <2>1. engineFaults' \in 0..MaxEngineFaults
    BY <1>7, SeesTypes DEF AuditRestart, NeedsRestart
  <2>2. restartEvents' \in [Hosts -> Nat]
    BY <1>7 DEF AuditRestart, Audited, EngineTypeOK
  <2>3. fresh' \in [Hosts -> BOOLEAN]
    BY <1>7 DEF AuditRestart, EngineTypeOK
  <2>. QED
    BY <1>7, <2>1, <2>2, <2>3 DEF AuditRestart, EngineTypeOK, hostRow, world, EngineSteps
<1>8. CASE RestartService(h)
  <2>1. serving' \in [Hosts -> BOOLEAN]
    BY <1>8 DEF RestartService, EngineTypeOK
  <2>2. restartCalls' \in [Hosts -> Nat]
    BY <1>8 DEF RestartService, EngineTypeOK
  <2>. QED
    BY <1>8, <2>1, <2>2 DEF RestartService, EngineTypeOK, hostRow, bounds, EngineSteps
<1>9. CASE WaitEnds(h)
  BY <1>9, DoneTypes DEF WaitEnds, EngineTypeOK, hostRow, world, window, bounds
<1>. QED
  BY <1>1, <1>2, <1>3, <1>4, <1>5, <1>6, <1>7, <1>8, <1>9 DEF TreatHost

\* The window of 30 minutes moves on.
LEMMA TimeTypes ==
    ASSUME EngineTypeOK, NEW h \in Hosts, TimePasses(h)
    PROVE  EngineTypeOK'
<1>1. CASE StartAges(h)
  <2>1. startEvents' \in [Hosts -> Nat] /\ startCalls' \in [Hosts -> Nat]
    BY <1>1 DEF StartAges, Ages, EngineTypeOK
  <2>. QED
    BY <1>1, <2>1 DEF StartAges, EngineTypeOK, hostRow, world, engine, bounds
<1>2. CASE RestartAges(h)
  <2>1. restartEvents' \in [Hosts -> Nat] /\ restartCalls' \in [Hosts -> Nat]
    BY <1>2 DEF RestartAges, Ages, EngineTypeOK
  <2>. QED
    BY <1>2, <2>1 DEF RestartAges, EngineTypeOK, hostRow, world, engine, bounds
<1>3. CASE FreshEnds(h)
  <2>1. fresh' \in [Hosts -> BOOLEAN]
    BY <1>3 DEF FreshEnds, EngineTypeOK
  <2>. QED
    BY <1>3, <2>1 DEF FreshEnds, EngineTypeOK, hostRow, world, engine, bounds
<1>. QED
  BY <1>1, <1>2, <1>3 DEF TimePasses

\* Orders of the operators keep the types.
LEMMA OperatorTypes ==
    ASSUME EngineTypeOK,
           \/ \E h \in Hosts : SetDesiredState(h)
           \/ \E o \in Operators, h \in Hosts : PowerOffCheck(o, h)
           \/ \E o \in Operators : PowerOff(o)
    PROVE  EngineTypeOK'
<1>1. ASSUME NEW h \in Hosts, SetDesiredState(h)  PROVE EngineTypeOK'
  <2>1. orders' \in 0..MaxOrders
    BY <1>1, RecoveryEngineAssumption
    DEF SetDesiredState, Ordered, EngineTypeOK, RecoveryEngineAssumption
  <2>2. /\ desired' \in [Hosts -> PowerState] /\ lateStarts' \in [Hosts -> Nat]
        /\ mode' \in [Hosts -> ManagementMode]
        /\ service' \in [Hosts -> ServiceState]
    BY <1>1 DEF SetDesiredState, EngineTypeOK
  <2>. QED
    BY <1>1, <2>1, <2>2 DEF SetDesiredState, EngineTypeOK, world, window, engine
<1>2. ASSUME NEW o \in Operators, NEW h \in Hosts, PowerOffCheck(o, h)  PROVE EngineTypeOK'
  BY <1>2 DEF PowerOffCheck, EngineTypeOK, hostRow, world, window, engine, bounds
<1>3. ASSUME NEW o \in Operators, PowerOff(o)  PROVE EngineTypeOK'
  <2>1. vmOn' \in [Hosts -> BOOLEAN] /\ serving' \in [Hosts -> BOOLEAN]
    BY <1>3 DEF PowerOff, EngineTypeOK, world
  <2>2. engineFaults' \in 0..MaxEngineFaults
    BY <1>3, RecoveryEngineAssumption DEF PowerOff, EngineTypeOK, RecoveryEngineAssumption
  <2>. QED
    BY <1>3, <2>1, <2>2 DEF PowerOff, EngineTypeOK, hostRow, window, engine
<1>. QED
  BY <1>1, <1>2, <1>3

\* Every step keeps the types.
LEMMA StepTypes ==
    ASSUME EngineTypeOK, [EngineNext]_engineVars
    PROVE  EngineTypeOK'
<1>1. CASE TickSync
  BY <1>1 DEF TickSync, EngineTypeOK, hostRow, world, window, bounds, EngineSteps
<1>2. CASE TickGivesUp
  <2>1. engineFaults' \in 0..MaxEngineFaults
    BY <1>2, RecoveryEngineAssumption DEF TickGivesUp, EngineTypeOK, RecoveryEngineAssumption
  <2>. QED
    BY <1>2, <2>1 DEF TickGivesUp, EngineTypeOK, hostRow, world, window, EngineSteps, ProbeState
<1>3. CASE TickSelect
  <2>1. snap' \in [Hosts -> HostRow]
    BY <1>3 DEF TickSelect, EngineTypeOK, HostRow
  <2>. QED
    BY <1>3, <2>1 DEF TickSelect, EngineTypeOK, hostRow, world, window, bounds, EngineSteps
<1>4. ASSUME NEW h \in Hosts, TreatHost(h)  PROVE EngineTypeOK'
  BY <1>4, TreatHostTypes
<1>5. CASE Crash
  <2>1. engineFaults' \in 0..MaxEngineFaults
    BY <1>5, RecoveryEngineAssumption DEF Crash, EngineTypeOK, RecoveryEngineAssumption
  <2>2. states' \in [Hosts -> ProbeState] /\ snap' \in [Hosts -> HostRow]
    BY <1>5 DEF Crash, ProbeState, HostRow, DefaultRow, PowerState, ManagementMode,
                ServiceState
  <2>. QED
    BY <1>5, <2>1, <2>2 DEF Crash, EngineTypeOK, hostRow, world, window, EngineSteps
<1>6. ASSUME NEW h \in Hosts, Outage(h) \/ ServiceUp(h)  PROVE EngineTypeOK'
  <2>1. vmOn' \in [Hosts -> BOOLEAN] /\ serving' \in [Hosts -> BOOLEAN]
    BY <1>6 DEF Outage, ServiceUp, EngineTypeOK
  <2>. QED
    BY <1>6, <2>1 DEF Outage, ServiceUp, EngineTypeOK, hostRow, window, engine, bounds
<1>7. CASE UNCHANGED engineVars
  BY <1>7 DEF engineVars, hostRow, world, window, engine, bounds, EngineTypeOK
<1>. QED
  BY <1>1, <1>2, <1>3, <1>4, <1>5, <1>6, <1>7, TimeTypes, OperatorTypes DEF EngineNext, RecoveryTick

\* Every variable keeps its type, whatever the engine, the operators and the
\* hosts do (tick, set_desired_state, power_off).
THEOREM EngineTypeCorrect == EngineSpec => []EngineTypeOK
<1>1. EngineInit => EngineTypeOK
  BY RecoveryEngineAssumption
  DEF EngineInit, EngineTypeOK, DefaultRow, HostRow, PowerState, ManagementMode, ServiceState,
      ProbeState, EngineSteps, RecoveryEngineAssumption
<1>. QED
  BY <1>1, StepTypes, PTL DEF EngineSpec

---------------------------------------------------------------------------

\* One host has its turn.
LEMMA OneIsNext ==
    ASSUME NEW g \in Hosts, NEW h \in Hosts, IsNext(g), IsNext(h)
    PROVE  g = h
  BY RecoveryEngineAssumption DEF IsNext, RecoveryEngineAssumption

\* A step that ends in neither of the two calls and leaves the window alone
\* keeps the counts.
LEMMA CountsKept ==
    ASSUME EngineTypeOK, StartsCounted, RestartsCounted, UNCHANGED window,
           enginePc' \notin {"start", "restart"} \/ UNCHANGED engine
    PROVE  StartsCounted' /\ RestartsCounted'
<1>1. ASSUME NEW h \in Hosts, NEW step \in {"start", "restart"}
      PROVE  About(h, step)' \in {0, About(h, step)} /\ About(h, step) \in {0, 1}
  BY DEF About, IsNext, engine
<1>. QED
  BY <1>1 DEF StartsCounted, RestartsCounted, window, EngineTypeOK

\* The branches of tick for one host keep the counts, when no audit row is lost.
LEMMA TreatHostCounts ==
    ASSUME ~AuditFails, EngineTypeOK, StartsCounted, RestartsCounted,
           NEW h \in Hosts, TreatHost(h)
    PROVE  StartsCounted' /\ RestartsCounted'
<1>1. CASE \/ LeaveAlone(h) \/ RecoverVmGivesUp(h) \/ CountFails(h)
           \/ RecoverServiceGivesUp(h) \/ WaitEnds(h)
  <2>1. Done(h) /\ UNCHANGED window
    BY <1>1 DEF LeaveAlone, RecoverVmGivesUp, CountFails, RecoverServiceGivesUp, WaitEnds
  <2>2. enginePc' \notin {"start", "restart"}
    BY <2>1 DEF Done
  <2>. QED
    BY <2>1, <2>2, CountsKept
<1>2. CASE AuditStart(h)
  <2>1. /\ enginePc = "host" /\ enginePc' = "start" /\ UNCHANGED todo /\ IsNext(h)
        /\ startEvents' = [startEvents EXCEPT ![h] = @ + 1]
        /\ startEvents[h] < VmStartMax
        /\ UNCHANGED <<startCalls, restartEvents, restartCalls>>
    BY <1>2, RecoveryEngineAssumption
    DEF AuditStart, NeedsStart, Audited, StartExhausted, EngineTypeOK, RecoveryEngineAssumption
  <2>2. ASSUME NEW g \in Hosts
        PROVE  /\ startCalls'[g] + About(g, "start")' <= startEvents'[g]
               /\ startEvents'[g] <= VmStartMax
    <3>1. CASE g = h
      BY <2>1, <3>1, RecoveryEngineAssumption
      DEF About, StartsCounted, EngineTypeOK, RecoveryEngineAssumption
    <3>2. CASE g # h
      <4>1. ~IsNext(g)
        BY <2>1, <3>2, OneIsNext
      <4>2. About(g, "start")' = 0 /\ About(g, "start") = 0
        BY <2>1, <4>1 DEF About, IsNext
      <4>. QED
        BY <2>1, <3>2, <4>2 DEF StartsCounted, EngineTypeOK
    <3>. QED
      BY <3>1, <3>2
  <2>3. RestartsCounted'
    BY <2>1 DEF RestartsCounted, About
  <2>. QED
    BY <2>2, <2>3 DEF StartsCounted
<1>3. CASE StartVm(h)
  <2>1. /\ enginePc = "start" /\ enginePc' = "waitvm" /\ IsNext(h)
        /\ startCalls' = [startCalls EXCEPT ![h] = @ + 1]
        /\ UNCHANGED <<startEvents, restartEvents, restartCalls>>
    BY <1>3 DEF StartVm
  <2>2. ASSUME NEW g \in Hosts
        PROVE  startCalls'[g] <= startCalls[g] + About(g, "start")
    BY <2>1 DEF About, EngineTypeOK
  <2>3. StartsCounted'
    BY <2>1, <2>2 DEF StartsCounted, About, EngineTypeOK
  <2>4. RestartsCounted'
    BY <2>1 DEF RestartsCounted, About
  <2>. QED
    BY <2>3, <2>4
<1>4. CASE AuditRestart(h)
  <2>1. /\ enginePc = "host" /\ enginePc' = "restart" /\ UNCHANGED todo /\ IsNext(h)
        /\ restartEvents' = [restartEvents EXCEPT ![h] = @ + 1]
        /\ restartEvents[h] < ServiceRestartMax
        /\ UNCHANGED <<restartCalls, startEvents, startCalls>>
    BY <1>4, RecoveryEngineAssumption
    DEF AuditRestart, NeedsRestart, Audited, RestartRefused, EngineTypeOK,
        RecoveryEngineAssumption
  <2>2. ASSUME NEW g \in Hosts
        PROVE  /\ restartCalls'[g] + About(g, "restart")' <= restartEvents'[g]
               /\ restartEvents'[g] <= ServiceRestartMax
    <3>1. CASE g = h
      BY <2>1, <3>1, RecoveryEngineAssumption
      DEF About, RestartsCounted, EngineTypeOK, RecoveryEngineAssumption
    <3>2. CASE g # h
      <4>1. ~IsNext(g)
        BY <2>1, <3>2, OneIsNext
      <4>2. About(g, "restart")' = 0 /\ About(g, "restart") = 0
        BY <2>1, <4>1 DEF About, IsNext
      <4>. QED
        BY <2>1, <3>2, <4>2 DEF RestartsCounted, EngineTypeOK
    <3>. QED
      BY <3>1, <3>2
  <2>3. StartsCounted'
    BY <2>1 DEF StartsCounted, About
  <2>. QED
    BY <2>2, <2>3 DEF RestartsCounted
<1>5. CASE RestartService(h)
  <2>1. /\ enginePc = "restart" /\ enginePc' = "waitservice" /\ IsNext(h)
        /\ restartCalls' = [restartCalls EXCEPT ![h] = @ + 1]
        /\ UNCHANGED <<restartEvents, startEvents, startCalls>>
    BY <1>5 DEF RestartService
  <2>2. ASSUME NEW g \in Hosts
        PROVE  restartCalls'[g] <= restartCalls[g] + About(g, "restart")
    BY <2>1 DEF About, EngineTypeOK
  <2>3. RestartsCounted'
    BY <2>1, <2>2 DEF RestartsCounted, About, EngineTypeOK
  <2>4. StartsCounted'
    BY <2>1 DEF StartsCounted, About
  <2>. QED
    BY <2>3, <2>4
<1>. QED
  BY <1>1, <1>2, <1>3, <1>4, <1>5 DEF TreatHost

\* The window of 30 minutes moves on: a row goes only with its call, or when
\* it has none.
LEMMA TimeCounts ==
    ASSUME EngineTypeOK, StartsCounted, RestartsCounted, NEW h \in Hosts, TimePasses(h)
    PROVE  StartsCounted' /\ RestartsCounted'
<1>1. CASE StartAges(h)
  <2>1. UNCHANGED <<enginePc, todo, restartEvents, restartCalls>>
    BY <1>1 DEF StartAges, engine
  <2>2. RestartsCounted'
    BY <2>1 DEF RestartsCounted, About, IsNext
  <2>3. \A g \in Hosts : About(g, "start")' = About(g, "start") /\ About(g, "start") \in {0, 1}
    BY <2>1 DEF About, IsNext
  <2>4. About(h, "start") = 0
    BY <1>1 DEF StartAges, About
  <2>5. Ages(startEvents, startCalls, h)
    BY <1>1 DEF StartAges
  <2>. QED
    BY <2>2, <2>3, <2>4, <2>5, RecoveryEngineAssumption
    DEF Ages, StartsCounted, EngineTypeOK, RecoveryEngineAssumption
<1>2. CASE RestartAges(h)
  <2>1. UNCHANGED <<enginePc, todo, startEvents, startCalls>>
    BY <1>2 DEF RestartAges, engine
  <2>2. StartsCounted'
    BY <2>1 DEF StartsCounted, About, IsNext
  <2>3. \A g \in Hosts : About(g, "restart")' = About(g, "restart") /\ About(g, "restart") \in {0, 1}
    BY <2>1 DEF About, IsNext
  <2>4. About(h, "restart") = 0
    BY <1>2 DEF RestartAges, About
  <2>5. Ages(restartEvents, restartCalls, h)
    BY <1>2 DEF RestartAges
  <2>. QED
    BY <2>2, <2>3, <2>4, <2>5, RecoveryEngineAssumption
    DEF Ages, RestartsCounted, EngineTypeOK, RecoveryEngineAssumption
<1>3. CASE FreshEnds(h)
  BY <1>3 DEF FreshEnds, StartsCounted, RestartsCounted, About, IsNext, engine
<1>. QED
  BY <1>1, <1>2, <1>3 DEF TimePasses

\* As long as no audit row is lost, the bounds on starts and restarts hold in
\* every 30 minutes, for any number of hosts and of restarts of the engine
\* (recover_vm_start, recover_service).
THEOREM EngineIsBounded ==
    ASSUME ~AuditFails
    PROVE  EngineSpec => []RecoveryIsBounded
<1>1. EngineInit => StartsCounted /\ RestartsCounted
  BY RecoveryEngineAssumption
  DEF EngineInit, StartsCounted, RestartsCounted, About, RecoveryEngineAssumption
<1>2. EngineTypeOK /\ StartsCounted /\ RestartsCounted /\ [EngineNext]_engineVars
        => StartsCounted' /\ RestartsCounted'
  <2>. SUFFICES ASSUME EngineTypeOK, StartsCounted, RestartsCounted, [EngineNext]_engineVars
                PROVE  StartsCounted' /\ RestartsCounted'
    OBVIOUS
  <2>1. CASE TickSync \/ TickGivesUp \/ TickSelect \/ Crash
    <3>1. UNCHANGED window /\ enginePc' \notin {"start", "restart"}
      BY <2>1 DEF TickSync, TickGivesUp, TickSelect, Crash
    <3>. QED
      BY <3>1, CountsKept
  <2>2. ASSUME NEW h \in Hosts, TreatHost(h)
        PROVE  StartsCounted' /\ RestartsCounted'
    BY <2>2, TreatHostCounts
  <2>3. CASE \/ \E h \in Hosts : SetDesiredState(h) \/ Outage(h) \/ ServiceUp(h)
             \/ \E o \in Operators, h \in Hosts : PowerOffCheck(o, h)
             \/ \E o \in Operators : PowerOff(o)
             \/ UNCHANGED engineVars
    <3>1. UNCHANGED <<window, engine>>
      BY <2>3 DEF SetDesiredState, Outage, ServiceUp, PowerOffCheck, PowerOff, engineVars
    <3>. QED
      BY <3>1, CountsKept
  <2>. QED
    BY <2>1, <2>2, <2>3, TimeCounts DEF EngineNext, RecoveryTick
<1>3. EngineTypeOK /\ StartsCounted /\ RestartsCounted => RecoveryIsBounded
  <2>. SUFFICES ASSUME EngineTypeOK, StartsCounted, RestartsCounted, NEW h \in Hosts
                PROVE  startCalls[h] <= VmStartMax /\ restartCalls[h] <= ServiceRestartMax
    BY DEF RecoveryIsBounded
  <2>1. About(h, "start") \in {0, 1} /\ About(h, "restart") \in {0, 1}
    BY DEF About
  <2>2. /\ startCalls[h] \in Nat /\ startEvents[h] \in Nat
        /\ restartCalls[h] \in Nat /\ restartEvents[h] \in Nat
    BY DEF EngineTypeOK
  <2>. QED
    BY <2>1, <2>2, RecoveryEngineAssumption
    DEF StartsCounted, RestartsCounted, RecoveryEngineAssumption
<1>. QED
  BY <1>1, <1>2, <1>3, EngineTypeCorrect, PTL DEF EngineSpec

---------------------------------------------------------------------------

\* The branches of tick for one host leave at most one start of a host that was
\* ordered off.
LEMMA TreatHostLate ==
    ASSUME EngineTypeOK, LateStartsCounted, NEW h \in Hosts, TreatHost(h)
    PROVE  LateStartsCounted'
<1>1. CASE \/ LeaveAlone(h) \/ RecoverVmGivesUp(h) \/ CountFails(h)
           \/ RecoverServiceGivesUp(h) \/ WaitEnds(h)
  <2>1. Done(h) /\ UNCHANGED <<desired, lateStarts>> /\ IsNext(h)
    BY <1>1 DEF LeaveAlone, RecoverVmGivesUp, CountFails, RecoverServiceGivesUp,
       WaitEnds, NeedsStart, NeedsRestart, hostRow
  <2>2. /\ todo' = todo \ {h} /\ enginePc' \in {"sleep", "host"}
        /\ enginePc' = "sleep" => todo' = {}
    BY <2>1 DEF Done
  <2>3. ASSUME NEW g \in Hosts  PROVE MayStart(g)' => MayStart(g)
    <3>1. SUFFICES ASSUME MayStart(g)'  PROVE MayStart(g)
      OBVIOUS
    <3>2. g \in todo /\ g # h
      BY <2>2, <3>1 DEF MayStart
    <3>3. snap'[g] = snap[g]
      BY <2>1, <3>2 DEF Done, EngineTypeOK
    <3>4. ~IsNext(g)
      BY <2>1, <3>2, OneIsNext
    <3>. QED
      BY <3>1, <3>2, <3>3, <3>4 DEF MayStart
  <2>. QED
    BY <2>1, <2>2, <2>3 DEF LateStartsCounted
<1>2. CASE AuditStart(h)
  <2>1. /\ enginePc = "host" /\ enginePc' = "start" /\ IsNext(h) /\ snap[h].desired = "RUNNING"
        /\ UNCHANGED <<desired, lateStarts, todo, snap>>
    BY <1>2 DEF AuditStart, NeedsStart, Managed, hostRow
  <2>2. \A g \in Hosts : IsNext(g)' => g = h
    BY <2>1, OneIsNext DEF IsNext
  <2>3. \A g \in Hosts : MayStart(g)' => MayStart(g)
    BY <2>1 DEF MayStart, IsNext
  <2>. QED
    BY <2>1, <2>2, <2>3 DEF LateStartsCounted
<1>3. CASE StartVm(h)
  <2>1. /\ enginePc = "start" /\ enginePc' = "waitvm" /\ IsNext(h)
        /\ UNCHANGED <<desired, todo, snap>>
        /\ \/ desired[h] = "RUNNING" /\ UNCHANGED lateStarts
           \/ /\ desired[h] = "STOPPED_INTENTIONAL"
              /\ lateStarts' = [lateStarts EXCEPT ![h] = @ + 1]
    BY <1>3 DEF StartVm
  <2>2. MayStart(h) /\ ~MayStart(h)'
    BY <2>1 DEF MayStart, IsNext, LateStartsCounted
  <2>3. lateStarts[h] = 0
    BY <2>2 DEF LateStartsCounted
  <2>4. ASSUME NEW g \in Hosts, g # h
        PROVE  lateStarts'[g] = lateStarts[g] /\ (MayStart(g)' => MayStart(g))
    <3>1. ~IsNext(g)
      BY <2>1, <2>4, OneIsNext
    <3>. QED
      BY <2>1, <2>4, <3>1 DEF MayStart, EngineTypeOK
  <2>5. lateStarts'[h] \in {0, 1} /\ (lateStarts'[h] = 1 => desired'[h] = "STOPPED_INTENTIONAL")
    BY <2>1, <2>3 DEF EngineTypeOK
  <2>. QED
    BY <2>1, <2>2, <2>4, <2>5 DEF LateStartsCounted
<1>4. CASE AuditRestart(h) \/ RestartService(h)
  <2>1. /\ IsNext(h) /\ enginePc \in {"host", "restart"} /\ enginePc' \in {"restart", "waitservice"}
        /\ UNCHANGED <<desired, lateStarts, todo, snap>>
    BY <1>4 DEF AuditRestart, NeedsRestart, RestartService, hostRow
  <2>2. \A g \in Hosts : MayStart(g)' => MayStart(g)
    BY <2>1 DEF MayStart, IsNext
  <2>. QED
    BY <2>1, <2>2 DEF LateStartsCounted
<1>. QED
  BY <1>1, <1>2, <1>3, <1>4 DEF TreatHost

\* A host ordered off is started at most once more before another order, for any
\* number of hosts, orders and restarts of the engine: the tick that read the row
\* before the order has one start left, and every later tick reads the order.
THEOREM EngineStartsLateOnce == EngineSpec => []OneLateStart
<1>1. EngineInit => LateStartsCounted
  <2>1. EngineInit => enginePc = "sleep" /\ todo = {} /\ \A h \in Hosts : lateStarts[h] = 0
    BY DEF EngineInit
  <2>. QED
    BY <2>1 DEF LateStartsCounted
<1>2. EngineTypeOK /\ LateStartsCounted /\ [EngineNext]_engineVars => LateStartsCounted'
  <2>. SUFFICES ASSUME EngineTypeOK, LateStartsCounted, [EngineNext]_engineVars
                PROVE  LateStartsCounted'
    OBVIOUS
  <2>1. CASE TickSync \/ TickGivesUp \/ Crash
    <3>1. /\ UNCHANGED <<desired, lateStarts>> /\ enginePc' \in {"sleep", "select"}
          /\ \A h \in Hosts : h \notin todo'
      BY <2>1 DEF TickSync, TickGivesUp, Crash, hostRow, LateStartsCounted
    <3>2. \A h \in Hosts : ~MayStart(h)'
      BY <3>1 DEF MayStart
    <3>. QED
      BY <3>1, <3>2 DEF LateStartsCounted
  <2>2. CASE TickSelect
    <3>1. /\ UNCHANGED <<desired, lateStarts>> /\ enginePc' = "host"
          /\ \A h \in Hosts : snap'[h].desired = desired[h]
      BY <2>2 DEF TickSelect, hostRow
    <3>2. \A h \in Hosts : MayStart(h)' => desired[h] = "RUNNING"
      BY <3>1 DEF MayStart
    <3>. QED
      BY <3>1, <3>2 DEF LateStartsCounted
  <2>3. ASSUME NEW h \in Hosts, SetDesiredState(h)  PROVE LateStartsCounted'
    <3>1. UNCHANGED <<enginePc, todo, snap>>
      BY <2>3 DEF SetDesiredState, engine
    <3>2. \A g \in Hosts : \/ lateStarts'[g] = 0
                           \/ desired'[g] = desired[g] /\ lateStarts'[g] = lateStarts[g]
      BY <2>3 DEF SetDesiredState, EngineTypeOK
    <3>. QED
      BY <3>1, <3>2 DEF LateStartsCounted, MayStart, IsNext
  <2>4. CASE \/ \E h \in Hosts : Outage(h) \/ ServiceUp(h) \/ TimePasses(h)
             \/ \E o \in Operators, h \in Hosts : PowerOffCheck(o, h)
             \/ \E o \in Operators : PowerOff(o)
             \/ UNCHANGED engineVars
    <3>1. UNCHANGED <<desired, lateStarts, enginePc, todo, snap>>
      BY <2>4 DEF Outage, ServiceUp, TimePasses, StartAges, RestartAges, FreshEnds,
         PowerOffCheck, PowerOff, engineVars, hostRow, engine
    <3>. QED
      BY <3>1 DEF LateStartsCounted, MayStart, IsNext
  <2>. QED
    BY <2>1, <2>2, <2>3, <2>4, TreatHostLate DEF EngineNext, RecoveryTick
<1>3. LateStartsCounted => OneLateStart
  <2>1. LateStartsCounted => \A h \in Hosts : lateStarts[h] \in {0, 1}
    BY DEF LateStartsCounted
  <2>2. ASSUME \A h \in Hosts : lateStarts[h] \in {0, 1}  PROVE OneLateStart
    <3>1. \A n \in {0, 1} : n <= 1
      OBVIOUS
    <3>. QED
      BY <2>2, <3>1, Zenon DEF OneLateStart
  <2>. QED
    BY <2>1, <2>2
<1>. QED
  BY <1>1, <1>2, <1>3, EngineTypeCorrect, PTL DEF EngineSpec

---------------------------------------------------------------------------
(* ModelRegistry *)

\* A set of host_id's has a first one.
LEMMA FirstHost == ASSUME NEW S \in SUBSET Backends, S # {} PROVE Min(S) \in Backends
<1> DEFINE Less == OpToRel(<, Nat)
<1>1. PICK x \in S : \A z \in S : <<z, x>> \notin Less
  <2>1. S \subseteq Nat /\ IsWellFoundedOn(Less, Nat)
    BY RegistryAssumption, NatLessThanWellFounded DEF Less
  <2>. HIDE DEF Less
  <2>. QED
    BY <2>1, WFMin
<1>2. ASSUME NEW z \in S  PROVE x <= z
  <2>1. x \in Nat /\ z \in Nat /\ ~(z < x)
    BY <1>1, RegistryAssumption DEF OpToRel
  <2>. QED
    BY <2>1
<1>3. Min(S) \in S
  BY <1>2 DEF Min
<1>. QED
  BY <1>3

SyncPc == {"idle", "probe", "flags", "write", "aliases", "target", "insert"}
Sync == [pc : SyncPc, host : Backends, models : SUBSET Models, on : BOOLEAN]

\* A step of one sync keeps the types of the table of syncs.
LEMMA SyncTypes ==
    ASSUME RegistryTypeOK, NEW s \in Syncers
    PROVE  /\ sync \in [Syncers -> Sync] /\ NoSync \in Sync
           /\ \A p \in SyncPc : Go(s, p) => sync' \in [Syncers -> Sync]
           /\ NextHost(s) => sync' \in [Syncers -> Sync]
<1>1. sync \in [Syncers -> Sync]
  BY DEF RegistryTypeOK, Sync, SyncPc
<1>2. Min(Backends) \in Backends
  BY FirstHost, RegistryAssumption
<1>3. NoSync \in Sync
  BY <1>2 DEF NoSync, Sync, SyncPc
<1>4. ASSUME NEW p \in SyncPc, Go(s, p)  PROVE sync' \in [Syncers -> Sync]
  BY <1>1, <1>4 DEF Go, Sync
<1>5. ASSUME NextHost(s)  PROVE sync' \in [Syncers -> Sync]
  <2> DEFINE rest == {h \in Backends : h > sync[s].host}
  <2>1. sync' = [sync EXCEPT ![s] =
                   IF rest = {} THEN [NoSync EXCEPT !.pc = "aliases"]
                   ELSE [NoSync EXCEPT !.pc = "probe", !.host = Min(rest)]]
    BY <1>5 DEF NextHost
  <2>2. rest # {} => Min(rest) \in Backends
    BY FirstHost
  <2>3. [NoSync EXCEPT !.pc = "aliases"] \in Sync
    BY <1>3 DEF Sync, SyncPc
  <2>4. ASSUME rest # {}
        PROVE  [NoSync EXCEPT !.pc = "probe", !.host = Min(rest)] \in Sync
    BY <1>3, <2>2, <2>4 DEF Sync, SyncPc
  <2>. HIDE DEF rest
  <2>. QED
    BY <1>1, <2>1, <2>3, <2>4
<1>. QED
  BY <1>1, <1>3, <1>4, <1>5

\* The steps of a sync keep the types.
LEMMA SyncStepTypes ==
    ASSUME RegistryTypeOK, NEW s \in Syncers, SyncStep(s) \/ SyncAborts(s)
    PROVE  RegistryTypeOK'
<1>0. sync \in [Syncers -> Sync] /\ NoSync \in Sync /\ sync[s] \in Sync
  BY SyncTypes
<1> SUFFICES /\ sync' \in [Syncers -> Sync] /\ UNCHANGED <<hostRows, lite, config, changes>>
             /\ reg' \in [Backends -> [Models -> {"absent", "off", "on"}]]
             /\ alias' \in [BOOLEAN -> Nat] /\ aborts' \in 0..MaxAborts
  BY DEF RegistryTypeOK, hostRows, Sync, SyncPc
<1> USE DEF RegistryTypeOK
<1>1. CASE ProbeHost(s)
  <2>1. /\ sync' = [sync EXCEPT ![s].pc = "flags", ![s].models = served[sync[s].host],
                       ![s].on = served[sync[s].host] # {} /\ healthy[sync[s].host]]
        /\ UNCHANGED <<hostRows, reg, alias, lite, config, changes, aborts>>
    BY <1>1 DEF ProbeHost
  <2>2. sync[s].host \in Backends
    BY <1>0 DEF Sync
  <2>3. served[sync[s].host] \in SUBSET Models
    BY <2>2
  <2>4. sync' \in [Syncers -> Sync]
    BY <1>0, <2>1, <2>3 DEF Sync, SyncPc
  <2>. QED
    BY <2>1, <2>4
<1>2. CASE ReadFlags(s)
  <2>1. /\ sync' = [sync EXCEPT ![s].pc = "write",
                       ![s].on = @ /\ wanted[sync[s].host] = "RUNNING" /\ managed[sync[s].host]]
        /\ UNCHANGED <<hostRows, reg, alias, lite, config, changes, aborts>>
    BY <1>2 DEF ReadFlags
  <2>2. sync' \in [Syncers -> Sync]
    BY <1>0, <2>1 DEF Sync, SyncPc
  <2>. QED
    BY <2>1, <2>2
<1>3. ASSUME NEW m \in Models, UpsertModel(s, m)
      PROVE  /\ sync' \in [Syncers -> Sync] /\ UNCHANGED <<hostRows, lite, config, changes>>
             /\ reg' \in [Backends -> [Models -> {"absent", "off", "on"}]]
             /\ alias' \in [BOOLEAN -> Nat] /\ aborts' \in 0..MaxAborts
  <2>1. sync[s].host \in Backends
    BY <1>0 DEF Sync
  <2>2. reg' \in [Backends -> [Models -> {"absent", "off", "on"}]]
    BY <1>3, <2>1 DEF UpsertModel
  <2>3. CASE sync[s].models = {m}
    BY <1>3, <2>2, <2>3, SyncTypes DEF UpsertModel
  <2>4. CASE sync[s].models # {m}
    <3>1. sync' = [sync EXCEPT ![s].models = @ \ {m}]
      BY <1>3, <2>4 DEF UpsertModel
    <3>2. sync' \in [Syncers -> Sync]
      BY <1>0, <3>1 DEF Sync
    <3>. QED
      BY <1>3, <2>2, <3>2 DEF UpsertModel
  <2>. QED
    BY <2>3, <2>4
<1>4. CASE MarkUnroutable(s)
  <2>1. sync[s].host \in Backends
    BY <1>0 DEF Sync
  <2>2. reg' \in [Backends -> [Models -> {"absent", "off", "on"}]]
    BY <1>4, <2>1 DEF MarkUnroutable
  <2>. QED
    BY <1>4, <2>2, SyncTypes DEF MarkUnroutable
<1>5. CASE DeleteAliases(s)
  <2>1. sync' \in [Syncers -> Sync]
    BY <1>5, SyncTypes DEF DeleteAliases, SyncPc
  <2>. QED
    BY <1>5, <2>1 DEF DeleteAliases
<1>6. CASE ReadTarget(s)
  <2> DEFINE on == Target \in RoutableNames
  <2>1. sync' = [sync EXCEPT ![s].pc = "insert", ![s].on = on]
    BY <1>6, Zenon DEF ReadTarget
  <2>2. on \in BOOLEAN
    BY DEF on, RoutableNames
  <2> HIDE DEF on
  <2>3. sync' \in [Syncers -> Sync]
    BY <1>0, <2>1, <2>2 DEF Sync, SyncPc
  <2>. QED
    BY <1>6, <2>3 DEF ReadTarget
<1>7. CASE InsertAlias(s)
  <2>1. sync' \in [Syncers -> Sync]
    BY <1>0, <1>7 DEF InsertAlias
  <2>2. alias' \in [BOOLEAN -> Nat]
    BY <1>7 DEF InsertAlias
  <2>. QED
    BY <1>7, <2>1, <2>2 DEF InsertAlias
<1>8. CASE SyncAborts(s)
  <2>1. sync' \in [Syncers -> Sync]
    BY <1>0, <1>8 DEF SyncAborts
  <2>2. aborts' \in 0..MaxAborts
    BY <1>8, RegistryAssumption DEF SyncAborts
  <2>. QED
    BY <1>8, <2>1, <2>2 DEF SyncAborts
<1>. QED
  BY <1>1, <1>2, <1>3, <1>4, <1>5, <1>6, <1>7, <1>8 DEF SyncStep

\* The two counts of the alias' rows.
LEMMA AliasParts ==
    ASSUME RegistryTypeOK
    PROVE  alias[TRUE] \in Nat /\ alias[FALSE] \in Nat
<1>1. alias \in [BOOLEAN -> Nat]
  BY DEF RegistryTypeOK
<1>. QED
  BY <1>1, Zenon

\* litellm_sync keeps the types.
LEMMA LiteTypes ==
    ASSUME RegistryTypeOK, LiteLlmSync
    PROVE  RegistryTypeOK'
<1> USE DEF RegistryTypeOK, hostRows
<1>1. RoutableRows \in SUBSET Entries
  BY DEF RoutableRows
<1>2. CASE LiteEntries
  BY <1>1, <1>2 DEF LiteEntries
<1>3. CASE LiteAliases
  <2> DEFINE listed == alias[TRUE] > 0
  <2>1. /\ lite' = [lite EXCEPT !.pc = "targets", !.alias = listed]
        /\ UNCHANGED <<hostRows, reg, alias, sync, config, changes, aborts>>
    BY <1>3, Zenon DEF LiteAliases
  <2>2. listed \in BOOLEAN
    BY AliasParts
  <2>. HIDE DEF listed
  <2>. QED
    BY <2>1, <2>2
<1>4. CASE LiteWrite
  <2> DEFINE backends == {h \in Backends : <<Target, h>> \in RoutableRows}
             A == IF lite.alias /\ backends # {} THEN {Min(backends)} ELSE {}
  <2>1. /\ config' = [entries |-> lite.entries, alias |-> A]
        /\ lite' = [pc |-> "idle", entries |-> {}, alias |-> FALSE]
        /\ UNCHANGED <<hostRows, reg, alias, sync, changes, aborts>>
    BY <1>4 DEF LiteWrite
  <2>2. A \in SUBSET Backends
    BY FirstHost
  <2>. HIDE DEF A
  <2>. QED
    BY <2>1, <2>2
<1>. QED
  BY <1>2, <1>3, <1>4 DEF LiteLlmSync

\* Orders and changes of the backends keep the types.
LEMMA ChangeTypes ==
    ASSUME RegistryTypeOK,
           \/ EngineTick
           \/ \E w \in Workers : PromotionSync(w)
           \/ \E w \in Workers, h \in Backends :
                \/ \E d \in {"RUNNING", "STOPPED_INTENTIONAL"} : SetDesired(w, h, d)
                \/ \E b \in BOOLEAN : SetManaged(w, h, b)
           \/ \E h \in Backends, M \in SUBSET Models, ok \in BOOLEAN : BackendChanges(h, M, ok)
    PROVE  RegistryTypeOK'
<1>0. Change => changes' \in 0..MaxChanges
  BY RegistryAssumption DEF Change, RegistryTypeOK
<1>1. ASSUME NEW s \in Syncers, Go(s, "probe") \/ UNCHANGED sync
      PROVE  sync' \in [Syncers -> Sync]
  BY <1>1, SyncTypes DEF SyncPc
<1> SUFFICES /\ sync' \in [Syncers -> Sync] /\ UNCHANGED <<reg, alias, lite, config, aborts>>
             /\ wanted' \in [Backends -> {"RUNNING", "STOPPED_INTENTIONAL"}]
             /\ managed' \in [Backends -> BOOLEAN] /\ healthy' \in [Backends -> BOOLEAN]
             /\ served' \in [Backends -> SUBSET Models]
             /\ changes' \in 0..MaxChanges
  BY DEF RegistryTypeOK, Sync, SyncPc
<1> USE DEF RegistryTypeOK, hostRows
<1>2. CASE EngineTick
  <2>1. Engine \in Syncers
    BY DEF Syncers
  <2>. QED
    BY <1>1, <1>2, <2>1 DEF EngineTick
<1>3. ASSUME NEW w \in Workers, PromotionSync(w)
      PROVE  /\ sync' \in [Syncers -> Sync] /\ changes' \in 0..MaxChanges
             /\ UNCHANGED <<hostRows, reg, alias, lite, config, aborts>>
  <2>1. w \in Syncers
    BY DEF Syncers
  <2>. QED
    BY <1>0, <1>1, <1>3, <2>1 DEF PromotionSync
<1>4. ASSUME NEW w \in Workers, NEW h \in Backends,
             NEW d \in {"RUNNING", "STOPPED_INTENTIONAL"}, SetDesired(w, h, d)
      PROVE  /\ sync' \in [Syncers -> Sync] /\ changes' \in 0..MaxChanges
             /\ wanted' \in [Backends -> {"RUNNING", "STOPPED_INTENTIONAL"}]
             /\ UNCHANGED <<managed, healthy, served, reg, alias, lite, config, aborts>>
  <2>1. w \in Syncers
    BY DEF Syncers
  <2>2. sync' \in [Syncers -> Sync]
    BY <1>1, <1>4, <2>1 DEF SetDesired
  <2>. QED
    BY <1>0, <1>4, <2>2 DEF SetDesired
<1>5. ASSUME NEW w \in Workers, NEW h \in Backends, NEW b \in BOOLEAN, SetManaged(w, h, b)
      PROVE  /\ sync' \in [Syncers -> Sync] /\ changes' \in 0..MaxChanges
             /\ managed' \in [Backends -> BOOLEAN]
             /\ UNCHANGED <<wanted, healthy, served, reg, alias, lite, config, aborts>>
  <2>1. sync' \in [Syncers -> Sync]
    BY <1>5 DEF SetManaged, Sync, SyncPc
  <2>. QED
    BY <1>0, <1>5, <2>1 DEF SetManaged
<1>6. ASSUME NEW h \in Backends, NEW M \in SUBSET Models, NEW ok \in BOOLEAN,
             BackendChanges(h, M, ok)
      PROVE  /\ sync' \in [Syncers -> Sync] /\ changes' \in 0..MaxChanges
             /\ served' \in [Backends -> SUBSET Models] /\ healthy' \in [Backends -> BOOLEAN]
             /\ UNCHANGED <<wanted, managed, reg, alias, lite, config, aborts>>
  <2>1. sync' \in [Syncers -> Sync]
    BY <1>6 DEF BackendChanges, Sync, SyncPc
  <2>. QED
    BY <1>0, <1>6, <2>1 DEF BackendChanges
<1>7. CASE \E w \in Workers : PromotionSync(w)
  BY <1>3, <1>7
<1>8. CASE \E w \in Workers, h \in Backends, d \in {"RUNNING", "STOPPED_INTENTIONAL"} :
             SetDesired(w, h, d)
  BY <1>4, <1>8
<1>9. CASE \E w \in Workers, h \in Backends, b \in BOOLEAN : SetManaged(w, h, b)
  BY <1>5, <1>9
<1>10. CASE \E h \in Backends, M \in SUBSET Models, ok \in BOOLEAN : BackendChanges(h, M, ok)
  <2>1. PICK h \in Backends, M \in SUBSET Models, ok \in BOOLEAN : BackendChanges(h, M, ok)
    BY <1>10
  <2>2. /\ sync' \in [Syncers -> Sync] /\ changes' \in 0..MaxChanges
        /\ served' \in [Backends -> SUBSET Models] /\ healthy' \in [Backends -> BOOLEAN]
        /\ UNCHANGED <<wanted, managed, reg, alias, lite, config, aborts>>
    BY <1>6, <2>1, Zenon
  <2>. QED
    BY <2>2
<1>. QED
  BY <1>2, <1>7, <1>8, <1>9, <1>10, Zenon

\* Rows, syncs and the configuration keep their types, however the syncs of the engine
\* and of the web workers overlap (sync_registry, litellm_sync).
THEOREM RegistryTypeCorrect == RegistrySpec => []RegistryTypeOK
<1>1. RegistryInit => RegistryTypeOK
  <2>. SUFFICES ASSUME RegistryInit  PROVE RegistryTypeOK
    OBVIOUS
  <2>1. Min(Backends) \in Backends
    BY FirstHost, RegistryAssumption
  <2>2. served \in [Backends -> SUBSET Models]
    BY RegistryAssumption DEF RegistryInit
  <2>3. sync \in [Syncers -> [pc : {"idle", "probe", "flags", "write", "aliases",
                                    "target", "insert"},
                              host : Backends, models : SUBSET Models, on : BOOLEAN]]
    BY <2>1 DEF RegistryInit, NoSync
  <2>. QED
    BY <2>2, <2>3, RegistryAssumption DEF RegistryInit, RegistryTypeOK
<1>2. RegistryTypeOK /\ [RegistryNext]_registryVars => RegistryTypeOK'
  <2>. SUFFICES ASSUME RegistryTypeOK, [RegistryNext]_registryVars  PROVE RegistryTypeOK'
    OBVIOUS
  <2>1. CASE UNCHANGED registryVars
    BY <2>1 DEF registryVars, hostRows, RegistryTypeOK
  <2>. QED
    BY <2>1, SyncStepTypes, LiteTypes, ChangeTypes DEF RegistryNext
<1>. QED
  BY <1>1, <1>2, PTL DEF RegistrySpec

---------------------------------------------------------------------------

\* What makes AliasRowsBounded inductive: a sync that has deleted the alias' rows may
\* insert one, so there is never more than one for each of the others.
Quiet == {s \in Syncers : sync[s].pc \notin {"target", "insert"}}
Rows == alias[TRUE] + alias[FALSE]
AliasInv == Rows <= Cardinality(Quiet)

\* The sum of two counts.
LEMMA TwoCounts ==
    ASSUME NEW a \in Nat, NEW b \in Nat
    PROVE  a + b \in Nat /\ (a + 1) + b = (a + b) + 1 /\ a + (b + 1) = (a + b) + 1
OBVIOUS

LEMMA RowsCount == ASSUME RegistryTypeOK PROVE Rows \in Nat
  BY AliasParts, TwoCounts, Zenon DEF Rows

LEMMA QuietFinite ==
    /\ IsFiniteSet(Syncers) /\ IsFiniteSet(Quiet) /\ IsFiniteSet(Quiet')
    /\ Cardinality(Quiet) \in Nat /\ Cardinality(Quiet) <= Cardinality(Syncers)
    /\ Cardinality(Quiet') \in Nat
<1>1. IsFiniteSet(Syncers)
  <2>1. IsFiniteSet({Engine}) /\ IsFiniteSet(Workers)
    BY FS_Singleton, RegistryAssumption
  <2>. QED
    BY <2>1, FS_Union DEF Syncers
<1>2. Quiet \in SUBSET Syncers /\ Quiet' \in SUBSET Syncers
  BY DEF Quiet
<1>3. /\ IsFiniteSet(Quiet) /\ IsFiniteSet(Quiet')
      /\ Cardinality(Quiet) <= Cardinality(Syncers)
  BY <1>1, <1>2, FS_Subset
<1>. QED
  BY <1>1, <1>3, FS_CardinalityType

\* A sync that ends, or goes on outside of the alias part, does no harm.
LEMMA QuietGrows ==
    ASSUME RegistryTypeOK, AliasInv, UNCHANGED alias, Quiet \subseteq Quiet'
    PROVE  AliasInv'
<1>1. Cardinality(Quiet) <= Cardinality(Quiet')
  BY QuietFinite, FS_Subset
<1>2. Rows \in Nat /\ Rows' = Rows
  BY RowsCount DEF Rows
<1>. QED
  BY <1>1, <1>2, QuietFinite DEF AliasInv

LEMMA NextHostQuiet ==
    ASSUME RegistryTypeOK, NEW s \in Syncers, NextHost(s)
    PROVE  Quiet \subseteq Quiet'
<1>1. \A r \in Syncers \ {s} : sync'[r] = sync[r]
  BY DEF NextHost, RegistryTypeOK
<1>2. sync'[s].pc \in {"aliases", "probe"}
  <2>1. \/ sync'[s] = [NoSync EXCEPT !.pc = "aliases"]
        \/ \E h : sync'[s] = [NoSync EXCEPT !.pc = "probe", !.host = h]
    BY DEF NextHost, RegistryTypeOK
  <2>. QED
    BY <2>1 DEF NoSync
<1>. QED
  BY <1>1, <1>2 DEF Quiet

\* The rows of the alias never pile up: at most one for each process that syncs, for
\* any number of processes, hosts, orders and syncs that overlap or are cut short
\* (orm_delete_aliases, and the INSERT that no constraint stops).
THEOREM AliasRowsStayFew == RegistrySpec => []AliasRowsBounded
<1>1. RegistryInit => AliasInv
  BY QuietFinite DEF RegistryInit, AliasInv, Rows
<1>2. RegistryTypeOK /\ AliasInv /\ [RegistryNext]_registryVars => AliasInv'
  <2>. SUFFICES ASSUME RegistryTypeOK, AliasInv, [RegistryNext]_registryVars
                PROVE  AliasInv'
    OBVIOUS
  <2>0. alias[TRUE] \in Nat /\ alias[FALSE] \in Nat
    BY AliasParts
  <2>1. ASSUME NEW s \in Syncers, DeleteAliases(s)  PROVE AliasInv'
    <3>1. alias'[TRUE] = 0 /\ alias'[FALSE] = 0
      BY <2>1 DEF DeleteAliases
    <3>2. Rows' = 0
      BY <3>1 DEF Rows
    <3>. QED
      BY <3>2, QuietFinite DEF AliasInv
  <2>2. ASSUME NEW s \in Syncers, InsertAlias(s)  PROVE AliasInv'
    <3>1. /\ sync[s].pc = "insert" /\ sync[s].on \in BOOLEAN
          /\ sync'[s].pc = "idle" /\ \A r \in Syncers \ {s} : sync'[r] = sync[r]
      BY <2>2 DEF InsertAlias, NoSync, RegistryTypeOK
    <3>2. Quiet' = Quiet \cup {s} /\ s \notin Quiet
      BY <3>1 DEF Quiet
    <3>3. Cardinality(Quiet') = Cardinality(Quiet) + 1
      BY <3>2, QuietFinite, FS_AddElement
    <3>4. alias' = [alias EXCEPT ![sync[s].on] = @ + 1]
      BY <2>2 DEF InsertAlias
    <3>5. Rows' = Rows + 1
      <4>0. alias \in [BOOLEAN -> Nat]
        BY DEF RegistryTypeOK
      <4>1. CASE sync[s].on = TRUE
        <5>1. alias'[TRUE] = alias[TRUE] + 1 /\ alias'[FALSE] = alias[FALSE]
          BY <3>4, <4>0, <4>1, Zenon
        <5>. QED
          BY <2>0, <5>1, TwoCounts, Zenon DEF Rows
      <4>2. CASE sync[s].on = FALSE
        <5>1. alias'[TRUE] = alias[TRUE] /\ alias'[FALSE] = alias[FALSE] + 1
          BY <3>4, <4>0, <4>2, Zenon
        <5>. QED
          BY <2>0, <5>1, TwoCounts, Zenon DEF Rows
      <4>. QED
        BY <3>1, <4>1, <4>2
    <3>. QED
      BY RowsCount, <3>3, <3>5, QuietFinite DEF AliasInv
  <2>3. ASSUME NEW s \in Syncers,
               \/ ProbeHost(s) \/ ReadFlags(s) \/ \E m \in Models : UpsertModel(s, m)
               \/ MarkUnroutable(s) \/ ReadTarget(s) \/ SyncAborts(s)
        PROVE  AliasInv'
    <3>1. UNCHANGED alias
      BY <2>3 DEF ProbeHost, ReadFlags, UpsertModel, MarkUnroutable, ReadTarget, SyncAborts
    <3>2. CASE ProbeHost(s) \/ ReadFlags(s) \/ ReadTarget(s) \/ SyncAborts(s)
      <4>1. /\ \A r \in Syncers \ {s} : sync'[r] = sync[r]
            /\ sync'[s].pc \notin {"target", "insert"} \/ s \notin Quiet
        BY <3>2 DEF ProbeHost, ReadFlags, ReadTarget, SyncAborts, NoSync, Quiet, RegistryTypeOK
      <4>2. Quiet \subseteq Quiet'
        BY <4>1 DEF Quiet
      <4>. QED
        BY <3>1, <4>2, QuietGrows
    <3>3. CASE MarkUnroutable(s) \/ \E m \in Models : UpsertModel(s, m)
      <4>1. CASE NextHost(s)
        BY <3>1, <4>1, NextHostQuiet, QuietGrows
      <4>2. CASE \E m : sync' = [sync EXCEPT ![s].models = @ \ {m}]
        <5>1. \A r \in Syncers : sync'[r].pc = sync[r].pc
          BY <4>2 DEF RegistryTypeOK
        <5>2. Quiet \subseteq Quiet'
          BY <5>1 DEF Quiet
        <5>. QED
          BY <3>1, <5>2, QuietGrows
      <4>. QED
        BY <3>3, <4>1, <4>2 DEF MarkUnroutable, UpsertModel
    <3>. QED
      BY <2>3, <3>2, <3>3
  <2>4. ASSUME NEW s \in Syncers, sync[s].pc = "idle", Go(s, "probe"), UNCHANGED alias
        PROVE  AliasInv'
    <3>1. \A r \in Syncers : sync'[r].pc = IF r = s THEN "probe" ELSE sync[r].pc
      BY <2>4 DEF Go, RegistryTypeOK
    <3>2. Quiet \subseteq Quiet'
      BY <3>1 DEF Quiet
    <3>. QED
      BY <2>4, <3>2, QuietGrows
  <2>5. CASE UNCHANGED <<sync, alias>>
    BY <2>5 DEF AliasInv, Quiet, Rows
  <2>6. CASE EngineTick \/ \E w \in Workers : PromotionSync(w)
    BY <2>4, <2>6 DEF EngineTick, PromotionSync, Syncers
  <2>7. ASSUME NEW w \in Workers, NEW h \in Backends,
               NEW d \in {"RUNNING", "STOPPED_INTENTIONAL"}, SetDesired(w, h, d)
        PROVE  AliasInv'
    <3>1. UNCHANGED alias /\ sync[w].pc = "idle" /\ (Go(w, "probe") \/ UNCHANGED sync)
      BY <2>7 DEF SetDesired
    <3>. QED
      BY <2>4, <2>5, <3>1 DEF Syncers
  <2>8. CASE \/ LiteLlmSync \/ UNCHANGED registryVars
             \/ \E w \in Workers, h \in Backends, b \in BOOLEAN : SetManaged(w, h, b)
             \/ \E h \in Backends, M \in SUBSET Models, ok \in BOOLEAN : BackendChanges(h, M, ok)
    BY <2>5, <2>8 DEF LiteLlmSync, LiteEntries, LiteAliases, LiteWrite, registryVars,
       SetManaged, BackendChanges
  <2>. QED
    BY <2>1, <2>2, <2>3, <2>6, <2>7, <2>8 DEF RegistryNext, SyncStep
<1>3. RegistryTypeOK /\ AliasInv => AliasRowsBounded
  <2>1. RegistryTypeOK => Rows \in Nat
    BY RowsCount
  <2>0. AliasRowsBounded <=> Rows <= Cardinality(Syncers)
    BY Zenon DEF AliasRowsBounded, Rows
  <2>2. IsFiniteSet(Syncers) /\ Cardinality(Syncers) \in Nat
    BY QuietFinite, FS_CardinalityType
  <2>. QED
    BY <2>0, <2>1, <2>2, QuietFinite DEF AliasInv
<1>. QED
  BY <1>1, <1>2, <1>3, RegistryTypeCorrect, PTL DEF RegistrySpec
=============================================================================
