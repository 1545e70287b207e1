--------------------------- MODULE MCConvergence ---------------------------
(***************************************************************************)
(* The two loops that bring a system to its desired state, model-checked   *)
(* side by side for liveness: a behaviour is one of the part it began      *)
(* with, and the variables of the other keep their first values.           *)
(*                                                                         *)
(*   "visits"  Reconciler with the constants of the configuration          *)
(*   "engine"  RecoveryEngine with two hosts and no operators              *)
(***************************************************************************)
EXTENDS Reconciler

VARIABLES
    part,
    \* RecoveryEngine; its desired is power
    power, mode, service, lateStarts, vmOn, serving, startEvents, restartEvents, fresh,
    startCalls, restartCalls, enginePc, todo, states, snap, powerOff, engineFaults, orders

Engine == INSTANCE RecoveryEngine WITH
    Hosts <- {1, 2}, Operators <- {}, VmStartMax <- 1, ServiceRestartMax <- 1,
    AuditFails <- FALSE, MaxEngineFaults <- 1, MaxOrders <- 0, NoHost <- NULL,
    desired <- power

engineVars == <<power, mode, service, lateStarts, vmOn, serving, startEvents,
                restartEvents, fresh, startCalls, restartCalls, enginePc, todo, states,
                snap, powerOff, engineFaults, orders>>
allVars == <<part, vars, engineVars>>

PartInit ==
    /\ part \in {"visits", "engine"}
    /\ Init /\ Engine!EngineInit

PartNext ==
    /\ UNCHANGED part
    /\ \/ part = "visits" /\ Next /\ UNCHANGED engineVars
       \/ part = "engine" /\ Engine!EngineNext /\ UNCHANGED vars

\* The fairness of each part, while it is the one that runs.
PartSpec ==
    /\ PartInit /\ [][PartNext]_allVars
    /\ \A p \in Visits : WF_vars(part = "visits" /\ VisitStep(p))
    /\ WF_engineVars(part = "engine" /\ Engine!RecoveryTick)
    /\ \A h \in {1, 2} : WF_engineVars(part = "engine" /\ Engine!StartAges(h))

---------------------------------------------------------------------------
(* The properties of the parts *)

\* reconcile_runtime: a row that is visited again and again and stays DESIRED_STOPPED
\* or DESIRED_RUNNING ends up as desired, or asking for human attention.
RowsConverge == part = "visits" => StoppedConverges /\ RunningConverges

\* v011_recovery.tick: a managed host that is to run does run again and again, whatever
\* state the host treated before it is in.
HostsRecover == part = "engine" => Engine!HostsRecover
=============================================================================
