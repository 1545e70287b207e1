--------------------------- MODULE MCArmLiveness ---------------------------
(***************************************************************************)
(* Provisioning jobs and reconcile passes of the Agent Runtime Manager,    *)
(* model-checked side by side for liveness: a behaviour is one of the part *)
(* it began with, and the variables of the other keep their first values.  *)
(*                                                                         *)
(*   "jobs"  RuntimeLifecycle with the constants of the configuration      *)
(*   "pass"  ReconcilePass with three rows, of which a pass visits one     *)
(***************************************************************************)
EXTENDS RuntimeLifecycle

CONSTANTS
    Rows, Sandbox, Old      \* rows of the part "pass"; a sandbox, a superseded row

VARIABLES
    part,
    \* ReconcilePass; its pc is step, its crashes are restarts
    doomed, expired, order, step, stale, locked, todo, restarts

Pass == INSTANCE ReconcilePass WITH
    Runtimes <- Rows, Sandboxes <- {Sandbox}, Superseded <- {Old}, Limit <- 1,
    MaxCrashes <- 1, pc <- step, crashes <- restarts

ASSUME Pass!PassAssumption

passVars == <<doomed, expired, order, step, stale, locked, todo, restarts>>
allVars == <<part, vars, passVars>>

\* In the other part the order of the rows is any one of them.
PartInit ==
    /\ part \in {"jobs", "pass"}
    /\ Init /\ Pass!Init
    /\ part # "pass" => order = CHOOSE s \in Pass!SetToSeqs(Rows) : TRUE

PartNext ==
    /\ UNCHANGED part
    /\ \/ part = "jobs" /\ Next /\ UNCHANGED passVars
       \/ part = "pass" /\ Pass!Next /\ UNCHANGED vars

\* The fairness of each part, while it is the one that runs.
PartSpec ==
    /\ PartInit /\ [][PartNext]_allVars
    /\ \A r \in Runtimes : WF_vars(part = "jobs" /\ (SubmitInsert(r) \/ RunJob(r)))
    /\ WF_passVars(part = "pass" /\ Pass!PassGoesOn)

---------------------------------------------------------------------------
(* The properties of the parts; JobsEnd and RunningIpsDistinct are as they are *)

\* reconcile_all: while passes recur, every row that is not to be destroyed, and that
\* its clients leave alone, is visited again and again.
NoRowStarves == part = "pass" => Pass!NoRowStarves

\* expire_stale_sandboxes: while passes recur, a sandbox whose TTL stays over is to be
\* destroyed.
ExpiredIsSwept == part = "pass" => Pass!ExpiredIsSwept
=============================================================================
