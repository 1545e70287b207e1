------------------------- MODULE MCManagerLiveness -------------------------
(***************************************************************************)
(* Parts of the LLM Manager and the Agent Manager that do not share state, *)
(* model-checked side by side: a behaviour is one of the part it began     *)
(* with, and the variables of the others keep their first values.          *)
(*                                                                         *)
(*   "agents"    AgentManager,                                             *)
(*   "engine"    RecoveryEngine and                                        *)
(*   "registry"  ModelRegistry with the constants of the configuration     *)
(*   "spend"     ExternalSpend with one call of the console                *)
(***************************************************************************)
EXTENDS AgentManager, RecoveryEngine, ModelRegistry

VARIABLES
    part,
    \* ExternalSpend
    daily, monthly, warn, key, fallback, save, entries, dbUp, caps, spent, flying, blind,
    top, saves, days, dbOutages

Spend == INSTANCE ExternalSpend WITH
    Amounts <- {0, 1}, Consoles <- {"w1"}, MaxRequests <- 1, MaxSpend <- 2,
    MaxSaves <- 1, MaxDays <- 0, MaxDbOutages <- 1

spendVars == <<daily, monthly, warn, key, fallback, save, entries, dbUp, caps, spent,
               flying, blind, top, saves, days, dbOutages>>
allVars == <<part, vars, engineVars, registryVars, spendVars>>

PartInit ==
    /\ part \in {"agents", "engine", "registry", "spend"}
    /\ Init /\ EngineInit /\ RegistryInit /\ Spend!SpendInit
    /\ part # "registry" => served = [h \in Backends |-> {}]

PartNext ==
    /\ UNCHANGED part
    /\ \/ /\ part = "agents" /\ Next
          /\ UNCHANGED <<engineVars, registryVars, spendVars>>
       \/ /\ part = "engine" /\ EngineNext
          /\ UNCHANGED <<vars, registryVars, spendVars>>
       \/ /\ part = "registry" /\ RegistryNext
          /\ UNCHANGED <<vars, engineVars, spendVars>>
       \/ /\ part = "spend" /\ Spend!SpendNext
          /\ UNCHANGED <<vars, engineVars, registryVars>>

\* The fairness of agents, registry and spend, while it is the part that runs.
PartSpec ==
    /\ PartInit /\ [][PartNext]_allVars
    /\ \A a \in Agents : /\ WF_vars(part = "agents" /\ Provision(a))
                         /\ WF_vars(part = "agents" /\ Delete(a))
    /\ WF_registryVars(part = "registry" /\ EngineTick)
    /\ \A s \in Syncers : WF_registryVars(part = "registry" /\ SyncStep(s))
    /\ WF_spendVars(part = "spend" /\ \E a \in Spend!Ages : Spend!Record(a))
    /\ WF_spendVars(part = "spend" /\ Spend!Expire)

---------------------------------------------------------------------------
(* The properties of the parts; those of the modules extended are as they are *)

\* An agent leaves PROVISIONING although any call to Proxmox, the guest or LiteLLM
\* may fail, a DELETE may race its thread, and the two may deadlock (the except
\* branch of provision_job).  Two things do leave it there, and nothing else: a
\* restart of the service under the thread, and a database error of the thread,
\* whose except branch then cannot write the state (main_am.py:171 and 299-300).
AgentsSettle == part = "agents" => \A a \in Agents : Settles(a)

\* A DELETE comes to an end although it waits for the transaction of the
\* provisioning thread, which may wait for the DELETE (delete_agent).
DeletesEnd == part = "agents" => \A a \in Agents : DeleteEnds(a)

\* spend_guard: a cap that is reached for good ends the requests to OpenRouter.
CapStops == part = "spend" => Spend!CapStops
=============================================================================
