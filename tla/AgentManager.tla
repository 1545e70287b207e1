---------------------------- MODULE AgentManager ----------------------------
(***************************************************************************)
(* The Agent Manager: the rows of agents and provisioning_jobs, the thread *)
(* that provisions an agent's VM, and the handlers.                        *)
(*                                                                         *)
(* The service is one uvicorn worker.  Its async handlers (create, chat,   *)
(* stop, start) hold the event loop for as long as they run; delete_agent  *)
(* and list_agents run in the thread pool.  A provisioning thread keeps    *)
(* the lock of its job's row from its first _step to the commit, and       *)
(* DELETE FROM agents locks the agent's row first and the job's row, which *)
(* it cascades to, second: the two can wait for each other.                *)
(***************************************************************************)
EXTENDS Naturals, FiniteSets, FiniteSetsExt

CONSTANTS
    Agents,
    VmIds,          \* numbers /cluster/nextid may return
    MaxFaults,      \* bound on restarts of the service, on database errors of
                    \* the threads, and on VMs that are removed in Proxmox by
                    \* hand, together
    NULL

ASSUME AgentManagerAssumption ==
    /\ VmIds \subseteq Nat /\ IsFiniteSet(VmIds) /\ NULL \notin VmIds \cup Agents
    /\ MaxFaults \in Nat

VARIABLES
    row,        \* agents.state, or "none" before and "deleted" after
    avm,        \* agents.vmid
    jvm,        \* provisioning_jobs.vmid
    pc,         \* the provisioning thread of each agent
    vmid,       \* its local variable vmid
    held,       \* its open transaction has locked the job's row
    del,        \* delete_agent, for each agent
    dvm,        \* the vmid it read
    loop,       \* the handler that holds the event loop
    seen,       \* list_agents: the agents it read, with their vmid
    owner,      \* the agent a VM was cloned for
    power,      \* a VM runs
    faults

job  == <<avm, jvm, vmid>>
web  == <<del, dvm, loop, seen>>
pve  == <<owner, power>>
vars == <<row, job, pc, held, web, pve, faults>>

Steps == {"validate", "reserve", "clone", "cloned", "configure", "start",
          "boot", "inject", "key", "test", "mute", "ready", "failing"}

TypeOK ==
    /\ row \in [Agents -> {"none", "PROVISIONING", "READY", "STOPPED", "ERROR",
                           "deleted"}]
    /\ {avm, jvm, vmid, dvm} \subseteq [Agents -> VmIds \cup {NULL}]
    /\ pc \in [Agents -> Steps \cup {"none", "done", "dead", "killed", "lost"}]
    /\ held \in [Agents -> BOOLEAN]
    /\ del \in [Agents -> {"idle", "read", "delete", "waiting"}]
    /\ loop \in ({"chat", "stop", "start"} \X Agents) \cup {NULL}
    /\ seen \subseteq Agents \X VmIds
    /\ owner \in [VmIds -> Agents \cup {NULL}]
    /\ power \in [VmIds -> BOOLEAN]
    /\ faults \in 0..MaxFaults

Init ==
    /\ row = [a \in Agents |-> "none"]
    /\ avm = [a \in Agents |-> NULL] /\ jvm = avm /\ vmid = avm /\ dvm = avm
    /\ pc = [a \in Agents |-> "none"]
    /\ held = [a \in Agents |-> FALSE]
    /\ del = [a \in Agents |-> "idle"]
    /\ loop = NULL /\ seen = {}
    /\ owner = [v \in VmIds |-> NULL]
    /\ power = [v \in VmIds |-> FALSE]
    /\ faults = 0

HasRow(a) == row[a] \notin {"none", "deleted"}
VmExists(v) == v # NULL /\ owner[v] # NULL

---------------------------------------------------------------------------
(* provision_job *)

\* A thread that may take the step p, and what it does next.
At(a, p) == pc[a] = p
GoTo(a, p) == pc' = [pc EXCEPT ![a] = p]

\* The first _step of a transaction.  Its INSERT refers to the job's row: with
\* the row gone it fails, the UPDATEs of the except branch fail in the same
\* aborted transaction, and the thread is over.
Begin(a, p) == GoTo(a, IF HasRow(a) THEN p ELSE "dead")

\* A call raises; the except branch is next.
Fails(a) ==
    /\ GoTo(a, "failing")
    /\ UNCHANGED <<row, job, held, web, pve, faults>>

Validate(a) ==
    /\ At(a, "validate")
    /\ Begin(a, "reserve")
    /\ UNCHANGED <<row, job, held, web, pve, faults>>

\* Fault: the job does not record the number before the clone.
ReserveUnrecorded(a) ==
    /\ At(a, "reserve")
    /\ \/ /\ \E v \in VmIds : owner[v] = NULL /\ vmid' = [vmid EXCEPT ![a] = v]
          /\ Begin(a, "clone")
          /\ UNCHANGED <<row, avm, jvm, held, web, pve, faults>>
       \/ Fails(a)

\* next_vmid returns the lowest free number; it is committed before the clone.
Reserve(a) ==
    /\ At(a, "reserve")
    /\ \/ /\ \E v \in VmIds :
                /\ owner[v] = NULL /\ \A u \in VmIds : owner[u] = NULL => v <= u
                /\ vmid' = [vmid EXCEPT ![a] = v]
                /\ jvm' = IF HasRow(a) THEN [jvm EXCEPT ![a] = v] ELSE jvm
          /\ Begin(a, "clone")
          /\ UNCHANGED <<row, avm, held, web, pve, faults>>
       \/ Fails(a)

\* Proxmox refuses a number that another thread has cloned to meanwhile, or
\* clones and its answer is lost.
Clone(a) ==
    /\ At(a, "clone")
    /\ \/ /\ ~VmExists(vmid[a])
          /\ owner' = [owner EXCEPT ![vmid[a]] = a]
          /\ power' = [power EXCEPT ![vmid[a]] = FALSE]
          /\ GoTo(a, "cloned") \/ GoTo(a, "failing")
          /\ UNCHANGED <<row, job, held, web, faults>>
       \/ Fails(a)

\* The clone's lock is gone, or was waited for long enough.
Cloned(a) ==
    /\ At(a, "cloned")
    /\ Begin(a, "configure")
    /\ UNCHANGED <<row, job, held, web, pve, faults>>

\* The cloud-init settings; then the transaction that starting the VM is part of.
Configure(a) ==
    /\ At(a, "configure")
    /\ \/ /\ VmExists(vmid[a])
          /\ Begin(a, "start")
          /\ held' = [held EXCEPT ![a] = HasRow(a)]
          /\ UNCHANGED <<row, job, web, pve, faults>>
       \/ Fails(a)

StartAgentVm(a) ==
    /\ At(a, "start")
    /\ \/ /\ VmExists(vmid[a])
          /\ power' = [power EXCEPT ![vmid[a]] = TRUE]
          /\ held' = [held EXCEPT ![a] = FALSE]
          /\ GoTo(a, "boot")
          /\ UNCHANGED <<row, job, web, owner, faults>>
       \/ Fails(a)

\* An address within 270 s; then the transaction that lasts to the end.
Boot(a) ==
    /\ At(a, "boot")
    /\ \/ /\ Begin(a, "inject")
          /\ held' = [held EXCEPT ![a] = HasRow(a)]
          /\ UNCHANGED <<row, job, web, pve, faults>>
       \/ Fails(a)

Inject(a) ==
    /\ At(a, "inject")
    /\ \/ /\ GoTo(a, "key")
          /\ UNCHANGED <<row, job, held, web, pve, faults>>
       \/ Fails(a)

\* A LiteLLM key is issued and written to the guest.  Nothing ever revokes it.
\* st-agentd answers ("test") or it does not ("mute").
IssueKey(a) ==
    /\ At(a, "key")
    /\ \/ /\ GoTo(a, "test") \/ GoTo(a, "mute")
          /\ UNCHANGED <<row, job, held, web, pve, faults>>
       \/ Fails(a)

\* Fault: the health of the agent is polled for ever.
TestForever(a) ==
    /\ At(a, "test")
    /\ GoTo(a, "ready")
    /\ UNCHANGED <<row, job, held, web, pve, faults>>

\* Ten polls of st-agentd.
Test(a) ==
    \/ /\ At(a, "test")
       /\ GoTo(a, "ready")
       /\ UNCHANGED <<row, job, held, web, pve, faults>>
    \/ At(a, "mute") /\ Fails(a)

\* Fault: the row is given the agent's own id for the VM's.
FinishStoresAgent(a) ==
    /\ At(a, "ready") /\ del[a] # "waiting"
    /\ row' = [row EXCEPT ![a] = "READY"]
    /\ avm' = [avm EXCEPT ![a] = a]
    /\ held' = [held EXCEPT ![a] = FALSE]
    /\ GoTo(a, "done")
    /\ UNCHANGED <<jvm, vmid, web, pve, faults>>

\* UPDATE agents waits while a DELETE of the row waits for this thread.
Finish(a) ==
    /\ At(a, "ready") /\ del[a] # "waiting"
    /\ row' = [row EXCEPT ![a] = "READY"]
    /\ avm' = [avm EXCEPT ![a] = vmid[a]]
    /\ held' = [held EXCEPT ![a] = FALSE]
    /\ GoTo(a, "done")
    /\ UNCHANGED <<jvm, vmid, web, pve, faults>>

\* Fault: the except branch closes the job and forgets the agent.
FailJobOnly(a) ==
    /\ At(a, "failing") /\ del[a] # "waiting"
    /\ held' = [held EXCEPT ![a] = FALSE]
    /\ GoTo(a, "done")
    /\ UNCHANGED <<row, job, web, pve, faults>>

\* The except branch.
FailCommit(a) ==
    /\ At(a, "failing") /\ del[a] # "waiting"
    /\ row' = IF HasRow(a) THEN [row EXCEPT ![a] = "ERROR"] ELSE row
    /\ held' = [held EXCEPT ![a] = FALSE]
    /\ GoTo(a, "done")
    /\ UNCHANGED <<job, web, pve, faults>>

\* The database refuses the thread's first connection, which is made outside the
\* try, or a statement or commit of any step, the except branch's own included.
\* The except branch has no other connection and no rollback: what it executes
\* raises again and is swallowed.  The transaction is gone and the thread over.
DbError(a) ==
    /\ faults < MaxFaults /\ pc[a] \in Steps
    /\ faults' = faults + 1
    /\ held' = [held EXCEPT ![a] = FALSE]
    /\ GoTo(a, "lost")
    /\ UNCHANGED <<row, job, web, pve>>

Provision(a) ==
    \/ Validate(a) \/ Reserve(a) \/ Clone(a) \/ Cloned(a) \/ Configure(a)
    \/ StartAgentVm(a) \/ Boot(a) \/ Inject(a) \/ IssueKey(a) \/ Test(a)
    \/ Finish(a) \/ FailCommit(a)

---------------------------------------------------------------------------
(* delete_agent *)

RowGone(a) ==
    /\ row' = [row EXCEPT ![a] = "deleted"]
    /\ del' = [del EXCEPT ![a] = "idle"]
    /\ UNCHANGED <<job, dvm, loop, seen, pve, faults>>

DeleteRead(a) ==
    /\ del[a] = "idle" /\ HasRow(a)
    /\ del' = [del EXCEPT ![a] = "read"]
    /\ dvm' = [dvm EXCEPT ![a] = avm[a]]
    /\ UNCHANGED <<row, job, pc, held, loop, seen, pve, faults>>

\* The VM the row named is stopped, not destroyed, and only if the call works.
DeleteStop(a) ==
    /\ del[a] = "read"
    /\ del' = [del EXCEPT ![a] = "delete"]
    /\ \/ /\ VmExists(dvm[a])
          /\ power' = [power EXCEPT ![dvm[a]] = FALSE]
       \/ UNCHANGED power
    /\ dvm' = [dvm EXCEPT ![a] = NULL]
    /\ UNCHANGED <<row, job, pc, held, loop, seen, owner, faults>>

DeleteRow(a) ==
    /\ del[a] = "delete"
    /\ \/ ~held[a] /\ RowGone(a)
       \/ /\ held[a]
          /\ del' = [del EXCEPT ![a] = "waiting"]
          /\ UNCHANGED <<row, job, dvm, loop, seen, pve, faults>>
    /\ UNCHANGED <<pc, held>>

DeleteUnblocked(a) ==
    /\ del[a] = "waiting" /\ ~held[a]
    /\ RowGone(a)
    /\ UNCHANGED <<pc, held>>

\* The thread wants the agent's row, the DELETE the job's: PostgreSQL aborts one
\* of the two.  If it is the DELETE, the thread's UPDATE, which is first in the
\* queue for the row, goes through.
Deadlock(a) ==
    /\ del[a] = "waiting" /\ pc[a] \in {"ready", "failing"} /\ held[a]
    /\ held' = [held EXCEPT ![a] = FALSE]
    /\ \/ /\ del' = [del EXCEPT ![a] = "idle"]
          /\ row' = [row EXCEPT ![a] = IF At(a, "ready") THEN "READY" ELSE "ERROR"]
          /\ avm' = IF At(a, "ready") THEN [avm EXCEPT ![a] = vmid[a]] ELSE avm
          /\ GoTo(a, "done")
          /\ UNCHANGED <<jvm, vmid, dvm, loop, seen, pve, faults>>
       \/ RowGone(a) /\ GoTo(a, "dead")

Delete(a) == DeleteStop(a) \/ DeleteRow(a) \/ DeleteUnblocked(a) \/ Deadlock(a)

---------------------------------------------------------------------------
(* The other handlers *)

Create(a) ==
    /\ loop = NULL /\ row[a] = "none"
    /\ row' = [row EXCEPT ![a] = "PROVISIONING"]
    /\ GoTo(a, "validate")
    /\ UNCHANGED <<job, held, web, pve, faults>>

\* agent_stop and agent_start: Proxmox is called before the row is updated.  With
\* no vmid, or no such VM, the call raises and nothing changes.
PowerCall(a, op) ==
    /\ loop = NULL /\ HasRow(a) /\ VmExists(avm[a])
    /\ power' = [power EXCEPT ![avm[a]] = (op = "start")]
    /\ loop' = <<op, a>>
    /\ UNCHANGED <<row, job, pc, held, del, dvm, seen, owner, faults>>

PowerDone(a) ==
    /\ loop \in {<<"start", a>>, <<"stop", a>>}
    /\ row' = IF ~HasRow(a) THEN row
              ELSE [row EXCEPT ![a] = IF loop[1] = "start" THEN "READY" ELSE "STOPPED"]
    /\ loop' = NULL
    /\ UNCHANGED <<job, pc, held, del, dvm, seen, pve, faults>>

\* agent_chat: up to 70 s on the event loop.  Sessions and messages are left out.
ChatAsk(a) ==
    /\ loop = NULL /\ row[a] = "READY"
    /\ loop' = <<"chat", a>>
    /\ UNCHANGED <<row, job, pc, held, del, dvm, seen, pve, faults>>

\* The reply is stored, or the agent or its row is gone: the handler ends.
ChatDone(a) ==
    /\ loop = <<"chat", a>>
    /\ loop' = NULL
    /\ UNCHANGED <<row, job, pc, held, del, dvm, seen, pve, faults>>

\* list_agents reads the rows, and later the VMs of the cluster.
ListRead ==
    /\ seen = {}
    /\ seen' = {p \in Agents \X VmIds :
                  row[p[1]] \in {"READY", "STOPPED", "PROVISIONING"} /\ avm[p[1]] = p[2]}
    /\ seen' # {}
    /\ UNCHANGED <<row, job, pc, held, del, dvm, loop, pve, faults>>

ListFix ==
    /\ seen # {}
    /\ row' = [a \in Agents |->
                 IF HasRow(a) /\ \E v \in VmIds : <<a, v>> \in seen /\ ~VmExists(v)
                 THEN "ERROR" ELSE row[a]]
    /\ seen' = {}
    /\ UNCHANGED <<job, pc, held, del, dvm, loop, pve, faults>>

---------------------------------------------------------------------------
(* The environment *)

VmLost(v) ==
    /\ faults < MaxFaults /\ owner[v] # NULL
    /\ faults' = faults + 1
    /\ owner' = [owner EXCEPT ![v] = NULL]
    /\ power' = [power EXCEPT ![v] = FALSE]
    /\ UNCHANGED <<row, job, pc, held, web>>

\* The threads are daemons: they end with the process, and nothing resumes them.
Restart ==
    /\ faults < MaxFaults
    /\ faults' = faults + 1
    /\ pc' = [a \in Agents |-> IF pc[a] \in Steps THEN "killed" ELSE pc[a]]
    /\ held' = [a \in Agents |-> FALSE]
    /\ del' = [a \in Agents |-> "idle"]
    /\ loop' = NULL /\ seen' = {}
    /\ dvm' = [a \in Agents |-> NULL]
    /\ UNCHANGED <<row, job, pve>>

Next ==
    \/ \E a \in Agents :
         \/ Provision(a) \/ Delete(a) \/ DeleteRead(a) \/ Create(a)
         \/ PowerCall(a, "stop") \/ PowerCall(a, "start") \/ PowerDone(a)
         \/ ChatAsk(a) \/ ChatDone(a) \/ DbError(a)
    \/ ListRead \/ ListFix
    \/ \E v \in VmIds : VmLost(v)
    \/ Restart

Spec == Init /\ [][Next]_vars

\* Every call of a thread and of delete_agent has a timeout and every poll a limit,
\* so each goes on; PostgreSQL finds deadlocks.  Nobody has to call a handler.
FairSpec ==
    Spec /\ \A a \in Agents : WF_vars(Provision(a)) /\ WF_vars(Delete(a))

---------------------------------------------------------------------------
(* Properties *)

\* The job of an agent names the VM that was cloned for it, whatever step the
\* thread fails, dies or is killed in, for as long as the agent has its row: an
\* operator can find every VM (the commit before the clone in provision_job).
VmNamedByJob ==
    \A v \in VmIds : \A a \in Agents :
        owner[v] = a /\ HasRow(a) => jvm[a] = v

\* The agent leaves PROVISIONING, unless its thread was killed or lost its database.
Settles(a) ==
    row[a] = "PROVISIONING"
        ~> row[a] # "PROVISIONING" \/ pc[a] \in {"killed", "lost"}

DeleteEnds(a) == del[a] # "idle" ~> del[a] = "idle"
=============================================================================
