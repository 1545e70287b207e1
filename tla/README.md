# Verification of the Server Manager / LLM Manager

TLA+ models of `startupteams/llm-manager-project-framework`, their TLC runs and
their TLAPS proofs.  `PROJECT.json` lists the components, the runs, the source
lines behind every definition, the disagreements found between code and
documentation, the hazards and the theorems.  Paths below are relative to `src/`;
ARM stands for `server_manager/agent_runtime_manager`.

## 1. The system

The repository holds two generations of one control plane.

**Agent Runtime Manager (ARM)**, a FastAPI service over one Postgres database.
It gives ACMS agents virtual machines on a Proxmox cluster.

| Part | State | Operations | What is hard |
|---|---|---|---|
| Runtime lifecycle: `ARM/api/v1.py`, `ARM/services/provisioning.py`, `ARM/providers/proxmox_vm.py`, `ARM/services/clone_hygiene.py` | rows of `agent_runtimes` (desired and actual state, node, vmid, `ownership_meta`), `provisioning_jobs`, the VMs of Proxmox | POST (submit, run_job), DELETE, supersede, desired-state | handlers run in threads with a session each and interleave at every commit and every Proxmox call; VMIDs are reused, also by others who clone on the cluster; a restart loses the handlers and keeps tables and VMs; ownership is checked long before it is relied on |
| Reconciler: `ARM/services/reconciliation.py` | the same rows, `recovery_count`, `last_error` | reconcile one row, reconcile all, TTL sweep, extend-ttl | works on a copy of the row across sleeps of minutes; Proxmox accepts calls that have no effect; bounded recovery; fairness between rows |
| Sandbox network gate: `ARM/services/sandbox_network.py` | reservations and leases of Kea on OPNsense, `sandbox_ip` in the row | allocate, reserve, verify, release | every step is an HTTP call; the state is shared with other creates, deletes, DHCP clients and operators |
| Placement: `ARM/services/placement.py` | the `node` column, the online nodes | select_node | counts rows that learn their node minutes later |

**LLM Manager** (`service/`, `deploy/`): a FastAPI application with two workers,
and timers, for the inference hosts.

| Part | State | Operations | What is hard |
|---|---|---|---|
| Recovery engine: `service/app/v011_recovery.py` | `recovery_events` of 30 minutes | tick | one read of the hosts, then minutes on each; limits are counted from audit rows |
| Desired states, model registry: `service/app/v011_core.py`, `orm_write_adapter.py`, `litellm_sync.py` | `hosts`, `model_registry`, LiteLLM's configuration file | sync_registry, set_desired_state, promotion, litellm_sync | every row is a transaction of its own; the engine, two workers and `litellm_sync` (run by hand, or by a timer that is not in the repository) overlap |
| Active deployment: `service/app/active_deployments.py` | `active_hosts`, a cache for each process | active_ip_for, set_active | readers are threads; a promotion clears one process' cache |
| Agent keys: `v011_core.py`, `main.py` | `agent_keys`, the keys in LiteLLM | provision, rotate, revoke; issue, block, delete by alias | two systems without a common transaction; lost and refused calls |
| External spend: `service/app/spend_guard.py`, `litellm_sync.py`, settings in `main.py` | `manager_settings`, cached caps, LiteLLM's spend log | save settings, publish, the hook before a request | check and charge are apart; caps are cached, also when they could not be read |
| GPU retention: `service/app/gpu_retention.py` | `gpu_samples`, `gpu_samples_hourly` | rollup, backfill, verify, prune, retention | commands overlap; deletes in batches; cutoffs within an hour |
| Console: `service/app/main.py` (presets, RDMA ring) | `hosting_command_presets`, `rdma_ring_nodes`, `multi_node_deployments` | create, import, use, delete, reorder; qualify, toggle, plan | row locks; tables made on demand that need each other |
| AgentManager: `service/agentmanager/main_am.py` | `agents`, `provisioning_jobs`, VMs | create (a thread), delete, list, start, stop, chat | threads against handlers, row locks of PostgreSQL, no recovery after a restart or a database error |
| Release deployment: `deploy/*.sh`, `db/migrations/migrate.py` | release directories, the symlink, unit files, services, `schema_migrations` | deploy, automatic undo, rollback, migrate | scripts without `set -e`, whose calls fail unnoticed, killed at any point, run again on what they left |

Collectors and the read API copy and render data.

How the parts meet: ACMS calls ARM over HTTP and retries; ARM calls Proxmox and
OPNsense synchronously; ARM's reconciler is driven by API calls only (no loop in
the repository calls it, `poll_interval_s` is unused).  The LLM Manager's engine,
workers and timers meet in its tables and in LiteLLM; a release restarts them all.

What makes each part correct:

* lifecycle: one job per request; no VM is lost; a DELETE never hits a VM other
  than its runtime's; protected VMs, and those others cloned at any time, are never touched; two running
  runtimes never share an address; every job ends; superseded rows stay so;
* reconciler: it acts on owned VMs only; recovery is bounded; rows do not lie
  about their VMs; visited rows converge; no row starves;
* network gate: a sandbox uses the address reserved for it; foreign reservations
  survive; released addresses come back;
* placement: the cap per inference node, or how far it is passed;
* engine and registry: a host stopped on purpose stays stopped and is drained;
  recovery actions are bounded; each host has its turn; the alias follows its target;
* keys and spend: a key that was rotated away or revoked does not work, and the key
  on record does; caps hold up to the requests in flight and take effect;
* active deployment: a read is never older than the cache may make it;
* GPU retention: nothing is pruned before it is aggregated, or stops being so;
* AgentManager: every VM can be found; agents leave PROVISIONING; DELETEs end;
* releases: the ledger tells the truth.

## 2. Modules

| Module | Models |
|---|---|
| `RuntimeService` | abstract: what ARM promises its client, without jobs, threads or markers |
| `RuntimeLifecycle` | POST, DELETE, supersede, desired-state, restarts, database errors, clones of others; implements `RuntimeService` |
| `Reconciler` | a visit of one row |
| `ReconcilePass` | sweep, order, limit and commits of a pass |
| `SandboxNetwork` | the DHCP gate of sandboxes |
| `Placement` | select_node and the rows it counts |
| `RecoveryEngine` | the LLM Manager's recovery tick, desired states and power-off |
| `ModelRegistry` | sync_registry, orders, promotion, build_model_list |
| `AgentKeys` | the keys of one agent in the table and in LiteLLM |
| `ExternalSpend` | settings of OpenRouter, publication, the spend guard |
| `StaleRegister` | abstract: a register whose reads may be Ttl old |
| `ActiveDeployments` | the placement row and its caches; implements `StaleRegister` |
| `GpuRetention` | samples, hourly aggregates and the commands between them |
| `RdmaRing`, `Presets` | the console's tables |
| `AgentManager` | provisioning threads and handlers of the Agent Manager |
| `ReleaseTransaction` | deployment, undo, rollback and migrations |
| `RuntimeLifecycle_proofs`, `Reconciler_proofs`, `AgentManager_proofs`, `ReleaseTransaction_proofs` | the theorems about the module of that name (section 5) |
| `RecoveryRegistry_proofs` | the theorems about RecoveryEngine and ModelRegistry |
| `SandboxPlacement_proofs` | the theorems about SandboxNetwork and Placement |
| `LlmManager_proofs` | the theorems about ActiveDeployments, AgentKeys and ExternalSpend |
| `ManagerTables_proofs` | the theorems about Presets, RdmaRing and GpuRetention |
| `MCRuntimeLifecycle` | symmetry of the two lifecycle runs |
| `MCArmLiveness`, `MCArmSafety`, `MCConvergence`, `MCManagerLiveness`, `MCManagerSafety` | the parts of the runs, side by side (section 3) |

The same conventions hold in each module:

* **A step is what runs between two points where other threads can be seen**: a
  commit or an outside call.  Validation, auditing and logging are part of the
  step they belong to.
* **Sessions keep copies.**  ARM's session factory has `expire_on_commit=False`
  (`server_manager/common/db/session.py`), so a handler never sees another
  handler's commit.  `del`, `sup` (RuntimeLifecycle) and `copy`, `sess`
  (Reconciler) are those copies; a commit writes the columns that differ from
  the loaded value.  `ownership_meta` is one JSON column.
* **Proxmox, Kea, LiteLLM, PostgreSQL and systemd are external**, modelled by how
  the code uses them: the lowest free VMID is returned and not reserved, a clone to
  a used VMID and the deletion of a running VM are refused, a shutdown may not have
  taken effect when the call returns, a pool address has one reservation at most,
  READ COMMITTED statements see what was committed when they began, an UPDATE
  waits for its row's lock, and of two transactions that wait for each other one is
  aborted.
* Modules that one MC or proof module extends together have names of their own where
  they would clash: `NetSpec` (SandboxNetwork), `EngineSpec` (RecoveryEngine),
  `RegistrySpec`, `KeySpec`, `SpendSpec`, `PlaceSpec`, `PresetSpec`, `RingSpec`,
  `GpuSpec` and `ReleaseSpec` are those modules' specifications, `NetInit`, `EngineNext`
  their parts, and so on.
* Variables marked "history" (and `vms[v].owner`, `attempts`, `solo`, `met`, `strayed`,
  `leaked`, `robbed`, `shutOut`, `startCalls`, `restartCalls`, `lateStarts`, `blind`, `top`,
  `given`, `byAdmin`, `happened`, `kept`) are read by properties, or by updates of other
  history, and by no guard of an action.

Operators marked `Fault:` are plausible slips in the operator that follows them.
No specification uses them; `PROJECT.json` ("mutants") pairs each with the
property that catches it.

### RuntimeService and RuntimeLifecycle

`RuntimeService` has calls, answers, runtimes and their machines.  A call gets at most
one answer, the one runtime of its request; a runtime has one chance of a machine, which
is then nobody else's; a machine goes away only by a deletion asked for while its runtime
had it; machines of others appear at any time and stay.  Restarts and database errors
may cost a runtime its chance, and deletions may be cancelled, because the code allows
both.  The mapping is at the end of
`RuntimeLifecycle`: `sent`, `request` and `spent` come from POSTs and jobs, `machine`
from the owner of each VM in Proxmox, `deleting` from the DELETEs that have verified
their VM, `others` from the VMs without an owner.

Rows are the variables `desired`, `actual`, `vmid`, `meta`; `job[r]` is the job
of row `r`.  A POST is the index of the row it may insert: `pc[r]`, `loc[r]`,
`reply[r]`.  The actions follow `submit` (SubmitLookup, SubmitInsert), `run_job`
and `_provision_vm` (StartJob, Place, NextVmid, CloneTemplate,
ConfigureCloudInit, Boot, WaitForIp, HygieneGate, BootstrapHermes, JobDone,
JobFails, JobLost), DELETE (DeleteVerify, DeleteShutdown, DeleteDestroy, DeleteCommit,
DeleteAborts) and supersede (SupersedeLoad, SupersedeCommit).  `JobLost` is a database
error under a job: the except branch of `run_job` has no rollback, so it cannot write
FAILED either, and the job keeps its state for ever.  `ForeignClone` is anybody else
who clones on the cluster, the Agent Manager first of all: every free VMID, one that
ARM has just freed included, may become a VM that is not ARM's.  `ConfigReachable`
is a fact of the code that surprised us: `configure_cloud_init` writes to the
template's node, so a clone placed elsewhere never gets its marker.

### Reconciler and ReconcilePass

A visit loads its row, observes the VM, decides, acts, waits and commits.  Visits of one
row may overlap, because nothing in the code keeps them apart.  The
constants choose what else may happen: `Flaky` (Proxmox unreachable, or accepting
without effect) and `StartsRaise` (Proxmox refuses a start).  Four history variables tell
what the properties are about: `attempts` counts the calls of `provider.start` since the
VM was last seen as desired, `solo` those among them that Proxmox accepted from a visit
that had its row for itself, `met` are the visits that did not, and `strayed` the rows
that ever had two visits at once, or whose VM was started by a visit of another row, one
that began when that row still had the VMID.  `ReconcilePass` keeps
the rows in the order of `updated_at` and shows what a pass does to that order;
what a visit does to the row is not repeated there.

### SandboxNetwork and Placement

`resv` is the reservation model on OPNsense and `applied` what the running Kea
has loaded; `reconfigure` copies one to the other.  A sandbox names its MAC, its
row and its reservation.  `Free` is the choice of `allocate`, with its probe
that is computed once.  Handlers overlap freely; the constants `Restarts`,
`OrdinaryClients` and `SlowGuests` say what the surroundings may do.  `robbed` are the
sandboxes whose reservation the handler of another one deleted, `shutOut` those that
could not get their address because another client still had a lease of it.
`Selected(r)` of Placement is `select_node`: filters, scores and the sort's order,
with the code's numbers.  `MaxJobs` is the number of jobs that run at the same time, the
threads of ARM's pool.

### RecoveryEngine

The engine is one process that ticks for ever: `TickSync` (sync_registry's
probes), `TickSelect` (the one read of table hosts, kept in `snap`), then the
hosts in the order of their address (`TreatHost`), each of which may take ten
minutes.  `lateStarts` counts the
starts since a host was ordered off.  `startEvents` and `restartEvents` are the rows of recovery_events
younger than 30 minutes, `fresh` says that one is younger than 3; `Ages` moves
the window on.  Operators change desired states and power hosts off at any
moment; power-off is two steps, because the web service has two workers.  A host
is a number, its place in ORDER BY guest_ip.

### ModelRegistry

A sync goes through the hosts: it probes one, reads its flags and writes a row for
each model it lists; then it deletes the alias, looks for its target and inserts it
again.  Production runs with `ORM_WRITE_CUTOVER=1`, so all of these are
transactions of their own, and `sync[p]` is where each process is.  `alias` counts
rows, since overlapping syncs can insert the alias twice.  `lite` holds what
`build_model_list` has read so far; `config` is the configuration file it writes.  No
code in the repository makes LiteLLM load that file, so nothing is said about what
LiteLLM runs with.

### AgentKeys

`run[w]` is the handler of worker `w` on `keyRow` (mint, insert, delete the old key, commit),
`admin` the call by alias of the console.  `happened` records the three things the
properties depend on: handlers that overlapped, a delete LiteLLM refused (its status
is not looked at), a handler that ended halfway.

### ExternalSpend

Each setting is a row and a commit: a console call (`save`) goes key, amounts, gate,
fallback flag.  A request costs one unit; `flying` counts requests by the day they
began on, `caps` is the guard's cache.  `Publish` stands for the write of the external
entries together with whoever then restarts LiteLLM; CapStops and Overshoot do not depend
on when that is.

### StaleRegister and ActiveDeployments

`had[t]` is the set of values a query could have returned at time `t`.  A read
takes the time, looks into the cache, queries and stores, under a lock only in its
first and last step; a promotion commits, then clears its own worker's cache.  In the
refinement, `began[r]` is the time a read took.

### GpuRetention

A sample is the tick it was taken at, an aggregate the set of samples it was computed
from, so that an aggregate computed from what a prune has left can be told from a
whole one.  `Careless` lets operators do what the properties cannot stand.

### AgentManager

`pc[a]` is the provisioning thread of an agent, `del[a]` its DELETE, `loop` the async
handler that holds the event loop.  The row locks are modelled: a thread has its job's
row from its first step to its commit, a DELETE takes the agent's row and then, by the
cascade, the job's.  Three failures differ: a call that fails goes to the except branch
and commits ERROR (`FailCommit`); a database error, which also a connection that could
not be made is, ends the thread without a trace (`DbError`, `pc[a] = "lost"`); a restart
ends it as well (`"killed"`).  A clone whose answer is lost made a VM all the same.

### RdmaRing and Presets

A page of `RdmaRing` is one step.  In `Presets`, a reorder writes row by row and keeps
the locks; two of them may deadlock and PostgreSQL aborts one.

### ReleaseTransaction

`pc` goes through the phases of `deploy-release.sh`.  `script` is the script that runs:
a deployment, the undo a failing smoke test turns it into, or `rollback.sh`.  `Killed`
may happen anywhere; `Aborts` is `die`.  `ln`, `mv` and every `systemctl restart` may be
refused (`Activate`, `Restart`), which no script notices: the symlink or the old process
then stays, and `kept` remembers it for the script that runs.

## 3. Runs

The MC modules put modules that share no state **side by side**: a behaviour chooses
a `part` at the start, takes the steps of that part's module only, and the variables
of the other parts keep their first values.  So one run asks about several
components, each with its own constants, and their state spaces add up instead of
multiplying.  The fairness of a part is stated for the part that runs.

Passing runs:

| Run | Parts and bounds | Shows |
|---|---|---|
| LifecycleSafety | 2 POSTs with equal or different request ids, DELETEs of one runtime one at a time, a superseder, 2 VMIDs of which one is protected, clones of others, a restart or a database error | VmAccounted, RowVmIsMarked, IdempotentSubmit, DeleteTouchesOwnVmOnly, ForeignAndProtectedUntouched, SettledSupersedeStays, ImplementsService |
| ArmLiveness | *jobs*: fair handlers, no supersede, a restart or a database error; *pass*: 3 rows of which a pass visits one, a restart | JobsEnd, RunningIpsDistinct; NoRowStarves, ExpiredIsSwept |
| ArmSafety | *turns*: 2 rows that have one VMID in turn, visits one after the other, a DELETE, starts refused when the VM is gone; *overlap*: 1 row, 2 visits at any moment, starts refused at any time, a restart; both with MaxAttempts 1, a VM that stops by itself, Proxmox unreachable or accepting without effect; *reservations*: 2 sandboxes, 3 addresses (one protected, one a static host), overlapping handlers, a restart, a failing call, guests that are slow and restarted, ordinary clients; *placement*: 5 runtimes of 3 kinds, 4 nodes, 2 jobs at a time | SoloStartsBounded, StoppedIsHonest; ForeignKept, DestroyedIsReleased, ReadyIsIsolated; CapOvershoot |
| Convergence | *visits*: two overlapping visits, an outage, a restart; *engine*: 2 hosts, 1 start and 1 restart allowed, a fault, no orders, outages without bound | RowsConverge; HostsRecover |
| ManagerLiveness | *agents*: 2 agents, 1 VMID, one fault (a restart, a database error, or a VM removed by hand), any call may fail; *engine*: 1 host, both limits 2 as in the code, 2 orders, a fault, outages without bound; *registry*: 2 hosts, 2 models, a worker beside the engine, one change (an order or a change of a backend), one sync that ends with an exception; *spend*: one console call, an outage | VmNamedByJob, AgentsSettle, DeletesEnd; RecoveryIsBounded, OneLateStart; AliasRowsBounded, Drained, AliasFollows; CapStops |
| ManagerSafety | *active*: 2 threads, a promotion, an outage, a Ttl of 2 in a time of 3; *release*: 2 releases, 3 scripts, any link or restart refused; *keys*: 2 workers, 3 keys; *spend*: 2 requests in flight, a midnight; *gpu*: 6 hours, half of them before the first rollup; *presets*: 2 sessions, 2 presets, 5 requests; *ring*: 2 nodes and a host that is none | ReadsAreRecent; LedgerIsTrue; KeyGrants, RowKeyLive; Overshoot; PrunedIsKept; ListOrder; PagesComeUp |

LifecycleSafety, ArmSafety (for Reconciler) and ManagerLiveness (for AgentManager and
RecoveryEngine) also check the type invariant; those of all modules but ReconcilePass are
theorems (section 5).  The parts *turns* and *overlap* of ArmSafety split one module so that
each keeps a state space TLC can exhaust; SoloStartsBounded and StoppedIsHonest are proved
without that split.

Two of anything suffice for the races: each needs two handlers, or one handler
and one disturbance (restart, outage, operator).  VMIDs, addresses and keys are fewer
than what wants them, so reuse and exhaustion happen; a time of 3 is longer than the
Ttl of 2, so that an entry both lives and dies; three scripts allow a deployment that is
killed, its repetition and a rollback; the times of `GpuRetention` are small
multiples of each other that keep the order of the real ones (rollup window < raw
retention < hourly retention) and let a cutoff fall within an hour.  Every bound
(`MaxCrashes`, `MaxOutages`, `MaxFaults`, ...) is a constant named in its module.

Violation runs, each a claim of the documentation the code does not keep
(quotes in `PROJECT.json`, "findings"):

| Run | The claim | What happens |
|---|---|---|
| LifecycleOverlappingDeletes | VMs are destroyed only with verified ownership | two DELETEs; the VMID is reused in between, by another runtime or by somebody else |
| ReconcilerVmidReuse | acts only on verified VMs | the check is before the backoff sleep |
| ReconcilerRefused | at most 5 automatic recovery attempts per incident | a start that Proxmox refuses is not counted, and every visit tries again |
| SandboxOverlap | a sandbox always receives its pre-reserved address | a create takes the reservation of another create in flight for a crashed one's and replaces it |
| SpendGuardOutage | fail-closed when caps cannot be read | unreadable settings are cached as "no caps" and requests pass |
| PruneGate | raw samples are never pruned before the rollup is backfilled and verified | the gate looks at the first hour only and opens after the first chunk |

Some properties hold only because a constant restricts the surroundings, or because they
except a case.  The restriction is then the finding; lifting it shows it:

| Part | Change | Fails | Because |
|---|---|---|---|
| lifecycle | `SerializedDeletes = FALSE` and a second DELETE | ForeignAndProtectedUntouched (its foreign half), DeleteTouchesOwnVmOnly | as in LifecycleOverlappingDeletes; a VM somebody else cloned to the freed VMID is destroyed |
| jobs | drop "crashed" from JobsEnd | JobsEnd | no worker takes up a job after a restart, and a database error cannot be written down by the session it broke |
| overlap | check RecoveryBounded, with `StartsRaise = FALSE` | RecoveryBounded | two visits read one counter and an increment is lost, although "concurrent callers are" serialized by row-level commits (`ARM/api/v1.py`:380) |
| turns | a second visit, and all rows instead of `Runtimes \ strayed` | StoppedIsHonest | a visit that sleeps while its row's VM is deleted and the VMID given away starts the new owner's VM, whose row says STOPPED |
| reservations | drop `robbed` | ReadyIsIsolated | the handler of another create, or the DELETE of a sandbox whose address was given away, deletes the reservation |
| reservations | drop `shutOut` | ReadyIsIsolated | an ordinary client leased the address before it was reserved, and Kea does not take leases back |
| placement | the cap itself, `InferenceWorkers(n) <= MaxWorkers` ("max 1 worker per node", `ARM/services/placement.py`:5), with `MaxJobs = 2` | the cap | rows learn their node at the end of their job |
| agents | drop "killed" or "lost" from Settles | AgentsSettle | a restart ends the thread; `pg()` at `main_am.py`:171 is outside the try, and 299-300 swallows the failed status write |
| engine | `AuditFails = TRUE` | RecoveryIsBounded | an action whose audit row could not be inserted is not counted |
| keys | drop "overlap" from KeyGrants | KeyGrants | a rotate beside a revoke leaves a revoked agent with a key that works |
| keys | drop "ignored" from KeyGrants | KeyGrants | the status of `/key/delete` is not looked at |
| keys | drop "lost" from RowKeyLive | RowKeyLive | the old key is deleted before the new one is committed |
| gpu | `Careless = TRUE` | PrunedIsKept | a backfill after a prune computes the hour of the cutoff from what is left of it |
| release | drop `kept` from LedgerIsTrue | LedgerIsTrue | a refused `ln`, `mv` or restart is not noticed: no `set -e`, `FAILHERE` (`deploy/deploy-release.sh`:211-223) is set and never read, `healthcheck.sh` prints the SHA (line 64) without comparing it; the ledger says accepted (`deploy-release.sh`:228) or complete (`rollback.sh`:40) over the old release |
| release | drop its other exceptions | LedgerIsTrue | a failed migration removes the candidate's tree although it is the current release; a tree copied halfway is taken for a candidate |

Also seen while modelling, and kept in the models as the code has it:

* ARM: a job in flight writes over SUPERSEDED; a job QUEUED at a restart is never run,
  as there is no worker loop; a row is RUNNING as soon as a start was accepted; an
  extend-ttl between the sweep's SELECT and its UPDATE is lost; `allocate` probes the
  first candidate only; pinned classes are placed without looking whether the node is
  online; a start that worked does not reset `recovery_count`, so the budget of "5
  automatic recovery attempts per incident" (`ARM/services/reconciliation.py`:47) is
  used up by earlier incidents; rows of destroyed sandboxes keep their address, so the
  hygiene gate refuses the next sandbox that is given it, although "the address can
  be reused safely" (`ARM/services/sandbox_network.py`:21).
* Engine and registry: a tick that read RUNNING starts a host that was set to
  STOPPED_INTENTIONAL meanwhile (once: OneLateStart); a model a live host no longer lists stays routable;
  the alias has no row between the delete and the insert of a sync, and two rows after
  two overlapping syncs (never more than there are processes: AliasRowsBounded);
  `litellm_sync` reads with separate queries and may write a
  configuration no moment of the tables had, until it is run again; step 4 of its
  docstring, "signals LiteLLM to reload" (`service/app/litellm_sync.py`:18), is not done
  by `main`, and the timer it names is not in the repository.
* Keys and spend: a provision after a revoke mints a key that no row names; NaN is
  accepted as a cap (`service/app/main.py`:1488) and no spend ever compares with it.
* AgentManager: a DELETE stops the VM and leaves it; an agent in ERROR has no
  `agents.vmid`, only its job has; keys minted for an agent are never revoked; an
  agent whose thread died with the service, or lost its database, stays PROVISIONING.
* Releases: every abort leaves recovery stopped; `healthcheck.sh` accepts whatever release
  answers; unit files of a candidate stay after
  an abort or a rollback; `migrate.py` does not compare the checksums of versions it
  finds applied.

`CHECK_DEADLOCK FALSE` stands where the model ends because its requests, times or
changes are used up; waiting for each other is modelled and its end is a property
(DeletesEnd) or an action (ReorderDeadlock).

## 4. Fairness

* RuntimeLifecycle, Reconciler, ReconcilePass: a handler that was begun goes on (weak
  fairness of its steps).  Handlers are plain threads, every Proxmox call has a
  timeout, every polling loop a deadline.  Nothing is assumed about clients: that a
  row is visited, or that passes recur, is a hypothesis inside the properties
  (`Visited`, `PassesRecur`), because no loop in the repository guarantees it.
* RecoveryEngine: the tick goes on and the start attempts grow old.  `main` loops for
  ever and catches every exception, systemd restarts it, every probe has a timeout
  and every wait a last round; attempts age because time passes.  Nothing is assumed
  about model services: they may never come up.
* ModelRegistry: the engine begins syncs again and again, a sync that was begun goes
  on.  That `litellm_sync` is run again and again is a hypothesis inside Drained
  (`LiteSyncsRecur`), for what it says of the configuration file, because nothing in the
  repository runs it.  Nobody has to give an order.
* ExternalSpend: requests end (`request_timeout`), and the 30 s of the cache pass.
* AgentManager: provisioning threads and DELETEs go on (timeouts, bounded polls), and
  PostgreSQL resolves deadlocks.  A restart or a database error ends a thread for good.
  Nothing is assumed about the other handlers.

## 5. Proofs

For every value of the constants (any number of runtimes, requests, threads, VMIDs,
hosts, sandboxes, keys, presets, releases, scripts and restarts), from the assumptions
stated next to the constants alone unless stated:

| Module | Theorem | States | Besides |
|---|---|---|---|
| RuntimeLifecycle_proofs | TypeCorrect | TypeOK | |
| | SubmitIsIdempotent | IdempotentSubmit | |
| | ForeignVmsSafe | ForeignAndProtectedUntouched | SerializedDeletes |
| | ProtectedVmsSafe | ProtectedUntouched, its half about protected VMIDs | |
| | NoVmIsLost | VmAccounted | |
| | RowVmMarked | RowVmIsMarked | SerializedDeletes |
| | DeleteSafe | DeleteTouchesOwnVmOnly | SerializedDeletes |
| | SupersedeStays | SettledSupersedeStays | SerializedDeletes |
| | IpsDistinct | RunningIpsDistinct | no superseders |
| | RuntimeApiImplementsService | ImplementsService: RuntimeLifecycle implements RuntimeService | SerializedDeletes |
| Reconciler_proofs | TypeCorrect | TypeOK | |
| | SoloStartsHold | SoloStartsBounded | |
| | StoppedHonest | StoppedIsHonest | |
| SandboxPlacement_proofs | TypeCorrect | NetTypeOK | |
| | ForeignReservationsKept | ForeignKept | |
| | DestroyedReleased | DestroyedIsReleased | |
| | IsolationHolds | ReadyIsIsolated | |
| | PlaceTypeCorrect | PlaceTypeOK | |
| | OvershootIsBounded | CapOvershoot | |
| AgentManager_proofs | TypeCorrect | TypeOK | |
| | JobNamesVm | VmNamedByJob | |
| | NoAgentIsStranded | `Attended`: who waits for a thread, waits for one that goes on | |
| RecoveryRegistry_proofs | EngineTypeCorrect | EngineTypeOK | |
| | EngineIsBounded | RecoveryIsBounded | no audit row is lost |
| | EngineStartsLateOnce | OneLateStart | |
| | RegistryTypeCorrect | RegistryTypeOK | |
| | AliasRowsStayFew | AliasRowsBounded | |
| LlmManager_proofs | ActiveTypeCorrect | TypeOK of ActiveDeployments | |
| | ActiveImplementsRegister | ReadsAreRecent: ActiveDeployments implements StaleRegister | |
| | KeyTypeCorrect | KeyTypeOK | |
| | KeyGrantsHold | KeyGrants | |
| | RowKeyIsLive | RowKeyLive | |
| | SpendTypeCorrect | SpendTypeOK | |
| | OvershootBounded | Overshoot | |
| ManagerTables_proofs | PresetTypeCorrect | PresetTypeOK | |
| | ReordersNeverMix | ListOrder | |
| | RingTypeCorrect | RingTypeOK | |
| | PagesAnswer | PagesComeUp | |
| | GpuTypeCorrect | GpuTypeOK | |
| | PrunedSamplesKept | PrunedIsKept | ~Careless, `Timely` |
| ReleaseTransaction_proofs | ReleaseTypeCorrect | ReleaseTypeOK | |
| | LedgerHolds | LedgerIsTrue | |

The hypotheses in the last column are the restrictions the runs make, and section 3
shows what happens without them.  Every inductive invariant was checked by TLC on small
instances before it was proved.

**Lifecycle.**  One inductive invariant in layers, at the end of
`RuntimeLifecycle`: `SubmitInv` (a job belongs to the request its POST sent, an
answer to that request), `ProtectedInv` (no DELETE goes on with a protected VMID),
`AccountInv` (a runtime has at most one VM, the one its POST cloned; a row
names a VM only after its job is done; at a DELETE's commit the VM is gone),
`OwnerInv` (with serialized DELETEs: markers tell the truth, and the VM a DELETE
is about to hit is still its runtime's) and `IpInv` (addresses of runtimes past
the gate differ).  The properties themselves are not inductive: that a DELETE
hits its own VM, for instance, rests on the row keeping its VMID while the DELETE
runs, which rests on no other DELETE of that row, and on jobs never reusing a row.
ForeignVmsSafe follows from the same: the VM a DELETE is about to hit is its runtime's, and
so is nobody else's, however often the VMID changed hands before.  ProtectedVmsSafe needs no
more than `ProtectedInv`.
Each layer is proved from the ones before it, one lemma for each part and one
step for each action.  The restrictions are necessary: the violation run
LifecycleOverlappingDeletes shows what happens without the first, and a supersede
that races with a job in flight defeats the second.

**RuntimeService.**  The refinement needs the layers up to `OwnerInv`, and one lemma for
each group of steps (`SubmitServes`, `RunJobServes`, `DeleteServes`, `CrashServes`,
`JobLostServes`, `ForeignCloneServes`): the
step is a step of RuntimeService, or leaves the mapped variables alone (`ViewsFollow`
says which variables a view follows).  That the clone is the runtime's one chance is
that `pc` passes the clone once and that a row has one job; that a VM is destroyed
only while its runtime is `deleting` is the invariant behind DeleteSafe; that a DELETE
marks no second deletion of the same runtime is SerializedDeletes.  A proof attempt
showed that two facts were missing from the invariant: an idle POST has sent nothing
(`PostJobInv`), and an answer belongs to a POST that has ended (`ReplyInv`).

**Reconciler.**  That the type invariant is one already takes three facts: a visit's
copy holds a VMID where the visit uses one, and a count below the limit where it adds
one (`VisitInv`); a VMID has an owner exactly while its VM exists (`VmInv`); a DELETE
knows what it destroys (`DeleteInv`).  SoloStartsBounded is not inductive because `solo` and
`recovery_count` move at different steps, and because a visit that overlaps another may
write back a count that is older than the row's.  `BudgetInv` says what saves the limit:
visits that overlap both know it (`MetInv`); what was started alone is counted in the row,
or in a session that is about to write it (`Pays`), but for one per restart; and a count
that a stale visit writes misses one such start at most, which that visit's own increment
makes up for (`Budget`).  Of a row that never had two visits at once, what a visit copied
still is what the row says when it commits, as long as the row has a VM (`SerialInv`,
with `StrayedGrows`); that is what `HonestInv` needs, which says that
STOPPED is true in the row, or in the session that is about to overwrite it.  The first
attempt at that proof failed for a good reason: StoppedIsHonest as it stood was false with
two visits and a reused VMID, beyond the bounds of the run (TLC finds it in a larger one).
The property now excepts the rows in `strayed`.

**Sandbox gate and placement.**  `PhaseInv` ties the step of a handler to its row and
its address; `LookedUpInv` says that what is about to be deleted was looked up and is not
foreign; as deletions go by the uuid that was looked up, a stale look-up deletes nothing
else, and that is all ForeignKept needs.  DestroyedIsReleased needs
`OneReservation` (a sandbox's reservation is at the address its job chose, so that a release
by address can find it).  ReadyIsIsolated needs that in the configuration Kea runs with too,
`PowerInv` (a guest has no address before its job boots it; a DELETE at the reservation has
destroyed the VM), and `SecuredInv`: once the gate has applied a reservation, only the handler
of another sandbox takes it away, and only another client's lease the address.  The cap
speaks of rows that have a node; `LoadInv` adds the jobs that are placed and have none yet:
a job places itself where the rows that count are below the cap, and at most
`MaxJobs - 1` others are on their way there.

**AgentManager.**  `CloneInv`: before the clone nobody owns a VM for the agent, and the
number the thread will clone with is on the job's row by then.  `LockInv`: while a thread has its
long transaction open the row is there, so no late UPDATE revives a deleted one.
`Attended` is what AgentsSettle and DeletesEnd rest on besides fairness: an agent in
PROVISIONING has its thread unless a restart or a database error took it, and a lock belongs
to a thread that goes on, for PostgreSQL rolls back a connection that is lost.  It needs `LockInv`, since a thread that finds its row gone dies on the spot, and
must not hold a lock then.

**Engine.**  `StartsCounted` and `RestartsCounted` say that every call within the
window, and the one the engine is about to make, has its row among the rows that are
counted.  RecoveryIsBounded alone is not inductive: it does not say that an attempt
on record but not yet made is covered, nor that a row leaves the window only with its
call.  OneLateStart becomes inductive with `LateStartsCounted`: after a late start the
host is still ordered off and the tick that made it will not start it again (`MayStart`),
and a later tick reads the order.

**Registry.**  AliasRowsBounded is not inductive: with as many rows as processes, one that
is about to insert would break it.  `AliasInv` is: the rows are at most as many as the
processes that are not between the delete of the alias and its insert.  A delete brings the
rows to none, and a process that inserts leaves that section.

**Releases.**  LedgerIsTrue speaks of the end of a script only.  `NotYetInv` says
that nothing is switched before the activation, so that an abort has nothing to undo;
`MigratedInv` that a deployment past its migrations has them; `SwitchedInv` that the
services restarted so far run what the symlink names or have failed, which systemd's
restart keeps true, and that the symlink names the target, both but for what was refused
(`kept`).

**Active deployment.**  Every step of ActiveDeployments is a step of StaleRegister or
leaves its variables alone.  The invariant says that what a query would return now is in the
history (`RowInv`), and that what a read is about to store (`StoreInv`) and what a cache
holds (`CacheInv`) was there at or after the time it carries; with the test
`at - hit.at < Ttl` that gives StaleRegister's bound.  The late store after a promotion
is covered because the entry carries the time its read began.

**Keys.**  `PrivateInv` is the core: a minted key is known to its handler only,
until the commit; no other handler can delete, give away or replace it.  `LiveInv` is
RowKeyLive with the handler named that has deleted the row's key and is about to commit;
`GrantInv` holds KeyGrants in the middle of a request too, as long as nothing overlapped
and no deletion was refused.

**Spend.**  The guard reads the spend before the request and the charge comes after it, so
Overshoot counts both: what is spent and what is in flight.  `CapsInv` says that a
cached cap, however old, was saved once, so the highest cap ever saved bounds all of them.

**Presets.**  Row locks make reorders serial although nothing serialises them
explicitly.  `WriteInv` says that a reorder holds every row it has passed with its new
place in it, `HolderInv` that only reorders hold rows.  Of two reorders the
one that commits last had to wait for, or came before, each row of the other, and so its
list is the one that shows.

**Types.**  TypeOK of ActiveDeployments needs that a read has a time exactly while it
runs (`BegunInv`); GpuTypeOK holds for careless operators too, by the bounds of `Min`
and `Max` over the samples there are (`StartFillTypes`, `ChunkTypes`); PlaceTypeOK by
what `Selected` may return.

**RDMA pages.**  Tables are only ever added; `RingInv` relates the pages opened so far to
the tables that exist.

**GPU retention.**  A sample that was seen by a rollup is in its aggregate, past retention,
or in an hour that the next rollup computes anew (`RecentInv`, `Again`); a backfill has
aggregated everything behind it (`FillInv`), and when it is done no gap is left behind
the first aggregate (`GapInv`), which is what makes the gate's look at the first hour
enough.  Then all a prune is about to delete is kept (`CutoffInv`), and stays so,
because a prune is older than what any rollup computes again (`PrunedInv`).  The proof
shows how much time there is: `Timely` asks that the longest gap between rollups and the longest
backfill fit into the rollup's window together, and that the window is shorter than the
raw retention.  With the code's numbers (3 hours, an hourly timer, 90 days) a
backfill must end within two hours.

Only model-checked: the liveness properties JobsEnd, NoRowStarves, ExpiredIsSwept,
RowsConverge, HostsRecover, AgentsSettle, DeletesEnd, Drained, AliasFollows and CapStops
(fairness and ENABLED are outside the proof system's reach); and all of ReconcilePass, whose
properties are of that kind and whose order of rows is made by `SelectSeq`, about which
nothing can be proved without induction over sequences.  The violation
runs' claims are false and stay counterexamples.

## 6. Not modelled

Left out on purpose: ARM's migrations (schema), settings and token checks of the common
library, state-sync reports (columns nobody reads), collectors and power control,
read APIs (pure I/O), rendering, login, deployment history and benchmarks (plain
inserts), `build-release.sh` and `bootstrap-vm.sh` (they make the artifact and a fresh
VM).

Within the modelled parts: audit events, wording of errors, the steps table, MAC
and hostname checks of the hygiene gate (they may fail at any time: JobFails),
OPNsense login and CSRF retries (part of a call's success or failure), costs and
context lengths of models, names of presets, plans and stored messages of the
AgentManager, destructive migrations and the first deployment of all (without a
current release).  Scripts of a release run one at a time, as the workflow's
concurrency group has it.  `units` of ReleaseTransaction is kept because the scripts
write it; no property reads it.  Whether LiteLLM loads the file `litellm_sync` writes is not
modelled, since no code does it; the alias setting (`service/app/v011_core.py`:296-301) is
taken to be on, as the migration sets it and nothing else writes it.  Every row of table hosts is one of NODE_MAP: another one would
raise KeyError in each tick (`service/app/v011_recovery.py`:165) and leave the hosts after it
untreated.  Others clone VMs beside ARM's and do not delete them again in the model.  The
scripts do not compare route counts before and after a regeneration, as `docs/CI_CD.md`:50-51
says; there is nothing to model.

Of what is modelled, these are known to fail in the code and are therefore no properties
(PROJECT.json, "hazards", with the reason for each): that DESTROYED is final, that the
recovery budget is one per incident, that released sandbox addresses are usable again, and
that recovery runs again after an aborted deployment.  Should the code change there, the
actions named in the notes are the place to state them.
