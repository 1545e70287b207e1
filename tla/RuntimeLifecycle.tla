------------------------- MODULE RuntimeLifecycle -------------------------
(***************************************************************************)
(* The lifecycle of an agent runtime in the Agent Runtime Manager (ARM):   *)
(* POST /agent-runtimes (submit + run_job), DELETE /agent-runtimes/{id},   *)
(* POST .../supersede and POST .../desired-state, over the tables          *)
(* agent_runtimes and provisioning_jobs and the VM inventory of Proxmox.   *)
(*                                                                         *)
(* The handlers are synchronous functions run by a thread pool, each with  *)
(* a database session of its own, so they interleave at every commit and   *)
(* at every Proxmox call; one action stands for the code between two such  *)
(* points.  A session never reloads a row (expire_on_commit=False), so a   *)
(* handler works on the copy it loaded, and a commit writes the columns it *)
(* assigned; ownership_meta is one JSON column and is written as a whole.  *)
(*                                                                         *)
(* Simplifications.  A POST draws the uuid of the row it may insert, so    *)
(* POSTs, rows and jobs share the index set Runtimes.  node and vmid of a  *)
(* row are set and cleared together; the row keeps vmid.  Of               *)
(* ownership_meta the keys "ip" and "superseded_by_runtime_id" are kept.   *)
(* The DHCP reservation of sandboxes is in SandboxNetwork, the choice of   *)
(* the node in Placement, the reconciler in Reconciler.                    *)
(***************************************************************************)
EXTENDS Naturals

CONSTANTS
    Runtimes,           \* uuids of rows, one for each POST that may arrive
    Requests,           \* idempotency keys sent by ACMS
    Deleters,           \* threads serving DELETE
    Superseders,        \* threads serving supersede
    VmIds,              \* the VMIDs of the cluster, a set of numbers
    ForeignVms,         \* VMIDs of the VMs that are there before ARM is
    Protected,          \* settings.protected_vmids
    Nodes, TemplateNode,\* cluster nodes, and the one holding the template
    Ips,                \* addresses a guest may report
    MaxCrashes,         \* bound on restarts of the ARM process and on errors of
                        \* its database
    SerializedDeletes,  \* TRUE: clients never overlap two DELETEs of one runtime
    NULL

ASSUME ConstantsAssumption ==
    /\ VmIds \subseteq Nat
    /\ ForeignVms \subseteq VmIds
    /\ TemplateNode \in Nodes
    /\ MaxCrashes \in Nat
    /\ SerializedDeletes \in BOOLEAN
    /\ NULL \notin Runtimes \cup Requests \cup VmIds \cup Ips \cup Nodes

VARIABLES
    \* columns of table agent_runtimes
    desired, actual, vmid, meta,
    job,      \* table provisioning_jobs (the job of row r is job[r])
    vms,      \* VMs known to Proxmox
    \* handlers of POST /agent-runtimes: next step, locals, answer
    pc, loc, reply,
    del,      \* handlers of DELETE /agent-runtimes/{id}
    sup,      \* handlers of POST .../supersede
    crashes   \* restarts of the ARM process and database errors so far

row == <<desired, actual, vmid, meta>>
post == <<pc, loc, reply>>
vars == <<row, job, vms, post, del, sup, crashes>>

---------------------------------------------------------------------------
(* Types *)

RuntimeState == {"DESIRED_RUNNING", "DESIRED_STOPPED", "DESIRED_DESTROYED"}

\* "NONE": there is no such row.
ActualState == {"NONE", "ABSENT", "RUNNING", "ERROR", "DESTROYED", "SUPERSEDED"}

JobState == {"NONE", "QUEUED", "RUNNING", "DONE", "FAILED"}

OwnershipMeta == [ip: Ips \cup {NULL}, supersededBy: Runtimes \cup {NULL}]

ProvisioningJob == [req: Requests \cup {NULL}, state: JobState]

\* marker is the runtime id in the VM's description; owner records which
\* runtime's job cloned the VM (NULL: ARM did not), and no handler reads it.
VM == [exists: BOOLEAN, owner: Runtimes \cup {NULL},
       marker: Runtimes \cup {NULL}, power: {"stopped", "running"}]

\* The step of run_job a POST takes next while its job is RUNNING.
JobSteps == {"place", "nextid", "clone", "configure", "boot", "waitip",
             "hygiene", "bootstrap", "finish"}

\* Where a POST is: before and after run_job, too.
PostPc == {"idle", "insert", "start"} \cup JobSteps
            \cup {"done", "failed", "returned", "conflict", "crashed"}

Locals == [req: Requests \cup {NULL}, node: Nodes \cup {NULL},
           vmid: VmIds \cup {NULL}, ip: Ips \cup {NULL}]

Delete == [pc: {"idle", "shutdown", "destroy", "commit"},
           rt: Runtimes \cup {NULL}, vmid: VmIds \cup {NULL},
           desired: RuntimeState]

Supersede == [pc: {"idle", "commit"}, rt: Runtimes \cup {NULL},
              live: Runtimes \cup {NULL}, ip: Ips \cup {NULL}]

TypeOK ==
    /\ desired \in [Runtimes -> RuntimeState]
    /\ actual \in [Runtimes -> ActualState]
    /\ vmid \in [Runtimes -> VmIds \cup {NULL}]
    /\ meta \in [Runtimes -> OwnershipMeta]
    /\ job \in [Runtimes -> ProvisioningJob]
    /\ vms \in [VmIds -> VM]
    /\ pc \in [Runtimes -> PostPc]
    /\ loc \in [Runtimes -> Locals]
    /\ reply \in [Runtimes -> Runtimes \cup {NULL}]
    /\ del \in [Deleters -> Delete]
    /\ sup \in [Superseders -> Supersede]
    /\ crashes \in 0..MaxCrashes

---------------------------------------------------------------------------
(* Initial state *)

NoMeta == [ip |-> NULL, supersededBy |-> NULL]

NoJob == [req |-> NULL, state |-> "NONE"]

NoVm == [exists |-> FALSE, owner |-> NULL, marker |-> NULL, power |-> "stopped"]

ForeignVm == [NoVm EXCEPT !.exists = TRUE, !.power = "running"]

NoLocals == [req |-> NULL, node |-> NULL, vmid |-> NULL, ip |-> NULL]

IdleDelete == [pc |-> "idle", rt |-> NULL, vmid |-> NULL,
               desired |-> "DESIRED_RUNNING"]

IdleSupersede == [pc |-> "idle", rt |-> NULL, live |-> NULL, ip |-> NULL]

Init ==
    /\ desired = [r \in Runtimes |-> "DESIRED_RUNNING"]
    /\ actual = [r \in Runtimes |-> "NONE"]
    /\ vmid = [r \in Runtimes |-> NULL]
    /\ meta = [r \in Runtimes |-> NoMeta]
    /\ job = [r \in Runtimes |-> NoJob]
    /\ vms = [v \in VmIds |-> IF v \in ForeignVms THEN ForeignVm ELSE NoVm]
    /\ pc = [r \in Runtimes |-> "idle"]
    /\ loc = [r \in Runtimes |-> NoLocals]
    /\ reply = [r \in Runtimes |-> NULL]
    /\ del = [d \in Deleters |-> IdleDelete]
    /\ sup = [s \in Superseders |-> IdleSupersede]
    /\ crashes = 0

---------------------------------------------------------------------------
(* POST /agent-runtimes: submit *)

JobsOf(q) == {j \in Runtimes : job[j].req = q}

\* submit's SELECT by request_id: an existing job is the answer.
SubmitLookup(r, q) ==
    /\ pc[r] = "idle"
    /\ loc' = [loc EXCEPT ![r].req = q]
    /\ \/ \E j \in JobsOf(q) :
            /\ pc' = [pc EXCEPT ![r] = "returned"]
            /\ reply' = [reply EXCEPT ![r] = j]
       \/ /\ JobsOf(q) = {}
          /\ pc' = [pc EXCEPT ![r] = "insert"]
          /\ UNCHANGED reply
    /\ UNCHANGED <<row, job, vms, del, sup, crashes>>

\* Fault: no UNIQUE constraint.
RequestIdNotUnique(q) == TRUE

\* The UNIQUE constraint of provisioning_jobs.request_id.
RequestIdFree(q) == JobsOf(q) = {}

\* The commit of runtime and job: one transaction, so a duplicate request_id
\* rolls both back and the POST fails (500).
SubmitInsert(r) ==
    /\ pc[r] = "insert"
    /\ \/ /\ RequestIdFree(loc[r].req)
          /\ actual' = [actual EXCEPT ![r] = "ABSENT"]
          /\ \E x \in RuntimeState : desired' = [desired EXCEPT ![r] = x]
          /\ job' = [job EXCEPT ![r] = [req |-> loc[r].req, state |-> "QUEUED"]]
          /\ pc' = [pc EXCEPT ![r] = "start"]
       \/ /\ ~RequestIdFree(loc[r].req)
          /\ pc' = [pc EXCEPT ![r] = "conflict"]
          /\ UNCHANGED <<actual, desired, job>>
    /\ UNCHANGED <<vmid, meta, vms, loc, reply, del, sup, crashes>>

---------------------------------------------------------------------------
(* POST /agent-runtimes: run_job *)

StartJob(r) ==
    /\ pc[r] = "start"
    /\ job[r].state = "QUEUED"
    /\ job' = [job EXCEPT ![r].state = "RUNNING"]
    /\ pc' = [pc EXCEPT ![r] = "place"]
    /\ UNCHANGED <<row, vms, loc, reply, del, sup, crashes>>

\* VALIDATING, RESERVING and PLACING.
Place(r) ==
    /\ pc[r] = "place"
    /\ \E n \in Nodes : loc' = [loc EXCEPT ![r].node = n]
    /\ pc' = [pc EXCEPT ![r] = "nextid"]
    /\ UNCHANGED <<row, job, vms, reply, del, sup, crashes>>

\* GET /cluster/nextid: the lowest VMID in no VM's use at this moment.
IsNextVmid(v) ==
    /\ ~vms[v].exists
    /\ \A w \in VmIds : ~vms[w].exists => v <= w

NextVmid(r) ==
    /\ pc[r] = "nextid"
    /\ \E v \in VmIds :
         /\ IsNextVmid(v)
         /\ loc' = [loc EXCEPT ![r].vmid = v]
    /\ pc' = [pc EXCEPT ![r] = "clone"]
    /\ UNCHANGED <<row, job, vms, reply, del, sup, crashes>>

\* Proxmox refuses to clone to a VMID in use.
CloneAccepted(v) == ~vms[v].exists

\* Fault: the row learns its VMID as soon as the clone is made.
CloneRecordsVmid(r) ==
    /\ pc[r] = "clone"
    /\ CloneAccepted(loc[r].vmid)
    /\ vms' = [vms EXCEPT ![loc[r].vmid] =
                 [exists |-> TRUE, owner |-> r, marker |-> NULL, power |-> "stopped"]]
    /\ pc' = [pc EXCEPT ![r] = "configure"]
    /\ vmid' = [vmid EXCEPT ![r] = loc[r].vmid]
    /\ UNCHANGED <<desired, actual, meta, job, loc, reply, del, sup, crashes>>

CloneTemplate(r) ==
    /\ pc[r] = "clone"
    /\ CloneAccepted(loc[r].vmid)
    /\ vms' = [vms EXCEPT ![loc[r].vmid] =
                 [exists |-> TRUE, owner |-> r, marker |-> NULL, power |-> "stopped"]]
    /\ pc' = [pc EXCEPT ![r] = "configure"]
    /\ UNCHANGED <<row, job, loc, reply, del, sup, crashes>>

\* The job's session writes back the JSON it has in memory, which holds no
\* link to a superseding runtime.
WriteMeta(r, ip) ==
    meta' = [meta EXCEPT ![r] = [ip |-> ip, supersededBy |-> NULL]]

\* configure_cloud_init writes the marker through the template's node, which
\* has the VM's configuration only when the VM was placed there.
ConfigReachable(r) == loc[r].node = TemplateNode

\* Fault: the marker is stamped with the VMID instead of the runtime id.
MarkerOfVmid(r) ==
    /\ pc[r] = "configure"
    /\ vms[loc[r].vmid].exists
    /\ ConfigReachable(r)
    /\ vms' = [vms EXCEPT ![loc[r].vmid].marker = loc[r].vmid]
    /\ pc' = [pc EXCEPT ![r] = "boot"]
    /\ UNCHANGED <<row, job, loc, reply, del, sup, crashes>>

\* A sandbox's row also gets its MAC, in ownership_meta.
ConfigureCloudInit(r) ==
    /\ pc[r] = "configure"
    /\ vms[loc[r].vmid].exists
    /\ ConfigReachable(r)
    /\ vms' = [vms EXCEPT ![loc[r].vmid].marker = r]
    /\ WriteMeta(r, NULL) \/ UNCHANGED meta
    /\ pc' = [pc EXCEPT ![r] = "boot"]
    /\ UNCHANGED <<desired, actual, vmid, job, loc, reply, del, sup, crashes>>

Boot(r) ==
    /\ pc[r] = "boot"
    /\ vms[loc[r].vmid].exists
    /\ vms' = [vms EXCEPT ![loc[r].vmid].power = "running"]
    /\ pc' = [pc EXCEPT ![r] = "waitip"]
    /\ UNCHANGED <<row, job, loc, reply, del, sup, crashes>>

\* wait_for_ip, and the commit that publishes ownership_meta["ip"].
WaitForIp(r) ==
    /\ pc[r] = "waitip"
    /\ \E ip \in Ips :
         /\ WriteMeta(r, ip)
         /\ loc' = [loc EXCEPT ![r].ip = ip]
    /\ pc' = [pc EXCEPT ![r] = "hygiene"]
    /\ UNCHANGED <<desired, actual, vmid, job, vms, reply, del, sup, crashes>>

OtherRuntimeIps(r) ==
    {meta[o].ip : o \in {x \in Runtimes \ {r} : actual[x] # "NONE"}} \ {NULL}

\* Fault: the hygiene gate does not compare addresses.
CloneIdentityNoIp(r) ==
    /\ vms[loc[r].vmid].exists
    /\ vms[loc[r].vmid].marker = r

\* verify_clone_identity; an unreadable configuration yields no MAC and no
\* marker, and fails.  MAC, hostname and netplan may fail too: JobFails.
CloneIdentityOk(r) ==
    /\ vms[loc[r].vmid].exists
    /\ vms[loc[r].vmid].marker = r
    /\ loc[r].ip \notin OtherRuntimeIps(r)

HygieneGate(r) ==
    /\ pc[r] = "hygiene"
    /\ CloneIdentityOk(r)
    /\ WriteMeta(r, loc[r].ip)
    /\ pc' = [pc EXCEPT ![r] = "bootstrap"]
    /\ UNCHANGED <<desired, actual, vmid, job, vms, loc, reply, del, sup, crashes>>

\* _bootstrap_hermes: bridge credential and state branch.
BootstrapHermes(r) ==
    /\ pc[r] = "bootstrap"
    /\ WriteMeta(r, loc[r].ip)
    /\ pc' = [pc EXCEPT ![r] = "finish"]
    /\ UNCHANGED <<desired, actual, vmid, job, vms, loc, reply, del, sup, crashes>>

\* Fault: the row's vmid is not stored when the job is done.
JobDoneForgetsVmid(r) ==
    /\ pc[r] = "finish"
    /\ actual' = [actual EXCEPT ![r] = "RUNNING"]
    /\ job' = [job EXCEPT ![r].state = "DONE"]
    /\ pc' = [pc EXCEPT ![r] = "done"]
    /\ reply' = [reply EXCEPT ![r] = r]
    /\ UNCHANGED <<desired, vmid, meta, vms, loc, del, sup, crashes>>

\* Only here does the row learn its VMID.
JobDone(r) ==
    /\ pc[r] = "finish"
    /\ actual' = [actual EXCEPT ![r] = "RUNNING"]
    /\ vmid' = [vmid EXCEPT ![r] = loc[r].vmid]
    /\ job' = [job EXCEPT ![r].state = "DONE"]
    /\ pc' = [pc EXCEPT ![r] = "done"]
    /\ reply' = [reply EXCEPT ![r] = r]
    /\ UNCHANGED <<desired, meta, vms, loc, del, sup, crashes>>

\* Fault: an error of clone_template is not caught.
CloneErrorEscapes(r) ==
    /\ pc[r] \in JobSteps \ {"clone", "bootstrap", "finish"}
    /\ actual' = [actual EXCEPT ![r] = "ERROR"]
    /\ job' = [job EXCEPT ![r].state = "FAILED"]
    /\ pc' = [pc EXCEPT ![r] = "failed"]
    /\ reply' = [reply EXCEPT ![r] = r]
    /\ UNCHANGED <<desired, vmid, meta, vms, loc, del, sup, crashes>>

\* Any step that calls out may raise: placement rejected, storage inactive,
\* VMID taken, lock held, VM unreachable, no guest IP, hygiene rejected.  The
\* VM, if there is one, is left alone.
JobFails(r) ==
    /\ pc[r] \in JobSteps \ {"bootstrap", "finish"}
    /\ actual' = [actual EXCEPT ![r] = "ERROR"]
    /\ \/ pc[r] = "hygiene" /\ WriteMeta(r, loc[r].ip)
       \/ pc[r] # "hygiene" /\ UNCHANGED meta
    /\ job' = [job EXCEPT ![r].state = "FAILED"]
    /\ pc' = [pc EXCEPT ![r] = "failed"]
    /\ reply' = [reply EXCEPT ![r] = r]
    /\ UNCHANGED <<desired, vmid, vms, loc, del, sup, crashes>>

\* The database fails under run_job.  Without a rollback the except branch cannot
\* write FAILED either: the POST ends (500), row and job stay as committed last.
JobLost(r) ==
    /\ pc[r] \in JobSteps \cup {"start"}
    /\ crashes < MaxCrashes
    /\ crashes' = crashes + 1
    /\ pc' = [pc EXCEPT ![r] = "crashed"]
    /\ UNCHANGED <<row, job, vms, loc, reply, del, sup>>

---------------------------------------------------------------------------
(* DELETE /agent-runtimes/{id} *)

\* Fault: existence is taken for ownership.
VerifyNoMarker(r, v) == v \notin Protected /\ vms[v].exists

\* Fault: the protected list is not consulted.
VerifyNoProtected(r, v) == vms[v].exists /\ vms[v].marker = r

\* verify_ownership: not protected, the VM exists, and its marker names r.
VerifyOwnership(r, v) ==
    /\ v \notin Protected
    /\ vms[v].exists
    /\ vms[v].marker = r

\* Which overlapping DELETEs the clients may send.
DeleteAllowed(r) ==
    SerializedDeletes => \A e \in Deleters : del[e].pc = "idle" \/ del[e].rt # r

\* Fault: a row without a VM is marked destroyed at once.
DeleteVmless(d, r) ==
    /\ del[d].pc = "idle"
    /\ DeleteAllowed(r)
    /\ actual[r] # "NONE"
    /\ vmid[r] # NULL => VerifyOwnership(r, vmid[r])
    /\ del' = [del EXCEPT ![d] = [pc |-> IF vmid[r] = NULL THEN "commit" ELSE "shutdown",
                                  rt |-> r, vmid |-> vmid[r], desired |-> desired[r]]]
    /\ UNCHANGED <<row, job, vms, post, sup, crashes>>

\* Load, verify, audit.  A refusal (409, 403) only adds an audit event.
DeleteVerify(d, r) ==
    /\ del[d].pc = "idle"
    /\ DeleteAllowed(r)
    /\ vmid[r] # NULL
    /\ VerifyOwnership(r, vmid[r])
    /\ del' = [del EXCEPT ![d] = [pc |-> "shutdown", rt |-> r,
                                  vmid |-> vmid[r], desired |-> desired[r]]]
    /\ UNCHANGED <<row, job, vms, post, sup, crashes>>

\* provider.shutdown returns once Proxmox accepted the request (or, if that
\* failed, the forced stop): the VM may be off by then, or not yet.
DeleteShutdown(d) ==
    /\ del[d].pc = "shutdown"
    /\ vms[del[d].vmid].exists
    /\ \E p \in {"stopped", vms[del[d].vmid].power} :
         vms' = [vms EXCEPT ![del[d].vmid].power = p]
    /\ del' = [del EXCEPT ![d].pc = "destroy"]
    /\ UNCHANGED <<row, job, post, sup, crashes>>

\* Proxmox refuses to delete a running VM.
DeleteDestroy(d) ==
    /\ del[d].pc = "destroy"
    /\ vms[del[d].vmid].exists
    /\ vms[del[d].vmid].power = "stopped"
    /\ vms' = [vms EXCEPT ![del[d].vmid] = NoVm]
    /\ del' = [del EXCEPT ![d].pc = "commit"]
    /\ UNCHANGED <<row, job, post, sup, crashes>>

\* desired_state is written only if it differs from the loaded value.
DeleteCommit(d) ==
    /\ del[d].pc = "commit"
    /\ actual' = [actual EXCEPT ![del[d].rt] = "DESTROYED"]
    /\ vmid' = [vmid EXCEPT ![del[d].rt] = NULL]
    /\ \/ /\ del[d].desired # "DESIRED_DESTROYED"
          /\ desired' = [desired EXCEPT ![del[d].rt] = "DESIRED_DESTROYED"]
       \/ del[d].desired = "DESIRED_DESTROYED" /\ UNCHANGED desired
    /\ del' = [del EXCEPT ![d] = IdleDelete]
    /\ UNCHANGED <<meta, job, vms, post, sup, crashes>>

\* A Proxmox error escapes the handler (500); nothing more is written.
DeleteAborts(d) ==
    /\ del[d].pc \in {"shutdown", "destroy"}
    /\ del' = [del EXCEPT ![d] = IdleDelete]
    /\ UNCHANGED <<row, job, vms, post, sup, crashes>>

---------------------------------------------------------------------------
(* POST .../supersede and POST .../desired-state *)

Supersedable(r) ==
    /\ actual[r] \notin {"NONE", "SUPERSEDED", "RUNNING"}
    /\ vmid[r] = NULL

SupersedeLoad(s, r, l) ==
    /\ sup[s].pc = "idle"
    /\ r # l
    /\ actual[l] # "NONE"
    /\ Supersedable(r)
    /\ sup' = [sup EXCEPT ![s] = [pc |-> "commit", rt |-> r, live |-> l,
                                  ip |-> meta[r].ip]]
    /\ UNCHANGED <<row, job, vms, post, del, crashes>>

SupersedeCommit(s) ==
    /\ sup[s].pc = "commit"
    /\ actual' = [actual EXCEPT ![sup[s].rt] = "SUPERSEDED"]
    /\ meta' = [meta EXCEPT ![sup[s].rt] = [ip |-> sup[s].ip,
                                            supersededBy |-> sup[s].live]]
    /\ sup' = [sup EXCEPT ![s] = IdleSupersede]
    /\ UNCHANGED <<desired, vmid, job, vms, post, del, crashes>>

SetDesiredState(r, x) ==
    /\ actual[r] # "NONE"
    /\ desired' = [desired EXCEPT ![r] = x]
    /\ UNCHANGED <<actual, vmid, meta, job, vms, post, del, sup, crashes>>

---------------------------------------------------------------------------
(* Restart of the ARM process: every handler is gone, tables and VMs stay. *)

Ended == {"idle", "done", "failed", "returned", "conflict", "crashed"}

Crash ==
    /\ crashes < MaxCrashes
    /\ crashes' = crashes + 1
    /\ pc' = [r \in Runtimes |-> IF pc[r] \in Ended THEN pc[r] ELSE "crashed"]
    /\ del' = [d \in Deleters |-> IdleDelete]
    /\ sup' = [s \in Superseders |-> IdleSupersede]
    /\ UNCHANGED <<row, job, vms, loc, reply>>

---------------------------------------------------------------------------
(* The other users of the cluster *)

\* Another program or an operator clones a VM of its own to any free VMID, one
\* that a DELETE has just freed included, while rows and handlers still hold it.
ForeignClone(v) ==
    /\ CloneAccepted(v)
    /\ vms' = [vms EXCEPT ![v] = ForeignVm]
    /\ UNCHANGED <<row, job, post, del, sup, crashes>>

---------------------------------------------------------------------------
(* Specification *)

RunJob(r) ==
    \/ StartJob(r) \/ Place(r) \/ NextVmid(r) \/ CloneTemplate(r)
    \/ ConfigureCloudInit(r) \/ Boot(r) \/ WaitForIp(r)
    \/ HygieneGate(r) \/ BootstrapHermes(r) \/ JobDone(r) \/ JobFails(r)

DeleteStep(d) ==
    DeleteShutdown(d) \/ DeleteDestroy(d) \/ DeleteCommit(d) \/ DeleteAborts(d)

Next ==
    \/ \E r \in Runtimes, q \in Requests : SubmitLookup(r, q)
    \/ \E r \in Runtimes : SubmitInsert(r) \/ RunJob(r) \/ JobLost(r)
    \/ \E d \in Deleters, r \in Runtimes : DeleteVerify(d, r)
    \/ \E d \in Deleters : DeleteStep(d)
    \/ \E s \in Superseders, r, l \in Runtimes : SupersedeLoad(s, r, l)
    \/ \E s \in Superseders : SupersedeCommit(s)
    \/ \E r \in Runtimes, x \in RuntimeState : SetDesiredState(r, x)
    \/ Crash
    \/ \E v \in VmIds : ForeignClone(v)

Spec == Init /\ [][Next]_vars

\* A handler that was started keeps running: every wait in it has a deadline.
Fairness == \A r \in Runtimes : WF_vars(SubmitInsert(r) \/ RunJob(r))

FairSpec == Spec /\ Fairness

---------------------------------------------------------------------------
(* Properties *)

\* Every answer to POSTs with one request_id names the same runtime, and the
\* request has one job, whatever retries overlap (submit's idempotence).
IdempotentSubmit ==
    /\ \A a, b \in Runtimes :
         job[a].req = job[b].req /\ job[a].req # NULL => a = b
    /\ \A a, b \in Runtimes :
         /\ reply[a] # NULL /\ reply[b] # NULL
         /\ loc[a].req = loc[b].req
         => reply[a] = reply[b]

\* A DELETE shuts down or destroys only the VM that the deleted runtime's own
\* job cloned (the hard rules of proxmox_vm.py), even though VMIDs are reused
\* and the ownership check is several Proxmox calls before the deletion.
DeleteTouchesOwnVmOnly ==
    [][\A d \in Deleters, v \in VmIds :
         DeleteStep(d) /\ vms'[v] # vms[v] => vms[v].owner = del[d].rt]_vars

\* The step leaves VM v there, and running if it was.
StaysUp(v) ==
    vms[v].exists =>
        vms'[v].exists /\ (vms[v].power = "running" => vms'[v].power = "running")

\* No step stops or removes a protected VM (verify_ownership in the DELETE
\* handler), however the handlers overlap.
ProtectedUntouched == [][\A v \in VmIds \cap Protected : StaysUp(v)]_vars

\* No step stops or removes a protected VM, or one ARM did not create, even one
\* cloned by others to a VMID that a row or a DELETE still names
\* (verify_ownership in the DELETE handler).
ForeignAndProtectedUntouched ==
    [][\A v \in VmIds : v \in Protected \/ vms[v].owner = NULL => StaysUp(v)]_vars

\* A VM that ARM created is never forgotten: its row names it, or its job is
\* on record as running (perhaps cut short, by a restart or by an error of the
\* database) or failed.
VmAccounted ==
    \A v \in VmIds, r \in Runtimes :
        vms[v].exists /\ vms[v].owner = r =>
            vmid[r] = v \/ job[r].state \in {"RUNNING", "FAILED"}

\* Two runtimes reported RUNNING never have the same address: each publishes
\* its own before it looks at the others' (the IP check of the hygiene gate).
RunningIpsDistinct ==
    \A a, b \in Runtimes :
        /\ a # b
        /\ actual[a] = "RUNNING" /\ actual[b] = "RUNNING"
        => meta[a].ip # meta[b].ip

\* A row whose VM is still the one its job cloned can be deleted through the
\* API: the marker is on the VM (configure_cloud_init before job DONE).
RowVmIsMarked ==
    \A r \in Runtimes :
        vmid[r] # NULL =>
            LET v == vmid[r] IN
            vms[v].exists /\ vms[v].owner = r => vms[v].marker = r

\* A row superseded after its POST ended stays superseded, without a VM, and
\* keeps a link to a superseding runtime (the supersede handler).
SettledSupersedeStays ==
    [][\A r \in Runtimes :
         /\ actual[r] = "SUPERSEDED" /\ vmid[r] = NULL
         /\ pc[r] \in Ended
         => /\ actual'[r] = "SUPERSEDED" /\ vmid'[r] = NULL
            /\ meta[r].supersededBy # NULL => meta'[r].supersededBy # NULL]_vars

\* Every accepted job ends, or its POST was cut short by a restart or by an error
\* of the database: nothing else leaves a job QUEUED or RUNNING (run_job).
JobsEnd ==
    \A r \in Runtimes :
        job[r].state \in {"QUEUED", "RUNNING"} ~>
            job[r].state \in {"DONE", "FAILED"} \/ pc[r] = "crashed"
---------------------------------------------------------------------------
(* The service these handlers implement *)

\* Steps of run_job at which the job's VM exists.
AfterClone == {"configure", "boot", "waitip", "hygiene", "bootstrap", "finish"}

sent == [r \in Runtimes |-> loc[r].req]

request == [r \in Runtimes |-> job[r].req]

\* Runtimes whose job does not clone a VM any more.
spent == {r \in Runtimes : /\ job[r].req # NULL
                           /\ pc[r] \in AfterClone \cup {"done", "failed", "crashed"}}

machine == [r \in Runtimes |-> {v \in VmIds : vms[v].owner = r}]

\* Runtimes whose VM a DELETE has verified and not yet destroyed.
deleting == {r \in Runtimes : \E d \in Deleters :
               del[d].pc \in {"shutdown", "destroy"} /\ del[d].rt = r}

others == {v \in VmIds : vms[v].exists /\ vms[v].owner = NULL}

Service == INSTANCE RuntimeService WITH
    sent <- sent, answer <- reply, request <- request, spent <- spent,
    machine <- machine, deleting <- deleting, others <- others

\* Jobs, threads and markers are invisible to the client: whatever handlers
\* overlap and wherever a restart cuts them, each request has one runtime,
\* each runtime is given at most one VM, ever, and only its own deletion
\* removes it (submit, run_job and DELETE of the runtime API).
ImplementsService == Service!Spec

---------------------------------------------------------------------------
(* Inductive invariants *)

\* Steps of a POST at which its job row exists but its VM does not yet.
BeforeClone == {"start", "place", "nextid", "clone"}

\* The request of a POST and of its job agree.
PostJobInv ==
    \A r \in Runtimes :
        /\ pc[r] \in BeforeClone \cup AfterClone \cup {"done", "failed"}
             => job[r].req = loc[r].req /\ loc[r].req # NULL
        /\ pc[r] \in {"idle", "insert", "returned", "conflict"} => job[r] = NoJob
        /\ pc[r] \in JobSteps => job[r].state = "RUNNING"
        /\ pc[r] = "insert" => loc[r].req # NULL
        /\ pc[r] = "idle" => loc[r].req = NULL

\* An answer is a job of the request that was sent.
ReplyInv ==
    \A r \in Runtimes :
        reply[r] # NULL => /\ pc[r] \in {"returned", "done", "failed"}
                           /\ loc[r].req # NULL
                           /\ job[reply[r]].req = loc[r].req

OneJobPerRequest ==
    \A a, b \in Runtimes : job[a].req = job[b].req /\ job[a].req # NULL => a = b

SubmitInv == PostJobInv /\ ReplyInv /\ OneJobPerRequest

\* A DELETE holds no protected VMID.
ProtectedInv ==
    \A d \in Deleters :
        del[d].pc # "idle" => del[d].vmid \in VmIds \ Protected

\* A row names the VM of its own, finished job or none.
RowVmInv ==
    \A r \in Runtimes :
        /\ pc[r] \in AfterClone \cup {"clone", "done"} => loc[r].vmid \in VmIds
        /\ vmid[r] # NULL => pc[r] = "done" /\ vmid[r] = loc[r].vmid

\* A runtime has at most one VM, the one its POST cloned.
OwnedVmInv ==
    \A v \in VmIds, r \in Runtimes : vms[v].owner = r =>
        /\ vms[v].exists
        /\ loc[r].vmid = v
        /\ pc[r] \in AfterClone \cup {"done", "failed", "crashed"}
        /\ pc[r] = "done" => vmid[r] = v
        /\ pc[r] # "done" => job[r].state \in {"RUNNING", "FAILED"}

\* A DELETE works on a finished runtime; at its commit the VM is gone.
DeleteInv ==
    \A d \in Deleters :
        /\ del[d].pc # "idle" => /\ del[d].rt \in Runtimes
                                 /\ pc[del[d].rt] = "done"
                                 /\ del[d].vmid = loc[del[d].rt].vmid
        /\ del[d].pc = "commit" => \A v \in VmIds : vms[v].owner # del[d].rt

SupersedeInv ==
    \A s \in Superseders :
        sup[s].pc = "commit" => sup[s].rt \in Runtimes /\ sup[s].live \in Runtimes

\* A runtime's VM, its POST and its row tell one story.
AccountInv == RowVmInv /\ OwnedVmInv /\ DeleteInv /\ SupersedeInv

\* The VM a POST works on is its own.
HeldVmInv ==
    \A r \in Runtimes : pc[r] \in AfterClone =>
        vms[loc[r].vmid].exists /\ vms[loc[r].vmid].owner = r

\* A marker tells the truth, and is there from configure_cloud_init on.
MarkerInv ==
    \A v \in VmIds :
        /\ vms[v].marker # NULL => vms[v].owner = vms[v].marker
        /\ \A r \in Runtimes :
             /\ vms[v].owner = r
             /\ pc[r] \in (AfterClone \ {"configure"}) \cup {"done"}
             => vms[v].marker = r

\* The VM a DELETE is about to stop or destroy is still its runtime's.
TargetInv ==
    \A d \in Deleters :
        /\ del[d].pc # "idle" => vmid[del[d].rt] = del[d].vmid
        /\ del[d].pc \in {"shutdown", "destroy"} =>
             vms[del[d].vmid].exists /\ vms[del[d].vmid].owner = del[d].rt

DeletesApart ==
    \A d, e \in Deleters :
        del[d].pc # "idle" /\ del[e].pc # "idle" /\ del[d].rt = del[e].rt => d = e

\* What overlapping DELETEs of one runtime would break.  A VM that ARM did not
\* create has no marker, so no DELETE targets it and no POST works on it.
OwnerInv == HeldVmInv /\ MarkerInv /\ TargetInv /\ DeletesApart

\* Without supersede, a runtime past the gate has an address no other
\* runtime past the gate has.
IpInv ==
    /\ \A r \in Runtimes :
         /\ pc[r] \in {"hygiene", "bootstrap", "finish", "done"} =>
              meta[r].ip = loc[r].ip /\ loc[r].ip \in Ips /\ actual[r] # "NONE"
         /\ pc[r] \notin {"idle", "insert", "returned", "conflict", "crashed"} =>
              actual[r] # "NONE"
         /\ actual[r] = "RUNNING" => pc[r] = "done"
    /\ \A a, b \in Runtimes :
         /\ a # b
         /\ pc[a] \in {"bootstrap", "finish", "done"}
         /\ pc[b] \in {"bootstrap", "finish", "done"}
         => meta[a].ip # meta[b].ip
===========================================================================
