------------------------ MODULE AgentManager_proofs ------------------------
(***************************************************************************)
(* Types of AgentManager, that a job names its agent's VM, and that nobody *)
(* waits for a thread that is gone, for any number of agents, VMIDs,       *)
(* restarts and VMs lost in Proxmox.                                       *)
(***************************************************************************)
EXTENDS AgentManager, TLAPS

\* The thread has not cloned yet; and the steps of its long transactions.
BeforeClone == {"none", "validate", "reserve", "clone"}
InTransaction == {"start", "inject", "key", "test", "mute", "ready"}

\* The row's thread clones at most once, with the number it has committed.
CloneInv ==
    \A a \in Agents :
        /\ row[a] = "none" => pc[a] = "none"
        /\ pc[a] \in BeforeClone => \A v \in VmIds : owner[v] # a
        /\ pc[a] = "clone" => vmid[a] \in VmIds
        /\ pc[a] = "clone" /\ HasRow(a) => jvm[a] = vmid[a]

\* The row cannot be deleted under a transaction that holds its job's lock, so
\* that no UPDATE of the thread brings a deleted row back.
LockInv ==
    \A a \in Agents :
        /\ held[a] => HasRow(a)
        /\ pc[a] \in InTransaction => held[a]

JobInv == CloneInv /\ LockInv /\ VmNamedByJob

---------------------------------------------------------------------------
(* Types *)

LEMMA InitTypes == Init => TypeOK
  BY AgentManagerAssumption DEF Init, TypeOK

LEMMA ProvisionTypes ==
    ASSUME TypeOK, NEW a \in Agents, Provision(a)
    PROVE  TypeOK'
<1> USE DEF TypeOK, Steps
<1>1. CASE \/ Validate(a) \/ Cloned(a) \/ Configure(a) \/ Boot(a) \/ Inject(a)
           \/ IssueKey(a) \/ Test(a) \/ FailCommit(a)
  <2>1. pc' \in [Agents -> Steps \cup {"none", "done", "dead", "killed", "lost"}]
    BY <1>1
    DEF Validate, Cloned, Configure, Boot, Inject, IssueKey, Test, FailCommit, Fails, Begin,
        GoTo
  <2>2. held' \in [Agents -> BOOLEAN]
    BY <1>1
    DEF Validate, Cloned, Configure, Boot, Inject, IssueKey, Test, FailCommit, Fails, HasRow
  <2>3. row' \in [Agents -> {"none", "PROVISIONING", "READY", "STOPPED", "ERROR", "deleted"}]
    BY <1>1
    DEF Validate, Cloned, Configure, Boot, Inject, IssueKey, Test, FailCommit, Fails
  <2>4. UNCHANGED <<job, web, pve, faults>>
    BY <1>1
    DEF Validate, Cloned, Configure, Boot, Inject, IssueKey, Test, FailCommit, Fails
  <2>. QED
    BY <2>1, <2>2, <2>3, <2>4 DEF job, web, pve
<1>2. CASE Fails(a)
  BY <1>2 DEF Fails, GoTo, job, web, pve
<1>3. CASE Reserve(a)
  BY <1>2, <1>3 DEF Reserve, Begin, GoTo, web, pve
<1>4. CASE Clone(a)
  <2>1. ASSUME ~Fails(a) PROVE TypeOK'
    <3>1. /\ owner' \in [VmIds -> Agents \cup {NULL}] /\ power' \in [VmIds -> BOOLEAN]
          /\ pc' \in [Agents -> Steps \cup {"none", "done", "dead", "killed", "lost"}]
      BY <1>4, <2>1 DEF Clone, GoTo
    <3>2. UNCHANGED <<row, job, held, web, faults>>
      BY <1>4, <2>1 DEF Clone
    <3>. QED
      BY <3>1, <3>2 DEF job, web
  <2>. QED
    BY <1>2, <2>1
<1>5. CASE StartAgentVm(a)
  <2>1. ASSUME ~Fails(a) PROVE TypeOK'
    <3>1. /\ power' \in [VmIds -> BOOLEAN] /\ held' \in [Agents -> BOOLEAN]
          /\ pc' \in [Agents -> Steps \cup {"none", "done", "dead", "killed", "lost"}]
      BY <1>5, <2>1 DEF StartAgentVm, GoTo
    <3>2. UNCHANGED <<row, job, web, owner, faults>>
      BY <1>5, <2>1 DEF StartAgentVm
    <3>. QED
      BY <3>1, <3>2 DEF job, web
  <2>. QED
    BY <1>2, <2>1
<1>6. CASE Finish(a)
  BY <1>6 DEF Finish, GoTo, web, pve
<1>. QED
  BY <1>1, <1>3, <1>4, <1>5, <1>6 DEF Provision

LEMMA DeleteTypes ==
    ASSUME TypeOK, NEW a \in Agents, Delete(a) \/ DeleteRead(a)
    PROVE  TypeOK'
<1> USE DEF TypeOK, Steps
<1>1. CASE DeleteRead(a)
  BY <1>1 DEF DeleteRead, job, pve
<1>2. CASE DeleteStop(a)
  BY <1>2 DEF DeleteStop, job
<1>3. CASE DeleteRow(a) \/ DeleteUnblocked(a)
  BY <1>3 DEF DeleteRow, DeleteUnblocked, RowGone, job, pve
<1>4. CASE Deadlock(a)
  BY <1>4 DEF Deadlock, RowGone, GoTo, At, job, pve
<1>. QED
  BY <1>1, <1>2, <1>3, <1>4 DEF Delete

LEMMA NextTypes == TypeOK /\ [Next]_vars => TypeOK'
<1> SUFFICES ASSUME TypeOK, [Next]_vars PROVE TypeOK'
  OBVIOUS
<1> USE DEF TypeOK, Steps
<1>1. ASSUME NEW a \in Agents, Create(a) PROVE TypeOK'
  BY <1>1 DEF Create, GoTo, job, web, pve
<1>2. ASSUME NEW a \in Agents, NEW op \in {"stop", "start"}, PowerCall(a, op) PROVE TypeOK'
  BY <1>2 DEF PowerCall, job
<1>3. ASSUME NEW a \in Agents, PowerDone(a) PROVE TypeOK'
  BY <1>3 DEF PowerDone, job, pve
<1>4. ASSUME NEW a \in Agents, ChatAsk(a) \/ ChatDone(a) PROVE TypeOK'
  BY <1>4 DEF ChatAsk, ChatDone, job, pve
<1>5. CASE ListRead
  BY <1>5 DEF ListRead, job, pve
<1>6. CASE ListFix
  BY <1>6 DEF ListFix, job, pve
<1>7. ASSUME NEW v \in VmIds, VmLost(v) PROVE TypeOK'
  BY <1>7, AgentManagerAssumption DEF VmLost, job, web
<1>8. CASE Restart
  BY <1>8, AgentManagerAssumption DEF Restart, job, pve
<1>10. ASSUME NEW a \in Agents, DbError(a) PROVE TypeOK'
  BY <1>10, AgentManagerAssumption DEF DbError, GoTo, job, web, pve
<1>9. CASE UNCHANGED vars
  BY <1>9 DEF vars, job, web, pve
<1>. QED
  BY <1>1, <1>2, <1>3, <1>4, <1>5, <1>6, <1>7, <1>8, <1>9, <1>10, ProvisionTypes, DeleteTypes
  DEF Next

\* Every row, job, thread and handler of the Agent Manager keeps its type.
THEOREM TypeCorrect == Spec => []TypeOK
  BY InitTypes, NextTypes, PTL DEF Spec

---------------------------------------------------------------------------
(* The job names the VM *)

LEMMA InitJob == Init => JobInv
  BY AgentManagerAssumption
  DEF Init, JobInv, CloneInv, LockInv, VmNamedByJob, HasRow, BeforeClone, InTransaction

\* A step of one agent's thread or handlers leaves the other agents' jobs alone,
\* and does not give them VMs.
OthersKept(a) ==
    \A b \in Agents \ {a} :
        /\ row'[b] = row[b] /\ jvm'[b] = jvm[b] /\ pc'[b] = pc[b] /\ vmid'[b] = vmid[b]
        /\ held'[b] = held[b]
        /\ \A v \in VmIds : owner'[v] = b => owner[v] = b

\* What JobInv says of one agent.
JobOf(a) ==
    /\ row[a] = "none" => pc[a] = "none"
    /\ pc[a] \in BeforeClone => \A v \in VmIds : owner[v] # a
    /\ pc[a] = "clone" => vmid[a] \in VmIds
    /\ pc[a] = "clone" /\ HasRow(a) => jvm[a] = vmid[a]
    /\ held[a] => HasRow(a)
    /\ pc[a] \in InTransaction => held[a]
    /\ \A v \in VmIds : owner[v] = a /\ HasRow(a) => jvm[a] = v

LEMMA JobInvIs == JobInv <=> \A a \in Agents : JobOf(a)
  BY DEF JobInv, CloneInv, LockInv, VmNamedByJob, JobOf

LEMMA OneJob ==
    ASSUME JobInv, NEW a \in Agents, OthersKept(a), JobOf(a)' PROVE JobInv'
<1>1. \A b \in Agents : JobOf(b)
  BY JobInvIs
<1>2. \A b \in Agents \ {a} : JobOf(b)'
  BY <1>1 DEF OthersKept, JobOf, HasRow
<1>3. JobInv' <=> \A b \in Agents : JobOf(b)'
  BY DEF JobInv, CloneInv, LockInv, VmNamedByJob, JobOf
<1>. QED
  BY <1>2, <1>3

LEMMA ProvisionJob ==
    ASSUME TypeOK, JobInv, NEW a \in Agents, Provision(a)
    PROVE  JobInv'
<1>0. JobOf(a)
  BY JobInvIs
<1> USE DEF TypeOK, At, GoTo, BeforeClone, InTransaction, HasRow
<1>1. CASE Fails(a) /\ pc[a] \in Steps
  <2>1. OthersKept(a)
    BY <1>1 DEF Fails, OthersKept, job, pve
  <2>2. JobOf(a)'
    BY <1>0, <1>1 DEF Fails, JobOf, job, pve, Steps
  <2>. QED
    BY <2>1, <2>2, OneJob
<1>2. CASE Validate(a)
  <2>1. OthersKept(a)
    BY <1>2 DEF Validate, Begin, OthersKept, job, pve
  <2>2. JobOf(a)'
    BY <1>0, <1>2 DEF Validate, Begin, JobOf, job, pve
  <2>. QED
    BY <2>1, <2>2, OneJob
<1>3. CASE Reserve(a) /\ ~Fails(a)
  <2>1. PICK v \in VmIds : /\ vmid' = [vmid EXCEPT ![a] = v]
                           /\ jvm' = IF HasRow(a) THEN [jvm EXCEPT ![a] = v] ELSE jvm
    BY <1>3 DEF Reserve
  <2>2. OthersKept(a)
    BY <1>3, <2>1 DEF Reserve, Begin, OthersKept, pve
  <2>3. JobOf(a)'
    BY <1>0, <1>3, <2>1 DEF Reserve, Begin, JobOf, pve
  <2>. QED
    BY <2>2, <2>3, OneJob
<1>4. CASE Clone(a) /\ ~Fails(a)
  <2>1. OthersKept(a)
    BY <1>0, <1>4 DEF Clone, OthersKept, JobOf, job
  <2>2. JobOf(a)'
    BY <1>0, <1>4 DEF Clone, JobOf, job
  <2>. QED
    BY <2>1, <2>2, OneJob
<1>5. CASE (Cloned(a) \/ Configure(a) \/ Boot(a)) /\ ~Fails(a)
  <2>1. OthersKept(a)
    BY <1>5 DEF Cloned, Configure, Boot, Begin, OthersKept, job, pve
  <2>2. JobOf(a)'
    BY <1>0, <1>5 DEF Cloned, Configure, Boot, Begin, JobOf, job, pve
  <2>. QED
    BY <2>1, <2>2, OneJob
<1>6. CASE (StartAgentVm(a) \/ Inject(a) \/ IssueKey(a) \/ Test(a)) /\ ~Fails(a)
  <2>1. OthersKept(a)
    BY <1>6 DEF StartAgentVm, Inject, IssueKey, Test, OthersKept, job, pve
  <2>2. JobOf(a)'
    BY <1>0, <1>6 DEF StartAgentVm, Inject, IssueKey, Test, JobOf, job, pve
  <2>. QED
    BY <2>1, <2>2, OneJob
<1>7. CASE Finish(a)
  <2>1. OthersKept(a)
    BY <1>7 DEF Finish, OthersKept, pve
  <2>2. JobOf(a)'
    BY <1>0, <1>7 DEF Finish, JobOf, pve
  <2>. QED
    BY <2>1, <2>2, OneJob
<1>8. CASE FailCommit(a)
  <2>1. OthersKept(a)
    BY <1>8 DEF FailCommit, OthersKept, job, pve
  <2>2. JobOf(a)'
    BY <1>0, <1>8 DEF FailCommit, JobOf, job, pve
  <2>. QED
    BY <2>1, <2>2, OneJob
<1>9. pc[a] \in Steps
  BY DEF Provision, Validate, Reserve, Clone, Cloned, Configure, StartAgentVm, Boot, Inject,
         IssueKey, Test, Finish, FailCommit, Steps
<1>. QED
  BY <1>1, <1>2, <1>3, <1>4, <1>5, <1>6, <1>7, <1>8, <1>9 DEF Provision

LEMMA NextJob == TypeOK /\ JobInv /\ [Next]_vars => JobInv'
<1> SUFFICES ASSUME TypeOK, JobInv, [Next]_vars PROVE JobInv'
  OBVIOUS
<1>0. \A a \in Agents : JobOf(a)
  BY JobInvIs
<1> USE DEF TypeOK, BeforeClone, InTransaction, HasRow
<1>1. ASSUME UNCHANGED <<row, job, pc, held, owner>> PROVE JobInv'
  BY <1>1 DEF JobInv, CloneInv, LockInv, VmNamedByJob, job
<1>2. ASSUME NEW a \in Agents, DeleteRow(a) \/ DeleteUnblocked(a) PROVE JobInv'
  <2>1. CASE RowGone(a) /\ ~held[a]
    <3>1. OthersKept(a)
      BY <1>2, <2>1 DEF DeleteRow, DeleteUnblocked, RowGone, OthersKept, job, pve
    <3>2. JobOf(a)'
      BY <1>0, <1>2, <2>1 DEF DeleteRow, DeleteUnblocked, RowGone, JobOf, job, pve
    <3>. QED
      BY <3>1, <3>2, OneJob
  <2>2. CASE ~(RowGone(a) /\ ~held[a])
    BY <1>1, <1>2, <2>2 DEF DeleteRow, DeleteUnblocked, pve
  <2>. QED
    BY <2>1, <2>2
<1>3. ASSUME NEW a \in Agents, Deadlock(a) PROVE JobInv'
  <2>1. OthersKept(a)
    BY <1>3 DEF Deadlock, RowGone, GoTo, OthersKept, job, pve
  <2>2. JobOf(a)'
    BY <1>0, <1>3 DEF Deadlock, RowGone, GoTo, JobOf, job, pve
  <2>. QED
    BY <2>1, <2>2, OneJob
<1>4. ASSUME NEW a \in Agents, DeleteRead(a) \/ DeleteStop(a) \/ ChatAsk(a) \/ ChatDone(a)
      PROVE  JobInv'
  BY <1>1, <1>4 DEF DeleteRead, DeleteStop, ChatAsk, ChatDone, job, pve
<1>5. ASSUME NEW a \in Agents, Create(a) PROVE JobInv'
  <2>1. OthersKept(a)
    BY <1>5 DEF Create, GoTo, OthersKept, job, pve
  <2>2. JobOf(a)'
    BY <1>0, <1>5 DEF Create, GoTo, JobOf, job, pve
  <2>. QED
    BY <2>1, <2>2, OneJob
<1>6. ASSUME NEW a \in Agents, PowerCall(a, "stop") \/ PowerCall(a, "start") PROVE JobInv'
  BY <1>1, <1>6 DEF PowerCall
<1>7. ASSUME NEW a \in Agents, PowerDone(a) PROVE JobInv'
  <2>1. OthersKept(a)
    BY <1>7 DEF PowerDone, OthersKept, job, pve
  <2>2. JobOf(a)'
    BY <1>0, <1>7 DEF PowerDone, JobOf, job, pve
  <2>. QED
    BY <2>1, <2>2, OneJob
<1>8. CASE ListRead
  BY <1>1, <1>8 DEF ListRead, pve
<1>9. CASE ListFix
  <2>1. /\ UNCHANGED <<job, pc, held, owner>>
        /\ \A a \in Agents : /\ HasRow(a)' <=> HasRow(a)
                             /\ row'[a] = "none" => row[a] = "none"
    BY <1>9 DEF ListFix, pve
  <2>2. \A a \in Agents : JobOf(a)'
    BY <1>0, <2>1 DEF JobOf, job
  <2>. QED
    BY <2>2 DEF JobInv, CloneInv, LockInv, VmNamedByJob, JobOf
<1>10. ASSUME NEW v \in VmIds, VmLost(v) PROVE JobInv'
  <2>1. /\ UNCHANGED <<row, job, pc, held>>
        /\ \A w \in VmIds, a \in Agents : owner'[w] = a => owner[w] = a
    BY <1>10, AgentManagerAssumption DEF VmLost
  <2>. QED
    BY <2>1 DEF JobInv, CloneInv, LockInv, VmNamedByJob, job
<1>11. CASE Restart
  <2>1. UNCHANGED <<row, job, owner>> /\ \A a \in Agents : ~held'[a]
    BY <1>11 DEF Restart, pve
  <2>2. \A a \in Agents : pc'[a] = IF pc[a] \in Steps THEN "killed" ELSE pc[a]
    BY <1>11 DEF Restart
  <2>3. \A a \in Agents : /\ row[a] = "none" => pc'[a] = "none"
                          /\ pc'[a] \in BeforeClone => pc[a] \in BeforeClone
                          /\ pc'[a] # "clone" /\ pc'[a] \notin InTransaction
    BY <1>0, <2>2 DEF JobOf, Steps
  <2>. QED
    BY <2>1, <2>3 DEF JobInv, CloneInv, LockInv, VmNamedByJob, job
<1>12. CASE UNCHANGED vars
  BY <1>1, <1>12 DEF vars, pve
<1>13. ASSUME NEW a \in Agents, DbError(a) PROVE JobInv'
  <2>1. OthersKept(a)
    BY <1>13 DEF DbError, GoTo, OthersKept, job, pve
  <2>2. JobOf(a)'
    BY <1>0, <1>13 DEF DbError, GoTo, JobOf, job, pve, Steps
  <2>. QED
    BY <2>1, <2>2, OneJob
<1>. QED
  BY <1>2, <1>3, <1>4, <1>5, <1>6, <1>7, <1>8, <1>9, <1>10, <1>11, <1>12, <1>13, ProvisionJob
  DEF Next, Delete

\* For as long as an agent has its row, its provisioning job names the VM that
\* was cloned for it, whatever step the thread failed, died or was killed in and
\* whatever DELETE raced it: provision_job commits the number before the clone,
\* and never clones twice.
THEOREM JobNamesVm == Spec => []VmNamedByJob
<1>1. JobInv => VmNamedByJob
  BY DEF JobInv
<1>. QED
  BY <1>1, InitTypes, InitJob, NextTypes, NextJob, PTL DEF Spec

---------------------------------------------------------------------------
(* Nobody waits for a thread that is gone *)

\* An agent that is being provisioned has its thread, unless a restart of the service
\* or a database error took it, and a lock belongs to a thread that goes on.
Attended ==
    \A a \in Agents :
        /\ row[a] = "PROVISIONING" => pc[a] \in Steps \cup {"killed", "lost"}
        /\ held[a] => pc[a] \in Steps

LEMMA ProvisionAttended ==
    ASSUME TypeOK, LockInv, Attended, NEW a \in Agents, Provision(a)
    PROVE  Attended'
<1> USE DEF TypeOK, At, GoTo, HasRow, Steps
<1>1. pc[a] \in Steps
  BY DEF Provision, Validate, Reserve, Clone, Cloned, Configure, StartAgentVm, Boot, Inject,
         IssueKey, Test, Finish, FailCommit
<1>2. \A b \in Agents \ {a} : row'[b] = row[b] /\ pc'[b] = pc[b] /\ held'[b] = held[b]
  BY DEF Provision, Validate, Reserve, Clone, Cloned, Configure, StartAgentVm, Boot, Inject,
         IssueKey, Test, Finish, FailCommit, Fails, Begin
<1>3. CASE pc'[a] \in Steps
  BY <1>2, <1>3 DEF Attended
<1>4. CASE pc'[a] = "dead" /\ ~HasRow(a) /\ row' = row /\ ~held'[a]
  BY <1>2, <1>4 DEF Attended
<1>5. CASE Finish(a) \/ FailCommit(a)
  <2>1. ~held'[a] /\ row'[a] # "PROVISIONING"
    BY <1>5 DEF Finish, FailCommit
  <2>. QED
    BY <1>2, <2>1 DEF Attended
<1>6. ~HasRow(a) => ~held[a]
  BY DEF LockInv
<1>7. \/ pc'[a] \in Steps \/ Finish(a) \/ FailCommit(a)
      \/ pc'[a] = "dead" /\ ~HasRow(a) /\ row' = row /\ ~held'[a]
  <2>1. CASE Fails(a)
    BY <2>1 DEF Fails
  <2>2. CASE (Validate(a) \/ Reserve(a) \/ Cloned(a)) /\ ~Fails(a)
    BY <1>6, <2>2 DEF Validate, Reserve, Cloned, Begin
  <2>3. CASE (Configure(a) \/ Boot(a)) /\ ~Fails(a)
    BY <2>3 DEF Configure, Boot, Begin
  <2>4. CASE (Clone(a) \/ StartAgentVm(a) \/ Inject(a) \/ IssueKey(a) \/ Test(a)) /\ ~Fails(a)
    BY <2>4 DEF Clone, StartAgentVm, Inject, IssueKey, Test
  <2>. QED
    BY <2>1, <2>2, <2>3, <2>4 DEF Provision
<1>. QED
  BY <1>3, <1>4, <1>5, <1>7

LEMMA NextAttended ==
    ASSUME TypeOK, LockInv, Attended, [Next]_vars
    PROVE  Attended'
<1> USE DEF TypeOK, HasRow
<1>1. ASSUME UNCHANGED <<pc, held>>, \A b \in Agents : row'[b] = "PROVISIONING" => row[b] = row'[b]
      PROVE  Attended'
  BY <1>1 DEF Attended
<1>2. ASSUME NEW a \in Agents, DeleteRow(a) \/ DeleteUnblocked(a) PROVE Attended'
  BY <1>1, <1>2 DEF DeleteRow, DeleteUnblocked, RowGone
<1>3. ASSUME NEW a \in Agents, Deadlock(a) PROVE Attended'
  <2>1. ~held'[a] /\ row'[a] # "PROVISIONING"
    BY <1>3 DEF Deadlock, RowGone
  <2>2. \A b \in Agents \ {a} : row'[b] = row[b] /\ pc'[b] = pc[b] /\ held'[b] = held[b]
    BY <1>3 DEF Deadlock, RowGone, GoTo
  <2>. QED
    BY <2>1, <2>2 DEF Attended
<1>4. ASSUME NEW a \in Agents, Create(a) PROVE Attended'
  <2>1. pc'[a] = "validate" /\ "validate" \in Steps
    BY <1>4 DEF Create, GoTo, Steps
  <2>2. \A b \in Agents \ {a} : row'[b] = row[b] /\ pc'[b] = pc[b] /\ held'[b] = held[b]
    BY <1>4 DEF Create, GoTo
  <2>. QED
    BY <2>1, <2>2 DEF Attended
<1>5. ASSUME NEW a \in Agents,
             \/ DeleteRead(a) \/ DeleteStop(a) \/ ChatAsk(a) \/ ChatDone(a)
             \/ PowerCall(a, "stop") \/ PowerCall(a, "start") \/ PowerDone(a)
      PROVE  Attended'
  BY <1>1, <1>5 DEF DeleteRead, DeleteStop, ChatAsk, ChatDone, PowerCall, PowerDone
<1>6. CASE ListRead \/ ListFix \/ (\E v \in VmIds : VmLost(v)) \/ UNCHANGED vars
  BY <1>1, <1>6 DEF ListRead, ListFix, VmLost, vars
<1>7. CASE Restart
  BY <1>7 DEF Restart, Attended
<1>8. ASSUME NEW a \in Agents, DbError(a) PROVE Attended'
  BY <1>8 DEF DbError, GoTo, Attended
<1>. QED
  BY <1>2, <1>3, <1>4, <1>5, <1>6, <1>7, <1>8, ProvisionAttended DEF Next, Delete

\* An agent in PROVISIONING has a thread that goes on, unless a restart of the service
\* or a database error of the thread took it, and every lock that a DELETE may wait for
\* has one without exception: no failed call to Proxmox, the guest or LiteLLM, no row
\* deleted under the thread and no deadlock leaves an unfinished agent behind, and
\* nothing at all leaves a lock (provision_job and its except branch, delete_agent).
\* AgentsSettle and DeletesEnd are this and the fairness of threads.
THEOREM NoAgentIsStranded == Spec => []Attended
<1>1. Init => Attended
  BY DEF Init, Attended
<1>2. JobInv => LockInv
  BY DEF JobInv
<1>. QED
  BY <1>1, <1>2, InitTypes, InitJob, NextTypes, NextJob, NextAttended, PTL DEF Spec
===========================================================================
