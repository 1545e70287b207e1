---------------------- MODULE RuntimeLifecycle_proofs ----------------------
(***************************************************************************)
(* Theorems about RuntimeLifecycle, for every value of its constants.      *)
(* Each safety property follows from a conjunction of named invariants of  *)
(* the component's module; one lemma per invariant shows that every action *)
(* preserves it, given the invariants it rests on.                         *)
(***************************************************************************)
EXTENDS RuntimeLifecycle, TLAPS

---------------------------------------------------------------------------
(* Updating one field of a record keeps its type *)

LEMMA VmUpdate ==
  ASSUME NEW f \in [VmIds -> VM], NEW v
  PROVE  /\ \A m \in Runtimes : [f EXCEPT ![v].marker = m] \in [VmIds -> VM]
         /\ \A p \in {"stopped", "running"} :
               [f EXCEPT ![v].power = p] \in [VmIds -> VM]
         /\ [f EXCEPT ![v] = NoVm] \in [VmIds -> VM]
  <1>1. ASSUME NEW m \in Runtimes PROVE [f EXCEPT ![v].marker = m] \in [VmIds -> VM]
    BY DEF VM
  <1>2. ASSUME NEW p \in {"stopped", "running"}
        PROVE  [f EXCEPT ![v].power = p] \in [VmIds -> VM]
    BY DEF VM
  <1>3. [f EXCEPT ![v] = NoVm] \in [VmIds -> VM]  BY DEF VM, NoVm
  <1>. QED  BY <1>1, <1>2, <1>3

LEMMA LocalsUpdate ==
  ASSUME NEW f \in [Runtimes -> Locals], NEW r \in Runtimes
  PROVE  /\ \A q \in Requests : [f EXCEPT ![r].req = q] \in [Runtimes -> Locals]
         /\ \A n \in Nodes : [f EXCEPT ![r].node = n] \in [Runtimes -> Locals]
         /\ \A v \in VmIds : [f EXCEPT ![r].vmid = v] \in [Runtimes -> Locals]
         /\ \A i \in Ips : [f EXCEPT ![r].ip = i] \in [Runtimes -> Locals]
  <1>1. ASSUME NEW q \in Requests PROVE [f EXCEPT ![r].req = q] \in [Runtimes -> Locals]
    BY DEF Locals
  <1>2. ASSUME NEW n \in Nodes PROVE [f EXCEPT ![r].node = n] \in [Runtimes -> Locals]
    BY DEF Locals
  <1>3. ASSUME NEW v \in VmIds PROVE [f EXCEPT ![r].vmid = v] \in [Runtimes -> Locals]
    BY DEF Locals
  <1>4. ASSUME NEW i \in Ips PROVE [f EXCEPT ![r].ip = i] \in [Runtimes -> Locals]
    BY DEF Locals
  <1>. QED  BY <1>1, <1>2, <1>3, <1>4

---------------------------------------------------------------------------
(* Type correctness *)

LEMMA InitType == Init => TypeOK
  <1> SUFFICES ASSUME Init PROVE TypeOK
    OBVIOUS
  <1> USE DEF Init
  <1>1. desired \in [Runtimes -> RuntimeState]  BY DEF RuntimeState
  <1>2. actual \in [Runtimes -> ActualState]  BY DEF ActualState
  <1>3. vmid \in [Runtimes -> VmIds \cup {NULL}]  OBVIOUS
  <1>4. meta \in [Runtimes -> OwnershipMeta]  BY DEF OwnershipMeta, NoMeta
  <1>5. job \in [Runtimes -> ProvisioningJob]
    BY DEF ProvisioningJob, NoJob, JobState
  <1>6. vms \in [VmIds -> VM]  BY DEF VM, NoVm, ForeignVm
  <1>7. pc \in [Runtimes -> PostPc]  BY DEF PostPc
  <1>8. loc \in [Runtimes -> Locals]  BY DEF Locals, NoLocals
  <1>9. reply \in [Runtimes -> Runtimes \cup {NULL}]  OBVIOUS
  <1>10. del \in [Deleters -> Delete]  BY DEF Delete, IdleDelete, RuntimeState
  <1>11. sup \in [Superseders -> Supersede]  BY DEF Supersede, IdleSupersede
  <1>12. crashes \in 0..MaxCrashes  BY ConstantsAssumption
  <1>. QED
    BY <1>1, <1>2, <1>3, <1>4, <1>5, <1>6, <1>7, <1>8, <1>9, <1>10, <1>11, <1>12
       DEF TypeOK

LEMMA SubmitType ==
  ASSUME NEW r \in Runtimes, TypeOK,
         (\E q \in Requests : SubmitLookup(r, q)) \/ SubmitInsert(r)
  PROVE  TypeOK'
  <1> USE DEF TypeOK
  <1>1. CASE \E q \in Requests : SubmitLookup(r, q)
    <2> USE <1>1 DEF SubmitLookup
    <2>1. loc' \in [Runtimes -> Locals]
      <3>1. PICK q \in Requests : loc' = [loc EXCEPT ![r].req = q]  OBVIOUS
      <3>. QED  BY <3>1, LocalsUpdate
    <2>2. pc' \in [Runtimes -> PostPc]  BY DEF PostPc
    <2>3. reply' \in [Runtimes -> Runtimes \cup {NULL}]  BY DEF JobsOf
    <2>. QED  BY <2>1, <2>2, <2>3 DEF row
  <1>2. CASE SubmitInsert(r)
    <2> USE <1>2 DEF SubmitInsert
    <2>1. pc' \in [Runtimes -> PostPc]  BY DEF PostPc
    <2>2. actual' \in [Runtimes -> ActualState]  BY DEF ActualState
    <2>3. desired' \in [Runtimes -> RuntimeState]  OBVIOUS
    <2>4. job' \in [Runtimes -> ProvisioningJob]
      <3>1. loc[r].req \in Requests \cup {NULL}  BY DEF Locals
      <3>2. [req |-> loc[r].req, state |-> "QUEUED"] \in ProvisioningJob
        BY <3>1 DEF ProvisioningJob, JobState
      <3>3. CASE RequestIdFree(loc[r].req)  BY <3>2, <3>3
      <3>4. CASE ~RequestIdFree(loc[r].req)  BY <3>4
      <3>. QED  BY <3>3, <3>4
    <2>. QED  BY <2>1, <2>2, <2>3, <2>4
  <1>. QED  BY <1>1, <1>2

LEMMA RunJobType ==
  ASSUME NEW r \in Runtimes, TypeOK, RunJob(r)
  PROVE  TypeOK'
  <1> USE DEF TypeOK
  <1>1. CASE StartJob(r)
    <2> USE <1>1 DEF StartJob
    <2>1. job' \in [Runtimes -> ProvisioningJob]  BY DEF ProvisioningJob, JobState
    <2>2. pc' \in [Runtimes -> PostPc]  BY DEF PostPc, JobSteps
    <2>. QED  BY <2>1, <2>2 DEF row
  <1>2. CASE Place(r)
    <2> USE <1>2 DEF Place
    <2>1. loc' \in [Runtimes -> Locals]
      <3>1. PICK n \in Nodes : loc' = [loc EXCEPT ![r].node = n]  OBVIOUS
      <3>. QED  BY <3>1, LocalsUpdate
    <2>2. pc' \in [Runtimes -> PostPc]  BY DEF PostPc, JobSteps
    <2>. QED  BY <2>1, <2>2 DEF row
  <1>3. CASE NextVmid(r)
    <2> USE <1>3 DEF NextVmid
    <2>1. loc' \in [Runtimes -> Locals]
      <3>1. PICK v \in VmIds : loc' = [loc EXCEPT ![r].vmid = v]  OBVIOUS
      <3>. QED  BY <3>1, LocalsUpdate
    <2>2. pc' \in [Runtimes -> PostPc]  BY DEF PostPc, JobSteps
    <2>. QED  BY <2>1, <2>2 DEF row
  <1>4. CASE CloneTemplate(r)
    <2> USE <1>4 DEF CloneTemplate
    <2>1. vms' \in [VmIds -> VM]  BY DEF VM
    <2>2. pc' \in [Runtimes -> PostPc]  BY DEF PostPc, JobSteps
    <2>. QED  BY <2>1, <2>2 DEF row
  <1>5. CASE ConfigureCloudInit(r)
    <2> USE <1>5 DEF ConfigureCloudInit
    <2>1. vms' \in [VmIds -> VM]  BY VmUpdate
    <2>2. pc' \in [Runtimes -> PostPc]  BY DEF PostPc, JobSteps
    <2>3. meta' \in [Runtimes -> OwnershipMeta]  BY DEF WriteMeta, OwnershipMeta
    <2>. QED  BY <2>1, <2>2, <2>3
  <1>6. CASE Boot(r)
    <2> USE <1>6 DEF Boot
    <2>1. vms' \in [VmIds -> VM]  BY VmUpdate
    <2>2. pc' \in [Runtimes -> PostPc]  BY DEF PostPc, JobSteps
    <2>. QED  BY <2>1, <2>2 DEF row
  <1>7. CASE WaitForIp(r)
    <2> USE <1>7 DEF WaitForIp
    <2>1. meta' \in [Runtimes -> OwnershipMeta]  BY DEF WriteMeta, OwnershipMeta
    <2>2. loc' \in [Runtimes -> Locals]
      <3>1. PICK i \in Ips : loc' = [loc EXCEPT ![r].ip = i]  OBVIOUS
      <3>. QED  BY <3>1, LocalsUpdate
    <2>3. pc' \in [Runtimes -> PostPc]  BY DEF PostPc, JobSteps
    <2>. QED  BY <2>1, <2>2, <2>3
  <1>8. CASE HygieneGate(r)
    <2> USE <1>8 DEF HygieneGate
    <2>1. meta' \in [Runtimes -> OwnershipMeta]
      BY DEF WriteMeta, OwnershipMeta, Locals
    <2>2. pc' \in [Runtimes -> PostPc]  BY DEF PostPc, JobSteps
    <2>. QED  BY <2>1, <2>2
  <1>9. CASE BootstrapHermes(r)
    <2> USE <1>9 DEF BootstrapHermes
    <2>1. meta' \in [Runtimes -> OwnershipMeta]
      BY DEF WriteMeta, OwnershipMeta, Locals
    <2>2. pc' \in [Runtimes -> PostPc]  BY DEF PostPc, JobSteps
    <2>. QED  BY <2>1, <2>2
  <1>10. CASE JobDone(r)
    <2> USE <1>10 DEF JobDone
    <2>1. actual' \in [Runtimes -> ActualState]  BY DEF ActualState
    <2>2. vmid' \in [Runtimes -> VmIds \cup {NULL}]  BY DEF Locals
    <2>3. job' \in [Runtimes -> ProvisioningJob]  BY DEF ProvisioningJob, JobState
    <2>4. pc' \in [Runtimes -> PostPc]  BY DEF PostPc
    <2>5. reply' \in [Runtimes -> Runtimes \cup {NULL}]  OBVIOUS
    <2>. QED  BY <2>1, <2>2, <2>3, <2>4, <2>5
  <1>11. CASE JobFails(r)
    <2> USE <1>11 DEF JobFails
    <2>1. actual' \in [Runtimes -> ActualState]  BY DEF ActualState
    <2>2. meta' \in [Runtimes -> OwnershipMeta]
      BY DEF WriteMeta, OwnershipMeta, Locals
    <2>3. job' \in [Runtimes -> ProvisioningJob]  BY DEF ProvisioningJob, JobState
    <2>4. pc' \in [Runtimes -> PostPc]  BY DEF PostPc
    <2>5. reply' \in [Runtimes -> Runtimes \cup {NULL}]  OBVIOUS
    <2>. QED  BY <2>1, <2>2, <2>3, <2>4, <2>5
  <1>. QED
    BY <1>1, <1>2, <1>3, <1>4, <1>5, <1>6, <1>7, <1>8, <1>9, <1>10, <1>11
       DEF RunJob

LEMMA DeleteType ==
  ASSUME NEW d \in Deleters, TypeOK,
         (\E r \in Runtimes : DeleteVerify(d, r)) \/ DeleteStep(d)
  PROVE  TypeOK'
  <1> USE DEF TypeOK
  <1>1. CASE \E r \in Runtimes : DeleteVerify(d, r)
    <2> USE <1>1 DEF DeleteVerify
    <2>1. del' \in [Deleters -> Delete]  BY DEF Delete
    <2>. QED  BY <2>1 DEF row, post
  <1>2. CASE DeleteShutdown(d)
    <2> USE <1>2 DEF DeleteShutdown
    <2>1. vms' \in [VmIds -> VM]
      <3>1. PICK p \in {"stopped", vms[del[d].vmid].power} :
              vms' = [vms EXCEPT ![del[d].vmid].power = p]
        OBVIOUS
      <3>2. CASE del[d].vmid \in VmIds
        <4>1. p \in {"stopped", "running"}  BY <3>1, <3>2 DEF VM
        <4>. QED  BY <3>1, <4>1, VmUpdate
      <3>3. CASE del[d].vmid \notin VmIds
        <4>1. vms' = vms  BY <3>1, <3>3
        <4>. QED  BY <4>1
      <3>. QED  BY <3>2, <3>3
    <2>2. del' \in [Deleters -> Delete]  BY SMTT(30) DEF Delete
    <2>. QED  BY <2>1, <2>2 DEF row, post
  <1>3. CASE DeleteDestroy(d)
    <2> USE <1>3 DEF DeleteDestroy
    <2>1. vms' \in [VmIds -> VM]  BY DEF VM, NoVm
    <2>2. del' \in [Deleters -> Delete]  BY SMTT(30) DEF Delete
    <2>. QED  BY <2>1, <2>2 DEF row, post
  <1>4. CASE DeleteCommit(d)
    <2> USE <1>4 DEF DeleteCommit
    <2>1. actual' \in [Runtimes -> ActualState]  BY DEF ActualState
    <2>2. vmid' \in [Runtimes -> VmIds \cup {NULL}]  OBVIOUS
    <2>3. desired' \in [Runtimes -> RuntimeState]  BY DEF RuntimeState
    <2>4. del' \in [Deleters -> Delete]  BY DEF Delete, IdleDelete, RuntimeState
    <2>. QED  BY <2>1, <2>2, <2>3, <2>4 DEF post
  <1>5. CASE DeleteAborts(d)
    <2> USE <1>5 DEF DeleteAborts
    <2>1. del' \in [Deleters -> Delete]  BY DEF Delete, IdleDelete, RuntimeState
    <2>. QED  BY <2>1 DEF row, post
  <1>. QED  BY <1>1, <1>2, <1>3, <1>4, <1>5 DEF DeleteStep

LEMMA OtherType ==
  ASSUME TypeOK,
         \/ \E s \in Superseders, r, l \in Runtimes : SupersedeLoad(s, r, l)
         \/ \E s \in Superseders : SupersedeCommit(s)
         \/ \E r \in Runtimes, x \in RuntimeState : SetDesiredState(r, x)
         \/ Crash
         \/ \E r \in Runtimes : JobLost(r)
         \/ \E v \in VmIds : ForeignClone(v)
  PROVE  TypeOK'
  <1> USE DEF TypeOK
  <1>1. CASE \E s \in Superseders, r, l \in Runtimes : SupersedeLoad(s, r, l)
    <2> PICK s \in Superseders, r \in Runtimes, l \in Runtimes : SupersedeLoad(s, r, l)
      BY <1>1
    <2>1. meta[r].ip \in Ips \cup {NULL}  BY DEF OwnershipMeta
    <2>2. [pc |-> "commit", rt |-> r, live |-> l, ip |-> meta[r].ip] \in Supersede
      BY <2>1 DEF Supersede
    <2>. QED  BY <2>2 DEF SupersedeLoad, row, post
  <1>2. CASE \E s \in Superseders : SupersedeCommit(s)
    <2> PICK s \in Superseders : SupersedeCommit(s)  BY <1>2
    <2> USE DEF SupersedeCommit
    <2>1. actual' \in [Runtimes -> ActualState]  BY DEF ActualState
    <2>2. meta' \in [Runtimes -> OwnershipMeta]
      <3>1. /\ sup[s].ip \in Ips \cup {NULL}
            /\ sup[s].live \in Runtimes \cup {NULL}
        BY DEF Supersede
      <3>2. [ip |-> sup[s].ip, supersededBy |-> sup[s].live] \in OwnershipMeta
        BY <3>1 DEF OwnershipMeta
      <3>. QED  BY <3>2
    <2>3. sup' \in [Superseders -> Supersede]  BY DEF Supersede, IdleSupersede
    <2>. QED  BY <2>1, <2>2, <2>3 DEF post
  <1>3. CASE \E r \in Runtimes, x \in RuntimeState : SetDesiredState(r, x)
    BY <1>3 DEF SetDesiredState, post
  <1>4. CASE Crash
    <2> USE <1>4 DEF Crash
    <2>1. pc' \in [Runtimes -> PostPc]  BY DEF PostPc
    <2>2. del' \in [Deleters -> Delete]  BY DEF Delete, IdleDelete, RuntimeState
    <2>3. sup' \in [Superseders -> Supersede]  BY DEF Supersede, IdleSupersede
    <2>4. crashes' \in 0..MaxCrashes  BY ConstantsAssumption
    <2>. QED  BY <2>1, <2>2, <2>3, <2>4 DEF row
  <1>5. CASE \E v \in VmIds : ForeignClone(v)
    <2>1. vms' \in [VmIds -> VM]
      <3>1. ForeignVm \in VM  BY DEF ForeignVm, NoVm, VM
      <3>. QED  BY <1>5, <3>1 DEF ForeignClone
    <2>. QED  BY <1>5, <2>1 DEF ForeignClone, row, post
  <1>6. CASE \E r \in Runtimes : JobLost(r)
    <2> USE <1>6 DEF JobLost
    <2>1. pc' \in [Runtimes -> PostPc]  BY DEF PostPc
    <2>2. crashes' \in 0..MaxCrashes  BY ConstantsAssumption
    <2>. QED  BY <2>1, <2>2 DEF row
  <1>. QED  BY <1>1, <1>2, <1>3, <1>4, <1>5, <1>6

\* The tables, the inventory and the handlers' locals always have their types,
\* whatever handlers overlap and wherever the process is restarted.
THEOREM TypeCorrect == Spec => []TypeOK
  <1>1. TypeOK /\ [Next]_vars => TypeOK'
    <2> SUFFICES ASSUME TypeOK, [Next]_vars PROVE TypeOK'
      OBVIOUS
    <2>1. CASE Next
      BY <2>1, SubmitType, RunJobType, DeleteType, OtherType DEF Next
    <2>2. CASE UNCHANGED vars
      BY <2>2 DEF vars, row, post, TypeOK
    <2>. QED  BY <2>1, <2>2
  <1>. QED  BY <1>1, InitType, PTL DEF Spec

---------------------------------------------------------------------------
(* Every action preserves every part *)

(* The submit group *)

LEMMA PostJobInvStep ==
  TypeOK /\ PostJobInv /\ [Next]_vars => PostJobInv'
  <1> SUFFICES ASSUME TypeOK, PostJobInv, [Next]_vars
               PROVE  PostJobInv'
    OBVIOUS
  <1> USE ConstantsAssumption DEF TypeOK, PostJobInv, BeforeClone, AfterClone,
          JobSteps
  <1>0. CASE UNCHANGED <<pc, loc, job>>
    BY <1>0
  <1>1. ASSUME NEW r \in Runtimes, NEW q \in Requests, SubmitLookup(r, q)
        PROVE  PostJobInv'
    <2>1. CASE pc' = [pc EXCEPT ![r] = "insert"] /\ UNCHANGED reply
      BY <1>1, <2>1 DEF SubmitLookup, Locals
    <2>2. ASSUME NEW j \in JobsOf(q), pc' = [pc EXCEPT ![r] = "returned"],
                 reply' = [reply EXCEPT ![r] = j]
          PROVE  PostJobInv'
      BY <1>1, <2>2 DEF SubmitLookup, JobsOf, Locals
    <2>. QED  BY <1>1, <2>1, <2>2 DEF SubmitLookup
  <1>2. ASSUME NEW r \in Runtimes, SubmitInsert(r)  PROVE PostJobInv'
    <2>1. CASE RequestIdFree(loc[r].req)
      BY <1>2, <2>1 DEF SubmitInsert, RequestIdFree, JobsOf, NoJob
    <2>2. CASE ~RequestIdFree(loc[r].req)
      BY <1>2, <2>2 DEF SubmitInsert, NoJob
    <2>. QED  BY <2>1, <2>2
  <1>3. ASSUME NEW r \in Runtimes, RunJob(r)  PROVE PostJobInv'
    <2>1. CASE StartJob(r)
      BY <2>1 DEF StartJob, ProvisioningJob
    <2>2. CASE Place(r)
      BY <2>2 DEF Place, Locals
    <2>3. CASE NextVmid(r)
      BY <2>3 DEF NextVmid, IsNextVmid, Locals
    <2>4. CASE CloneTemplate(r)
      BY <2>4 DEF CloneTemplate, CloneAccepted, VM, Locals
    <2>5. CASE ConfigureCloudInit(r)
      BY <2>5 DEF ConfigureCloudInit, WriteMeta, VM, Locals
    <2>6. CASE Boot(r)
      BY <2>6 DEF Boot, VM
    <2>7. CASE WaitForIp(r)
      BY <2>7 DEF WaitForIp, WriteMeta, Locals
    <2>8. CASE HygieneGate(r)
      BY <2>8 DEF HygieneGate, WriteMeta, CloneIdentityOk
    <2>9. CASE BootstrapHermes(r)
      BY <2>9 DEF BootstrapHermes, WriteMeta
    <2>10. CASE JobDone(r)
      BY <2>10 DEF JobDone, ProvisioningJob
    <2>11. CASE JobFails(r)
      BY <2>11 DEF JobFails, WriteMeta, ProvisioningJob
    <2>. QED  BY <1>3, <2>1, <2>2, <2>3, <2>4, <2>5, <2>6, <2>7, <2>8, <2>9,
       <2>10, <2>11 DEF RunJob
  <1>4. ASSUME NEW d \in Deleters, NEW r \in Runtimes, DeleteVerify(d, r)
        PROVE  PostJobInv'
    BY <1>0, <1>4 DEF DeleteVerify, post
  <1>5. ASSUME NEW d \in Deleters, DeleteStep(d)  PROVE PostJobInv'
    BY <1>0, <1>5 DEF DeleteShutdown, DeleteDestroy, DeleteCommit,
       DeleteAborts, DeleteStep, post
  <1>6. CASE Crash
    BY <1>6 DEF Crash, Ended
  <1>7. ASSUME NEW s \in Superseders, NEW r \in Runtimes, NEW l \in Runtimes,
               SupersedeLoad(s, r, l)
        PROVE  PostJobInv'
    BY <1>0, <1>7 DEF SupersedeLoad, post
  <1>8. ASSUME NEW s \in Superseders, SupersedeCommit(s)  PROVE PostJobInv'
    BY <1>0, <1>8 DEF SupersedeCommit, post
  <1>9. CASE \/ \E r \in Runtimes, x \in RuntimeState : SetDesiredState(r, x)
             \/ \E v \in VmIds : ForeignClone(v)
             \/ UNCHANGED vars
    BY <1>0, <1>9 DEF SetDesiredState, ForeignClone, vars, row, post
  <1>10. ASSUME NEW r \in Runtimes, JobLost(r)  PROVE PostJobInv'
    BY <1>10 DEF JobLost, row
  <1>. QED
    BY <1>1, <1>2, <1>3, <1>4, <1>5, <1>6, <1>7, <1>8, <1>9, <1>10 DEF Next

LEMMA ReplyInvStep ==
  TypeOK /\ PostJobInv /\ ReplyInv /\ [Next]_vars => ReplyInv'
  <1> SUFFICES ASSUME TypeOK, PostJobInv, ReplyInv, [Next]_vars
               PROVE  ReplyInv'
    OBVIOUS
  <1> USE ConstantsAssumption DEF TypeOK, PostJobInv, ReplyInv, BeforeClone,
          AfterClone, JobSteps
  <1>0. CASE UNCHANGED <<pc, loc, job, reply>>
    BY <1>0
  <1>1. ASSUME NEW r \in Runtimes, NEW q \in Requests, SubmitLookup(r, q)
        PROVE  ReplyInv'
    <2>1. CASE pc' = [pc EXCEPT ![r] = "insert"] /\ UNCHANGED reply
      BY <1>1, <2>1 DEF SubmitLookup, Locals
    <2>2. ASSUME NEW j \in JobsOf(q), pc' = [pc EXCEPT ![r] = "returned"],
                 reply' = [reply EXCEPT ![r] = j]
          PROVE  ReplyInv'
      BY <1>1, <2>2 DEF SubmitLookup, JobsOf, Locals
    <2>. QED  BY <1>1, <2>1, <2>2 DEF SubmitLookup
  <1>2. ASSUME NEW r \in Runtimes, SubmitInsert(r)  PROVE ReplyInv'
    <2>1. CASE RequestIdFree(loc[r].req)
      <3>1. pc[r] = "insert" /\ job[r].req = NULL
        BY <1>2 DEF SubmitInsert, NoJob
      <3>2. /\ job' = [job EXCEPT ![r] = [req |-> loc[r].req, state |-> "QUEUED"]]
            /\ pc' = [pc EXCEPT ![r] = "start"] /\ UNCHANGED <<loc, reply>>
        BY <1>2, <2>1 DEF SubmitInsert
      <3>3. ASSUME NEW x \in Runtimes, reply[x] # NULL
            PROVE  /\ pc[x] \in {"returned", "done", "failed"} /\ x # r
                   /\ loc[x].req # NULL /\ reply[x] # r /\ reply[x] \in Runtimes
                   /\ job[reply[x]].req = loc[x].req
        BY <3>1, <3>3
      <3>4. ASSUME NEW x \in Runtimes, reply'[x] # NULL
            PROVE  /\ pc'[x] \in {"returned", "done", "failed"}
                   /\ loc'[x].req # NULL
                   /\ job'[reply'[x]].req = loc'[x].req
        <4>1. /\ reply[x] # NULL /\ pc'[x] = pc[x]
              /\ job'[reply[x]] = job[reply[x]]
          BY <3>2, <3>3, <3>4
        <4>. QED  BY <3>2, <3>3, <4>1
      <3>. QED  BY <3>4
    <2>2. CASE ~RequestIdFree(loc[r].req)
      BY <1>2, <2>2 DEF SubmitInsert, NoJob
    <2>. QED  BY <2>1, <2>2
  <1>3. ASSUME NEW r \in Runtimes, RunJob(r)  PROVE ReplyInv'
    <2>1. CASE StartJob(r)
      BY <2>1 DEF StartJob, ProvisioningJob
    <2>2. CASE Place(r)
      BY <2>2 DEF Place, Locals
    <2>3. CASE NextVmid(r)
      BY <2>3 DEF NextVmid, IsNextVmid, Locals
    <2>4. CASE CloneTemplate(r)
      BY <2>4 DEF CloneTemplate, CloneAccepted, VM, Locals
    <2>5. CASE ConfigureCloudInit(r)
      BY <2>5 DEF ConfigureCloudInit, WriteMeta, VM, Locals
    <2>6. CASE Boot(r)
      BY <2>6 DEF Boot, VM
    <2>7. CASE WaitForIp(r)
      BY <2>7 DEF WaitForIp, WriteMeta, Locals
    <2>8. CASE HygieneGate(r)
      BY <2>8 DEF HygieneGate, WriteMeta, CloneIdentityOk
    <2>9. CASE BootstrapHermes(r)
      BY <2>9 DEF BootstrapHermes, WriteMeta
    <2>10. CASE JobDone(r)
      BY <2>10 DEF JobDone, ProvisioningJob
    <2>11. CASE JobFails(r)
      BY <2>11 DEF JobFails, WriteMeta, ProvisioningJob
    <2>. QED  BY <1>3, <2>1, <2>2, <2>3, <2>4, <2>5, <2>6, <2>7, <2>8, <2>9,
       <2>10, <2>11 DEF RunJob
  <1>4. ASSUME NEW d \in Deleters, NEW r \in Runtimes, DeleteVerify(d, r)
        PROVE  ReplyInv'
    BY <1>0, <1>4 DEF DeleteVerify, post
  <1>5. ASSUME NEW d \in Deleters, DeleteStep(d)  PROVE ReplyInv'
    BY <1>0, <1>5 DEF DeleteShutdown, DeleteDestroy, DeleteCommit,
       DeleteAborts, DeleteStep, post
  <1>6. CASE Crash
    BY <1>6 DEF Crash, Ended
  <1>7. ASSUME NEW s \in Superseders, NEW r \in Runtimes, NEW l \in Runtimes,
               SupersedeLoad(s, r, l)
        PROVE  ReplyInv'
    BY <1>0, <1>7 DEF SupersedeLoad, post
  <1>8. ASSUME NEW s \in Superseders, SupersedeCommit(s)  PROVE ReplyInv'
    BY <1>0, <1>8 DEF SupersedeCommit, post
  <1>9. CASE \/ \E r \in Runtimes, x \in RuntimeState : SetDesiredState(r, x)
             \/ \E v \in VmIds : ForeignClone(v)
             \/ UNCHANGED vars
    BY <1>0, <1>9 DEF SetDesiredState, ForeignClone, vars, row, post
  <1>10. ASSUME NEW r \in Runtimes, JobLost(r)  PROVE ReplyInv'
    BY <1>10 DEF JobLost, row
  <1>. QED
    BY <1>1, <1>2, <1>3, <1>4, <1>5, <1>6, <1>7, <1>8, <1>9, <1>10 DEF Next

LEMMA OneJobPerRequestStep ==
  TypeOK /\ PostJobInv /\ OneJobPerRequest /\ [Next]_vars => OneJobPerRequest'
  <1> SUFFICES ASSUME TypeOK, PostJobInv, OneJobPerRequest, [Next]_vars
               PROVE  OneJobPerRequest'
    OBVIOUS
  <1> USE ConstantsAssumption DEF TypeOK, PostJobInv, OneJobPerRequest
  <1>0. CASE UNCHANGED <<job>>
    BY <1>0
  <1>1. ASSUME NEW r \in Runtimes, NEW q \in Requests, SubmitLookup(r, q)
        PROVE  OneJobPerRequest'
    BY <1>0, <1>1 DEF SubmitLookup
  <1>2. ASSUME NEW r \in Runtimes, SubmitInsert(r)  PROVE OneJobPerRequest'
    <2>1. CASE RequestIdFree(loc[r].req)
      BY <1>2, <2>1 DEF SubmitInsert, RequestIdFree, JobsOf, NoJob
    <2>2. CASE ~RequestIdFree(loc[r].req)
      BY <1>2, <2>2 DEF SubmitInsert, NoJob
    <2>. QED  BY <2>1, <2>2
  <1>3. ASSUME NEW r \in Runtimes, RunJob(r)  PROVE OneJobPerRequest'
    <2>1. CASE StartJob(r)
      BY <2>1 DEF StartJob, ProvisioningJob
    <2>2. CASE JobDone(r)
      BY <2>2 DEF JobDone, ProvisioningJob
    <2>3. CASE JobFails(r)
      BY <2>3 DEF JobFails, WriteMeta, ProvisioningJob
    <2>4. CASE Place(r) \/ NextVmid(r) \/ CloneTemplate(r) \/
               ConfigureCloudInit(r) \/ Boot(r) \/ WaitForIp(r) \/
               HygieneGate(r) \/ BootstrapHermes(r)
      BY <1>0, <2>4 DEF Place, NextVmid, CloneTemplate, ConfigureCloudInit,
         Boot, WaitForIp, HygieneGate, BootstrapHermes
    <2>. QED  BY <1>3, <2>1, <2>2, <2>3, <2>4 DEF RunJob
  <1>4. ASSUME NEW d \in Deleters, NEW r \in Runtimes, DeleteVerify(d, r)
        PROVE  OneJobPerRequest'
    BY <1>0, <1>4 DEF DeleteVerify
  <1>5. ASSUME NEW d \in Deleters, DeleteStep(d)  PROVE OneJobPerRequest'
    BY <1>0, <1>5 DEF DeleteShutdown, DeleteDestroy, DeleteCommit,
       DeleteAborts, DeleteStep
  <1>6. CASE Crash
    BY <1>0, <1>6 DEF Crash
  <1>7. ASSUME NEW s \in Superseders, NEW r \in Runtimes, NEW l \in Runtimes,
               SupersedeLoad(s, r, l)
        PROVE  OneJobPerRequest'
    BY <1>0, <1>7 DEF SupersedeLoad
  <1>8. ASSUME NEW s \in Superseders, SupersedeCommit(s)  PROVE OneJobPerRequest'
    BY <1>0, <1>8 DEF SupersedeCommit
  <1>9. CASE \/ \E r \in Runtimes, x \in RuntimeState : SetDesiredState(r, x)
             \/ \E r \in Runtimes : JobLost(r)
             \/ \E v \in VmIds : ForeignClone(v)
             \/ UNCHANGED vars
    BY <1>0, <1>9 DEF SetDesiredState, JobLost, ForeignClone, vars, row, post
  <1>. QED  BY <1>1, <1>2, <1>3, <1>4, <1>5, <1>6, <1>7, <1>8, <1>9 DEF Next

(* Protected VMs *)

LEMMA ProtectedInvStep ==
  TypeOK /\ ProtectedInv /\ [Next]_vars => ProtectedInv'
  <1> SUFFICES ASSUME TypeOK, ProtectedInv, [Next]_vars
               PROVE  ProtectedInv'
    OBVIOUS
  <1> USE ConstantsAssumption DEF TypeOK, ProtectedInv
  <1>0. CASE UNCHANGED del
    BY <1>0
  <1>1. ASSUME NEW d \in Deleters, NEW r \in Runtimes, DeleteVerify(d, r)
        PROVE  ProtectedInv'
    BY <1>1 DEF DeleteVerify, VerifyOwnership, Delete
  <1>2. ASSUME NEW d \in Deleters, DeleteStep(d)  PROVE ProtectedInv'
    <2>1. CASE DeleteShutdown(d)
      BY <2>1 DEF DeleteShutdown, Delete
    <2>2. CASE DeleteDestroy(d)
      BY <2>2 DEF DeleteDestroy, Delete
    <2>3. CASE DeleteCommit(d) \/ DeleteAborts(d)
      BY <2>3 DEF DeleteCommit, DeleteAborts, IdleDelete, Delete
    <2>. QED  BY <1>2, <2>1, <2>2, <2>3 DEF DeleteStep
  <1>3. CASE Crash
    BY <1>3 DEF Crash, IdleDelete
  <1>4. ASSUME NEW r \in Runtimes, RunJob(r)  PROVE ProtectedInv'
    BY <1>0, <1>4 DEF StartJob, Place, NextVmid, CloneTemplate,
       ConfigureCloudInit, Boot, WaitForIp, HygieneGate, BootstrapHermes,
       JobDone, JobFails, RunJob
  <1>5. CASE \/ \E r \in Runtimes, q \in Requests : SubmitLookup(r, q)
             \/ \E r \in Runtimes : SubmitInsert(r) \/ JobLost(r)
             \/ \E s \in Superseders, r, l \in Runtimes : SupersedeLoad(s, r, l)
             \/ \E s \in Superseders : SupersedeCommit(s)
             \/ \E r \in Runtimes, x \in RuntimeState : SetDesiredState(r, x)
             \/ \E v \in VmIds : ForeignClone(v)
             \/ UNCHANGED vars
    BY <1>0, <1>5 DEF SubmitLookup, SubmitInsert, JobLost, SupersedeLoad, SupersedeCommit,
       SetDesiredState, ForeignClone, vars
  <1>. QED  BY <1>1, <1>2, <1>3, <1>4, <1>5 DEF Next

(* The accounting group *)

LEMMA RowVmInvStep ==
  TypeOK /\ RowVmInv /\ [Next]_vars => RowVmInv'
  <1> SUFFICES ASSUME TypeOK, RowVmInv, [Next]_vars
               PROVE  RowVmInv'
    OBVIOUS
  <1> USE ConstantsAssumption DEF TypeOK, RowVmInv, BeforeClone, AfterClone,
          JobSteps
  <1>0. CASE UNCHANGED <<pc, loc, vmid>>
    BY <1>0
  <1>1. ASSUME NEW r \in Runtimes, NEW q \in Requests, SubmitLookup(r, q)
        PROVE  RowVmInv'
    <2>1. CASE pc' = [pc EXCEPT ![r] = "insert"] /\ UNCHANGED reply
      BY <1>1, <2>1 DEF SubmitLookup, Locals, row
    <2>2. ASSUME NEW j \in JobsOf(q), pc' = [pc EXCEPT ![r] = "returned"],
                 reply' = [reply EXCEPT ![r] = j]
          PROVE  RowVmInv'
      BY <1>1, <2>2 DEF SubmitLookup, JobsOf, Locals, row
    <2>. QED  BY <1>1, <2>1, <2>2 DEF SubmitLookup
  <1>2. ASSUME NEW r \in Runtimes, SubmitInsert(r)  PROVE RowVmInv'
    <2>1. CASE RequestIdFree(loc[r].req)
      BY <1>2, <2>1 DEF SubmitInsert, RequestIdFree, JobsOf, NoJob
    <2>2. CASE ~RequestIdFree(loc[r].req)
      BY <1>2, <2>2 DEF SubmitInsert, NoJob
    <2>. QED  BY <2>1, <2>2
  <1>3. ASSUME NEW r \in Runtimes, RunJob(r)  PROVE RowVmInv'
    <2>1. CASE StartJob(r)
      BY <2>1 DEF StartJob, ProvisioningJob, row
    <2>2. CASE Place(r)
      BY <2>2 DEF Place, Locals, row
    <2>3. CASE NextVmid(r)
      BY <2>3 DEF NextVmid, IsNextVmid, Locals, row
    <2>4. CASE CloneTemplate(r)
      BY <2>4 DEF CloneTemplate, CloneAccepted, VM, Locals, row
    <2>5. CASE ConfigureCloudInit(r)
      BY <2>5 DEF ConfigureCloudInit, WriteMeta, VM, Locals, row
    <2>6. CASE Boot(r)
      BY <2>6 DEF Boot, VM, row
    <2>7. CASE WaitForIp(r)
      BY <2>7 DEF WaitForIp, WriteMeta, Locals
    <2>8. CASE HygieneGate(r)
      BY <2>8 DEF HygieneGate, WriteMeta, CloneIdentityOk
    <2>9. CASE BootstrapHermes(r)
      BY <2>9 DEF BootstrapHermes, WriteMeta
    <2>10. CASE JobDone(r)
      BY <2>10 DEF JobDone, ProvisioningJob
    <2>11. CASE JobFails(r)
      BY <2>11 DEF JobFails, WriteMeta, ProvisioningJob
    <2>. QED  BY <1>3, <2>1, <2>2, <2>3, <2>4, <2>5, <2>6, <2>7, <2>8, <2>9,
       <2>10, <2>11 DEF RunJob
  <1>4. ASSUME NEW d \in Deleters, NEW r \in Runtimes, DeleteVerify(d, r)
        PROVE  RowVmInv'
    BY <1>0, <1>4 DEF DeleteVerify, row, post
  <1>5. ASSUME NEW d \in Deleters, DeleteStep(d)  PROVE RowVmInv'
    <2>1. CASE DeleteCommit(d)
      BY <2>1 DEF DeleteCommit, IdleDelete, Delete, post
    <2>2. CASE DeleteShutdown(d) \/ DeleteDestroy(d) \/ DeleteAborts(d)
      BY <1>0, <2>2 DEF DeleteShutdown, DeleteDestroy, DeleteAborts, row, post
    <2>. QED  BY <1>5, <2>1, <2>2 DEF DeleteStep
  <1>6. CASE Crash
    BY <1>6 DEF Crash, Ended, row
  <1>7. ASSUME NEW s \in Superseders, NEW r \in Runtimes, NEW l \in Runtimes,
               SupersedeLoad(s, r, l)
        PROVE  RowVmInv'
    BY <1>0, <1>7 DEF SupersedeLoad, row, post
  <1>8. ASSUME NEW s \in Superseders, SupersedeCommit(s)  PROVE RowVmInv'
    BY <1>0, <1>8 DEF SupersedeCommit, post
  <1>9. CASE \/ \E r \in Runtimes, x \in RuntimeState : SetDesiredState(r, x)
             \/ \E v \in VmIds : ForeignClone(v)
             \/ UNCHANGED vars
    BY <1>0, <1>9 DEF SetDesiredState, ForeignClone, vars, row, post
  <1>10. ASSUME NEW r \in Runtimes, JobLost(r)  PROVE RowVmInv'
    BY <1>10 DEF JobLost, row
  <1>. QED
    BY <1>1, <1>2, <1>3, <1>4, <1>5, <1>6, <1>7, <1>8, <1>9, <1>10 DEF Next

LEMMA OwnedVmInvStep ==
  TypeOK /\ PostJobInv /\ RowVmInv /\ DeleteInv /\ OwnedVmInv /\ [Next]_vars
    => OwnedVmInv'
  <1> SUFFICES ASSUME TypeOK, PostJobInv, RowVmInv, DeleteInv, OwnedVmInv,
                  [Next]_vars
               PROVE  OwnedVmInv'
    OBVIOUS
  <1> USE ConstantsAssumption DEF TypeOK, PostJobInv, RowVmInv, DeleteInv,
          OwnedVmInv, BeforeClone, AfterClone, JobSteps
  <1>0. CASE UNCHANGED <<vms, loc, pc, vmid, job>>
    BY <1>0
  <1>1. ASSUME NEW r \in Runtimes, NEW q \in Requests, SubmitLookup(r, q)
        PROVE  OwnedVmInv'
    <2>1. CASE pc' = [pc EXCEPT ![r] = "insert"] /\ UNCHANGED reply
      BY <1>1, <2>1 DEF SubmitLookup, Locals, row
    <2>2. ASSUME NEW j \in JobsOf(q), pc' = [pc EXCEPT ![r] = "returned"],
                 reply' = [reply EXCEPT ![r] = j]
          PROVE  OwnedVmInv'
      BY <1>1, <2>2 DEF SubmitLookup, JobsOf, Locals, row
    <2>. QED  BY <1>1, <2>1, <2>2 DEF SubmitLookup
  <1>2. ASSUME NEW r \in Runtimes, SubmitInsert(r)  PROVE OwnedVmInv'
    <2>1. CASE RequestIdFree(loc[r].req)
      BY <1>2, <2>1 DEF SubmitInsert, RequestIdFree, JobsOf, NoJob
    <2>2. CASE ~RequestIdFree(loc[r].req)
      <3>1. \A v \in VmIds : vms[v].owner # r  BY <1>2 DEF SubmitInsert
      <3>2. pc' = [pc EXCEPT ![r] = "conflict"]  BY <1>2, <2>2 DEF SubmitInsert
      <3>. QED  BY <1>2, <2>2, <3>1, <3>2 DEF SubmitInsert
    <2>. QED  BY <2>1, <2>2
  <1>3. ASSUME NEW r \in Runtimes, RunJob(r)  PROVE OwnedVmInv'
    <2>1. CASE StartJob(r)
      BY <2>1 DEF StartJob, ProvisioningJob, row
    <2>2. CASE Place(r)
      BY <2>2 DEF Place, Locals, row
    <2>3. CASE NextVmid(r)
      BY <2>3 DEF NextVmid, IsNextVmid, Locals, row
    <2>4. CASE CloneTemplate(r)
      BY <2>4 DEF CloneTemplate, CloneAccepted, VM, Locals, row
    <2>5. CASE ConfigureCloudInit(r)
      BY <2>5 DEF ConfigureCloudInit, WriteMeta, VM, Locals, row
    <2>6. CASE Boot(r)
      BY <2>6 DEF Boot, VM, row
    <2>7. CASE WaitForIp(r)
      BY <2>7 DEF WaitForIp, WriteMeta, Locals
    <2>8. CASE HygieneGate(r)
      BY <2>8 DEF HygieneGate, WriteMeta, CloneIdentityOk
    <2>9. CASE BootstrapHermes(r)
      BY <2>9 DEF BootstrapHermes, WriteMeta
    <2>10. CASE JobDone(r)
      BY <2>10 DEF JobDone, ProvisioningJob
    <2>11. CASE JobFails(r)
      BY <2>11 DEF JobFails, WriteMeta, ProvisioningJob
    <2>. QED  BY <1>3, <2>1, <2>2, <2>3, <2>4, <2>5, <2>6, <2>7, <2>8, <2>9,
       <2>10, <2>11 DEF RunJob
  <1>4. ASSUME NEW d \in Deleters, NEW r \in Runtimes, DeleteVerify(d, r)
        PROVE  OwnedVmInv'
    BY <1>0, <1>4 DEF DeleteVerify, row, post
  <1>5. ASSUME NEW d \in Deleters, DeleteStep(d)  PROVE OwnedVmInv'
    <2>1. CASE DeleteShutdown(d)
      BY <2>1 DEF DeleteShutdown, VM, Delete, row, post
    <2>2. CASE DeleteDestroy(d)
      BY <2>2 DEF DeleteDestroy, NoVm, VM, Delete, row, post
    <2>3. CASE DeleteCommit(d)
      BY <2>3 DEF DeleteCommit, IdleDelete, Delete, post
    <2>4. CASE DeleteAborts(d)
      BY <1>0, <2>4 DEF DeleteAborts, row, post
    <2>. QED  BY <1>5, <2>1, <2>2, <2>3, <2>4 DEF DeleteStep
  <1>6. CASE Crash
    BY <1>6 DEF Crash, Ended, row
  <1>7. ASSUME NEW s \in Superseders, NEW r \in Runtimes, NEW l \in Runtimes,
               SupersedeLoad(s, r, l)
        PROVE  OwnedVmInv'
    BY <1>0, <1>7 DEF SupersedeLoad, row, post
  <1>8. ASSUME NEW s \in Superseders, SupersedeCommit(s)  PROVE OwnedVmInv'
    BY <1>0, <1>8 DEF SupersedeCommit, post
  <1>9. CASE \/ \E r \in Runtimes, x \in RuntimeState : SetDesiredState(r, x)
             \/ UNCHANGED vars
    BY <1>0, <1>9 DEF SetDesiredState, vars, row, post
  <1>10. ASSUME NEW v \in VmIds, ForeignClone(v)  PROVE OwnedVmInv'
    BY <1>10 DEF ForeignClone, CloneAccepted, ForeignVm, NoVm, VM, row, post
  <1>11. ASSUME NEW r \in Runtimes, JobLost(r)  PROVE OwnedVmInv'
    BY <1>11 DEF JobLost, row
  <1>. QED
    BY <1>1, <1>2, <1>3, <1>4, <1>5, <1>6, <1>7, <1>8, <1>9, <1>10, <1>11 DEF Next

LEMMA DeleteInvStep ==
  TypeOK /\ RowVmInv /\ OwnedVmInv /\ ProtectedInv /\ DeleteInv /\ [Next]_vars
    => DeleteInv'
  <1> SUFFICES ASSUME TypeOK, RowVmInv, OwnedVmInv, ProtectedInv, DeleteInv,
                  [Next]_vars
               PROVE  DeleteInv'
    OBVIOUS
  <1> USE ConstantsAssumption DEF TypeOK, RowVmInv, OwnedVmInv, ProtectedInv,
          DeleteInv, BeforeClone, AfterClone, JobSteps
  <1>0. CASE UNCHANGED <<del, pc, loc, vms>>
    BY <1>0
  <1>1. ASSUME NEW r \in Runtimes, NEW q \in Requests, SubmitLookup(r, q)
        PROVE  DeleteInv'
    <2>1. CASE pc' = [pc EXCEPT ![r] = "insert"] /\ UNCHANGED reply
      BY <1>1, <2>1 DEF SubmitLookup, Locals
    <2>2. ASSUME NEW j \in JobsOf(q), pc' = [pc EXCEPT ![r] = "returned"],
                 reply' = [reply EXCEPT ![r] = j]
          PROVE  DeleteInv'
      BY <1>1, <2>2 DEF SubmitLookup, JobsOf, Locals
    <2>. QED  BY <1>1, <2>1, <2>2 DEF SubmitLookup
  <1>2. ASSUME NEW r \in Runtimes, SubmitInsert(r)  PROVE DeleteInv'
    <2>1. CASE RequestIdFree(loc[r].req)
      BY <1>2, <2>1 DEF SubmitInsert, RequestIdFree, JobsOf, NoJob
    <2>2. CASE ~RequestIdFree(loc[r].req)
      BY <1>2, <2>2 DEF SubmitInsert, NoJob
    <2>. QED  BY <2>1, <2>2
  <1>3. ASSUME NEW r \in Runtimes, RunJob(r)  PROVE DeleteInv'
    <2>1. CASE StartJob(r)
      BY <2>1 DEF StartJob, ProvisioningJob
    <2>2. CASE Place(r)
      BY <2>2 DEF Place, Locals
    <2>3. CASE NextVmid(r)
      BY <2>3 DEF NextVmid, IsNextVmid, Locals
    <2>4. CASE CloneTemplate(r)
      BY <2>4 DEF CloneTemplate, CloneAccepted, VM, Locals
    <2>5. CASE ConfigureCloudInit(r)
      BY <2>5 DEF ConfigureCloudInit, WriteMeta, VM, Locals
    <2>6. CASE Boot(r)
      BY <2>6 DEF Boot, VM
    <2>7. CASE WaitForIp(r)
      BY <2>7 DEF WaitForIp, WriteMeta, Locals
    <2>8. CASE HygieneGate(r)
      BY <2>8 DEF HygieneGate, WriteMeta, CloneIdentityOk
    <2>9. CASE BootstrapHermes(r)
      BY <2>9 DEF BootstrapHermes, WriteMeta
    <2>10. CASE JobDone(r)
      BY <2>10 DEF JobDone, ProvisioningJob
    <2>11. CASE JobFails(r)
      BY <2>11 DEF JobFails, WriteMeta, ProvisioningJob
    <2>. QED  BY <1>3, <2>1, <2>2, <2>3, <2>4, <2>5, <2>6, <2>7, <2>8, <2>9,
       <2>10, <2>11 DEF RunJob
  <1>4. ASSUME NEW d \in Deleters, NEW r \in Runtimes, DeleteVerify(d, r)
        PROVE  DeleteInv'
    BY <1>4 DEF DeleteVerify, VerifyOwnership, DeleteAllowed, Delete, post
  <1>5. ASSUME NEW d \in Deleters, DeleteStep(d)  PROVE DeleteInv'
    <2>1. CASE DeleteShutdown(d)
      BY <2>1 DEF DeleteShutdown, VM, Delete, post
    <2>2. CASE DeleteDestroy(d)
      BY <2>2 DEF DeleteDestroy, NoVm, VM, Delete, post
    <2>3. CASE DeleteCommit(d)
      BY <2>3 DEF DeleteCommit, IdleDelete, Delete, post
    <2>4. CASE DeleteAborts(d)
      BY <2>4 DEF DeleteAborts, IdleDelete, post
    <2>. QED  BY <1>5, <2>1, <2>2, <2>3, <2>4 DEF DeleteStep
  <1>6. CASE Crash
    BY <1>6 DEF Crash, IdleDelete, Ended
  <1>7. ASSUME NEW s \in Superseders, NEW r \in Runtimes, NEW l \in Runtimes,
               SupersedeLoad(s, r, l)
        PROVE  DeleteInv'
    BY <1>0, <1>7 DEF SupersedeLoad, post
  <1>8. ASSUME NEW s \in Superseders, SupersedeCommit(s)  PROVE DeleteInv'
    BY <1>0, <1>8 DEF SupersedeCommit, post
  <1>9. CASE \/ \E r \in Runtimes, x \in RuntimeState : SetDesiredState(r, x)
             \/ UNCHANGED vars
    BY <1>0, <1>9 DEF SetDesiredState, vars, row, post
  <1>10. ASSUME NEW v \in VmIds, ForeignClone(v)  PROVE DeleteInv'
    BY <1>10 DEF ForeignClone, CloneAccepted, ForeignVm, NoVm, VM, row, post
  <1>11. ASSUME NEW r \in Runtimes, JobLost(r)  PROVE DeleteInv'
    BY <1>11 DEF JobLost, row
  <1>. QED
    BY <1>1, <1>2, <1>3, <1>4, <1>5, <1>6, <1>7, <1>8, <1>9, <1>10, <1>11 DEF Next

LEMMA SupersedeInvStep ==
  TypeOK /\ SupersedeInv /\ [Next]_vars => SupersedeInv'
  <1> SUFFICES ASSUME TypeOK, SupersedeInv, [Next]_vars
               PROVE  SupersedeInv'
    OBVIOUS
  <1> USE ConstantsAssumption DEF TypeOK, SupersedeInv
  <1>0. CASE UNCHANGED <<sup>>
    BY <1>0
  <1>1. ASSUME NEW r \in Runtimes, NEW q \in Requests, SubmitLookup(r, q)
        PROVE  SupersedeInv'
    BY <1>0, <1>1 DEF SubmitLookup
  <1>2. ASSUME NEW r \in Runtimes, SubmitInsert(r)  PROVE SupersedeInv'
    BY <1>0, <1>2 DEF SubmitInsert
  <1>3. ASSUME NEW r \in Runtimes, RunJob(r)  PROVE SupersedeInv'
    BY <1>0, <1>3 DEF StartJob, Place, NextVmid, CloneTemplate,
       ConfigureCloudInit, Boot, WaitForIp, HygieneGate, BootstrapHermes,
       JobDone, JobFails, RunJob
  <1>4. ASSUME NEW d \in Deleters, NEW r \in Runtimes, DeleteVerify(d, r)
        PROVE  SupersedeInv'
    BY <1>0, <1>4 DEF DeleteVerify
  <1>5. ASSUME NEW d \in Deleters, DeleteStep(d)  PROVE SupersedeInv'
    BY <1>0, <1>5 DEF DeleteShutdown, DeleteDestroy, DeleteCommit,
       DeleteAborts, DeleteStep
  <1>6. CASE Crash
    BY <1>6 DEF Crash, IdleSupersede
  <1>7. ASSUME NEW s \in Superseders, NEW r \in Runtimes, NEW l \in Runtimes,
               SupersedeLoad(s, r, l)
        PROVE  SupersedeInv'
    BY <1>7 DEF SupersedeLoad, Supersede
  <1>8. ASSUME NEW s \in Superseders, SupersedeCommit(s)  PROVE SupersedeInv'
    BY <1>8 DEF SupersedeCommit, IdleSupersede
  <1>9. CASE \/ \E r \in Runtimes, x \in RuntimeState : SetDesiredState(r, x)
             \/ \E r \in Runtimes : JobLost(r)
             \/ \E v \in VmIds : ForeignClone(v)
             \/ UNCHANGED vars
    BY <1>0, <1>9 DEF SetDesiredState, JobLost, ForeignClone, vars, row, post
  <1>. QED  BY <1>1, <1>2, <1>3, <1>4, <1>5, <1>6, <1>7, <1>8, <1>9 DEF Next

(* The ownership group: TargetInv needs DeletesApart, the one part that rests on
   the clients *)

LEMMA HeldVmInvStep ==
  TypeOK /\ RowVmInv /\ OwnedVmInv /\ DeleteInv /\ TargetInv /\ HeldVmInv
    /\ [Next]_vars => HeldVmInv'
  <1> SUFFICES ASSUME TypeOK, RowVmInv, OwnedVmInv, DeleteInv, TargetInv,
                  HeldVmInv, [Next]_vars
               PROVE  HeldVmInv'
    OBVIOUS
  <1> USE ConstantsAssumption DEF TypeOK, RowVmInv, OwnedVmInv, DeleteInv,
          TargetInv, HeldVmInv, BeforeClone, AfterClone, JobSteps
  <1>0. CASE UNCHANGED <<pc, loc, vms>>
    BY <1>0
  <1>1. ASSUME NEW r \in Runtimes, NEW q \in Requests, SubmitLookup(r, q)
        PROVE  HeldVmInv'
    <2>1. CASE pc' = [pc EXCEPT ![r] = "insert"] /\ UNCHANGED reply
      BY <1>1, <2>1 DEF SubmitLookup, Locals
    <2>2. ASSUME NEW j \in JobsOf(q), pc' = [pc EXCEPT ![r] = "returned"],
                 reply' = [reply EXCEPT ![r] = j]
          PROVE  HeldVmInv'
      BY <1>1, <2>2 DEF SubmitLookup, JobsOf, Locals
    <2>. QED  BY <1>1, <2>1, <2>2 DEF SubmitLookup
  <1>2. ASSUME NEW r \in Runtimes, SubmitInsert(r)  PROVE HeldVmInv'
    <2>1. CASE RequestIdFree(loc[r].req)
      BY <1>2, <2>1 DEF SubmitInsert, RequestIdFree, JobsOf, NoJob
    <2>2. CASE ~RequestIdFree(loc[r].req)
      BY <1>2, <2>2 DEF SubmitInsert, NoJob
    <2>. QED  BY <2>1, <2>2
  <1>3. ASSUME NEW r \in Runtimes, RunJob(r)  PROVE HeldVmInv'
    <2>1. CASE StartJob(r)
      BY <2>1 DEF StartJob, ProvisioningJob
    <2>2. CASE Place(r)
      BY <2>2 DEF Place, Locals
    <2>3. CASE NextVmid(r)
      BY <2>3 DEF NextVmid, IsNextVmid, Locals
    <2>4. CASE CloneTemplate(r)
      BY <2>4 DEF CloneTemplate, CloneAccepted, VM, Locals
    <2>5. CASE ConfigureCloudInit(r)
      BY <2>5 DEF ConfigureCloudInit, WriteMeta, VM, Locals
    <2>6. CASE Boot(r)
      BY <2>6 DEF Boot, VM
    <2>7. CASE WaitForIp(r)
      BY <2>7 DEF WaitForIp, WriteMeta, Locals
    <2>8. CASE HygieneGate(r)
      BY <2>8 DEF HygieneGate, WriteMeta, CloneIdentityOk
    <2>9. CASE BootstrapHermes(r)
      BY <2>9 DEF BootstrapHermes, WriteMeta
    <2>10. CASE JobDone(r)
      BY <2>10 DEF JobDone, ProvisioningJob
    <2>11. CASE JobFails(r)
      BY <2>11 DEF JobFails, WriteMeta, ProvisioningJob
    <2>. QED  BY <1>3, <2>1, <2>2, <2>3, <2>4, <2>5, <2>6, <2>7, <2>8, <2>9,
       <2>10, <2>11 DEF RunJob
  <1>4. ASSUME NEW d \in Deleters, NEW r \in Runtimes, DeleteVerify(d, r)
        PROVE  HeldVmInv'
    BY <1>0, <1>4 DEF DeleteVerify, post
  <1>5. ASSUME NEW d \in Deleters, DeleteStep(d)  PROVE HeldVmInv'
    <2>1. CASE DeleteShutdown(d)
      BY <2>1 DEF DeleteShutdown, VM, Delete, post
    <2>2. CASE DeleteDestroy(d)
      BY <2>2 DEF DeleteDestroy, NoVm, VM, Delete, post
    <2>3. CASE DeleteCommit(d) \/ DeleteAborts(d)
      BY <1>0, <2>3 DEF DeleteCommit, DeleteAborts, post
    <2>. QED  BY <1>5, <2>1, <2>2, <2>3 DEF DeleteStep
  <1>6. CASE Crash
    BY <1>6 DEF Crash, Ended
  <1>7. ASSUME NEW s \in Superseders, NEW r \in Runtimes, NEW l \in Runtimes,
               SupersedeLoad(s, r, l)
        PROVE  HeldVmInv'
    BY <1>0, <1>7 DEF SupersedeLoad, post
  <1>8. ASSUME NEW s \in Superseders, SupersedeCommit(s)  PROVE HeldVmInv'
    BY <1>0, <1>8 DEF SupersedeCommit, post
  <1>9. CASE \/ \E r \in Runtimes, x \in RuntimeState : SetDesiredState(r, x)
             \/ UNCHANGED vars
    BY <1>0, <1>9 DEF SetDesiredState, vars, row, post
  <1>10. ASSUME NEW v \in VmIds, ForeignClone(v)  PROVE HeldVmInv'
    BY <1>10 DEF ForeignClone, CloneAccepted, ForeignVm, NoVm, VM, row, post
  <1>11. ASSUME NEW r \in Runtimes, JobLost(r)  PROVE HeldVmInv'
    BY <1>11 DEF JobLost, row
  <1>. QED
    BY <1>1, <1>2, <1>3, <1>4, <1>5, <1>6, <1>7, <1>8, <1>9, <1>10, <1>11 DEF Next

LEMMA MarkerInvStep ==
  TypeOK /\ RowVmInv /\ OwnedVmInv /\ HeldVmInv /\ MarkerInv /\ [Next]_vars
    => MarkerInv'
  <1> SUFFICES ASSUME TypeOK, RowVmInv, OwnedVmInv, HeldVmInv, MarkerInv,
                  [Next]_vars
               PROVE  MarkerInv'
    OBVIOUS
  <1> USE ConstantsAssumption DEF TypeOK, RowVmInv, OwnedVmInv, HeldVmInv,
          MarkerInv, BeforeClone, AfterClone, JobSteps
  <1>0. CASE UNCHANGED <<vms, pc>>
    BY <1>0
  <1>1. ASSUME NEW r \in Runtimes, NEW q \in Requests, SubmitLookup(r, q)
        PROVE  MarkerInv'
    <2>1. CASE pc' = [pc EXCEPT ![r] = "insert"] /\ UNCHANGED reply
      BY <1>1, <2>1 DEF SubmitLookup, Locals
    <2>2. ASSUME NEW j \in JobsOf(q), pc' = [pc EXCEPT ![r] = "returned"],
                 reply' = [reply EXCEPT ![r] = j]
          PROVE  MarkerInv'
      BY <1>1, <2>2 DEF SubmitLookup, JobsOf, Locals
    <2>. QED  BY <1>1, <2>1, <2>2 DEF SubmitLookup
  <1>2. ASSUME NEW r \in Runtimes, SubmitInsert(r)  PROVE MarkerInv'
    <2>1. CASE RequestIdFree(loc[r].req)
      BY <1>2, <2>1 DEF SubmitInsert, RequestIdFree, JobsOf, NoJob
    <2>2. CASE ~RequestIdFree(loc[r].req)
      BY <1>2, <2>2 DEF SubmitInsert, NoJob
    <2>. QED  BY <2>1, <2>2
  <1>3. ASSUME NEW r \in Runtimes, RunJob(r)  PROVE MarkerInv'
    <2>1. CASE StartJob(r)
      BY <2>1 DEF StartJob, ProvisioningJob
    <2>2. CASE Place(r)
      BY <2>2 DEF Place, Locals
    <2>3. CASE NextVmid(r)
      BY <2>3 DEF NextVmid, IsNextVmid, Locals
    <2>4. CASE CloneTemplate(r)
      BY <2>4 DEF CloneTemplate, CloneAccepted, VM, Locals
    <2>5. CASE ConfigureCloudInit(r)
      BY <2>5 DEF ConfigureCloudInit, WriteMeta, VM, Locals
    <2>6. CASE Boot(r)
      BY <2>6 DEF Boot, VM
    <2>7. CASE WaitForIp(r)
      BY <2>7 DEF WaitForIp, WriteMeta, Locals
    <2>8. CASE HygieneGate(r)
      BY <2>8 DEF HygieneGate, WriteMeta, CloneIdentityOk
    <2>9. CASE BootstrapHermes(r)
      BY <2>9 DEF BootstrapHermes, WriteMeta
    <2>10. CASE JobDone(r)
      BY <2>10 DEF JobDone, ProvisioningJob
    <2>11. CASE JobFails(r)
      BY <2>11 DEF JobFails, WriteMeta, ProvisioningJob
    <2>. QED  BY <1>3, <2>1, <2>2, <2>3, <2>4, <2>5, <2>6, <2>7, <2>8, <2>9,
       <2>10, <2>11 DEF RunJob
  <1>4. ASSUME NEW d \in Deleters, NEW r \in Runtimes, DeleteVerify(d, r)
        PROVE  MarkerInv'
    BY <1>0, <1>4 DEF DeleteVerify, post
  <1>5. ASSUME NEW d \in Deleters, DeleteStep(d)  PROVE MarkerInv'
    <2>1. CASE DeleteShutdown(d)
      BY <2>1 DEF DeleteShutdown, VM, Delete, post
    <2>2. CASE DeleteDestroy(d)
      BY <2>2 DEF DeleteDestroy, NoVm, VM, Delete, post
    <2>3. CASE DeleteCommit(d) \/ DeleteAborts(d)
      BY <1>0, <2>3 DEF DeleteCommit, DeleteAborts, post
    <2>. QED  BY <1>5, <2>1, <2>2, <2>3 DEF DeleteStep
  <1>6. CASE Crash
    BY <1>6 DEF Crash, Ended
  <1>7. ASSUME NEW s \in Superseders, NEW r \in Runtimes, NEW l \in Runtimes,
               SupersedeLoad(s, r, l)
        PROVE  MarkerInv'
    BY <1>0, <1>7 DEF SupersedeLoad, post
  <1>8. ASSUME NEW s \in Superseders, SupersedeCommit(s)  PROVE MarkerInv'
    BY <1>0, <1>8 DEF SupersedeCommit, post
  <1>9. CASE \/ \E r \in Runtimes, x \in RuntimeState : SetDesiredState(r, x)
             \/ UNCHANGED vars
    BY <1>0, <1>9 DEF SetDesiredState, vars, row, post
  <1>10. ASSUME NEW v \in VmIds, ForeignClone(v)  PROVE MarkerInv'
    BY <1>10 DEF ForeignClone, CloneAccepted, ForeignVm, NoVm, VM, row, post
  <1>11. ASSUME NEW r \in Runtimes, JobLost(r)  PROVE MarkerInv'
    BY <1>11 DEF JobLost, row
  <1>. QED
    BY <1>1, <1>2, <1>3, <1>4, <1>5, <1>6, <1>7, <1>8, <1>9, <1>10, <1>11 DEF Next

LEMMA TargetInvStep ==
  TypeOK /\ ProtectedInv /\ RowVmInv /\ OwnedVmInv /\ DeleteInv /\ MarkerInv
    /\ DeletesApart /\ TargetInv /\ [Next]_vars => TargetInv'
  <1> SUFFICES ASSUME TypeOK, ProtectedInv, RowVmInv, OwnedVmInv, DeleteInv,
                  MarkerInv, DeletesApart, TargetInv, [Next]_vars
               PROVE  TargetInv'
    OBVIOUS
  <1> USE ConstantsAssumption DEF TypeOK, ProtectedInv, RowVmInv, OwnedVmInv,
          DeleteInv, MarkerInv, DeletesApart, TargetInv, BeforeClone,
          AfterClone, JobSteps
  <1>0. CASE UNCHANGED <<del, vmid, vms>>
    BY <1>0
  <1>1. ASSUME NEW r \in Runtimes, NEW q \in Requests, SubmitLookup(r, q)
        PROVE  TargetInv'
    BY <1>0, <1>1 DEF SubmitLookup, row
  <1>2. ASSUME NEW r \in Runtimes, SubmitInsert(r)  PROVE TargetInv'
    BY <1>0, <1>2 DEF SubmitInsert
  <1>3. ASSUME NEW r \in Runtimes, RunJob(r)  PROVE TargetInv'
    <2>1. CASE CloneTemplate(r)
      BY <2>1 DEF CloneTemplate, CloneAccepted, VM, Locals, row
    <2>2. CASE ConfigureCloudInit(r)
      BY <2>2 DEF ConfigureCloudInit, WriteMeta, VM, Locals, row
    <2>3. CASE Boot(r)
      BY <2>3 DEF Boot, VM, row
    <2>4. CASE JobDone(r)
      BY <2>4 DEF JobDone, ProvisioningJob
    <2>5. CASE StartJob(r) \/ Place(r) \/ NextVmid(r) \/ WaitForIp(r) \/
               HygieneGate(r) \/ BootstrapHermes(r) \/ JobFails(r)
      BY <1>0, <2>5 DEF StartJob, Place, NextVmid, WaitForIp, HygieneGate,
         BootstrapHermes, JobFails, row
    <2>. QED  BY <1>3, <2>1, <2>2, <2>3, <2>4, <2>5 DEF RunJob
  <1>4. ASSUME NEW d \in Deleters, NEW r \in Runtimes, DeleteVerify(d, r)
        PROVE  TargetInv'
    <2>1. vms[vmid[r]].exists /\ vms[vmid[r]].owner = r
      <3>1. vmid[r] \in VmIds /\ vms[vmid[r]].exists /\ vms[vmid[r]].marker = r
        BY <1>4 DEF DeleteVerify, VerifyOwnership
      <3>2. r # NULL  OBVIOUS
      <3>3. \A v \in VmIds : vms[v].marker # NULL => vms[v].owner = vms[v].marker
        OBVIOUS
      <3>. QED  BY <3>1, <3>2, <3>3
    <2>2. /\ del' = [del EXCEPT ![d] = [pc |-> "shutdown", rt |-> r,
                                        vmid |-> vmid[r], desired |-> desired[r]]]
          /\ vms' = vms /\ vmid' = vmid
      BY <1>4 DEF DeleteVerify, row
    <2>. QED  BY <2>1, <2>2 DEF Delete
  <1>5. ASSUME NEW d \in Deleters, DeleteStep(d)  PROVE TargetInv'
    <2>1. CASE DeleteShutdown(d)
      BY <2>1 DEF DeleteShutdown, VM, Delete, row
    <2>2. CASE DeleteDestroy(d)
      BY <2>2 DEF DeleteDestroy, NoVm, VM, Delete, row
    <2>3. CASE DeleteCommit(d)
      BY <2>3 DEF DeleteCommit, IdleDelete, Delete
    <2>4. CASE DeleteAborts(d)
      BY <2>4 DEF DeleteAborts, IdleDelete, row
    <2>. QED  BY <1>5, <2>1, <2>2, <2>3, <2>4 DEF DeleteStep
  <1>6. CASE Crash
    BY <1>6 DEF Crash, IdleDelete, row
  <1>7. ASSUME NEW s \in Superseders, NEW r \in Runtimes, NEW l \in Runtimes,
               SupersedeLoad(s, r, l)
        PROVE  TargetInv'
    BY <1>0, <1>7 DEF SupersedeLoad, row
  <1>8. ASSUME NEW s \in Superseders, SupersedeCommit(s)  PROVE TargetInv'
    BY <1>0, <1>8 DEF SupersedeCommit
  <1>9. CASE \/ \E r \in Runtimes, x \in RuntimeState : SetDesiredState(r, x)
             \/ \E r \in Runtimes : JobLost(r)
             \/ UNCHANGED vars
    BY <1>0, <1>9 DEF SetDesiredState, JobLost, vars, row, post
  <1>10. ASSUME NEW v \in VmIds, ForeignClone(v)  PROVE TargetInv'
    BY <1>10 DEF ForeignClone, CloneAccepted, ForeignVm, NoVm, VM, row, post
  <1>. QED
    BY <1>1, <1>2, <1>3, <1>4, <1>5, <1>6, <1>7, <1>8, <1>9, <1>10 DEF Next

LEMMA DeletesApartStep ==
  SerializedDeletes /\ TypeOK /\ DeleteInv /\ DeletesApart /\ [Next]_vars
    => DeletesApart'
  <1> SUFFICES ASSUME SerializedDeletes, TypeOK, DeleteInv, DeletesApart,
                  [Next]_vars
               PROVE  DeletesApart'
    OBVIOUS
  <1> USE ConstantsAssumption DEF TypeOK, DeleteInv, DeletesApart
  <1>0. CASE UNCHANGED <<del>>
    BY <1>0
  <1>1. ASSUME NEW r \in Runtimes, NEW q \in Requests, SubmitLookup(r, q)
        PROVE  DeletesApart'
    BY <1>0, <1>1 DEF SubmitLookup
  <1>2. ASSUME NEW r \in Runtimes, SubmitInsert(r)  PROVE DeletesApart'
    BY <1>0, <1>2 DEF SubmitInsert
  <1>3. ASSUME NEW r \in Runtimes, RunJob(r)  PROVE DeletesApart'
    BY <1>0, <1>3 DEF StartJob, Place, NextVmid, CloneTemplate,
       ConfigureCloudInit, Boot, WaitForIp, HygieneGate, BootstrapHermes,
       JobDone, JobFails, RunJob
  <1>4. ASSUME NEW d \in Deleters, NEW r \in Runtimes, DeleteVerify(d, r)
        PROVE  DeletesApart'
    BY <1>4 DEF DeleteVerify, VerifyOwnership, DeleteAllowed, Delete
  <1>5. ASSUME NEW d \in Deleters, DeleteStep(d)  PROVE DeletesApart'
    <2>1. CASE DeleteShutdown(d)
      BY <2>1 DEF DeleteShutdown, VM, Delete
    <2>2. CASE DeleteDestroy(d)
      BY <2>2 DEF DeleteDestroy, NoVm, VM, Delete
    <2>3. CASE DeleteCommit(d)
      BY <2>3 DEF DeleteCommit, IdleDelete, Delete
    <2>4. CASE DeleteAborts(d)
      BY <2>4 DEF DeleteAborts, IdleDelete
    <2>. QED  BY <1>5, <2>1, <2>2, <2>3, <2>4 DEF DeleteStep
  <1>6. CASE Crash
    BY <1>6 DEF Crash, IdleDelete
  <1>7. ASSUME NEW s \in Superseders, NEW r \in Runtimes, NEW l \in Runtimes,
               SupersedeLoad(s, r, l)
        PROVE  DeletesApart'
    BY <1>0, <1>7 DEF SupersedeLoad
  <1>8. ASSUME NEW s \in Superseders, SupersedeCommit(s)  PROVE DeletesApart'
    BY <1>0, <1>8 DEF SupersedeCommit
  <1>9. CASE \/ \E r \in Runtimes, x \in RuntimeState : SetDesiredState(r, x)
             \/ \E r \in Runtimes : JobLost(r)
             \/ \E v \in VmIds : ForeignClone(v)
             \/ UNCHANGED vars
    BY <1>0, <1>9 DEF SetDesiredState, JobLost, ForeignClone, vars, row, post
  <1>. QED  BY <1>1, <1>2, <1>3, <1>4, <1>5, <1>6, <1>7, <1>8, <1>9 DEF Next

(* Addresses *)

LEMMA IpInvStep ==
  Superseders = {} /\ TypeOK /\ PostJobInv /\ IpInv /\ [Next]_vars => IpInv'
  <1> SUFFICES ASSUME Superseders = {}, TypeOK, PostJobInv, IpInv, [Next]_vars
               PROVE  IpInv'
    OBVIOUS
  <1> USE ConstantsAssumption DEF TypeOK, PostJobInv, IpInv, BeforeClone,
          AfterClone, JobSteps
  <1>0. CASE UNCHANGED <<pc, meta, loc, actual>>
    BY <1>0
  <1>1. ASSUME NEW r \in Runtimes, NEW q \in Requests, SubmitLookup(r, q)
        PROVE  IpInv'
    <2>1. CASE pc' = [pc EXCEPT ![r] = "insert"] /\ UNCHANGED reply
      BY <1>1, <2>1 DEF SubmitLookup, Locals, row
    <2>2. ASSUME NEW j \in JobsOf(q), pc' = [pc EXCEPT ![r] = "returned"],
                 reply' = [reply EXCEPT ![r] = j]
          PROVE  IpInv'
      BY <1>1, <2>2 DEF SubmitLookup, JobsOf, Locals, row
    <2>. QED  BY <1>1, <2>1, <2>2 DEF SubmitLookup
  <1>2. ASSUME NEW r \in Runtimes, SubmitInsert(r)  PROVE IpInv'
    <2>1. CASE RequestIdFree(loc[r].req)
      BY <1>2, <2>1 DEF SubmitInsert, RequestIdFree, JobsOf, NoJob
    <2>2. CASE ~RequestIdFree(loc[r].req)
      BY <1>2, <2>2 DEF SubmitInsert, NoJob
    <2>. QED  BY <2>1, <2>2
  <1>3. ASSUME NEW r \in Runtimes, RunJob(r)  PROVE IpInv'
    <2>1. CASE StartJob(r)
      BY <2>1 DEF StartJob, ProvisioningJob, row
    <2>2. CASE Place(r)
      BY <2>2 DEF Place, Locals, row
    <2>3. CASE NextVmid(r)
      BY <2>3 DEF NextVmid, IsNextVmid, Locals, row
    <2>4. CASE CloneTemplate(r)
      BY <2>4 DEF CloneTemplate, CloneAccepted, VM, Locals, row
    <2>5. CASE ConfigureCloudInit(r)
      BY <2>5 DEF ConfigureCloudInit, WriteMeta, VM, Locals, row
    <2>6. CASE Boot(r)
      BY <2>6 DEF Boot, VM, row
    <2>7. CASE WaitForIp(r)
      BY <2>7 DEF WaitForIp, WriteMeta, Locals
    <2>8. CASE HygieneGate(r)
      BY <2>8 DEF HygieneGate, WriteMeta, CloneIdentityOk, OtherRuntimeIps,
         OwnershipMeta
    <2>9. CASE BootstrapHermes(r)
      BY <2>9 DEF BootstrapHermes, WriteMeta
    <2>10. CASE JobDone(r)
      BY <2>10 DEF JobDone, ProvisioningJob
    <2>11. CASE JobFails(r)
      BY <2>11 DEF JobFails, WriteMeta, ProvisioningJob
    <2>. QED  BY <1>3, <2>1, <2>2, <2>3, <2>4, <2>5, <2>6, <2>7, <2>8, <2>9,
       <2>10, <2>11 DEF RunJob
  <1>4. ASSUME NEW d \in Deleters, NEW r \in Runtimes, DeleteVerify(d, r)
        PROVE  IpInv'
    BY <1>0, <1>4 DEF DeleteVerify, row, post
  <1>5. ASSUME NEW d \in Deleters, DeleteStep(d)  PROVE IpInv'
    <2>1. CASE DeleteCommit(d)
      BY <2>1 DEF DeleteCommit, IdleDelete, Delete, post
    <2>2. CASE DeleteShutdown(d) \/ DeleteDestroy(d) \/ DeleteAborts(d)
      BY <1>0, <2>2 DEF DeleteShutdown, DeleteDestroy, DeleteAborts, row, post
    <2>. QED  BY <1>5, <2>1, <2>2 DEF DeleteStep
  <1>6. CASE Crash
    BY <1>6 DEF Crash, Ended, row
  <1>7. ASSUME NEW s \in Superseders, NEW r \in Runtimes, NEW l \in Runtimes,
               SupersedeLoad(s, r, l)
        PROVE  IpInv'
    BY <1>0, <1>7 DEF SupersedeLoad, row, post
  <1>8. ASSUME NEW s \in Superseders, SupersedeCommit(s)  PROVE IpInv'
    BY <1>8 DEF SupersedeCommit, IdleSupersede, post
  <1>9. CASE \/ \E r \in Runtimes, x \in RuntimeState : SetDesiredState(r, x)
             \/ \E v \in VmIds : ForeignClone(v)
             \/ UNCHANGED vars
    BY <1>0, <1>9 DEF SetDesiredState, ForeignClone, vars, row, post
  <1>10. ASSUME NEW r \in Runtimes, JobLost(r)  PROVE IpInv'
    BY <1>10 DEF JobLost, row
  <1>. QED
    BY <1>1, <1>2, <1>3, <1>4, <1>5, <1>6, <1>7, <1>8, <1>9, <1>10 DEF Next

---------------------------------------------------------------------------
(* The parts hold together *)

LEMMA InitParts == Init => SubmitInv /\ ProtectedInv /\ AccountInv /\ OwnerInv /\ IpInv
  <1> SUFFICES ASSUME Init PROVE SubmitInv /\ ProtectedInv /\ AccountInv /\ OwnerInv /\ IpInv
    OBVIOUS
  <1> USE ConstantsAssumption DEF Init, AfterClone, BeforeClone, JobSteps
  <1>1. SubmitInv
    BY DEF SubmitInv, PostJobInv, ReplyInv, OneJobPerRequest, NoJob, NoLocals
  <1>2. ProtectedInv  BY DEF ProtectedInv, IdleDelete
  <1>3. \A v \in VmIds : vms[v].owner = NULL /\ vms[v].marker = NULL
    BY DEF ForeignVm, NoVm
  <1>4. AccountInv
    BY <1>3 DEF AccountInv, RowVmInv, OwnedVmInv, DeleteInv, SupersedeInv,
                IdleDelete, IdleSupersede
  <1>5. OwnerInv
    BY <1>3 DEF OwnerInv, HeldVmInv, MarkerInv, TargetInv, DeletesApart, IdleDelete
  <1>6. IpInv  BY DEF IpInv
  <1>. QED  BY <1>1, <1>2, <1>4, <1>5, <1>6

LEMMA SubmitInvariant == Spec => []SubmitInv
  <1>1. TypeOK /\ SubmitInv /\ [Next]_vars => SubmitInv'
    BY PostJobInvStep, ReplyInvStep, OneJobPerRequestStep DEF SubmitInv
  <1>. QED  BY <1>1, InitParts, TypeCorrect, PTL DEF Spec

LEMMA ProtectedInvariant == Spec => []ProtectedInv
  <1>1. TypeOK /\ ProtectedInv /\ [Next]_vars => ProtectedInv'
    BY ProtectedInvStep
  <1>. QED  BY <1>1, InitParts, TypeCorrect, PTL DEF Spec

LEMMA AccountInvariant == Spec => []AccountInv
  <1>1. TypeOK /\ SubmitInv /\ ProtectedInv /\ AccountInv /\ [Next]_vars => AccountInv'
    BY RowVmInvStep, OwnedVmInvStep, DeleteInvStep, SupersedeInvStep
       DEF SubmitInv, AccountInv
  <1>. QED
    BY <1>1, InitParts, TypeCorrect, SubmitInvariant, ProtectedInvariant, PTL DEF Spec

LEMMA OwnerInvariant == ASSUME SerializedDeletes PROVE Spec => []OwnerInv
  <1>1. TypeOK /\ ProtectedInv /\ AccountInv /\ OwnerInv /\ [Next]_vars => OwnerInv'
    BY HeldVmInvStep, MarkerInvStep, TargetInvStep, DeletesApartStep
       DEF AccountInv, OwnerInv
  <1>. QED
    BY <1>1, InitParts, TypeCorrect, ProtectedInvariant, AccountInvariant, PTL DEF Spec

LEMMA IpInvariant == ASSUME Superseders = {} PROVE Spec => []IpInv
  <1>1. TypeOK /\ SubmitInv /\ IpInv /\ [Next]_vars => IpInv'
    BY IpInvStep DEF SubmitInv
  <1>. QED  BY <1>1, InitParts, TypeCorrect, SubmitInvariant, PTL DEF Spec

---------------------------------------------------------------------------
(* Theorems *)

\* Retries and overlapping POSTs with one request_id create one job, and all
\* that are answered are given the same runtime: the SELECT of submit may be
\* stale, the UNIQUE constraint is what decides.
THEOREM SubmitIsIdempotent == Spec => []IdempotentSubmit
  <1>1. TypeOK /\ SubmitInv => IdempotentSubmit
    <2> SUFFICES ASSUME TypeOK, SubmitInv PROVE IdempotentSubmit
      OBVIOUS
    <2>1. ASSUME NEW a \in Runtimes, NEW b \in Runtimes,
                 reply[a] # NULL, reply[b] # NULL, loc[a].req = loc[b].req
          PROVE  reply[a] = reply[b]
      <3>1. reply[a] \in Runtimes /\ reply[b] \in Runtimes  BY <2>1 DEF TypeOK
      <3>. QED  BY <2>1, <3>1 DEF SubmitInv, ReplyInv, OneJobPerRequest
    <2>. QED  BY <2>1 DEF SubmitInv, OneJobPerRequest, IdempotentSubmit
  <1>. QED  BY <1>1, TypeCorrect, SubmitInvariant, PTL

\* A step that is not a DELETE's leaves every VM there and running.
LEMMA OnlyDeletesStop ==
  ASSUME TypeOK, [Next]_vars, ~\E d \in Deleters : DeleteStep(d), NEW v \in VmIds
  PROVE  StaysUp(v)
  <1>0. ASSUME vms' = vms PROVE StaysUp(v)  BY <1>0 DEF StaysUp
  <1>1. ASSUME NEW r \in Runtimes, RunJob(r) PROVE StaysUp(v)
    <2> USE DEF TypeOK, StaysUp, VM
    <2>1. CASE CloneTemplate(r)  BY <2>1 DEF CloneTemplate, CloneAccepted
    <2>2. CASE ConfigureCloudInit(r)  BY <2>2 DEF ConfigureCloudInit
    <2>3. CASE Boot(r)  BY <2>3 DEF Boot
    <2>4. CASE ~(CloneTemplate(r) \/ ConfigureCloudInit(r) \/ Boot(r))
      BY <1>0, <1>1, <2>4 DEF RunJob, StartJob, Place, NextVmid, WaitForIp,
                              HygieneGate, BootstrapHermes, JobDone, JobFails
    <2>. QED  BY <2>1, <2>2, <2>3, <2>4
  <1>2. ASSUME NEW w \in VmIds, ForeignClone(w) PROVE StaysUp(v)
    BY <1>2 DEF ForeignClone, CloneAccepted, TypeOK, StaysUp
  <1>3. CASE ~((\E r \in Runtimes : RunJob(r)) \/ (\E w \in VmIds : ForeignClone(w)))
    BY <1>0, <1>3 DEF Next, SubmitLookup, SubmitInsert, JobLost, DeleteVerify, SupersedeLoad,
                      SupersedeCommit, SetDesiredState, Crash, vars
  <1>. QED  BY <1>1, <1>2, <1>3

\* A DELETE stops or removes the VM it holds, and no other.
LEMMA DeletesStopTheirs ==
  ASSUME TypeOK, NEW d \in Deleters, DeleteStep(d), NEW v \in VmIds, ~StaysUp(v)
  PROVE  v = del[d].vmid /\ del[d].pc \in {"shutdown", "destroy"}
  BY DEF TypeOK, StaysUp, DeleteStep, DeleteShutdown, DeleteDestroy, DeleteCommit,
         DeleteAborts

\* No handler, in any interleaving and with any restarts, stops or removes a VM
\* on a protected VMID, whoever cloned it; clients may overlap their DELETEs.
THEOREM ProtectedVmsSafe == Spec => ProtectedUntouched
  <1>1. TypeOK /\ ProtectedInv /\ [Next]_vars
          => \A v \in VmIds \cap Protected : StaysUp(v)
    <2> SUFFICES ASSUME TypeOK, ProtectedInv, [Next]_vars,
                        NEW v \in VmIds \cap Protected, ~StaysUp(v)
                 PROVE  FALSE
      OBVIOUS
    <2>1. PICK d \in Deleters : DeleteStep(d)  BY OnlyDeletesStop
    <2>2. v = del[d].vmid /\ del[d].pc # "idle"  BY <2>1, DeletesStopTheirs
    <2>. QED  BY <2>2 DEF ProtectedInv
  <1>. QED
    BY <1>1, TypeCorrect, ProtectedInvariant, PTL DEF Spec, ProtectedUntouched

\* If no two DELETEs of one runtime overlap, no handler stops or removes a VM that
\* ARM did not clone, even one that others clone to a VMID which a DELETE, cut
\* short by a restart, has freed and its row still names; nor a protected VM.
THEOREM ForeignVmsSafe ==
  ASSUME SerializedDeletes PROVE Spec => ForeignAndProtectedUntouched
  <1>1. TypeOK /\ ProtectedInv /\ AccountInv /\ OwnerInv /\ [Next]_vars
          => \A v \in VmIds : v \in Protected \/ vms[v].owner = NULL => StaysUp(v)
    <2> SUFFICES ASSUME TypeOK, ProtectedInv, AccountInv, OwnerInv, [Next]_vars,
                        NEW v \in VmIds, v \in Protected \/ vms[v].owner = NULL,
                        ~StaysUp(v)
                 PROVE  FALSE
      OBVIOUS
    <2>1. PICK d \in Deleters : DeleteStep(d)  BY OnlyDeletesStop
    <2>2. v = del[d].vmid /\ del[d].pc \in {"shutdown", "destroy"}
      BY <2>1, DeletesStopTheirs
    <2>3. vms[v].owner = del[d].rt  BY <2>2 DEF OwnerInv, TargetInv
    <2>4. del[d].rt \in Runtimes  BY <2>2 DEF AccountInv, DeleteInv
    <2>. QED  BY <2>2, <2>3, <2>4, ConstantsAssumption DEF ProtectedInv
  <1>. QED
    BY <1>1, TypeCorrect, ProtectedInvariant, AccountInvariant, OwnerInvariant, PTL
       DEF Spec, ForeignAndProtectedUntouched

\* A VM that ARM cloned is named by its runtime's row, or by a job that is
\* still RUNNING or FAILED: even a restart or an overlapping DELETE loses none.
THEOREM NoVmIsLost == Spec => []VmAccounted
  <1>1. AccountInv => VmAccounted
    BY DEF AccountInv, OwnedVmInv, VmAccounted
  <1>. QED  BY <1>1, AccountInvariant, PTL

\* If no two DELETEs of one runtime overlap, a row whose VM is the one its job
\* cloned finds its marker on the VM, so the API can delete it.
THEOREM RowVmMarked == ASSUME SerializedDeletes PROVE Spec => []RowVmIsMarked
  <1>1. TypeOK /\ AccountInv /\ OwnerInv => RowVmIsMarked
    BY DEF TypeOK, AccountInv, RowVmInv, OwnerInv, MarkerInv, RowVmIsMarked
  <1>. QED  BY <1>1, TypeCorrect, AccountInvariant, OwnerInvariant, PTL

\* If no two DELETEs of one runtime overlap, a DELETE only ever stops or
\* removes the VM its own runtime's job cloned, however VMIDs are reused.
THEOREM DeleteSafe == ASSUME SerializedDeletes PROVE Spec => DeleteTouchesOwnVmOnly
  <1> DEFINE OwnOnly == \A d \in Deleters, v \in VmIds :
                          DeleteStep(d) /\ vms'[v] # vms[v] => vms[v].owner = del[d].rt
  <1>1. TypeOK /\ OwnerInv => OwnOnly
    <2> SUFFICES ASSUME TypeOK, OwnerInv, NEW d \in Deleters, NEW v \in VmIds,
                        DeleteStep(d), vms'[v] # vms[v]
                 PROVE  vms[v].owner = del[d].rt
      OBVIOUS
    <2>1. /\ del[d].pc \in {"shutdown", "destroy"}
          /\ v = del[d].vmid
      BY DEF TypeOK, DeleteStep, DeleteShutdown, DeleteDestroy, DeleteCommit, DeleteAborts
    <2>. QED  BY <2>1 DEF OwnerInv, TargetInv
  <1>. QED  BY <1>1, TypeCorrect, OwnerInvariant, PTL DEF Spec, DeleteTouchesOwnVmOnly

\* If no two DELETEs of one runtime overlap, a row superseded after its POST
\* ended stays superseded, without a VM, and linked to a superseding runtime.
THEOREM SupersedeStays == ASSUME SerializedDeletes PROVE Spec => SettledSupersedeStays
  <1> DEFINE Settled(r) == actual[r] = "SUPERSEDED" /\ vmid[r] = NULL /\ pc[r] \in Ended
             Stays(r) == /\ actual'[r] = "SUPERSEDED" /\ vmid'[r] = NULL
                         /\ meta[r].supersededBy # NULL => meta'[r].supersededBy # NULL
  <1>1. TypeOK /\ ProtectedInv /\ AccountInv /\ OwnerInv /\ [Next]_vars
          => \A r \in Runtimes : Settled(r) => Stays(r)
    <2> SUFFICES ASSUME TypeOK, ProtectedInv, AccountInv, OwnerInv, [Next]_vars,
                        NEW r \in Runtimes, Settled(r)
                 PROVE  Stays(r)
      OBVIOUS
    <2> USE DEF TypeOK
    <2>0. ASSUME actual'[r] = actual[r], vmid'[r] = vmid[r], meta'[r] = meta[r]
          PROVE  Stays(r)
      BY <2>0
    <2>1. ASSUME NEW x \in Runtimes, NEW q \in Requests, SubmitLookup(x, q)
          PROVE  Stays(r)
      BY <2>0, <2>1 DEF SubmitLookup, row
    <2>2. ASSUME NEW x \in Runtimes, SubmitInsert(x) \/ RunJob(x)
          PROVE  Stays(r)
      <3>1. x # r
        BY <2>2 DEF Ended, SubmitInsert, RunJob, StartJob, Place, NextVmid, CloneTemplate,
                    ConfigureCloudInit, Boot, WaitForIp, HygieneGate, BootstrapHermes,
                    JobDone, JobFails, JobSteps
      <3>. QED
        BY <2>0, <2>2, <3>1 DEF SubmitInsert, RunJob, StartJob, Place, NextVmid,
                    CloneTemplate, ConfigureCloudInit, Boot, WaitForIp, HygieneGate,
                    BootstrapHermes, JobDone, JobFails, WriteMeta, row
    <2>3. ASSUME NEW d \in Deleters, DeleteStep(d)  PROVE Stays(r)
      <3>1. CASE DeleteCommit(d)
        <4>1. vmid[del[d].rt] # NULL
          BY <3>1, ConstantsAssumption
             DEF DeleteCommit, OwnerInv, TargetInv, ProtectedInv
        <4>. QED  BY <2>0, <3>1, <4>1 DEF DeleteCommit
      <3>2. CASE DeleteShutdown(d) \/ DeleteDestroy(d) \/ DeleteAborts(d)
        BY <2>0, <3>2 DEF DeleteShutdown, DeleteDestroy, DeleteAborts, row
      <3>. QED  BY <2>3, <3>1, <3>2 DEF DeleteStep
    <2>4. ASSUME NEW s \in Superseders, SupersedeCommit(s)  PROVE Stays(r)
      <3>1. CASE sup[s].rt = r
        <4>1. sup[s].live # NULL
          BY <2>4, ConstantsAssumption DEF SupersedeCommit, AccountInv, SupersedeInv
        <4>. QED  BY <2>4, <3>1, <4>1 DEF SupersedeCommit
      <3>2. CASE sup[s].rt # r  BY <2>0, <2>4, <3>2 DEF SupersedeCommit
      <3>. QED  BY <3>1, <3>2
    <2>5. CASE \/ \E d \in Deleters, x \in Runtimes : DeleteVerify(d, x)
               \/ \E s \in Superseders, x, l \in Runtimes : SupersedeLoad(s, x, l)
               \/ \E x \in Runtimes, y \in RuntimeState : SetDesiredState(x, y)
               \/ \E x \in Runtimes : JobLost(x)
               \/ \E v \in VmIds : ForeignClone(v)
               \/ Crash \/ UNCHANGED vars
      BY <2>0, <2>5 DEF DeleteVerify, SupersedeLoad, SetDesiredState, JobLost,
                        ForeignClone, Crash, vars, row
    <2>. QED  BY <2>1, <2>2, <2>3, <2>4, <2>5 DEF Next
  <1>2. (\A r \in Runtimes : Settled(r) => Stays(r)) <=>
        (\A r \in Runtimes :
           /\ actual[r] = "SUPERSEDED" /\ vmid[r] = NULL
           /\ pc[r] \in Ended
           => /\ actual'[r] = "SUPERSEDED" /\ vmid'[r] = NULL
              /\ meta[r].supersededBy # NULL => meta'[r].supersededBy # NULL)
    OBVIOUS
  <1>. QED
    BY <1>1, <1>2, TypeCorrect, ProtectedInvariant, AccountInvariant, OwnerInvariant, PTL
       DEF Spec, SettledSupersedeStays

\* While nothing is superseded, no two runtimes reported RUNNING have the same
\* address: every POST commits its address before it reads the others'.
THEOREM IpsDistinct == ASSUME Superseders = {} PROVE Spec => []RunningIpsDistinct
  <1>1. IpInv => RunningIpsDistinct  BY DEF IpInv, RunningIpsDistinct
  <1>. QED  BY <1>1, IpInvariant, PTL

---------------------------------------------------------------------------
(* The handlers implement RuntimeService *)

HasVm == AfterClone \cup {"done", "failed", "crashed"}

\* A view of the client changes only with the columns it is made of.
LEMMA ViewsFollow ==
  /\ (\A r \in Runtimes : loc'[r].req = loc[r].req) => sent' = sent
  /\ (\A r \in Runtimes : job'[r].req = job[r].req) => request' = request
  /\ (\A r \in Runtimes : /\ job'[r].req = job[r].req
                          /\ pc'[r] \in HasVm <=> pc[r] \in HasVm) => spent' = spent
  /\ (\A v \in VmIds : vms'[v].owner = vms[v].owner) => machine' = machine
  /\ (\A v \in VmIds : /\ vms'[v].owner = vms[v].owner
                       /\ vms'[v].exists = vms[v].exists) => others' = others
  /\ (\A d \in Deleters : /\ del'[d].rt = del[d].rt
                          /\ del'[d].pc \in {"shutdown", "destroy"}
                               <=> del[d].pc \in {"shutdown", "destroy"})
       => deleting' = deleting
  <1>1. (\A r \in Runtimes : loc'[r].req = loc[r].req) => sent' = sent
    BY DEF sent
  <1>2. (\A r \in Runtimes : job'[r].req = job[r].req) => request' = request
    BY DEF request
  <1>3. (\A r \in Runtimes : /\ job'[r].req = job[r].req
                             /\ pc'[r] \in HasVm <=> pc[r] \in HasVm)
          => spent' = spent
    BY DEF spent, HasVm
  <1>4. (\A v \in VmIds : vms'[v].owner = vms[v].owner) => machine' = machine
    BY DEF machine
  <1>5. (\A v \in VmIds : /\ vms'[v].owner = vms[v].owner
                          /\ vms'[v].exists = vms[v].exists) => others' = others
    BY DEF others
  <1>6. (\A d \in Deleters : /\ del'[d].rt = del[d].rt
                             /\ del'[d].pc \in {"shutdown", "destroy"}
                                  <=> del[d].pc \in {"shutdown", "destroy"})
          => deleting' = deleting
    BY DEF deleting
  <1>. QED  BY <1>1, <1>2, <1>3, <1>4, <1>5, <1>6

\* submit: asking, and being accepted.
LEMMA SubmitServes ==
  ASSUME TypeOK, SubmitInv, NEW r \in Runtimes,
         (\E q \in Requests : SubmitLookup(r, q)) \/ SubmitInsert(r)
  PROVE  Service!Next \/ UNCHANGED Service!vars
  <1> USE ConstantsAssumption DEF TypeOK, SubmitInv
  <1>1. ASSUME NEW q \in Requests, SubmitLookup(r, q)  PROVE Service!Ask(r, q)
    <2>1. /\ pc[r] = "idle" /\ loc[r].req = NULL
          /\ loc' = [loc EXCEPT ![r].req = q] /\ UNCHANGED <<job, vms, del>>
      BY <1>1 DEF SubmitLookup, PostJobInv
    <2>2. sent[r] = NULL /\ sent' = [sent EXCEPT ![r] = q]
      <3>1. \A x \in Runtimes : loc'[x].req = IF x = r THEN q ELSE loc[x].req
        BY <2>1 DEF Locals
      <3>2. sent' = [x \in Runtimes |-> IF x = r THEN q ELSE loc[x].req]
        BY <3>1 DEF sent
      <3>. QED  BY <2>1, <3>2 DEF sent
    <2>3. UNCHANGED <<request, machine, deleting, others>>
      BY <2>1 DEF request, machine, deleting, others
    <2>4. spent' = spent
      <3>1. job[r].req = NULL  BY <2>1 DEF PostJobInv, NoJob
      <3>2. \A x \in Runtimes \ {r} : pc'[x] = pc[x]  BY <1>1 DEF SubmitLookup
      <3>. QED  BY <2>1, <3>1, <3>2 DEF spent
    <2>5. \/ UNCHANGED reply
          \/ \E j \in Runtimes : request[j] = q /\ reply' = [reply EXCEPT ![r] = j]
      BY <1>1 DEF SubmitLookup, JobsOf, request
    <2>. QED  BY <2>2, <2>3, <2>4, <2>5 DEF Service!Ask
  <1>2. CASE SubmitInsert(r)
    <2>1. /\ pc[r] = "insert" /\ job[r].req = NULL /\ loc[r].req # NULL
          /\ reply[r] = NULL /\ UNCHANGED <<loc, vms, del, reply>>
      BY <1>2 DEF SubmitInsert, PostJobInv, ReplyInv, NoJob
    <2>2. UNCHANGED <<sent, machine, deleting, others>>
      BY <2>1 DEF sent, machine, deleting, others
    <2>3. CASE RequestIdFree(loc[r].req)
      <3>1. /\ job' = [job EXCEPT ![r] = [req |-> loc[r].req, state |-> "QUEUED"]]
            /\ pc' = [pc EXCEPT ![r] = "start"]
        BY <1>2, <2>3 DEF SubmitInsert
      <3>2. \A o \in Runtimes : request[o] # sent[r]
        BY <2>3 DEF RequestIdFree, JobsOf, request, sent
      <3>3. request' = [request EXCEPT ![r] = sent[r]]
        BY <3>1 DEF request, sent
      <3>4. spent' = spent
        BY <2>1, <3>1 DEF spent, AfterClone
      <3>5. sent[r] # NULL /\ request[r] = NULL  BY <2>1 DEF sent, request
      <3>6. Service!Accept(r)
        BY <2>1, <2>2, <3>2, <3>3, <3>4, <3>5 DEF Service!Accept
      <3>. QED  BY <3>6 DEF Service!Next
    <2>4. CASE ~RequestIdFree(loc[r].req)
      <3>1. pc' = [pc EXCEPT ![r] = "conflict"] /\ UNCHANGED job
        BY <1>2, <2>4 DEF SubmitInsert
      <3>2. request' = request /\ spent' = spent
        BY <2>1, <3>1 DEF request, spent, AfterClone
      <3>. QED  BY <2>1, <2>2, <3>2 DEF Service!vars
    <2>. QED  BY <2>3, <2>4
  <1>. QED  BY <1>1, <1>2 DEF Service!Next

\* run_job: the clone creates, the end answers, and the steps between are
\* invisible.
LEMMA RunJobServes ==
  ASSUME TypeOK, SubmitInv, ProtectedInv, AccountInv, NEW r \in Runtimes, RunJob(r)
  PROVE  Service!Next \/ UNCHANGED Service!vars
  <1> USE ConstantsAssumption DEF TypeOK
  <1>0. job[r].req = loc[r].req /\ loc[r].req # NULL
    <2>1. pc[r] \in BeforeClone \cup AfterClone
      BY DEF RunJob, StartJob, Place, NextVmid, CloneTemplate, ConfigureCloudInit,
         Boot, WaitForIp, HygieneGate, BootstrapHermes, JobDone, JobFails,
         JobSteps, BeforeClone, AfterClone
    <2>. QED  BY <2>1 DEF SubmitInv, PostJobInv
  <1>1. CASE \/ StartJob(r) \/ Place(r) \/ NextVmid(r)
             \/ ConfigureCloudInit(r) \/ Boot(r)
             \/ WaitForIp(r) \/ HygieneGate(r) \/ BootstrapHermes(r)
    <2>1. UNCHANGED <<reply, del>>
      BY <1>1 DEF StartJob, Place, NextVmid, ConfigureCloudInit, Boot, WaitForIp,
         HygieneGate, BootstrapHermes
    <2>2. \A x \in Runtimes : loc'[x].req = loc[x].req
      <3>1. CASE Place(r)  BY <3>1 DEF Place, Locals
      <3>2. CASE NextVmid(r)  BY <3>2 DEF NextVmid, Locals
      <3>3. CASE WaitForIp(r)
        <4>1. PICK ip \in Ips : loc' = [loc EXCEPT ![r].ip = ip]
          BY <3>3 DEF WaitForIp
        <4>. QED  BY <4>1 DEF Locals
      <3>4. CASE \/ StartJob(r) \/ ConfigureCloudInit(r) \/ Boot(r)
                 \/ HygieneGate(r) \/ BootstrapHermes(r)
        BY <3>4 DEF StartJob, ConfigureCloudInit, Boot, HygieneGate, BootstrapHermes
      <3>. QED  BY <1>1, <3>1, <3>2, <3>3, <3>4
    <2>3. \A x \in Runtimes : job'[x].req = job[x].req
      BY <1>1 DEF StartJob, Place, NextVmid, ConfigureCloudInit, Boot, WaitForIp,
         HygieneGate, BootstrapHermes, ProvisioningJob
    <2>4. \A v \in VmIds : /\ vms'[v].owner = vms[v].owner
                           /\ vms'[v].exists = vms[v].exists
      <3>1. CASE ConfigureCloudInit(r)  BY <3>1 DEF ConfigureCloudInit, VM
      <3>2. CASE Boot(r)  BY <3>2 DEF Boot, VM
      <3>3. CASE \/ StartJob(r) \/ Place(r) \/ NextVmid(r) \/ WaitForIp(r)
                 \/ HygieneGate(r) \/ BootstrapHermes(r)
        BY <3>3 DEF StartJob, Place, NextVmid, WaitForIp, HygieneGate, BootstrapHermes
      <3>. QED  BY <1>1, <3>1, <3>2, <3>3
    <2>5. \A x \in Runtimes : pc'[x] \in HasVm <=> pc[x] \in HasVm
      BY <1>1 DEF StartJob, Place, NextVmid, ConfigureCloudInit, Boot, WaitForIp,
         HygieneGate, BootstrapHermes, HasVm, AfterClone
    <2>. QED
      BY <2>1, <2>2, <2>3, <2>4, <2>5, ViewsFollow DEF Service!vars
  <1>2. CASE CloneTemplate(r)
    <2> DEFINE v == loc[r].vmid
    <2>1. /\ pc[r] = "clone" /\ ~vms[v].exists /\ v \in VmIds
          /\ vms' = [vms EXCEPT ![v] = [exists |-> TRUE, owner |-> r,
                                        marker |-> NULL, power |-> "stopped"]]
          /\ pc' = [pc EXCEPT ![r] = "configure"]
          /\ UNCHANGED <<job, loc, reply, del>>
      BY <1>2 DEF CloneTemplate, CloneAccepted, AccountInv, RowVmInv
    <2>2. \A w \in VmIds : vms[w].owner # r
      BY <2>1 DEF AccountInv, OwnedVmInv, AfterClone
    <2>3. \A o \in Runtimes : vms[v].owner # o
      BY <2>1 DEF AccountInv, OwnedVmInv
    <2>4. \A w \in VmIds : vms'[w].owner = IF w = v THEN r ELSE vms[w].owner
      BY <2>1 DEF VM
    <2>5. machine' = [machine EXCEPT ![r] = {v}]
      <3>1. ASSUME NEW o \in Runtimes
            PROVE  {w \in VmIds : vms'[w].owner = o}
                     = IF o = r THEN {v} ELSE {w \in VmIds : vms[w].owner = o}
        <4>1. CASE o = r  BY <2>1, <2>2, <2>4, <4>1
        <4>2. CASE o # r  BY <2>3, <2>4, <4>2
        <4>. QED  BY <4>1, <4>2
      <3>2. machine' = [o \in Runtimes |->
                          IF o = r THEN {v} ELSE {w \in VmIds : vms[w].owner = o}]
        BY <3>1 DEF machine
      <3>. QED  BY <3>2 DEF machine
    <2>6. v \notin others /\ others' = others
      <3>1. \A w \in VmIds : w # v => vms'[w] = vms[w]  BY <2>1
      <3>2. ~(vms'[v].exists /\ vms'[v].owner = NULL)  BY <2>1
      <3>. QED  BY <2>1, <3>1, <3>2 DEF others
    <2>7. \A o \in Runtimes : v \notin machine[o]  BY <2>3 DEF machine
    <2>8. r \notin spent  BY <2>1 DEF spent, AfterClone
    <2>9. spent' = spent \cup {r}
      BY <1>0, <2>1 DEF spent, AfterClone
    <2>10. UNCHANGED <<sent, request, deleting>>
      BY <2>1 DEF sent, request, deleting
    <2>11. request[r] # NULL  BY <1>0 DEF request
    <2>12. Service!Create(r, v)
      BY <2>1, <2>5, <2>6, <2>7, <2>8, <2>9, <2>10, <2>11 DEF Service!Create
    <2>. QED  BY <2>1, <2>12 DEF Service!Next
  <1>3. CASE JobDone(r) \/ JobFails(r)
    <2>1. /\ pc[r] \in JobSteps /\ reply' = [reply EXCEPT ![r] = r]
          /\ UNCHANGED <<vms, loc, del>>
      BY <1>3 DEF JobDone, JobFails, JobSteps
    <2>2. reply[r] = NULL  BY <2>1 DEF SubmitInv, ReplyInv, JobSteps
    <2>3. \A x \in Runtimes : job'[x].req = job[x].req
      <3>1. CASE JobDone(r)  BY <3>1 DEF JobDone, ProvisioningJob
      <3>2. CASE JobFails(r)  BY <3>2 DEF JobFails, ProvisioningJob
      <3>. QED  BY <1>3, <3>1, <3>2
    <2>4. /\ pc'[r] \in HasVm
          /\ \A x \in Runtimes \ {r} : pc'[x] = pc[x]
      BY <1>3 DEF JobDone, JobFails, HasVm
    <2>5. spent' = spent \cup {r}
      BY <1>0, <2>3, <2>4 DEF spent, HasVm
    <2>6. request[r] = sent[r] /\ sent[r] # NULL  BY <1>0 DEF request, sent
    <2>7. UNCHANGED <<sent, request, machine, deleting, others>>
      <3>1. UNCHANGED <<sent, machine, deleting, others>>
        BY <2>1 DEF sent, machine, deleting, others
      <3>. QED  BY <2>3, <3>1, ViewsFollow
    <2>8. Service!Answer(r)
      BY <2>1, <2>2, <2>5, <2>6, <2>7 DEF Service!Answer
    <2>. QED  BY <2>8 DEF Service!Next
  <1>. QED  BY <1>1, <1>2, <1>3 DEF RunJob

\* DELETE: asking, destroying or giving up; Proxmox's shutdown and the row's
\* commit are invisible.
LEMMA DeleteServes ==
  ASSUME TypeOK, ProtectedInv, AccountInv, OwnerInv, SerializedDeletes,
         NEW d \in Deleters,
         (\E r \in Runtimes : DeleteVerify(d, r)) \/ DeleteStep(d)
  PROVE  Service!Next \/ UNCHANGED Service!vars
  <1> USE ConstantsAssumption DEF TypeOK
  <1> DEFINE Busy(e) == del[e].pc \in {"shutdown", "destroy"}
  <1>0. UNCHANGED <<job, pc, loc, reply>> /\ UNCHANGED <<sent, request, spent>>
    <2>1. UNCHANGED <<job, pc, loc, reply>>
      BY DEF DeleteVerify, DeleteStep, DeleteShutdown, DeleteDestroy,
         DeleteCommit, DeleteAborts, post
    <2>. QED  BY <2>1 DEF sent, request, spent
  <1>1. ASSUME NEW r \in Runtimes, DeleteVerify(d, r)  PROVE Service!AskDelete(r)
    <2>1. /\ vmid[r] \in VmIds /\ vms[vmid[r]].marker = r
          /\ \A e \in Deleters : del[e].pc = "idle" \/ del[e].rt # r
          /\ del[d].pc = "idle" /\ UNCHANGED vms
          /\ del' = [del EXCEPT ![d] = [pc |-> "shutdown", rt |-> r,
                                        vmid |-> vmid[r], desired |-> desired[r]]]
      BY <1>1 DEF DeleteVerify, VerifyOwnership, DeleteAllowed
    <2>2. vms[vmid[r]].owner = r
      <3>1. r # NULL  OBVIOUS
      <3>2. \A v \in VmIds : vms[v].marker # NULL => vms[v].owner = vms[v].marker
        BY DEF OwnerInv, MarkerInv
      <3>. QED  BY <2>1, <3>1, <3>2
    <2>3. machine[r] # {}  BY <2>1, <2>2 DEF machine
    <2>4. r \notin deleting  BY <2>1 DEF deleting
    <2>5. deleting' = deleting \cup {r}
      <3>1. \A e \in Deleters \ {d} : del'[e] = del[e]  BY <2>1
      <3>2. del'[d].pc = "shutdown" /\ del'[d].rt = r  BY <2>1
      <3>. QED  BY <2>1, <3>1, <3>2 DEF deleting
    <2>6. UNCHANGED <<machine, others>>  BY <2>1 DEF machine, others
    <2>. QED  BY <1>0, <2>3, <2>4, <2>5, <2>6 DEF Service!AskDelete
  <1>2. CASE DeleteShutdown(d)
    <2>1. \A v \in VmIds : /\ vms'[v].owner = vms[v].owner
                           /\ vms'[v].exists = vms[v].exists
      BY <1>2 DEF DeleteShutdown, VM
    <2>2. \A e \in Deleters : /\ del'[e].rt = del[e].rt
                              /\ del'[e].pc \in {"shutdown", "destroy"} <=> Busy(e)
      BY <1>2 DEF DeleteShutdown, Delete
    <2>. QED  BY <1>0, <2>1, <2>2, ViewsFollow DEF Service!vars
  <1>3. CASE DeleteCommit(d)
    <2>1. UNCHANGED vms /\ del[d].pc = "commit"
          /\ del' = [del EXCEPT ![d] = IdleDelete]
      BY <1>3 DEF DeleteCommit
    <2>2. UNCHANGED <<machine, others>>  BY <2>1 DEF machine, others
    <2>3. deleting' = deleting
      <3>1. \A e \in Deleters \ {d} : del'[e] = del[e]  BY <2>1
      <3>2. ~Busy(d) /\ del'[d].pc = "idle"  BY <2>1 DEF IdleDelete
      <3>. QED  BY <3>1, <3>2 DEF deleting
    <2>. QED  BY <1>0, <2>2, <2>3 DEF Service!vars
  <1>4. ASSUME DeleteDestroy(d) \/ DeleteAborts(d)
        PROVE  /\ del[d].rt \in Runtimes /\ del[d].rt \in deleting
               /\ deleting' = deleting \ {del[d].rt}
    <2>1. /\ Busy(d) /\ ~(del'[d].pc \in {"shutdown", "destroy"})
          /\ \A e \in Deleters \ {d} : del'[e] = del[e]
      BY <1>4 DEF DeleteDestroy, DeleteAborts, IdleDelete, Delete
    <2>2. del[d].rt \in Runtimes  BY <2>1 DEF AccountInv, DeleteInv
    <2>3. \A e \in Deleters \ {d} : Busy(e) => del[e].rt # del[d].rt
      BY <2>1 DEF OwnerInv, DeletesApart
    <2>. QED  BY <2>1, <2>2, <2>3 DEF deleting
  <1>5. CASE DeleteDestroy(d)
    <2> DEFINE r == del[d].rt
               v == del[d].vmid
    <2>1. del[d].pc = "destroy" /\ vms' = [vms EXCEPT ![v] = NoVm]
      BY <1>5 DEF DeleteDestroy
    <2>2. r \in Runtimes /\ v \in VmIds /\ vms[v].owner = r
      BY <2>1 DEF AccountInv, DeleteInv, ProtectedInv, OwnerInv, TargetInv
    <2>3. \A w \in VmIds : vms[w].owner = r => w = v
      <3>1. \A w \in VmIds : vms[w].owner = r => loc[r].vmid = w
        BY <2>2 DEF AccountInv, OwnedVmInv
      <3>. QED  BY <2>2, <3>1
    <2>4. \A w \in VmIds : vms'[w].owner = IF w = v THEN NULL ELSE vms[w].owner
      BY <2>1 DEF NoVm
    <2>5. machine' = [machine EXCEPT ![r] = {}]
      <3>1. ASSUME NEW o \in Runtimes
            PROVE  {w \in VmIds : vms'[w].owner = o}
                     = IF o = r THEN {} ELSE {w \in VmIds : vms[w].owner = o}
        <4>1. CASE o = r
          <5>1. \A w \in VmIds : vms'[w].owner # r  BY <2>2, <2>3, <2>4
          <5>. QED  BY <4>1, <5>1
        <4>2. CASE o # r  BY <2>2, <2>4, <4>2
        <4>. QED  BY <4>1, <4>2
      <3>2. machine' = [o \in Runtimes |->
                          IF o = r THEN {} ELSE {w \in VmIds : vms[w].owner = o}]
        BY <3>1 DEF machine
      <3>. QED  BY <3>2 DEF machine
    <2>6. others' = others
      <3>1. \A w \in VmIds : w # v => vms'[w] = vms[w]  BY <2>1
      <3>2. ~vms'[v].exists /\ vms[v].owner # NULL  BY <2>1, <2>2 DEF NoVm
      <3>. QED  BY <3>1, <3>2 DEF others
    <2>7. Service!Destroy(r)
      BY <1>0, <1>4, <1>5, <2>5, <2>6 DEF Service!Destroy
    <2>. QED  BY <2>2, <2>7 DEF Service!Next
  <1>6. CASE DeleteAborts(d)
    <2>1. UNCHANGED <<machine, others>>
      BY <1>6 DEF DeleteAborts, machine, others
    <2>2. Service!CancelDelete(del[d].rt)
      BY <1>0, <1>4, <1>6, <2>1 DEF Service!CancelDelete
    <2>. QED  BY <1>4, <1>6, <2>2 DEF Service!Next
  <1>. QED  BY <1>1, <1>2, <1>3, <1>5, <1>6 DEF DeleteStep, Service!Next

LEMMA CrashServes ==
  ASSUME TypeOK, SubmitInv, Crash
  PROVE  Service!Restart
  <1>1. /\ pc' = [r \in Runtimes |-> IF pc[r] \in Ended THEN pc[r] ELSE "crashed"]
        /\ del' = [d \in Deleters |-> IdleDelete]
        /\ UNCHANGED <<job, vms, loc, reply>>
    BY DEF Crash
  <1>2. UNCHANGED <<sent, request, machine, others>>
    BY <1>1 DEF sent, request, machine, others
  <1>3. deleting' = {}
    <2>1. \A d \in Deleters : del'[d].pc = "idle"  BY <1>1 DEF IdleDelete
    <2>. QED  BY <2>1 DEF deleting
  <1>4. spent \subseteq spent'
    BY <1>1 DEF spent, AfterClone, Ended
  <1>5. spent' \in SUBSET {r \in Runtimes : request[r] # NULL}
    BY <1>1 DEF spent, request
  <1>6. spent' = spent \cup spent'  BY <1>4
  <1>. QED  BY <1>1, <1>2, <1>3, <1>5, <1>6 DEF Service!Restart

\* The POST of an accepted runtime breaks off.
LEMMA JobLostServes ==
  ASSUME TypeOK, SubmitInv, NEW r \in Runtimes, JobLost(r)
  PROVE  Service!BreakOff(r)
  <1> USE ConstantsAssumption DEF TypeOK
  <1>1. /\ pc[r] \in BeforeClone \cup AfterClone
        /\ pc' = [pc EXCEPT ![r] = "crashed"]
        /\ UNCHANGED <<job, vms, loc, reply, del>>
    BY DEF JobLost, JobSteps, BeforeClone, AfterClone
  <1>2. job[r].req # NULL  BY <1>1 DEF SubmitInv, PostJobInv
  <1>3. spent' = spent \cup {r}  BY <1>1, <1>2 DEF spent, AfterClone
  <1>4. UNCHANGED <<sent, request, machine, deleting, others>>
    BY <1>1 DEF sent, request, machine, deleting, others
  <1>. QED  BY <1>1, <1>2, <1>3, <1>4 DEF Service!BreakOff, request

\* A VM of others appears; it is in nobody's hands.
LEMMA ForeignCloneServes ==
  ASSUME TypeOK, AccountInv, NEW v \in VmIds, ForeignClone(v)
  PROVE  Service!Appear(v)
  <1> USE ConstantsAssumption DEF TypeOK
  <1>1. /\ ~vms[v].exists /\ vms' = [vms EXCEPT ![v] = ForeignVm]
        /\ UNCHANGED <<job, pc, loc, reply, del>>
    BY DEF ForeignClone, CloneAccepted, post
  <1>2. \A o \in Runtimes : vms[v].owner # o
    BY <1>1 DEF AccountInv, OwnedVmInv
  <1>3. vms'[v].exists /\ vms'[v].owner = NULL /\ vms[v].owner = NULL
    BY <1>1, <1>2 DEF ForeignVm, NoVm, VM
  <1>4. \A w \in VmIds : w # v => vms'[w] = vms[w]  BY <1>1
  <1>5. v \notin others /\ \A o \in Runtimes : v \notin machine[o]
    BY <1>1, <1>2 DEF others, machine
  <1>6. others' = others \cup {v}  BY <1>3, <1>4 DEF others
  <1>7. machine' = machine
    <2>1. \A w \in VmIds : vms'[w].owner = vms[w].owner  BY <1>3, <1>4
    <2>. QED  BY <2>1, ViewsFollow
  <1>8. UNCHANGED <<sent, request, spent, deleting>>
    BY <1>1 DEF sent, request, spent, deleting
  <1>. QED  BY <1>1, <1>5, <1>6, <1>7, <1>8 DEF Service!Appear

\* The runtime API implements the service a client sees: each request gets one
\* runtime, a runtime at most one VM and never a second, that VM is gone only
\* by its own DELETE, and the VMs that others create at any time stay, however the handlers
\* interleave and a restart cuts them.  (DELETEs of one runtime do not overlap.)
THEOREM RuntimeApiImplementsService ==
  ASSUME SerializedDeletes PROVE Spec => ImplementsService
  <1>1. Init => Service!Init
    <2> SUFFICES ASSUME Init PROVE Service!Init
      OBVIOUS
    <2> USE ConstantsAssumption DEF Init
    <2>1. sent = [p \in Runtimes |-> NULL]  BY DEF sent, NoLocals
    <2>2. request = [r \in Runtimes |-> NULL] /\ spent = {}
      BY DEF request, spent, NoJob
    <2>3. \A v \in VmIds : /\ vms[v].owner = NULL
                           /\ vms[v].exists <=> v \in ForeignVms
      BY DEF ForeignVm, NoVm
    <2>4. machine = [r \in Runtimes |-> {}]
      <3>1. \A r \in Runtimes : {v \in VmIds : vms[v].owner = r} = {}  BY <2>3
      <3>. QED  BY <3>1 DEF machine
    <2>5. others = ForeignVms  BY <2>3 DEF others
    <2>6. deleting = {}  BY DEF deleting, IdleDelete
    <2>. QED  BY <2>1, <2>2, <2>4, <2>5, <2>6 DEF Service!Init
  <1>2. TypeOK /\ SubmitInv /\ ProtectedInv /\ AccountInv /\ OwnerInv /\ [Next]_vars
          => [Service!Next]_(Service!vars)
    <2> SUFFICES ASSUME TypeOK, SubmitInv, ProtectedInv, AccountInv, OwnerInv, [Next]_vars
                 PROVE  Service!Next \/ UNCHANGED Service!vars
      OBVIOUS
    <2>1. CASE \E r \in Runtimes, q \in Requests : SubmitLookup(r, q)
      BY <2>1, SubmitServes
    <2>2. CASE \E r \in Runtimes : SubmitInsert(r)
      BY <2>2, SubmitServes
    <2>3. CASE \E r \in Runtimes : RunJob(r)
      BY <2>3, RunJobServes
    <2>4. CASE \E d \in Deleters, r \in Runtimes : DeleteVerify(d, r)
      BY <2>4, DeleteServes
    <2>5. CASE \E d \in Deleters : DeleteStep(d)
      BY <2>5, DeleteServes
    <2>6. CASE Crash
      BY <2>6, CrashServes DEF Service!Next
    <2>7. CASE \/ \E s \in Superseders, r, l \in Runtimes : SupersedeLoad(s, r, l)
               \/ \E s \in Superseders : SupersedeCommit(s)
               \/ \E r \in Runtimes, x \in RuntimeState : SetDesiredState(r, x)
               \/ UNCHANGED vars
      <3>1. UNCHANGED <<job, vms, pc, loc, reply, del>>
        BY <2>7 DEF SupersedeLoad, SupersedeCommit, SetDesiredState, vars, post
      <3>. QED
        BY <3>1 DEF Service!vars, sent, request, spent, machine, deleting, others
    <2>8. CASE \E v \in VmIds : ForeignClone(v)
      BY <2>8, ForeignCloneServes DEF Service!Next
    <2>9. CASE \E r \in Runtimes : JobLost(r)
      BY <2>9, JobLostServes DEF Service!Next
    <2>. QED  BY <2>1, <2>2, <2>3, <2>4, <2>5, <2>6, <2>7, <2>8, <2>9 DEF Next
  <1>. QED
    BY <1>1, <1>2, TypeCorrect, SubmitInvariant, ProtectedInvariant, AccountInvariant,
       OwnerInvariant, PTL DEF Spec, Service!Spec, ImplementsService

===========================================================================
