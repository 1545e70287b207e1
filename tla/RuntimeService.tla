-------------------------- MODULE RuntimeService --------------------------
(***************************************************************************)
(* What ARM promises its client, with no job, thread, marker or table in   *)
(* it.  A call sends a request and gets at most one answer, which names    *)
(* the one runtime accepted for that request.  An accepted runtime has one *)
(* chance of a machine: it is given a machine nobody has, or none, never a *)
(* second one.  A machine goes away only by a deletion of its runtime,     *)
(* asked for while the runtime had it.  Machines of others may appear in   *)
(* the cluster at any time; ARM never takes one and never removes one.     *)
(***************************************************************************)
CONSTANTS Runtimes, Requests, VmIds, ForeignVms, NULL

VARIABLES
    sent,      \* the request of each call
    answer,    \* the runtime it was answered with
    request,   \* the request each runtime was accepted for
    spent,     \* runtimes that had their chance of a machine
    machine,   \* the machines of each runtime: one or none
    deleting,  \* runtimes whose machine is being deleted
    others     \* machines that ARM did not create

vars == <<sent, answer, request, spent, machine, deleting, others>>

Init ==
    /\ sent = [p \in Runtimes |-> NULL]
    /\ answer = [p \in Runtimes |-> NULL]
    /\ request = [r \in Runtimes |-> NULL]
    /\ spent = {}
    /\ machine = [r \in Runtimes |-> {}]
    /\ deleting = {}
    /\ others = ForeignVms

\* A call arrives; a request that was accepted before is answered at once.
Ask(p, q) ==
    /\ sent[p] = NULL
    /\ sent' = [sent EXCEPT ![p] = q]
    /\ \/ UNCHANGED answer
       \/ \E r \in Runtimes :
            request[r] = q /\ answer' = [answer EXCEPT ![p] = r]
    /\ UNCHANGED <<request, spent, machine, deleting, others>>

\* A runtime is accepted for a request that has none.
Accept(r) ==
    /\ sent[r] # NULL /\ answer[r] = NULL /\ request[r] = NULL
    /\ \A o \in Runtimes : request[o] # sent[r]
    /\ request' = [request EXCEPT ![r] = sent[r]]
    /\ UNCHANGED <<sent, answer, spent, machine, deleting, others>>

\* The runtime's one chance, taken: the machine is nobody's.
Create(r, v) ==
    /\ request[r] # NULL
    /\ r \notin spent
    /\ v \notin others /\ \A o \in Runtimes : v \notin machine[o]
    /\ machine' = [machine EXCEPT ![r] = {v}]
    /\ spent' = spent \cup {r}
    /\ UNCHANGED <<sent, answer, request, deleting, others>>

\* The call that was accepted ends; the runtime is not created any more.
Answer(r) ==
    /\ answer[r] = NULL
    /\ request[r] = sent[r] /\ sent[r] # NULL
    /\ answer' = [answer EXCEPT ![r] = r]
    /\ spent' = spent \cup {r}
    /\ UNCHANGED <<sent, request, machine, deleting, others>>

\* The call breaks off: no answer, and the runtime's chance is gone.
BreakOff(r) ==
    /\ request[r] # NULL
    /\ spent' = spent \cup {r}
    /\ UNCHANGED <<sent, answer, request, machine, deleting, others>>

AskDelete(r) ==
    /\ machine[r] # {}
    /\ r \notin deleting
    /\ deleting' = deleting \cup {r}
    /\ UNCHANGED <<sent, answer, request, spent, machine, others>>

Destroy(r) ==
    /\ r \in deleting
    /\ deleting' = deleting \ {r}
    /\ machine' = [machine EXCEPT ![r] = {}]
    /\ UNCHANGED <<sent, answer, request, spent, others>>

CancelDelete(r) ==
    /\ r \in deleting
    /\ deleting' = deleting \ {r}
    /\ UNCHANGED <<sent, answer, request, spent, machine, others>>

\* A restart forgets the deletions, and takes their chance from runtimes
\* that were accepted and had no machine yet.
Restart ==
    /\ deleting' = {}
    /\ \E lost \in SUBSET {r \in Runtimes : request[r] # NULL} :
         spent' = spent \cup lost
    /\ UNCHANGED <<sent, answer, request, machine, others>>

\* Somebody else creates a machine.
Appear(v) ==
    /\ v \notin others /\ \A o \in Runtimes : v \notin machine[o]
    /\ others' = others \cup {v}
    /\ UNCHANGED <<sent, answer, request, spent, machine, deleting>>

Next ==
    \/ \E p \in Runtimes, q \in Requests : Ask(p, q)
    \/ \E r \in Runtimes :
         \/ Accept(r) \/ Answer(r) \/ BreakOff(r)
         \/ \E v \in VmIds : Create(r, v)
         \/ AskDelete(r) \/ Destroy(r) \/ CancelDelete(r)
    \/ Restart
    \/ \E v \in VmIds : Appear(v)

Spec == Init /\ [][Next]_vars
===========================================================================
