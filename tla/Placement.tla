----------------------------- MODULE Placement -----------------------------
(***************************************************************************)
(* The placement policy of the Agent Runtime Manager (select_node) and the *)
(* state it reads: the nodes Proxmox reports online, and the node column   *)
(* of agent_runtimes, which a job sets when it is done, long after it      *)
(* placed its VM, and a DELETE clears.                                     *)
(*                                                                         *)
(* Nodes are numbers, ordered like their names.                            *)
(***************************************************************************)
EXTENDS Integers, FiniteSets

CONSTANTS
    Workers,
    Inference,          \* runtimes of a class in INFERENCE_RUNTIME_CLASSES
    Pinned,             \* runtimes of a class in TEMPLATE_PINNED_CLASSES
    Nodes,
    PreferredNode,      \* GENERAL_PREFERRED_NODE
    InferenceNodes,     \* INFERENCE_NODES
    ExcludedNodes,      \* EXCLUDED_NODES
    TemplateNode,       \* the node of the requested template
    MaxWorkers,         \* MAX_WORKERS_PER_INFERENCE_NODE
    MaxJobs,            \* jobs that run at the same time: threads of ARM's pool
    NoNode

ASSUME PlacementAssumption ==
    /\ Nodes \subseteq Nat /\ IsFiniteSet(Nodes) /\ IsFiniteSet(Workers)
    /\ {PreferredNode, TemplateNode} \subseteq Nodes
    /\ InferenceNodes \subseteq Nodes /\ ExcludedNodes \subseteq Nodes
    /\ PreferredNode \notin InferenceNodes \cup ExcludedNodes
    /\ TemplateNode \notin ExcludedNodes
    /\ Inference \subseteq Workers /\ Pinned \subseteq Workers \ Inference
    /\ MaxWorkers \in Nat /\ MaxJobs \in Nat \ {0}
    /\ NoNode \notin Nodes

VARIABLES
    online,     \* nodes Proxmox reports online
    phase,      \* of each runtime's job
    target,     \* the node its job chose, while it runs
    node        \* the column agent_runtimes.node

placeVars == <<online, phase, target, node>>

PlaceTypeOK ==
    /\ online \subseteq Nodes
    /\ phase \in [Workers -> {"new", "placed", "live", "failed", "destroyed"}]
    /\ target \in [Workers -> Nodes \cup {NoNode}]
    /\ node \in [Workers -> Nodes \cup {NoNode}]

PlaceInit ==
    /\ online \in SUBSET Nodes
    /\ phase = [r \in Workers |-> "new"]
    /\ target = [r \in Workers |-> NoNode]
    /\ node = [r \in Workers |-> NoNode]

---------------------------------------------------------------------------
(* select_node *)

WorkersOn(n) == Cardinality({r \in Workers : node[r] = n})

InferenceWorkers(n) == Cardinality({r \in Inference : node[r] = n})

CandidateNodes == online \ ExcludedNodes

\* Fault: the cap may be passed by one.
PastCap(r, n) ==
    r \in Inference /\ n \in InferenceNodes /\ InferenceWorkers(n) > MaxWorkers

\* The hard cap, for runtimes of an inference class only.
AtCap(r, n) ==
    r \in Inference /\ n \in InferenceNodes /\ InferenceWorkers(n) >= MaxWorkers

Eligible(r) == {n \in CandidateNodes : ~AtCap(r, n)}

Score(r, n) ==
    CASE n = PreferredNode -> 100
      [] n # PreferredNode /\ n \in InferenceNodes ->
           IF r \in Inference THEN 40 ELSE 40 - 60
      [] OTHER -> 20 - 2 * WorkersOn(n)

\* The order of the sort: score, then the template's node, then the name.
Before(r, m, n) ==
    \/ Score(r, m) > Score(r, n)
    \/ /\ Score(r, m) = Score(r, n)
       /\ \/ m = TemplateNode /\ n # TemplateNode
          \/ (m = TemplateNode <=> n = TemplateNode) /\ m < n

\* The node select_node returns, if any; pinned classes skip every filter.
Selected(r) ==
    IF r \in Pinned THEN {TemplateNode}
    ELSE {m \in Eligible(r) : \A n \in Eligible(r) \ {m} : Before(r, m, n)}

---------------------------------------------------------------------------
\* The jobs between their placement and their end.
InFlight == {r \in Workers : phase[r] = "placed"}

\* A thread is free: run_job runs in the thread of its POST.
MayPlace == Cardinality(InFlight) < MaxJobs

\* The step PLACING of a job.
Place(r) ==
    /\ MayPlace /\ phase[r] = "new"
    /\ \E n \in Selected(r) : target' = [target EXCEPT ![r] = n]
    /\ phase' = [phase EXCEPT ![r] = "placed"]
    /\ UNCHANGED <<online, node>>

PlacementRejected(r) ==
    /\ MayPlace /\ phase[r] = "new" /\ Selected(r) = {}
    /\ phase' = [phase EXCEPT ![r] = "failed"]
    /\ UNCHANGED <<online, target, node>>

JobDone(r) ==
    /\ phase[r] = "placed"
    /\ phase' = [phase EXCEPT ![r] = "live"]
    /\ node' = [node EXCEPT ![r] = target[r]]
    /\ target' = [target EXCEPT ![r] = NoNode]
    /\ UNCHANGED online

\* Any later step of the job fails: the row never has a node.
PlacedJobFails(r) ==
    /\ phase[r] = "placed"
    /\ phase' = [phase EXCEPT ![r] = "failed"]
    /\ target' = [target EXCEPT ![r] = NoNode]
    /\ UNCHANGED <<online, node>>

Destroy(r) ==
    /\ phase[r] = "live"
    /\ phase' = [phase EXCEPT ![r] = "destroyed"]
    /\ node' = [node EXCEPT ![r] = NoNode]
    /\ UNCHANGED <<online, target>>

\* A node goes down or comes back.
NodeChanges(n) ==
    /\ online' = IF n \in online THEN online \ {n} ELSE online \cup {n}
    /\ UNCHANGED <<phase, target, node>>

PlaceNext ==
    \/ \E r \in Workers : \/ Place(r) \/ PlacementRejected(r) \/ JobDone(r)
                           \/ PlacedJobFails(r) \/ Destroy(r)
    \/ \E n \in Nodes : NodeChanges(n)

PlaceSpec == PlaceInit /\ [][PlaceNext]_placeVars

---------------------------------------------------------------------------
(* Properties *)

\* Jobs that run at the same time count the same rows and may each take the last place
\* of an inference node, for a row learns its node at the end of its job.  The cap is
\* passed by less than the number of jobs that run at the same time, and never by more,
\* whatever nodes come and go and runtimes are destroyed: a job that starts later sees
\* the rows of those that are done (the count in select_node, JobDone).
CapOvershoot ==
    \A n \in InferenceNodes : InferenceWorkers(n) <= MaxWorkers + MaxJobs - 1
=============================================================================
