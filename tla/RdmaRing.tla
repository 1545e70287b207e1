------------------------------ MODULE RdmaRing ------------------------------
(***************************************************************************)
(* The console's pages on the RDMA ring and on command presets, and the    *)
(* tables they create when they need them: the presets page adds a column  *)
(* to the ring's table, and the ring page reads that column.               *)
(*                                                                         *)
(* Each handler is one step: its tables are made (and committed) before    *)
(* its own transaction, and nothing another handler does in between can    *)
(* make it fail.                                                           *)
(***************************************************************************)
EXTENDS FiniteSets

CONSTANTS
    Nodes,          \* RDMA_RING_DEFAULTS
    Plans           \* sets of hosts a deployment can be asked for

VARIABLES
    ring,           \* rdma_ring_nodes exists, and multi_node_deployments with it
    column,         \* rdma_ring_nodes has the column rdma_enabled
    presets,        \* hosting_command_presets exists
    qualified, enabled,
    planned,        \* rows of multi_node_deployments: hosts, and what the gate said
    seen,           \* history: "ring" once a ring page was asked for, "both" when the
                    \* presets were after that
    ok              \* the page asked for last had an answer

tables == <<ring, column, presets>>
ringVars   == <<tables, qualified, enabled, planned, seen, ok>>

RingTypeOK ==
    /\ {ring, column, presets, ok} \subseteq BOOLEAN
    /\ qualified \subseteq Nodes /\ enabled \subseteq Nodes
    /\ planned \subseteq [hosts : Plans, errors : SUBSET (UNION Plans)]
    /\ seen \in {"none", "ring", "both"}

\* A new database, or one made from schema.sql.
RingInit ==
    /\ ring \in BOOLEAN /\ column = ring /\ presets = ring
    /\ qualified = {} /\ enabled = Nodes /\ planned = {}
    /\ seen = "none" /\ ok = TRUE

\* Fault: the tables are not committed before the page's own query.
MakesRing(works) == ring' = (ring \/ works)

\* _ensure_rdma_tables commits, whatever becomes of the page.
EnsureRdma(works) == ring' = TRUE

RingAnswers(works) == ok' = works /\ seen' = IF seen = "none" THEN "ring" ELSE seen

\* api_rdma_ring: its query names the column.
OpenRing ==
    /\ EnsureRdma(column)
    /\ RingAnswers(column)
    /\ UNCHANGED <<column, presets, qualified, enabled, planned>>

\* api_rdma_ring_update; a host that is not in the ring is no error.
UpdateNode(h, q) ==
    /\ EnsureRdma(TRUE)
    /\ qualified' = IF h \notin Nodes THEN qualified
                    ELSE IF q THEN qualified \cup {h} ELSE qualified \ {h}
    /\ RingAnswers(TRUE)
    /\ UNCHANGED <<column, presets, enabled, planned>>

\* api_rdma_toggle.
Toggle(h, e) ==
    /\ EnsureRdma(column)
    /\ enabled' = IF column /\ h \in Nodes
                  THEN IF e THEN enabled \cup {h} ELSE enabled \ {h}
                  ELSE enabled
    /\ RingAnswers(column)
    /\ UNCHANGED <<column, presets, qualified, planned>>

ListDeployments ==
    /\ EnsureRdma(TRUE)
    /\ RingAnswers(TRUE)
    /\ UNCHANGED <<column, presets, qualified, enabled, planned>>

\* api_rdma_deploy_create: the gate's verdict is reported and stops nothing.  The
\* query for the column is in a try of its own, but when it fails the transaction
\* is aborted and the INSERT fails with it.
CreateDeployment(H) ==
    /\ EnsureRdma(column)
    /\ planned' = IF column
                  THEN planned \cup {[hosts |-> H, errors |-> H \ (qualified \cap enabled)]}
                  ELSE planned
    /\ RingAnswers(column)
    /\ UNCHANGED <<column, presets, qualified, enabled>>

\* _ensure_preset_tables, the beginning of every handler of presets: without the
\* ring's table the whole transaction fails.
OpenPresets ==
    /\ column' = (column \/ ring) /\ presets' = (presets \/ ring)
    /\ ok' = ring /\ seen' = IF seen = "ring" THEN "both" ELSE seen
    /\ UNCHANGED <<ring, qualified, enabled, planned>>

RingNext ==
    \/ OpenRing \/ ListDeployments \/ OpenPresets
    \/ \E h \in UNION Plans, b \in BOOLEAN : UpdateNode(h, b) \/ Toggle(h, b)
    \/ \E H \in Plans : CreateDeployment(H)

RingSpec == RingInit /\ [][RingNext]_ringVars

---------------------------------------------------------------------------
(* Properties *)

\* On a new database the ring page fails until the presets page was opened, and
\* that one until the ring page was: after the two in this order every page works,
\* and goes on to (_ensure_rdma_tables, _ensure_preset_tables).
PagesComeUp == seen = "both" => ok
=============================================================================
