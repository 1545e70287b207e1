---------------------------- MODULE ModelRegistry ----------------------------
(***************************************************************************)
(* The routing table of the LLM Manager: the rows of model_registry, the   *)
(* syncs that write them from probes of the backends, the list of models   *)
(* the gateway shows, and the LiteLLM configuration file made from them.   *)
(*                                                                         *)
(* Production runs with ORM_WRITE_CUTOVER=1: every read and every write of *)
(* a sync is a transaction of its own.  Syncs run in the recovery engine's *)
(* process and in the web workers, so they overlap.                        *)
(***************************************************************************)
EXTENDS Naturals, FiniteSets, FiniteSetsExt

CONSTANTS
    Backends,       \* the hosts, as host_id's in the order a sync visits them
    Models,
    Target,         \* the model of the role alias
    Alias,          \* the alias' own name
    Engine,         \* the recovery engine, and
    Workers,        \* the web workers: the processes that run syncs
    MaxChanges,     \* bound on orders and on changes of the backends
    MaxAborts       \* bound on syncs that end with an exception

ASSUME RegistryAssumption ==
    /\ Backends \subseteq Nat /\ Backends # {}
    /\ Target \in Models /\ IsFiniteSet(Workers)
    /\ MaxChanges \in Nat /\ MaxAborts \in Nat

VARIABLES
    wanted,     \* hosts.desired_power_state
    managed,    \* hosts.management_mode = 'MANAGED'
    served,     \* the models a backend lists
    healthy,    \* its 1-token completion works
    reg,        \* model_registry.routable, for each host and model
    alias,      \* how many rows the alias has with each value of routable
    sync,       \* the sync each process runs
    lite,       \* litellm_sync
    config,     \* the model_list in the file it wrote last
    changes, aborts

hostRows == <<wanted, managed, served, healthy>>
registryVars == <<hostRows, reg, alias, sync, lite, config, changes, aborts>>

Syncers == {Engine} \cup Workers
Entries == Models \X Backends
NoSync == [pc |-> "idle", host |-> Min(Backends), models |-> {}, on |-> FALSE]

RegistryTypeOK ==
    /\ wanted \in [Backends -> {"RUNNING", "STOPPED_INTENTIONAL"}]
    /\ managed \in [Backends -> BOOLEAN] /\ healthy \in [Backends -> BOOLEAN]
    /\ served \in [Backends -> SUBSET Models]
    /\ reg \in [Backends -> [Models -> {"absent", "off", "on"}]]
    /\ alias \in [BOOLEAN -> Nat]
    /\ sync \in [Syncers -> [pc : {"idle", "probe", "flags", "write", "aliases",
                                   "target", "insert"},
                             host : Backends, models : SUBSET Models, on : BOOLEAN]]
    /\ lite \in [pc : {"idle", "aliases", "targets"}, entries : SUBSET Entries,
                 alias : BOOLEAN]
    /\ config \in [entries : SUBSET Entries, alias : SUBSET Backends]
    /\ changes \in 0..MaxChanges /\ aborts \in 0..MaxAborts

RegistryInit ==
    /\ wanted = [h \in Backends |-> "RUNNING"]
    /\ managed = [h \in Backends |-> TRUE] /\ healthy = managed
    /\ served \in [Backends -> {{}, {Target}}]
    /\ reg = [h \in Backends |-> [m \in Models |-> "absent"]]
    /\ alias = [b \in BOOLEAN |-> 0]
    /\ sync = [s \in Syncers |-> NoSync]
    /\ lite = [pc |-> "idle", entries |-> {}, alias |-> FALSE]
    /\ config = [entries |-> {}, alias |-> {}]
    /\ changes = 0 /\ aborts = 0

\* routable_models, the names /v1/models lists.
RoutableNames ==
    {m \in Models : \E h \in Backends : reg[h][m] = "on"}
      \cup (IF alias[TRUE] > 0 THEN {Alias} ELSE {})

---------------------------------------------------------------------------
(* sync_registry *)

Go(s, p) == sync' = [sync EXCEPT ![s].pc = p]

\* The next host, or the aliases after the last one.
NextHost(s) ==
    LET rest == {h \in Backends : h > sync[s].host}
    IN sync' = [sync EXCEPT ![s] =
                  IF rest = {} THEN [NoSync EXCEPT !.pc = "aliases"]
                  ELSE [NoSync EXCEPT !.pc = "probe", !.host = Min(rest)]]

\* probe_host: the list of models, and a completion with the first of them.
ProbeHost(s) ==
    /\ sync[s].pc = "probe"
    /\ LET h == sync[s].host IN
         sync' = [sync EXCEPT ![s].pc = "flags", ![s].models = served[h],
                              ![s].on = served[h] # {} /\ healthy[h]]
    /\ UNCHANGED <<hostRows, reg, alias, lite, config, changes, aborts>>

\* Fault: the desired state is not looked at.
ReadModeOnly(s) ==
    /\ sync[s].pc = "flags"
    /\ sync' = [sync EXCEPT ![s].pc = "write", ![s].on = @ /\ managed[sync[s].host]]
    /\ UNCHANGED <<hostRows, reg, alias, lite, config, changes, aborts>>

\* orm_host_flags.
ReadFlags(s) ==
    /\ sync[s].pc = "flags"
    /\ LET h == sync[s].host IN
         sync' = [sync EXCEPT ![s].pc = "write",
                              ![s].on = @ /\ wanted[h] = "RUNNING" /\ managed[h]]
    /\ UNCHANGED <<hostRows, reg, alias, lite, config, changes, aborts>>

\* orm_upsert_model_registry, once for each model the backend listed.
UpsertModel(s, m) ==
    /\ sync[s].pc = "write" /\ m \in sync[s].models
    /\ reg' = [reg EXCEPT ![sync[s].host][m] = IF sync[s].on THEN "on" ELSE "off"]
    /\ IF sync[s].models = {m} THEN NextHost(s)
       ELSE sync' = [sync EXCEPT ![s].models = @ \ {m}]
    /\ UNCHANGED <<hostRows, alias, lite, config, changes, aborts>>

\* orm_mark_host_unroutable: a backend that lists no model loses all its rows.
MarkUnroutable(s) ==
    /\ sync[s].pc = "write" /\ sync[s].models = {}
    /\ reg' = [reg EXCEPT ![sync[s].host] =
                 [m \in Models |-> IF @[m] = "on" THEN "off" ELSE @[m]]]
    /\ NextHost(s)
    /\ UNCHANGED <<hostRows, alias, lite, config, changes, aborts>>

\* Fault: only the rows that are routable are deleted.
DeleteRoutable(s) ==
    /\ sync[s].pc = "aliases"
    /\ alias' = [alias EXCEPT ![TRUE] = 0]
    /\ Go(s, "target")
    /\ UNCHANGED <<hostRows, reg, lite, config, changes, aborts>>

\* orm_delete_aliases: until the sync inserts it again, the alias has no row.
DeleteAliases(s) ==
    /\ sync[s].pc = "aliases"
    /\ alias' = [b \in BOOLEAN |-> 0]
    /\ Go(s, "target")
    /\ UNCHANGED <<hostRows, reg, lite, config, changes, aborts>>

\* Fault: the alias is looked up in place of its target.
ReadAlias(s) ==
    /\ sync[s].pc = "target"
    /\ sync' = [sync EXCEPT ![s].pc = "insert", ![s].on = Alias \in RoutableNames]
    /\ UNCHANGED <<hostRows, reg, alias, lite, config, changes, aborts>>

\* orm_alias_target_routable.
ReadTarget(s) ==
    /\ sync[s].pc = "target"
    /\ sync' = [sync EXCEPT ![s].pc = "insert", ![s].on = Target \in RoutableNames]
    /\ UNCHANGED <<hostRows, reg, alias, lite, config, changes, aborts>>

\* The alias' host_id is NULL, and NULLs never conflict: two syncs, two rows.
InsertAlias(s) ==
    /\ sync[s].pc = "insert"
    /\ alias' = [alias EXCEPT ![sync[s].on] = @ + 1]
    /\ sync' = [sync EXCEPT ![s] = NoSync]
    /\ UNCHANGED <<hostRows, reg, lite, config, changes, aborts>>

\* A database error ends the sync; what it committed stays.
SyncAborts(s) ==
    /\ sync[s].pc # "idle" /\ aborts < MaxAborts
    /\ aborts' = aborts + 1
    /\ sync' = [sync EXCEPT ![s] = NoSync]
    /\ UNCHANGED <<hostRows, reg, alias, lite, config, changes>>

SyncStep(s) ==
    \/ ProbeHost(s) \/ ReadFlags(s) \/ \E m \in Models : UpsertModel(s, m)
    \/ MarkUnroutable(s) \/ DeleteAliases(s) \/ ReadTarget(s) \/ InsertAlias(s)

EngineTick ==
    /\ sync[Engine].pc = "idle"
    /\ Go(Engine, "probe")
    /\ UNCHANGED <<hostRows, reg, alias, lite, config, changes, aborts>>

---------------------------------------------------------------------------
(* litellm_sync: three queries, each with its own snapshot, and one rename.
   It ends there: nothing makes LiteLLM load the file, which it does when it is
   restarted. *)

RoutableRows == {e \in Entries : reg[e[2]][e[1]] = "on"}

LiteEntries ==
    /\ lite.pc = "idle"
    /\ lite' = [pc |-> "aliases", entries |-> RoutableRows, alias |-> FALSE]
    /\ UNCHANGED <<hostRows, reg, alias, sync, config, changes, aborts>>

LiteAliases ==
    /\ lite.pc = "aliases"
    /\ lite' = [lite EXCEPT !.pc = "targets", !.alias = alias[TRUE] > 0]
    /\ UNCHANGED <<hostRows, reg, alias, sync, config, changes, aborts>>

\* The alias goes to the first backend of its target only.
LiteWrite ==
    /\ lite.pc = "targets"
    /\ LET backends == {h \in Backends : <<Target, h>> \in RoutableRows} IN
         config' = [entries |-> lite.entries,
                    alias |-> IF lite.alias /\ backends # {} THEN {Min(backends)} ELSE {}]
    /\ lite' = [pc |-> "idle", entries |-> {}, alias |-> FALSE]
    /\ UNCHANGED <<hostRows, reg, alias, sync, changes, aborts>>

LiteLlmSync == LiteEntries \/ LiteAliases \/ LiteWrite

---------------------------------------------------------------------------
(* Operators and backends *)

Change == changes < MaxChanges /\ changes' = changes + 1

\* set_desired_state; an order to stop goes on with a sync in the same worker.
SetDesired(w, h, d) ==
    /\ Change /\ sync[w].pc = "idle"
    /\ wanted' = [wanted EXCEPT ![h] = d]
    /\ IF d = "STOPPED_INTENTIONAL" THEN Go(w, "probe") ELSE UNCHANGED sync
    /\ UNCHANGED <<managed, served, healthy, reg, alias, lite, config, aborts>>

SetManaged(w, h, b) ==
    /\ Change /\ sync[w].pc = "idle"
    /\ managed' = [managed EXCEPT ![h] = b]
    /\ UNCHANGED <<wanted, served, healthy, reg, alias, sync, lite, config, aborts>>

\* set_active_deployment ends with a sync; what it writes is in ActiveDeployments.
PromotionSync(w) ==
    /\ Change /\ sync[w].pc = "idle"
    /\ Go(w, "probe")
    /\ UNCHANGED <<hostRows, reg, alias, lite, config, aborts>>

\* A backend goes down, comes back, changes its model or its health.
BackendChanges(h, M, ok) ==
    /\ Change
    /\ served' = [served EXCEPT ![h] = M]
    /\ healthy' = [healthy EXCEPT ![h] = ok]
    /\ UNCHANGED <<wanted, managed, reg, alias, sync, lite, config, aborts>>

RegistryNext ==
    \/ EngineTick \/ LiteLlmSync
    \/ \E s \in Syncers : SyncStep(s) \/ SyncAborts(s)
    \/ \E w \in Workers : PromotionSync(w)
    \/ \E w \in Workers, h \in Backends :
         \/ \E d \in {"RUNNING", "STOPPED_INTENTIONAL"} : SetDesired(w, h, d)
         \/ \E b \in BOOLEAN : SetManaged(w, h, b)
    \/ \E h \in Backends, M \in SUBSET Models, ok \in BOOLEAN : BackendChanges(h, M, ok)

\* The engine loops, and every call of a sync has a timeout.  Nobody has to give an
\* order, and nothing in the repository runs litellm_sync.
RegistryFairness ==
    WF_registryVars(EngineTick) /\ \A s \in Syncers : WF_registryVars(SyncStep(s))

RegistrySpec == RegistryInit /\ [][RegistryNext]_registryVars /\ RegistryFairness

---------------------------------------------------------------------------
(* Properties *)

\* The alias has at most one row for each process that syncs: no sequence of syncs
\* that overlap or end halfway makes its rows pile up, although no constraint
\* keeps a second row out (orm_delete_aliases and the INSERT of sync_registry).
AliasRowsBounded == alias[TRUE] + alias[FALSE] <= Cardinality(Syncers)

\* litellm_sync is run, and ends, again and again.
LiteSyncsRecur == []<>(lite.pc = "idle") /\ []<>(lite.pc # "idle")

\* A host that is to stay off is drained in the end: none of the models it lists
\* (or, once it is down, none at all) stays routable there, although a sync that
\* read the flags before the order may write after the sync that the order forces
\* (set_desired_state).  If litellm_sync keeps being run, neither does the
\* configuration file keep an entry for it, although its queries see rows of
\* different moments.
Drained ==
    \A h \in Backends, m \in Models :
        <>[](wanted[h] = "STOPPED_INTENTIONAL" /\ (m \in served[h] \/ served[h] = {}))
          => /\ <>[](reg[h][m] # "on")
             /\ LiteSyncsRecur => <>[](/\ <<m, h>> \notin config.entries
                                      /\ m = Target => h \notin config.alias)

\* The alias follows its target: not listed for ever when the target is not, and
\* listed again and again when it is, although every sync removes it for a moment
\* and overlapping syncs leave several rows of it (the alias part of sync_registry).
AliasFollows ==
    /\ <>[](Target \notin RoutableNames) => <>[](Alias \notin RoutableNames)
    /\ <>[](Target \in RoutableNames) => []<>(Alias \in RoutableNames)
=============================================================================
