------------------------------ MODULE AgentKeys ------------------------------
(***************************************************************************)
(* The keys of one agent (one external_id): its row in agent_keys, which   *)
(* the service API writes, and the keys LiteLLM holds under its alias.     *)
(*                                                                         *)
(* The handlers block their event loop from the first query to the last,   *)
(* so each of the two web workers runs one at a time; the workers overlap. *)
(* Key and row are changed by different systems: LiteLLM answers at once,  *)
(* the row changes when the handler commits.                               *)
(***************************************************************************)
EXTENDS Naturals, FiniteSetsExt

CONSTANTS
    MaxKeys,    \* bound on the keys LiteLLM generates
    WebWorkers  \* that run the handlers

ASSUME KeysAssumption == MaxKeys \in Nat

VARIABLES
    keyRow,     \* [key, revoked]; key is NoKey while there is no row
    lite,       \* what LiteLLM knows of each key
    given,      \* keys the service API has answered with
    run,        \* the handler each worker runs
    admin,      \* the tokens a block, unblock or delete by alias has resolved
    byAdmin,    \* keys blocked or deleted by alias
    happened    \* which of the mishaps below have happened
            \* "overlap": two handlers at once; "ignored": LiteLLM refused to delete
            \* a key, which nobody looks at; "lost": a handler ended halfway
keyVars == <<keyRow, lite, given, run, admin, byAdmin, happened>>

Keys == 1..MaxKeys      \* in the order they are generated
NoKey == 0
Idle   == [pc |-> "idle", op |-> "none", old |-> NoKey, new |-> NoKey]
NoTask == [op |-> "none", tokens |-> {}]
Ops    == {"provision", "rotate", "revoke"}
AdminOps == {"block", "unblock", "delete"}

Handler == [pc : {"idle", "mint", "insert", "delete", "commit"}, op : Ops \cup {"none"},
            old : Keys \cup {NoKey}, new : Keys \cup {NoKey}]

KeyTypeOK ==
    /\ keyRow \in [key : Keys \cup {NoKey}, revoked : BOOLEAN]
    /\ lite \in [Keys -> {"free", "live", "blocked", "dead"}]
    /\ given \subseteq {k \in Keys : lite[k] # "free"} /\ byAdmin \subseteq Keys
    /\ run \in [WebWorkers -> Handler]
    /\ admin \in [op : AdminOps \cup {"none"}, tokens : SUBSET Keys]
    /\ happened \subseteq {"overlap", "ignored", "lost"}

KeyInit ==
    /\ keyRow = [key |-> NoKey, revoked |-> FALSE]
    /\ lite = [k \in Keys |-> "free"]
    /\ given = {} /\ byAdmin = {} /\ happened = {}
    /\ run = [w \in WebWorkers |-> Idle]
    /\ admin = NoTask

\* /key/generate answers with a key that never was before.
Free == {k \in Keys : lite[k] = "free"}
Generate == Free # {} /\ lite' = [lite EXCEPT ![Min(Free)] = "live"]

HasRow == keyRow.key # NoKey
Active == HasRow /\ ~keyRow.revoked
EndHandler(w) == run' = [run EXCEPT ![w] = Idle]

---------------------------------------------------------------------------
(* The handlers of the service API *)

\* The query each handler starts with.  A provision that finds an active row
\* answers with its key; a rotate or revoke that finds none answers 404.
BeginHandler(w, op) ==
    /\ run[w].pc = "idle"
    /\ LET first == IF op = "revoke" THEN "delete" ELSE "mint"
           enters == Active # (op = "provision")
       IN /\ run' = IF enters
                    THEN [run EXCEPT ![w] = [pc |-> first, op |-> op, new |-> NoKey,
                                             old |-> IF Active THEN keyRow.key ELSE NoKey]]
                    ELSE run
          /\ given' = IF Active /\ op = "provision" THEN given \cup {keyRow.key} ELSE given
          /\ happened' = IF enters /\ \E v \in WebWorkers : run[v].pc # "idle"
                         THEN happened \cup {"overlap"} ELSE happened
    /\ UNCHANGED <<keyRow, lite, admin, byAdmin>>

\* POST /key/generate.
Mint(w) ==
    /\ run[w].pc = "mint"
    /\ Generate
    /\ run' = [run EXCEPT ![w].new = Min(Free),
                 ![w].pc = IF run[w].op = "rotate" THEN "delete" ELSE "insert"]
    /\ UNCHANGED <<keyRow, given, admin, byAdmin, happened>>

MintFails(w) ==
    /\ run[w].pc = "mint"
    /\ EndHandler(w)
    /\ UNCHANGED <<keyRow, lite, given, admin, byAdmin, happened>>

\* external_id is UNIQUE, and a revoked row still has it: then the insert fails,
\* the answer is a 500 and nobody knows the key that was minted.
Insert(w) ==
    /\ run[w].pc = "insert"
    /\ IF HasRow THEN UNCHANGED <<keyRow, given>>
       ELSE /\ keyRow' = [key |-> run[w].new, revoked |-> FALSE]
            /\ given' = given \cup {run[w].new}
    /\ EndHandler(w)
    /\ UNCHANGED <<lite, admin, byAdmin, happened>>

Kill(tokens) ==
    lite' = [k \in Keys |-> IF k \in tokens THEN "dead" ELSE lite[k]]

\* Fault: the old key is left alone when the key is rotated.
DeleteOnRevoke(w, works) ==
    /\ run[w].pc = "delete"
    /\ IF works /\ run[w].op = "revoke" THEN Kill({run[w].old}) ELSE UNCHANGED lite
    /\ happened' = IF works THEN happened ELSE happened \cup {"ignored"}
    /\ run' = [run EXCEPT ![w].pc = "commit"]
    /\ UNCHANGED <<keyRow, given, admin, byAdmin>>

\* Fault: the old key is deleted by its alias, which the new one has too.
DeleteByName(w, works) ==
    /\ run[w].pc = "delete"
    /\ IF works THEN Kill({run[w].old, run[w].new}) ELSE UNCHANGED lite
    /\ happened' = IF works THEN happened ELSE happened \cup {"ignored"}
    /\ run' = [run EXCEPT ![w].pc = "commit"]
    /\ UNCHANGED <<keyRow, given, admin, byAdmin>>

\* POST /key/delete of the old key, before the commit; the answer is not looked at.
DeleteOld(w, works) ==
    /\ run[w].pc = "delete"
    /\ IF works THEN Kill({run[w].old}) ELSE UNCHANGED lite
    /\ happened' = IF works THEN happened ELSE happened \cup {"ignored"}
    /\ run' = [run EXCEPT ![w].pc = "commit"]
    /\ UNCHANGED <<keyRow, given, admin, byAdmin>>

\* The UPDATE goes by key_id: it does not look at revoked_at or raw_key again.
Commit(w) ==
    /\ run[w].pc = "commit"
    /\ IF run[w].op = "rotate" THEN /\ keyRow' = [keyRow EXCEPT !.key = run[w].new]
                                    /\ given' = given \cup {run[w].new}
       ELSE keyRow' = [keyRow EXCEPT !.revoked = TRUE] /\ UNCHANGED given
    /\ EndHandler(w)
    /\ UNCHANGED <<lite, admin, byAdmin, happened>>

\* A call times out (LiteLLM may have done what it asked for), the commit fails or
\* the worker dies: no row is changed.
Lost(w) ==
    /\ run[w].pc # "idle"
    /\ \/ UNCHANGED lite
       \/ run[w].pc = "delete" /\ Kill({run[w].old})
       \/ run[w].pc = "mint" /\ Generate
    /\ happened' = happened \cup {"lost"}
    /\ EndHandler(w)
    /\ UNCHANGED <<keyRow, given, admin, byAdmin>>

---------------------------------------------------------------------------
(* Keys by alias, from the console *)

\* api_keys_issue: one more key under the alias, in no row.
Issue ==
    /\ Generate
    /\ UNCHANGED <<keyRow, given, run, admin, byAdmin, happened>>

\* resolve_tokens_by_alias: every key of the alias LiteLLM lists.
Resolve(op) ==
    /\ admin = NoTask
    /\ LET tokens == {k \in Keys : lite[k] \in {"live", "blocked"}} IN
         /\ tokens # {}
         /\ admin' = [op |-> op, tokens |-> tokens]
    /\ UNCHANGED <<keyRow, lite, given, run, byAdmin, happened>>

\* api_keys_block: one call for each token, in the order of the list, whatever
\* became of the one before; a token deleted meanwhile is a 404.
BlockNext(works) ==
    /\ admin.op \in {"block", "unblock"}
    /\ LET k == Min(admin.tokens) IN
         /\ IF ~works \/ lite[k] = "dead" THEN UNCHANGED <<lite, byAdmin>>
            ELSE /\ lite' = [lite EXCEPT ![k] = IF admin.op = "block" THEN "blocked" ELSE "live"]
                 /\ byAdmin' = IF admin.op = "block" THEN byAdmin \cup {k} ELSE byAdmin
         /\ admin' = IF admin.tokens = {k} THEN NoTask
                     ELSE [admin EXCEPT !.tokens = @ \ {k}]
    /\ UNCHANGED <<keyRow, given, run, happened>>

\* api_keys_delete: one call for all tokens; the rows of agent_keys stay.
DeleteByAlias(works) ==
    /\ admin.op = "delete"
    /\ IF works THEN Kill(admin.tokens) /\ byAdmin' = byAdmin \cup admin.tokens
       ELSE UNCHANGED <<lite, byAdmin>>
    /\ admin' = NoTask
    /\ UNCHANGED <<keyRow, given, run, happened>>

KeyNext ==
    \/ \E w \in WebWorkers :
         \/ Mint(w) \/ MintFails(w) \/ Insert(w) \/ Commit(w) \/ Lost(w)
         \/ \E op \in Ops : BeginHandler(w, op)
         \/ \E works \in BOOLEAN : DeleteOld(w, works)
    \/ Issue
    \/ \E works \in BOOLEAN : BlockNext(works) \/ DeleteByAlias(works)
    \/ \E op \in AdminOps : Resolve(op)

KeySpec == KeyInit /\ [][KeyNext]_keyVars

---------------------------------------------------------------------------
(* Properties *)

\* Between requests, a key an agent was given works only while it is the key of
\* the agent's unrevoked row: rotation and revocation take every older key away,
\* whatever call was lost on the way (service_provision, service_rotate and
\* service_revoke).  It needs requests one after the other and LiteLLM never
\* refusing a delete: a rotate that overlaps a revoke leaves a revoked agent
\* with a key that works.
KeyGrants ==
    happened \cap {"overlap", "ignored"} = {} /\ (\A w \in WebWorkers : run[w].pc = "idle")
      => \A k \in given : lite[k] = "live" => Active /\ keyRow.key = k

\* The key of an active row works, so that the idempotent replay of a provision
\* never answers with a dead key, unless an operator took it away: also when
\* requests overlap, but not after a handler that ended between the deletion of
\* the old key and its commit (service_rotate).
RowKeyLive ==
    Active /\ "lost" \notin happened /\ keyRow.key \notin byAdmin
      => \/ lite[keyRow.key] = "live"
         \/ \E w \in WebWorkers : run[w].pc = "commit"
=============================================================================
