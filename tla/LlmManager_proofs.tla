------------------------- MODULE LlmManager_proofs -------------------------
(***************************************************************************)
(* Theorems about three parts of the LLM Manager that share no state, for  *)
(* every value of their constants:                                         *)
(*                                                                         *)
(*   ActiveDeployments  the cached placement is a register that answers    *)
(*                      with a recent value                                *)
(*   AgentKeys          which keys of an agent work                        *)
(*   ExternalSpend      how far spend passes the caps                      *)
(***************************************************************************)
EXTENDS ActiveDeployments, AgentKeys, ExternalSpend, TLAPS, WellFoundedInduction

---------------------------------------------------------------------------
(***************************************************************************)
(* ActiveDeployments                                                       *)
(***************************************************************************)
(* Types *)

\* A read has taken its time from its first step on.
BegunInv == \A r \in Readers : call[r].pc # "idle" <=> call[r].at # -1

TypeInv == TypeOK /\ BegunInv

Call == [pc : {"idle", "look", "query", "store"}, ip : Values, at : -1..now]

\* The steps of a read keep the types.
LEMMA ReadTypes ==
    ASSUME TypeInv, NEW r \in Readers,
           Begin(r) \/ Look(r) \/ Query(r) \/ Store(r)
    PROVE  TypeInv'
<1>. USE ActiveAssumption DEF TypeInv, BegunInv, TypeOK
<1>0. /\ call[r] \in Call /\ r[1] \in Workers
      /\ NoCall \in Call /\ NoCall.pc = "idle" /\ NoCall.at = -1
  BY DEF Call, Readers, NoCall, Values
<1>1. ASSUME NEW c \in Call, call' = [call EXCEPT ![r] = c], c.pc # "idle" <=> c.at # -1,
             UNCHANGED now
      PROVE  /\ call' \in [Readers -> [pc : {"idle", "look", "query", "store"},
                                       ip : Values, at : -1..now']]
             /\ BegunInv'
  BY <1>1 DEF Call
<1>2. CASE Begin(r)
  <2>. DEFINE c == [pc |-> "look", ip |-> None, at |-> now]
  <2>1. c \in Call /\ c.pc # "idle" /\ c.at # -1
    BY DEF Call, Values
  <2>. QED
    BY <1>1, <1>2, <2>1 DEF Begin
<1>3. CASE Look(r)
  <2>. DEFINE c == [call[r] EXCEPT !.pc = "query"]
  <2>1. c \in Call /\ c.pc = "query" /\ c.at = call[r].at
    BY <1>0 DEF Call
  <2>2. CASE Return(r, cache[r[1]].ip)
    BY <1>0, <1>1, <1>3, <2>2 DEF Look, Return
  <2>3. CASE call' = [call EXCEPT ![r].pc = "query"] /\ UNCHANGED got
    <3>1. call' = [call EXCEPT ![r] = c]
      BY <2>3
    <3>. QED
      BY <1>1, <1>3, <2>1, <2>3, <3>1 DEF Look
  <2>. QED
    BY <1>3, <2>2, <2>3 DEF Look
<1>4. CASE Query(r)
  <2>. DEFINE c == [call[r] EXCEPT !.pc = "store", !.ip = Visible(row, up)]
  <2>1. c \in Call /\ c.pc = "store" /\ c.at = call[r].at
    BY <1>0 DEF Call, Visible, Values
  <2>2. call' = [call EXCEPT ![r] = c]
    BY <1>4 DEF Query
  <2>. QED
    BY <1>1, <1>4, <2>1, <2>2 DEF Query
<1>5. CASE Store(r)
  <2>1. call[r].at \in 0..now /\ call[r].ip \in Values
    BY <1>0, <1>5 DEF Store, Call
  <2>. QED
    BY <1>0, <1>1, <1>5, <2>1 DEF Store, Return
<1>. QED
  BY <1>2, <1>3, <1>4, <1>5

\* Every variable of the placement and its caches keeps its type.
LEMMA TypeInvariant == Spec => []TypeInv
<1>. USE ActiveAssumption
<1>1. Init => TypeInv
  BY DEF Init, TypeInv, BegunInv, TypeOK, Values, Empty, NoCall
<1>2. TypeInv /\ [Next]_vars => TypeInv'
  <2>. SUFFICES ASSUME TypeInv, [Next]_vars PROVE TypeInv'
    OBVIOUS
  <2>. USE DEF TypeInv, BegunInv, TypeOK
  <2>5. ASSUME NEW w \in Workers, ClearCache(w)  PROVE TypeInv'
    BY <2>5 DEF ClearCache, Empty, Values
  <2>6. ASSUME NEW w \in Workers, NEW ip \in Ips, SetActive(w, ip)  PROVE TypeInv'
    BY <2>6 DEF SetActive, Values
  <2>7. ASSUME NEW b \in BOOLEAN, Database(b)  PROVE TypeInv'
    BY <2>7 DEF Database, Visible, Values
  <2>8. CASE Tick
    BY <2>8 DEF Tick, Visible, Values
  <2>9. CASE UNCHANGED vars
    BY <2>9 DEF vars
  <2>. QED
    BY <2>5, <2>6, <2>7, <2>8, <2>9, ReadTypes DEF Next
<1>. QED
  BY <1>1, <1>2, PTL DEF Spec

\* The row, the caches and the reads in progress keep their types, however readers,
\* promotions and outages overlap: no read and no entry is from the future, and the
\* history covers exactly the time so far (active_ip_for, set_active).
THEOREM ActiveTypeCorrect == Spec => []TypeOK
<1>1. TypeInv => TypeOK
  BY DEF TypeInv
<1>. QED
  BY <1>1, TypeInvariant, PTL

---------------------------------------------------------------------------
(* What the caches and the reads in progress hold was there to be read *)

\* The history has what a query returns now.
RowInv == Visible(row, up) \in had[now]

\* What a read is about to store was there after it began.
StoreInv ==
    \A r \in Readers :
        call[r].pc = "store" => \E t \in call[r].at..now : call[r].ip \in had[t]

\* A cache entry was there after the time it carries.
CacheInv ==
    \A w \in Workers :
        cache[w].at # -Ttl => \E t \in cache[w].at..now : cache[w].ip \in had[t]

RecentInv == RowInv /\ StoreInv /\ CacheInv

\* What was there stays in the history.
LEMMA HistoryGrows ==
    ASSUME TypeInv, [Next]_vars
    PROVE  /\ now' \in Nat /\ now <= now'
           /\ \A t \in 0..now : had[t] \subseteq had'[t]
<1>. DEFINE Grows == /\ now' \in Nat /\ now <= now'
                    /\ \A t \in 0..now : had[t] \subseteq had'[t]
<1>. USE ActiveAssumption DEF TypeInv, TypeOK
<1>1. ASSUME UNCHANGED <<now, had>>  PROVE Grows
  BY <1>1
<1>2. ASSUME NEW w \in Workers, NEW ip \in Ips, SetActive(w, ip)
      PROVE  Grows
  BY <1>2 DEF SetActive
<1>3. ASSUME NEW b \in BOOLEAN, Database(b)
      PROVE  Grows
  BY <1>3 DEF Database
<1>4. CASE Tick
  BY <1>4 DEF Tick
<1>. QED
  BY <1>1, <1>2, <1>3, <1>4 DEF Next, Begin, Look, Query, Store, ClearCache, vars

\* What was there since some time still was.
LEMMA StaysRecent ==
    ASSUME TypeInv, [Next]_vars,
           NEW a \in 0..now, NEW v, \E t \in a..now : v \in had[t]
    PROVE  \E t \in a..now' : v \in had'[t]
<1>1. PICK t \in a..now : v \in had[t]
  OBVIOUS
<1>2. now \in Nat /\ now' \in Nat /\ t \in 0..now
  <2>1. now \in Nat
    BY ActiveAssumption DEF TypeInv, TypeOK
  <2>2. now' \in Nat
    BY HistoryGrows
  <2>. QED
    BY <2>1, <2>2
<1>. QED
  BY <1>1, <1>2, HistoryGrows

\* The steps keep the invariant.
LEMMA RecentStep ==
    ASSUME TypeInv, RecentInv, [Next]_vars
    PROVE  RecentInv'
<1>. USE ActiveAssumption
<1>1. RowInv'
  <2>. USE DEF RowInv, TypeInv, TypeOK
  <2>1. ASSUME NEW w \in Workers, NEW ip \in Ips, SetActive(w, ip)  PROVE RowInv'
    BY <2>1 DEF SetActive, Visible
  <2>2. ASSUME NEW b \in BOOLEAN, Database(b)  PROVE RowInv'
    BY <2>2 DEF Database, RecentInv
  <2>3. CASE Tick
    BY <2>3 DEF Tick
  <2>4. CASE UNCHANGED <<now, row, up, had>>
    BY <2>4 DEF RecentInv, Visible
  <2>. QED
    BY <2>1, <2>2, <2>3, <2>4 DEF Next, Begin, Look, Query, Store, ClearCache, vars
<1>2. StoreInv'
  <2>. SUFFICES ASSUME NEW r \in Readers, call'[r].pc = "store"
                PROVE  \E t \in call'[r].at..now' : call'[r].ip \in had'[t]
    BY DEF StoreInv
  <2>0. /\ call \in [Readers -> Call] /\ now \in Nat
        /\ call[r].pc # "idle" => call[r].at \in 0..now
    BY DEF TypeInv, BegunInv, TypeOK, Call
  <2>1. CASE call'[r] = call[r]
    BY <2>0, <2>1, StaysRecent DEF RecentInv, StoreInv
  <2>2. CASE Query(r)
    <3>1. /\ call'[r].ip = Visible(row, up) /\ call'[r].at = call[r].at
          /\ UNCHANGED <<now, had>> /\ call[r].pc = "query"
      BY <2>0, <2>2 DEF Query, Call
    <3>2. call[r].at \in 0..now
      BY <2>0, <3>1
    <3>. QED
      BY <2>0, <3>1, <3>2 DEF RecentInv, RowInv
  <2>3. ASSUME NEW q \in Readers, q # r, Begin(q) \/ Look(q) \/ Query(q) \/ Store(q)
        PROVE  call'[r] = call[r]
    BY <2>0, <2>3 DEF Begin, Look, Query, Store, Return
  <2>4. CASE Begin(r) \/ Look(r) \/ Store(r)
    BY <2>0, <2>4 DEF Begin, Look, Store, Return, NoCall, Call
  <2>. QED
    BY <2>1, <2>2, <2>3, <2>4 DEF Next, ClearCache, SetActive, Database, Tick, vars
<1>3. CacheInv'
  <2>. SUFFICES ASSUME NEW w \in Workers, cache'[w].at # -Ttl
                PROVE  \E t \in cache'[w].at..now' : cache'[w].ip \in had'[t]
    BY DEF CacheInv
  <2>0. cache \in [Workers -> [ip : Values, at : {-Ttl} \cup 0..now]]
    BY DEF TypeInv, TypeOK
  <2>1. CASE cache'[w] = cache[w]
    <3>1. cache[w].at \in 0..now
      BY <2>0, <2>1
    <3>. QED
      BY <2>1, <3>1, StaysRecent DEF RecentInv, CacheInv
  <2>2. ASSUME NEW r \in Readers, Store(r)
        PROVE  \E t \in cache'[w].at..now' : cache'[w].ip \in had'[t]
    <3>1. CASE w = r[1]
      BY <2>0, <2>2, <3>1 DEF Store, RecentInv, StoreInv
    <3>2. CASE w # r[1]
      BY <2>0, <2>1, <2>2, <3>2 DEF Store
    <3>. QED
      BY <3>1, <3>2
  <2>3. ASSUME NEW v \in Workers, ClearCache(v)  PROVE cache'[w] = cache[w]
    BY <2>0, <2>3 DEF ClearCache, Empty
  <2>. QED
    BY <2>1, <2>2, <2>3 DEF Next, Begin, Look, Query, SetActive, Database, Tick, vars
<1>. QED
  BY <1>1, <1>2, <1>3 DEF RecentInv

---------------------------------------------------------------------------
(* The refinement *)

\* A read that returns returns a value the register had recently.
LEMMA ReturnIsRecent ==
    ASSUME TypeInv, RecentInv, NEW r \in Readers, NEW v \in Values,
           Return(r, v), UNCHANGED <<now, had>>, call[r].pc # "idle",
           \E t \in 0..now : t > call[r].at - Ttl /\ v \in had[t]
    PROVE  Register!Return(r, v)
<1>1. /\ began[r] = call[r].at /\ call[r].at # -1
      /\ call \in [Readers -> Call] /\ got \in [Readers -> Values]
  BY DEF began, TypeInv, BegunInv, TypeOK, Call
<1>2. began' = [began EXCEPT ![r] = -1]
  BY <1>1 DEF Return, began, NoCall
<1>. QED
  BY <1>1, <1>2 DEF Register!Return, Return

\* active_ip_for, however its threads, the promotions and the outages of the database
\* overlap, is a register whose reads return a value it has had since Ttl before the
\* read began.
THEOREM ActiveImplementsRegister == Spec => ReadsAreRecent
<1>. USE ActiveAssumption
<1>1. Init => RecentInv
  BY DEF Init, RecentInv, RowInv, StoreInv, CacheInv, Visible, NoCall, Empty
<1>2. Init => Register!Init
  BY DEF Init, Register!Init, began, NoCall
<1>3. TypeInv /\ RecentInv /\ [Next]_vars => [Register!Next]_(Register!vars)
  <2>. SUFFICES ASSUME TypeInv, RecentInv, [Next]_vars
                PROVE  Register!Next \/ UNCHANGED <<now, had, began, got>>
    BY DEF Register!vars
  <2>0. /\ call \in [Readers -> Call] /\ now \in Nat
        /\ cache \in [Workers -> [ip : Values, at : {-Ttl} \cup 0..now]]
        /\ had \in [0..now -> SUBSET Values]
    BY DEF TypeInv, TypeOK, Call
  <2>1. ASSUME NEW r \in Readers, Begin(r)  PROVE Register!Begin(r)
    <3>1. call[r].at = -1
      BY <2>1 DEF Begin, TypeInv, BegunInv
    <3>2. began' = [began EXCEPT ![r] = now]
      BY <2>0, <2>1 DEF Begin, began
    <3>. QED
      BY <2>1, <3>1, <3>2 DEF Register!Begin, Begin, began
  <2>2. ASSUME NEW r \in Readers, Look(r)
        PROVE  Register!Next \/ UNCHANGED <<now, had, began, got>>
    <3>1. /\ call[r].at \in 0..now /\ r[1] \in Workers
      BY <2>0, <2>2 DEF Look, TypeInv, BegunInv, Call, Readers
    <3>2. CASE call[r].at - cache[r[1]].at < Ttl
      <4>1. cache[r[1]].at \in 0..now
        BY <2>0, <3>1, <3>2
      <4>2. PICK t \in cache[r[1]].at..now : cache[r[1]].ip \in had[t]
        BY <3>1, <4>1 DEF RecentInv, CacheInv
      <4>3. t \in 0..now /\ t > call[r].at - Ttl
        BY <2>0, <3>1, <3>2, <4>1
      <4>4. Register!Return(r, cache[r[1]].ip) /\ cache[r[1]].ip \in Values
        BY <2>0, <2>2, <3>1, <3>2, <4>2, <4>3, ReturnIsRecent DEF Look
      <4>. QED
        BY <4>4 DEF Register!Next
    <3>3. CASE ~(call[r].at - cache[r[1]].at < Ttl)
      <4>1. call' = [call EXCEPT ![r].pc = "query"]
        BY <2>2, <3>3 DEF Look
      <4>2. \A q \in Readers : call'[q].at = call[q].at
        BY <2>0, <4>1 DEF Call
      <4>3. began' = began
        BY <4>2 DEF began
      <4>. QED
        BY <2>2, <3>3, <4>3 DEF Look
    <3>. QED
      BY <3>2, <3>3
  <2>3. ASSUME NEW r \in Readers, Query(r)  PROVE UNCHANGED <<now, had, began, got>>
    BY <2>0, <2>3 DEF Query, began, Call
  <2>4. ASSUME NEW r \in Readers, Store(r)  PROVE Register!Next
    <3>1. call[r].at \in 0..now /\ call[r].ip \in Values
      BY <2>0, <2>4 DEF Store, TypeInv, BegunInv, Call
    <3>2. PICK t \in call[r].at..now : call[r].ip \in had[t]
      BY <2>4 DEF Store, RecentInv, StoreInv
    <3>3. t \in 0..now /\ t > call[r].at - Ttl
      BY <2>0, <3>1
    <3>4. Register!Return(r, call[r].ip)
      BY <2>4, <3>1, <3>2, <3>3, ReturnIsRecent DEF Store
    <3>. QED
      BY <3>1, <3>4 DEF Register!Next
  <2>5. ASSUME NEW w \in Workers, ClearCache(w)  PROVE UNCHANGED <<now, had, began, got>>
    BY <2>5 DEF ClearCache, began
  <2>6. ASSUME NEW w \in Workers, NEW ip \in Ips, SetActive(w, ip)  PROVE Register!Next
    <3>1. Register!Write(ip)
      BY <2>6 DEF SetActive, Register!Write, began
    <3>. QED
      BY <3>1 DEF Register!Next, Values
  <2>7. ASSUME NEW b \in BOOLEAN, Database(b)  PROVE Register!Next
    <3>1. Register!Write(Visible(row, b)) /\ Visible(row, b) \in Values
      BY <2>7 DEF Database, Register!Write, began, Visible, TypeInv, TypeOK, Values
    <3>. QED
      BY <3>1 DEF Register!Next
  <2>8. CASE Tick
    <3>1. Register!Tick(Visible(row, up)) /\ Visible(row, up) \in Values
      BY <2>8 DEF Tick, Register!Tick, began, Visible, TypeInv, TypeOK, Values, RecentInv,
                  RowInv
    <3>. QED
      BY <3>1 DEF Register!Next
  <2>9. CASE UNCHANGED vars
    BY <2>9 DEF vars, began
  <2>. QED
    BY <2>1, <2>2, <2>3, <2>4, <2>5, <2>6, <2>7, <2>8, <2>9 DEF Next, Register!Next
<1>4. TypeInv /\ RecentInv /\ [Next]_vars => RecentInv'
  BY RecentStep
<1>. QED
  BY <1>1, <1>2, <1>3, <1>4, TypeInvariant, PTL
  DEF Spec, ReadsAreRecent, Register!Spec

---------------------------------------------------------------------------
(***************************************************************************)
(* AgentKeys                                                               *)
(***************************************************************************)
\* What the handler a worker runs knows.
HandlerInv ==
    \A w \in WebWorkers :
        /\ run[w].pc = "idle" => run[w] = Idle
        /\ run[w].pc = "mint" => run[w].op \in {"provision", "rotate"} /\ run[w].new = NoKey
        /\ run[w].pc = "insert" => run[w].op = "provision" /\ run[w].new \in Keys
        /\ run[w].pc \in {"delete", "commit"} => run[w].op \in {"rotate", "revoke"}
        /\ run[w].pc \in {"delete", "commit"} /\ run[w].op = "rotate" => run[w].new \in Keys
        /\ run[w].op = "revoke" => run[w].new = NoKey
        /\ run[w].op \in {"rotate", "revoke"} => run[w].old \in Keys /\ HasRow

\* Keys that a row or a handler names have been generated.
UsedInv ==
    /\ HasRow => lite[keyRow.key] # "free"
    /\ \A w \in WebWorkers, k \in Keys : k \in {run[w].old, run[w].new} => lite[k] # "free"

\* A block, unblock or delete by alias has a token to go on with.
AdminInv == admin.op # "none" => admin.tokens # {}

\* A key that was minted is known to its handler only, until that commits.
PrivateInv ==
    \A w \in WebWorkers : run[w].new # NoKey =>
        /\ lite[run[w].new] = "live" \/ run[w].new \in byAdmin
        /\ run[w].new # keyRow.key /\ run[w].new \notin given
        /\ \A v \in WebWorkers : /\ run[v].old # run[w].new
                                 /\ v # w => run[v].new # run[w].new

\* The handler that deleted the key of the row is about to write the row.
LiveInv ==
    Active /\ "lost" \notin happened /\ keyRow.key \notin byAdmin /\ lite[keyRow.key] # "live"
      => \E w \in WebWorkers : run[w].pc = "commit" /\ run[w].old = keyRow.key

\* While no handlers overlap and no deletion is refused, a handler works on the row
\* as it is, and a key that was given and not deleted is the row's.
GrantInv ==
    happened \cap {"overlap", "ignored"} = {} =>
        /\ \A v, w \in WebWorkers : run[v].pc # "idle" /\ run[w].pc # "idle" => v = w
        /\ \A w \in WebWorkers :
             /\ run[w].op \in {"rotate", "revoke"} => Active /\ run[w].old = keyRow.key
             /\ run[w].pc = "commit" => lite[run[w].old] = "dead"
        /\ \A k \in given : lite[k] \in {"live", "blocked"} => Active /\ keyRow.key = k

KeyInv ==
    KeyTypeOK /\ HandlerInv /\ UsedInv /\ AdminInv /\ PrivateInv /\ LiveInv /\ GrantInv

---------------------------------------------------------------------------
(* What the steps do *)

LEMMA MinKey == ASSUME NEW S \in SUBSET Keys, S # {} PROVE Min(S) \in S
<1> DEFINE Less == OpToRel(<, Nat)
<1>1. \E x \in S : \A y \in S : ~(<<y, x>> \in Less)
  <2>1. S \subseteq Nat
    BY KeysAssumption DEF Keys
  <2> HIDE DEF Less
  <2>2. IsWellFoundedOn(Less, Nat)
    BY NatLessThanWellFounded DEF Less
  <2>. QED
    BY <2>1, <2>2, WFMin
<1>2. \E x \in S : \A y \in S : x <= y
  <2>1. \A x, y \in S : x \in Nat /\ y \in Nat
    BY KeysAssumption DEF Keys
  <2>2. \A x, y \in Nat : y < x => <<y, x>> \in Less
    BY DEF OpToRel
  <2> HIDE DEF Less
  <2>3. PICK x \in S : \A y \in S : ~(<<y, x>> \in Less)
    BY <1>1
  <2>4. \A y \in S : ~(y < x)
    BY <2>1, <2>2, <2>3, Zenon
  <2>5. \A y \in S : x <= y
    BY <2>1, <2>4
  <2>. QED
    BY <2>5
<1>. QED
  BY <1>2 DEF Min

LEMMA NoKeyIsNone == NoKey \notin Keys
  BY KeysAssumption DEF NoKey, Keys

\* A key that is generated was free.
LEMMA GenerateStep ==
    ASSUME KeyTypeOK, Generate
    PROVE  \E k \in Keys : /\ lite[k] = "free" /\ k = Min(Free)
                           /\ lite' = [lite EXCEPT ![k] = "live"]
<1>1. Free \in SUBSET Keys /\ Free # {}
  BY DEF Free, Generate
<1>. QED
  BY <1>1, MinKey DEF Generate, Free

\* The handler a worker runs goes on; those of the other workers do not.
Goes(w, p, o, x, y) ==
    /\ run'[w] = [pc |-> p, op |-> o, old |-> x, new |-> y]
    /\ \A v \in WebWorkers \ {w} : run'[v] = run[v]
    /\ run' \in [WebWorkers -> Handler]

LEMMA HandlerGoes ==
    ASSUME KeyTypeOK, NEW w \in WebWorkers
    PROVE  /\ \A op \in Ops :
                BeginHandler(w, op) =>
                  IF Active # (op = "provision")
                  THEN Goes(w, IF op = "revoke" THEN "delete" ELSE "mint", op,
                            IF Active THEN keyRow.key ELSE NoKey, NoKey)
                  ELSE run' = run
           /\ EndHandler(w) => Goes(w, "idle", "none", NoKey, NoKey)
           /\ \A works \in BOOLEAN :
                DeleteOld(w, works) => Goes(w, "commit", run[w].op, run[w].old, run[w].new)
           /\ Mint(w) => Goes(w, IF run[w].op = "rotate" THEN "delete" ELSE "insert", run[w].op,
                              run[w].old, Min(Free))
<1>1. run[w] \in Handler /\ keyRow.key \in Keys \cup {NoKey}
  BY DEF KeyTypeOK
<1>2. ASSUME NEW op \in Ops, BeginHandler(w, op)
      PROVE  IF Active # (op = "provision")
             THEN Goes(w, IF op = "revoke" THEN "delete" ELSE "mint", op,
                       IF Active THEN keyRow.key ELSE NoKey, NoKey)
             ELSE run' = run
  BY <1>1, <1>2 DEF BeginHandler, Goes, KeyTypeOK, Handler
<1>3. ASSUME EndHandler(w) PROVE Goes(w, "idle", "none", NoKey, NoKey)
  BY <1>3 DEF EndHandler, Goes, KeyTypeOK, Handler, Idle
<1>4. ASSUME NEW works \in BOOLEAN, DeleteOld(w, works)
      PROVE  Goes(w, "commit", run[w].op, run[w].old, run[w].new)
  BY <1>1, <1>4 DEF DeleteOld, Goes, KeyTypeOK, Handler
<1>5. ASSUME Mint(w)
      PROVE  Goes(w, IF run[w].op = "rotate" THEN "delete" ELSE "insert", run[w].op,
                  run[w].old, Min(Free))
  <2>1. Min(Free) \in Keys
    BY <1>5, GenerateStep DEF Mint
  <2>2. run' = [run EXCEPT ![w] = [pc |-> IF run[w].op = "rotate" THEN "delete" ELSE "insert",
                                   op |-> run[w].op, old |-> run[w].old, new |-> Min(Free)]]
    BY <1>1, <1>5 DEF Mint, KeyTypeOK, Handler
  <2>. QED
    BY <1>1, <2>1, <2>2 DEF Goes, KeyTypeOK, Handler
<1>. QED
  BY <1>2, <1>3, <1>4, <1>5

---------------------------------------------------------------------------
(* The steps of a handler *)

LEMMA InitKeys == KeyInit => KeyInv
<1> SUFFICES ASSUME KeyInit PROVE KeyInv
  OBVIOUS
<1> USE NoKeyIsNone DEF KeyInit, Idle, NoTask
<1>1. KeyTypeOK
  BY DEF KeyTypeOK, Handler
<1>2. HandlerInv /\ UsedInv /\ AdminInv /\ PrivateInv
  BY DEF HandlerInv, UsedInv, AdminInv, PrivateInv, HasRow
<1>3. LiveInv /\ GrantInv
  BY DEF LiveInv, GrantInv, Active, HasRow
<1>. QED
  BY <1>1, <1>2, <1>3 DEF KeyInv

LEMMA BeginKeys ==
    ASSUME KeyInv, NEW w \in WebWorkers, NEW op \in Ops, BeginHandler(w, op)
    PROVE  KeyInv'
<1> DEFINE enters == Active # (op = "provision")
           old == IF Active THEN keyRow.key ELSE NoKey
           overlaps == enters /\ \E v \in WebWorkers : run[v].pc # "idle"
<1>1. /\ run[w].pc = "idle" /\ UNCHANGED <<keyRow, lite, admin, byAdmin>>
      /\ given' = IF Active /\ op = "provision" THEN given \cup {keyRow.key} ELSE given
      /\ happened' = IF overlaps THEN happened \cup {"overlap"} ELSE happened
      /\ Active' = Active /\ HasRow' = HasRow
  BY DEF BeginHandler, Active, HasRow
<1>2. IF enters THEN Goes(w, IF op = "revoke" THEN "delete" ELSE "mint", op, old, NoKey)
      ELSE run' = run
  BY HandlerGoes DEF KeyInv
<1>3. /\ Active => keyRow.key \in Keys /\ lite[keyRow.key] # "free"
      /\ op \in {"rotate", "revoke"} /\ enters => Active
      /\ keyRow.key \in Keys \cup {NoKey}
  BY DEF Active, HasRow, KeyInv, UsedInv, KeyTypeOK, Ops
<1>4. KeyTypeOK'
  BY <1>1, <1>2, <1>3 DEF KeyInv, KeyTypeOK, Goes
<1> HIDE DEF enters, old, overlaps
<1>5. HandlerInv'
  BY <1>1, <1>2, <1>3 DEF old, KeyInv, HandlerInv, Goes, Ops, Active
<1>6. UsedInv' /\ AdminInv'
  BY <1>1, <1>2, <1>3, NoKeyIsNone DEF old, KeyInv, UsedInv, AdminInv, Goes
<1>7. PrivateInv'
  BY <1>1, <1>2, <1>3 DEF old, KeyInv, PrivateInv, Goes
<1>8. LiveInv'
  BY <1>1, <1>2 DEF overlaps, KeyInv, LiveInv, Goes
<1>9. GrantInv'
  BY <1>1, <1>2, <1>3 DEF old, overlaps, enters, KeyInv, GrantInv, Goes, Ops
<1>. QED
  BY <1>4, <1>5, <1>6, <1>7, <1>8, <1>9 DEF KeyInv

LEMMA MintKeys ==
    ASSUME KeyInv, NEW w \in WebWorkers, Mint(w) PROVE KeyInv'
<1>1. PICK k \in Keys : lite[k] = "free" /\ k = Min(Free) /\ lite' = [lite EXCEPT ![k] = "live"]
  BY GenerateStep DEF Mint, KeyInv
<1>2. /\ run[w].pc = "mint" /\ UNCHANGED <<keyRow, given, admin, byAdmin, happened>>
      /\ Active' = Active /\ HasRow' = HasRow
  BY DEF Mint, Active, HasRow
<1>3. Goes(w, IF run[w].op = "rotate" THEN "delete" ELSE "insert", run[w].op, run[w].old, k)
  BY <1>1, HandlerGoes DEF KeyInv
<1>4. KeyTypeOK'
  BY <1>1, <1>2, <1>3 DEF KeyInv, KeyTypeOK, Goes
<1>5. HandlerInv'
  BY <1>2, <1>3 DEF KeyInv, HandlerInv, Goes
<1>6. UsedInv' /\ AdminInv'
  BY <1>1, <1>2, <1>3 DEF KeyInv, UsedInv, AdminInv, Goes, KeyTypeOK
<1>7. PrivateInv'
  <2>1. /\ k # keyRow.key /\ k \notin given
        /\ \A v \in WebWorkers : run[v].old # k /\ run[v].new # k
    BY <1>1, NoKeyIsNone DEF KeyInv, UsedInv, HasRow, KeyTypeOK
  <2>. QED
    BY <1>1, <1>2, <1>3, <2>1 DEF KeyInv, PrivateInv, Goes, KeyTypeOK, Handler
<1>8. LiveInv'
  BY <1>1, <1>2, <1>3 DEF KeyInv, LiveInv, Goes, KeyTypeOK
<1>9. GrantInv'
  <2>1. k \notin given
    BY <1>1 DEF KeyInv, KeyTypeOK
  <2>. QED
    BY <1>1, <1>2, <1>3, <2>1 DEF KeyInv, GrantInv, Goes, KeyTypeOK, Handler
<1>. QED
  BY <1>4, <1>5, <1>6, <1>7, <1>8, <1>9 DEF KeyInv

\* A handler ends, whatever LiteLLM did for it last, without writing the row.
LEMMA MintFailsKeys ==
    ASSUME KeyInv, NEW w \in WebWorkers, MintFails(w) PROVE KeyInv'
<1>1. /\ run[w].pc = "mint" /\ UNCHANGED <<keyRow, lite, given, admin, byAdmin, happened>>
      /\ Active' = Active /\ HasRow' = HasRow
  BY DEF MintFails, Active, HasRow
<1>2. Goes(w, "idle", "none", NoKey, NoKey)
  BY HandlerGoes DEF MintFails, KeyInv
<1>3. KeyTypeOK' /\ AdminInv'
  BY <1>1, <1>2 DEF KeyInv, KeyTypeOK, AdminInv, Goes
<1>4. HandlerInv' /\ UsedInv'
  BY <1>1, <1>2, NoKeyIsNone DEF KeyInv, HandlerInv, UsedInv, Goes, Idle
<1>5. PrivateInv'
  BY <1>1, <1>2 DEF KeyInv, PrivateInv, Goes
<1>6. LiveInv' /\ GrantInv'
  BY <1>1, <1>2 DEF KeyInv, LiveInv, GrantInv, Goes
<1>. QED
  BY <1>3, <1>4, <1>5, <1>6 DEF KeyInv

LEMMA InsertKeys ==
    ASSUME KeyInv, NEW w \in WebWorkers, Insert(w) PROVE KeyInv'
<1> DEFINE k == run[w].new
<1>1. /\ run[w].pc = "insert" /\ UNCHANGED <<lite, admin, byAdmin, happened>>
      /\ \/ HasRow /\ UNCHANGED <<keyRow, given>> /\ Active' = Active /\ HasRow'
         \/ ~HasRow /\ keyRow' = [key |-> k, revoked |-> FALSE] /\ given' = given \cup {k}
  BY DEF Insert, Active, HasRow
<1>2. Goes(w, "idle", "none", NoKey, NoKey)
  BY HandlerGoes DEF Insert, KeyInv
<1>3. /\ k \in Keys /\ lite[k] # "free" /\ (lite[k] = "live" \/ k \in byAdmin)
      /\ \A v \in WebWorkers \ {w} : run[v].old # k /\ run[v].new # k
  BY <1>1, NoKeyIsNone DEF KeyInv, HandlerInv, UsedInv, PrivateInv
<1>4. ~HasRow => Active' /\ HasRow' /\ keyRow'.key = k
  BY <1>1, <1>3, NoKeyIsNone DEF Active, HasRow
<1>5. KeyTypeOK' /\ AdminInv'
  <2>1. keyRow' \in [key : Keys \cup {NoKey}, revoked : BOOLEAN]
    <3>1. keyRow \in [key : Keys \cup {NoKey}, revoked : BOOLEAN]
      BY DEF KeyInv, KeyTypeOK
    <3>2. keyRow' = keyRow \/ keyRow' = [key |-> k, revoked |-> FALSE]
      BY <1>1
    <3> HIDE DEF k
    <3>3. [key |-> k, revoked |-> FALSE] \in [key : Keys \cup {NoKey}, revoked : BOOLEAN]
      BY <1>3
    <3>. QED
      BY <3>1, <3>2, <3>3
  <2>2. given' \subseteq {x \in Keys : lite[x] # "free"}
    BY <1>1, <1>3 DEF KeyInv, KeyTypeOK
  <2>. QED
    BY <1>1, <1>2, <2>1, <2>2 DEF KeyInv, KeyTypeOK, AdminInv, Goes
<1>6. HandlerInv' /\ UsedInv'
  BY <1>1, <1>2, <1>3, <1>4, NoKeyIsNone DEF KeyInv, HandlerInv, UsedInv, Goes, Idle
<1>7. PrivateInv'
  BY <1>1, <1>2, <1>3, <1>4 DEF KeyInv, PrivateInv, Goes
<1>8. LiveInv'
  BY <1>1, <1>2, <1>3, <1>4 DEF KeyInv, LiveInv, Goes
<1>9. GrantInv'
  <2>1. CASE HasRow
    BY <1>1, <1>2, <2>1 DEF KeyInv, GrantInv, Goes
  <2>2. CASE ~HasRow
    BY <1>1, <1>2, <1>4, <2>2 DEF KeyInv, GrantInv, HandlerInv, Goes, Active
  <2>. QED
    BY <2>1, <2>2
<1>. QED
  BY <1>5, <1>6, <1>7, <1>8, <1>9 DEF KeyInv

LEMMA DeleteOldKeys ==
    ASSUME KeyInv, NEW w \in WebWorkers, NEW works \in BOOLEAN, DeleteOld(w, works)
    PROVE  KeyInv'
<1> DEFINE o == run[w].old
<1>1. /\ run[w].pc = "delete" /\ UNCHANGED <<keyRow, given, admin, byAdmin>>
      /\ Active' = Active /\ HasRow' = HasRow
  BY DEF DeleteOld, Active, HasRow
<1>2. \/ works /\ lite' = [k \in Keys |-> IF k = o THEN "dead" ELSE lite[k]] /\ happened' = happened
      \/ ~works /\ lite' = lite /\ happened' = happened \cup {"ignored"}
  BY DEF DeleteOld, Kill
<1>3. Goes(w, "commit", run[w].op, o, run[w].new)
  BY HandlerGoes DEF KeyInv
<1>4. o \in Keys /\ HasRow /\ lite[o] # "free"
  BY <1>1 DEF KeyInv, HandlerInv, UsedInv
<1> HIDE DEF o
<1>5. lite' \in [Keys -> {"free", "live", "blocked", "dead"}]
  BY <1>2 DEF KeyInv, KeyTypeOK
<1>6. \A k \in Keys : lite'[k] = lite[k] \/ (works /\ k = o /\ lite'[k] = "dead")
  BY <1>2, <1>5 DEF KeyInv, KeyTypeOK
<1>7. KeyTypeOK' /\ AdminInv'
  BY <1>1, <1>2, <1>3, <1>4, <1>5, <1>6 DEF KeyInv, KeyTypeOK, AdminInv, Goes
<1>8. HandlerInv' /\ UsedInv'
  <2>1. HandlerInv'
    BY <1>1, <1>3 DEF o, KeyInv, HandlerInv, Goes
  <2>2. \A v \in WebWorkers : run'[v].old = run[v].old /\ run'[v].new = run[v].new
    BY <1>3 DEF o, Goes
  <2>3. UsedInv'
    BY <1>1, <1>6, <2>2 DEF KeyInv, UsedInv, HasRow, KeyTypeOK
  <2>. QED
    BY <2>1, <2>3
<1>9. PrivateInv'
  <2>1. \A v \in WebWorkers : run'[v].old = run[v].old /\ run'[v].new = run[v].new
    BY <1>3 DEF o, Goes
  <2>2. \A v \in WebWorkers : run[v].new # NoKey => run[v].new \in Keys /\ run[v].new # o
    BY DEF o, KeyInv, PrivateInv, KeyTypeOK, Handler
  <2>. QED
    BY <1>1, <1>6, <2>1, <2>2 DEF KeyInv, PrivateInv
<1>10. LiveInv'
  <2>1. Active => keyRow.key \in Keys
    BY DEF Active, HasRow, KeyInv, KeyTypeOK
  <2>2. ASSUME LiveInv, Active, "lost" \notin happened, keyRow.key \notin byAdmin,
               lite'[keyRow.key] # "live"
        PROVE  \E v \in WebWorkers : run'[v].pc = "commit" /\ run'[v].old = keyRow.key
    <3>1. CASE keyRow.key = o
      BY <1>3, <3>1 DEF Goes
    <3>2. CASE keyRow.key # o
      BY <1>1, <1>3, <1>6, <2>1, <2>2, <3>2 DEF LiveInv, Goes
    <3>. QED
      BY <3>1, <3>2
  <2>. QED
    BY <1>1, <1>2, <2>2 DEF KeyInv, LiveInv
<1>11. GrantInv'
  <2>1. CASE ~works
    BY <1>2, <2>1 DEF GrantInv
  <2>2. CASE works
    <3>1. lite'[o] = "dead" /\ happened' = happened
      BY <1>2, <1>4, <2>2
    <3> SUFFICES ASSUME happened \cap {"overlap", "ignored"} = {}
                 PROVE  /\ \A u, v \in WebWorkers :
                             run'[u].pc # "idle" /\ run'[v].pc # "idle" => u = v
                        /\ \A v \in WebWorkers :
                             /\ run'[v].op \in {"rotate", "revoke"} => Active /\ run'[v].old = keyRow.key
                             /\ run'[v].pc = "commit" => lite'[run'[v].old] = "dead"
                        /\ \A k \in given : lite'[k] \in {"live", "blocked"} => Active /\ keyRow.key = k
      BY <1>1, <3>1 DEF GrantInv
    <3>2. \A v \in WebWorkers \ {w} : run[v].pc = "idle" /\ run'[v] = run[v]
      BY <1>1, <1>3 DEF KeyInv, GrantInv, Goes
    <3>3. run'[w].op = run[w].op /\ run'[w].old = o
      BY <1>3 DEF Goes
    <3>4. \A k \in given : lite'[k] \in {"live", "blocked"} => lite[k] \in {"live", "blocked"}
      BY <1>6 DEF KeyInv, KeyTypeOK
    <3>. QED
      BY <3>1, <3>2, <3>3, <3>4 DEF o, KeyInv, GrantInv
  <2>. QED
    BY <2>1, <2>2
<1>. QED
  BY <1>7, <1>8, <1>9, <1>10, <1>11 DEF KeyInv

LEMMA CommitKeys ==
    ASSUME KeyInv, NEW w \in WebWorkers, Commit(w) PROVE KeyInv'
<1> DEFINE k == run[w].new
<1>1. run[w].pc = "commit" /\ UNCHANGED <<lite, admin, byAdmin, happened>>
  BY DEF Commit
<1>2. Goes(w, "idle", "none", NoKey, NoKey)
  BY HandlerGoes DEF Commit, KeyInv
<1>3. HasRow /\ run[w].op \in {"rotate", "revoke"}
  BY <1>1 DEF KeyInv, HandlerInv
<1>4. CASE run[w].op = "rotate"
  <2>1. /\ k \in Keys /\ lite[k] # "free" /\ (lite[k] = "live" \/ k \in byAdmin)
        /\ \A v \in WebWorkers \ {w} : run[v].old # k /\ run[v].new # k
    BY <1>1, <1>4, NoKeyIsNone DEF KeyInv, HandlerInv, UsedInv, PrivateInv
  <2>2. keyRow' = [keyRow EXCEPT !.key = k] /\ given' = given \cup {k}
    BY <1>4 DEF Commit
  <2>3. keyRow'.key = k /\ keyRow'.revoked = keyRow.revoked /\ HasRow' /\ Active' = Active
    BY <1>3, <2>1, <2>2, NoKeyIsNone DEF HasRow, Active, KeyInv, KeyTypeOK
  <2>4. KeyTypeOK' /\ AdminInv'
    <3>1. keyRow' \in [key : Keys \cup {NoKey}, revoked : BOOLEAN]
      BY <2>1, <2>2 DEF KeyInv, KeyTypeOK
    <3>2. given' \subseteq {x \in Keys : lite[x] # "free"}
      BY <2>1, <2>2 DEF KeyInv, KeyTypeOK
    <3>. QED
      BY <1>1, <1>2, <3>1, <3>2 DEF KeyInv, KeyTypeOK, AdminInv, Goes
  <2> HIDE DEF k
  <2>5. HandlerInv' /\ UsedInv'
    BY <1>1, <1>2, <2>1, <2>3, NoKeyIsNone DEF KeyInv, HandlerInv, UsedInv, Goes, Idle
  <2>6. PrivateInv'
    BY <1>1, <1>2, <2>1, <2>2, <2>3 DEF KeyInv, PrivateInv, Goes
  <2>7. LiveInv'
    BY <1>1, <2>1, <2>3 DEF LiveInv
  <2>8. GrantInv'
    <3>1. happened \cap {"overlap", "ignored"} = {} =>
            \A x \in given : lite[x] \notin {"live", "blocked"}
      BY <1>1, <1>4 DEF KeyInv, GrantInv
    <3>2. happened \cap {"overlap", "ignored"} = {} =>
            Active /\ \A v \in WebWorkers \ {w} : run[v].pc = "idle" /\ run[v].op = "none"
      BY <1>1, <1>4 DEF KeyInv, GrantInv, HandlerInv, Idle
    <3>. QED
      BY <1>1, <1>2, <2>2, <2>3, <3>1, <3>2 DEF GrantInv, Goes
  <2>. QED
    BY <2>4, <2>5, <2>6, <2>7, <2>8 DEF KeyInv
<1>5. CASE run[w].op = "revoke"
  <2>1. keyRow' = [keyRow EXCEPT !.revoked = TRUE] /\ given' = given
    BY <1>5 DEF Commit
  <2>2. keyRow'.key = keyRow.key /\ HasRow' /\ ~Active'
    BY <1>3, <2>1 DEF HasRow, Active, KeyInv, KeyTypeOK
  <2>3. KeyTypeOK' /\ AdminInv'
    <3>1. keyRow' \in [key : Keys \cup {NoKey}, revoked : BOOLEAN]
      BY <2>1 DEF KeyInv, KeyTypeOK
    <3>. QED
      BY <1>1, <1>2, <2>1, <3>1 DEF KeyInv, KeyTypeOK, AdminInv, Goes
  <2>4. HandlerInv' /\ UsedInv'
    BY <1>1, <1>2, <1>3, <2>2, NoKeyIsNone DEF KeyInv, HandlerInv, UsedInv, Goes, Idle
  <2>5. PrivateInv'
    BY <1>1, <1>2, <2>1, <2>2 DEF KeyInv, PrivateInv, Goes
  <2>6. LiveInv'
    BY <2>2 DEF LiveInv
  <2>7. GrantInv'
    <3>1. happened \cap {"overlap", "ignored"} = {} =>
            \A x \in given : lite[x] \notin {"live", "blocked"}
      BY <1>1, <1>5 DEF KeyInv, GrantInv
    <3>2. happened \cap {"overlap", "ignored"} = {} =>
            \A v \in WebWorkers \ {w} : run[v].pc = "idle" /\ run[v].op = "none"
      BY <1>1, <1>5 DEF KeyInv, GrantInv, HandlerInv, Idle
    <3>. QED
      BY <1>1, <1>2, <2>1, <3>1, <3>2 DEF GrantInv, Goes
  <2>. QED
    BY <2>3, <2>4, <2>5, <2>6, <2>7 DEF KeyInv
<1>. QED
  BY <1>3, <1>4, <1>5

\* A handler that is lost has at most deleted the old key or made one nobody knows.
LEMMA LostKeys ==
    ASSUME KeyInv, NEW w \in WebWorkers, Lost(w) PROVE KeyInv'
<1>1. /\ run[w].pc # "idle" /\ UNCHANGED <<keyRow, given, admin, byAdmin>>
      /\ happened' = happened \cup {"lost"} /\ Active' = Active /\ HasRow' = HasRow
  BY DEF Lost, Active, HasRow
<1>2. Goes(w, "idle", "none", NoKey, NoKey)
  BY HandlerGoes DEF Lost, KeyInv
<1>3. /\ lite' \in [Keys -> {"free", "live", "blocked", "dead"}]
      /\ \A k \in Keys : \/ lite'[k] = lite[k]
                         \/ lite'[k] = "dead" /\ k = run[w].old /\ run[w].pc = "delete"
                         \/ lite'[k] = "live" /\ lite[k] = "free"
  <2>1. CASE lite' = lite
    BY <2>1 DEF KeyInv, KeyTypeOK
  <2>2. CASE run[w].pc = "delete" /\ Kill({run[w].old})
    BY <2>2 DEF Kill, KeyInv, KeyTypeOK
  <2>3. CASE Generate
    BY <2>3, GenerateStep DEF KeyInv, KeyTypeOK
  <2>. QED
    BY <2>1, <2>2, <2>3 DEF Lost
<1>4. run[w].pc = "delete" => run[w].old \in Keys /\ lite[run[w].old] # "free"
  BY DEF KeyInv, HandlerInv, UsedInv
<1>5. KeyTypeOK' /\ AdminInv'
  BY <1>1, <1>2, <1>3, <1>4 DEF KeyInv, KeyTypeOK, AdminInv, Goes
<1>6. HandlerInv' /\ UsedInv'
  <2>1. HandlerInv'
    BY <1>1, <1>2, NoKeyIsNone DEF KeyInv, HandlerInv, Goes, Idle
  <2>2. \A k \in Keys : lite[k] # "free" => lite'[k] # "free"
    BY <1>3
  <2>3. UsedInv'
    BY <1>1, <1>2, <2>2, NoKeyIsNone DEF KeyInv, UsedInv, Goes, HasRow, KeyTypeOK
  <2>. QED
    BY <2>1, <2>3
<1>7. PrivateInv'
  <2>1. \A v \in WebWorkers : run[v].new # NoKey => run[v].new \in Keys /\ run[v].new # run[w].old
    BY DEF KeyInv, PrivateInv, KeyTypeOK, Handler
  <2>. QED
    BY <1>1, <1>2, <1>3, <2>1 DEF KeyInv, PrivateInv, Goes
<1>8. LiveInv'
  BY <1>1 DEF LiveInv
<1>9. GrantInv'
  <2> SUFFICES ASSUME happened \cap {"overlap", "ignored"} = {}
               PROVE  /\ \A u, v \in WebWorkers :
                           run'[u].pc # "idle" /\ run'[v].pc # "idle" => u = v
                      /\ \A v \in WebWorkers :
                           /\ run'[v].op \in {"rotate", "revoke"} => Active /\ run'[v].old = keyRow.key
                           /\ run'[v].pc = "commit" => lite'[run'[v].old] = "dead"
                      /\ \A k \in given : lite'[k] \in {"live", "blocked"} => Active /\ keyRow.key = k
    BY <1>1 DEF GrantInv
  <2>1. \A v \in WebWorkers : run'[v].pc = "idle" /\ run'[v].op = "none"
    BY <1>1, <1>2 DEF KeyInv, GrantInv, HandlerInv, Goes, Idle
  <2>2. \A k \in given : lite'[k] \in {"live", "blocked"} => lite[k] \in {"live", "blocked"}
    BY <1>3 DEF KeyInv, KeyTypeOK
  <2>. QED
    BY <2>1, <2>2 DEF KeyInv, GrantInv
<1>. QED
  BY <1>5, <1>6, <1>7, <1>8, <1>9 DEF KeyInv

---------------------------------------------------------------------------
(* The console *)

\* The console changes no row and no handler.  A deleted key stays so, and a key that
\* changes works then, or counts as taken away by an operator.
LEMMA ConsoleKeys ==
    ASSUME KeyInv, KeyTypeOK', AdminInv', UNCHANGED <<keyRow, given, run, happened>>,
           byAdmin \subseteq byAdmin',
           \A k \in Keys : /\ lite[k] # "free" => lite'[k] # "free"
                           /\ lite[k] = "dead" => lite'[k] = "dead"
                           /\ lite'[k] # lite[k] => lite'[k] = "live" \/ k \in byAdmin'
    PROVE  KeyInv'
<1>1. Active' = Active /\ HasRow' = HasRow
  BY DEF Active, HasRow
<1>2. HandlerInv' /\ UsedInv'
  BY <1>1 DEF KeyInv, HandlerInv, UsedInv, HasRow, KeyTypeOK
<1>3. PrivateInv'
  <2>1. \A w \in WebWorkers : run[w].new # NoKey => run[w].new \in Keys
    BY DEF KeyInv, KeyTypeOK, Handler
  <2>. QED
    BY <2>1 DEF KeyInv, PrivateInv
<1>4. LiveInv'
  <2>1. Active => keyRow.key \in Keys
    BY DEF Active, HasRow, KeyInv, KeyTypeOK
  <2>. QED
    BY <1>1, <2>1 DEF KeyInv, LiveInv
<1>5. GrantInv'
  <2>1. \A k \in given : lite'[k] \in {"live", "blocked"} => lite[k] \in {"live", "blocked"}
    BY DEF KeyInv, KeyTypeOK
  <2>2. \A w \in WebWorkers : run[w].pc = "commit" => run[w].old \in Keys
    BY DEF KeyInv, HandlerInv
  <2>3. \A k \in Keys : lite[k] = "dead" => lite'[k] = "dead"
    OBVIOUS
  <2>. QED
    BY <1>1, <2>1, <2>2, <2>3 DEF KeyInv, GrantInv
<1>. QED
  BY <1>2, <1>3, <1>4, <1>5 DEF KeyInv

LEMMA IssueKeys == ASSUME KeyInv, Issue PROVE KeyInv'
<1>1. PICK k \in Keys : lite[k] = "free" /\ lite' = [lite EXCEPT ![k] = "live"]
  BY GenerateStep DEF Issue, KeyInv
<1>2. KeyTypeOK' /\ AdminInv'
  BY <1>1 DEF Issue, KeyInv, KeyTypeOK, AdminInv
<1>. QED
  BY <1>1, <1>2, ConsoleKeys DEF Issue, KeyInv, KeyTypeOK

LEMMA ResolveKeys == ASSUME KeyInv, NEW op \in AdminOps, Resolve(op) PROVE KeyInv'
<1>1. KeyTypeOK' /\ AdminInv'
  BY DEF Resolve, KeyInv, KeyTypeOK, AdminInv
<1>. QED
  BY <1>1, ConsoleKeys DEF Resolve

LEMMA BlockNextKeys == ASSUME KeyInv, NEW works \in BOOLEAN, BlockNext(works) PROVE KeyInv'
<1> DEFINE k == Min(admin.tokens)
<1>1. k \in admin.tokens /\ k \in Keys
  BY MinKey DEF BlockNext, KeyInv, KeyTypeOK, AdminInv
<1>2. /\ UNCHANGED <<keyRow, given, run, happened>>
      /\ \/ UNCHANGED <<lite, byAdmin>>
         \/ /\ lite[k] # "dead"
            /\ \/ lite' = [lite EXCEPT ![k] = "blocked"] /\ byAdmin' = byAdmin \cup {k}
               \/ lite' = [lite EXCEPT ![k] = "live"] /\ byAdmin' = byAdmin
  BY DEF BlockNext
<1>3. /\ admin' \in [op : AdminOps \cup {"none"}, tokens : SUBSET Keys]
      /\ AdminInv'
  <2>1. admin' = NoTask \/ (admin.tokens # {k} /\ admin' = [admin EXCEPT !.tokens = @ \ {k}])
    BY DEF BlockNext
  <2> HIDE DEF k
  <2>. QED
    BY <1>1, <2>1 DEF NoTask, KeyInv, KeyTypeOK, AdminInv
<1> HIDE DEF k
<1>4. KeyTypeOK'
  BY <1>1, <1>2, <1>3 DEF KeyInv, KeyTypeOK
<1>. QED
  BY <1>1, <1>2, <1>3, <1>4, ConsoleKeys DEF KeyInv, KeyTypeOK

LEMMA DeleteByAliasKeys ==
    ASSUME KeyInv, NEW works \in BOOLEAN, DeleteByAlias(works) PROVE KeyInv'
<1>1. /\ UNCHANGED <<keyRow, given, run, happened>> /\ admin' = NoTask
      /\ \/ UNCHANGED <<lite, byAdmin>>
         \/ /\ lite' = [k \in Keys |-> IF k \in admin.tokens THEN "dead" ELSE lite[k]]
            /\ byAdmin' = byAdmin \cup admin.tokens
  BY DEF DeleteByAlias, Kill
<1>2. KeyTypeOK' /\ AdminInv'
  BY <1>1 DEF KeyInv, KeyTypeOK, NoTask, AdminInv
<1>. QED
  BY <1>1, <1>2, ConsoleKeys DEF KeyInv, KeyTypeOK

LEMMA KeyInvariant == KeySpec => []KeyInv
<1>1. KeyInv /\ [KeyNext]_keyVars => KeyInv'
  <2> SUFFICES ASSUME KeyInv, [KeyNext]_keyVars PROVE KeyInv'
    OBVIOUS
  <2>1. CASE UNCHANGED keyVars
    BY <2>1 DEF keyVars, KeyInv, KeyTypeOK, HandlerInv, UsedInv, AdminInv, PrivateInv, LiveInv,
                GrantInv, Active, HasRow
  <2>. QED
    BY <2>1, BeginKeys, MintKeys, MintFailsKeys, InsertKeys, DeleteOldKeys, CommitKeys, LostKeys,
       IssueKeys, ResolveKeys, BlockNextKeys, DeleteByAliasKeys
    DEF KeyNext
<1>. QED
  BY <1>1, InitKeys, PTL DEF KeySpec

\* The row, the keys LiteLLM has and the locals of the handlers keep their types, and
\* only keys that were generated are given.
THEOREM KeyTypeCorrect == KeySpec => []KeyTypeOK
<1>1. KeyInv => KeyTypeOK
  BY DEF KeyInv
<1>. QED
  BY <1>1, KeyInvariant, PTL

\* For any number of workers and keys: while requests do not overlap and LiteLLM
\* refuses no deletion, a key an agent was given works, between requests, only as the
\* key of the agent's unrevoked row, whatever handlers and calls were lost.
THEOREM KeyGrantsHold == KeySpec => []KeyGrants
<1>1. KeyInv => KeyGrants
  BY DEF KeyInv, GrantInv, KeyGrants
<1>. QED
  BY <1>1, KeyInvariant, PTL

\* For any number of workers and keys, although their handlers overlap: the key of an
\* active row works unless an operator took it away, a handler was lost, or the one
\* that deleted it has yet to commit.
THEOREM RowKeyIsLive == KeySpec => []RowKeyLive
<1>1. KeyInv => RowKeyLive
  BY DEF KeyInv, LiveInv, RowKeyLive
<1>. QED
  BY <1>1, KeyInvariant, PTL

---------------------------------------------------------------------------
(***************************************************************************)
(* ExternalSpend                                                           *)
(***************************************************************************)
\* The caps in the settings and in the guard's cache are none that was never saved,
\* and requests in flight are bounded, whenever they began.
CapsInv ==
    /\ daily <= top.daily /\ monthly <= top.monthly
    /\ caps.daily <= top.daily /\ caps.monthly <= top.monthly
    /\ InFlight <= MaxRequests

SpendInv == SpendTypeOK /\ CapsInv /\ Overshoot

LEMMA MaxPair == \A x, y \in Int : Max({x, y}) = IF x >= y THEN x ELSE y
<1> SUFFICES ASSUME NEW x \in Int, NEW y \in Int
             PROVE  Max({x, y}) = IF x >= y THEN x ELSE y
  OBVIOUS
<1>1. \A z \in {x, y} : (\A u \in {x, y} : z >= u) <=> z = IF x >= y THEN x ELSE y
  OBVIOUS
<1>. QED
  BY <1>1 DEF Max

LEMMA MinPair == \A x, y \in Int : Min({x, y}) = IF x <= y THEN x ELSE y
<1> SUFFICES ASSUME NEW x \in Int, NEW y \in Int
             PROVE  Min({x, y}) = IF x <= y THEN x ELSE y
  OBVIOUS
<1>1. \A z \in {x, y} : (\A u \in {x, y} : z <= u) <=> z = IF x <= y THEN x ELSE y
  OBVIOUS
<1>. QED
  BY <1>1 DEF Min

LEMMA EnteredIsInt == \A x \in Entered : x \in Int /\ x >= Unset
  BY SpendAssumption DEF Entered, Unset

LEMMA CapsAreInts ==
    ASSUME SpendTypeOK
    PROVE  /\ daily \in Int /\ monthly \in Int /\ caps.daily \in Int /\ caps.monthly \in Int
           /\ top.daily \in Int /\ top.monthly \in Int
           /\ top.daily >= Unset /\ top.monthly >= Unset
           /\ Max({top.daily, 0}) \in Nat /\ Max({top.monthly, 0}) \in Nat
<1>1. /\ daily \in Entered /\ monthly \in Entered /\ caps.daily \in Entered
      /\ caps.monthly \in Entered /\ top.daily \in Entered /\ top.monthly \in Entered
  BY DEF SpendTypeOK
<1>2. /\ top.daily \in Int /\ top.monthly \in Int
  BY <1>1, EnteredIsInt
<1>3. Max({top.daily, 0}) \in Nat /\ Max({top.monthly, 0}) \in Nat
  BY <1>2, MaxPair
<1>. QED
  BY <1>1, <1>3, EnteredIsInt

LEMMA InitSpend == SpendInit => SpendInv
<1> SUFFICES ASSUME SpendInit PROVE SpendInv
  OBVIOUS
<1>1. Max({top.daily, 0}) = 0 /\ Max({top.monthly, 0}) = 0
  BY MaxPair DEF SpendInit, Unset
<1>2. SpendTypeOK
  <2>1. 0 \in 0..MaxSpend /\ 0 \in 0..MaxSaves /\ 0 \in 0..MaxDays /\ 0 \in 0..MaxDbOutages
    BY SpendAssumption
  <2>2. spent \in [day : 0..MaxSpend, month : 0..MaxSpend] /\ flying \in [Ages -> 0..MaxRequests]
    BY <2>1, SpendAssumption DEF SpendInit
  <2>3. caps \in [daily : Entered, monthly : Entered, age : {"none", "fresh", "old"},
                  known : BOOLEAN]
    BY DEF SpendInit, NoCaps, Entered
  <2>4. {daily, monthly, warn, top.daily, top.monthly} \subseteq Entered
    BY DEF SpendInit, Entered
  <2>5. key \in BOOLEAN /\ entries \in BOOLEAN /\ dbUp \in BOOLEAN /\ blind \in BOOLEAN
    BY DEF SpendInit
  <2>6. save \in [Consoles -> 0..6] /\ fallback \in {"unset", "true", "false"}
    BY DEF SpendInit
  <2>7. saves \in 0..MaxSaves /\ days \in 0..MaxDays /\ dbOutages \in 0..MaxDbOutages
    BY <2>1 DEF SpendInit
  <2>. QED
    BY <2>2, <2>3, <2>4, <2>5, <2>6, <2>7 DEF SpendTypeOK
<1>3. CapsInv
  BY SpendAssumption DEF SpendInit, CapsInv, InFlight, Unset, NoCaps, Ages
<1>4. Overshoot
  BY <1>1, SpendAssumption DEF SpendInit, Overshoot, Ages
<1>. QED
  BY <1>2, <1>3, <1>4 DEF SpendInv

\* The console: caps are saved one by one.
LEMMA ConsoleSpend ==
    ASSUME SpendInv, NEW w \in Consoles,
           \/ Start(w) \/ Skip(w) \/ Refuse(w) \/ Gate(w) \/ SaveFallback(w)
           \/ \E k \in BOOLEAN : SaveKey(w, k)
           \/ \E v \in Entered : SaveAmount(w, v)
    PROVE  SpendInv'
<1>1. CASE \E v \in Entered : SaveAmount(w, v)
  <2>1. PICK v \in Entered : SaveAmount(w, v)
    BY <1>1
  <2>2. /\ daily' \in Entered /\ monthly' \in Entered /\ warn' \in Entered
        /\ top.daily \in Entered /\ top.monthly \in Entered
    BY <2>1 DEF SaveAmount, SpendInv, SpendTypeOK
  <2>3. /\ top'.daily = Max({top.daily, daily'}) /\ top'.monthly = Max({top.monthly, monthly'})
        /\ UNCHANGED <<key, fallback, entries, guard, saves>>
    BY <2>1 DEF SaveAmount
  <2>4. /\ top'.daily \in Entered /\ top'.daily >= top.daily /\ top'.daily >= daily'
        /\ top'.monthly \in Entered /\ top'.monthly >= top.monthly /\ top'.monthly >= monthly'
    <3>1. /\ top.daily \in Int /\ top.monthly \in Int /\ daily' \in Int /\ monthly' \in Int
      BY <2>2, EnteredIsInt
    <3>2. /\ top'.daily = IF top.daily >= daily' THEN top.daily ELSE daily'
          /\ top'.monthly = IF top.monthly >= monthly' THEN top.monthly ELSE monthly'
      BY <2>3, <3>1, MaxPair
    <3>. QED
      BY <2>2, <3>1, <3>2
  <2>5. save' \in [Consoles -> 0..6]
    BY <2>1 DEF SaveAmount, To, SpendInv, SpendTypeOK
  <2>6. SpendTypeOK'
    BY <2>2, <2>3, <2>4, <2>5 DEF SpendInv, SpendTypeOK, guard
  <2>7. CapsInv'
    <3>1. SpendTypeOK /\ CapsInv
      BY DEF SpendInv
    <3>2. /\ UNCHANGED caps /\ InFlight' = InFlight
          /\ top'.daily \in Int /\ top'.monthly \in Int /\ daily' \in Int /\ monthly' \in Int
      BY <2>2, <2>3, <2>4, EnteredIsInt DEF guard, InFlight
    <3>. QED
      BY <2>4, <3>1, <3>2, CapsAreInts DEF CapsInv
  <2>8. /\ Max({top.daily, 0}) <= Max({top'.daily, 0})
        /\ Max({top.monthly, 0}) <= Max({top'.monthly, 0})
        /\ {Max({top.daily, 0}), Max({top.monthly, 0}), Max({top'.daily, 0}),
            Max({top'.monthly, 0})} \subseteq Int
    <3>1. /\ top.daily \in Int /\ top.monthly \in Int
          /\ top'.daily \in Int /\ top'.monthly \in Int
      BY <2>2, <2>4, EnteredIsInt
    <3>. QED
      BY <2>4, <3>1, MaxPair
  <2>9. Overshoot'
    BY <2>3, <2>8, SpendAssumption DEF SpendInv, SpendTypeOK, Overshoot, guard, Ages
  <2>. QED
    BY <2>6, <2>7, <2>9 DEF SpendInv
<1>2. CASE ~\E v \in Entered : SaveAmount(w, v)
  <2>1. UNCHANGED <<daily, monthly, warn, entries, guard, top>>
    BY <1>2 DEF Start, Skip, Refuse, Gate, SaveFallback, SaveKey, settings
  <2>2. /\ key' \in BOOLEAN /\ fallback' \in {"unset", "true", "false"}
        /\ save' \in [Consoles -> 0..6] /\ saves' \in 0..MaxSaves
    BY <1>2, SpendAssumption
    DEF Start, Skip, Refuse, Gate, SaveFallback, SaveKey, To, settings, SpendInv, SpendTypeOK
  <2>. QED
    BY <2>1, <2>2 DEF SpendInv, SpendTypeOK, CapsInv, Overshoot, InFlight, guard
<1>. QED
  BY <1>1, <1>2

\* The caps the guard goes by.
LEMMA GetCapsBelowTop ==
    ASSUME SpendInv
    PROVE  /\ GetCaps \in [daily : Entered, monthly : Entered, age : {"none", "fresh", "old"},
                           known : BOOLEAN]
           /\ GetCaps.daily <= top.daily /\ GetCaps.monthly <= top.monthly
<1>1. Unset <= top.daily /\ Unset <= top.monthly
  BY CapsAreInts DEF SpendInv
<1>2. CASE GetCaps = caps
  BY <1>2 DEF SpendInv, SpendTypeOK, CapsInv
<1>3. CASE GetCaps = NoCaps("fresh")
  BY <1>1, <1>3 DEF NoCaps, Entered
<1>4. CASE GetCaps = [daily |-> daily, monthly |-> monthly, age |-> "fresh", known |-> TRUE]
  BY <1>4 DEF SpendInv, SpendTypeOK, CapsInv
<1>. QED
  BY <1>2, <1>3, <1>4 DEF GetCaps

\* A request passes while the spend is below the cap, so that what is in flight then
\* is all that can come on top.
LEMMA RequestSpend == ASSUME SpendInv, Request PROVE SpendInv'
<1>1. /\ UNCHANGED <<settings, save, entries, dbUp, spent, top, saves, days, dbOutages>>
      /\ InFlight < MaxRequests /\ caps' = GetCaps
  BY DEF Request
<1>2. /\ caps' \in [daily : Entered, monthly : Entered, age : {"none", "fresh", "old"},
                    known : BOOLEAN]
      /\ caps'.daily <= top.daily /\ caps'.monthly <= top.monthly
  BY <1>1, GetCapsBelowTop
<1>3. CASE UNCHANGED <<flying, blind>>
  BY <1>1, <1>2, <1>3 DEF SpendInv, SpendTypeOK, CapsInv, Overshoot, InFlight, settings
<1>4. CASE /\ Below(spent.month, caps'.monthly) /\ Below(spent.day, caps'.daily)
           /\ flying' = [flying EXCEPT !["day"] = @ + 1]
           /\ blind' = (blind \/ caps'.daily = Unset \/ caps'.monthly = Unset)
  <2>1. /\ flying["day"] \in Nat /\ flying["month"] \in Nat /\ flying["older"] \in Nat
        /\ flying'["day"] = flying["day"] + 1 /\ flying'["month"] = flying["month"]
        /\ flying'["older"] = flying["older"]
        /\ flying["day"] + flying["month"] + flying["older"] < MaxRequests
    BY <1>1, <1>4 DEF SpendInv, SpendTypeOK, Ages, InFlight
  <2>2. flying' \in [Ages -> 0..MaxRequests] /\ blind' \in BOOLEAN
    BY <1>4, <2>1, SpendAssumption DEF SpendInv, SpendTypeOK, Ages
  <2>3. SpendTypeOK' /\ CapsInv'
    BY <1>1, <1>2, <2>1, <2>2, SpendAssumption DEF SpendInv, SpendTypeOK, CapsInv, InFlight, settings
  <2>4. ASSUME ~blind'
        PROVE  spent.day < top.daily /\ spent.month < top.monthly
    <3>1. caps'.daily # Unset /\ caps'.monthly # Unset
      BY <1>4, <2>4
    <3>2. spent.day < caps'.daily /\ spent.month < caps'.monthly
      BY <1>4, <3>1 DEF Below
    <3>. QED
      <4>1. caps'.daily \in Int /\ caps'.monthly \in Int
        BY <1>2, EnteredIsInt
      <4>2. spent.day \in Int /\ spent.month \in Int
        BY DEF SpendInv, SpendTypeOK
      <4>. QED
        BY <1>2, <3>2, <4>1, <4>2, CapsAreInts DEF SpendInv
  <2>5. Overshoot'
    <3> SUFFICES ASSUME ~blind'
                 PROVE  /\ spent.day + flying'["day"] < Max({top.daily, 0}) + MaxRequests
                        /\ spent.month + flying'["day"] + flying'["month"]
                             < Max({top.monthly, 0}) + MaxRequests
      BY <1>1 DEF Overshoot
    <3>1. /\ top.daily \in Int /\ top.monthly \in Int
          /\ spent.day \in Nat /\ spent.month \in Nat
      BY CapsAreInts DEF SpendInv, SpendTypeOK
    <3>2. Max({top.daily, 0}) = top.daily /\ Max({top.monthly, 0}) = top.monthly
      BY <2>4, <3>1, MaxPair
    <3>. QED
      BY <2>1, <2>4, <3>1, <3>2, SpendAssumption
  <2>. QED
    BY <2>3, <2>5 DEF SpendInv
<1>. QED
  BY <1>3, <1>4 DEF Request

\* What a request cost moves from what is in flight to what was spent.
LEMMA RecordSpend == ASSUME SpendInv, NEW a \in Ages, Record(a) PROVE SpendInv'
<1> DEFINE more(n) == Min({n + 1, MaxSpend})
<1>1. /\ UNCHANGED <<settings, save, entries, dbUp, caps, blind, top, saves, days, dbOutages>>
      /\ flying[a] > 0 /\ flying' = [flying EXCEPT ![a] = @ - 1]
  BY DEF Record
<1>2. /\ spent'.day = IF a = "day" THEN more(spent.day) ELSE spent.day
      /\ spent'.month = IF a # "older" THEN more(spent.month) ELSE spent.month
      /\ spent' = [day |-> spent'.day, month |-> spent'.month]
  BY DEF Record
<1>3. \A n \in 0..MaxSpend : more(n) \in 0..MaxSpend /\ more(n) <= n + 1
  BY MinPair, SpendAssumption
<1> HIDE DEF more
<1>4. /\ spent.day \in 0..MaxSpend /\ spent.month \in 0..MaxSpend
      /\ flying \in [Ages -> 0..MaxRequests]
  BY DEF SpendInv, SpendTypeOK
<1>5. /\ spent' \in [day : 0..MaxSpend, month : 0..MaxSpend]
      /\ flying' \in [Ages -> 0..MaxRequests]
  BY <1>1, <1>2, <1>3, <1>4, SpendAssumption DEF Ages
<1>6. SpendTypeOK' /\ CapsInv'
  BY <1>1, <1>4, <1>5, SpendAssumption DEF SpendInv, SpendTypeOK, CapsInv, InFlight, settings, Ages
<1>7. /\ spent'.day + flying'["day"] <= spent.day + flying["day"]
      /\ spent'.month + flying'["day"] + flying'["month"]
           <= spent.month + flying["day"] + flying["month"]
  BY <1>1, <1>2, <1>3, <1>4, SpendAssumption DEF Ages
<1>8. Overshoot'
  <2>1. Max({top.daily, 0}) \in Int /\ Max({top.monthly, 0}) \in Int
    BY CapsAreInts DEF SpendInv
  <2>. QED
    BY <1>1, <1>4, <1>5, <1>7, <2>1, SpendAssumption DEF SpendInv, Overshoot, Ages
<1>. QED
  BY <1>6, <1>8 DEF SpendInv

LEMMA MidnightSpend == ASSUME SpendInv, NEW b \in BOOLEAN, Midnight(b) PROVE SpendInv'
<1>1. /\ UNCHANGED <<settings, save, entries, dbUp, caps, blind, top, saves, dbOutages>>
      /\ days' \in 0..MaxDays /\ spent' = [day |-> 0, month |-> IF b THEN 0 ELSE spent.month]
  BY SpendAssumption DEF Midnight, SpendInv, SpendTypeOK
<1>2. /\ flying["day"] \in Nat /\ flying["month"] \in Nat /\ flying["older"] \in Nat
      /\ flying["day"] + flying["month"] + flying["older"] <= MaxRequests
      /\ spent.month \in 0..MaxSpend
  BY DEF SpendInv, SpendTypeOK, CapsInv, InFlight, Ages
<1>3. /\ flying'["day"] = 0
      /\ b => flying'["month"] = 0 /\ flying'["older"] = InFlight
      /\ ~b => /\ flying'["month"] = flying["month"] + flying["day"]
               /\ flying'["older"] = flying["older"]
  BY <1>2 DEF Midnight, SpendInv, SpendTypeOK, Ages
<1>4. flying' \in [Ages -> 0..MaxRequests]
  <2>1. flying' = [x \in Ages |-> flying'[x]]
    BY DEF Midnight, SpendInv, SpendTypeOK
  <2>2. \A x \in Ages : flying'[x] \in 0..MaxRequests
    BY <1>2, <1>3, SpendAssumption DEF InFlight, Ages
  <2>. QED
    BY <2>1, <2>2
<1>5. SpendTypeOK' /\ CapsInv'
  BY <1>1, <1>2, <1>3, <1>4, SpendAssumption
  DEF SpendInv, SpendTypeOK, CapsInv, InFlight, settings
<1>6. Overshoot'
  <2>1. Max({top.daily, 0}) \in Nat /\ Max({top.monthly, 0}) \in Nat
    BY CapsAreInts DEF SpendInv
  <2>2. spent'.day = 0 /\ spent'.month = IF b THEN 0 ELSE spent.month
    BY <1>1
  <2>3. blind' = blind /\ top' = top
    BY <1>1
  <2>4. CASE b
    BY <1>3, <2>1, <2>2, <2>3, <2>4, SpendAssumption DEF Overshoot
  <2>5. CASE ~b
    BY <1>2, <1>3, <2>1, <2>2, <2>3, <2>5, SpendAssumption DEF SpendInv, Overshoot
  <2>. QED
    BY <2>4, <2>5
<1>. QED
  BY <1>5, <1>6 DEF SpendInv

LEMMA OtherSpend ==
    ASSUME SpendInv,
           \/ Publish \/ RequestNoSpend \/ Expire
           \/ \E b \in BOOLEAN : AppDatabase(b)
    PROVE  SpendInv'
<1>1. CASE RequestNoSpend
  BY <1>1, GetCapsBelowTop
  DEF RequestNoSpend, SpendInv, SpendTypeOK, CapsInv, Overshoot, InFlight, settings
<1>2. CASE Expire
  BY <1>2 DEF Expire, SpendInv, SpendTypeOK, CapsInv, Overshoot, InFlight, settings
<1>3. CASE Publish \/ \E b \in BOOLEAN : AppDatabase(b)
  <2>1. UNCHANGED <<settings, save, caps, spent, flying, blind, top, saves, days>>
    BY <1>3 DEF Publish, AppDatabase, guard
  <2>2. entries' \in BOOLEAN /\ dbUp' \in BOOLEAN /\ dbOutages' \in 0..MaxDbOutages
    <3>1. SpendTypeOK
      BY DEF SpendInv
    <3>2. CASE Publish
      BY <3>1, <3>2 DEF Publish, guard, SpendTypeOK
    <3>3. ASSUME NEW b \in BOOLEAN, AppDatabase(b)
          PROVE  entries' \in BOOLEAN /\ dbUp' \in BOOLEAN /\ dbOutages' \in 0..MaxDbOutages
      BY <3>1, <3>3, SpendAssumption DEF AppDatabase, SpendTypeOK
    <3>. QED
      BY <1>3, <3>2, <3>3
  <2>. QED
    BY <2>1, <2>2 DEF SpendInv, SpendTypeOK, CapsInv, Overshoot, InFlight, settings
<1>. QED
  BY <1>1, <1>2, <1>3

LEMMA SpendInvariant == SpendSpec => []SpendInv
<1>1. SpendInv /\ [SpendNext]_spendVars => SpendInv'
  <2> SUFFICES ASSUME SpendInv, [SpendNext]_spendVars PROVE SpendInv'
    OBVIOUS
  <2>1. CASE UNCHANGED spendVars
    BY <2>1 DEF spendVars, settings, guard, SpendInv, SpendTypeOK, CapsInv, Overshoot, InFlight
  <2>. QED
    BY <2>1, ConsoleSpend, RequestSpend, RecordSpend, MidnightSpend, OtherSpend DEF SpendNext
<1>. QED
  BY <1>1, InitSpend, PTL DEF SpendSpec

\* Settings, cached caps, spend and requests in flight keep their types.
THEOREM SpendTypeCorrect == SpendSpec => []SpendTypeOK
<1>1. SpendInv => SpendTypeOK
  BY DEF SpendInv
<1>. QED
  BY <1>1, SpendInvariant, PTL

\* For any amounts, any number of requests and however caps are saved, cached and
\* expire: unless a request passed without caps, the spend of the day and of the
\* month, with all that is in flight, passes the highest cap ever saved by less than
\* the requests that may be in flight together.
THEOREM OvershootBounded == SpendSpec => []Overshoot
<1>1. SpendInv => Overshoot
  BY DEF SpendInv
<1>. QED
  BY <1>1, SpendInvariant, PTL
============================================================================
