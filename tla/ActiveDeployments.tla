-------------------------- MODULE ActiveDeployments --------------------------
(***************************************************************************)
(* Which guest is the active one on a physical host: one row of            *)
(* active_hosts, and the cache each process keeps of it for Ttl.  The rows *)
(* of different physical hosts do not touch each other.                    *)
(*                                                                         *)
(* Readers are threads: the console's pages are handlers that run in a     *)
(* thread pool, several at once in each worker.  A promotion runs in the   *)
(* event loop of one worker and clears that worker's cache only.           *)
(***************************************************************************)
EXTENDS Integers, FiniteSets

CONSTANTS
    Ips,            \* the guests of the physical host
    None,           \* no row, or none that could be read
    Workers, Threads,
    Ttl,            \* _CACHE_TTL_S
    MaxTime,        \* bound on the time
    MaxWrites       \* bound on promotions, and on outages

ASSUME ActiveAssumption == Ttl \in Nat \ {0} /\ MaxTime \in Nat /\ MaxWrites \in Nat

VARIABLES
    now, row,
    up,             \* the database can be reached
    cache,          \* _CACHE of each worker
    call,           \* the read each reader is in
    promote,        \* the promotion each worker is in
    got,            \* what each reader's last read returned
    had,            \* history: what a query could have returned, at each time
    writes, outages

vars == <<now, row, up, cache, call, promote, got, had, writes, outages>>

Readers == Workers \X Threads
Values  == Ips \cup {None}
Empty   == [ip |-> None, at |-> -Ttl]     \* as good as one that is too old
NoCall  == [pc |-> "idle", ip |-> None, at |-> -1]

TypeOK ==
    /\ now \in 0..MaxTime /\ row \in Values /\ up \in BOOLEAN
    /\ cache \in [Workers -> [ip : Values, at : {-Ttl} \cup 0..now]]
    /\ call \in [Readers -> [pc : {"idle", "look", "query", "store"}, ip : Values,
                             at : -1..now]]
    /\ promote \in [Workers -> {"idle", "clear"}]
    /\ got \in [Readers -> Values]
    /\ had \in [0..now -> SUBSET Values]
    /\ writes \in 0..MaxWrites /\ outages \in 0..MaxWrites

Init ==
    /\ now = 0 /\ row = None /\ up = TRUE
    /\ cache = [w \in Workers |-> Empty]
    /\ call = [r \in Readers |-> NoCall]
    /\ promote = [w \in Workers |-> "idle"]
    /\ got = [r \in Readers |-> None]
    /\ had = [t \in {0} |-> {None}]
    /\ writes = 0 /\ outages = 0

\* What a query returns at this moment; active_ip_for's fallback is None.
Visible(v, reachable) == IF reachable THEN v ELSE None

---------------------------------------------------------------------------
(* active_ip_for *)

\* The time is taken first.
Begin(r) ==
    /\ call[r].pc = "idle"
    /\ call' = [call EXCEPT ![r] = [pc |-> "look", ip |-> None, at |-> now]]
    /\ UNCHANGED <<now, row, up, cache, promote, got, had, writes, outages>>

Return(r, v) ==
    /\ got' = [got EXCEPT ![r] = v]
    /\ call' = [call EXCEPT ![r] = NoCall]

\* Under the lock: an entry that is young enough is the answer.
Look(r) ==
    /\ call[r].pc = "look"
    /\ LET hit == cache[r[1]] IN
         IF call[r].at - hit.at < Ttl THEN Return(r, hit.ip)
         ELSE call' = [call EXCEPT ![r].pc = "query"] /\ UNCHANGED got
    /\ UNCHANGED <<now, row, up, cache, promote, had, writes, outages>>

Query(r) ==
    /\ call[r].pc = "query"
    /\ call' = [call EXCEPT ![r].pc = "store", ![r].ip = Visible(row, up)]
    /\ UNCHANGED <<now, row, up, cache, promote, got, had, writes, outages>>

\* Fault: the entry gets the time at which it is stored.
StoreNow(r) ==
    /\ call[r].pc = "store"
    /\ cache' = [cache EXCEPT ![r[1]] = [ip |-> call[r].ip, at |-> now]]
    /\ Return(r, call[r].ip)
    /\ UNCHANGED <<now, row, up, promote, had, writes, outages>>

\* The entry gets the time at which the read began, and replaces a younger one.
Store(r) ==
    /\ call[r].pc = "store"
    /\ cache' = [cache EXCEPT ![r[1]] = [ip |-> call[r].ip, at |-> call[r].at]]
    /\ Return(r, call[r].ip)
    /\ UNCHANGED <<now, row, up, promote, had, writes, outages>>

---------------------------------------------------------------------------
(* set_active_deployment, and the world *)

\* set_active: the row is committed, then the worker's own entry is removed.
SetActive(w, ip) ==
    /\ promote[w] = "idle" /\ up /\ writes < MaxWrites
    /\ row' = ip
    /\ had' = [had EXCEPT ![now] = @ \cup {ip}]
    /\ promote' = [promote EXCEPT ![w] = "clear"]
    /\ writes' = writes + 1
    /\ UNCHANGED <<now, up, cache, call, got, outages>>

ClearCache(w) ==
    /\ promote[w] = "clear"
    /\ cache' = [cache EXCEPT ![w] = Empty]
    /\ promote' = [promote EXCEPT ![w] = "idle"]
    /\ UNCHANGED <<now, row, up, call, got, had, writes, outages>>

Database(reachable) ==
    /\ up # reachable /\ up' = reachable
    /\ had' = [had EXCEPT ![now] = @ \cup {Visible(row, reachable)}]
    /\ IF reachable THEN UNCHANGED outages
       ELSE outages < MaxWrites /\ outages' = outages + 1
    /\ UNCHANGED <<now, row, cache, call, promote, got, writes>>

Tick ==
    /\ now < MaxTime /\ now' = now + 1
    /\ had' = [t \in 0..now' |-> IF t = now' THEN {Visible(row, up)} ELSE had[t]]
    /\ UNCHANGED <<row, up, cache, call, promote, got, writes, outages>>

Next ==
    \/ \E r \in Readers : Begin(r) \/ Look(r) \/ Query(r) \/ Store(r)
    \/ \E w \in Workers : ClearCache(w) \/ \E ip \in Ips : SetActive(w, ip)
    \/ \E b \in BOOLEAN : Database(b)
    \/ Tick

Spec == Init /\ [][Next]_vars

---------------------------------------------------------------------------
(* Properties *)

began == [r \in Readers |-> call[r].at]

Register == INSTANCE StaleRegister

\* active_ip_for returns what a query could have returned since Ttl before the
\* call: a thread that stores what it read before a promotion cleared the cache
\* (active_ip_for against set_active) delays the news, but never past the time
\* an entry lives.
ReadsAreRecent == Register!Spec
=============================================================================
