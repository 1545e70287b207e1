---------------------------- MODULE ExternalSpend ----------------------------
(***************************************************************************)
(* Spend at OpenRouter: the settings the console writes, litellm_sync      *)
(* publishing the OpenRouter deployments, and the guard that LiteLLM calls *)
(* before each request to one.                                             *)
(*                                                                         *)
(* A setting is one row of manager_settings and is committed by itself; a  *)
(* request costs one unit, recorded when it ends and counted on the day    *)
(* and in the month it began.                                              *)
(***************************************************************************)
EXTENDS Integers, FiniteSetsExt

CONSTANTS
    Amounts,        \* amounts an operator enters: naturals
    Consoles,       \* the web workers
    MaxRequests,    \* bound on requests in flight
    MaxSpend,       \* spend that is not told apart from more: above every cap
    MaxSaves,       \* bound on calls of the console
    MaxDays,        \* bound on midnights
    MaxDbOutages    \* bound on failures of the app database

ASSUME SpendAssumption ==
    /\ Amounts \subseteq Nat /\ MaxRequests \in Nat \ {0}
    /\ {MaxSpend, MaxSaves, MaxDays, MaxDbOutages} \subseteq Nat

Unset == -1         \* no row, or one that is no number: None.  A saved NaN is the
                    \* same to the gate and to the guard: every comparison is false

VARIABLES
    daily, monthly, warn,   \* the caps and the warning threshold in the database
    key,                    \* an API key is saved
    fallback,               \* openrouter.fallback_enabled
    save,                   \* the call of api_openrouter_set each worker runs
    entries,                \* LiteLLM has the OpenRouter deployments
    dbUp,                   \* the guard can read the settings
    caps,                   \* the guard's _caps_cache; known: it was read, not made up
    spent,                  \* recorded spend of today and of this month
    flying,                 \* requests in flight that began today, earlier this
                            \* month, and before it
    blind,                  \* a request passed while the guard had no caps
    top,                    \* the highest caps ever saved
    saves, days, dbOutages

settings  == <<daily, monthly, warn, key, fallback>>
guard     == <<dbUp, caps, spent, flying, blind, days, dbOutages>>
spendVars == <<settings, save, entries, guard, top, saves>>

NoCaps(a) == [daily |-> Unset, monthly |-> Unset, age |-> a, known |-> FALSE]
Entered == Amounts \cup {Unset}
Ages    == {"day", "month", "older"}
InFlight == flying["day"] + flying["month"] + flying["older"]

SpendTypeOK ==
    /\ {daily, monthly, warn, top.daily, top.monthly} \subseteq Entered
    /\ key \in BOOLEAN /\ fallback \in {"unset", "true", "false"}
    /\ save \in [Consoles -> 0..6]
    /\ entries \in BOOLEAN /\ dbUp \in BOOLEAN /\ blind \in BOOLEAN
    /\ caps \in [daily : Entered, monthly : Entered, age : {"none", "fresh", "old"},
                 known : BOOLEAN]
    /\ spent \in [day : 0..MaxSpend, month : 0..MaxSpend]
    /\ flying \in [Ages -> 0..MaxRequests]
    /\ saves \in 0..MaxSaves /\ days \in 0..MaxDays /\ dbOutages \in 0..MaxDbOutages

SpendInit ==
    /\ daily = Unset /\ monthly = Unset /\ warn = Unset
    /\ key = FALSE /\ fallback = "unset"
    /\ save = [w \in Consoles |-> 0]
    /\ entries = FALSE /\ dbUp = TRUE /\ blind = FALSE
    /\ caps = NoCaps("none")
    /\ spent = [day |-> 0, month |-> 0]
    /\ flying = [a \in Ages |-> 0]
    /\ top = [daily |-> Unset, monthly |-> Unset]
    /\ saves = 0 /\ days = 0 /\ dbOutages = 0

---------------------------------------------------------------------------
(* api_openrouter_set: the fields of the body in order, a commit for each.  *)
(* save[w] is the field that is next; what the body says of it is chosen    *)
(* when its turn comes.                                                     *)

Start(w) ==
    /\ save[w] = 0 /\ saves < MaxSaves
    /\ save' = [save EXCEPT ![w] = 1] /\ saves' = saves + 1
    /\ UNCHANGED <<settings, entries, guard, top>>

To(w, n) == save' = [save EXCEPT ![w] = n]

\* The body does not name the field.
Skip(w) ==
    /\ save[w] \in 1..5
    /\ To(w, IF save[w] = 5 THEN 0 ELSE save[w] + 1)
    /\ UNCHANGED <<settings, entries, guard, top, saves>>

\* A value that is refused ends the call; the fields before it stay saved.
Refuse(w) ==
    /\ save[w] \in 1..4
    /\ To(w, 0)
    /\ UNCHANGED <<settings, entries, guard, top, saves>>

SaveKey(w, k) ==
    /\ save[w] = 1 /\ To(w, 2)
    /\ key' = k
    /\ UNCHANGED <<daily, monthly, warn, fallback, entries, guard, top, saves>>

\* float() takes NaN, and v < 0 does not refuse it.
SaveAmount(w, v) ==
    /\ save[w] \in 2..4 /\ To(w, save[w] + 1)
    /\ daily'   = IF save[w] = 2 THEN v ELSE daily
    /\ monthly' = IF save[w] = 3 THEN v ELSE monthly
    /\ warn'    = IF save[w] = 4 THEN v ELSE warn
    /\ top' = [daily |-> Max({top.daily, daily'}), monthly |-> Max({top.monthly, monthly'})]
    /\ UNCHANGED <<key, fallback, entries, guard, saves>>

\* _fallback_state: the gate for turning the fallback on.
Configured == key /\ daily > 0 /\ monthly > 0 /\ warn > 0 /\ warn <= daily

\* The gate is read before the setting is written: a refusal ends the call.
Gate(w) ==
    /\ save[w] = 5
    /\ To(w, IF Configured THEN 6 ELSE 0)
    /\ UNCHANGED <<settings, entries, guard, top, saves>>

SaveFallback(w) ==
    /\ \/ save[w] = 6 /\ fallback' = "true"
       \/ save[w] = 5 /\ fallback' = "false"
    /\ To(w, 0)
    /\ UNCHANGED <<daily, monthly, warn, key, entries, guard, top, saves>>

\* litellm_sync, and LiteLLM loading the file when somebody restarts it (one step
\* here; CapStops needs neither): no setting counts as "true".
Publish ==
    /\ entries' = (fallback # "false")
    /\ UNCHANGED <<settings, save, guard, top, saves>>

---------------------------------------------------------------------------
(* The guard.  The hook never awaits: it is one step. *)

\* Fault: caps that were read once are never read again.
CapsReadOnce ==
    IF caps.age # "none" THEN caps
    ELSE IF dbUp THEN [daily |-> daily, monthly |-> monthly, age |-> "fresh", known |-> TRUE]
    ELSE NoCaps("fresh")

\* _get_caps: caps that cannot be read are no caps, and are kept like others.
GetCaps ==
    IF caps.age = "fresh" THEN caps
    ELSE IF dbUp THEN [daily |-> daily, monthly |-> monthly, age |-> "fresh", known |-> TRUE]
    ELSE NoCaps("fresh")

\* Fault: the request that reaches the cap is not the last one.
BelowOrAt(n, cap) == cap = Unset \/ n <= cap

Below(n, cap) == cap = Unset \/ n < cap

\* async_pre_call_deployment_hook, for a request to an OpenRouter deployment.
Request ==
    /\ entries /\ InFlight < MaxRequests
    /\ caps' = GetCaps
    /\ IF Below(spent.month, caps'.monthly) /\ Below(spent.day, caps'.daily)
       THEN /\ flying' = [flying EXCEPT !["day"] = @ + 1]
            /\ blind' = (blind \/ caps'.daily = Unset \/ caps'.monthly = Unset)
       ELSE UNCHANGED <<flying, blind>>
    /\ UNCHANGED <<settings, save, entries, dbUp, spent, top, saves, days, dbOutages>>

\* The spend cannot be read: the request is refused, but its caps are cached.
RequestNoSpend ==
    /\ entries
    /\ caps' = GetCaps
    /\ UNCHANGED <<settings, save, entries, dbUp, spent, flying, blind, top, saves,
                   days, dbOutages>>

\* The request ends and LiteLLM records what it cost.
Record(a) ==
    /\ flying[a] > 0
    /\ flying' = [flying EXCEPT ![a] = @ - 1]
    /\ LET more(n) == Min({n + 1, MaxSpend}) IN
         spent' = [day   |-> IF a = "day" THEN more(spent.day) ELSE spent.day,
                   month |-> IF a # "older" THEN more(spent.month) ELSE spent.month]
    /\ UNCHANGED <<settings, save, entries, dbUp, caps, blind, top, saves, days, dbOutages>>

\* CAPS_TTL is over.
Expire ==
    /\ caps.age = "fresh"
    /\ caps' = [caps EXCEPT !.age = "old"]
    /\ UNCHANGED <<settings, save, entries, dbUp, spent, flying, blind, top, saves,
                   days, dbOutages>>

Midnight(newMonth) ==
    /\ days < MaxDays /\ days' = days + 1
    /\ spent' = [day |-> 0, month |-> IF newMonth THEN 0 ELSE spent.month]
    /\ flying' = IF newMonth
                 THEN [a \in Ages |-> IF a = "older" THEN InFlight ELSE 0]
                 ELSE [flying EXCEPT !["day"] = 0, !["month"] = @ + flying["day"]]
    /\ UNCHANGED <<settings, save, entries, dbUp, caps, blind, top, saves, dbOutages>>

AppDatabase(up) ==
    /\ dbUp # up /\ dbUp' = up
    /\ IF up THEN UNCHANGED dbOutages
       ELSE dbOutages < MaxDbOutages /\ dbOutages' = dbOutages + 1
    /\ UNCHANGED <<settings, save, entries, caps, spent, flying, blind, top, saves, days>>

SpendNext ==
    \/ \E w \in Consoles :
         \/ Start(w) \/ Skip(w) \/ Refuse(w) \/ Gate(w) \/ SaveFallback(w)
         \/ \E k \in BOOLEAN : SaveKey(w, k)
         \/ \E v \in Entered : SaveAmount(w, v)
    \/ Publish \/ Request \/ RequestNoSpend \/ Expire
    \/ \E a \in Ages : Record(a)
    \/ \E b \in BOOLEAN : Midnight(b) \/ AppDatabase(b)

\* Requests end (request_timeout) and the cache's 30 s pass.
SpendFairness ==
    WF_spendVars(\E a \in Ages : Record(a)) /\ WF_spendVars(Expire)

SpendSpec == SpendInit /\ [][SpendNext]_spendVars /\ SpendFairness

---------------------------------------------------------------------------
(* Properties *)

\* The caps hold up to the requests that were in flight together: spend of a day,
\* with what is still being spent, passes the highest cap ever saved by less than
\* MaxRequests, as long as no request passed without caps (SpendGuard's hook reads
\* the spend before a request and LiteLLM records it after).
Overshoot ==
    ~blind => /\ spent.day + flying["day"] < Max({top.daily, 0}) + MaxRequests
              /\ spent.month + flying["day"] + flying["month"]
                   < Max({top.monthly, 0}) + MaxRequests

\* A cap an operator lowers takes effect: when the day's or the month's cap is
\* reached for good and the settings can be read, external requests stop, although
\* the guard may have cached older caps or none (_get_caps).
CapStops ==
    <>[](dbUp /\ \/ daily # Unset /\ spent.day >= daily
                 \/ monthly # Unset /\ spent.month >= monthly)
      => <>[](InFlight = 0)

\* What the header of spend_guard.py promises: while the caps cannot be read, a
\* request to OpenRouter is refused (_get_caps, async_pre_call_deployment_hook).
FailClosed == [][flying'["day"] > flying["day"] => caps'.known]_spendVars
=============================================================================
