---------------------------- MODULE GpuRetention ----------------------------
(***************************************************************************)
(* GPU telemetry: raw samples, their hourly aggregates, and the commands   *)
(* of gpu_retention.py that make the aggregates and delete the samples.    *)
(*                                                                         *)
(* Time is in half hours; a sample is the tick it was taken at (of one GPU *)
(* of one host: the others are grouped apart), and an aggregate is the set *)
(* of samples it was computed from.  Each command is a process of its own, *)
(* so they overlap; each statement is a transaction.                       *)
(***************************************************************************)
EXTENDS Integers, FiniteSetsExt

CONSTANTS
    MaxTicks,        \* bound on the time
    Window,         \* ticks an incremental rollup goes back
    Chunk,          \* ticks of a backfill's chunk
    Batch,          \* samples of a delete
    RawKept,        \* raw retention, and
    HourlyKept,     \* hourly retention, in ticks
    MaxGap,         \* ticks from one run of the maintenance timer to the next
    MaxFill,        \* ticks a backfill takes
    Legacy,         \* samples there are before the first rollup runs
    Careless        \* operators prune after a backfill that was interrupted, or
                    \* backfill beside or after a prune

ASSUME GpuAssumption ==
    /\ {MaxTicks, Window, Chunk, Batch, RawKept, HourlyKept, MaxGap, MaxFill, Legacy}
         \subseteq Nat
    /\ Legacy <= MaxTicks
    /\ Careless \in BOOLEAN

VARIABLES
    tick,           \* the time
    raw,            \* gpu_samples
    hourly,         \* gpu_samples_hourly: for each hour, {} for no row
    backup,         \* gpu_retention_backup_verified_at is set
    fill,           \* the backfill that runs: since when, where it is and ends
    prune,          \* the prune that runs: its cutoff; -1 for none
    broken,         \* the last backfill was interrupted
    tidy,           \* maintenance has done its rollup, not yet its delete
    rolledAt,       \* when an incremental rollup ran last
    pruned          \* history: samples a prune has deleted

gpuVars == <<tick, raw, hourly, backup, fill, prune, broken, tidy, rolledAt, pruned>>

Hour(t) == t \div 2
HourStart(h) == 2 * h              \* an hour's first tick
Hours    == 0..Hour(MaxTicks)
Rolled   == {h \in Hours : hourly[h] # {}}
NoFill   == [since |-> 0, at |-> 0, end |-> -1]

GpuTypeOK ==
    /\ tick \in 0..MaxTicks /\ rolledAt \in 0..tick /\ prune \in -1..tick
    /\ raw \subseteq 0..tick /\ pruned \subseteq 0..tick
    /\ hourly \in [Hours -> SUBSET (0..tick)]
    /\ {backup, broken} \subseteq BOOLEAN /\ tidy \in BOOLEAN
    /\ fill \in [since : 0..tick, at : 0..tick + 1, end : -1..tick]

GpuInit ==
    /\ tick = Legacy /\ raw = 0..Legacy /\ hourly = [h \in Hours |-> {}]
    /\ backup = FALSE /\ fill = NoFill /\ prune = -1
    /\ broken = FALSE /\ tidy = FALSE /\ rolledAt = Legacy /\ pruned = {}

\* The collector's samples; it may be down.  The time is also that of the timer.
Sample(sampled) ==
    /\ tick < MaxTicks /\ tick - rolledAt < MaxGap
    /\ fill # NoFill => tick - fill.since < MaxFill
    /\ tick' = tick + 1
    /\ raw' = IF sampled THEN raw \cup {tick'} ELSE raw
    /\ UNCHANGED <<hourly, backup, fill, prune, broken, tidy, rolledAt, pruned>>

---------------------------------------------------------------------------
(* The aggregates *)

\* _rollup_window: the hours with a sample in the window are computed anew, from
\* the samples in the window.
RollupWindow(since, until) ==
    hourly' = [h \in Hours |->
        LET s == {t \in raw : since <= t /\ t < until /\ Hour(t) = h}
        IN IF s = {} THEN hourly[h] ELSE s]

\* cmd_rollup, the first part of maintenance: from the start of an hour.
Rollup ==
    /\ ~tidy
    /\ RollupWindow(HourStart(Hour(tick - Window)), tick + 1)
    /\ tidy' = TRUE /\ rolledAt' = tick
    /\ UNCHANGED <<tick, raw, backup, fill, prune, broken, pruned>>

\* The rest of cmd_maintenance: aggregates past the hourly retention go.
HourlyRetention ==
    /\ tidy
    /\ hourly' = [h \in Hours |-> IF HourStart(h) < tick - HourlyKept THEN {} ELSE hourly[h]]
    /\ tidy' = FALSE
    /\ UNCHANGED <<tick, raw, backup, fill, prune, broken, rolledAt, pruned>>

\* cmd_backfill: over the samples there are, or from the first aggregate.
StartBackfill ==
    /\ fill = NoFill /\ raw # {}
    /\ Careless \/ (pruned = {} /\ prune = -1)
    /\ LET from == Min({Min(raw)} \cup {HourStart(h) : h \in Rolled}) IN
         fill' = IF from < Max(raw) THEN [since |-> tick, at |-> from, end |-> Max(raw)]
                 ELSE NoFill
    /\ UNCHANGED <<tick, raw, hourly, backup, prune, broken, tidy, rolledAt, pruned>>

\* A chunk ends at an hour, but for the last one.  A chunk's end never meets the
\* last sample to the microsecond, so a tick both are in counts as before it.
BackfillChunk ==
    /\ fill # NoFill
    /\ LET most == Min({fill.at + Chunk, fill.end + 1})
           next == IF most <= fill.end THEN HourStart(Hour(most)) ELSE most
       IN /\ RollupWindow(fill.at, next)
          /\ fill' = IF next <= fill.end THEN [fill EXCEPT !.at = next] ELSE NoFill
          /\ broken' = (broken /\ next <= fill.end)
    /\ UNCHANGED <<tick, raw, backup, prune, tidy, rolledAt, pruned>>

\* A backfill that is interrupted; the next one starts over.
StopBackfill ==
    /\ fill # NoFill
    /\ fill' = NoFill /\ broken' = TRUE
    /\ UNCHANGED <<tick, raw, hourly, backup, prune, tidy, rolledAt, pruned>>

---------------------------------------------------------------------------
(* The raw samples *)

VerifyBackup ==
    /\ ~backup /\ backup' = TRUE
    /\ UNCHANGED <<tick, raw, hourly, fill, prune, broken, tidy, rolledAt, pruned>>

\* Fault: one hour of aggregates opens the gate, wherever the samples start.
GateNotEmpty == Rolled # {} /\ backup

\* _prune_gates.
PruneGates ==
    /\ Rolled # {}
    /\ raw # {} => Min(raw) >= HourStart(Min(Rolled))
    /\ backup

\* cmd_prune: the gate, then the cutoff.
StartPrune ==
    /\ prune = -1 /\ PruneGates /\ tick >= RawKept
    /\ Careless \/ (fill = NoFill /\ ~broken)
    /\ prune' = tick - RawKept
    /\ UNCHANGED <<tick, raw, hourly, backup, fill, broken, tidy, rolledAt, pruned>>

Candidates == {t \in raw : t < prune}

\* The Batch oldest candidates; a batch without any is the last one.
PruneBatch ==
    /\ prune # -1
    /\ LET batch == {t \in Candidates : Cardinality({u \in Candidates : u < t}) < Batch} IN
         /\ raw' = raw \ batch /\ pruned' = pruned \cup batch
         /\ prune' = IF batch = {} THEN -1 ELSE prune
    /\ UNCHANGED <<tick, hourly, backup, fill, broken, tidy, rolledAt>>

StopPrune ==
    /\ prune # -1 /\ prune' = -1
    /\ UNCHANGED <<tick, raw, hourly, backup, fill, broken, tidy, rolledAt, pruned>>

GpuNext ==
    \/ \E b \in BOOLEAN : Sample(b)
    \/ Rollup \/ HourlyRetention
    \/ StartBackfill \/ BackfillChunk \/ StopBackfill
    \/ VerifyBackup \/ StartPrune \/ PruneBatch \/ StopPrune

\* Maintenance has a timer; the other commands are run by hand.
GpuSpec == GpuInit /\ [][GpuNext]_gpuVars /\ WF_gpuVars(Rollup \/ HourlyRetention)

---------------------------------------------------------------------------
(* Properties *)

\* cmd_verify, when it draws every hour: each closed hour's aggregate is that of
\* its samples.
Verified ==
    \A h \in Hours : h < Hour(tick) /\ (\E t \in raw : Hour(t) = h)
                       => hourly[h] = {t \in raw : Hour(t) = h}

\* A sample that was pruned lives on in its hour's aggregate until the hourly
\* retention takes that away, although the cutoff lies in the middle of an hour,
\* the deletes come in batches and rollups and retention run in between.  It needs
\* the timer in time, no backfill left halfway, a backfill that ends while rollups
\* still reach the hour it began in (its last window cuts that hour short), and no
\* backfill from the first prune on (it computes the hour of the cutoff anew from
\* what is left of it): cmd_prune, cmd_rollup, cmd_backfill.
PrunedIsKept ==
    \A t \in pruned : t \in hourly[Hour(t)] \/ HourStart(Hour(t)) < tick - HourlyKept

\* The first invariant in the header of gpu_retention.py: a prune starts only when
\* the rollup verifies against the raw samples (cmd_prune, _prune_gates).
PruneIsVerified == [][prune' > prune => Verified]_gpuVars
=============================================================================
