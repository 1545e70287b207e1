------------------------------- MODULE Presets -------------------------------
(***************************************************************************)
(* The command presets of one host: rows of hosting_command_presets, shown *)
(* by sort_order and, where that is equal, by age.  Names are left out.    *)
(*                                                                         *)
(* Transactions are READ COMMITTED: a statement sees what was committed    *)
(* when it began, and an UPDATE waits for the lock of its row.             *)
(***************************************************************************)
EXTENDS Integers, Sequences, FiniteSetsExt, SequencesExt

CONSTANTS
    Contents,       \* unit files
    MaxPresets,     \* bound on rows
    Sessions,       \* requests served at once
    MaxOps,         \* bound on requests
    NoOne

ASSUME PresetAssumption ==
    /\ MaxPresets \in Nat /\ MaxOps \in Nat
    /\ NoOne \notin Sessions

VARIABLES
    preset,         \* the rows in order of creation: [content, order, deleted]
    lock,           \* the reorder that holds each row
    tx,             \* the request each session serves
    lastList,       \* history: the list of the reorder that was committed last
    since,          \* history: rows used since then
    ops

presetVars == <<preset, lock, tx, lastList, since, ops>>

Ids    == 1..MaxPresets
ActivePresets == {i \in DOMAIN preset : ~preset[i].deleted}
Rest   == [pc |-> "idle", id |-> 0, content |-> NoOne, top |-> 0, list |-> <<>>,
           at |-> 0, new |-> <<>>]

PresetTypeOK ==
    /\ Len(preset) <= MaxPresets
    /\ \A i \in DOMAIN preset :
         preset[i] \in [content : Contents, order : -MaxOps..MaxPresets, deleted : BOOLEAN]
    /\ lock \in [Ids -> Sessions \cup {NoOne}]
    /\ \A s \in Sessions : tx[s].pc \in {"idle", "import", "insert", "touch", "reorder"}
    /\ ToSet(lastList) \subseteq DOMAIN preset /\ since \subseteq DOMAIN preset
    /\ ops \in 0..MaxOps

PresetInit ==
    /\ preset = <<>> /\ lock = [i \in Ids |-> NoOne]
    /\ tx = [s \in Sessions |-> Rest]
    /\ lastList = <<>> /\ since = {} /\ ops = 0

\* The order before all others: what a preset that is used or new gets.
Top == Min({preset[i].order : i \in ActivePresets} \cup (IF ActivePresets = {} THEN {0} ELSE {})) - 1
Holding(c) == {i \in ActivePresets : preset[i].content = c}

NewRequest(s) == tx[s].pc = "idle" /\ ops < MaxOps /\ ops' = ops + 1
Done(s)    == tx' = [tx EXCEPT ![s] = Rest]
Enter(s, t) == tx' = [tx EXCEPT ![s] = t]

Add(c, n) ==
    preset' = Append(preset, [content |-> c, order |-> n, deleted |-> FALSE])

---------------------------------------------------------------------------
\* api_presets_list: on an empty list the host is asked for its unit file.
OpenEmpty(s) ==
    /\ NewRequest(s) /\ ActivePresets = {}
    /\ Enter(s, [Rest EXCEPT !.pc = "import"])
    /\ UNCHANGED <<preset, lock, lastList, since>>

\* ON CONFLICT DO NOTHING: the file may have been added meanwhile.
Import(s, c) ==
    /\ tx[s].pc = "import" /\ Len(preset) < MaxPresets
    /\ IF Holding(c) = {} THEN Add(c, 0) ELSE UNCHANGED preset
    /\ Done(s)
    /\ UNCHANGED <<lock, lastList, since, ops>>

\* The host does not answer, or not with a unit file.
ImportFails(s) ==
    /\ tx[s].pc = "import"
    /\ Done(s)
    /\ UNCHANGED <<preset, lock, lastList, since, ops>>

\* api_presets_create: a file that is there already is used instead.
Create(s, c) ==
    /\ NewRequest(s) /\ Len(preset) < MaxPresets
    /\ Enter(s, IF Holding(c) = {}
                THEN [Rest EXCEPT !.pc = "insert", !.content = c, !.top = Top]
                ELSE [Rest EXCEPT !.pc = "touch", !.id = Min(Holding(c)), !.top = Top])
    /\ UNCHANGED <<preset, lock, lastList, since>>

\* The unique index refuses a file that was added meanwhile.
InsertPreset(s) ==
    /\ tx[s].pc = "insert" /\ Len(preset) < MaxPresets
    /\ IF Holding(tx[s].content) = {}
       THEN Add(tx[s].content, tx[s].top) /\ since' = since \cup {Len(preset')}
       ELSE UNCHANGED <<preset, since>>
    /\ Done(s)
    /\ UNCHANGED <<lock, lastList, ops>>

\* api_presets_use; the UPDATE of _touch_preset has read the list.
Use(s, i) ==
    /\ NewRequest(s) /\ i \in ActivePresets
    /\ Enter(s, [Rest EXCEPT !.pc = "touch", !.id = i, !.top = Top])
    /\ UNCHANGED <<preset, lock, lastList, since>>

Touch(s) ==
    /\ tx[s].pc = "touch" /\ lock[tx[s].id] = NoOne
    /\ LET i == tx[s].id IN
         IF i \in ActivePresets THEN /\ preset' = [preset EXCEPT ![i].order = tx[s].top]
                              /\ since' = since \cup {i}
         ELSE UNCHANGED <<preset, since>>
    /\ Done(s)
    /\ UNCHANGED <<lock, lastList, ops>>

\* api_presets_delete.
Delete(s, i) ==
    /\ NewRequest(s) /\ i \in ActivePresets /\ lock[i] = NoOne
    /\ preset' = [preset EXCEPT ![i].deleted = TRUE]
    /\ UNCHANGED <<lock, tx, lastList, since>>

---------------------------------------------------------------------------
(* api_presets_reorder: one UPDATE for each entry, one commit *)

Reorder(s, list) ==
    /\ NewRequest(s)
    /\ Enter(s, [Rest EXCEPT !.pc = "reorder", !.list = list, !.at = 1,
                             !.new = [i \in DOMAIN preset |-> NoOne]])
    /\ UNCHANGED <<preset, lock, lastList, since>>

Entry(s) == tx[s].list[tx[s].at]
Ordering(s) == tx[s].pc = "reorder" /\ tx[s].at <= Len(tx[s].list)

\* Fault: every entry is committed by itself.
ReorderAlone(s) ==
    /\ Ordering(s) /\ lock[Entry(s)] \in {NoOne, s}
    /\ preset' = IF Entry(s) \in ActivePresets
                 THEN [preset EXCEPT ![Entry(s)].order = tx[s].at - 1] ELSE preset
    /\ Enter(s, [tx[s] EXCEPT !.at = @ + 1])
    /\ UNCHANGED <<lock, lastList, since, ops>>

\* A row that was deleted is no row to update.
ReorderRow(s) ==
    /\ Ordering(s) /\ lock[Entry(s)] \in {NoOne, s}
    /\ IF Entry(s) \in ActivePresets
       THEN /\ lock' = [lock EXCEPT ![Entry(s)] = s]
            /\ Enter(s, [tx[s] EXCEPT !.at = @ + 1, !.new[Entry(s)] = tx[s].at - 1])
       ELSE Enter(s, [tx[s] EXCEPT !.at = @ + 1]) /\ UNCHANGED lock
    /\ UNCHANGED <<preset, lastList, since, ops>>

ReleaseRows(s) == lock' = [i \in Ids |-> IF lock[i] = s THEN NoOne ELSE lock[i]]

ReorderCommit(s) ==
    /\ tx[s].pc = "reorder" /\ ~Ordering(s)
    /\ preset' = [i \in DOMAIN preset |->
                    IF lock[i] = s THEN [preset[i] EXCEPT !.order = tx[s].new[i]]
                    ELSE preset[i]]
    /\ lastList' = tx[s].list /\ since' = {}
    /\ ReleaseRows(s) /\ Done(s)
    /\ UNCHANGED ops

\* Two reorders wait for each other: PostgreSQL aborts one, the answer is a 500.
ReorderDeadlock(s) ==
    /\ \E t \in Sessions \ {s} : /\ Ordering(s) /\ Ordering(t)
                                 /\ lock[Entry(s)] = t /\ lock[Entry(t)] = s
    /\ ReleaseRows(s) /\ Done(s)
    /\ UNCHANGED <<preset, lastList, since, ops>>

PresetNext ==
    \E s \in Sessions :
        \/ OpenEmpty(s) \/ ImportFails(s) \/ InsertPreset(s) \/ Touch(s)
        \/ \E c \in Contents : Import(s, c) \/ Create(s, c)
        \/ \E i \in DOMAIN preset : Use(s, i) \/ Delete(s, i)
        \/ \E list \in SetToAllKPermutations(ActivePresets) : list # <<>> /\ Reorder(s, list)
        \/ ReorderRow(s) \/ ReorderCommit(s) \/ ReorderDeadlock(s)

PresetSpec == PresetInit /\ [][PresetNext]_presetVars

---------------------------------------------------------------------------
(* Properties *)

\* Reorders never mix: the presets a list named and nobody used since are in the
\* order of the list that was committed last, although two lists are written row
\* by row at the same time, beside uses, creations and deletions
\* (api_presets_reorder).
ListOrder ==
    \A j, k \in DOMAIN lastList :
        j < k /\ {lastList[j], lastList[k]} \subseteq ActivePresets \ since
          => preset[lastList[j]].order < preset[lastList[k]].order
=============================================================================
