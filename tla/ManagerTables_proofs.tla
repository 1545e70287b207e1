------------------------ MODULE ManagerTables_proofs ------------------------
(***************************************************************************)
(* Theorems about three parts of the LLM Manager that live in tables of    *)
(* their own, for every value of their constants:                          *)
(*                                                                         *)
(*   Presets       reorders that overlap never mix                         *)
(*   RdmaRing      pages that create each other's tables come up           *)
(*   GpuRetention  what a prune deletes lives on in the aggregates         *)
(***************************************************************************)
EXTENDS Presets, RdmaRing, GpuRetention, TLAPS, WellFoundedInduction, FiniteSetTheorems

---------------------------------------------------------------------------
(***************************************************************************)
(* Integers                                                                *)
(***************************************************************************)

\* A set of integers with a lower bound has a least member.
LEMMA MinInt ==
    ASSUME NEW S \in SUBSET Int, S # {}, NEW b \in Int, \A x \in S : b <= x
    PROVE  Min(S) \in S /\ \A x \in S : Min(S) <= x
<1> DEFINE Less == OpToRel(<, Nat)
           T == {x - b : x \in S}
<1>1. PICK y \in T : \A z \in T : <<z, y>> \notin Less
  <2>1. T \subseteq Nat /\ T # {}
    <3>1. \A x \in S : x - b \in Nat
      OBVIOUS
    <3>. QED
      BY <3>1
  <2>2. IsWellFoundedOn(Less, Nat)
    BY NatLessThanWellFounded DEF Less
  <2>. HIDE DEF Less, T
  <2>. QED
    BY <2>1, <2>2, WFMin
<1>2. PICK x \in S : y = x - b
  BY <1>1
<1>3. \A z \in S : x <= z
  <2> SUFFICES ASSUME NEW z \in S, z < x PROVE FALSE
    OBVIOUS
  <2>1. z - b \in T /\ z - b \in Nat /\ y \in Nat /\ z - b < y
    BY <1>2
  <2>2. <<z - b, y>> \in Less
    BY <2>1 DEF OpToRel
  <2>. QED
    BY <1>1, <2>1, <2>2
<1>. QED
  BY <1>2, <1>3 DEF Min

\* An upper bound gives a greatest member.
LEMMA MaxInt ==
    ASSUME NEW S \in SUBSET Int, S # {}, NEW b \in Int, \A x \in S : x <= b
    PROVE  Max(S) \in S /\ \A x \in S : x <= Max(S)
<1> DEFINE T == {0 - x : x \in S}
<1>1. T \in SUBSET Int /\ T # {} /\ 0 - b \in Int /\ \A y \in T : 0 - b <= y
  OBVIOUS
<1>2. Min(T) \in T /\ \A y \in T : Min(T) <= y
  <2>. HIDE DEF T
  <2>. QED
    BY <1>1, MinInt
<1>3. PICK x \in S : Min(T) = 0 - x
  BY <1>2
<1>4. \A z \in S : z <= x
  <2> SUFFICES ASSUME NEW z \in S PROVE z <= x
    OBVIOUS
  <2>1. 0 - z \in T
    OBVIOUS
  <2>2. 0 - x <= 0 - z
    BY <1>2, <1>3, <2>1
  <2>. QED
    BY <2>2
<1>. QED
  BY <1>4 DEF Max

---------------------------------------------------------------------------
(***************************************************************************)
(* Presets                                                                 *)
(***************************************************************************)

PresetRow == [content : Contents, order : Int, deleted : BOOLEAN]
Tx == [pc : {"idle", "import", "insert", "touch", "reorder"}, id : Nat,
       content : Contents \cup {NoOne}, top : Int, list : Seq(Ids), at : Nat,
       new : Seq(Int \cup {NoOne})]

ShapeInv ==
    /\ preset \in Seq(PresetRow) /\ Len(preset) <= MaxPresets
    /\ lock \in [Ids -> Sessions \cup {NoOne}]
    /\ tx \in [Sessions -> Tx]
    /\ lastList \in Seq(Ids) /\ ToSet(lastList) \subseteq DOMAIN preset
    /\ since \subseteq DOMAIN preset
    /\ ops \in 0..MaxOps

\* An order is lowered by one with each request at most.
OrderInv ==
    /\ \A i \in DOMAIN preset : preset[i].order \in (0 - ops)..MaxPresets
    /\ \A s \in Sessions : tx[s].top \in (0 - ops)..MaxPresets

\* What a request is about to write is a row, or belongs to one.
TouchInv ==
    \A s \in Sessions :
        /\ tx[s].pc = "insert" => tx[s].content \in Contents
        /\ tx[s].pc = "touch"  => tx[s].id \in DOMAIN preset

\* A reorder holds each row it has passed and will write its place in the list there,
\* unless the row was deleted before.
Writes(s, t) ==
    /\ t.at \in 1..Len(t.list) + 1 /\ Len(t.list) <= MaxPresets
    /\ Len(t.new) <= Len(preset)
    /\ \A j \in DOMAIN t.list : t.list[j] \in DOMAIN t.new
    /\ \A j, k \in DOMAIN t.list : j # k => t.list[j] # t.list[k]
    /\ \A j \in 1..t.at - 1 : \/ preset[t.list[j]].deleted
                              \/ lock[t.list[j]] = s /\ t.new[t.list[j]] = j - 1

WriteInv == \A s \in Sessions : tx[s].pc = "reorder" => Writes(s, tx[s])

\* Only a reorder holds rows, and only rows of its list.
HolderInv ==
    \A i \in Ids : lock[i] # NoOne =>
        /\ tx[lock[i]].pc = "reorder"
        /\ i \in DOMAIN tx[lock[i]].new
        /\ tx[lock[i]].new[i] \in 0..MaxPresets

PresetInv == ShapeInv /\ OrderInv /\ TouchInv /\ WriteInv /\ HolderInv /\ ListOrder

LEMMA InitPresets == PresetInit => PresetInv
<1> SUFFICES ASSUME PresetInit PROVE PresetInv
  OBVIOUS
<1> USE PresetAssumption DEF PresetInit
<1>1. Rest \in Tx /\ Rest.pc = "idle" /\ Rest.top = 0
  BY DEF Rest, Tx
<1>2. ShapeInv
  BY <1>1 DEF ShapeInv, ToSet
<1>3. OrderInv /\ TouchInv /\ WriteInv
  BY <1>1 DEF OrderInv, TouchInv, WriteInv
<1>4. HolderInv /\ ListOrder
  BY DEF HolderInv, ListOrder
<1>. QED
  BY <1>2, <1>3, <1>4 DEF PresetInv

\* What is put on top of the list.
LEMMA TopBound == ASSUME PresetInv PROVE Top \in (0 - ops - 1)..MaxPresets
<1> DEFINE S == {preset[i].order : i \in ActivePresets} \cup
                (IF ActivePresets = {} THEN {0} ELSE {})
<1>1. S \subseteq (0 - ops)..MaxPresets /\ S # {} /\ ops \in Nat
  <2>1. ops \in Nat /\ 0 \in (0 - ops)..MaxPresets
    BY PresetAssumption DEF PresetInv, ShapeInv
  <2>2. \A i \in ActivePresets : preset[i].order \in (0 - ops)..MaxPresets
    BY DEF PresetInv, OrderInv, ActivePresets
  <2>. QED
    BY <2>1, <2>2
<1>2. S \in SUBSET Int /\ (0 - ops) \in Int /\ \A x \in S : (0 - ops) <= x
  BY <1>1, PresetAssumption
<1>. HIDE DEF S
<1>3. Min(S) \in S
  BY <1>1, <1>2, MinInt
<1>4. Min(S) \in (0 - ops)..MaxPresets
  BY <1>1, <1>3
<1>5. Top = Min(S) - 1
  BY DEF Top, S
<1>. QED
  BY <1>1, <1>4, <1>5, PresetAssumption

\* The list of a reorder names presets, each once.
LEMMA ReorderLists ==
    ASSUME PresetInv, NEW list \in SetToAllKPermutations(ActivePresets)
    PROVE  /\ list \in Seq(Ids) /\ Len(list) <= MaxPresets
           /\ \A j \in DOMAIN list : list[j] \in DOMAIN preset
           /\ \A j, k \in DOMAIN list : j # k => list[j] # list[k]
<1>1. PICK a \in SUBSET ActivePresets : list \in SetToSeqs(a)
  BY DEF SetToAllKPermutations
<1>2. /\ preset \in Seq(PresetRow) /\ Len(preset) \in Nat /\ Len(preset) <= MaxPresets
      /\ DOMAIN preset = 1..Len(preset)
  BY DEF PresetInv, ShapeInv
<1>3. a \subseteq 1..Len(preset) /\ a \subseteq Ids
  BY <1>2, PresetAssumption DEF ActivePresets, Ids
<1>4. IsFiniteSet(1..Len(preset)) /\ Cardinality(1..Len(preset)) = Len(preset)
  BY <1>2, FS_Interval
<1>5. Cardinality(a) \in Nat /\ Cardinality(a) <= Len(preset)
  <2>1. IsFiniteSet(a) /\ Cardinality(a) <= Len(preset)
    BY <1>3, <1>4, FS_Subset
  <2>. QED
    BY <2>1, FS_CardinalityType
<1>6. /\ list \in [1..Cardinality(a) -> a]
      /\ \A i, j \in 1..Cardinality(a) : i # j => list[i] # list[j]
  BY <1>1 DEF SetToSeqs
<1>. DEFINE n == Cardinality(a)
<1>. HIDE DEF n
<1>7. n \in Nat /\ n <= Len(preset) /\ list \in [1..n -> a]
  BY <1>5, <1>6 DEF n
<1>8. list \in Seq(Ids) /\ Len(list) = n /\ DOMAIN list = 1..n
  <2>1. list \in [1..n -> Ids]
    BY <1>3, <1>7
  <2>. QED
    BY <1>7, <2>1
<1>9. \A i, j \in 1..n : i # j => list[i] # list[j]
  BY <1>6 DEF n
<1>10. \A j \in 1..n : list[j] \in DOMAIN preset
  BY <1>2, <1>3, <1>7
<1>. QED
  BY <1>2, <1>7, <1>8, <1>9, <1>10, PresetAssumption

\* A step that leaves the reorders and the rows they hold alone, and deletes no row's
\* mark of deletion, keeps what is known of reorders.
LEMMA ReordersKept ==
    ASSUME PresetInv, UNCHANGED lock, preset' \in Seq(PresetRow),
           Len(preset) <= Len(preset'),
           \A i \in DOMAIN preset : preset[i].deleted => preset'[i].deleted,
           \A t \in Sessions : \/ tx'[t] = tx[t]
                               \/ tx[t].pc # "reorder" /\ tx'[t].pc # "reorder"
    PROVE  WriteInv' /\ HolderInv'
<1>0. /\ preset \in Seq(PresetRow) /\ Len(preset) \in Nat /\ Len(preset') \in Nat
      /\ DOMAIN preset = 1..Len(preset)
      /\ \A t \in Sessions : tx[t] \in Tx
  BY DEF PresetInv, ShapeInv
<1>1. ASSUME NEW s \in Sessions, tx'[s].pc = "reorder"
      PROVE  Writes(s, tx[s])' /\ tx'[s] = tx[s]
  <2>1. tx'[s] = tx[s] /\ tx[s].pc = "reorder" /\ tx[s] \in Tx
    BY <1>0, <1>1
  <2>2. Writes(s, tx[s])
    BY <2>1 DEF PresetInv, WriteInv
  <2>3. tx[s].list \in Seq(Ids) /\ tx[s].new \in Seq(Int \cup {NoOne})
    BY <2>1 DEF Tx
  <2>4. ASSUME NEW j \in 1..tx[s].at - 1 PROVE tx[s].list[j] \in DOMAIN preset
    <3>1. j \in DOMAIN tx[s].list
      BY <2>2, <2>3 DEF Writes
    <3>2. tx[s].list[j] \in DOMAIN tx[s].new /\ Len(tx[s].new) <= Len(preset)
      BY <2>2, <3>1 DEF Writes
    <3>. QED
      BY <1>0, <2>3, <3>2
  <2>5. \A j \in 1..tx[s].at - 1 :
          \/ preset'[tx[s].list[j]].deleted
          \/ lock'[tx[s].list[j]] = s /\ tx[s].new[tx[s].list[j]] = j - 1
    BY <2>2, <2>4 DEF Writes
  <2>6. Len(tx[s].new) <= Len(preset')
    BY <1>0, <2>2, <2>3 DEF Writes
  <2>. QED
    BY <2>1, <2>2, <2>5, <2>6 DEF Writes
<1>2. HolderInv'
  <2> SUFFICES ASSUME NEW i \in Ids, lock[i] # NoOne
               PROVE  /\ tx'[lock[i]].pc = "reorder"
                      /\ i \in DOMAIN tx'[lock[i]].new
                      /\ tx'[lock[i]].new[i] \in 0..MaxPresets
    BY DEF HolderInv
  <2>1. lock[i] \in Sessions /\ tx[lock[i]].pc = "reorder"
    BY DEF PresetInv, ShapeInv, HolderInv
  <2>2. tx'[lock[i]] = tx[lock[i]]
    BY <2>1
  <2>. QED
    BY <2>2 DEF PresetInv, HolderInv
<1>. QED
  BY <1>1, <1>2 DEF WriteInv

\* A step that moves no row, but those it notes as used, keeps the order of the list.
LEMMA OrderKept ==
    ASSUME PresetInv, UNCHANGED lastList, preset' \in Seq(PresetRow),
           Len(preset) <= Len(preset'), since \subseteq since',
           \A i \in DOMAIN preset : /\ preset[i].deleted => preset'[i].deleted
                                    /\ \/ preset'[i].order = preset[i].order
                                       \/ i \in since'
    PROVE  ListOrder'
<1>1. /\ preset \in Seq(PresetRow) /\ Len(preset) \in Nat /\ Len(preset') \in Nat
      /\ DOMAIN preset = 1..Len(preset) /\ DOMAIN preset' = 1..Len(preset')
  BY DEF PresetInv, ShapeInv
<1> SUFFICES ASSUME NEW j \in DOMAIN lastList, NEW k \in DOMAIN lastList, j < k,
                    {lastList[j], lastList[k]} \subseteq ActivePresets' \ since'
             PROVE  preset'[lastList[j]].order < preset'[lastList[k]].order
  BY DEF ListOrder
<1>2. lastList[j] \in DOMAIN preset /\ lastList[k] \in DOMAIN preset
  BY DEF PresetInv, ShapeInv, ToSet
<1>3. {lastList[j], lastList[k]} \subseteq ActivePresets \ since
  BY <1>2 DEF ActivePresets
<1>4. preset[lastList[j]].order < preset[lastList[k]].order
  BY <1>3 DEF PresetInv, ListOrder
<1>5. preset'[lastList[j]].order = preset[lastList[j]].order
  BY <1>2
<1>6. preset'[lastList[k]].order = preset[lastList[k]].order
  BY <1>2
<1>. QED
  BY <1>4, <1>5, <1>6

LEMMA OrderRange ==
    ASSUME NEW a \in Int, NEW b \in Int, a <= b
    PROVE  \A n \in (0 - a)..MaxPresets : n \in (0 - b)..MaxPresets
  BY PresetAssumption

\* A request that is entered or ends, without writing a row.
LEMMA TxSet ==
    ASSUME PresetInv, NEW s \in Sessions, NEW t \in Tx, tx[s].pc # "reorder",
           tx' = [tx EXCEPT ![s] = t], t.pc # "reorder", t.top \in (0 - ops')..MaxPresets,
           t.pc = "insert" => t.content \in Contents,
           t.pc = "touch" => t.id \in DOMAIN preset,
           ops' \in ops..MaxOps, UNCHANGED <<preset, lock, lastList, since>>
    PROVE  PresetInv'
<1>0. ShapeInv /\ OrderInv /\ TouchInv /\ ListOrder /\ ops \in 0..MaxOps
  BY DEF PresetInv, ShapeInv
<1>1. \A u \in Sessions : tx'[u] = IF u = s THEN t ELSE tx[u]
  BY <1>0 DEF ShapeInv
<1>2. ShapeInv'
  BY <1>0, PresetAssumption DEF ShapeInv
<1>3. \A n \in (0 - ops)..MaxPresets : n \in (0 - ops')..MaxPresets
  <2>1. ops \in Int /\ ops' \in Int /\ ops <= ops'
    BY <1>0, PresetAssumption
  <2>. QED
    BY <2>1, OrderRange
<1>4. OrderInv' /\ TouchInv'
  BY <1>0, <1>1, <1>3 DEF OrderInv, TouchInv
<1>5. WriteInv' /\ HolderInv'
  <2>1. /\ preset' \in Seq(PresetRow) /\ Len(preset) <= Len(preset')
        /\ \A i \in DOMAIN preset : preset[i].deleted => preset'[i].deleted
    BY <1>0 DEF ShapeInv
  <2>. QED
    BY <1>1, <2>1, ReordersKept
<1>6. ListOrder'
  BY <1>0 DEF ListOrder, ActivePresets
<1>. QED
  BY <1>2, <1>4, <1>5, <1>6 DEF PresetInv

LEMMA RestTx == Rest \in Tx /\ Rest.pc = "idle" /\ Rest.top = 0
  BY DEF Rest, Tx

LEMMA EnterPresets ==
    ASSUME PresetInv, NEW s \in Sessions,
           \/ OpenEmpty(s) \/ ImportFails(s)
           \/ \E c \in Contents : Create(s, c)
           \/ \E i \in DOMAIN preset : Use(s, i)
    PROVE  PresetInv'
<1>0. /\ ops \in 0..MaxOps /\ Len(preset) \in Nat /\ DOMAIN preset = 1..Len(preset)
      /\ preset \in Seq(PresetRow) /\ tx[s] \in Tx
  BY DEF PresetInv, ShapeInv
<1>1. CASE OpenEmpty(s)
  <2>1. [Rest EXCEPT !.pc = "import"] \in Tx
    BY RestTx DEF Tx
  <2>2. /\ [Rest EXCEPT !.pc = "import"].pc = "import"
        /\ [Rest EXCEPT !.pc = "import"].top = 0
    BY DEF Rest
  <2>3. 0 \in (0 - ops')..MaxPresets /\ ops' \in ops..MaxOps /\ tx[s].pc = "idle"
    BY <1>0, <1>1, PresetAssumption DEF OpenEmpty, NewRequest
  <2>. QED
    BY <1>1, <2>1, <2>2, <2>3, TxSet DEF OpenEmpty, Enter
<1>2. CASE ImportFails(s)
  <2>1. 0 \in (0 - ops')..MaxPresets /\ ops' \in ops..MaxOps /\ tx[s].pc = "import"
    BY <1>0, <1>2, PresetAssumption DEF ImportFails
  <2>. QED
    BY <1>2, <2>1, RestTx, TxSet DEF ImportFails, Done
<1>3. ASSUME NEW i \in DOMAIN preset,
             tx' = [tx EXCEPT ![s] = [Rest EXCEPT !.pc = "touch", !.id = i, !.top = Top]],
             NewRequest(s), UNCHANGED <<preset, lock, lastList, since>>
      PROVE  PresetInv'
  <2> DEFINE t == [Rest EXCEPT !.pc = "touch", !.id = i, !.top = Top]
  <2>1. Top \in Int /\ Top \in (0 - ops')..MaxPresets /\ ops' \in ops..MaxOps /\ tx[s].pc = "idle"
    BY <1>0, <1>3, TopBound, PresetAssumption DEF NewRequest
  <2>2. i \in Nat
    BY <1>0
  <2>3. t \in Tx /\ t.pc = "touch" /\ t.id = i /\ t.top = Top
    BY <2>1, <2>2, RestTx DEF Tx
  <2>. QED
    BY <1>3, <2>1, <2>3, TxSet
<1>4. ASSUME NEW c \in Contents, Create(s, c)
      PROVE  PresetInv'
  <2>1. CASE Holding(c) = {}
    <3> DEFINE t == [Rest EXCEPT !.pc = "insert", !.content = c, !.top = Top]
    <3>0. NewRequest(s)
      BY <1>4 DEF Create
    <3>1. Top \in Int /\ Top \in (0 - ops')..MaxPresets /\ ops' \in ops..MaxOps /\ tx[s].pc = "idle"
      BY <1>0, <3>0, TopBound, PresetAssumption DEF NewRequest
    <3>2. t \in Tx /\ t.pc = "insert" /\ t.content = c /\ t.top = Top
      BY <1>0, <3>1, RestTx DEF Tx
    <3>. QED
      BY <1>4, <2>1, <3>1, <3>2, TxSet DEF Create, Enter
  <2>2. CASE Holding(c) # {}
    <3>1. Holding(c) \in SUBSET DOMAIN preset
      BY DEF Holding, ActivePresets
    <3>2. Holding(c) \in SUBSET Int /\ \A x \in Holding(c) : 0 <= x
      BY <1>0, <3>1
    <3>3. Min(Holding(c)) \in DOMAIN preset
      BY <2>2, <3>1, <3>2, MinInt
    <3>. QED
      BY <1>3, <1>4, <2>2, <3>3 DEF Create, Enter
  <2>. QED
    BY <2>1, <2>2
<1>. QED
  BY <1>1, <1>2, <1>3, <1>4 DEF Use, Enter

\* A request that writes rows without holding them: it moves only rows it notes.
LEMMA RowsSet ==
    ASSUME PresetInv, NEW s \in Sessions,
           tx' = tx \/ (Done(s) /\ tx[s].pc # "reorder"),
           UNCHANGED <<lock, lastList>>, ops' \in ops..MaxOps,
           preset' \in Seq(PresetRow), Len(preset) <= Len(preset'), Len(preset') <= MaxPresets,
           since \subseteq since', since' \subseteq DOMAIN preset',
           \A i \in DOMAIN preset' : preset'[i].order \in (0 - ops')..MaxPresets,
           \A i \in DOMAIN preset : /\ preset[i].deleted => preset'[i].deleted
                                    /\ \/ preset'[i].order = preset[i].order
                                       \/ i \in since'
    PROVE  PresetInv'
<1>0. ShapeInv /\ OrderInv /\ TouchInv /\ ops \in 0..MaxOps
  BY DEF PresetInv, ShapeInv
<1>1. \A u \in Sessions : tx'[u] = tx[u] \/ (tx'[u] = Rest /\ tx[u].pc # "reorder")
  BY <1>0 DEF ShapeInv, Done
<1>2. /\ DOMAIN preset \subseteq DOMAIN preset'
      /\ tx' \in [Sessions -> Tx] /\ ops' \in 0..MaxOps
  <2>1. Len(preset) \in Nat /\ Len(preset') \in Nat /\ preset \in Seq(PresetRow)
    BY <1>0 DEF ShapeInv
  <2>2. tx' \in [Sessions -> Tx]
    BY <1>0, RestTx DEF ShapeInv, Done
  <2>. QED
    BY <1>0, <2>1, <2>2, PresetAssumption
<1>3. ShapeInv'
  BY <1>0, <1>2 DEF ShapeInv
<1>4. OrderInv'
  <2>1. \A n \in (0 - ops)..MaxPresets : n \in (0 - ops')..MaxPresets
    <3>1. ops \in Int /\ ops' \in Int /\ ops <= ops'
      BY <1>0, PresetAssumption
    <3>. QED
      BY <3>1, OrderRange
  <2>2. 0 \in (0 - ops')..MaxPresets
    <3>1. \A n \in Nat : 0 \in (0 - n)..MaxPresets
      BY PresetAssumption
    <3>2. ops' \in Nat
      BY <1>2, PresetAssumption
    <3>. QED
      BY <3>1, <3>2
  <2>. QED
    BY <1>0, <1>1, <2>1, <2>2, RestTx DEF OrderInv
<1>5. TouchInv'
  BY <1>0, <1>1, <1>2, RestTx DEF TouchInv
<1>6. WriteInv' /\ HolderInv'
  BY <1>1, RestTx, ReordersKept
<1>7. ListOrder'
  BY OrderKept
<1>. QED
  BY <1>3, <1>4, <1>5, <1>6, <1>7 DEF PresetInv

\* A new row.
LEMMA RowAdded ==
    ASSUME PresetInv, NEW s \in Sessions, tx[s].pc # "reorder", Len(preset) < MaxPresets,
           NEW c \in Contents, NEW n \in (0 - ops)..MaxPresets, Add(c, n), Done(s),
           since \subseteq since', since' \subseteq since \cup {Len(preset')},
           UNCHANGED <<lock, lastList, ops>>
    PROVE  PresetInv'
<1> DEFINE r == [content |-> c, order |-> n, deleted |-> FALSE]
<1>0. /\ ops \in 0..MaxOps /\ preset \in Seq(PresetRow) /\ Len(preset) \in Nat
      /\ DOMAIN preset = 1..Len(preset) /\ since \subseteq DOMAIN preset
  BY DEF PresetInv, ShapeInv
<1>1. r \in PresetRow /\ r.order = n
  BY <1>0, PresetAssumption DEF PresetRow
<1>. HIDE DEF r
<1>2. preset' = Append(preset, r)
  BY DEF Add, r
<1>3. /\ preset' \in Seq(PresetRow) /\ Len(preset') = Len(preset) + 1
      /\ DOMAIN preset' = 1..Len(preset) + 1
      /\ \A i \in DOMAIN preset : preset'[i] = preset[i]
      /\ preset'[Len(preset) + 1] = r
  BY <1>0, <1>1, <1>2
<1>4. Len(preset') <= MaxPresets /\ since' \subseteq DOMAIN preset'
  BY <1>0, <1>3, PresetAssumption
<1>5. \A i \in DOMAIN preset' : preset'[i].order \in (0 - ops')..MaxPresets
  <2>1. \A i \in DOMAIN preset' : i \in DOMAIN preset \/ i = Len(preset) + 1
    BY <1>0, <1>3
  <2>. QED
    BY <1>1, <1>3, <2>1 DEF PresetInv, OrderInv
<1>6. ops' \in ops..MaxOps
  BY <1>0, PresetAssumption
<1>. QED
  BY <1>0, <1>3, <1>4, <1>5, <1>6, RowsSet

LEMMA AddPresets ==
    ASSUME PresetInv, NEW s \in Sessions,
           InsertPreset(s) \/ \E c \in Contents : Import(s, c)
    PROVE  PresetInv'
<1>0. /\ ops \in 0..MaxOps /\ ops \in ops..MaxOps /\ 0 \in (0 - ops)..MaxPresets
  BY PresetAssumption DEF PresetInv, ShapeInv
<1>1. ASSUME NEW c \in Contents, Import(s, c) PROVE PresetInv'
  <2>1. CASE Holding(c) = {}
    BY <1>0, <1>1, <2>1, RowAdded DEF Import
  <2>2. CASE Holding(c) # {}
    BY <1>0, <1>1, <2>2, TxSet, RestTx DEF Import, Done
  <2>. QED
    BY <2>1, <2>2
<1>2. CASE InsertPreset(s)
  <2>0. tx[s].content \in Contents /\ tx[s].top \in (0 - ops)..MaxPresets
    BY <1>2 DEF InsertPreset, PresetInv, TouchInv, OrderInv
  <2>1. CASE Holding(tx[s].content) = {}
    <3>1. /\ Add(tx[s].content, tx[s].top) /\ Done(s) /\ tx[s].pc # "reorder"
          /\ Len(preset) < MaxPresets /\ UNCHANGED <<lock, lastList, ops>>
          /\ since' = since \cup {Len(preset')}
      BY <1>2, <2>1 DEF InsertPreset
    <3>. QED
      BY <2>0, <3>1, RowAdded
  <2>2. CASE Holding(tx[s].content) # {}
    <3>1. /\ Done(s) /\ tx[s].pc # "reorder"
          /\ UNCHANGED <<preset, since, lock, lastList, ops>>
      BY <1>2, <2>2 DEF InsertPreset
    <3>. QED
      BY <1>0, <3>1, TxSet, RestTx DEF Done
  <2>. QED
    BY <2>1, <2>2
<1>. QED
  BY <1>1, <1>2

LEMMA UpdatePresets ==
    ASSUME PresetInv, NEW s \in Sessions,
           Touch(s) \/ \E i \in DOMAIN preset : Delete(s, i)
    PROVE  PresetInv'
<1>0. /\ ops \in 0..MaxOps /\ preset \in Seq(PresetRow) /\ Len(preset) \in Nat
      /\ DOMAIN preset = 1..Len(preset) /\ since \subseteq DOMAIN preset
      /\ Len(preset) <= MaxPresets /\ tx[s] \in Tx
      /\ \A i \in DOMAIN preset : preset[i] \in PresetRow
      /\ \A i \in DOMAIN preset : preset[i].order \in (0 - ops)..MaxPresets
  BY DEF PresetInv, ShapeInv, OrderInv
<1>1. ASSUME NEW i \in DOMAIN preset, NEW r \in PresetRow, preset' = [preset EXCEPT ![i] = r]
      PROVE  /\ preset' \in Seq(PresetRow) /\ Len(preset') = Len(preset)
             /\ DOMAIN preset' = DOMAIN preset
             /\ \A k \in DOMAIN preset : preset'[k] = IF k = i THEN r ELSE preset[k]
  BY <1>0, <1>1
<1>2. CASE Touch(s)
  <2> DEFINE i == tx[s].id
             r == [preset[i] EXCEPT !.order = tx[s].top]
  <2>0. tx[s].pc = "touch" /\ i \in DOMAIN preset /\ tx[s].top \in (0 - ops)..MaxPresets
    BY <1>2 DEF Touch, PresetInv, TouchInv, OrderInv
  <2>1. CASE i \in ActivePresets
    <3>1. preset' = [preset EXCEPT ![i] = r] /\ since' = since \cup {i}
          /\ Done(s) /\ UNCHANGED <<lock, lastList, ops>>
      BY <1>2, <2>1 DEF Touch
    <3>2. r \in PresetRow /\ r.order = tx[s].top /\ r.deleted = preset[i].deleted
      <4>1. preset[i] \in PresetRow /\ tx[s].top \in Int
        BY <1>0, <2>0, PresetAssumption
      <4>. QED
        BY <4>1 DEF PresetRow
    <3>. HIDE DEF r, i
    <3>3. /\ preset' \in Seq(PresetRow) /\ Len(preset') = Len(preset)
          /\ DOMAIN preset' = DOMAIN preset
          /\ \A k \in DOMAIN preset : preset'[k] = IF k = i THEN r ELSE preset[k]
      BY <1>1, <2>0, <3>1, <3>2
    <3>4. \A k \in DOMAIN preset' : preset'[k].order \in (0 - ops')..MaxPresets
      BY <1>0, <2>0, <3>1, <3>2, <3>3
    <3>5. \A k \in DOMAIN preset : /\ preset[k].deleted => preset'[k].deleted
                                   /\ preset'[k].order = preset[k].order \/ k \in since'
      BY <3>1, <3>2, <3>3
    <3>6. ops' \in ops..MaxOps /\ since' \subseteq DOMAIN preset' /\ since \subseteq since'
      BY <1>0, <2>0, <3>1, <3>3, PresetAssumption
    <3>. QED
      BY <1>0, <2>0, <3>1, <3>3, <3>4, <3>5, <3>6, RowsSet
  <2>2. CASE i \notin ActivePresets
    <3>1. 0 \in (0 - ops')..MaxPresets /\ ops' \in ops..MaxOps
      BY <1>0, <1>2, PresetAssumption DEF Touch
    <3>2. Done(s) /\ UNCHANGED <<preset, since, lock, lastList>>
      BY <1>2, <2>2 DEF Touch
    <3>. QED
      BY <2>0, <3>1, <3>2, TxSet, RestTx DEF Done
  <2>. QED
    BY <2>1, <2>2
<1>3. ASSUME NEW i \in DOMAIN preset, Delete(s, i) PROVE PresetInv'
  <2> DEFINE r == [preset[i] EXCEPT !.deleted = TRUE]
  <2>1. preset' = [preset EXCEPT ![i] = r] /\ UNCHANGED <<lock, tx, lastList, since>>
        /\ ops' = ops + 1 /\ ops < MaxOps
    BY <1>3 DEF Delete, NewRequest
  <2>2. r \in PresetRow /\ r.order = preset[i].order /\ r.deleted
    BY <1>0 DEF PresetRow
  <2>. HIDE DEF r
  <2>3. /\ preset' \in Seq(PresetRow) /\ Len(preset') = Len(preset)
        /\ DOMAIN preset' = DOMAIN preset
        /\ \A k \in DOMAIN preset : preset'[k] = IF k = i THEN r ELSE preset[k]
    BY <1>1, <2>1, <2>2
  <2>4. \A k \in DOMAIN preset : /\ preset[k].deleted => preset'[k].deleted
                                 /\ preset'[k].order = preset[k].order
    BY <2>2, <2>3
  <2>5. ops' \in ops..MaxOps /\ ops \in Int /\ ops' \in Int /\ ops <= ops'
    BY <1>0, <2>1, PresetAssumption
  <2>6. \A k \in DOMAIN preset' : preset'[k].order \in (0 - ops')..MaxPresets
    BY <1>0, <2>3, <2>4, <2>5, OrderRange
  <2>. QED
    BY <1>0, <2>1, <2>3, <2>4, <2>5, <2>6, RowsSet
<1>. QED
  BY <1>2, <1>3

---------------------------------------------------------------------------
LEMMA StartReorder ==
    ASSUME PresetInv, NEW s \in Sessions, NEW list \in SetToAllKPermutations(ActivePresets),
           Reorder(s, list)
    PROVE  PresetInv'
<1> DEFINE t == [Rest EXCEPT !.pc = "reorder", !.list = list, !.at = 1,
                             !.new = [i \in DOMAIN preset |-> NoOne]]
<1>0. /\ ShapeInv /\ OrderInv /\ TouchInv /\ WriteInv /\ HolderInv /\ ListOrder
      /\ ops \in 0..MaxOps /\ preset \in Seq(PresetRow) /\ Len(preset) \in Nat
      /\ DOMAIN preset = 1..Len(preset)
  BY DEF PresetInv, ShapeInv
<1>1. /\ tx[s].pc = "idle" /\ tx' = [tx EXCEPT ![s] = t] /\ ops < MaxOps /\ ops' = ops + 1
      /\ UNCHANGED <<preset, lock, lastList, since>>
  BY DEF Reorder, NewRequest, Enter
<1>2. /\ list \in Seq(Ids) /\ Len(list) <= MaxPresets
      /\ \A j \in DOMAIN list : list[j] \in DOMAIN preset
      /\ \A j, k \in DOMAIN list : j # k => list[j] # list[k]
  BY ReorderLists
<1>3. /\ [i \in DOMAIN preset |-> NoOne] \in Seq(Int \cup {NoOne})
      /\ Len([i \in DOMAIN preset |-> NoOne]) = Len(preset)
  BY <1>0
<1>4. /\ t \in Tx /\ t.pc = "reorder" /\ t.list = list /\ t.at = 1 /\ t.top = 0
      /\ t.new = [i \in DOMAIN preset |-> NoOne]
  BY <1>2, <1>3, RestTx DEF Tx
<1>. HIDE DEF t
<1>5. \A u \in Sessions : tx'[u] = IF u = s THEN t ELSE tx[u]
  BY <1>0, <1>1 DEF ShapeInv
<1>6. ShapeInv' /\ ListOrder'
  <2>1. tx' \in [Sessions -> Tx] /\ ops' \in 0..MaxOps
    BY <1>0, <1>1, <1>4, PresetAssumption DEF ShapeInv
  <2>2. ShapeInv'
    BY <1>0, <1>1, <2>1 DEF ShapeInv
  <2>. QED
    BY <1>0, <1>1, <2>2 DEF ListOrder, ActivePresets
<1>7. OrderInv'
  <2>1. ops \in Int /\ ops' \in Int /\ ops <= ops' /\ 0 \in (0 - ops')..MaxPresets
    BY <1>0, <1>1, PresetAssumption
  <2>. QED
    BY <1>0, <1>1, <1>4, <1>5, <2>1, OrderRange DEF OrderInv
<1>8. TouchInv'
  BY <1>0, <1>1, <1>4, <1>5 DEF TouchInv
<1>9. WriteInv'
  <2>1. Writes(s, t)
    BY <1>0, <1>2, <1>3, <1>4 DEF Writes
  <2>2. \A u \in Sessions : tx'[u].pc = "reorder" => Writes(u, tx'[u])
    BY <1>0, <1>5, <2>1 DEF WriteInv
  <2>3. ASSUME NEW u \in Sessions, Writes(u, tx'[u]) PROVE Writes(u, tx[u])'
    BY <1>1, <2>3 DEF Writes
  <2>. QED
    BY <2>2, <2>3 DEF WriteInv
<1>10. HolderInv'
  <2> SUFFICES ASSUME NEW i \in Ids, lock[i] # NoOne
               PROVE  /\ tx'[lock[i]].pc = "reorder"
                      /\ i \in DOMAIN tx'[lock[i]].new
                      /\ tx'[lock[i]].new[i] \in 0..MaxPresets
    BY <1>1 DEF HolderInv
  <2>1. lock[i] \in Sessions /\ lock[i] # s
    BY <1>0, <1>1 DEF ShapeInv, HolderInv
  <2>2. tx'[lock[i]] = tx[lock[i]]
    BY <1>5, <2>1
  <2>. QED
    BY <1>0, <2>2 DEF HolderInv
<1>. QED
  BY <1>6, <1>7, <1>8, <1>9, <1>10 DEF PresetInv

LEMMA StepReorder ==
    ASSUME PresetInv, NEW s \in Sessions, ReorderRow(s)
    PROVE  PresetInv'
<1> DEFINE e == Entry(s)
           n == tx[s].at
<1>0. /\ ShapeInv /\ OrderInv /\ TouchInv /\ WriteInv /\ HolderInv /\ ListOrder
      /\ ops \in 0..MaxOps /\ preset \in Seq(PresetRow) /\ Len(preset) \in Nat
      /\ DOMAIN preset = 1..Len(preset) /\ tx[s] \in Tx /\ Len(preset) <= MaxPresets
  BY DEF PresetInv, ShapeInv
<1>1. /\ tx[s].pc = "reorder" /\ n <= Len(tx[s].list) /\ lock[e] \in {NoOne, s}
      /\ UNCHANGED <<preset, lastList, since, ops>>
  BY DEF ReorderRow, Ordering
<1>2. Writes(s, tx[s])
  BY <1>0, <1>1 DEF WriteInv, Writes
<1>3. /\ tx[s].list \in Seq(Ids) /\ tx[s].new \in Seq(Int \cup {NoOne}) /\ n \in Nat
      /\ tx[s].top \in Int
  BY <1>0 DEF Tx
<1>4. n \in DOMAIN tx[s].list /\ n >= 1 /\ n - 1 \in 0..MaxPresets
  BY <1>1, <1>2, <1>3, PresetAssumption DEF Writes
<1>5. e = tx[s].list[n] /\ e \in DOMAIN tx[s].new /\ e \in DOMAIN preset /\ e \in Ids
  <2>1. e = tx[s].list[n]
    BY DEF Entry
  <2>2. e \in DOMAIN tx[s].new /\ Len(tx[s].new) <= Len(preset)
    BY <1>2, <1>4, <2>1 DEF Writes
  <2>3. e \in DOMAIN preset
    BY <1>0, <1>3, <2>2
  <2>. QED
    BY <1>0, <2>1, <2>2, <2>3, PresetAssumption DEF Ids
<1>. HIDE DEF e
<1>6. PICK t \in Tx :
        /\ tx' = [tx EXCEPT ![s] = t]
        /\ t.pc = "reorder" /\ t.top = tx[s].top /\ t.list = tx[s].list /\ t.at = n + 1
        /\ \/ /\ e \in ActivePresets /\ t.new = [tx[s].new EXCEPT ![e] = n - 1]
              /\ lock' = [lock EXCEPT ![e] = s]
           \/ e \notin ActivePresets /\ t.new = tx[s].new /\ UNCHANGED lock
  <2>1. CASE e \in ActivePresets
    <3> DEFINE t == [tx[s] EXCEPT !.at = n + 1, !.new = [tx[s].new EXCEPT ![e] = n - 1]]
    <3>1. tx' = [tx EXCEPT ![s] = t] /\ lock' = [lock EXCEPT ![e] = s]
      BY <2>1 DEF ReorderRow, Enter, e
    <3>2. [tx[s].new EXCEPT ![e] = n - 1] \in Seq(Int \cup {NoOne})
      BY <1>3, <1>4, <1>5
    <3>. DEFINE new == [tx[s].new EXCEPT ![e] = n - 1]
    <3>. HIDE DEF new
    <3>3. t = [tx[s] EXCEPT !.at = n + 1, !.new = new] /\ new \in Seq(Int \cup {NoOne})
      BY <3>2 DEF new
    <3>4. /\ t \in Tx /\ t.pc = "reorder" /\ t.top = tx[s].top /\ t.list = tx[s].list
          /\ t.at = n + 1 /\ t.new = new
      <4>1. n + 1 \in Nat
        BY <1>3
      <4>. HIDE DEF t, n
      <4>2. t \in Tx /\ t.pc = tx[s].pc /\ t.top = tx[s].top /\ t.list = tx[s].list
            /\ t.at = n + 1 /\ t.new = new
        BY <1>0, <3>3, <4>1 DEF Tx
      <4>. QED
        BY <1>1, <4>2
    <3>. QED
      BY <2>1, <3>1, <3>4 DEF new
  <2>2. CASE e \notin ActivePresets
    <3> DEFINE t == [tx[s] EXCEPT !.at = n + 1]
    <3>1. tx' = [tx EXCEPT ![s] = t] /\ UNCHANGED lock
      BY <2>2 DEF ReorderRow, Enter, e
    <3>2. /\ t \in Tx /\ t.pc = "reorder" /\ t.top = tx[s].top /\ t.list = tx[s].list
          /\ t.at = n + 1 /\ t.new = tx[s].new
      <4>1. n + 1 \in Nat
        BY <1>3
      <4>. HIDE DEF n
      <4>2. /\ t \in Tx /\ t.pc = tx[s].pc /\ t.top = tx[s].top /\ t.list = tx[s].list
            /\ t.at = n + 1 /\ t.new = tx[s].new
        BY <1>0, <4>1 DEF Tx
      <4>. QED
        BY <1>1, <4>2
    <3>. QED
      BY <2>2, <3>1, <3>2
  <2>. QED
    BY <2>1, <2>2
<1>7. \A u \in Sessions : tx'[u] = IF u = s THEN t ELSE tx[u]
  BY <1>0, <1>6 DEF ShapeInv
<1>8. \A i \in Ids : \/ lock'[i] = lock[i]
                     \/ i = e /\ lock'[i] = s /\ lock[i] \in {NoOne, s} /\ t.new[e] = n - 1
  BY <1>0, <1>1, <1>3, <1>5, <1>6 DEF ShapeInv
<1>9. /\ t.new \in Seq(Int \cup {NoOne}) /\ Len(t.new) = Len(tx[s].new)
      /\ DOMAIN t.new = DOMAIN tx[s].new
      /\ \A i \in DOMAIN t.new : i # e => t.new[i] = tx[s].new[i]
  BY <1>3, <1>6
<1>10. ShapeInv' /\ OrderInv' /\ TouchInv' /\ ListOrder'
  <2>1. ShapeInv'
    BY <1>0, <1>1, <1>5, <1>6 DEF ShapeInv
  <2>2. OrderInv' /\ TouchInv'
    BY <1>0, <1>1, <1>6, <1>7 DEF OrderInv, TouchInv
  <2>3. ListOrder'
    BY <1>0, <1>1 DEF ListOrder, ActivePresets
  <2>. QED
    BY <2>1, <2>2, <2>3
<1>11. Writes(s, t)'
  <2>1. /\ t.at \in 1..Len(t.list) + 1 /\ Len(t.list) <= MaxPresets
        /\ Len(t.new) <= Len(preset)
        /\ \A j \in DOMAIN t.list : t.list[j] \in DOMAIN t.new
        /\ \A j, k \in DOMAIN t.list : j # k => t.list[j] # t.list[k]
    <3>1. t.at \in 1..Len(t.list) + 1
      BY <1>1, <1>3, <1>4, <1>6
    <3>. QED
      BY <1>2, <1>6, <1>9, <3>1 DEF Writes
  <2>2. ASSUME NEW j \in 1..t.at - 1
        PROVE  preset[t.list[j]].deleted \/ (lock'[t.list[j]] = s /\ t.new[t.list[j]] = j - 1)
    <3>1. CASE j = n
      <4>1. e \in ActivePresets => lock'[e] = s /\ t.new[e] = n - 1
        BY <1>0, <1>3, <1>5, <1>6 DEF ShapeInv
      <4>2. e \notin ActivePresets => preset[e].deleted
        BY <1>5 DEF ActivePresets
      <4>. QED
        BY <1>5, <1>6, <3>1, <4>1, <4>2
    <3>2. CASE j # n
      <4>1. j \in 1..n - 1 /\ j \in DOMAIN tx[s].list
        BY <1>3, <1>4, <1>6, <3>2
      <4>2. tx[s].list[j] # e /\ tx[s].list[j] \in DOMAIN tx[s].new /\ tx[s].list[j] \in Ids
        BY <1>2, <1>3, <1>4, <1>5, <3>2, <4>1 DEF Writes
      <4>3. \/ preset[tx[s].list[j]].deleted
            \/ lock[tx[s].list[j]] = s /\ tx[s].new[tx[s].list[j]] = j - 1
        BY <1>2, <4>1 DEF Writes
      <4>4. lock'[tx[s].list[j]] = lock[tx[s].list[j]]
        BY <1>8, <4>2
      <4>5. t.new[tx[s].list[j]] = tx[s].new[tx[s].list[j]]
        BY <1>9, <4>2
      <4>. QED
        BY <1>6, <4>3, <4>4, <4>5
    <3>. QED
      BY <3>1, <3>2
  <2>. QED
    BY <1>1, <2>1, <2>2 DEF Writes
<1>12. WriteInv'
  <2> SUFFICES ASSUME NEW u \in Sessions, tx'[u].pc = "reorder" PROVE Writes(u, tx[u])'
    BY DEF WriteInv
  <2>1. CASE u = s
    <3>1. tx'[s] = t
      BY <1>7
    <3>. QED
      BY <1>11, <2>1, <3>1, Zenon DEF Writes
  <2>2. CASE u # s
    <3>1. tx'[u] = tx[u] /\ Writes(u, tx[u]) /\ tx[u] \in Tx
      BY <1>0, <1>7, <2>2 DEF WriteInv, ShapeInv
    <3>2. ASSUME NEW j \in 1..tx[u].at - 1, lock[tx[u].list[j]] = u
          PROVE  lock'[tx[u].list[j]] = u
      <4>1. tx[u].list \in Seq(Ids) /\ tx[u].list[j] \in Ids
        BY <3>1 DEF Tx, Writes
      <4>2. u # NoOne
        BY PresetAssumption
      <4>. QED
        BY <1>8, <2>2, <3>2, <4>1, <4>2
    <3>. QED
      BY <1>1, <3>1, <3>2 DEF Writes
  <2>. QED
    BY <2>1, <2>2
<1>13. HolderInv'
  <2> SUFFICES ASSUME NEW i \in Ids, lock'[i] # NoOne
               PROVE  /\ tx'[lock'[i]].pc = "reorder"
                      /\ i \in DOMAIN tx'[lock'[i]].new
                      /\ tx'[lock'[i]].new[i] \in 0..MaxPresets
    BY DEF HolderInv
  <2>1. CASE i = e /\ lock'[i] = s /\ t.new[e] = n - 1
    BY <1>4, <1>5, <1>6, <1>7, <1>9, <2>1
  <2>2. CASE lock'[i] = lock[i] /\ ~(i = e /\ lock'[i] = s /\ t.new[e] = n - 1)
    <3>1. /\ lock[i] \in Sessions /\ tx[lock[i]].pc = "reorder"
          /\ i \in DOMAIN tx[lock[i]].new /\ tx[lock[i]].new[i] \in 0..MaxPresets
      BY <1>0, <2>2 DEF ShapeInv, HolderInv
    <3>2. CASE lock[i] = s
      <4>1. tx'[s] = t /\ (i = e => t.new[e] = tx[s].new[e])
        BY <1>5, <1>6, <1>7, <2>2, <3>2
      <4>. QED
        BY <1>6, <1>9, <2>2, <3>1, <3>2, <4>1
    <3>3. CASE lock[i] # s
      BY <1>7, <2>2, <3>1, <3>3
    <3>. QED
      BY <3>2, <3>3
  <2>. QED
    BY <1>8, <2>1, <2>2
<1>. QED
  BY <1>10, <1>12, <1>13 DEF PresetInv

\* What is known of the other reorders, and of the rows, when one ends.
LEMMA EndReorder ==
    ASSUME PresetInv, NEW s \in Sessions, ReleaseRows(s), Done(s), UNCHANGED ops,
           preset' \in Seq(PresetRow), Len(preset') = Len(preset),
           \A i \in DOMAIN preset : /\ preset'[i].deleted = preset[i].deleted
                                    /\ preset'[i].order \in (0 - ops)..MaxPresets,
           lastList' \in Seq(Ids), ToSet(lastList') \subseteq DOMAIN preset,
           since' \subseteq since
    PROVE  ShapeInv' /\ OrderInv' /\ TouchInv' /\ WriteInv' /\ HolderInv'
<1>0. /\ ShapeInv /\ OrderInv /\ TouchInv /\ WriteInv /\ HolderInv
      /\ ops \in 0..MaxOps /\ preset \in Seq(PresetRow) /\ Len(preset) \in Nat
      /\ DOMAIN preset = 1..Len(preset) /\ DOMAIN preset' = 1..Len(preset)
  BY DEF PresetInv, ShapeInv
<1>1. \A u \in Sessions : tx'[u] = IF u = s THEN Rest ELSE tx[u]
  BY <1>0 DEF ShapeInv, Done
<1>2. \A i \in Ids : lock'[i] = IF lock[i] = s THEN NoOne ELSE lock[i]
  BY DEF ReleaseRows
<1>3. ShapeInv'
  <2>1. tx' \in [Sessions -> Tx]
    BY <1>0, RestTx DEF ShapeInv, Done
  <2>2. lock' \in [Ids -> Sessions \cup {NoOne}]
    BY <1>0 DEF ShapeInv, ReleaseRows
  <2>. QED
    BY <1>0, <2>1, <2>2 DEF ShapeInv
<1>4. OrderInv'
  <2>1. 0 \in (0 - ops)..MaxPresets
    BY <1>0, PresetAssumption
  <2>. QED
    BY <1>0, <1>1, <2>1, RestTx DEF OrderInv
<1>5. TouchInv'
  BY <1>0, <1>1, RestTx DEF TouchInv
<1>6. WriteInv'
  <2> SUFFICES ASSUME NEW u \in Sessions, tx'[u].pc = "reorder" PROVE Writes(u, tx[u])'
    BY DEF WriteInv
  <2>1. u # s /\ tx'[u] = tx[u] /\ Writes(u, tx[u]) /\ tx[u] \in Tx
    BY <1>0, <1>1, RestTx DEF WriteInv, ShapeInv
  <2>2. tx[u].list \in Seq(Ids) /\ tx[u].new \in Seq(Int \cup {NoOne})
    BY <2>1 DEF Tx
  <2>3. ASSUME NEW j \in 1..tx[u].at - 1
        PROVE  \/ preset'[tx[u].list[j]].deleted
               \/ lock'[tx[u].list[j]] = u /\ tx[u].new[tx[u].list[j]] = j - 1
    <3>1. j \in DOMAIN tx[u].list /\ tx[u].list[j] \in Ids
      BY <2>1, <2>2 DEF Writes
    <3>2. tx[u].list[j] \in DOMAIN tx[u].new /\ Len(tx[u].new) <= Len(preset)
      BY <2>1, <3>1 DEF Writes
    <3>3. tx[u].list[j] \in DOMAIN preset
      BY <1>0, <2>2, <3>2
    <3>4. \/ preset[tx[u].list[j]].deleted
          \/ lock[tx[u].list[j]] = u /\ tx[u].new[tx[u].list[j]] = j - 1
      BY <2>1 DEF Writes
    <3>. QED
      BY <1>2, <2>1, <3>1, <3>3, <3>4
  <2>. QED
    BY <2>1, <2>3 DEF Writes
<1>7. HolderInv'
  <2> SUFFICES ASSUME NEW i \in Ids, lock'[i] # NoOne
               PROVE  /\ tx'[lock'[i]].pc = "reorder"
                      /\ i \in DOMAIN tx'[lock'[i]].new
                      /\ tx'[lock'[i]].new[i] \in 0..MaxPresets
    BY DEF HolderInv
  <2>1. lock'[i] = lock[i] /\ lock[i] # s /\ lock[i] \in Sessions
    BY <1>0, <1>2 DEF ShapeInv
  <2>2. tx'[lock[i]] = tx[lock[i]]
    BY <1>1, <2>1
  <2>. QED
    BY <1>0, <2>1, <2>2 DEF HolderInv
<1>. QED
  BY <1>3, <1>4, <1>5, <1>6, <1>7

LEMMA AbortReorder ==
    ASSUME PresetInv, NEW s \in Sessions, ReorderDeadlock(s)
    PROVE  PresetInv'
<1>1. /\ ReleaseRows(s) /\ Done(s) /\ UNCHANGED <<preset, lastList, since, ops>>
  BY DEF ReorderDeadlock
<1>2. ShapeInv' /\ OrderInv' /\ TouchInv' /\ WriteInv' /\ HolderInv'
  <2>1. ShapeInv /\ OrderInv
    BY DEF PresetInv
  <2>. QED
    BY <1>1, <2>1, EndReorder DEF ShapeInv, OrderInv
<1>3. ListOrder'
  BY <1>1 DEF PresetInv, ListOrder, ActivePresets
<1>. QED
  BY <1>2, <1>3 DEF PresetInv

LEMMA CommitReorder ==
    ASSUME PresetInv, NEW s \in Sessions, ReorderCommit(s)
    PROVE  PresetInv'
<1> DEFINE list == tx[s].list
           R(i) == IF lock[i] = s THEN [preset[i] EXCEPT !.order = tx[s].new[i]] ELSE preset[i]
<1>0. /\ ShapeInv /\ OrderInv /\ TouchInv /\ WriteInv /\ HolderInv
      /\ ops \in 0..MaxOps /\ preset \in Seq(PresetRow) /\ Len(preset) \in Nat
      /\ DOMAIN preset = 1..Len(preset) /\ Len(preset) <= MaxPresets
      /\ tx[s] \in Tx /\ DOMAIN preset \subseteq Ids
  BY PresetAssumption DEF PresetInv, ShapeInv, Ids
<1>1. /\ tx[s].pc = "reorder" /\ ~(tx[s].at <= Len(list))
      /\ preset' = [i \in DOMAIN preset |-> R(i)]
      /\ lastList' = list /\ since' = {} /\ ReleaseRows(s) /\ Done(s) /\ UNCHANGED ops
  BY DEF ReorderCommit, Ordering
<1>2. list \in Seq(Ids) /\ tx[s].new \in Seq(Int \cup {NoOne}) /\ tx[s].at \in Nat
  BY <1>0 DEF Tx
<1>3. Writes(s, tx[s])
  BY <1>0, <1>1 DEF WriteInv
<1>4. ASSUME NEW i \in DOMAIN preset
      PROVE  /\ R(i) \in PresetRow /\ R(i).deleted = preset[i].deleted
             /\ R(i).order \in (0 - ops)..MaxPresets
             /\ lock[i] = s => R(i).order = tx[s].new[i]
  <2>1. preset[i] \in PresetRow /\ preset[i].order \in (0 - ops)..MaxPresets
    BY <1>0 DEF OrderInv
  <2>2. CASE lock[i] = s
    <3>1. tx[s].new[i] \in 0..MaxPresets
      BY <1>0, <2>2, PresetAssumption DEF HolderInv
    <3>2. tx[s].new[i] \in (0 - ops)..MaxPresets /\ tx[s].new[i] \in Int
      BY <1>0, <3>1, PresetAssumption
    <3>. QED
      BY <2>1, <2>2, <3>2 DEF PresetRow
  <2>3. CASE lock[i] # s
    BY <2>1, <2>3
  <2>. QED
    BY <2>2, <2>3
<1>. HIDE DEF R
<1>5. /\ preset' \in Seq(PresetRow) /\ Len(preset') = Len(preset)
      /\ DOMAIN preset' = DOMAIN preset
      /\ \A i \in DOMAIN preset : preset'[i] = R(i)
  <2>1. preset' \in [1..Len(preset) -> PresetRow]
    BY <1>0, <1>1, <1>4
  <2>. QED
    BY <1>0, <1>1, <2>1
<1>6. \A j \in DOMAIN list : list[j] \in DOMAIN preset
  <2> SUFFICES ASSUME NEW j \in DOMAIN list PROVE list[j] \in DOMAIN preset
    OBVIOUS
  <2>1. list[j] \in DOMAIN tx[s].new /\ Len(tx[s].new) <= Len(preset)
    BY <1>3 DEF Writes
  <2>. QED
    BY <1>0, <1>2, <2>1
<1>7. ShapeInv' /\ OrderInv' /\ TouchInv' /\ WriteInv' /\ HolderInv'
  <2>1. \A i \in DOMAIN preset : /\ preset'[i].deleted = preset[i].deleted
                                 /\ preset'[i].order \in (0 - ops)..MaxPresets
    BY <1>4, <1>5
  <2>2. lastList' \in Seq(Ids) /\ ToSet(lastList') \subseteq DOMAIN preset
    BY <1>1, <1>2, <1>6 DEF ToSet
  <2>. QED
    BY <1>1, <1>5, <2>1, <2>2, EndReorder
<1>8. ListOrder'
  <2> SUFFICES ASSUME NEW j \in DOMAIN list, NEW k \in DOMAIN list, j < k,
                      {list[j], list[k]} \subseteq ActivePresets'
               PROVE  preset'[list[j]].order < preset'[list[k]].order
    BY <1>1 DEF ListOrder
  <2>1. ASSUME NEW m \in DOMAIN list, list[m] \in ActivePresets'
        PROVE  preset'[list[m]].order = m - 1
    <3>1. m \in 1..tx[s].at - 1
      <4>1. Len(list) \in Nat /\ m \in 1..Len(list)
        BY <1>2
      <4>2. tx[s].at \in Nat /\ ~(tx[s].at <= Len(list))
        BY <1>1, <1>2
      <4>. QED
        BY <4>1, <4>2
    <3>2. ~preset[list[m]].deleted
      BY <1>4, <1>5, <1>6, <2>1 DEF ActivePresets
    <3>3. lock[list[m]] = s /\ tx[s].new[list[m]] = m - 1
      BY <1>3, <3>1, <3>2 DEF Writes
    <3>. QED
      BY <1>4, <1>5, <1>6, <3>3
  <2>2. preset'[list[j]].order = j - 1 /\ preset'[list[k]].order = k - 1
    BY <2>1
  <2>3. j \in Int /\ k \in Int
    BY <1>2
  <2>. QED
    BY <2>2, <2>3
<1>. QED
  BY <1>7, <1>8 DEF PresetInv

LEMMA PresetInvariant == PresetSpec => []PresetInv
<1>1. PresetInv /\ [PresetNext]_presetVars => PresetInv'
  <2> SUFFICES ASSUME PresetInv, [PresetNext]_presetVars PROVE PresetInv'
    OBVIOUS
  <2>1. CASE UNCHANGED presetVars
    BY <2>1 DEF presetVars, PresetInv, ShapeInv, OrderInv, TouchInv, WriteInv, Writes,
                HolderInv, ListOrder, ActivePresets
  <2>2. CASE PresetNext
    BY <2>2, EnterPresets, AddPresets, UpdatePresets, StartReorder, StepReorder,
       CommitReorder, AbortReorder DEF PresetNext
  <2>. QED
    BY <2>1, <2>2
<1>. QED
  BY <1>1, InitPresets, PTL DEF PresetSpec

\* Rows, locks and requests keep their types, and no order leaves its range.
THEOREM PresetTypeCorrect == PresetSpec => []PresetTypeOK
<1>1. PresetInv => PresetTypeOK
  <2> SUFFICES ASSUME PresetInv PROVE PresetTypeOK
    OBVIOUS
  <2>1. /\ preset \in Seq(PresetRow) /\ ops \in 0..MaxOps /\ tx \in [Sessions -> Tx]
    BY DEF PresetInv, ShapeInv
  <2>2. ASSUME NEW i \in DOMAIN preset
        PROVE  preset[i] \in [content : Contents, order : -MaxOps..MaxPresets, deleted : BOOLEAN]
    <3>1. preset[i] \in PresetRow /\ preset[i].order \in (0 - ops)..MaxPresets
      BY <2>1 DEF PresetInv, OrderInv
    <3>2. preset[i].order \in -MaxOps..MaxPresets
      BY <2>1, <3>1, PresetAssumption
    <3>. QED
      BY <3>1, <3>2 DEF PresetRow
  <2>3. \A s \in Sessions : tx[s].pc \in {"idle", "import", "insert", "touch", "reorder"}
    BY <2>1 DEF Tx
  <2>. QED
    BY <2>2, <2>3 DEF PresetTypeOK, PresetInv, ShapeInv
<1>. QED
  BY <1>1, PresetInvariant, PTL

\* For any number of sessions, presets and requests: reorders that write row by row at
\* the same time never mix, whatever is used, added or deleted beside them.
THEOREM ReordersNeverMix == PresetSpec => []ListOrder
<1>1. PresetInv => ListOrder
  BY DEF PresetInv
<1>. QED
  BY <1>1, PresetInvariant, PTL

---------------------------------------------------------------------------
(***************************************************************************)
(* RdmaRing                                                                *)
(***************************************************************************)

\* What a page has created stays, and the presets page finds the ring's table once a
\* ring page was opened.
RingInv ==
    /\ RingTypeOK
    /\ seen # "none" => ring
    /\ seen = "both" => column /\ ok

LEMMA RingInvariant == RingSpec => []RingInv
<1>1. RingInit => RingInv
  BY DEF RingInit, RingInv, RingTypeOK
<1>2. RingInv /\ [RingNext]_ringVars => RingInv'
  <2> SUFFICES ASSUME RingInv, [RingNext]_ringVars PROVE RingInv'
    OBVIOUS
  <2> USE DEF RingInv, RingTypeOK, RingAnswers, EnsureRdma
  <2>1. CASE OpenRing
    BY <2>1 DEF OpenRing
  <2>2. CASE ListDeployments
    BY <2>2 DEF ListDeployments
  <2>3. CASE OpenPresets
    BY <2>3 DEF OpenPresets
  <2>4. ASSUME NEW h \in UNION Plans, NEW b \in BOOLEAN, UpdateNode(h, b)
        PROVE  RingInv'
    BY <2>4 DEF UpdateNode
  <2>5. ASSUME NEW h \in UNION Plans, NEW b \in BOOLEAN, Toggle(h, b)
        PROVE  RingInv'
    BY <2>5 DEF Toggle
  <2>6. ASSUME NEW H \in Plans, CreateDeployment(H)
        PROVE  RingInv'
    <3>1. [hosts |-> H, errors |-> H \ (qualified \cap enabled)]
            \in [hosts : Plans, errors : SUBSET (UNION Plans)]
      OBVIOUS
    <3>. QED
      BY <2>6, <3>1 DEF CreateDeployment
  <2>7. CASE UNCHANGED ringVars
    BY <2>7 DEF ringVars, tables
  <2>. QED
    BY <2>1, <2>2, <2>3, <2>4, <2>5, <2>6, <2>7 DEF RingNext
<1>. QED
  BY <1>1, <1>2, PTL DEF RingSpec

\* Tables, nodes and planned deployments keep their types; a deployment's errors are
\* among the hosts it was asked for (api_rdma_deploy_create).
THEOREM RingTypeCorrect == RingSpec => []RingTypeOK
<1>1. RingInv => RingTypeOK
  BY DEF RingInv
<1>. QED
  BY <1>1, RingInvariant, PTL

\* Whatever the nodes, and in whatever order pages are opened on a new database: once a
\* ring page and after it the presets page were opened, every page has its answer.
THEOREM PagesAnswer == RingSpec => []PagesComeUp
<1>1. RingInv => PagesComeUp
  BY DEF RingInv, PagesComeUp
<1>. QED
  BY <1>1, RingInvariant, PTL

---------------------------------------------------------------------------
(***************************************************************************)
(* GpuRetention                                                            *)
(***************************************************************************)

\* The hour of a tick.
LEMMA HourFacts ==
    \A t \in Int : Hour(t) \in Int /\ 2 * Hour(t) <= t /\ t < 2 * Hour(t) + 2
  BY DEF Hour

LEMMA GpuNats ==
    /\ MaxTicks \in Nat /\ Window \in Nat /\ RawKept \in Nat /\ HourlyKept \in Nat
    /\ MaxGap \in Nat /\ MaxFill \in Nat /\ Chunk \in Nat
    /\ Legacy \in Nat /\ Legacy <= MaxTicks
  BY GpuAssumption

LEMMA HourInHours == \A t \in 0..MaxTicks : Hour(t) \in Hours
<1> SUFFICES ASSUME NEW t \in 0..MaxTicks PROVE Hour(t) \in Hours
  OBVIOUS
<1>1. t \in Int /\ 0 <= t /\ t <= MaxTicks /\ MaxTicks \in Int
  BY GpuNats
<1>2. /\ Hour(t) \in Int /\ 2 * Hour(t) <= t /\ t < 2 * Hour(t) + 2
      /\ Hour(MaxTicks) \in Int /\ MaxTicks < 2 * Hour(MaxTicks) + 2
  BY <1>1, HourFacts
<1>. QED
  BY <1>1, <1>2 DEF Hours

\* What the timing rests on: a rollup comes before its window has moved past what the
\* last one and a backfill have left, and the raw samples are kept longer than that
\* (a window of 3 hours, an hourly timer, 90 days).
Timely == MaxGap + MaxFill <= Window /\ Window < RawKept

\* The sample is in its hour's aggregate, or that is past its retention.
Kept(t) == t \in hourly[Hour(t)] \/ HourStart(Hour(t)) < tick - HourlyKept

\* The next rollup will compute the sample's hour anew.
Again(t) == Hour(rolledAt + MaxGap - Window) <= Hour(t)

TimeInv ==
    /\ tick - rolledAt <= MaxGap /\ Legacy <= rolledAt
    /\ fill # NoFill => tick - fill.since <= MaxFill /\ Legacy <= fill.since

\* From a prune on there is no backfill.
ApartInv == prune # -1 \/ pruned # {} => fill = NoFill

\* Rollups have seen every sample that is new since they began to run.
RecentInv == \A t \in raw : Legacy < t /\ t <= rolledAt => Kept(t) \/ Again(t)

\* A backfill has seen every sample before the place where it is, begins each chunk
\* at an hour (or before all samples) and ends at the last sample there was.
FillInv ==
    fill # NoFill =>
        /\ fill.at <= fill.end
        /\ \A t \in raw : /\ fill.end < t => fill.since < t
                          /\ t < fill.at => Kept(t)
        /\ (\A t \in raw : fill.at <= t) \/ fill.at = HourStart(Hour(fill.at))

\* Unless a backfill is halfway, there are no gaps behind the first aggregate.
GapInv ==
    fill = NoFill /\ ~broken =>
        \A t \in raw, h \in Rolled : h <= Hour(t) /\ t <= rolledAt => Kept(t) \/ Again(t)

\* What a prune is about to delete is kept.
CutoffInv ==
    prune # -1 => prune <= tick - RawKept /\ \A t \in raw : t < prune => Kept(t)

\* What was pruned is kept, and too old to be computed again.
PrunedInv == \A t \in pruned : t < tick - RawKept /\ Kept(t)

RetentionInv ==
    /\ GpuTypeOK /\ TimeInv /\ ApartInv /\ RecentInv /\ FillInv /\ GapInv
    /\ CutoffInv /\ PrunedInv

LEMMA InitRetention == GpuInit => RetentionInv
<1> SUFFICES ASSUME GpuInit PROVE RetentionInv
  OBVIOUS
<1>1. GpuTypeOK
  <2>1. NoFill \in [since : 0..tick, at : 0..tick + 1, end : -1..tick]
    BY GpuNats DEF GpuInit, NoFill
  <2>2. hourly \in [Hours -> SUBSET (0..tick)] /\ raw \subseteq 0..tick
    BY DEF GpuInit
  <2>3. tick \in 0..MaxTicks /\ rolledAt \in 0..tick /\ prune \in -1..tick
    BY GpuNats DEF GpuInit
  <2>. QED
    BY <2>1, <2>2, <2>3 DEF GpuInit, GpuTypeOK
<1>2. Rolled = {}
  BY DEF GpuInit, Rolled
<1>. QED
  BY <1>1, <1>2, GpuNats
  DEF GpuInit, RetentionInv, TimeInv, ApartInv, RecentInv, FillInv, GapInv, CutoffInv, PrunedInv

LEMMA GpuInts ==
    ASSUME GpuTypeOK
    PROVE  /\ tick \in Nat /\ rolledAt \in Nat /\ prune \in Int /\ tick <= MaxTicks
           /\ rolledAt <= tick
           /\ \A t \in raw \cup pruned : t \in Nat /\ t <= tick /\ t \in 0..MaxTicks
           /\ fill.since \in Nat /\ fill.since <= tick /\ fill.at \in Nat /\ fill.end \in Int
           /\ fill.end <= tick
  BY GpuNats DEF GpuTypeOK

\* A window that is computed anew: what is in it is in the aggregates, what is outside
\* stays where no sample of its hour is in it, and only hours of samples in it are new.
LEMMA WindowFacts ==
    ASSUME GpuTypeOK, NEW a \in Int, NEW b \in Int, RollupWindow(a, b)
    PROVE  /\ hourly' \in [Hours -> SUBSET (0..tick)]
           /\ \A t \in raw : a <= t /\ t < b => t \in hourly'[Hour(t)]
           /\ \A t \in 0..MaxTicks :
                (\A u \in raw : a <= u /\ u < b => Hour(u) # Hour(t))
                  => hourly'[Hour(t)] = hourly[Hour(t)]
           /\ \A h \in Rolled' : h \in Rolled \/ \E u \in raw : a <= u /\ u < b /\ Hour(u) = h
<1> DEFINE S(h) == {t \in raw : a <= t /\ t < b /\ Hour(t) = h}
<1>1. hourly' = [h \in Hours |-> IF S(h) = {} THEN hourly[h] ELSE S(h)]
  BY DEF RollupWindow
<1>2. \A t \in raw : t \in 0..MaxTicks /\ t \in 0..tick
  BY GpuInts DEF GpuTypeOK
<1>3. hourly' \in [Hours -> SUBSET (0..tick)]
  BY <1>1, <1>2 DEF GpuTypeOK
<1>4. ASSUME NEW t \in raw, a <= t, t < b PROVE t \in hourly'[Hour(t)]
  <2>1. t \in S(Hour(t)) /\ Hour(t) \in Hours
    BY <1>2, <1>4, HourInHours
  <2>. HIDE DEF S
  <2>. QED
    BY <1>1, <2>1
<1>5. ASSUME NEW t \in 0..MaxTicks, \A u \in raw : a <= u /\ u < b => Hour(u) # Hour(t)
      PROVE  hourly'[Hour(t)] = hourly[Hour(t)]
  <2>1. S(Hour(t)) = {} /\ Hour(t) \in Hours
    BY <1>5, HourInHours
  <2>. HIDE DEF S
  <2>. QED
    BY <1>1, <2>1
<1>6. ASSUME NEW h \in Rolled', h \notin Rolled
      PROVE  \E u \in raw : a <= u /\ u < b /\ Hour(u) = h
  <2>1. h \in Hours /\ hourly'[h] # {} /\ hourly[h] = {}
    BY <1>6 DEF Rolled
  <2>2. S(h) # {}
    <3>. HIDE DEF S
    <3>. QED
      BY <1>1, <2>1
  <2>. QED
    BY <2>2
<1>. QED
  BY <1>3, <1>4, <1>5, <1>6

\* What was in the ticks so far is in them when the time goes on.
LEMMA SampleTypes ==
    ASSUME GpuTypeOK, NEW sampled \in BOOLEAN, Sample(sampled)
    PROVE  GpuTypeOK'
<1>1. /\ tick < MaxTicks /\ tick' = tick + 1 /\ raw' \subseteq raw \cup {tick + 1}
      /\ UNCHANGED <<hourly, backup, fill, prune, broken, tidy, rolledAt, pruned>>
  BY DEF Sample
<1>2. 0..tick \subseteq 0..tick' /\ tick' \in 0..MaxTicks /\ -1..tick \subseteq -1..tick'
      /\ 0..tick + 1 \subseteq 0..tick' + 1 /\ tick' \in 0..tick'
  BY <1>1, GpuInts, GpuNats
<1>3. /\ rolledAt' \in 0..tick' /\ prune' \in -1..tick'
      /\ raw' \subseteq 0..tick' /\ pruned' \subseteq 0..tick'
  BY <1>1, <1>2 DEF GpuTypeOK
<1>4. hourly' \in [Hours -> SUBSET (0..tick')]
  BY <1>1, <1>2 DEF GpuTypeOK
<1>5. fill' \in [since : 0..tick', at : 0..tick' + 1, end : -1..tick']
  BY <1>1, <1>2 DEF GpuTypeOK
<1>. QED
  BY <1>1, <1>2, <1>3, <1>4, <1>5 DEF GpuTypeOK

\* A backfill finds a place to begin and an end among the ticks there were.
LEMMA StartFillTypes ==
    ASSUME GpuTypeOK, StartBackfill
    PROVE  GpuTypeOK'
<1> DEFINE S == {Min(raw)} \cup {HourStart(h) : h \in Rolled}
           from == Min(S)
           hi == Max(raw)
<1>1. /\ raw # {}
      /\ fill' = (IF from < hi THEN [since |-> tick, at |-> from, end |-> hi] ELSE NoFill)
      /\ UNCHANGED <<tick, raw, hourly, backup, prune, broken, tidy, rolledAt, pruned>>
  BY DEF StartBackfill
<1>2. raw \in SUBSET Int /\ tick \in Nat /\ \A t \in raw : 0 <= t /\ t <= tick
  BY GpuInts
<1>3. Min(raw) \in raw /\ hi \in raw
  <2>1. Min(raw) \in raw
    BY <1>1, <1>2, MinInt
  <2>2. tick \in Int /\ \A t \in raw : t <= tick
    BY <1>2
  <2>3. Max(raw) \in raw
    BY <1>1, <1>2, <2>2, MaxInt
  <2>. QED
    BY <2>1, <2>3
<1>4. from \in Int /\ 0 <= from
  <2>1. \A h \in Rolled : HourStart(h) \in Int /\ 0 <= HourStart(h)
    <3>1. \A h \in Rolled : h \in Nat
      BY DEF Rolled, Hours
    <3>. QED
      BY <3>1 DEF HourStart
  <2>2. S \in SUBSET Int /\ S # {} /\ \A x \in S : 0 <= x
    BY <1>2, <1>3, <2>1
  <2>. HIDE DEF S
  <2>3. Min(S) \in S
    BY <2>2, MinInt
  <2>. QED
    BY <2>2, <2>3
<1>5. hi \in Int /\ 0 <= hi /\ hi <= tick
  BY <1>2, <1>3
<1>. HIDE DEF from, hi
<1>6. fill' \in [since : 0..tick, at : 0..tick + 1, end : -1..tick]
  <2>1. CASE from < hi
    <3>1. tick \in 0..tick /\ from \in 0..tick + 1 /\ hi \in -1..tick
      BY <1>2, <1>4, <1>5, <2>1
    <3>. QED
      BY <1>1, <2>1, <3>1
  <2>2. CASE ~(from < hi)
    BY <1>1, <1>2, <2>2 DEF NoFill
  <2>. QED
    BY <2>1, <2>2
<1>. QED
  BY <1>1, <1>6 DEF GpuTypeOK

\* A chunk goes on within the ticks of the backfill, or is the last one.
LEMMA ChunkTypes ==
    ASSUME GpuTypeOK, BackfillChunk
    PROVE  GpuTypeOK'
<1> DEFINE S == {fill.at + Chunk, fill.end + 1}
           most == Min(S)
           next == IF most <= fill.end THEN HourStart(Hour(most)) ELSE most
<1>1. /\ RollupWindow(fill.at, next)
      /\ fill' = (IF next <= fill.end THEN [fill EXCEPT !.at = next] ELSE NoFill)
      /\ broken' = (broken /\ next <= fill.end)
      /\ UNCHANGED <<tick, raw, backup, prune, tidy, rolledAt, pruned>>
  BY DEF BackfillChunk
<1>2. /\ fill.at \in Nat /\ fill.end \in Int /\ -1 <= fill.end /\ fill.end <= tick
      /\ tick \in Nat /\ Chunk \in Nat
  BY GpuInts, GpuNats DEF GpuTypeOK
<1>3. most \in Int /\ 0 <= most
  <2>1. S \in SUBSET Int /\ S # {} /\ \A x \in S : 0 <= x
    BY <1>2
  <2>. HIDE DEF S
  <2>2. Min(S) \in S
    BY <2>1, MinInt
  <2>. QED
    BY <2>1, <2>2
<1>. HIDE DEF most
<1>4. next \in Int /\ 0 <= next
  <2>1. PICK h \in Int : Hour(most) = h /\ most < 2 * h + 2
    BY <1>3, HourFacts
  <2>2. HourStart(Hour(most)) \in Int /\ 0 <= HourStart(Hour(most))
    BY <1>3, <2>1 DEF HourStart
  <2>. QED
    BY <1>3, <2>2
<1>. HIDE DEF next
<1>5. hourly' \in [Hours -> SUBSET (0..tick)]
  BY <1>1, <1>2, <1>4, WindowFacts
<1>6. fill' \in [since : 0..tick, at : 0..tick + 1, end : -1..tick]
  <2>1. CASE next <= fill.end
    <3>1. next \in 0..tick + 1
      BY <1>2, <1>4, <2>1
    <3>. QED
      BY <1>1, <2>1, <3>1 DEF GpuTypeOK
  <2>2. CASE ~(next <= fill.end)
    BY <1>1, <1>2, <2>2 DEF NoFill
  <2>. QED
    BY <2>1, <2>2
<1>7. broken' \in BOOLEAN
  BY <1>1
<1>. QED
  BY <1>1, <1>5, <1>6, <1>7 DEF GpuTypeOK

\* Samples, aggregates and the commands that run keep their types, whatever operators
\* do and however late the timer: no cutoff and no backfill lies in the future, and
\* every aggregate is of samples that were taken (cmd_rollup, cmd_backfill, cmd_prune).
THEOREM GpuTypeCorrect == GpuSpec => []GpuTypeOK
<1>1. GpuInit => GpuTypeOK
  BY InitRetention DEF RetentionInv
<1>2. GpuTypeOK /\ [GpuNext]_gpuVars => GpuTypeOK'
  <2>. SUFFICES ASSUME GpuTypeOK, [GpuNext]_gpuVars PROVE GpuTypeOK'
    OBVIOUS
  <2>1. ASSUME NEW b \in BOOLEAN, Sample(b) PROVE GpuTypeOK'
    BY <2>1, SampleTypes
  <2>2. CASE Rollup
    <3>1. tick - Window \in Int /\ tick + 1 \in Int
      BY GpuInts, GpuNats
    <3>2. HourStart(Hour(tick - Window)) \in Int
      <4>1. Hour(tick - Window) \in Int
        BY <3>1, HourFacts
      <4>. QED
        BY <4>1 DEF HourStart
    <3>3. hourly' \in [Hours -> SUBSET (0..tick)]
      BY <2>2, <3>1, <3>2, WindowFacts DEF Rollup
    <3>4. tick \in 0..tick
      BY GpuInts
    <3>. QED
      BY <2>2, <3>3, <3>4 DEF Rollup, GpuTypeOK
  <2>3. CASE HourlyRetention
    BY <2>3 DEF HourlyRetention, GpuTypeOK
  <2>4. CASE StopBackfill
    <3>1. NoFill \in [since : 0..tick, at : 0..tick + 1, end : -1..tick]
      BY GpuInts DEF NoFill
    <3>. QED
      BY <2>4, <3>1 DEF StopBackfill, GpuTypeOK
  <2>5. CASE VerifyBackup
    BY <2>5 DEF VerifyBackup, GpuTypeOK
  <2>6. CASE StartPrune
    <3>1. tick - RawKept \in -1..tick
      BY <2>6, GpuInts, GpuNats DEF StartPrune
    <3>. QED
      BY <2>6, <3>1 DEF StartPrune, GpuTypeOK
  <2>7. CASE PruneBatch
    <3>1. PICK batch \in SUBSET raw :
            /\ raw' = raw \ batch /\ pruned' = pruned \cup batch /\ prune' \in {-1, prune}
            /\ UNCHANGED <<tick, hourly, backup, fill, broken, tidy, rolledAt>>
      BY <2>7 DEF PruneBatch, Candidates
    <3>2. -1 \in -1..tick
      BY GpuInts
    <3>. QED
      BY <3>1, <3>2 DEF GpuTypeOK
  <2>8. CASE StopPrune
    <3>1. -1 \in -1..tick
      BY GpuInts
    <3>. QED
      BY <2>8, <3>1 DEF StopPrune, GpuTypeOK
  <2>9. CASE UNCHANGED gpuVars
    BY <2>9 DEF gpuVars, GpuTypeOK
  <2>. QED
    BY <2>1, <2>2, <2>3, <2>4, <2>5, <2>6, <2>7, <2>8, <2>9, StartFillTypes, ChunkTypes
    DEF GpuNext
<1>. QED
  BY <1>1, <1>2, PTL DEF GpuSpec

LEMMA SampleRetention ==
    ASSUME RetentionInv, NEW sampled \in BOOLEAN, Sample(sampled)
    PROVE  RetentionInv'
<1>0. /\ GpuTypeOK /\ TimeInv /\ ApartInv /\ RecentInv /\ FillInv /\ GapInv
      /\ CutoffInv /\ PrunedInv
  BY DEF RetentionInv
<1>1. /\ tick < MaxTicks /\ tick - rolledAt < MaxGap
      /\ fill # NoFill => tick - fill.since < MaxFill
      /\ tick' = tick + 1 /\ raw \subseteq raw' /\ raw' \subseteq raw \cup {tick + 1}
      /\ UNCHANGED <<hourly, backup, fill, prune, broken, tidy, rolledAt, pruned>>
  BY DEF Sample
<1>2. GpuTypeOK'
  BY <1>0, SampleTypes
<1>3. \A t \in raw \cup pruned : Kept(t) => Kept(t)'
  <2>1. \A t \in raw \cup pruned : HourStart(Hour(t)) \in Int
    <3>1. \A t \in raw \cup pruned : t \in Int
      BY <1>0, GpuInts
    <3>2. \A t \in raw \cup pruned : Hour(t) \in Int
      BY <3>1, HourFacts
    <3>. QED
      BY <3>2 DEF HourStart
  <2>. QED
    BY <1>0, <1>1, <2>1, GpuInts, GpuNats DEF Kept
<1>4. \A t \in raw' : t \in raw \/ t = tick + 1
  BY <1>1
<1>5. tick + 1 > rolledAt /\ tick \in Nat
  BY <1>0, GpuInts
<1>6. TimeInv' /\ ApartInv'
  BY <1>0, <1>1, GpuInts, GpuNats DEF TimeInv, ApartInv
<1>7. RecentInv'
  <2> SUFFICES ASSUME NEW t \in raw', Legacy < t, t <= rolledAt
               PROVE  Kept(t)' \/ Again(t)'
    BY <1>1 DEF RecentInv
  <2>1. t \in raw
    BY <1>0, <1>4, <1>5, GpuInts
  <2>. QED
    BY <1>0, <1>1, <1>3, <2>1 DEF RecentInv, Again
<1>8. GapInv'
  <2> SUFFICES ASSUME fill = NoFill, ~broken, NEW t \in raw', NEW h \in Rolled,
                      h <= Hour(t), t <= rolledAt
               PROVE  Kept(t)' \/ Again(t)'
    BY <1>1 DEF GapInv, Rolled
  <2>1. t \in raw
    BY <1>0, <1>4, <1>5, GpuInts
  <2>. QED
    BY <1>0, <1>1, <1>3, <2>1 DEF GapInv, Again
<1>9. FillInv'
  <2> SUFFICES ASSUME fill # NoFill
               PROVE  /\ fill.at <= fill.end
                      /\ \A t \in raw' : /\ fill.end < t => fill.since < t
                                         /\ t < fill.at => Kept(t)'
                      /\ (\A t \in raw' : fill.at <= t) \/ fill.at = HourStart(Hour(fill.at))
    BY <1>1 DEF FillInv
  <2>1. /\ fill.at <= fill.end /\ fill.end < tick + 1 /\ fill.since < tick + 1
        /\ fill.at < tick + 1 /\ fill.at \in Int
    BY <1>0, GpuInts DEF FillInv
  <2>2. \A t \in raw' : /\ fill.end < t => fill.since < t
                        /\ t < fill.at => Kept(t)'
    BY <1>0, <1>3, <1>4, <1>5, <2>1, GpuInts DEF FillInv
  <2>3. (\A t \in raw : fill.at <= t) => \A t \in raw' : fill.at <= t
    BY <1>4, <1>5, <2>1
  <2>. QED
    BY <1>0, <2>1, <2>2, <2>3 DEF FillInv
<1>10. CutoffInv'
  <2> SUFFICES ASSUME prune # -1
               PROVE  prune <= tick' - RawKept /\ \A t \in raw' : t < prune => Kept(t)'
    BY <1>1 DEF CutoffInv
  <2>1. prune <= tick - RawKept /\ prune \in Int /\ \A t \in raw : t < prune => Kept(t)
    BY <1>0, GpuInts DEF CutoffInv
  <2>. QED
    BY <1>1, <1>3, <1>4, <1>5, <2>1, GpuNats
<1>11. PrunedInv'
  BY <1>0, <1>1, <1>3, <1>5, GpuInts, GpuNats DEF PrunedInv
<1>. QED
  BY <1>2, <1>6, <1>7, <1>8, <1>9, <1>10, <1>11 DEF RetentionInv

\* A step that keeps every sample's aggregate and begins nothing.
LEMMA RetentionKept ==
    ASSUME RetentionInv, GpuTypeOK', UNCHANGED <<tick, rolledAt, fill, broken>>,
           raw' \subseteq raw, pruned' \subseteq pruned \cup (raw \ raw'),
           \A t \in raw \ raw' : prune # -1 /\ t < prune,
           prune' \in {prune, -1}, Rolled' \subseteq Rolled,
           \A t \in raw \cup pruned : Kept(t) => Kept(t)'
    PROVE  RetentionInv'
<1>0. /\ GpuTypeOK /\ TimeInv /\ ApartInv /\ RecentInv /\ FillInv /\ GapInv
      /\ CutoffInv /\ PrunedInv
  BY DEF RetentionInv
<1>1. TimeInv'
  BY <1>0 DEF TimeInv
<1>2. ApartInv'
  <2>1. pruned' = {} \/ pruned # {} \/ prune # -1
    OBVIOUS
  <2>. QED
    BY <1>0, <2>1 DEF ApartInv
<1>3. RecentInv'
  BY <1>0 DEF RecentInv, Again
<1>4. FillInv'
  BY <1>0 DEF FillInv
<1>5. GapInv'
  BY <1>0 DEF GapInv, Again
<1>6. CutoffInv'
  BY <1>0 DEF CutoffInv
<1>7. PrunedInv'
  <2> SUFFICES ASSUME NEW t \in pruned' PROVE t < tick - RawKept /\ Kept(t)'
    BY DEF PrunedInv
  <2>1. CASE t \in pruned
    BY <1>0, <2>1 DEF PrunedInv
  <2>2. CASE t \in raw \ raw'
    BY <1>0, <2>2, GpuInts, GpuNats DEF CutoffInv
  <2>. QED
    BY <2>1, <2>2
<1>. QED
  BY <1>1, <1>2, <1>3, <1>4, <1>5, <1>6, <1>7 DEF RetentionInv

LEMMA DeleteRetention ==
    ASSUME RetentionInv, HourlyRetention \/ PruneBatch \/ StopPrune \/ VerifyBackup
    PROVE  RetentionInv'
<1>0. GpuTypeOK
  BY DEF RetentionInv
<1>1. CASE HourlyRetention
  <2>1. /\ hourly' = [h \in Hours |-> IF HourStart(h) < tick - HourlyKept THEN {} ELSE hourly[h]]
        /\ tidy' = FALSE
        /\ UNCHANGED <<tick, raw, backup, fill, prune, broken, rolledAt, pruned>>
    BY <1>1 DEF HourlyRetention
  <2>2. GpuTypeOK'
    BY <1>0, <2>1 DEF GpuTypeOK
  <2>3. Rolled' \subseteq Rolled
    BY <2>1 DEF Rolled
  <2>4. \A t \in raw \cup pruned : Kept(t) => Kept(t)'
    <3>1. \A t \in raw \cup pruned : Hour(t) \in Hours
      BY <1>0, GpuInts, HourInHours
    <3>. QED
      BY <2>1, <3>1 DEF Kept
  <2>. QED
    BY <2>1, <2>2, <2>3, <2>4, RetentionKept
<1>2. CASE PruneBatch
  <2> DEFINE batch == {t \in Candidates : Cardinality({u \in Candidates : u < t}) < Batch}
  <2>1. /\ prune # -1 /\ raw' = raw \ batch /\ pruned' = pruned \cup batch
        /\ prune' = (IF batch = {} THEN -1 ELSE prune)
        /\ UNCHANGED <<tick, hourly, backup, fill, broken, tidy, rolledAt>>
    BY <1>2 DEF PruneBatch
  <2>2. batch \subseteq raw /\ \A t \in batch : t < prune
    BY DEF Candidates
  <2>. HIDE DEF batch
  <2>3. GpuTypeOK'
    <3>1. prune' \in -1..tick
      BY <1>0, <2>1, GpuInts DEF GpuTypeOK
    <3>. QED
      BY <1>0, <2>1, <2>2, <3>1 DEF GpuTypeOK
  <2>4. \A t \in raw \cup pruned : Kept(t) => Kept(t)'
    BY <2>1 DEF Kept
  <2>5. Rolled' = Rolled
    BY <2>1 DEF Rolled
  <2>. QED
    BY <2>1, <2>2, <2>3, <2>4, <2>5, RetentionKept
<1>3. CASE StopPrune \/ VerifyBackup
  <2>1. /\ prune' \in {prune, -1} /\ backup' \in BOOLEAN
        /\ UNCHANGED <<tick, raw, hourly, fill, broken, tidy, rolledAt, pruned>>
    BY <1>0, <1>3 DEF StopPrune, VerifyBackup, GpuTypeOK
  <2>2. GpuTypeOK'
    <3>1. prune' \in -1..tick
      BY <1>0, <2>1, GpuInts DEF GpuTypeOK
    <3>. QED
      BY <1>0, <2>1, <3>1 DEF GpuTypeOK
  <2>3. \A t \in raw \cup pruned : Kept(t) => Kept(t)'
    BY <2>1 DEF Kept
  <2>4. Rolled' = Rolled
    BY <2>1 DEF Rolled
  <2>. QED
    BY <2>1, <2>2, <2>3, <2>4, RetentionKept
<1>. QED
  BY <1>1, <1>2, <1>3

\* Hours are in the order of their ticks.
LEMMA HourOrder ==
    \A t, u \in Int : /\ t <= u => Hour(t) <= Hour(u)
                      /\ t + 2 <= u => Hour(t) < Hour(u)
                      /\ Hour(t) <= Hour(u) => 2 * Hour(t) <= u
                      /\ Hour(2 * Hour(t)) = Hour(t)
<1> SUFFICES ASSUME NEW t \in Int, NEW u \in Int
             PROVE  /\ t <= u => Hour(t) <= Hour(u)
                    /\ t + 2 <= u => Hour(t) < Hour(u)
                    /\ Hour(t) <= Hour(u) => 2 * Hour(t) <= u
                    /\ Hour(2 * Hour(t)) = Hour(t)
  OBVIOUS
<1>1. PICK i \in Int : Hour(t) = i /\ 2 * i <= t /\ t < 2 * i + 2
  BY HourFacts
<1>2. PICK j \in Int : Hour(u) = j /\ 2 * j <= u /\ u < 2 * j + 2
  BY HourFacts
<1>3. PICK m \in Int : Hour(2 * i) = m /\ 2 * m <= 2 * i /\ 2 * i < 2 * m + 2
  <2>1. 2 * i \in Int
    OBVIOUS
  <2>. QED
    BY <2>1, HourFacts
<1>4. /\ t <= u => i <= j
      /\ t + 2 <= u => i < j
      /\ i <= j => 2 * i <= u
      /\ m = i
  BY <1>1, <1>2, <1>3
<1>. QED
  BY <1>1, <1>2, <1>3, <1>4

LEMMA RollupRetention ==
    ASSUME Timely, RetentionInv, Rollup
    PROVE  RetentionInv'
<1> DEFINE k == Hour(tick - Window)
           a == 2 * k
<1>0. /\ GpuTypeOK /\ TimeInv /\ ApartInv /\ RecentInv /\ FillInv /\ GapInv
      /\ CutoffInv /\ PrunedInv
  BY DEF RetentionInv
<1>1. /\ RollupWindow(a, tick + 1) /\ tidy' = TRUE /\ rolledAt' = tick
      /\ UNCHANGED <<tick, raw, backup, fill, prune, broken, pruned>>
  BY DEF Rollup, HourStart
<1>2. /\ tick \in Int /\ rolledAt \in Int /\ tick <= rolledAt + MaxGap
      /\ Window \in Int /\ MaxGap \in Int /\ RawKept \in Int /\ MaxGap <= Window
      /\ Window < RawKept
      /\ \A t \in raw \cup pruned : t \in Int /\ t <= tick /\ t \in 0..MaxTicks
  BY <1>0, GpuInts, GpuNats DEF Timely, TimeInv
<1>3. k \in Int /\ a \in Int /\ a <= tick - Window /\ tick - Window < a + 2
  BY <1>2, HourFacts
<1>4. \A t \in Int : Hour(t) \in Int /\ (a <= t <=> k <= Hour(t))
  <2> SUFFICES ASSUME NEW t \in Int PROVE Hour(t) \in Int /\ (a <= t <=> k <= Hour(t))
    OBVIOUS
  <2>1. Hour(t) \in Int /\ 2 * Hour(t) <= t /\ t < 2 * Hour(t) + 2
    BY HourFacts
  <2>. QED
    BY <1>3, <2>1
<1>5. GpuTypeOK'
  <2>1. hourly' \in [Hours -> SUBSET (0..tick)]
    BY <1>0, <1>1, <1>2, <1>3, WindowFacts
  <2>2. tick \in 0..tick
    BY <1>0, GpuInts
  <2>. QED
    BY <1>0, <1>1, <2>1, <2>2 DEF GpuTypeOK
<1>. HIDE DEF k, a
<1>6. \A t \in raw : a <= t => Kept(t)'
  BY <1>0, <1>1, <1>2, <1>3, WindowFacts DEF Kept
<1>7. \A t \in raw \cup pruned : ~(a <= t) => hourly'[Hour(t)] = hourly[Hour(t)]
  <2> SUFFICES ASSUME NEW t \in raw \cup pruned, ~(a <= t)
               PROVE  hourly'[Hour(t)] = hourly[Hour(t)]
    OBVIOUS
  <2>1. \A u \in raw : a <= u /\ u < tick + 1 => Hour(u) # Hour(t)
    BY <1>2, <1>4
  <2>. QED
    BY <1>0, <1>1, <1>2, <1>3, <2>1, WindowFacts
<1>8. \A t \in raw : Kept(t) => Kept(t)'
  <2>1. \A t \in raw : ~(a <= t) => (Kept(t) => Kept(t)')
    BY <1>1, <1>7 DEF Kept
  <2>. QED
    BY <1>6, <2>1
<1>9. \A t \in raw : Again(t) => Kept(t)'
  <2> SUFFICES ASSUME NEW t \in raw, Again(t) PROVE a <= t
    BY <1>6
  <2>1. k <= Hour(rolledAt + MaxGap - Window)
    BY <1>2, HourOrder DEF k
  <2>2. t \in Int /\ rolledAt + MaxGap - Window \in Int
    BY <1>2
  <2>3. Hour(t) \in Int /\ Hour(rolledAt + MaxGap - Window) \in Int
    BY <1>4, <2>2
  <2>4. k <= Hour(t)
    BY <1>3, <2>1, <2>3 DEF Again
  <2>. QED
    BY <1>4, <2>2, <2>4
<1>10. \A t \in raw : rolledAt < t => Kept(t)'
  <2> SUFFICES ASSUME NEW t \in raw, rolledAt < t PROVE a <= t
    BY <1>6
  <2>. QED
    BY <1>2, <1>3
<1>11. TimeInv' /\ ApartInv'
  <2>1. Legacy <= tick /\ tick - tick <= MaxGap
    BY <1>0, <1>2, GpuInts, GpuNats DEF TimeInv
  <2>. QED
    BY <1>0, <1>1, <2>1 DEF TimeInv, ApartInv
<1>12. RecentInv'
  <2> SUFFICES ASSUME NEW t \in raw, Legacy < t PROVE Kept(t)'
    BY <1>1 DEF RecentInv
  <2>1. t <= rolledAt \/ rolledAt < t
    BY <1>2
  <2>. QED
    BY <1>0, <1>8, <1>9, <1>10, <2>1 DEF RecentInv
<1>13. FillInv' /\ CutoffInv'
  BY <1>0, <1>1, <1>8 DEF FillInv, CutoffInv
<1>14. GapInv'
  <2> SUFFICES ASSUME fill = NoFill, ~broken, NEW t \in raw, NEW h \in Rolled', h <= Hour(t)
               PROVE  Kept(t)'
    BY <1>1 DEF GapInv
  <2>1. CASE h \in Rolled
    <3>1. t <= rolledAt \/ rolledAt < t
      BY <1>2
    <3>. QED
      BY <1>0, <1>8, <1>9, <1>10, <2>1, <3>1 DEF GapInv
  <2>2. CASE h \notin Rolled
    <3>1. PICK u \in raw : a <= u /\ u < tick + 1 /\ Hour(u) = h
      BY <1>0, <1>1, <1>2, <1>3, <2>2, WindowFacts
    <3>2. k <= h /\ h \in Int /\ t \in Int /\ Hour(t) \in Int
      BY <1>2, <1>4, <3>1
    <3>3. a <= t
      BY <1>3, <1>4, <3>2
    <3>. QED
      BY <1>6, <3>3
  <2>. QED
    BY <2>1, <2>2
<1>15. PrunedInv'
  <2> SUFFICES ASSUME NEW t \in pruned PROVE t < tick - RawKept /\ Kept(t)'
    BY <1>1 DEF PrunedInv
  <2>1. t < tick - RawKept /\ Kept(t) /\ t \in Int
    BY <1>0, <1>2 DEF PrunedInv
  <2>2. ~(a <= t)
    BY <1>2, <1>3, <2>1
  <2>. QED
    BY <1>1, <1>7, <2>1, <2>2 DEF Kept
<1>. QED
  BY <1>5, <1>11, <1>12, <1>13, <1>14, <1>15 DEF RetentionInv

LEMMA StartFill ==
    ASSUME ~Careless, RetentionInv, StartBackfill
    PROVE  RetentionInv'
<1> DEFINE S == {Min(raw)} \cup {HourStart(h) : h \in Rolled}
           from == Min(S)
<1>0. /\ GpuTypeOK /\ TimeInv /\ ApartInv /\ RecentInv /\ FillInv /\ GapInv
      /\ CutoffInv /\ PrunedInv
  BY DEF RetentionInv
<1>1. /\ fill = NoFill /\ raw # {} /\ pruned = {} /\ prune = -1
      /\ fill' = (IF from < Max(raw) THEN [since |-> tick, at |-> from, end |-> Max(raw)]
                  ELSE NoFill)
      /\ UNCHANGED <<tick, raw, hourly, backup, prune, broken, tidy, rolledAt, pruned>>
  BY DEF StartBackfill
<1>2. CASE fill' = NoFill
  <2>1. UNCHANGED fill
    BY <1>1, <1>2
  <2>. QED
    BY <1>0, <1>1, <2>1 DEF RetentionInv, GpuTypeOK, TimeInv, ApartInv, RecentInv, FillInv,
       GapInv, CutoffInv, PrunedInv, Kept, Again, Rolled
<1>3. CASE fill' # NoFill
  <2>0. raw \in SUBSET Int /\ tick \in Nat /\ \A t \in raw : 0 <= t /\ t <= tick
    BY <1>0, GpuInts
  <2>1. Min(raw) \in raw /\ \A t \in raw : Min(raw) <= t
    BY <1>1, <2>0, MinInt
  <2>2. Max(raw) \in raw /\ \A t \in raw : t <= Max(raw)
    BY <1>1, <2>0, MaxInt
  <2>. DEFINE lo == Min(raw)
              hi == Max(raw)
  <2>12. /\ lo \in Int /\ hi \in Int /\ 0 <= hi /\ hi <= tick
         /\ \A t \in raw : t \in Int /\ lo <= t /\ t <= hi
    BY <2>0, <2>1, <2>2
  <2>. HIDE DEF lo, hi
  <2>3. S \in SUBSET Int /\ S # {} /\ \A x \in S : 0 <= x
    <3>1. \A h \in Rolled : HourStart(h) \in Int /\ 0 <= HourStart(h)
      <4>1. \A h \in Rolled : h \in Nat
        BY DEF Rolled, Hours
      <4>. QED
        BY <4>1 DEF HourStart
    <3>. QED
      BY <2>0, <2>1, <3>1
  <2>4. from \in Int /\ 0 <= from /\ from <= Min(raw)
    <3>. HIDE DEF S
    <3>1. Min(S) \in S /\ \A x \in S : Min(S) <= x
      BY <2>3, MinInt
    <3>2. Min(raw) \in S
      BY DEF S
    <3>. QED
      BY <2>3, <3>1, <3>2
  <2>. HIDE DEF from
  <2>5. /\ from < Max(raw) /\ fill' = [since |-> tick, at |-> from, end |-> Max(raw)]
        /\ fill'.since = tick /\ fill'.at = from /\ fill'.end = Max(raw)
    BY <1>1, <1>3
  <2>6. /\ Max(raw) \in 0..tick /\ from \in 0..tick + 1 /\ tick \in 0..tick
    <3>1. hi \in 0..tick /\ (from < hi => from \in 0..tick + 1) /\ tick \in 0..tick
      BY <2>0, <2>4, <2>12
    <3>. QED
      BY <2>5, <3>1 DEF hi
  <2>7. GpuTypeOK'
    <3>1. fill' \in [since : 0..tick, at : 0..tick + 1, end : -1..tick]
      <4>1. Max(raw) \in -1..tick
        BY <2>6
      <4>. QED
        BY <2>5, <2>6, <4>1
    <3>. QED
      BY <1>0, <1>1, <3>1 DEF GpuTypeOK
  <2>8. TimeInv'
    BY <1>0, <1>1, <2>5, GpuInts, GpuNats DEF TimeInv
  <2>9. FillInv'
    <3>1. \A t \in raw : ~(Max(raw) < t) /\ ~(t < from) /\ from <= t
      <4>1. from <= lo
        BY <2>4 DEF lo
      <4>2. \A t \in raw : ~(hi < t) /\ ~(t < from) /\ from <= t
        BY <2>4, <2>12, <4>1
      <4>. QED
        BY <4>2 DEF hi
    <3>2. from <= Max(raw)
      <4>1. from < hi => from <= hi
        BY <2>4, <2>12
      <4>. QED
        BY <2>5, <4>1 DEF hi
    <3>. QED
      BY <1>1, <2>5, <3>1, <3>2 DEF FillInv
  <2>10. ApartInv' /\ CutoffInv' /\ PrunedInv'
    BY <1>1 DEF ApartInv, CutoffInv, PrunedInv
  <2>11. RecentInv' /\ GapInv'
    BY <1>0, <1>1, <1>3 DEF RecentInv, GapInv, Kept, Again
  <2>. QED
    BY <2>7, <2>8, <2>9, <2>10, <2>11 DEF RetentionInv
<1>. QED
  BY <1>2, <1>3

\* The samples that came since a backfill began will be computed by a rollup again.
LEMMA AgainSinceFill ==
    ASSUME Timely, RetentionInv, fill # NoFill, NEW t \in raw, fill.end < t
    PROVE  Again(t) /\ Legacy < t
<1>1. /\ fill.since < t /\ tick - fill.since <= MaxFill /\ Legacy <= fill.since
      /\ fill.since \in Int /\ t \in Int /\ tick \in Int /\ rolledAt \in Int /\ rolledAt <= tick
      /\ MaxGap \in Int /\ MaxFill \in Int /\ Window \in Int /\ MaxGap + MaxFill <= Window
      /\ Legacy \in Int
  BY GpuInts, GpuNats DEF Timely, RetentionInv, FillInv, TimeInv
<1>2. rolledAt + MaxGap - Window <= t /\ rolledAt + MaxGap - Window \in Int
  BY <1>1
<1>. QED
  BY <1>1, <1>2, HourOrder DEF Again

LEMMA ChunkRetention ==
    ASSUME Timely, RetentionInv, BackfillChunk
    PROVE  RetentionInv'
<1> DEFINE most == Min({fill.at + Chunk, fill.end + 1})
           next == IF most <= fill.end THEN HourStart(Hour(most)) ELSE most
<1>0. /\ GpuTypeOK /\ TimeInv /\ ApartInv /\ RecentInv /\ FillInv /\ GapInv
      /\ CutoffInv /\ PrunedInv
  BY DEF RetentionInv
<1>1. /\ fill # NoFill /\ RollupWindow(fill.at, next)
      /\ fill' = (IF next <= fill.end THEN [fill EXCEPT !.at = next] ELSE NoFill)
      /\ broken' = (broken /\ next <= fill.end)
      /\ UNCHANGED <<tick, raw, backup, prune, tidy, rolledAt, pruned>>
  BY DEF BackfillChunk
<1>2. /\ fill.at \in Nat /\ fill.end \in Int /\ fill.at <= fill.end /\ Chunk \in Nat
      /\ fill.end <= tick /\ tick \in Nat
      /\ prune = -1 /\ pruned = {}
      /\ \A t \in raw : t \in Int /\ t \in 0..MaxTicks
  BY <1>0, <1>1, GpuInts, GpuNats DEF FillInv, ApartInv
<1>3. most \in Nat /\ most <= fill.end + 1
  <2>. DEFINE S == {fill.at + Chunk, fill.end + 1}
  <2>1. S \in SUBSET Int /\ S # {} /\ \A x \in S : 0 <= x
    BY <1>2
  <2>2. most \in S /\ \A x \in S : most <= x
    <3>. HIDE DEF S
    <3>1. Min(S) \in S /\ \A x \in S : Min(S) <= x
      BY <2>1, MinInt
    <3>. QED
      BY <3>1 DEF S
  <2>. HIDE DEF most
  <2>. QED
    BY <1>2, <2>1, <2>2
<1>. HIDE DEF most
<1>4. /\ next \in Nat /\ next <= fill.end + 1
      /\ next <= fill.end => next = HourStart(Hour(most)) /\ next = HourStart(Hour(next))
      /\ ~(next <= fill.end) => next = fill.end + 1
  <2>1. CASE most <= fill.end
    <3>1. PICK m \in Int : Hour(most) = m /\ 2 * m <= most /\ most < 2 * m + 2 /\ Hour(2 * m) = m
      <4>1. most \in Int
        BY <1>3
      <4>. QED
        BY <4>1, HourFacts, HourOrder
    <3>2. next = 2 * m /\ 2 * m \in Nat /\ 2 * m <= fill.end
      BY <1>2, <1>3, <2>1, <3>1 DEF HourStart
    <3>3. HourStart(Hour(most)) = 2 * m /\ HourStart(Hour(2 * m)) = 2 * m
      BY <3>1 DEF HourStart
    <3>4. 2 * m <= fill.end + 1
      BY <1>2, <3>2
    <3>. HIDE DEF next
    <3>. QED
      BY <3>2, <3>3, <3>4
  <2>2. CASE ~(most <= fill.end)
    BY <1>2, <1>3, <2>2
  <2>. QED
    BY <2>1, <2>2
<1>. HIDE DEF next
<1>5. hourly' \in [Hours -> SUBSET (0..tick)]
  BY <1>0, <1>1, <1>2, <1>4, WindowFacts
<1>6. \A t \in raw : fill.at <= t /\ t < next => Kept(t)'
  BY <1>0, <1>1, <1>2, <1>4, WindowFacts DEF Kept
<1>7. ASSUME NEW t \in raw, t < fill.at PROVE Kept(t)'
  <2>1. Kept(t)
    BY <1>0, <1>1, <1>7 DEF FillInv
  <2>2. fill.at = HourStart(Hour(fill.at))
    BY <1>0, <1>1, <1>2, <1>7 DEF FillInv
  <2>3. \A u \in raw : fill.at <= u /\ u < next => Hour(u) # Hour(t)
    <3> SUFFICES ASSUME NEW u \in raw, fill.at <= u, Hour(u) = Hour(t) PROVE FALSE
      OBVIOUS
    <3>1. t \in Int /\ u \in Int /\ fill.at \in Int
      BY <1>2
    <3>2. Hour(fill.at) <= Hour(u)
      BY <3>1, HourOrder
    <3>3. 2 * Hour(fill.at) <= t
      BY <3>1, <3>2, HourOrder
    <3>. QED
      BY <1>2, <1>7, <2>2, <3>1, <3>3 DEF HourStart
  <2>4. hourly'[Hour(t)] = hourly[Hour(t)]
    BY <1>0, <1>1, <1>2, <1>4, <2>3, WindowFacts
  <2>. QED
    BY <1>1, <2>1, <2>4 DEF Kept
<1>8. \A t \in raw : t < next => Kept(t)'
  <2>1. \A t \in raw : t < fill.at \/ fill.at <= t
    BY <1>2
  <2>. QED
    BY <1>6, <1>7, <2>1
<1>9. ApartInv' /\ CutoffInv' /\ PrunedInv'
  BY <1>1, <1>2 DEF ApartInv, CutoffInv, PrunedInv
<1>10. CASE next <= fill.end
  <2>1. /\ fill' = [fill EXCEPT !.at = next] /\ broken' = broken
        /\ fill'.since = fill.since /\ fill'.at = next /\ fill'.end = fill.end
    BY <1>0, <1>1, <1>10 DEF GpuTypeOK
  <2>2. fill' # NoFill
    BY <1>2, <2>1 DEF NoFill
  <2>3. GpuTypeOK'
    <3>1. next \in 0..tick + 1
      BY <1>2, <1>4
    <3>2. fill' \in [since : 0..tick, at : 0..tick + 1, end : -1..tick]
      BY <1>0, <2>1, <3>1 DEF GpuTypeOK
    <3>. QED
      BY <1>0, <1>1, <1>5, <2>1, <3>2 DEF GpuTypeOK
  <2>4. TimeInv'
    BY <1>0, <1>1, <2>1 DEF TimeInv
  <2>5. \A t \in raw : Kept(t) => Kept(t)'
    <3> SUFFICES ASSUME NEW t \in raw, Kept(t), ~(t < next) PROVE Kept(t)'
      BY <1>8
    <3>1. \A u \in raw : fill.at <= u /\ u < next => Hour(u) # Hour(t)
      <4> SUFFICES ASSUME NEW u \in raw, u < next, Hour(u) = Hour(t) PROVE FALSE
        OBVIOUS
      <4>1. t \in Int /\ u \in Int /\ next \in Int /\ next <= t
        BY <1>2, <1>4
      <4>2. Hour(next) <= Hour(t)
        BY <4>1, HourOrder
      <4>3. 2 * Hour(next) <= u
        BY <4>1, <4>2, HourOrder
      <4>. QED
        BY <1>4, <1>10, <4>1, <4>3 DEF HourStart
    <3>2. hourly'[Hour(t)] = hourly[Hour(t)]
      BY <1>0, <1>1, <1>2, <1>4, <3>1, WindowFacts
    <3>. QED
      BY <1>1, <3>2 DEF Kept
  <2>6. RecentInv'
    BY <1>0, <1>1, <2>5 DEF RecentInv, Again
  <2>7. FillInv'
    BY <1>0, <1>1, <1>4, <1>8, <1>10, <2>1 DEF FillInv
  <2>8. GapInv'
    BY <2>2 DEF GapInv
  <2>. QED
    BY <1>9, <2>3, <2>4, <2>6, <2>7, <2>8 DEF RetentionInv
<1>11. CASE ~(next <= fill.end)
  <2>1. fill' = NoFill /\ broken' = FALSE /\ next = fill.end + 1
    BY <1>1, <1>4, <1>11
  <2>2. GpuTypeOK'
    <3>1. NoFill \in [since : 0..tick, at : 0..tick + 1, end : -1..tick]
      BY <1>2 DEF NoFill
    <3>. QED
      BY <1>0, <1>1, <1>5, <2>1, <3>1 DEF GpuTypeOK
  <2>3. TimeInv'
    BY <1>0, <1>1, <2>1 DEF TimeInv
  <2>4. FillInv'
    BY <2>1 DEF FillInv
  <2>5. \A t \in raw : Kept(t)' \/ Again(t)'
    <3>1. \A t \in raw : t < next \/ fill.end < t
      BY <1>2, <2>1
    <3>2. \A t \in raw : fill.end < t => Again(t)
      BY <1>1, AgainSinceFill
    <3>. QED
      BY <1>1, <1>8, <3>1, <3>2 DEF Again
  <2>6. RecentInv' /\ GapInv'
    BY <1>1, <2>5 DEF RecentInv, GapInv
  <2>. QED
    BY <1>9, <2>2, <2>3, <2>4, <2>6 DEF RetentionInv
<1>. QED
  BY <1>10, <1>11

LEMMA StopFill ==
    ASSUME RetentionInv, StopBackfill
    PROVE  RetentionInv'
<1>1. /\ fill' = NoFill /\ broken' = TRUE
      /\ UNCHANGED <<tick, raw, hourly, backup, prune, tidy, rolledAt, pruned>>
  BY DEF StopBackfill
<1>2. GpuTypeOK'
  <2>1. NoFill \in [since : 0..tick, at : 0..tick + 1, end : -1..tick]
    BY GpuInts DEF NoFill, RetentionInv
  <2>. QED
    BY <1>1, <2>1 DEF RetentionInv, GpuTypeOK
<1>. QED
  BY <1>1, <1>2 DEF RetentionInv, TimeInv, ApartInv, RecentInv, FillInv, GapInv, CutoffInv,
     PrunedInv, Kept, Again

LEMMA GateRetention ==
    ASSUME ~Careless, Timely, RetentionInv, StartPrune
    PROVE  RetentionInv'
<1>0. /\ GpuTypeOK /\ TimeInv /\ ApartInv /\ RecentInv /\ FillInv /\ GapInv
      /\ CutoffInv /\ PrunedInv
  BY DEF RetentionInv
<1>1. /\ PruneGates /\ tick >= RawKept /\ fill = NoFill /\ ~broken /\ prune' = tick - RawKept
      /\ UNCHANGED <<tick, raw, hourly, backup, fill, broken, tidy, rolledAt, pruned>>
  BY DEF StartPrune
<1>2. /\ tick \in Nat /\ rolledAt \in Int /\ tick <= rolledAt + MaxGap
      /\ Window \in Int /\ MaxGap \in Int /\ RawKept \in Nat /\ MaxGap <= Window
      /\ Window < RawKept /\ \A t \in raw : t \in Int /\ 0 <= t
  BY <1>0, GpuInts, GpuNats DEF Timely, TimeInv
<1>3. GpuTypeOK'
  <2>1. prune' \in -1..tick
    BY <1>1, <1>2
  <2>. QED
    BY <1>0, <1>1, <2>1 DEF GpuTypeOK
<1>4. ASSUME NEW t \in raw, t < tick - RawKept PROVE Kept(t)
  <2>1. PICK h \in Rolled : h \in Int /\ HourStart(h) <= Min(raw)
    <3>1. Rolled \in SUBSET Int /\ Rolled # {} /\ \A x \in Rolled : 0 <= x
      BY <1>1 DEF PruneGates, Rolled, Hours
    <3>2. Min(Rolled) \in Rolled
      BY <3>1, MinInt
    <3>3. HourStart(Min(Rolled)) <= Min(raw)
      <4>1. raw \in SUBSET Int /\ raw # {} /\ \A x \in raw : 0 <= x
        BY <1>2
      <4>2. Min(raw) \in raw
        BY <4>1, MinInt
      <4>3. Min(Rolled) \in Int
        BY <3>1, <3>2
      <4>4. HourStart(Min(Rolled)) \in Int
        BY <4>3 DEF HourStart
      <4>. QED
        BY <1>1, <4>1, <4>2, <4>4 DEF PruneGates
    <3>. QED
      BY <3>1, <3>2, <3>3
  <2>2. Min(raw) <= t /\ Min(raw) \in Int
    <3>1. raw \in SUBSET Int /\ raw # {} /\ \A x \in raw : 0 <= x
      BY <1>2
    <3>2. Min(raw) \in raw /\ \A x \in raw : Min(raw) <= x
      BY <3>1, MinInt
    <3>. QED
      BY <3>1, <3>2
  <2>3. 2 * h <= t /\ t \in Int
    BY <1>2, <2>1, <2>2 DEF HourStart
  <2>4. PICK i \in Int : Hour(t) = i /\ t < 2 * i + 2
    BY <2>3, HourFacts
  <2>5. h <= Hour(t)
    BY <2>1, <2>3, <2>4
  <2>6. t <= rolledAt /\ t + 2 <= rolledAt + MaxGap - Window
    BY <1>2, <1>4, <2>3
  <2>7. ~Again(t)
    <3>1. rolledAt + MaxGap - Window \in Int
      BY <1>2
    <3>2. Hour(t) < Hour(rolledAt + MaxGap - Window)
      BY <2>3, <2>6, <3>1, HourOrder
    <3>3. Hour(t) \in Int /\ Hour(rolledAt + MaxGap - Window) \in Int
      BY <2>3, <3>1, HourFacts
    <3>. QED
      BY <3>2, <3>3 DEF Again
  <2>. QED
    BY <1>0, <1>1, <2>1, <2>5, <2>6, <2>7 DEF GapInv
<1>5. CutoffInv'
  <2>1. tick - RawKept <= tick - RawKept
    BY <1>2
  <2>. QED
    BY <1>1, <1>4, <2>1 DEF CutoffInv, Kept
<1>6. TimeInv' /\ ApartInv' /\ RecentInv' /\ FillInv' /\ GapInv' /\ PrunedInv'
  BY <1>0, <1>1 DEF TimeInv, ApartInv, RecentInv, FillInv, GapInv, PrunedInv, Kept, Again, Rolled
<1>. QED
  BY <1>3, <1>5, <1>6 DEF RetentionInv

LEMMA RetentionInvariant ==
    ASSUME ~Careless, Timely
    PROVE  GpuSpec => []RetentionInv
<1>1. RetentionInv /\ [GpuNext]_gpuVars => RetentionInv'
  <2> SUFFICES ASSUME RetentionInv, [GpuNext]_gpuVars PROVE RetentionInv'
    OBVIOUS
  <2>1. CASE UNCHANGED gpuVars
    BY <2>1 DEF gpuVars, RetentionInv, GpuTypeOK, TimeInv, ApartInv, RecentInv, FillInv,
       GapInv, CutoffInv, PrunedInv, Kept, Again, Rolled
  <2>2. CASE GpuNext
    BY <2>2, SampleRetention, DeleteRetention, RollupRetention, StartFill, ChunkRetention,
       StopFill, GateRetention DEF GpuNext
  <2>. QED
    BY <2>1, <2>2
<1>. QED
  BY <1>1, InitRetention, PTL DEF GpuSpec

\* A sample that was pruned lives on in its hour's aggregate until the hourly retention
\* takes that away, for any amount of data, any chunks and batches and however long
\* samples are kept, when the maintenance timer and a backfill are in time for the
\* window of the rollup and operators do not backfill after a prune.
THEOREM PrunedSamplesKept ==
    ASSUME ~Careless, Timely
    PROVE  GpuSpec => []PrunedIsKept
<1>1. RetentionInv => PrunedIsKept
  BY DEF RetentionInv, PrunedInv, PrunedIsKept, Kept
<1>. QED
  BY <1>1, RetentionInvariant, PTL
=============================================================================
