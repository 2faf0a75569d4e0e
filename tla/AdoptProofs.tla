----------------------------- MODULE AdoptProofs -----------------------------
(***************************************************************************)
(* Proofs about Adopt for any processes, objects, legacy names, columns    *)
(* and tables the old release left: an adoption that returned stranded     *)
(* nothing, what was adopted is readable, and the old indexes go.          *)
(*                                                                         *)
(* The parts of the invariant take the tables T they speak of.             *)
(***************************************************************************)
EXTENDS Adopt, TLAPS

Legacy == 1..NLegacy
Loop == {"legacy", "both", "count", "rename", "drop", "columns", "column"}

IsTable(t) ==
    /\ t \in [rows : Nat, late : Nat, idx : SUBSET Indexes, cols : [DOMAIN t.cols -> Cells]]
    /\ DOMAIN t.cols \subseteq ColumnNames

Has(T, o, i) == T[<<o, i>>] # None

Places == Loop \cup {"idle", "check", "adopted"}
Positive == Nat \ {0}

AtType ==
    [pc : Places, o : Positive, i : Positive,
     todo : SUBSET DOMAIN Columns, col : DOMAIN Columns \cup {None}, bad : BOOLEAN]

TabType(T) ==
    /\ T = [n \in Names |-> T[n]]
    /\ \A o \in Objects, i \in 0..NLegacy : Has(T, o, i) => IsTable(T[<<o, i>>])

\* A column of a foreign type is not a declared field's, nor about to be, where
\* the field has one legacy name.
ReadableCols(cols, o) ==
    \A c \in DOMAIN cols : ~cols[c].ok =>
        /\ c \in Fields[o] => Ambiguous(c)
        /\ c \in DOMAIN Columns /\ Columns[c] \in Fields[o] =>
            Columns[c] \in DOMAIN cols \/ Ambiguous(Columns[c])

\* Columns without data are declared ones, and none that an adopted process
\* added is beside the column it should have been renamed from.
WholeCols(cols, o) ==
    /\ \A c \in DOMAIN cols : cols[c].data \in {Empty, Ahead} => c \in Fields[o]
    /\ \A c \in DOMAIN Columns :
        Columns[c] \in Fields[o] /\ c \in DOMAIN cols /\ Columns[c] \in DOMAIN cols =>
            cols[Columns[c]].data # Empty

TabInv(T) ==
    /\ TabType(T)
    /\ \A o \in Objects : Has(T, o, 0) => ReadableCols(T[<<o, 0>>].cols, o)
    /\ \A o \in Objects, i \in 0..NLegacy : Has(T, o, i) => WholeCols(T[<<o, i>>].cols, o)

\* checkAdoptedColumnTypes found nothing wrong with the table to be renamed.
Clear(T, o) ==
    ~Has(T, o, 0) => \A i \in Legacy :
        Has(T, o, i) /\ (\A j \in 1..(i - 1) : ~Has(T, o, j)) =>
            ReadableCols(T[<<o, i>>].cols, o)

\* The loop is past a legacy name, a column, an object.
PassedTable(T, o, i) == Has(T, o, i) => Has(T, o, 0) /\ T[<<o, i>>].rows = 0

PassedColumn(T, o, c) ==
    Columns[c] \in Fields[o] /\ Has(T, o, 0) /\ c \in DOMAIN T[<<o, 0>>].cols =>
        Columns[c] \in DOMAIN T[<<o, 0>>].cols

Passed(T, o) ==
    /\ \A i \in Legacy : PassedTable(T, o, i)
    /\ \A c \in DOMAIN Columns : PassedColumn(T, o, c)

AtInv(T, r) ==
    /\ r.pc = "check" /\ ~r.bad => \A o \in Objects : o < r.o => Clear(T, o)
    /\ r.pc \in Loop =>
        /\ \A o \in Objects : Clear(T, o) /\ (o < r.o => Passed(T, o))
        /\ r.o \in Objects => \A i \in Legacy : i < r.i => PassedTable(T, r.o, i)
    /\ r.pc \in {"both", "count", "rename", "drop"} => r.o \in Objects /\ r.i \in Legacy
    /\ r.pc = "count" => Has(T, r.o, 0)
    /\ r.pc = "drop" => Has(T, r.o, 0) /\ ~Has(T, r.o, r.i)
    /\ r.pc \in {"columns", "column"} =>
        /\ r.o \in Objects /\ r.i > NLegacy /\ Has(T, r.o, 0)
        /\ \A c \in r.todo : Columns[c] \in Fields[r.o]
        /\ \A c \in DOMAIN Columns :
            c \notin r.todo /\ (r.pc = "column" => c # r.col) => PassedColumn(T, r.o, c)
    /\ r.pc = "column" => r.col \in DOMAIN Columns /\ Columns[r.col] \in Fields[r.o]
    /\ r.pc = "adopted" => \A o \in Objects : Passed(T, o)

\* Somebody is about to drop the legacy indexes of a declared table, or stopped
\* before it did.
IndexInv ==
    \A o \in Objects : Has(tab, o, 0) /\ (\E x \in tab[<<o, 0>>].idx : legacyIndex(x)) =>
        cut \/ \E p \in Processes : at[p].pc = "drop" /\ at[p].o = o

AdoptInv ==
    /\ TabInv(tab)
    /\ at \in [Processes -> AtType]
    /\ \A p \in Processes : AtInv(tab, at[p])
    /\ done \in BOOLEAN /\ cut \in BOOLEAN
    /\ done => \A o \in Objects : Passed(tab, o)
    /\ IndexInv

\* What a step may do to the tables.
Later(T, T2) ==
    \A o \in Objects :
        /\ Has(T, o, 0) => Has(T2, o, 0)
        /\ \A i \in Legacy :
            /\ Has(T2, o, i) => Has(T, o, i)
            /\ Has(T, o, i) /\ ~Has(T2, o, i) => Has(T2, o, 0)
            /\ Has(T2, o, i) /\ Has(T, o, 0) => T2[<<o, i>>].rows = T[<<o, i>>].rows
            /\ Has(T2, o, i) /\ ReadableCols(T[<<o, i>>].cols, o) =>
                    ReadableCols(T2[<<o, i>>].cols, o)
        /\ \A c \in DOMAIN Columns :
            /\ Has(T, o, 0) /\ PassedColumn(T, o, c) => PassedColumn(T2, o, c)
            /\ ~Has(T, o, 0) /\ (\A i \in Legacy : ~Has(T, o, i)) => PassedColumn(T2, o, c)
-----------------------------------------------------------------------------
LEMMA TableIsThere ==
    ASSUME NEW t, IsTable(t)
    PROVE  t # None
<1>1. DOMAIN t.cols \in SUBSET ColumnNames /\ t.cols \in [DOMAIN t.cols -> Cells]
  BY DEF IsTable
<1>2. t.cols \in UNION {[S -> Cells] : S \in SUBSET ColumnNames}
  BY <1>1
<1>3. t \in [rows : Nat, late : Nat, idx : SUBSET Indexes,
             cols : UNION {[S -> Cells] : S \in SUBSET ColumnNames}]
  BY <1>2 DEF IsTable
<1> QED
  BY <1>3, AdoptAssumption

LEMMA NameFacts ==
    /\ 0 \in 0..NLegacy /\ Legacy \subseteq 0..NLegacy /\ 0 \notin Legacy
    /\ \A i \in 0..NLegacy : i # 0 => i \in Legacy
    /\ \A o \in Objects, i \in 0..NLegacy : <<o, i>> \in Names
    /\ \A o, o2, i, i2 : <<o, i>> = <<o2, i2>> <=> o = o2 /\ i = i2
BY AdoptAssumption DEF Legacy, Names

LEMMA TableKept ==
    ASSUME NEW T, NEW T2, Later(T, T2), NEW o \in Objects, NEW i \in Legacy,
           PassedTable(T, o, i)
    PROVE  PassedTable(T2, o, i)
BY DEF Later, PassedTable

LEMMA ClearKept ==
    ASSUME NEW T, NEW T2, Later(T, T2), NEW o \in Objects, Clear(T, o)
    PROVE  Clear(T2, o)
<1> SUFFICES ASSUME ~Has(T2, o, 0), NEW i \in Legacy, Has(T2, o, i),
                    \A j \in 1..(i - 1) : ~Has(T2, o, j)
             PROVE  ReadableCols(T2[<<o, i>>].cols, o)
  BY DEF Clear
<1>1. ~Has(T, o, 0) /\ Has(T, o, i)
  BY DEF Later
<1>2. \A j \in 1..(i - 1) : j \in Legacy
  BY AdoptAssumption DEF Legacy
<1>3. \A j \in 1..(i - 1) : ~Has(T, o, j)
  BY <1>2 DEF Later
<1>4. ReadableCols(T[<<o, i>>].cols, o)
  BY <1>1, <1>3 DEF Clear
<1> QED
  BY <1>4 DEF Later

LEMMA PassedKept ==
    ASSUME NEW T, NEW T2, Later(T, T2), NEW o \in Objects, Passed(T, o)
    PROVE  Passed(T2, o)
<1>1. \A i \in Legacy : PassedTable(T2, o, i)
  BY TableKept DEF Passed
<1>2. ASSUME NEW c \in DOMAIN Columns PROVE PassedColumn(T2, o, c)
  <2>1. CASE Has(T, o, 0)
    BY <2>1 DEF Passed, Later
  <2>2. CASE ~Has(T, o, 0)
    <3>1. \A i \in Legacy : ~Has(T, o, i)
      BY <2>2 DEF Passed, PassedTable
    <3> QED
      BY <2>2, <3>1 DEF Later
  <2> QED
    BY <2>1, <2>2
<1> QED
  BY <1>1, <1>2 DEF Passed

\* Where a process is stays true while the others work.
LEMMA AtKept ==
    ASSUME NEW T, NEW T2, Later(T, T2), NEW r \in AtType, AtInv(T, r)
    PROVE  AtInv(T2, r)
<1>1. r.pc = "check" /\ ~r.bad => \A o \in Objects : o < r.o => Clear(T2, o)
  BY ClearKept DEF AtInv
<1>2. ASSUME r.pc \in Loop
      PROVE  /\ \A o \in Objects : Clear(T2, o) /\ (o < r.o => Passed(T2, o))
             /\ r.o \in Objects => \A i \in Legacy : i < r.i => PassedTable(T2, r.o, i)
  <2>1. /\ \A o \in Objects : Clear(T, o) /\ (o < r.o => Passed(T, o))
        /\ r.o \in Objects => \A i \in Legacy : i < r.i => PassedTable(T, r.o, i)
    BY <1>2 DEF AtInv
  <2> QED
    BY <2>1, ClearKept, PassedKept, TableKept
<1>3. /\ r.pc \in {"both", "count", "rename", "drop"} => r.o \in Objects /\ r.i \in Legacy
      /\ r.pc = "column" => r.col \in DOMAIN Columns /\ Columns[r.col] \in Fields[r.o]
  BY DEF AtInv
<1>4. /\ r.pc = "count" => Has(T2, r.o, 0)
      /\ r.pc = "drop" => Has(T2, r.o, 0) /\ ~Has(T2, r.o, r.i)
  BY <1>3 DEF AtInv, Later
<1>5. ASSUME r.pc \in {"columns", "column"}
      PROVE  /\ r.o \in Objects /\ r.i > NLegacy /\ Has(T2, r.o, 0)
             /\ \A c \in r.todo : Columns[c] \in Fields[r.o]
             /\ \A c \in DOMAIN Columns :
                 c \notin r.todo /\ (r.pc = "column" => c # r.col) => PassedColumn(T2, r.o, c)
  <2>1. /\ r.o \in Objects /\ r.i > NLegacy /\ Has(T, r.o, 0)
        /\ \A c \in r.todo : Columns[c] \in Fields[r.o]
        /\ \A c \in DOMAIN Columns :
            c \notin r.todo /\ (r.pc = "column" => c # r.col) => PassedColumn(T, r.o, c)
    BY <1>5 DEF AtInv
  <2> QED
    BY <2>1 DEF Later
<1>6. r.pc = "adopted" => \A o \in Objects : Passed(T2, o)
  BY PassedKept DEF AtInv
<1> QED
  BY <1>1, <1>2, <1>3, <1>4, <1>5, <1>6 DEF AtInv

LEMMA LaterIsReflexive == \A T : Later(T, T)
BY DEF Later, PassedColumn, Has
-----------------------------------------------------------------------------
\* One table written.
Put(T, T2, o, i, t) ==
    /\ T2 = [n \in Names |-> T2[n]] /\ T2[<<o, i>>] = t
    /\ \A n \in Names : n # <<o, i>> => T2[n] = T[n]

LEMMA TablePut ==
    ASSUME NEW T, TabType(T), NEW o \in Objects, NEW i \in 0..NLegacy, NEW t, IsTable(t),
           NEW T2, Put(T, T2, o, i, t)
    PROVE  /\ TabType(T2) /\ T2[<<o, i>>] = t /\ Has(T2, o, i)
           /\ \A o2 \in Objects, i2 \in 0..NLegacy :
                o2 # o \/ i2 # i => T2[<<o2, i2>>] = T[<<o2, i2>>]
<1>1. \A o2 \in Objects, i2 \in 0..NLegacy :
          o2 # o \/ i2 # i => T2[<<o2, i2>>] = T[<<o2, i2>>]
  BY NameFacts DEF Put
<1>2. t # None
  BY TableIsThere
<1>3. T2 = [n \in Names |-> T2[n]] /\ T2[<<o, i>>] = t
  BY DEF Put
<1> QED
  BY <1>1, <1>2, <1>3 DEF TabType, Has

\* A declared table written: it may come only empty, or from the old release.
LEMMA DeclaredPut ==
    ASSUME NEW T, TabInv(T), NEW o \in Objects, NEW t, IsTable(t),
           NEW T2, Put(T, T2, o, 0, t),
           ReadableCols(t.cols, o), WholeCols(t.cols, o),
           \A c \in DOMAIN Columns :
               /\ Columns[c] \in Fields[o] /\ c \in DOMAIN t.cols
               /\ Has(T, o, 0) => PassedColumn(T, o, c)
               => Columns[c] \in DOMAIN t.cols
    PROVE  TabInv(T2) /\ Later(T, T2)
<1>1. /\ TabType(T2) /\ T2[<<o, 0>>] = t /\ Has(T2, o, 0)
      /\ \A o2 \in Objects, i2 \in 0..NLegacy :
            o2 # o \/ i2 # 0 => T2[<<o2, i2>>] = T[<<o2, i2>>]
  <2>1. TabType(T) /\ 0 \in 0..NLegacy
    BY NameFacts DEF TabInv
  <2> QED
    BY <2>1, TablePut
<1>2. \A o2 \in Objects : o2 # o => T2[<<o2, 0>>] = T[<<o2, 0>>]
  BY <1>1, NameFacts
<1>3. \A o2 \in Objects, i \in Legacy : T2[<<o2, i>>] = T[<<o2, i>>]
  BY <1>1, NameFacts
<1>4. TabInv(T2)
  BY <1>1, <1>2 DEF TabInv, Has
<1>5. ASSUME NEW o2 \in Objects
      PROVE  /\ Has(T, o2, 0) => Has(T2, o2, 0)
             /\ \A c \in DOMAIN Columns :
                /\ Has(T, o2, 0) /\ PassedColumn(T, o2, c) => PassedColumn(T2, o2, c)
                /\ ~Has(T, o2, 0) /\ (\A i \in Legacy : ~Has(T, o2, i)) =>
                        PassedColumn(T2, o2, c)
  <2>1. CASE o2 = o
    BY <1>1, <2>1 DEF PassedColumn
  <2>2. CASE o2 # o
    BY <1>2, <2>2 DEF PassedColumn, Has
  <2> QED
    BY <2>1, <2>2
<1>6. Later(T, T2)
  BY <1>3, <1>5 DEF Later, Has
<1> QED
  BY <1>4, <1>6

\* A legacy table written.
LEMMA LegacyPut ==
    ASSUME NEW T, TabInv(T), NEW o \in Objects, NEW i \in Legacy, NEW t, IsTable(t),
           NEW T2, Put(T, T2, o, i, t), Has(T, o, i),
           WholeCols(t.cols, o),
           ReadableCols(T[<<o, i>>].cols, o) => ReadableCols(t.cols, o),
           Has(T, o, 0) => t.rows = T[<<o, i>>].rows
    PROVE  /\ TabInv(T2) /\ Later(T, T2)
           /\ \A o2 \in Objects : T2[<<o2, 0>>] = T[<<o2, 0>>]
<1>1. /\ TabType(T2) /\ T2[<<o, i>>] = t /\ Has(T2, o, i)
      /\ \A o2 \in Objects, i2 \in 0..NLegacy :
            o2 # o \/ i2 # i => T2[<<o2, i2>>] = T[<<o2, i2>>]
  <2>1. TabType(T) /\ i \in 0..NLegacy
    BY NameFacts DEF TabInv
  <2> QED
    BY <2>1, TablePut
<1>2. \A o2 \in Objects : T2[<<o2, 0>>] = T[<<o2, 0>>]
  BY <1>1, NameFacts
<1>3. TabInv(T2)
  BY <1>1, <1>2 DEF TabInv, Has
<1>4. \A o2 \in Objects, c \in DOMAIN Columns :
          /\ PassedColumn(T, o2, c) => PassedColumn(T2, o2, c)
          /\ ~Has(T, o2, 0) => PassedColumn(T2, o2, c)
  BY <1>2 DEF PassedColumn, Has
<1>5. ASSUME NEW o2 \in Objects, NEW i2 \in Legacy
      PROVE  /\ Has(T2, o2, i2) <=> Has(T, o2, i2)
             /\ Has(T2, o2, i2) /\ Has(T, o2, 0) => T2[<<o2, i2>>].rows = T[<<o2, i2>>].rows
             /\ ReadableCols(T[<<o2, i2>>].cols, o2) => ReadableCols(T2[<<o2, i2>>].cols, o2)
  <2>1. CASE o2 = o /\ i2 = i
    BY <1>1, <2>1
  <2>2. CASE o2 # o \/ i2 # i
    <3>1. T2[<<o2, i2>>] = T[<<o2, i2>>]
      BY <1>1, <2>2, NameFacts
    <3> QED
      BY <3>1 DEF Has
  <2> QED
    BY <2>1, <2>2
<1>6. Later(T, T2)
  BY <1>2, <1>4, <1>5 DEF Later, Has
<1> QED
  BY <1>2, <1>3, <1>6

\* A legacy table given the declared name.
LEMMA TableRenamed ==
    ASSUME NEW T, TabInv(T), NEW o \in Objects, NEW i \in Legacy,
           Has(T, o, i), ~Has(T, o, 0), ReadableCols(T[<<o, i>>].cols, o),
           NEW T2, T2 = [n \in Names |-> T2[n]],
           T2[<<o, 0>>] = T[<<o, i>>], T2[<<o, i>>] = None,
           \A n \in Names : n # <<o, 0>> /\ n # <<o, i>> => T2[n] = T[n]
    PROVE  TabInv(T2) /\ Later(T, T2) /\ Has(T2, o, 0) /\ ~Has(T2, o, i)
<1>1. /\ \A o2 \in Objects : o2 # o => T2[<<o2, 0>>] = T[<<o2, 0>>]
      /\ \A o2 \in Objects, i2 \in Legacy :
            o2 # o \/ i2 # i => T2[<<o2, i2>>] = T[<<o2, i2>>]
  BY NameFacts
<1>2. \A o2 \in Objects, i2 \in 0..NLegacy :
          \/ T2[<<o2, i2>>] = T[<<o2, i2>>]
          \/ T2[<<o2, i2>>] = None
          \/ o2 = o /\ i2 = 0
  BY <1>1, NameFacts
<1>3. i \in 0..NLegacy /\ Has(T2, o, 0) /\ ~Has(T2, o, i)
  BY NameFacts DEF Has
<1>4. TabType(T2)
  BY <1>2, <1>3 DEF TabInv, TabType, Has
<1>5. \A o2 \in Objects, i2 \in 0..NLegacy : Has(T2, o2, i2) => WholeCols(T2[<<o2, i2>>].cols, o2)
  BY <1>2, <1>3 DEF TabInv, Has
<1>6. \A o2 \in Objects : Has(T2, o2, 0) => ReadableCols(T2[<<o2, 0>>].cols, o2)
  BY <1>1 DEF TabInv, Has
<1>7. ASSUME NEW o2 \in Objects
      PROVE  /\ Has(T, o2, 0) => Has(T2, o2, 0)
             /\ \A i2 \in Legacy :
                /\ Has(T2, o2, i2) => Has(T, o2, i2) /\ T2[<<o2, i2>>] = T[<<o2, i2>>]
                /\ Has(T, o2, i2) /\ ~Has(T2, o2, i2) => Has(T2, o2, 0)
             /\ \A c \in DOMAIN Columns :
                /\ Has(T, o2, 0) /\ PassedColumn(T, o2, c) => PassedColumn(T2, o2, c)
                /\ ~Has(T, o2, 0) /\ (\A i2 \in Legacy : ~Has(T, o2, i2)) =>
                        PassedColumn(T2, o2, c)
  <2>1. CASE o2 = o
    BY <1>1, <1>3, <2>1 DEF Has
  <2>2. CASE o2 # o
    BY <1>1, <2>2 DEF Has, PassedColumn
  <2> QED
    BY <2>1, <2>2
<1>8. Later(T, T2)
  BY <1>7 DEF Later
<1> QED
  BY <1>3, <1>4, <1>5, <1>6, <1>8 DEF TabInv
-----------------------------------------------------------------------------
\* A step of process p, to r.
LEMMA ProcessStep ==
    ASSUME AdoptInv, NEW p \in Processes, NEW r \in AtType, at' = [at EXCEPT ![p] = r],
           TabInv(tab'), Later(tab, tab'), AtInv(tab', r),
           done' \in BOOLEAN, done' => done \/ \A o \in Objects : Passed(tab', o),
           cut' \in BOOLEAN, IndexInv'
    PROVE  AdoptInv'
<1>1. at \in [Processes -> AtType] /\ \A q \in Processes : AtInv(tab, at[q])
  BY DEF AdoptInv
<1>2. /\ at' \in [Processes -> AtType] /\ at'[p] = r
      /\ \A q \in Processes : q # p => at'[q] = at[q]
  BY <1>1
<1>3. ASSUME NEW q \in Processes PROVE AtInv(tab', at'[q])
  <2>1. CASE q = p
    BY <1>2, <2>1
  <2>2. CASE q # p
    <3>1. at[q] \in AtType /\ AtInv(tab, at[q])
      BY <1>1
    <3>2. AtInv(tab', at[q])
      BY <3>1, AtKept
    <3> QED
      BY <1>2, <2>2, <3>2
  <2> QED
    BY <2>1, <2>2
<1>4. done' => \A o \in Objects : Passed(tab', o)
  BY PassedKept DEF AdoptInv
<1> QED
  BY <1>2, <1>3, <1>4 DEF AdoptInv

\* One that touches no index of a declared table.
LEMMA IndexKept ==
    ASSUME AdoptInv, NEW p \in Processes, at[p].pc # "drop",
           NEW r, at' = [at EXCEPT ![p] = r], cut' = cut,
           \A o \in Objects : Has(tab', o, 0) =>
               \/ Has(tab, o, 0) /\ tab'[<<o, 0>>].idx = tab[<<o, 0>>].idx
               \/ \A x \in tab'[<<o, 0>>].idx : ~legacyIndex(x)
    PROVE  IndexInv'
<1>1. \A q \in Processes : at[q].pc = "drop" => at'[q] = at[q]
  BY DEF AdoptInv
<1> QED
  BY <1>1 DEF AdoptInv, IndexInv, Has

LEMMA LocalStep ==
    ASSUME AdoptInv, NEW p \in Processes, at[p].pc # "drop",
           NEW r \in AtType, at' = [at EXCEPT ![p] = r], tab' = tab, cut' = cut,
           AtInv(tab, r), done' = done
    PROVE  AdoptInv'
<1>1. IndexInv'
  BY IndexKept DEF Has
<1>2. TabInv(tab') /\ Later(tab, tab') /\ AtInv(tab', r)
  BY LaterIsReflexive DEF AdoptInv
<1>3. done' \in BOOLEAN /\ cut' \in BOOLEAN
  BY DEF AdoptInv
<1> QED
  BY <1>1, <1>2, <1>3, ProcessStep

LEMMA AtFacts ==
    /\ Loop \subseteq Places /\ "idle" \in Places /\ "check" \in Places /\ "adopted" \in Places
    /\ "legacy" \in Loop /\ "both" \in Loop /\ "count" \in Loop /\ "rename" \in Loop
    /\ "drop" \in Loop /\ "columns" \in Loop /\ "column" \in Loop
    /\ 1 \in Positive /\ \A n \in Positive : n \in Nat /\ n + 1 \in Positive
BY DEF Places, Loop, Positive

LEMMA StoppedIsFree == Stopped \in AtType /\ Stopped.pc = "idle" /\ \A T : AtInv(T, Stopped)
<1>1. Stopped \in AtType /\ Stopped.pc = "idle"
  BY AtFacts DEF Stopped, AtType
<1> QED
  BY <1>1 DEF AtInv, Loop

LEMMA FailsKept ==
    ASSUME AdoptInv, NEW p \in Processes, at[p].pc # "drop", Fails(p)
    PROVE  AdoptInv'
BY StoppedIsFree, LocalStep DEF Fails, Goto

\* A step of the world around the processes.
LEMMA WorldStep ==
    ASSUME AdoptInv, at' = at, done' = done, cut' = cut, TabInv(tab'), Later(tab, tab'),
           \A o \in Objects : Has(tab', o, 0) =>
               \/ Has(tab, o, 0) /\ tab'[<<o, 0>>].idx = tab[<<o, 0>>].idx
               \/ \A x \in tab'[<<o, 0>>].idx : ~legacyIndex(x)
    PROVE  AdoptInv'
<1>1. at \in [Processes -> AtType] /\ \A q \in Processes : AtInv(tab, at[q])
  BY DEF AdoptInv
<1>2. ASSUME NEW q \in Processes PROVE AtInv(tab', at'[q])
  <2>1. at[q] \in AtType /\ AtInv(tab, at[q])
    BY <1>1
  <2>2. AtInv(tab', at[q])
    BY <2>1, AtKept
  <2> QED
    BY <2>2
<1>3. done' => \A o \in Objects : Passed(tab', o)
  BY PassedKept DEF AdoptInv
<1>4. IndexInv'
  BY DEF AdoptInv, IndexInv, Has
<1> QED
  BY <1>1, <1>2, <1>3, <1>4 DEF AdoptInv
-----------------------------------------------------------------------------
\* The check before the loop.
LEMMA AdoptLegacyKept ==
    ASSUME AdoptInv, NEW p \in Processes, AdoptLegacy(p)
    PROVE  AdoptInv'
<1> DEFINE r == [Stopped EXCEPT !.pc = "check"]
<1>1. r \in AtType /\ r.pc = "check" /\ r.o = 1
  BY AtFacts DEF Stopped, AtType
<1>2. AtInv(tab, r)
  BY <1>1, AdoptAssumption DEF AtInv, Loop, Objects
<1>3. /\ at' = [at EXCEPT ![p] = r] /\ tab' = tab /\ cut' = cut /\ done' = done
      /\ at[p].pc # "drop"
  BY DEF AdoptLegacy, Goto
<1> HIDE DEF r
<1> QED
  BY <1>1, <1>2, <1>3, LocalStep

\* A table in which no type problem was found is readable.
LEMMA NoProblem ==
    ASSUME AdoptInv, NEW o \in Objects, NEW i \in 0..NLegacy, Has(tab, o, i),
           FALSE \in adoptionTypeProblems(<<o, i>>, o)
    PROVE  ReadableCols(tab[<<o, i>>].cols, o)
<1> DEFINE cols == tab[<<o, i>>].cols
<1>1. \A c : HasColumn(<<o, i>>, c) <=> c \in DOMAIN cols
  BY DEF HasColumn, HasTable, Has
<1>2. \A c \in DOMAIN cols : cols[c].ok \in BOOLEAN
  <2>1. cols \in [DOMAIN cols -> Cells]
    BY DEF AdoptInv, TabInv, TabType, IsTable
  <2> QED
    BY <2>1 DEF Cells
<1>3. ASSUME NEW f \in Fields[o], NEW c \in heldColumnFor(<<o, i>>, f), cols[c].ok = FALSE
      PROVE  \E d \in heldColumnFor(<<o, i>>, f) : cols[d].ok = TRUE
  BY <1>3 DEF adoptionTypeProblems
<1>4. ASSUME NEW c \in DOMAIN cols, ~cols[c].ok, c \in Fields[o]
      PROVE  FALSE
  <2>1. heldColumnFor(<<o, i>>, c) = {c}
    BY <1>1, <1>4 DEF heldColumnFor
  <2> QED
    BY <1>3, <1>4, <2>1, <1>2
<1>5. ASSUME NEW c \in DOMAIN cols, ~cols[c].ok, c \in DOMAIN Columns, Columns[c] \in Fields[o],
             Columns[c] \notin DOMAIN cols
      PROVE  Ambiguous(Columns[c])
  <2>1. /\ c \in heldColumnFor(<<o, i>>, Columns[c])
        /\ \A d \in heldColumnFor(<<o, i>>, Columns[c]) : d \in DOMAIN Columns /\ Columns[d] = Columns[c]
    BY <1>1, <1>5 DEF heldColumnFor
  <2>2. PICK d \in heldColumnFor(<<o, i>>, Columns[c]) : cols[d].ok = TRUE
    BY <1>3, <1>5, <2>1, <1>2
  <2>3. d # c /\ d \in DOMAIN Columns /\ Columns[d] = Columns[c]
    BY <1>5, <2>1, <2>2
  <2> QED
    BY <1>5, <2>3 DEF Ambiguous
<1> QED
  BY <1>4, <1>5 DEF ReadableCols

LEMMA CheckKept ==
    ASSUME AdoptInv, NEW p \in Processes, checkAdoptedColumnTypes(p)
    PROVE  AdoptInv'
<1> DEFINE o == at[p].o
           first == {i \in 1..NLegacy : HasTable(<<o, i>>)
                        /\ \A j \in 1..(i - 1) : ~HasTable(<<o, j>>)}
<1>1. /\ at[p] \in AtType /\ at[p].pc = "check" /\ o <= NObjects /\ o \in Nat
      /\ at[p].bad \in BOOLEAN /\ AtInv(tab, at[p]) /\ o \in Positive /\ o + 1 \in Positive
  BY AtFacts DEF AdoptInv, AtType, checkAdoptedColumnTypes
<1>2. PICK problem \in BOOLEAN :
          /\ IF HasTable(<<o, 0>>) \/ first = {} THEN ~problem
             ELSE \E i \in first : problem \in adoptionTypeProblems(<<o, i>>, o)
          /\ at' = [at EXCEPT ![p] = [at[p] EXCEPT !.o = @ + 1, !.bad = @ \/ problem]]
  BY DEF checkAdoptedColumnTypes, Goto
<1> DEFINE r == [at[p] EXCEPT !.o = o + 1, !.bad = at[p].bad \/ problem]
<1>3. /\ at' = [at EXCEPT ![p] = r] /\ tab' = tab /\ cut' = cut /\ done' = done
      /\ at[p].pc # "drop"
  BY <1>2, <1>1 DEF checkAdoptedColumnTypes
<1>4. ASSUME ~problem, o \in Objects PROVE Clear(tab, o)
  <2> SUFFICES ASSUME ~Has(tab, o, 0), NEW i \in Legacy, Has(tab, o, i),
                      \A j \in 1..(i - 1) : ~Has(tab, o, j)
               PROVE  ReadableCols(tab[<<o, i>>].cols, o)
    BY DEF Clear
  <2>1. i \in first
    BY DEF Has, HasTable, Legacy
  <2>2. FALSE \in adoptionTypeProblems(<<o, i>>, o)
    <3>1. \A j \in first : j = i
      BY <2>1, AdoptAssumption
    <3>2. ~HasTable(<<o, 0>>) /\ first # {}
      BY <2>1 DEF Has, HasTable
    <3>3. \E j \in first : problem \in adoptionTypeProblems(<<o, j>>, o)
      BY <1>2, <3>2
    <3>4. problem \in adoptionTypeProblems(<<o, i>>, o)
      BY <3>1, <3>3
    <3> QED
      BY <1>2, <1>4, <3>4
  <2>3. i \in 0..NLegacy
    BY NameFacts
  <2> HIDE DEF o
  <2> QED
    BY <1>4, <2>2, <2>3, NoProblem
<1>5. problem \in BOOLEAN
  BY <1>2
<1>6. /\ r \in AtType /\ r.pc = "check" /\ r.o = o + 1
      /\ r.bad = (at[p].bad \/ problem)
  BY <1>1, <1>5 DEF AtType
<1> HIDE DEF r
<1>7. ASSUME ~r.bad, NEW q \in Objects, q < o + 1
      PROVE  Clear(tab, q)
  <2>1. ~at[p].bad /\ ~problem
    BY <1>1, <1>5, <1>6, <1>7
  <2>2. q < o \/ q = o
    BY <1>1, <1>7 DEF Objects
  <2>3. CASE q < o
    BY <1>1, <2>1, <2>3 DEF AtInv
  <2>4. CASE q = o
    BY <1>4, <2>1, <2>4
  <2> QED
    BY <2>2, <2>3, <2>4
<1>8. AtInv(tab, r)
  BY <1>6, <1>7 DEF AtInv, Loop
<1> QED
  BY <1>3, <1>6, <1>8, LocalStep

LEMMA CheckedKept ==
    ASSUME AdoptInv, NEW p \in Processes, Checked(p)
    PROVE  AdoptInv'
<1>1. /\ at[p] \in AtType /\ at[p].pc = "check" /\ at[p].o > NObjects
      /\ AtInv(tab, at[p]) /\ at[p].pc # "drop" /\ at[p].o \in Nat
  BY AtFacts DEF AdoptInv, AtType, Checked
<1>2. CASE at[p].bad
  BY <1>1, <1>2, FailsKept DEF Checked
<1>3. CASE ~at[p].bad
  <2> DEFINE r == [Stopped EXCEPT !.pc = "legacy"]
  <2>1. r \in AtType /\ r.pc = "legacy" /\ r.o = 1 /\ r.i = 1
    BY AtFacts DEF Stopped, AtType
  <2>2. at' = [at EXCEPT ![p] = r] /\ tab' = tab /\ cut' = cut /\ done' = done
    BY <1>3 DEF Checked, Goto
  <2> HIDE DEF r
  <2>3. \A o \in Objects : Clear(tab, o)
    BY <1>1, <1>3, AdoptAssumption DEF AtInv, Objects
  <2>4. AtInv(tab, r)
    BY <2>1, <2>3, AdoptAssumption DEF AtInv, Objects, Legacy
  <2> QED
    BY <1>1, <2>1, <2>2, <2>4, LocalStep
<1> QED
  BY <1>2, <1>3
-----------------------------------------------------------------------------
\* The loop over the legacy names.
LEMMA NextLegacyFine ==
    ASSUME NEW T, NEW r \in AtType, AtInv(T, r), r.pc \in Loop, r.o \in Objects,
           r.i \in Legacy, PassedTable(T, r.o, r.i)
    PROVE  NextLegacy(r) \in AtType /\ AtInv(T, NextLegacy(r))
<1> DEFINE s == NextLegacy(r)
<1>1. s \in AtType /\ s.pc = "legacy" /\ s.o = r.o /\ s.i = r.i + 1 /\ r.i \in Nat
  <2>1. "legacy" \in Places /\ r.i + 1 \in Positive /\ r.i \in Nat
    BY AtFacts DEF AtType
  <2> QED
    BY <2>1 DEF NextLegacy, AtType
<1> HIDE DEF s
<1>2. \A i \in Legacy : i < s.i => PassedTable(T, r.o, i)
  <2>1. \A i \in Legacy : i < s.i => i < r.i \/ i = r.i
    BY <1>1 DEF Legacy
  <2> QED
    BY <2>1 DEF AtInv
<1>3. \A o \in Objects : Clear(T, o) /\ (o < r.o => Passed(T, o))
  BY DEF AtInv
<1>4. AtInv(T, s)
  BY <1>1, <1>2, <1>3 DEF AtInv
<1> QED
  BY <1>1, <1>4 DEF s

\* What holds of a process in the loop, in any place.
LEMMA InLoop ==
    ASSUME AdoptInv, NEW p \in Processes, at[p].pc \in Loop
    PROVE  /\ at[p] \in AtType /\ AtInv(tab, at[p])
           /\ at[p].o \in Positive /\ at[p].i \in Positive
           /\ at[p].o <= NObjects <=> at[p].o \in Objects
           /\ at[p].i <= NLegacy <=> at[p].i \in Legacy
           /\ \A o \in Objects : Clear(tab, o) /\ (o < at[p].o => Passed(tab, o))
           /\ at[p].o \in Objects =>
                \A i \in Legacy : i < at[p].i => PassedTable(tab, at[p].o, i)
<1>1. at[p] \in AtType /\ AtInv(tab, at[p])
  BY DEF AdoptInv
<1>2. at[p].o \in Positive /\ at[p].i \in Positive
  BY <1>1 DEF AtType
<1>3. /\ at[p].o <= NObjects <=> at[p].o \in Objects
      /\ at[p].i <= NLegacy <=> at[p].i \in Legacy
  BY <1>2, AdoptAssumption DEF Objects, Legacy, Positive
<1> QED
  BY <1>1, <1>2, <1>3 DEF AtInv

\* A process goes on at another place of the same round.
LEMMA SameRound ==
    ASSUME AdoptInv, NEW p \in Processes, at[p].pc \in Loop, NEW place \in Loop
    PROVE  LET s == [at[p] EXCEPT !.pc = place]
           IN  /\ s \in AtType /\ s.pc = place /\ s.o = at[p].o /\ s.i = at[p].i
               /\ s.todo = at[p].todo /\ s.col = at[p].col
BY InLoop, AtFacts DEF AtType

LEMMA FindLegacyKept ==
    ASSUME AdoptInv, NEW p \in Processes, FindLegacy(p)
    PROVE  AdoptInv'
<1> DEFINE r == at[p]
           s == [r EXCEPT !.pc = "both"]
<1>1. r.pc = "legacy" /\ r.pc \in Loop /\ "both" \in Loop /\ r.o <= NObjects /\ r.i <= NLegacy
  BY DEF FindLegacy, Loop
<1>2. /\ r \in AtType /\ AtInv(tab, r) /\ r.o \in Objects /\ r.i \in Legacy
      /\ \A o \in Objects : Clear(tab, o) /\ (o < r.o => Passed(tab, o))
      /\ \A i \in Legacy : i < r.i => PassedTable(tab, r.o, i)
  BY <1>1, InLoop
<1>3. tab' = tab /\ cut' = cut /\ done' = done /\ at[p].pc # "drop"
  BY <1>1 DEF FindLegacy
<1>4. CASE HasTable(<<r.o, r.i>>)
  <2>1. at' = [at EXCEPT ![p] = s]
    BY <1>4 DEF FindLegacy, Goto
  <2>2. s \in AtType /\ s.pc = "both" /\ s.o = r.o /\ s.i = r.i
    BY <1>1, SameRound
  <2> HIDE DEF s, r
  <2>3. AtInv(tab, s)
    BY <1>2, <2>2 DEF AtInv
  <2> QED
    BY <1>3, <2>1, <2>2, <2>3, LocalStep
<1>5. CASE ~HasTable(<<r.o, r.i>>)
  <2>1. at' = [at EXCEPT ![p] = NextLegacy(r)]
    BY <1>5 DEF FindLegacy, Goto
  <2>2. PassedTable(tab, r.o, r.i)
    BY <1>5 DEF PassedTable, Has, HasTable
  <2>3. NextLegacy(r) \in AtType /\ AtInv(tab, NextLegacy(r))
    <3> HIDE DEF r
    <3> QED
      BY <1>1, <1>2, <2>2, NextLegacyFine
  <2> QED
    BY <1>3, <2>1, <2>3, LocalStep
<1> QED
  BY <1>4, <1>5

LEMMA FindDeclaredKept ==
    ASSUME AdoptInv, NEW p \in Processes, FindDeclared(p)
    PROVE  AdoptInv'
<1> DEFINE r == at[p]
           place == IF HasTable(<<r.o, 0>>) THEN "count" ELSE "rename"
           s == [r EXCEPT !.pc = place]
<1>1. r.pc = "both" /\ r.pc \in Loop /\ place \in Loop
  BY DEF FindDeclared, Loop
<1>2. /\ r.o \in Objects /\ r.i \in Legacy
      /\ \A o \in Objects : Clear(tab, o) /\ (o < r.o => Passed(tab, o))
      /\ \A i \in Legacy : i < r.i => PassedTable(tab, r.o, i)
  BY <1>1, InLoop DEF AtInv
<1>3. /\ at' = [at EXCEPT ![p] = s] /\ tab' = tab /\ cut' = cut /\ done' = done
      /\ at[p].pc # "drop"
  BY <1>1 DEF FindDeclared, Goto
<1>4. (place = "count" /\ Has(tab, r.o, 0)) \/ place = "rename"
  BY DEF Has, HasTable
<1> HIDE DEF place
<1>5. s \in AtType /\ s.pc = place /\ s.o = r.o /\ s.i = r.i
  BY <1>1, SameRound
<1> HIDE DEF s, r
<1>6. AtInv(tab, s)
  BY <1>2, <1>4, <1>5 DEF AtInv
<1> QED
  BY <1>3, <1>5, <1>6, LocalStep

LEMMA CountKept ==
    ASSUME AdoptInv, NEW p \in Processes, Count(p)
    PROVE  AdoptInv'
<1> DEFINE r == at[p]
<1>1. r.pc = "count" /\ r.pc \in Loop /\ r.pc # "drop"
  BY DEF Count, Loop
<1>2. /\ r \in AtType /\ AtInv(tab, r) /\ r.o \in Objects /\ r.i \in Legacy
      /\ Has(tab, r.o, 0)
  BY <1>1, InLoop DEF AtInv
<1>3. CASE Stranded(<<r.o, r.i>>)
  BY <1>1, <1>3, FailsKept DEF Count
<1>4. CASE ~Stranded(<<r.o, r.i>>)
  <2>1. /\ at' = [at EXCEPT ![p] = NextLegacy(r)]
        /\ tab' = tab /\ cut' = cut /\ done' = done
    BY <1>4 DEF Count, Goto
  <2>2. Has(tab, r.o, r.i) /\ IsTable(tab[<<r.o, r.i>>])
    BY <1>2, <1>4, NameFacts DEF Stranded, Has, HasTable, AdoptInv, TabInv, TabType
  <2>3. tab[<<r.o, r.i>>].rows \in Nat /\ tab[<<r.o, r.i>>].late \in Nat
    BY <2>2 DEF IsTable
  <2>4. tab[<<r.o, r.i>>].rows = 0
    BY <1>4, <2>3 DEF Stranded
  <2>5. PassedTable(tab, r.o, r.i)
    BY <1>2, <2>4 DEF PassedTable
  <2>6. NextLegacy(r) \in AtType /\ AtInv(tab, NextLegacy(r))
    <3> HIDE DEF r
    <3> QED
      BY <1>1, <1>2, <2>5, NextLegacyFine
  <2> QED
    BY <1>1, <2>1, <2>6, LocalStep
<1> QED
  BY <1>3, <1>4

LEMMA StatePut ==
    ASSUME TabInv(tab), NEW o \in Objects, NEW i \in 0..NLegacy, NEW t,
           tab' = [tab EXCEPT ![<<o, i>>] = t]
    PROVE  Put(tab, tab', o, i, t)
<1>1. tab = [n \in Names |-> tab[n]] /\ <<o, i>> \in Names
  BY NameFacts DEF TabInv, TabType
<1> QED
  BY <1>1 DEF Put

LEMMA RenameTableKept ==
    ASSUME AdoptInv, NEW p \in Processes, RenameTable(p)
    PROVE  AdoptInv'
<1> DEFINE r == at[p]
           s == [r EXCEPT !.pc = "drop"]
<1>1. r.pc = "rename" /\ r.pc \in Loop /\ r.pc # "drop"
  BY AtFacts DEF RenameTable
<1>2. /\ r \in AtType /\ AtInv(tab, r) /\ r.o \in Objects /\ r.i \in Legacy
      /\ Clear(tab, r.o) /\ \A j \in Legacy : j < r.i => PassedTable(tab, r.o, j)
  BY <1>1, InLoop DEF AtInv
<1>3. CASE ~HasTable(<<r.o, r.i>>) \/ HasTable(<<r.o, 0>>)
  BY <1>1, <1>3, FailsKept DEF RenameTable
<1>4. CASE HasTable(<<r.o, r.i>>) /\ ~HasTable(<<r.o, 0>>)
  <2>1. /\ at' = [at EXCEPT ![p] = s] /\ done' = done /\ cut' = cut
        /\ tab' = [tab EXCEPT ![<<r.o, 0>>] = tab[<<r.o, r.i>>], ![<<r.o, r.i>>] = None]
    BY <1>4 DEF RenameTable, Goto
  <2>2. s \in AtType /\ s.pc = "drop" /\ s.o = r.o /\ s.i = r.i
    BY <1>1, AtFacts, SameRound
  <2> HIDE DEF s
  <2>3. Has(tab, r.o, r.i) /\ ~Has(tab, r.o, 0)
    BY <1>4 DEF Has, HasTable
  <2>4. ReadableCols(tab[<<r.o, r.i>>].cols, r.o)
    <3>1. \A j \in 1..(r.i - 1) : j \in Legacy /\ j < r.i
      BY <1>2, AdoptAssumption DEF Legacy
    <3>2. \A j \in 1..(r.i - 1) : ~Has(tab, r.o, j)
      BY <1>2, <2>3, <3>1 DEF PassedTable
    <3> QED
      BY <1>2, <2>3, <3>2 DEF Clear
  <2>5. tab = [n \in Names |-> tab[n]] /\ TabInv(tab)
    BY DEF AdoptInv, TabInv, TabType
  <2> HIDE DEF r
  <2>6. /\ <<r.o, 0>> \in Names /\ <<r.o, r.i>> \in Names
        /\ <<r.o, 0>> # <<r.o, r.i>>
    BY <1>2, NameFacts
  <2>7. /\ tab' = [n \in Names |-> tab'[n]]
        /\ tab'[<<r.o, 0>>] = tab[<<r.o, r.i>>] /\ tab'[<<r.o, r.i>>] = None
        /\ \A n \in Names : n # <<r.o, 0>> /\ n # <<r.o, r.i>> => tab'[n] = tab[n]
    BY <2>1, <2>5, <2>6
  <2>8. TabInv(tab') /\ Later(tab, tab') /\ Has(tab', r.o, 0) /\ ~Has(tab', r.o, r.i)
    BY <1>2, <2>3, <2>4, <2>5, <2>7, TableRenamed
  <2>9. AtInv(tab', r)
    BY <1>2, <2>8, AtKept
  <2>10. AtInv(tab', s)
    BY <1>1, <1>2, <2>2, <2>8, <2>9 DEF AtInv
  <2>11. IndexInv'
    <3>1. /\ at'[p] = s
          /\ \A q \in Processes : at[q].pc = "drop" => at'[q] = at[q]
      BY <1>1, <2>1 DEF AdoptInv, r
    <3>2. \A o \in Objects : o # r.o => tab'[<<o, 0>>] = tab[<<o, 0>>]
      BY <1>2, <2>7, NameFacts
    <3> QED
      BY <2>1, <2>2, <3>1, <3>2 DEF AdoptInv, IndexInv, Has
  <2>12. done' \in BOOLEAN /\ cut' \in BOOLEAN
    BY <2>1 DEF AdoptInv
  <2> QED
    BY <2>1, <2>2, <2>8, <2>10, <2>11, <2>12, ProcessStep
<1> QED
  BY <1>3, <1>4

LEMMA DropIndexesKept ==
    ASSUME AdoptInv, NEW p \in Processes, DropIndexes(p)
    PROVE  AdoptInv'
<1> DEFINE r == at[p]
           old == tab[<<r.o, 0>>]
           t == [old EXCEPT !.idx = @ \ LegacyIndexes(r.o, r.i)]
<1>1. r.pc = "drop" /\ r.pc \in Loop
  BY AtFacts DEF DropIndexes
<1>2. /\ r \in AtType /\ AtInv(tab, r) /\ r.o \in Objects /\ r.i \in Legacy
      /\ Has(tab, r.o, 0) /\ ~Has(tab, r.o, r.i)
  BY <1>1, InLoop DEF AtInv
<1>3. /\ at' = [at EXCEPT ![p] = NextLegacy(r)] /\ done' = done /\ cut' = cut
      /\ tab' = [tab EXCEPT ![<<r.o, 0>>] = t]
  BY DEF DropIndexes, Goto
<1>4. /\ TabInv(tab) /\ 0 \in 0..NLegacy /\ IsTable(old)
      /\ ReadableCols(old.cols, r.o) /\ WholeCols(old.cols, r.o)
  BY <1>2, NameFacts DEF AdoptInv, TabInv, TabType
<1>5. t.cols = old.cols /\ t.idx = old.idx \ LegacyIndexes(r.o, r.i) /\ IsTable(t)
  BY <1>4 DEF IsTable
<1>6. \A x \in t.idx : ~legacyIndex(x)
  BY <1>5 DEF LegacyIndexes
<1> HIDE DEF t
<1>7. Put(tab, tab', r.o, 0, t)
  <2> HIDE DEF r
  <2> QED
    BY <1>2, <1>3, <1>4, StatePut
<1>8. \A c \in DOMAIN Columns :
          /\ Columns[c] \in Fields[r.o] /\ c \in DOMAIN t.cols
          /\ Has(tab, r.o, 0) => PassedColumn(tab, r.o, c)
          => Columns[c] \in DOMAIN t.cols
  BY <1>2, <1>5 DEF PassedColumn
<1>9. TabInv(tab') /\ Later(tab, tab')
  <2>1. ReadableCols(t.cols, r.o) /\ WholeCols(t.cols, r.o)
    BY <1>4, <1>5
  <2> HIDE DEF r, old
  <2> QED
    BY <1>2, <1>4, <1>5, <1>7, <1>8, <2>1, DeclaredPut
<1> HIDE DEF r
<1>10. AtInv(tab', r)
  BY <1>2, <1>9, AtKept
<1>11. PassedTable(tab', r.o, r.i)
  BY <1>2, <1>9 DEF Later, PassedTable
<1>12. NextLegacy(r) \in AtType /\ AtInv(tab', NextLegacy(r))
  BY <1>1, <1>2, <1>10, <1>11, NextLegacyFine
<1>13. IndexInv'
  <2>1. \A q \in Processes : at[q].pc = "drop" /\ at[q].o # r.o => at'[q] = at[q]
    BY <1>3 DEF AdoptInv, r
  <2>2. /\ tab'[<<r.o, 0>>] = t
        /\ \A o \in Objects : o # r.o => tab'[<<o, 0>>] = tab[<<o, 0>>]
    BY <1>2, <1>7, NameFacts DEF Put
  <2> QED
    BY <1>3, <1>6, <2>1, <2>2 DEF AdoptInv, IndexInv, Has
<1>14. done' \in BOOLEAN /\ cut' \in BOOLEAN
  BY <1>3 DEF AdoptInv
<1> QED
  BY <1>3, <1>9, <1>12, <1>13, <1>14, ProcessStep
-----------------------------------------------------------------------------
\* The columns of one object.
LEMMA NextObjectFine ==
    ASSUME NEW T, NEW r \in AtType, AtInv(T, r), r.pc \in Loop, r.o \in Objects,
           Passed(T, r.o), NEW s \in AtType, s.pc = "legacy", s.o = r.o + 1, s.i = 1
    PROVE  AtInv(T, s)
<1>1. r.o \in Nat
  BY AtFacts DEF AtType
<1>2. \A o \in Objects : o < s.o => o < r.o \/ o = r.o
  BY <1>1 DEF Objects
<1>3. \A o \in Objects : Clear(T, o) /\ (o < r.o => Passed(T, o))
  BY DEF AtInv
<1>4. \A o \in Objects : o < s.o => Passed(T, o)
  BY <1>2, <1>3
<1>5. \A i \in Legacy : ~(i < s.i)
  BY AdoptAssumption DEF Legacy
<1> QED
  BY <1>3, <1>4, <1>5 DEF AtInv

LEMMA FindColumnsKept ==
    ASSUME AdoptInv, NEW p \in Processes, FindColumns(p)
    PROVE  AdoptInv'
<1> DEFINE r == at[p]
           columns == {c \in DOMAIN Columns : Columns[c] \in Fields[r.o]}
<1>1. r.pc = "legacy" /\ r.pc \in Loop /\ r.o <= NObjects /\ r.i > NLegacy /\ r.pc # "drop"
  BY AtFacts DEF FindColumns
<1>2. /\ r \in AtType /\ AtInv(tab, r) /\ r.o \in Objects /\ r.o \in Positive /\ r.i \in Positive
      /\ \A o \in Objects : Clear(tab, o) /\ (o < r.o => Passed(tab, o))
      /\ \A i \in Legacy : i < r.i => PassedTable(tab, r.o, i)
  BY <1>1, InLoop
<1>3. tab' = tab /\ cut' = cut /\ done' = done
  BY DEF FindColumns
<1>4. \A i \in Legacy : i < r.i
  <2>1. r.i \in Nat
    BY <1>2, AtFacts
  <2> QED
    BY <1>1, <2>1, AdoptAssumption DEF Legacy
<1>5. CASE HasTable(<<r.o, 0>>)
  <2> DEFINE s == [r EXCEPT !.pc = "columns", !.todo = columns]
  <2>1. at' = [at EXCEPT ![p] = s]
    BY <1>5 DEF FindColumns, Goto
  <2>2. columns \in SUBSET DOMAIN Columns
    OBVIOUS
  <2>3. \A c \in DOMAIN Columns : c \in columns <=> Columns[c] \in Fields[r.o]
    OBVIOUS
  <2> HIDE DEF columns
  <2>4. s \in AtType /\ s.pc = "columns" /\ s.o = r.o /\ s.i = r.i /\ s.todo = columns
    BY <1>2, <2>2, AtFacts DEF AtType
  <2> HIDE DEF s, r
  <2>5. Has(tab, r.o, 0)
    BY <1>5 DEF Has, HasTable
  <2>6. \A c \in DOMAIN Columns : c \notin columns => PassedColumn(tab, r.o, c)
    BY <2>3 DEF PassedColumn
  <2>7. AtInv(tab, s)
    BY <1>1, <1>2, <2>2, <2>3, <2>4, <2>5, <2>6 DEF AtInv
  <2> QED
    BY <1>1, <1>3, <2>1, <2>4, <2>7, LocalStep DEF r
<1>6. CASE ~HasTable(<<r.o, 0>>)
  <2> DEFINE s == [r EXCEPT !.o = @ + 1, !.i = 1]
  <2>1. at' = [at EXCEPT ![p] = s]
    BY <1>6 DEF FindColumns, Goto
  <2>2. 1 \in Positive /\ r.o + 1 \in Positive
    BY <1>2, AtFacts
  <2>3. s \in AtType /\ s.pc = "legacy" /\ s.o = r.o + 1 /\ s.i = 1
    BY <1>1, <1>2, <2>2 DEF AtType
  <2> HIDE DEF s, r
  <2>4. Passed(tab, r.o)
    BY <1>2, <1>4, <1>6 DEF Passed, PassedColumn, Has, HasTable
  <2>5. AtInv(tab, s)
    BY <1>1, <1>2, <2>3, <2>4, NextObjectFine
  <2> QED
    BY <1>1, <1>3, <2>1, <2>3, <2>5, LocalStep DEF r
<1> QED
  BY <1>5, <1>6

\* What holds of a process among the columns of a table.
LEMMA InColumns ==
    ASSUME AdoptInv, NEW p \in Processes, at[p].pc \in {"columns", "column"}
    PROVE  /\ at[p].pc \in Loop /\ at[p].pc # "drop"
           /\ at[p].o \in Objects /\ at[p].i > NLegacy /\ Has(tab, at[p].o, 0)
           /\ at[p].todo \in SUBSET DOMAIN Columns
           /\ \A c \in at[p].todo : Columns[c] \in Fields[at[p].o]
           /\ \A c \in DOMAIN Columns :
                c \notin at[p].todo /\ (at[p].pc = "column" => c # at[p].col) =>
                    PassedColumn(tab, at[p].o, c)
           /\ \A o \in Objects : Clear(tab, o) /\ (o < at[p].o => Passed(tab, o))
           /\ \A i \in Legacy : PassedTable(tab, at[p].o, i)
<1>1. at[p].pc \in Loop /\ at[p].pc # "drop"
  BY AtFacts
<1>2. /\ at[p].o \in Objects /\ at[p].i > NLegacy /\ Has(tab, at[p].o, 0)
      /\ \A c \in at[p].todo : Columns[c] \in Fields[at[p].o]
      /\ \A c \in DOMAIN Columns :
            c \notin at[p].todo /\ (at[p].pc = "column" => c # at[p].col) =>
                PassedColumn(tab, at[p].o, c)
  BY DEF AdoptInv, AtInv
<1>3. at[p].todo \in SUBSET DOMAIN Columns /\ at[p].i \in Nat
  BY AtFacts DEF AdoptInv, AtType
<1>4. \A i \in Legacy : i < at[p].i
  BY <1>2, <1>3, AdoptAssumption DEF Legacy
<1> QED
  BY <1>1, <1>2, <1>3, <1>4, InLoop

LEMMA FindColumnKept ==
    ASSUME AdoptInv, NEW p \in Processes, NEW c \in DOMAIN Columns, FindColumn(p, c)
    PROVE  AdoptInv'
<1> DEFINE r == at[p]
           legacyOnly == HasColumn(<<r.o, 0>>, c) /\ ~HasColumn(<<r.o, 0>>, Columns[c])
           rest == r.todo \ {c}
<1>1. r.pc = "columns" /\ r.pc \in {"columns", "column"} /\ c \in r.todo
  BY DEF FindColumn
<1>2. /\ r \in AtType /\ r.pc \in Loop /\ r.pc # "drop"
      /\ r.o \in Objects /\ r.i > NLegacy /\ Has(tab, r.o, 0)
      /\ r.todo \in SUBSET DOMAIN Columns
      /\ \A d \in r.todo : Columns[d] \in Fields[r.o]
      /\ \A d \in DOMAIN Columns : d \notin r.todo => PassedColumn(tab, r.o, d)
      /\ \A o \in Objects : Clear(tab, o) /\ (o < r.o => Passed(tab, o))
      /\ \A i \in Legacy : PassedTable(tab, r.o, i)
  BY <1>1, InColumns DEF AdoptInv
<1>3. tab' = tab /\ cut' = cut /\ done' = done
  BY DEF FindColumn
<1>4. rest \in SUBSET DOMAIN Columns /\ rest \subseteq r.todo
  BY <1>2
<1>5. \A d \in DOMAIN Columns : d \notin rest /\ d # c => d \notin r.todo
  OBVIOUS
<1>6. CASE legacyOnly
  <2> DEFINE s == [r EXCEPT !.pc = "column", !.col = c, !.todo = rest]
  <2>1. at' = [at EXCEPT ![p] = s]
    BY <1>6 DEF FindColumn, Goto
  <2> HIDE DEF rest
  <2>2. /\ s \in AtType /\ s.pc = "column" /\ s.o = r.o /\ s.i = r.i
        /\ s.todo = rest /\ s.col = c
    BY <1>2, <1>4, AtFacts DEF AtType
  <2> HIDE DEF s, r
  <2>3. AtInv(tab, s)
    BY <1>1, <1>2, <1>4, <1>5, <2>2 DEF AtInv
  <2> QED
    BY <1>2, <1>3, <2>1, <2>2, <2>3, LocalStep DEF r
<1>7. CASE ~legacyOnly
  <2> DEFINE s == [r EXCEPT !.todo = rest]
  <2>1. at' = [at EXCEPT ![p] = s]
    BY <1>7 DEF FindColumn, Goto
  <2>2. PassedColumn(tab, r.o, c)
    BY <1>7 DEF PassedColumn, HasColumn, HasTable, Has
  <2> HIDE DEF rest, legacyOnly
  <2>3. /\ s \in AtType /\ s.pc = "columns" /\ s.o = r.o /\ s.i = r.i /\ s.todo = rest
    BY <1>1, <1>2, <1>4, AtFacts DEF AtType
  <2> HIDE DEF s, r
  <2>4. AtInv(tab, s)
    BY <1>1, <1>2, <1>4, <1>5, <2>2, <2>3 DEF AtInv
  <2> QED
    BY <1>2, <1>3, <2>1, <2>3, <2>4, LocalStep DEF r
<1> QED
  BY <1>6, <1>7

\* A declared table written with the indexes it has, or with none of the old release.
LEMMA IndexesKept ==
    ASSUME NEW T, NEW T2, NEW o \in Objects, NEW t, Put(T, T2, o, 0, t),
           \/ Has(T, o, 0) /\ t.idx = T[<<o, 0>>].idx
           \/ \A x \in t.idx : ~legacyIndex(x)
    PROVE  \A o2 \in Objects : Has(T2, o2, 0) =>
               \/ Has(T, o2, 0) /\ T2[<<o2, 0>>].idx = T[<<o2, 0>>].idx
               \/ \A x \in T2[<<o2, 0>>].idx : ~legacyIndex(x)
<1>1. /\ T2[<<o, 0>>] = t
      /\ \A o2 \in Objects : o2 # o => T2[<<o2, 0>>] = T[<<o2, 0>>]
  BY NameFacts DEF Put
<1> QED
  BY <1>1 DEF Has

\* The columns after a rename, where the table has the legacy name only.
LEMMA RenamedFine ==
    ASSUME NEW o \in Objects, NEW cols, cols \in [DOMAIN cols -> Cells],
           DOMAIN cols \subseteq ColumnNames, ReadableCols(cols, o), WholeCols(cols, o),
           NEW col \in DOMAIN Columns, Columns[col] \in Fields[o],
           col \in DOMAIN cols, Columns[col] \notin DOMAIN cols
    PROVE  LET new == Renamed(cols, col) IN
           /\ new \in [DOMAIN new -> Cells] /\ DOMAIN new \subseteq ColumnNames
           /\ ReadableCols(new, o) /\ WholeCols(new, o)
           /\ DOMAIN new = (DOMAIN cols \ {col}) \cup {Columns[col]}
<1> DEFINE new == Renamed(cols, col)
<1>1. DOMAIN new = (DOMAIN cols \ {col}) \cup {Columns[col]}
  BY DEF Renamed
<1>2. /\ new[Columns[col]] = cols[col]
      /\ \A c \in DOMAIN cols \ {col} : new[c] = cols[c]
  BY DEF Renamed
<1>3. new = [n \in DOMAIN new |-> new[n]]
  BY DEF Renamed
<1> HIDE DEF new
<1>4. Columns[col] \in ColumnNames
  BY DEF ColumnNames
<1>5. new \in [DOMAIN new -> Cells] /\ DOMAIN new \subseteq ColumnNames
  BY <1>1, <1>2, <1>3, <1>4
<1>6. \A c \in DOMAIN Columns : c # Columns[col] /\ col # Columns[c]
  BY AdoptAssumption
<1>7. ReadableCols(new, o)
  BY <1>1, <1>2, <1>6 DEF ReadableCols
<1>8. cols[col].data # Empty
  BY AdoptAssumption DEF WholeCols
<1>9. \A c \in DOMAIN new : new[c].data \in {Empty, Ahead} => c \in Fields[o]
  BY <1>1, <1>2 DEF WholeCols
<1>10. ASSUME NEW c \in DOMAIN Columns, Columns[c] \in Fields[o],
              c \in DOMAIN new, Columns[c] \in DOMAIN new
       PROVE  new[Columns[c]].data # Empty
  <2>1. c \in DOMAIN cols /\ c # col
    BY <1>1, <1>6, <1>10
  <2>2. CASE Columns[c] = Columns[col]
    BY <1>2, <1>8, <2>2
  <2>3. CASE Columns[c] # Columns[col]
    <3>1. Columns[c] \in DOMAIN cols \ {col}
      BY <1>1, <1>10, <2>3
    <3> QED
      BY <1>2, <1>10, <2>1, <3>1 DEF WholeCols
  <2> QED
    BY <2>2, <2>3
<1> QED
  BY <1>1, <1>5, <1>7, <1>9, <1>10 DEF WholeCols, new

LEMMA RenameColumnKept ==
    ASSUME AdoptInv, NEW p \in Processes, RenameColumn(p)
    PROVE  AdoptInv'
<1> DEFINE r == at[p]
           n == <<r.o, 0>>
           old == tab[n]
           s == [r EXCEPT !.pc = "columns", !.col = None]
<1>1. r.pc = "column" /\ r.pc \in {"columns", "column"}
  BY DEF RenameColumn
<1>2. /\ r.pc \in Loop /\ r.pc # "drop"
      /\ r.o \in Objects /\ r.i > NLegacy /\ Has(tab, r.o, 0)
  BY <1>1, InColumns
<1>3. /\ r \in AtType /\ AtInv(tab, r)
      /\ r.col \in DOMAIN Columns /\ Columns[r.col] \in Fields[r.o]
  BY <1>1 DEF AdoptInv, AtInv
<1>4. CASE ~HasColumn(n, r.col) \/ HasColumn(n, Columns[r.col])
  BY <1>2, <1>4, FailsKept DEF RenameColumn
<1>5. CASE HasColumn(n, r.col) /\ ~HasColumn(n, Columns[r.col])
  <2> DEFINE new == Renamed(old.cols, r.col)
             t == [old EXCEPT !.cols = new]
  <2>1. /\ at' = [at EXCEPT ![p] = s] /\ done' = done /\ cut' = cut
        /\ tab' = [tab EXCEPT ![n] = t]
    BY <1>5 DEF RenameColumn, Goto
  <2>2. s \in AtType /\ s.pc = "columns" /\ s.o = r.o /\ s.i = r.i /\ s.todo = r.todo
    BY <1>3, AtFacts DEF AtType
  <2> HIDE DEF s
  <2>3. /\ TabInv(tab) /\ 0 \in 0..NLegacy /\ IsTable(old)
        /\ ReadableCols(old.cols, r.o) /\ WholeCols(old.cols, r.o)
    BY <1>2, NameFacts DEF AdoptInv, TabInv, TabType
  <2>4. r.col \in DOMAIN old.cols /\ Columns[r.col] \notin DOMAIN old.cols
    BY <1>5 DEF HasColumn
  <2>5. old.cols \in [DOMAIN old.cols -> Cells] /\ DOMAIN old.cols \subseteq ColumnNames
    BY <2>3 DEF IsTable
  <2> HIDE DEF old, r
  <2>6. /\ new \in [DOMAIN new -> Cells] /\ DOMAIN new \subseteq ColumnNames
        /\ ReadableCols(new, r.o) /\ WholeCols(new, r.o)
        /\ DOMAIN new = (DOMAIN old.cols \ {r.col}) \cup {Columns[r.col]}
    BY <1>2, <1>3, <2>3, <2>4, <2>5, RenamedFine
  <2> HIDE DEF new
  <2>7. t.cols = new /\ t.idx = old.idx /\ IsTable(t)
    BY <2>3, <2>6 DEF IsTable
  <2> HIDE DEF t
  <2>8. Put(tab, tab', r.o, 0, t)
    BY <1>2, <2>1, <2>3, StatePut
  <2>9. \A c \in DOMAIN Columns :
            /\ Columns[c] \in Fields[r.o] /\ c \in DOMAIN t.cols
            /\ Has(tab, r.o, 0) => PassedColumn(tab, r.o, c)
            => Columns[c] \in DOMAIN t.cols
    <3>1. \A c \in DOMAIN Columns : c # Columns[r.col] /\ r.col # Columns[c]
      BY <1>3, AdoptAssumption
    <3> QED
      BY <1>2, <2>6, <2>7, <3>1 DEF PassedColumn, old
  <2>10. TabInv(tab') /\ Later(tab, tab')
    BY <1>2, <2>3, <2>6, <2>7, <2>8, <2>9, DeclaredPut
  <2>11. AtInv(tab', r)
    BY <1>3, <2>10, AtKept
  <2>12. PassedColumn(tab', r.o, r.col)
    <3>1. tab'[<<r.o, 0>>] = t /\ r.col # Columns[r.col]
      BY <1>3, <2>8, AdoptAssumption DEF Put
    <3> QED
      BY <2>6, <2>7, <3>1 DEF PassedColumn
  <2>13. AtInv(tab', s)
    BY <1>1, <1>2, <2>2, <2>11, <2>12 DEF AtInv
  <2>14. IndexInv'
    <3>1. \A o \in Objects : Has(tab', o, 0) =>
               \/ Has(tab, o, 0) /\ tab'[<<o, 0>>].idx = tab[<<o, 0>>].idx
               \/ \A x \in tab'[<<o, 0>>].idx : ~legacyIndex(x)
      BY <1>2, <2>7, <2>8, IndexesKept DEF old
    <3> QED
      BY <1>2, <2>1, <3>1, IndexKept DEF r
  <2>15. done' \in BOOLEAN /\ cut' \in BOOLEAN
    BY <2>1 DEF AdoptInv
  <2> QED
    BY <2>1, <2>2, <2>10, <2>13, <2>14, <2>15, ProcessStep
<1> QED
  BY <1>4, <1>5

LEMMA ColumnsDoneKept ==
    ASSUME AdoptInv, NEW p \in Processes, ColumnsDone(p)
    PROVE  AdoptInv'
<1> DEFINE r == at[p]
           s == [r EXCEPT !.pc = "legacy", !.o = @ + 1, !.i = 1]
<1>1. r.pc = "columns" /\ r.pc \in {"columns", "column"} /\ r.todo = {}
  BY DEF ColumnsDone
<1>2. /\ r.pc \in Loop /\ r.pc # "drop" /\ r.o \in Objects
      /\ \A c \in DOMAIN Columns : PassedColumn(tab, r.o, c)
      /\ \A i \in Legacy : PassedTable(tab, r.o, i)
  BY <1>1, InColumns
<1>3. r \in AtType /\ AtInv(tab, r) /\ r.o \in Positive
  BY DEF AdoptInv, AtType
<1>4. /\ at' = [at EXCEPT ![p] = s] /\ tab' = tab /\ done' = done /\ cut' = cut
  BY DEF ColumnsDone, Goto
<1>5. 1 \in Positive /\ r.o + 1 \in Positive
  BY <1>3, AtFacts
<1>6. s \in AtType /\ s.pc = "legacy" /\ s.o = r.o + 1 /\ s.i = 1
  BY <1>3, <1>5, AtFacts DEF AtType
<1> HIDE DEF s, r
<1>7. Passed(tab, r.o)
  BY <1>2 DEF Passed
<1>8. AtInv(tab, s)
  BY <1>2, <1>3, <1>6, <1>7, NextObjectFine
<1> QED
  BY <1>2, <1>4, <1>6, <1>8, LocalStep DEF r

LEMMA AdoptReturnsKept ==
    ASSUME AdoptInv, NEW p \in Processes, AdoptReturns(p)
    PROVE  AdoptInv'
<1> DEFINE r == [Stopped EXCEPT !.pc = "adopted"]
<1>1. at[p].pc = "legacy" /\ at[p].pc \in Loop /\ at[p].o > NObjects /\ at[p].pc # "drop"
  BY AtFacts DEF AdoptReturns
<1>2. r \in AtType /\ r.pc = "adopted"
  BY AtFacts DEF Stopped, AtType
<1>3. /\ at' = [at EXCEPT ![p] = r] /\ tab' = tab /\ done' = TRUE /\ cut' = cut
  BY DEF AdoptReturns, Goto
<1> HIDE DEF r
<1>4. \A o \in Objects : Passed(tab, o)
  <2>1. at[p].o \in Nat
    BY <1>1, InLoop, AtFacts
  <2>2. \A o \in Objects : o < at[p].o
    BY <1>1, <2>1, AdoptAssumption DEF Objects
  <2> QED
    BY <1>1, <2>2, InLoop
<1>5. AtInv(tab, r)
  BY <1>2, <1>4 DEF AtInv, Loop
<1>6. IndexInv'
  BY <1>1, <1>3, IndexKept DEF Has
<1>7. TabInv(tab') /\ Later(tab, tab') /\ AtInv(tab', r) /\ \A o \in Objects : Passed(tab', o)
  BY <1>3, <1>4, <1>5, LaterIsReflexive DEF AdoptInv
<1>8. done' \in BOOLEAN /\ cut' \in BOOLEAN
  BY <1>3 DEF AdoptInv
<1> QED
  BY <1>2, <1>3, <1>6, <1>7, <1>8, ProcessStep

LEMMA StopKept ==
    ASSUME AdoptInv, NEW p \in Processes, Stop(p)
    PROVE  AdoptInv'
<1>1. CASE at[p].pc # "drop"
  <2>1. cut \in BOOLEAN
    BY DEF AdoptInv
  <2>2. /\ at' = [at EXCEPT ![p] = Stopped] /\ tab' = tab /\ done' = done /\ cut' = cut
    BY <1>1, <2>1 DEF Stop, Goto
  <2> QED
    BY <1>1, <2>2, StoppedIsFree, LocalStep
<1>2. CASE at[p].pc = "drop"
  <2>1. /\ at' = [at EXCEPT ![p] = Stopped] /\ tab' = tab /\ done' = done /\ cut' = TRUE
    BY <1>2 DEF Stop, Goto
  <2>2. IndexInv'
    BY <2>1 DEF IndexInv
  <2>3. TabInv(tab') /\ Later(tab, tab') /\ AtInv(tab', Stopped)
    BY <2>1, LaterIsReflexive, StoppedIsFree DEF AdoptInv
  <2>4. done' \in BOOLEAN /\ cut' \in BOOLEAN
    BY <2>1 DEF AdoptInv
  <2> QED
    BY <2>1, <2>2, <2>3, <2>4, StoppedIsFree, ProcessStep
<1> QED
  BY <1>1, <1>2
-----------------------------------------------------------------------------
\* The world around AdoptLegacy.
LEMMA DeclaredWritten ==
    ASSUME AdoptInv, at' = at, done' = done, cut' = cut,
           NEW o \in Objects, NEW t, IsTable(t), tab' = [tab EXCEPT ![<<o, 0>>] = t],
           ReadableCols(t.cols, o), WholeCols(t.cols, o), Fields[o] \subseteq DOMAIN t.cols,
           \/ Has(tab, o, 0) /\ t.idx = tab[<<o, 0>>].idx
           \/ \A x \in t.idx : ~legacyIndex(x)
    PROVE  AdoptInv'
<1>1. TabInv(tab) /\ 0 \in 0..NLegacy
  BY NameFacts DEF AdoptInv
<1>2. Put(tab, tab', o, 0, t)
  BY <1>1, StatePut
<1>3. \A c \in DOMAIN Columns :
          /\ Columns[c] \in Fields[o] /\ c \in DOMAIN t.cols
          /\ Has(tab, o, 0) => PassedColumn(tab, o, c)
          => Columns[c] \in DOMAIN t.cols
  OBVIOUS
<1>4. TabInv(tab') /\ Later(tab, tab')
  BY <1>1, <1>2, <1>3, DeclaredPut
<1>5. \A o2 \in Objects : Has(tab', o2, 0) =>
           \/ Has(tab, o2, 0) /\ tab'[<<o2, 0>>].idx = tab[<<o2, 0>>].idx
           \/ \A x \in tab'[<<o2, 0>>].idx : ~legacyIndex(x)
  BY <1>2, IndexesKept
<1> QED
  BY <1>4, <1>5, WorldStep

LEMMA FreshFine ==
    ASSUME NEW o \in Objects
    PROVE  /\ IsTable(Fresh(o)) /\ DOMAIN Fresh(o).cols = Fields[o]
           /\ ReadableCols(Fresh(o).cols, o) /\ WholeCols(Fresh(o).cols, o)
           /\ \A x \in Fresh(o).idx : ~legacyIndex(x)
<1> DEFINE cols == [c \in Fields[o] |-> [data |-> Empty, ok |-> TRUE]]
<1>1. [data |-> Empty, ok |-> TRUE] \in Cells /\ Fields[o] \subseteq ColumnNames
  BY DEF Cells, ColumnNames
<1>2. cols \in [Fields[o] -> Cells] /\ DOMAIN cols = Fields[o] /\ \A c \in Fields[o] : cols[c].ok
  BY <1>1
<1> HIDE DEF cols
<1>3. /\ Fresh(o) = [rows |-> 0, late |-> 0, idx |-> {"other"}, cols |-> cols]
      /\ Fresh(o).cols = cols /\ Fresh(o).idx = {"other"}
  BY DEF Fresh, cols
<1>4. IsTable(Fresh(o))
  <2>1. {"other"} \in SUBSET Indexes /\ 0 \in Nat
    BY DEF Indexes
  <2>3. cols \in [DOMAIN cols -> Cells]
    BY <1>2
  <2>2. Fresh(o) \in [rows : Nat, late : Nat, idx : SUBSET Indexes, cols : [DOMAIN cols -> Cells]]
    BY <1>3, <2>1, <2>3
  <2> QED
    BY <1>1, <1>2, <1>3, <2>2 DEF IsTable
<1>5. ReadableCols(cols, o)
  BY <1>2 DEF ReadableCols
<1>6. WholeCols(cols, o)
  BY <1>2, AdoptAssumption DEF WholeCols
<1>7. \A x \in Fresh(o).idx : ~legacyIndex(x)
  BY <1>3 DEF legacyIndex
<1> QED
  BY <1>2, <1>3, <1>4, <1>5, <1>6, <1>7

\* Migrate: after an adoption, every column it adds is one no legacy column is for.
LEMMA MigratedKept ==
    ASSUME AdoptInv, NEW o \in Objects, NEW beside \in {Empty, Ahead},
           at' = at, done' = done, cut' = cut,
           tab' = [tab EXCEPT ![<<o, 0>>] = Migrated(o, beside)],
           beside = Empty => Passed(tab, o)
    PROVE  AdoptInv'
<1>1. CASE HasTable(<<o, 0>>)
  <2> DEFINE old == tab[<<o, 0>>]
             cols == [c \in DOMAIN old.cols \cup Fields[o] |->
                        IF c \in DOMAIN old.cols THEN old.cols[c] ELSE Added(c, old.cols, beside)]
             t == [old EXCEPT !.cols = cols]
  <2>1. tab' = [tab EXCEPT ![<<o, 0>>] = t]
    BY <1>1 DEF Migrated
  <2>2. /\ Has(tab, o, 0) /\ IsTable(old)
        /\ ReadableCols(old.cols, o) /\ WholeCols(old.cols, o)
    BY <1>1, NameFacts DEF Has, HasTable, AdoptInv, TabInv, TabType
  <2>3. \A c \in DOMAIN Columns :
            beside = Empty /\ Columns[c] \in Fields[o] /\ c \in DOMAIN old.cols =>
                Columns[c] \in DOMAIN old.cols
    BY <2>2 DEF Passed, PassedColumn
  <2> HIDE DEF old
  <2>4. /\ Fields[o] \subseteq ColumnNames
        /\ \A c : /\ Added(c, old.cols, beside) \in Cells /\ Added(c, old.cols, beside).ok
                  /\ \/ Added(c, old.cols, beside).data # Empty
                     \/ beside = Empty
                     \/ \A d \in DOMAIN Columns : d \in DOMAIN old.cols => Columns[d] # c
    BY AdoptAssumption DEF Cells, ColumnNames, Added
  <2>5. old.cols \in [DOMAIN old.cols -> Cells] /\ DOMAIN old.cols \subseteq ColumnNames
    BY <2>2 DEF IsTable
  <2>6. /\ DOMAIN cols = DOMAIN old.cols \cup Fields[o] /\ cols \in [DOMAIN cols -> Cells]
        /\ DOMAIN cols \subseteq ColumnNames
        /\ \A c \in DOMAIN old.cols : cols[c] = old.cols[c]
        /\ \A c \in Fields[o] : c \notin DOMAIN old.cols => cols[c] = Added(c, old.cols, beside)
    BY <2>4, <2>5
  <2> HIDE DEF cols
  <2>7. t.cols = cols /\ t.idx = old.idx /\ IsTable(t)
    BY <2>2, <2>6 DEF IsTable
  <2> HIDE DEF t
  <2>8. ReadableCols(cols, o)
    BY <2>2, <2>4, <2>6 DEF ReadableCols
  <2>9. \A c \in DOMAIN cols : cols[c].data \in {Empty, Ahead} => c \in Fields[o]
    BY <2>2, <2>6 DEF WholeCols
  <2>10. ASSUME NEW c \in DOMAIN Columns, Columns[c] \in Fields[o], c \in DOMAIN cols
         PROVE  cols[Columns[c]].data # Empty
    <3>1. c \notin Fields[o]
      BY <2>10, AdoptAssumption
    <3>2. c \in DOMAIN old.cols
      BY <2>6, <2>10, <3>1
    <3>3. CASE Columns[c] \in DOMAIN old.cols
      BY <2>2, <2>6, <2>10, <3>2, <3>3 DEF WholeCols
    <3>4. CASE Columns[c] \notin DOMAIN old.cols
      <4>1. cols[Columns[c]] = Added(Columns[c], old.cols, beside) /\ beside # Empty
        BY <2>3, <2>6, <2>10, <3>2, <3>4
      <4> QED
        BY <2>4, <2>10, <3>2, <4>1
    <3> QED
      BY <3>3, <3>4
  <2>11. WholeCols(cols, o)
    BY <2>9, <2>10 DEF WholeCols
  <2>12. Fields[o] \subseteq DOMAIN t.cols
    BY <2>6, <2>7
  <2> QED
    BY <2>1, <2>2, <2>7, <2>8, <2>11, <2>12, DeclaredWritten DEF old
<1>2. CASE ~HasTable(<<o, 0>>)
  <2>1. tab' = [tab EXCEPT ![<<o, 0>>] = Fresh(o)]
    BY <1>2 DEF Migrated
  <2> QED
    BY <2>1, FreshFine, DeclaredWritten
<1> QED
  BY <1>1, <1>2

LEMMA MigrateKept ==
    ASSUME AdoptInv, NEW p \in Processes, NEW o \in Objects, Migrate(p, o)
    PROVE  AdoptInv'
<1>1. Passed(tab, o)
  BY DEF Migrate, AdoptInv, AtInv
<1>2. /\ at' = at /\ done' = done /\ cut' = cut
      /\ tab' = [tab EXCEPT ![<<o, 0>>] = Migrated(o, Empty)]
  BY DEF Migrate
<1> QED
  BY <1>1, <1>2, MigratedKept

LEMMA MigrateFirstKept ==
    ASSUME AdoptInv, NEW o \in Objects, MigrateFirst(o)
    PROVE  AdoptInv'
<1>1. /\ at' = at /\ done' = done /\ cut' = cut
      /\ tab' = [tab EXCEPT ![<<o, 0>>] = Migrated(o, Ahead)]
  BY DEF MigrateFirst
<1>2. Ahead # Empty
  BY AdoptAssumption
<1> QED
  BY <1>1, <1>2, MigratedKept

LEMMA LegacyWritten ==
    ASSUME AdoptInv, at' = at, done' = done, cut' = cut,
           NEW o \in Objects, NEW i \in Legacy, NEW t, IsTable(t), Has(tab, o, i),
           tab' = [tab EXCEPT ![<<o, i>>] = t],
           WholeCols(t.cols, o),
           ReadableCols(tab[<<o, i>>].cols, o) => ReadableCols(t.cols, o),
           Has(tab, o, 0) => t.rows = tab[<<o, i>>].rows
    PROVE  AdoptInv'
<1>1. TabInv(tab) /\ i \in 0..NLegacy
  BY NameFacts DEF AdoptInv
<1>2. Put(tab, tab', o, i, t)
  BY <1>1, StatePut
<1>3. /\ TabInv(tab') /\ Later(tab, tab')
      /\ \A o2 \in Objects : tab'[<<o2, 0>>] = tab[<<o2, 0>>]
  <2> DEFINE T == tab
             T2 == tab'
  <2>1. /\ TabInv(T) /\ Put(T, T2, o, i, t) /\ Has(T, o, i)
        /\ ReadableCols(T[<<o, i>>].cols, o) => ReadableCols(t.cols, o)
        /\ Has(T, o, 0) => t.rows = T[<<o, i>>].rows
    BY <1>1, <1>2
  <2> HIDE DEF T, T2
  <2>2. /\ TabInv(T2) /\ Later(T, T2)
        /\ \A o2 \in Objects : T2[<<o2, 0>>] = T[<<o2, 0>>]
    BY <2>1, LegacyPut
  <2> QED
    BY <2>2 DEF T, T2
<1> QED
  BY <1>3, WorldStep DEF Has

LEMMA LegacyFacts ==
    ASSUME AdoptInv, NEW o \in Objects, NEW i \in Legacy, HasTable(<<o, i>>)
    PROVE  /\ Has(tab, o, i) /\ IsTable(tab[<<o, i>>]) /\ WholeCols(tab[<<o, i>>].cols, o)
           /\ tab[<<o, i>>].rows \in Nat /\ tab[<<o, i>>].late \in Nat
           /\ tab[<<o, i>>].cols \in [DOMAIN tab[<<o, i>>].cols -> Cells]
<1>1. Has(tab, o, i) /\ IsTable(tab[<<o, i>>]) /\ WholeCols(tab[<<o, i>>].cols, o)
  BY NameFacts DEF Has, HasTable, AdoptInv, TabInv, TabType
<1> QED
  BY <1>1 DEF IsTable

LEMMA OldInsertKept ==
    ASSUME AdoptInv, NEW o \in Objects, NEW i \in Legacy, OldInsert(o, i)
    PROVE  AdoptInv'
<1> DEFINE old == tab[<<o, i>>]
<1>1. at' = at /\ done' = done /\ cut' = cut /\ HasTable(<<o, i>>)
  BY DEF OldInsert
<1>2. /\ Has(tab, o, i) /\ IsTable(old) /\ WholeCols(old.cols, o)
      /\ old.rows \in Nat /\ old.late \in Nat
  BY <1>1, LegacyFacts
<1>3. old.rows + 1 \in Nat /\ old.late + 1 \in Nat
  BY <1>2
<1>4. CASE HasTable(<<o, 0>>)
  <2> DEFINE t == [old EXCEPT !.late = @ + 1]
  <2>1. tab' = [tab EXCEPT ![<<o, i>>] = t]
    BY <1>4 DEF OldInsert
  <2>2. t.cols = old.cols /\ t.rows = old.rows /\ IsTable(t)
    BY <1>2, <1>3 DEF IsTable
  <2> HIDE DEF t
  <2> QED
    BY <1>1, <1>2, <2>1, <2>2, LegacyWritten
<1>5. CASE ~HasTable(<<o, 0>>)
  <2> DEFINE t == [old EXCEPT !.rows = @ + 1]
  <2>1. tab' = [tab EXCEPT ![<<o, i>>] = t]
    BY <1>5 DEF OldInsert
  <2>2. t.cols = old.cols /\ IsTable(t) /\ ~Has(tab, o, 0)
    BY <1>2, <1>3, <1>5 DEF IsTable, Has, HasTable
  <2> HIDE DEF t
  <2> QED
    BY <1>1, <1>2, <2>1, <2>2, LegacyWritten
<1> QED
  BY <1>4, <1>5

LEMMA RetypeKept ==
    ASSUME AdoptInv, NEW o \in Objects, NEW i \in Legacy, NEW c, Retype(o, i, c)
    PROVE  AdoptInv'
<1> DEFINE old == tab[<<o, i>>]
           cell == [old.cols[c] EXCEPT !.ok = TRUE]
           cols == [old.cols EXCEPT ![c] = cell]
           t == [old EXCEPT !.cols = cols]
<1>1. /\ at' = at /\ done' = done /\ cut' = cut /\ HasTable(<<o, i>>)
      /\ c \in DOMAIN old.cols
  BY DEF Retype, HasColumn
<1>2. tab' = [tab EXCEPT ![<<o, i>>] = t]
  BY DEF Retype
<1>3. /\ Has(tab, o, i) /\ IsTable(old) /\ WholeCols(old.cols, o)
      /\ old.cols \in [DOMAIN old.cols -> Cells]
  BY <1>1, LegacyFacts
<1> HIDE DEF old
<1>4. cell \in Cells /\ cell.ok /\ cell.data = old.cols[c].data
  <2>1. old.cols[c] \in Cells
    BY <1>1, <1>3
  <2> QED
    BY <2>1 DEF Cells
<1> HIDE DEF cell
<1>5. /\ DOMAIN cols = DOMAIN old.cols /\ cols \in [DOMAIN old.cols -> Cells]
      /\ cols[c] = cell /\ \A d \in DOMAIN old.cols : d # c => cols[d] = old.cols[d]
  BY <1>1, <1>3, <1>4
<1> HIDE DEF cols
<1>6. t.cols = cols /\ t.rows = old.rows /\ IsTable(t)
  BY <1>3, <1>5 DEF IsTable
<1> HIDE DEF t
<1>7. \A d \in DOMAIN cols : cols[d].data = old.cols[d].data /\ (~cols[d].ok => ~old.cols[d].ok)
  BY <1>4, <1>5
<1>8. WholeCols(t.cols, o)
  BY <1>3, <1>5, <1>6, <1>7 DEF WholeCols
<1>9. ReadableCols(old.cols, o) => ReadableCols(t.cols, o)
  BY <1>5, <1>6, <1>7 DEF ReadableCols
<1> QED
  BY <1>1, <1>2, <1>3, <1>6, <1>8, <1>9, LegacyWritten DEF old
-----------------------------------------------------------------------------
LEMMA AdoptInit == Init => AdoptInv
<1> SUFFICES ASSUME Init PROVE AdoptInv
  OBVIOUS
<1>1. PICK left \in Start : tab = [n \in Names |-> IF n \in DOMAIN left THEN left[n] ELSE None]
  BY DEF Init
<1>2. \A o \in Objects : ~Has(tab, o, 0)
  <2>1. \A o \in Objects : <<o, 0>> \in Names /\ <<o, 0>> \notin DOMAIN left
    BY <1>1, NameFacts, AdoptAssumption DEF Legacy
  <2> QED
    BY <1>1, <2>1 DEF Has
<1>3. ASSUME NEW o \in Objects, NEW i \in 0..NLegacy, Has(tab, o, i)
      PROVE  IsTable(tab[<<o, i>>]) /\ WholeCols(tab[<<o, i>>].cols, o)
  <2> DEFINE n == <<o, i>>
             t == left[n]
  <2>1. n \in DOMAIN left /\ tab[n] = t
    BY <1>1, <1>3, NameFacts DEF Has
  <2>2. t \in [rows : Nat, late : {0}, idx : SUBSET Indexes,
                cols : [DOMAIN t.cols -> [data : STRING, ok : BOOLEAN]]]
    BY <1>1, <2>1, AdoptAssumption
  <2>3. DOMAIN t.cols \subseteq ColumnNames
    <3>1. DOMAIN t.cols \subseteq LeftColumns(left)
      BY <2>1 DEF LeftColumns
    <3>2. LeftColumns(left) \subseteq ColumnNames
      BY <1>1 DEF ColumnNames
    <3> QED
      BY <3>1, <3>2
  <2> HIDE DEF t, n
  <2>4. /\ t.cols \in [DOMAIN t.cols -> Cells]
        /\ \A c \in DOMAIN t.cols : t.cols[c].data # Empty /\ t.cols[c].data # Ahead
    BY <2>2, AdoptAssumption DEF Cells
  <2>5. IsTable(t)
    BY <2>2, <2>3, <2>4 DEF IsTable
  <2>6. WholeCols(t.cols, o)
    BY <2>4 DEF WholeCols
  <2> QED
    BY <2>1, <2>5, <2>6 DEF n
<1>4. tab = [n \in Names |-> tab[n]]
  BY <1>1
<1>5. TabInv(tab)
  BY <1>2, <1>3, <1>4 DEF TabInv, TabType
<1>6. /\ at \in [Processes -> AtType] /\ \A p \in Processes : AtInv(tab, at[p])
      /\ done = FALSE /\ cut = FALSE
  BY StoppedIsFree DEF Init
<1>7. IndexInv
  BY <1>2 DEF IndexInv
<1> QED
  BY <1>5, <1>6, <1>7 DEF AdoptInv

LEMMA AdoptNext == AdoptInv /\ [Next]_vars => AdoptInv'
<1> SUFFICES ASSUME AdoptInv, [Next]_vars PROVE AdoptInv'
  OBVIOUS
<1>1. ASSUME NEW p \in Processes,
             \/ AdoptLegacy(p) \/ checkAdoptedColumnTypes(p) \/ Checked(p)
             \/ FindLegacy(p) \/ FindDeclared(p) \/ Count(p) \/ RenameTable(p) \/ DropIndexes(p)
             \/ FindColumns(p) \/ RenameColumn(p) \/ ColumnsDone(p) \/ AdoptReturns(p) \/ Stop(p)
      PROVE  AdoptInv'
  BY <1>1, AdoptLegacyKept, CheckKept, CheckedKept, FindLegacyKept, FindDeclaredKept, CountKept,
     RenameTableKept, DropIndexesKept, FindColumnsKept, RenameColumnKept, ColumnsDoneKept,
     AdoptReturnsKept, StopKept
<1>2. ASSUME NEW p \in Processes, NEW c \in DOMAIN Columns, FindColumn(p, c)
      PROVE  AdoptInv'
  BY <1>2, FindColumnKept
<1>3. ASSUME NEW p \in Processes, NEW o \in Objects, Migrate(p, o)
      PROVE  AdoptInv'
  BY <1>3, MigrateKept
<1>4. ASSUME NEW o \in Objects, MigrateFirst(o)
      PROVE  AdoptInv'
  BY <1>4, MigrateFirstKept
<1>5. ASSUME NEW o \in Objects, NEW i \in 1..NLegacy,
             OldInsert(o, i) \/ \E c \in DOMAIN Columns \cup Fields[o] : Retype(o, i, c)
      PROVE  AdoptInv'
  BY <1>5, OldInsertKept, RetypeKept DEF Legacy
<1>6. CASE UNCHANGED vars
  BY <1>6, WorldStep, LaterIsReflexive DEF vars, AdoptInv
<1> QED
  BY <1>1, <1>2, <1>3, <1>4, <1>5, <1>6 DEF Next

\* In every reachable state of any number of adopting, stopping and restarting
\* processes, what a process believes of the tables it has passed is true of
\* them, whatever the others did since.
THEOREM AdoptInvariant == Spec => []AdoptInv
<1> QED
  BY AdoptInit, AdoptNext, PTL DEF Spec

\* Once AdoptLegacy (legacy.go) has returned without an error, no old row is
\* left in a legacy table and no column's data beside an empty declared column,
\* other than one that a Migrate which did not adopt added before the rename.
THEOREM NothingStranded == Spec => []NothingIsStranded
<1>1. ASSUME AdoptInv PROVE NothingIsStranded
  <2> SUFFICES ASSUME done PROVE NothingIsStranded!2
    BY DEF NothingIsStranded
  <2>1. TabInv(tab) /\ \A o \in Objects : Passed(tab, o)
    BY <1>1 DEF AdoptInv
  <2>2. \A o \in Objects, i \in 1..NLegacy : HasTable(<<o, i>>) => tab[<<o, i>>].rows = 0
    BY <2>1 DEF Passed, PassedTable, Legacy, Has, HasTable
  <2>3. ASSUME NEW o \in Objects, NEW c \in DOMAIN Columns, Columns[c] \in Fields[o],
               HasColumn(<<o, 0>>, c), HasColumn(<<o, 0>>, Columns[c])
        PROVE  tab[<<o, 0>>].cols[Columns[c]].data # Empty
    BY <2>1, <2>3, NameFacts DEF TabInv, WholeCols, HasColumn, HasTable, Has
  <2> QED
    BY <2>2, <2>3
<1> QED
  BY <1>1, AdoptInvariant, PTL

\* A table under its declared name has no declared field, of those with one legacy
\* name at most, in a column the engine cannot read: checkAdoptedColumnTypes
\* (adopt_types.go) looks before the loop, and what it found holds until the rename.
THEOREM AdoptedStaysReadable == Spec => []AdoptedIsReadable
<1>1. ASSUME AdoptInv PROVE AdoptedIsReadable
  BY <1>1 DEF AdoptInv, TabInv, ReadableCols, AdoptedIsReadable, HasColumn, HasTable, Has
<1> QED
  BY <1>1, AdoptInvariant, PTL

\* An index of the old release is on a declared table only while a process is
\* about to drop it, or after one stopped there.
THEOREM LegacyIndexesAreDropped == Spec => []LegacyIndexesGo
<1>1. ASSUME AdoptInv PROVE LegacyIndexesGo
  BY <1>1 DEF AdoptInv, IndexInv, LegacyIndexesGo, HasTable, Has
<1> QED
  BY <1>1, AdoptInvariant, PTL
=============================================================================
