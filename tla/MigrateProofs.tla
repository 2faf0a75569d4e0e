---------------------------- MODULE MigrateProofs ----------------------------
(***************************************************************************)
(* Proofs about Migrate for any processes, versions, objects and fields: a *)
(* version that has migrated can write, is complete and alters nothing     *)
(* when it runs again, whatever other versions do to its tables.           *)
(***************************************************************************)
EXTENDS Migrate, TLAPS

\* What every step does to the tables that exist: columns and the key stay, and
\* no column an insert would have to name appears.
Grows ==
    \A t \in Places : Exists(t) =>
        /\ DOMAIN cols[t] \subseteq DOMAIN cols'[t]
        /\ BlockingColumns(t)' \subseteq BlockingColumns(t)
        /\ Keys(t)' = Keys(t)

\* A column that is added never has to be named: it has a default, or it may be
\* null.  Only a column of the primary key, which is never added, differs.
LEMMA AddedNeverBlocks ==
  ASSUME NEW kind \in Kinds, kind # "key"
  PROVE  /\ AddedColumn(kind) \in [notnull : BOOLEAN, dflt : BOOLEAN, pk : BOOLEAN]
         /\ AddedColumn(kind).notnull => AddedColumn(kind).dflt
         /\ ~AddedColumn(kind).pk
  <1>1. /\ AddedColumn(kind).notnull = (kind \in {"key", "required"})
        /\ AddedColumn(kind).dflt = (kind \in {"required", "defaulted"})
        /\ AddedColumn(kind).pk = (kind = "key")
    BY DEF AddedColumn
  <1>2. AddedColumn(kind) \in [notnull : BOOLEAN, dflt : BOOLEAN, pk : BOOLEAN]
    <2>1. \A a, b, c \in BOOLEAN :
            [notnull |-> a, dflt |-> b, pk |-> c]
                \in [notnull : BOOLEAN, dflt : BOOLEAN, pk : BOOLEAN]
      OBVIOUS
    <2>2. /\ (kind \in {"key", "required"}) \in BOOLEAN
          /\ (kind \in {"required", "defaulted"}) \in BOOLEAN
          /\ (kind = "key") \in BOOLEAN
      OBVIOUS
    <2> QED
      BY <2>1, <2>2, Zenon DEF AddedColumn
  <1> QED
    BY <1>1, <1>2

\* What a declared column is declared as.
LEMMA KindType ==
  ASSUME NEW v \in Versions, NEW t \in Places, NEW n \in DeclaredColumns(v, t)
  PROVE  KindOf(v, t, n) \in Kinds /\ n \in Columns
  <1>1. ObjectOf(t) \in Objects
    BY MigrateAssumption DEF Places, ObjectOf, Objects, IsTest
  <1>2. CASE n = RunID
    BY <1>2, MigrateAssumption DEF KindOf, Kinds
  <1>3. CASE n # RunID
    BY <1>1, <1>3, MigrateAssumption DEF KindOf, DeclaredColumns
  <1> QED
    BY <1>2, <1>3

\* What createIndexes makes is an index.
LEMMA IndexType ==
  ASSUME NEW v \in Versions, NEW t \in Places
  PROVE  /\ CreateIndexes(v, t) \subseteq Index
         /\ \A n \in Columns : UniqueIndex(n) \in Index
         /\ Unique[v][ObjectOf(t)] \subseteq Columns
         /\ Indexed[v][ObjectOf(t)] \subseteq Index
  <1>1. ObjectOf(t) \in Objects
    BY MigrateAssumption DEF Places, ObjectOf, Objects, IsTest
  <1>2. Unique[v][ObjectOf(t)] \subseteq Columns /\ Indexed[v][ObjectOf(t)] \subseteq Index
    BY <1>1, MigrateAssumption
  <1>3. \A n \in Columns : UniqueIndex(n) \in Index
    BY DEF UniqueIndex, Index
  <1> QED
    BY <1>2, <1>3 DEF CreateIndexes

\* A table that has become ready for a version stays so while tables grow.
LEMMA ReadyStays ==
  ASSUME Grows, NEW t \in Places, NEW v
  PROVE  /\ Has(v, t) => Has(v, t)'
         /\ Ready(v, t) => Ready(v, t)'
  BY DEF Grows, Has, Ready, Exists, DeclaredColumns, KindOf, ObjectOf, IsTest

\* The part of the invariant about runs and versions a step does not touch.
LEMMA OthersKeep ==
  ASSUME MigrateInv, Grows, NEW p,
         \A q \in Processes \ {p} :
            /\ pc'[q] = pc[q] /\ ver'[q] = ver[q] /\ at'[q] = at[q]
            /\ held'[q] = held[q] /\ orphans'[q] = orphans[q]
  PROVE  /\ \A v \in done, t \in Places : Ready(v, t)'
         /\ \A q \in Processes \ {p} : RunInv(q)'
  <1>1. \A v \in done, t \in Places : Ready(v, t)'
    BY ReadyStays DEF MigrateInv
  <1>2. ASSUME NEW q \in Processes \ {p}, pc[q] # "idle" PROVE RunInv(q)'
    <2>1. RunInv(q)
      BY DEF MigrateInv
    <2>2. at[q] \in Places /\ at'[q] = at[q] /\ ver'[q] = ver[q] /\ pc'[q] = pc[q]
      BY <1>2, <2>1 DEF RunInv
    <2>3. \A t \in Places : t < at[q] => Ready(ver[q], t)'
      BY <1>2, <2>1, ReadyStays DEF RunInv
    <2>4. /\ Has(ver[q], at[q]) => Has(ver[q], at[q])'
          /\ Ready(ver[q], at[q]) => Ready(ver[q], at[q])'
          /\ Exists(at[q]) => Exists(at[q])'
      BY <2>2, ReadyStays DEF Grows, Exists
    <2>5. pc[q] = "alter" => held[q] \subseteq DOMAIN cols'[at[q]]
      BY <1>2, <2>1, <2>2 DEF RunInv, Grows
    <2>6. pc[q] = "relax" =>
            /\ BlockingColumns(at[q])' \ DeclaredColumns(ver[q], at[q]) \subseteq orphans[q]
            /\ orphans[q] \subseteq DOMAIN cols'[at[q]] \ Keys(at[q])'
      BY <1>2, <2>1, <2>2 DEF RunInv, Grows, Has
    <2> QED
      BY <1>2, <2>1, <2>2, <2>3, <2>4, <2>5, <2>6
      DEF RunInv, Has, Ready, Exists, BlockingColumns, Keys
  <1>3. ASSUME NEW q \in Processes \ {p}, pc[q] = "idle" PROVE RunInv(q)'
    BY <1>3 DEF RunInv
  <1> QED
    BY <1>1, <1>2, <1>3

\* A created column is a column, and one of the primary key is never null.
LEMMA ColumnType ==
  ASSUME NEW kind \in Kinds
  PROVE  /\ Column(kind) \in [notnull : BOOLEAN, dflt : BOOLEAN, pk : BOOLEAN]
         /\ Column(kind).pk => Column(kind).notnull
  <1>1. /\ Column(kind).notnull = (kind \in {"key", "required", "document"})
        /\ Column(kind).pk = (kind = "key")
    BY DEF Column
  <1>2. \A a, b, c \in BOOLEAN :
          [notnull |-> a, dflt |-> b, pk |-> c]
              \in [notnull : BOOLEAN, dflt : BOOLEAN, pk : BOOLEAN]
    OBVIOUS
  <1>3. /\ (kind \in {"key", "required", "document"}) \in BOOLEAN
        /\ (kind = "defaulted") \in BOOLEAN
        /\ (kind = "key") \in BOOLEAN
    OBVIOUS
  <1>4. Column(kind) \in [notnull : BOOLEAN, dflt : BOOLEAN, pk : BOOLEAN]
    BY <1>2, <1>3, Zenon DEF Column
  <1> QED
    BY <1>1, <1>4

\* A step that leaves the tables alone makes nothing grow.
LEMMA SameGrows == cols' = cols => Grows
  BY DEF Grows, BlockingColumns, Keys

\* No table is there and no run is under way at the start.
LEMMA InitMigrateInv == Init => MigrateInv
  <1> SUFFICES ASSUME Init PROVE MigrateInv
    OBVIOUS
  <1>1. TypeOK
    BY MigrateAssumption DEF Init, TypeOK
  <1>2. \A p \in Processes : RunInv(p)
    BY DEF Init, RunInv
  <1> QED
    BY <1>1, <1>2 DEF Init, MigrateInv

\* A run that ends, with an error or without, leaves the tables as they are.
LEMMA LeaveKeeps ==
  ASSUME MigrateInv, NEW p \in Processes, Leave(p),
         UNCHANGED <<cols, idx, rows, named, ver, runs>>,
         done' = done \/ (done' = done \cup {ver[p]} /\ pc[p] = "names")
  PROVE  MigrateInv'
  <1>1. Grows
    BY SameGrows
  <1>2. \A q \in Processes \ {p} :
            /\ pc'[q] = pc[q] /\ ver'[q] = ver[q] /\ at'[q] = at[q]
            /\ held'[q] = held[q] /\ orphans'[q] = orphans[q]
    BY DEF Leave, Goto, MigrateInv, TypeOK
  <1>3. /\ \A v \in done, t \in Places : Ready(v, t)'
        /\ \A q \in Processes \ {p} : RunInv(q)'
    BY <1>1, <1>2, OthersKeep
  <1>4. TypeOK'
    BY DEF MigrateInv, TypeOK, Leave, Goto
  <1>5. RunInv(p)'
    BY DEF Leave, Goto, RunInv, MigrateInv, TypeOK
  <1>6. ASSUME pc[p] = "names", NEW t \in Places PROVE Ready(ver[p], t)'
    <2>1. RunInv(p)
      BY DEF MigrateInv
    <2>2. t < at[p] \/ t = at[p]
      BY <1>6, <2>1, MigrateAssumption DEF RunInv, Places
    <2>3. Ready(ver[p], t)
      BY <1>6, <2>1, <2>2 DEF RunInv
    <2> QED
      BY <2>3, <1>1, ReadyStays
  <1>7. \A v \in done', t \in Places : Ready(v, t)'
    BY <1>3, <1>6
  <1> QED
    BY <1>3, <1>4, <1>5, <1>7 DEF MigrateInv

\* The statements that read, index, name or insert, and the start of a run,
\* leave every column as it is.
LEMMA ReadingKeeps ==
  ASSUME MigrateInv, NEW p \in Processes,
         \/ \E v \in Versions : MigrateBegin(p, v)
         \/ ColumnNames(p)
         \/ ReadOrphans(p)
         \/ pc[p] = "index" /\ \E i \in CreateIndexes(ver[p], at[p]) : CreateIndex(p, i)
         \/ NextTable(p)
         \/ \E o \in Objects : RecordName(p, o)
  PROVE  MigrateInv'
  <1>1. cols' = cols /\ done' = done /\ rows' = rows
    BY DEF MigrateBegin, ColumnNames, ReadOrphans, CreateIndex, NextTable, RecordName
  <1>2. Grows
    BY <1>1, SameGrows
  <1>3. \A q \in Processes \ {p} :
            /\ pc'[q] = pc[q] /\ ver'[q] = ver[q] /\ at'[q] = at[q]
            /\ held'[q] = held[q] /\ orphans'[q] = orphans[q]
    BY DEF MigrateBegin, ColumnNames, ReadOrphans, CreateIndex, NextTable, RecordName,
           Goto, MigrateInv, TypeOK
  <1>4. /\ \A v \in done, t \in Places : Ready(v, t)'
        /\ \A q \in Processes \ {p} : RunInv(q)'
    BY <1>2, <1>3, OthersKeep
  <1>5. /\ \A v, t : Ready(v, t)' <=> Ready(v, t)
        /\ \A v, t : Has(v, t)' <=> Has(v, t)
        /\ \A t : Exists(t)' <=> Exists(t)
        /\ \A t : BlockingColumns(t)' = BlockingColumns(t) /\ Keys(t)' = Keys(t)
    BY <1>1 DEF Ready, Has, Exists, BlockingColumns, Keys
  <1>6. RunInv(p)
    BY DEF MigrateInv
  <1>7. ASSUME NEW v \in Versions, MigrateBegin(p, v) PROVE TypeOK' /\ RunInv(p)'
    <2>1. 1 \in Places /\ \A t \in Places : ~(t < 1)
      BY MigrateAssumption DEF Places
    <2>2. TypeOK'
      BY <1>7, <2>1, MigrateAssumption DEF MigrateBegin, Goto, MigrateInv, TypeOK
    <2>3. at'[p] = 1 /\ pc'[p] = "create"
      BY <1>7 DEF MigrateBegin, Goto, MigrateInv, TypeOK
    <2> QED
      BY <2>1, <2>2, <2>3 DEF RunInv
  <1>8. ASSUME ColumnNames(p) PROVE TypeOK' /\ RunInv(p)'
    <2>1. TypeOK'
      BY <1>8, <1>6 DEF ColumnNames, Goto, MigrateInv, TypeOK, RunInv
    <2>2. /\ pc[p] = "columns" /\ pc'[p] = "alter" /\ at'[p] = at[p] /\ ver'[p] = ver[p]
          /\ held'[p] = DOMAIN cols[at[p]]
      BY <1>8 DEF ColumnNames, Goto, MigrateInv, TypeOK
    <2> QED
      BY <1>1, <1>5, <1>6, <2>1, <2>2 DEF RunInv
  <1>9. ASSUME ReadOrphans(p) PROVE TypeOK' /\ RunInv(p)'
    <2>1. Orphans(p) \subseteq Columns
      BY <1>9, <1>6 DEF ReadOrphans, Orphans, BlockingColumns, RunInv, MigrateInv, TypeOK
    <2>2. TypeOK'
      BY <1>9, <2>1 DEF ReadOrphans, Goto, MigrateInv, TypeOK
    <2>3. /\ pc[p] = "blocking" /\ pc'[p] = "relax" /\ at'[p] = at[p] /\ ver'[p] = ver[p]
          /\ orphans'[p] = BlockingColumns(at[p]) \ DeclaredColumns(ver[p], at[p])
          /\ orphans'[p] \subseteq DOMAIN cols[at[p]] \ Keys(at[p])
      BY <1>9 DEF ReadOrphans, Goto, MigrateInv, TypeOK, Orphans, BlockingColumns, Keys
    <2> QED
      BY <1>1, <1>5, <1>6, <2>2, <2>3 DEF RunInv
  <1>10. ASSUME pc[p] = "index", NEW i \in CreateIndexes(ver[p], at[p]), CreateIndex(p, i)
         PROVE  TypeOK' /\ RunInv(p)'
    <2>1. i \in Index
      BY <1>6, <1>10, IndexType DEF RunInv, MigrateInv, TypeOK
    <2>3. idx' \in [Places -> SUBSET Index]
      BY <1>10, <2>1, Zenon DEF CreateIndex, MigrateInv, TypeOK
    <2>2. TypeOK'
      BY <1>10, <2>3 DEF CreateIndex, MigrateInv, TypeOK
    <2> QED
      BY <1>1, <1>5, <1>6, <1>10, <2>2 DEF CreateIndex, RunInv
  <1>11. ASSUME NextTable(p) PROVE TypeOK' /\ RunInv(p)'
    <2>1. /\ pc[p] = "index" /\ ver'[p] = ver[p]
          /\ at'[p] = (IF at[p] + 1 \in Places THEN at[p] + 1 ELSE at[p])
          /\ pc'[p] = (IF at[p] + 1 \in Places THEN "create" ELSE "names")
      BY <1>11 DEF NextTable, Goto, MigrateInv, TypeOK
    <2>2. at[p] \in Places /\ Ready(ver[p], at[p])
            /\ \A t \in Places : t < at[p] => Ready(ver[p], t)
      BY <1>6, <2>1 DEF RunInv
    <2>3. TypeOK'
      BY <1>11, <2>2 DEF NextTable, Goto, MigrateInv, TypeOK
    <2>4. \A t \in Places : t < at[p] + 1 => t < at[p] \/ t = at[p]
      BY <2>2, MigrateAssumption DEF Places
    <2> QED
      BY <1>5, <2>1, <2>2, <2>3, <2>4 DEF RunInv
  <1>12. ASSUME NEW o \in Objects, RecordName(p, o) PROVE TypeOK' /\ RunInv(p)'
    <2>1. TypeOK'
      BY <1>12 DEF RecordName, MigrateInv, TypeOK
    <2> QED
      BY <1>1, <1>5, <1>6, <1>12, <2>1 DEF RecordName, RunInv
  <1> QED
    BY <1>1, <1>4, <1>7, <1>8, <1>9, <1>10, <1>11, <1>12 DEF MigrateInv

\* A created table concerns no run or version that had found it there.
LEMMA CreateKeeps ==
  ASSUME MigrateInv, NEW p \in Processes, CreateTable(p)
  PROVE  MigrateInv'
  <1>1. RunInv(p) /\ pc[p] = "create" /\ at[p] \in Places /\ ver[p] \in Versions
    BY DEF MigrateInv, CreateTable, RunInv, TypeOK
  <1>2. /\ \A t \in Places : Exists(t) => cols'[t] = cols[t]
        /\ ~Exists(at[p]) => cols'[at[p]] = Created(ver[p], at[p])
        /\ \A t \in Places \ {at[p]} : cols'[t] = cols[t]
        /\ DOMAIN cols' = Places
    BY <1>1 DEF CreateTable, MigrateInv, TypeOK
  <1>3. Grows
    BY <1>2 DEF Grows, BlockingColumns, Keys
  <1>4. \A q \in Processes \ {p} :
            /\ pc'[q] = pc[q] /\ ver'[q] = ver[q] /\ at'[q] = at[q]
            /\ held'[q] = held[q] /\ orphans'[q] = orphans[q]
    BY DEF CreateTable, Goto, MigrateInv, TypeOK
  <1>5. /\ \A v \in done, t \in Places : Ready(v, t)'
        /\ \A q \in Processes \ {p} : RunInv(q)'
    BY <1>3, <1>4, OthersKeep
  <1>6. /\ DOMAIN Created(ver[p], at[p]) \subseteq Columns
        /\ DOMAIN Created(ver[p], at[p]) # {}
        /\ \A n \in DOMAIN Created(ver[p], at[p]) :
            /\ Created(ver[p], at[p])[n] \in [notnull : BOOLEAN, dflt : BOOLEAN, pk : BOOLEAN]
            /\ Created(ver[p], at[p])[n].pk => Created(ver[p], at[p])[n].notnull
    <2>1. \A n \in DeclaredColumns(ver[p], at[p]) :
            KindOf(ver[p], at[p], n) \in Kinds /\ n \in Columns
      BY <1>1, KindType
    <2>2. DeclaredColumns(ver[p], at[p]) # {}
      <3>1. ObjectOf(at[p]) \in Objects
        BY <1>1, MigrateAssumption DEF Places, ObjectOf, Objects, IsTest
      <3> QED
        BY <1>1, <3>1, MigrateAssumption DEF DeclaredColumns
    <2> QED
      BY <2>1, <2>2, ColumnType DEF Created
  <1>7. CreatedUniques(ver[p], at[p]) \subseteq Index
    BY <1>1, IndexType DEF CreatedUniques
  <1>8. TypeOK'
    <2>1. ASSUME NEW t \in Places
          PROVE  /\ DOMAIN cols'[t] \subseteq Columns
                 /\ \A n \in DOMAIN cols'[t] :
                    /\ cols'[t][n] \in [notnull : BOOLEAN, dflt : BOOLEAN, pk : BOOLEAN]
                    /\ cols'[t][n].pk => cols'[t][n].notnull
      <3>1. CASE cols'[t] = cols[t]
        BY <3>1 DEF MigrateInv, TypeOK
      <3>2. CASE cols'[t] = Created(ver[p], at[p])
        BY <3>2, <1>6
      <3> QED
        BY <3>1, <3>2, <1>2
    <2>2. idx' \in [Places -> SUBSET Index]
      BY <1>1, <1>7 DEF CreateTable, MigrateInv, TypeOK
    <2> QED
      BY <1>2, <2>1, <2>2 DEF CreateTable, Goto, MigrateInv, TypeOK
  <1>9. RunInv(p)'
    <2>1. pc'[p] = "columns" /\ at'[p] = at[p] /\ ver'[p] = ver[p]
      BY DEF CreateTable, Goto, MigrateInv, TypeOK
    <2>2. Exists(at[p])'
      BY <1>1, <1>2, <1>6, <2>1 DEF Exists
    <2>3. \A t \in Places : t < at[p] => Ready(ver[p], t)'
      BY <1>1, <1>3, <2>1, ReadyStays DEF RunInv
    <2> QED
      BY <1>1, <2>1, <2>2, <2>3 DEF RunInv, Exists, Ready, Has, BlockingColumns
  <1> QED
    BY <1>5, <1>8, <1>9 DEF MigrateInv, CreateTable

\* The added columns never have to be named, so every version that could write
\* the table still can, and this one has its columns.
LEMMA AlterKeeps ==
  ASSUME MigrateInv, NEW p \in Processes, AlterTable(p)
  PROVE  MigrateInv'
  <1>1. /\ RunInv(p) /\ pc[p] = "alter" /\ at[p] \in Places /\ ver[p] \in Versions
        /\ Exists(at[p]) /\ held[p] \subseteq DOMAIN cols[at[p]]
    BY DEF MigrateInv, AlterTable, RunInv, TypeOK
  <1>2. /\ \A t \in Places \ {at[p]} : cols'[t] = cols[t]
        /\ DOMAIN cols' = Places
        /\ DOMAIN cols'[at[p]] = DOMAIN cols[at[p]] \cup Missing(p)
        /\ \A n \in DOMAIN cols[at[p]] : cols'[at[p]][n] = cols[at[p]][n]
        /\ \A n \in Missing(p) : n \notin DOMAIN cols[at[p]] =>
            cols'[at[p]][n] = AddedColumn(KindOf(ver[p], at[p], n))
    BY <1>1 DEF AlterTable, MigrateInv, TypeOK
  <1>3. \A n \in Missing(p) :
          /\ n \in Columns
          /\ AddedColumn(KindOf(ver[p], at[p], n))
                \in [notnull : BOOLEAN, dflt : BOOLEAN, pk : BOOLEAN]
          /\ AddedColumn(KindOf(ver[p], at[p], n)).notnull =>
                AddedColumn(KindOf(ver[p], at[p], n)).dflt
          /\ ~AddedColumn(KindOf(ver[p], at[p], n)).pk
    BY <1>1, KindType, AddedNeverBlocks DEF Missing
  <1>4. Grows
    BY <1>1, <1>2, <1>3 DEF Grows, BlockingColumns, Keys
  <1>5. \A q \in Processes \ {p} :
            /\ pc'[q] = pc[q] /\ ver'[q] = ver[q] /\ at'[q] = at[q]
            /\ held'[q] = held[q] /\ orphans'[q] = orphans[q]
    BY DEF AlterTable, Goto, MigrateInv, TypeOK
  <1>6. /\ \A v \in done, t \in Places : Ready(v, t)'
        /\ \A q \in Processes \ {p} : RunInv(q)'
    BY <1>4, <1>5, OthersKeep
  <1>7. TypeOK'
    <2>1. ASSUME NEW t \in Places
          PROVE  /\ DOMAIN cols'[t] \subseteq Columns
                 /\ \A n \in DOMAIN cols'[t] :
                    /\ cols'[t][n] \in [notnull : BOOLEAN, dflt : BOOLEAN, pk : BOOLEAN]
                    /\ cols'[t][n].pk => cols'[t][n].notnull
      <3>1. CASE t # at[p]
        BY <3>1, <1>2 DEF MigrateInv, TypeOK
      <3>2. CASE t = at[p]
        BY <3>2, <1>2, <1>3 DEF MigrateInv, TypeOK
      <3> QED
        BY <3>1, <3>2
    <2>2. {UniqueIndex(n) : n \in MissingUnique(p)} \subseteq Index
      BY <1>1, <1>3, IndexType DEF MissingUnique
    <2>3. idx' \in [Places -> SUBSET Index]
      BY <1>1, <2>2 DEF AlterTable, MigrateInv, TypeOK
    <2> QED
      BY <1>2, <2>1, <2>3 DEF AlterTable, Goto, MigrateInv, TypeOK
  <1>8. RunInv(p)'
    <2>1. pc'[p] = "blocking" /\ at'[p] = at[p] /\ ver'[p] = ver[p]
      BY DEF AlterTable, Goto, MigrateInv, TypeOK
    <2>2. Has(ver[p], at[p])'
      BY <1>1, <1>2, <2>1 DEF Has, Exists, Missing, DeclaredColumns, KindOf, ObjectOf, IsTest
    <2>3. \A t \in Places : t < at[p] => Ready(ver[p], t)'
      BY <1>1, <1>4, <2>1, ReadyStays DEF RunInv
    <2> QED
      BY <1>1, <2>1, <2>2, <2>3 DEF RunInv, Exists, Ready, Has, BlockingColumns
  <1> QED
    BY <1>6, <1>7, <1>8 DEF MigrateInv, AlterTable

\* Letting go of the orphans makes the table ready, for no blocking column came
\* since they were read.
LEMMA RelaxKeeps ==
  ASSUME MigrateInv, NEW p \in Processes, RelaxOrphanColumns(p)
  PROVE  MigrateInv'
  <1>1. /\ RunInv(p) /\ pc[p] = "relax" /\ at[p] \in Places
        /\ Has(ver[p], at[p])
        /\ BlockingColumns(at[p]) \ DeclaredColumns(ver[p], at[p]) \subseteq orphans[p]
    BY DEF MigrateInv, RelaxOrphanColumns, RunInv
  <1>2. /\ \A t \in Places \ {at[p]} : cols'[t] = cols[t]
        /\ DOMAIN cols' = Places
        /\ DOMAIN cols'[at[p]] = DOMAIN cols[at[p]]
        /\ \A n \in DOMAIN cols[at[p]] :
            cols'[at[p]][n] = IF n \in orphans[p]
                              THEN [cols[at[p]][n] EXCEPT !.notnull = FALSE]
                              ELSE cols[at[p]][n]
    BY <1>1 DEF RelaxOrphanColumns, MigrateInv, TypeOK
  <1>3. ASSUME NEW n \in DOMAIN cols[at[p]]
        PROVE  /\ cols'[at[p]][n] \in [notnull : BOOLEAN, dflt : BOOLEAN, pk : BOOLEAN]
               /\ cols'[at[p]][n].dflt = cols[at[p]][n].dflt
               /\ cols'[at[p]][n].pk = cols[at[p]][n].pk
               /\ n \in orphans[p] => ~cols'[at[p]][n].notnull
               /\ n \notin orphans[p] => cols'[at[p]][n].notnull = cols[at[p]][n].notnull
    <2>1. cols[at[p]][n] \in [notnull : BOOLEAN, dflt : BOOLEAN, pk : BOOLEAN]
      BY <1>1 DEF MigrateInv, TypeOK
    <2> QED
      BY <2>1, <1>2
  <1>4. \A n \in DOMAIN cols[at[p]] : cols'[at[p]][n].pk => n \notin orphans[p]
    BY <1>1, <1>3 DEF RunInv, Keys
  <1>6. Grows
    BY <1>1, <1>2, <1>3 DEF Grows, BlockingColumns, Keys
  <1>7. \A q \in Processes \ {p} :
            /\ pc'[q] = pc[q] /\ ver'[q] = ver[q] /\ at'[q] = at[q]
            /\ held'[q] = held[q] /\ orphans'[q] = orphans[q]
    BY DEF RelaxOrphanColumns, Goto, MigrateInv, TypeOK
  <1>8. /\ \A v \in done, t \in Places : Ready(v, t)'
        /\ \A q \in Processes \ {p} : RunInv(q)'
    BY <1>6, <1>7, OthersKeep
  <1>9. TypeOK'
    <2>1. ASSUME NEW t \in Places
          PROVE  /\ DOMAIN cols'[t] \subseteq Columns
                 /\ \A n \in DOMAIN cols'[t] :
                    /\ cols'[t][n] \in [notnull : BOOLEAN, dflt : BOOLEAN, pk : BOOLEAN]
                    /\ cols'[t][n].pk => cols'[t][n].notnull
      <3>1. CASE t # at[p]
        BY <3>1, <1>2 DEF MigrateInv, TypeOK
      <3>2. CASE t = at[p]
        BY <3>2, <1>2, <1>3, <1>4 DEF MigrateInv, TypeOK
      <3> QED
        BY <3>1, <3>2
    <2> QED
      BY <1>2, <2>1 DEF RelaxOrphanColumns, Goto, MigrateInv, TypeOK
  <1>10. RunInv(p)'
    <2>1. pc'[p] = "index" /\ at'[p] = at[p] /\ ver'[p] = ver[p]
      BY DEF RelaxOrphanColumns, Goto, MigrateInv, TypeOK
    <2>2. Has(ver[p], at[p])'
      BY <1>1, <1>6, <2>1, ReadyStays
    <2>3. \A n \in DOMAIN cols[at[p]] : n \notin DeclaredColumns(ver[p], at[p]) =>
            ~(cols'[at[p]][n].notnull /\ ~cols'[at[p]][n].dflt /\ ~cols'[at[p]][n].pk)
      BY <1>1, <1>3 DEF BlockingColumns
    <2>4. Ready(ver[p], at[p])'
      BY <1>2, <2>1, <2>2, <2>3
      DEF Ready, BlockingColumns, DeclaredColumns, ObjectOf, IsTest
    <2>5. \A t \in Places : t < at[p] => Ready(ver[p], t)'
      BY <1>1, <1>6, <2>1, ReadyStays DEF RunInv
    <2> QED
      BY <1>1, <2>1, <2>4, <2>5 DEF RunInv, Exists, Ready, Has, BlockingColumns
  <1> QED
    BY <1>8, <1>9, <1>10 DEF MigrateInv, RelaxOrphanColumns

\* An insert adds a row and changes nothing else.
LEMMA InsertKeeps ==
  ASSUME MigrateInv, NEW v \in Versions, NEW t \in Places, Insert(v, t)
  PROVE  MigrateInv'
  <1>1. TypeOK'
    <2>1. /\ rows[t] \in Seq(Versions) /\ Len(rows[t]) < MaxRows
          /\ rows' = [rows EXCEPT ![t] = Append(rows[t], v)]
      BY DEF Insert, MigrateInv, TypeOK
    <2>2. Append(rows[t], v) \in Seq(Versions) /\ Len(Append(rows[t], v)) = Len(rows[t]) + 1
      BY <2>1
    <2>3. rows' \in [Places -> Seq(Versions)] /\ \A u \in Places : Len(rows'[u]) <= MaxRows
      BY <2>1, <2>2, MigrateAssumption DEF MigrateInv, TypeOK
    <2> QED
      BY <2>3 DEF Insert, MigrateInv, TypeOK
  <1>2. \A w \in done, u \in Places : Ready(w, u)'
    BY DEF Insert, MigrateInv, Ready, Has, Exists, BlockingColumns
  <1>3. \A p \in Processes : RunInv(p)'
    BY SMTT(20) DEF Insert, MigrateInv, RunInv, Ready, Has, Exists, BlockingColumns, Keys
  <1> QED
    BY <1>1, <1>2, <1>3 DEF Insert, MigrateInv

\* Every step keeps the invariant.
LEMMA NextMigrateInv == MigrateInv /\ [Next]_vars => MigrateInv'
  <1> SUFFICES ASSUME MigrateInv, [Next]_vars PROVE MigrateInv'
    OBVIOUS
  <1>1. CASE UNCHANGED vars
    BY <1>1 DEF vars, MigrateInv, TypeOK, RunInv, Ready, Has, Exists, BlockingColumns, Keys
  <1>2. ASSUME NEW p \in Processes, MigrateFails(p) PROVE MigrateInv'
    BY <1>2, LeaveKeeps DEF MigrateFails
  <1>3. ASSUME NEW p \in Processes, AlterFails(p) \/ IndexFails(p) PROVE MigrateInv'
    BY <1>2, <1>3 DEF AlterFails, IndexFails
  <1>4. ASSUME NEW p \in Processes, MigrateReturns(p) PROVE MigrateInv'
    BY <1>4, LeaveKeeps DEF MigrateReturns
  <1>5. ASSUME NEW p \in Processes, Step(p) PROVE MigrateInv'
    BY <1>3, <1>4, <1>5, CreateKeeps, AlterKeeps, RelaxKeeps, ReadingKeeps DEF Step
  <1>6. ASSUME NEW p \in Processes, NEW v \in Versions, MigrateBegin(p, v) PROVE MigrateInv'
    BY <1>6, ReadingKeeps
  <1> QED
    BY <1>1, <1>2, <1>5, <1>6, InsertKeeps DEF Next

\* The tables are as ready as the runs and versions have made them, always.
THEOREM MigrateInvariant == Spec => []MigrateInv
  BY InitMigrateInv, NextMigrateInv, PTL DEF Spec

\* No column of a primary key loses its `not null`, and every variable keeps
\* its kind.
THEOREM MigrateTypes == Spec => []TypeOK
  <1>1. MigrateInv => TypeOK
    BY DEF MigrateInv
  <1> QED
    BY <1>1, MigrateInvariant, PTL

\* A version that has migrated can write its tables from then on, for any
\* number of versions, whatever fields they add and drop, whoever migrates and
\* wherever a run stops, but for a key that grew and for another version's
\* unique index over defaults.
THEOREM MigratedVersionsWrite == Spec => []MigratedCanWrite
  <1>1. MigrateInv => MigratedCanWrite
    <2> SUFFICES ASSUME MigrateInv, NEW v \in done, NEW t \in Places,
                        Keys(t) = KeysOf(v, t), ~CrowdedOut(v, t)
                 PROVE  Accepts(v, t)
      BY DEF MigratedCanWrite
    <2>1. Ready(v, t) /\ v \in Versions
      BY DEF MigrateInv, TypeOK
    <2>2. DeclaredColumns(v, t) \subseteq DOMAIN cols[t]
      BY <2>1 DEF Ready, Has, Keys, KeysOf
    <2>3. ASSUME NEW n \in DOMAIN cols[t] \ DeclaredColumns(v, t), cols[t][n].notnull
          PROVE  cols[t][n].dflt
      BY <2>1, <2>3 DEF Ready, BlockingColumns, Keys, KeysOf, MigrateInv, TypeOK
    <2> QED
      BY <2>2, <2>3 DEF Accepts, CrowdedOut
  <1> QED
    BY <1>1, MigrateInvariant, PTL
-----------------------------------------------------------------------------
(***************************************************************************)
(* Indexes, names, and a second run.                                       *)
(***************************************************************************)
\* What every step leaves: the indexes, the names, and each column's default.
Kept ==
    /\ \A t \in Places : idx[t] \subseteq idx'[t]
    /\ \A t \in Places : \A n \in DOMAIN cols[t] :
        n \in DOMAIN cols'[t] /\ cols'[t][n].dflt = cols[t][n].dflt
    /\ named \subseteq named'

\* HasIndexes after a step.
NamesAfter(v, t) == \A i \in CreateIndexes(v, t) : \E j \in idx'[t] : j.name = i.name

LEMMA NamesStay ==
  ASSUME Kept, NEW v, NEW t \in Places, HasIndexes(v, t)
  PROVE  NamesAfter(v, t)
  BY DEF Kept, HasIndexes, IsNamed, NamesAfter

LEMMA OthersKeepIndexes ==
  ASSUME MigrateInv, CompleteInv, Kept, NEW p,
         \A q \in Processes \ {p} :
            /\ pc'[q] = pc[q] /\ ver'[q] = ver[q] /\ at'[q] = at[q]
            /\ orphans'[q] = orphans[q]
  PROVE  /\ \A v \in done : /\ Objects \subseteq named'
                            /\ \A t \in Places : NamesAfter(v, t)
         /\ \A q \in Processes \ {p} : RunIndexes(q)'
  <1>1. \A v \in done : /\ Objects \subseteq named'
                        /\ \A t \in Places : NamesAfter(v, t)
    BY NamesStay DEF CompleteInv, Kept
  <1>2. ASSUME NEW q \in Processes \ {p}, pc[q] # "idle" PROVE RunIndexes(q)'
    <2>1. RunIndexes(q) /\ RunInv(q)
      BY DEF CompleteInv, MigrateInv
    <2>2. at[q] \in Places
      BY <1>2, <2>1 DEF RunInv
    <2>3. \A t \in Places : t < at[q] => NamesAfter(ver[q], t)
      BY <1>2, <2>1, NamesStay DEF RunIndexes
    <2>4. pc[q] = "names" => NamesAfter(ver[q], at[q])
      BY <1>2, <2>1, <2>2, NamesStay DEF RunIndexes
    <2>5. pc[q] = "relax" => \A n \in orphans[q] :
            n \notin DeclaredColumns(ver[q], at[q]) /\ ~cols'[at[q]][n].dflt
      BY <1>2, <2>1, <2>2 DEF RunIndexes, RunInv, Kept
    <2> QED
      BY <2>3, <2>4, <2>5 DEF RunIndexes, NamesAfter, HasIndexes, IsNamed
  <1>3. ASSUME NEW q \in Processes \ {p}, pc[q] = "idle" PROVE RunIndexes(q)'
    BY <1>3 DEF RunIndexes
  <1> QED
    BY <1>1, <1>2, <1>3

\* Whose an index is: the middle conjunct of TableIndexes.
OfSomeVersion(j, t) ==
    (\E w \in Versions : j \in Indexed[w][ObjectOf(t)]) \/ \E n \in Columns : j = UniqueIndex(n)

LEMMA WhoseIndex ==
  ASSUME NEW v \in Versions, NEW t \in Places, NEW j \in CreateIndexes(v, t)
  PROVE  OfSomeVersion(j, t)
  BY IndexType DEF OfSomeVersion, CreateIndexes

\* A step that leaves the tables and loses no index.
LEMMA SameTables ==
  ASSUME MigrateInv, CompleteInv, cols' = cols, named \subseteq named',
         \A t \in Places : idx[t] \subseteq idx'[t] /\ (~Exists(t) => idx'[t] = idx[t]),
         \A t \in Places : \A j \in idx'[t] \ idx[t] : \E w \in Versions : j \in CreateIndexes(w, t)
  PROVE  Kept /\ \A t \in Places : TableIndexes(t)'
  <1>1. Kept
    BY DEF Kept
  <1>2. ASSUME NEW t \in Places PROVE TableIndexes(t)'
    <2>1. TableIndexes(t) /\ (Exists(t)' <=> Exists(t))
      BY DEF CompleteInv, Exists
    <2>2. \A j \in idx'[t] : OfSomeVersion(j, t)
      <3>1. \A j \in idx[t] : OfSomeVersion(j, t)
        BY <2>1 DEF TableIndexes, OfSomeVersion
      <3> QED
        BY <3>1, WhoseIndex
    <2> QED
      BY <2>1, <2>2 DEF TableIndexes, OfSomeVersion
  <1> QED
    BY <1>1, <1>2

LEMMA LeaveKeepsIndexes ==
  ASSUME MigrateInv, CompleteInv, NEW p \in Processes, Leave(p),
         UNCHANGED <<cols, idx, rows, named, ver, runs>>,
         done' = done \/ (done' = done \cup {ver[p]} /\ pc[p] = "names" /\ Objects \subseteq named)
  PROVE  CompleteInv'
  <1>1. Kept /\ \A t \in Places : TableIndexes(t)'
    BY SameTables
  <1>2. \A q \in Processes \ {p} :
            /\ pc'[q] = pc[q] /\ ver'[q] = ver[q] /\ at'[q] = at[q]
            /\ orphans'[q] = orphans[q]
    BY DEF Leave, Goto, MigrateInv, TypeOK
  <1>3. /\ \A v \in done : /\ Objects \subseteq named'
                            /\ \A t \in Places : NamesAfter(v, t)
        /\ \A q \in Processes \ {p} : RunIndexes(q)'
    BY <1>1, <1>2, OthersKeepIndexes
  <1>4. RunIndexes(p)'
    BY DEF Leave, Goto, RunIndexes, MigrateInv, TypeOK
  <1>5. ASSUME pc[p] = "names", NEW t \in Places PROVE HasIndexes(ver[p], t)
    <2>1. RunInv(p) /\ RunIndexes(p)
      BY DEF MigrateInv, CompleteInv
    <2>2. t < at[p] \/ t = at[p]
      BY <1>5, <2>1, MigrateAssumption DEF RunInv, Places
    <2> QED
      BY <1>5, <2>1, <2>2 DEF RunIndexes
  <1>6. \A v \in done' : Objects \subseteq named' /\ \A t \in Places : HasIndexes(v, t)'
    BY <1>3, <1>5 DEF HasIndexes, IsNamed, NamesAfter
  <1> QED
    BY <1>1, <1>3, <1>4, <1>6 DEF CompleteInv

LEMMA ReadingKeepsIndexes ==
  ASSUME MigrateInv, CompleteInv, NEW p \in Processes,
         \/ \E v \in Versions : MigrateBegin(p, v)
         \/ ColumnNames(p)
         \/ ReadOrphans(p)
         \/ pc[p] = "index" /\ \E i \in CreateIndexes(ver[p], at[p]) : CreateIndex(p, i)
         \/ NextTable(p)
         \/ \E o \in Objects : RecordName(p, o)
  PROVE  CompleteInv'
  <1>1. cols' = cols /\ done' = done /\ named \subseteq named'
    BY DEF MigrateBegin, ColumnNames, ReadOrphans, CreateIndex, NextTable, RecordName
  <1>2. \A t \in Places : idx[t] \subseteq idx'[t] /\ (~Exists(t) => idx'[t] = idx[t])
    <2>1. ASSUME NEW i, CreateIndex(p, i)
          PROVE  \A t \in Places : idx[t] \subseteq idx'[t] /\ (~Exists(t) => idx'[t] = idx[t])
      <3>1. Exists(at[p])
        BY <2>1 DEF CreateIndex, MigrateInv, RunInv, Ready, Has
      <3> QED
        BY <2>1, <3>1 DEF CreateIndex, MigrateInv, TypeOK
    <2>2. (\A i : ~CreateIndex(p, i)) => idx' = idx
      BY DEF MigrateBegin, ColumnNames, ReadOrphans, NextTable, RecordName
    <2> QED
      BY <2>1, <2>2
  <1>14. \A t \in Places : \A j \in idx'[t] \ idx[t] : \E w \in Versions : j \in CreateIndexes(w, t)
    <2>1. ASSUME pc[p] = "index", NEW i \in CreateIndexes(ver[p], at[p]), CreateIndex(p, i)
          PROVE  \A t \in Places : \A j \in idx'[t] \ idx[t] : \E w \in Versions : j \in CreateIndexes(w, t)
      BY <2>1 DEF CreateIndex, MigrateInv, TypeOK
    <2>2. (\A i \in CreateIndexes(ver[p], at[p]) : ~(pc[p] = "index" /\ CreateIndex(p, i))) => idx' = idx
      BY DEF MigrateBegin, ColumnNames, ReadOrphans, NextTable, RecordName
    <2> QED
      BY <2>1, <2>2
  <1>3. Kept /\ \A t \in Places : TableIndexes(t)'
    BY <1>1, <1>2, <1>14, SameTables
  <1>4. \A q \in Processes \ {p} :
            /\ pc'[q] = pc[q] /\ ver'[q] = ver[q] /\ at'[q] = at[q]
            /\ orphans'[q] = orphans[q]
    BY DEF MigrateBegin, ColumnNames, ReadOrphans, CreateIndex, NextTable, RecordName,
           Goto, MigrateInv, TypeOK
  <1>5. /\ \A v \in done' : Objects \subseteq named' /\ \A t \in Places : HasIndexes(v, t)'
        /\ \A q \in Processes \ {p} : RunIndexes(q)'
    BY <1>1, <1>3, <1>4, OthersKeepIndexes DEF HasIndexes, IsNamed, NamesAfter
  <1>6. RunInv(p) /\ RunIndexes(p)
    BY DEF MigrateInv, CompleteInv
  <1>7. ASSUME NEW v \in Versions, MigrateBegin(p, v) PROVE RunIndexes(p)'
    <2>1. at'[p] = 1 /\ pc'[p] = "create" /\ \A t \in Places : ~(t < 1)
      BY <1>7, MigrateAssumption DEF MigrateBegin, Goto, MigrateInv, TypeOK, Places
    <2> QED
      BY <2>1 DEF RunIndexes
  <1>8. ASSUME at'[p] = at[p], ver'[p] = ver[p], pc[p] # "idle", pc'[p] # "names",
               \/ pc'[p] # "relax"
               \/ \A n \in orphans'[p] :
                    n \notin DeclaredColumns(ver[p], at[p]) /\ ~cols[at[p]][n].dflt
        PROVE  RunIndexes(p)'
    <2>1. \A t \in Places : t < at[p] => NamesAfter(ver[p], t)
      BY <1>3, <1>6, <1>8, NamesStay DEF RunIndexes
    <2> QED
      BY <1>1, <1>8, <2>1 DEF RunIndexes, HasIndexes, IsNamed, NamesAfter
  <1>9. ASSUME ColumnNames(p) PROVE RunIndexes(p)'
    BY <1>8, <1>9 DEF ColumnNames, Goto, MigrateInv, TypeOK
  <1>10. ASSUME ReadOrphans(p) PROVE RunIndexes(p)'
    <2>1. /\ pc[p] = "blocking" /\ pc'[p] = "relax" /\ at'[p] = at[p] /\ ver'[p] = ver[p]
          /\ orphans'[p] = BlockingColumns(at[p]) \ DeclaredColumns(ver[p], at[p])
      BY <1>10 DEF ReadOrphans, Goto, MigrateInv, TypeOK, Orphans
    <2> QED
      BY <1>8, <2>1 DEF BlockingColumns
  <1>11. ASSUME NEW i, CreateIndex(p, i)
         PROVE  RunIndexes(p)'
    <2>1. pc' = pc /\ at' = at /\ ver' = ver /\ pc[p] = "index"
      BY <1>11 DEF CreateIndex
    <2> QED
      BY <1>8, <2>1
  <1>12. ASSUME NextTable(p) PROVE RunIndexes(p)'
    <2>1. /\ pc[p] = "index" /\ ver'[p] = ver[p] /\ idx' = idx
          /\ HasIndexes(ver[p], at[p])
          /\ at'[p] = (IF at[p] + 1 \in Places THEN at[p] + 1 ELSE at[p])
          /\ pc'[p] = (IF at[p] + 1 \in Places THEN "create" ELSE "names")
      BY <1>12 DEF NextTable, Goto, MigrateInv, TypeOK, HasIndexes
    <2>2. /\ at[p] \in Places
          /\ \A t \in Places : t < at[p] => HasIndexes(ver[p], t)
      BY <1>6, <2>1 DEF RunInv, RunIndexes
    <2>3. \A t \in Places : t < at[p] + 1 => t < at[p] \/ t = at[p]
      BY <2>2, MigrateAssumption DEF Places
    <2> QED
      BY <2>1, <2>2, <2>3 DEF RunIndexes, HasIndexes, IsNamed
  <1>13. ASSUME NEW o \in Objects, RecordName(p, o) PROVE RunIndexes(p)'
    BY <1>1, <1>2, <1>6, <1>13 DEF RecordName, RunIndexes, HasIndexes, IsNamed
  <1> QED
    BY <1>3, <1>5, <1>7, <1>9, <1>10, <1>11, <1>12, <1>13 DEF CompleteInv

\* A statement that alters one table.
LEMMA AlteringKeepsIndexes ==
  ASSUME MigrateInv, CompleteInv, NEW p \in Processes, Kept, done' = done,
         \A t \in Places : TableIndexes(t)',
         pc[p] # "idle", pc'[p] \notin {"names", "relax"},
         at' = at, ver' = ver, orphans' = orphans,
         \A q \in Processes \ {p} : pc'[q] = pc[q]
  PROVE  CompleteInv'
  <1>1. /\ \A v \in done' : Objects \subseteq named' /\ \A t \in Places : HasIndexes(v, t)'
        /\ \A q \in Processes \ {p} : RunIndexes(q)'
    BY OthersKeepIndexes DEF HasIndexes, IsNamed, NamesAfter
  <1>2. RunIndexes(p)
    BY DEF CompleteInv
  <1>3. \A t \in Places : t < at[p] => NamesAfter(ver[p], t)
    BY <1>2, NamesStay DEF RunIndexes
  <1>4. RunIndexes(p)'
    BY <1>3 DEF RunIndexes, HasIndexes, IsNamed, NamesAfter
  <1> QED
    BY <1>1, <1>4 DEF CompleteInv

\* A table is created with the unique constraints of its columns.
LEMMA CreateKeepsIndexes ==
  ASSUME MigrateInv, CompleteInv, NEW p \in Processes, CreateTable(p)
  PROVE  CompleteInv'
  <1>1. RunInv(p) /\ pc[p] = "create" /\ at[p] \in Places /\ ver[p] \in Versions
    BY DEF MigrateInv, CreateTable, RunInv, TypeOK
  <1>2. /\ \A t \in Places : Exists(t) => cols'[t] = cols[t] /\ idx'[t] = idx[t]
        /\ ~Exists(at[p]) => /\ cols'[at[p]] = Created(ver[p], at[p])
                             /\ idx'[at[p]] = CreatedUniques(ver[p], at[p])
        /\ \A t \in Places \ {at[p]} : cols'[t] = cols[t] /\ idx'[t] = idx[t]
    BY <1>1 DEF CreateTable, MigrateInv, TypeOK
  <1>3. \A t \in Places : TableIndexes(t)
    BY DEF CompleteInv
  <1>4. \A t \in Places : idx[t] \subseteq idx'[t]
    BY <1>2, <1>3 DEF TableIndexes
  <1>5. \A t \in Places : ~Exists(t) => DOMAIN cols[t] = {}
    BY DEF Exists
  <1>6. Kept
    BY <1>2, <1>4, <1>5 DEF Kept, CreateTable
  <1>7. /\ pc'[p] = "columns" /\ at' = at /\ ver' = ver /\ orphans' = orphans /\ done' = done
        /\ \A q \in Processes \ {p} : pc'[q] = pc[q]
    BY DEF CreateTable, Goto, MigrateInv, TypeOK
  <1>8. Exists(at[p])'
    <2>1. RunInv(p)'
      BY CreateKeeps DEF MigrateInv
    <2> QED
      BY <1>7, <2>1 DEF RunInv, Exists
  <1>9. ASSUME NEW t \in Places PROVE TableIndexes(t)'
    <2>1. CASE cols'[t] = cols[t] /\ idx'[t] = idx[t]
      BY <1>3, <2>1 DEF TableIndexes, Exists
    <2>2. CASE t = at[p] /\ ~Exists(t)
      <3>1. cols'[t] = Created(ver[p], t) /\ idx'[t] = CreatedUniques(ver[p], t) /\ Exists(t)'
        BY <1>2, <1>7, <1>8, <2>2 DEF Exists
      <3>2. ASSUME ~IsTest(t), NEW n \in DOMAIN cols'[t], AlwaysUnique(t, n)
            PROVE  UniqueIndex(n) \in idx'[t]
        <4>1. n \in DOMAIN Fields[ver[p]][ObjectOf(t)]
          BY <3>1, <3>2 DEF Created, DeclaredColumns
        <4>2. n \in Unique[ver[p]][ObjectOf(t)] /\ KindOf(ver[p], t, n) # "key"
          BY <1>1, <3>2, <4>1 DEF AlwaysUnique
        <4> QED
          BY <3>1, <3>2, <4>2 DEF CreatedUniques
      <3>3. \A j \in idx'[t] : OfSomeVersion(j, t)
        BY <1>1, <2>2, <3>1, IndexType DEF CreatedUniques, OfSomeVersion
      <3> QED
        BY <3>1, <3>2, <3>3 DEF TableIndexes, OfSomeVersion
    <2> QED
      BY <1>2, <2>1, <2>2
  <1> QED
    BY <1>1, <1>6, <1>7, <1>9, AlteringKeepsIndexes

\* A column is added in one transaction with its unique index.
LEMMA AlterKeepsIndexes ==
  ASSUME MigrateInv, CompleteInv, NEW p \in Processes, AlterTable(p)
  PROVE  CompleteInv'
  <1>1. /\ RunInv(p) /\ pc[p] = "alter" /\ at[p] \in Places /\ ver[p] \in Versions
        /\ Exists(at[p])
    BY DEF MigrateInv, AlterTable, RunInv, TypeOK
  <1>2. /\ \A t \in Places \ {at[p]} : cols'[t] = cols[t] /\ idx'[t] = idx[t]
        /\ DOMAIN cols'[at[p]] = DOMAIN cols[at[p]] \cup Missing(p)
        /\ \A n \in DOMAIN cols[at[p]] : cols'[at[p]][n] = cols[at[p]][n]
        /\ idx'[at[p]] = idx[at[p]] \cup {UniqueIndex(n) : n \in MissingUnique(p)}
    BY <1>1 DEF AlterTable, MigrateInv, TypeOK
  <1>3. Kept
    BY <1>2 DEF Kept, AlterTable
  <1>4. /\ pc'[p] = "blocking" /\ at' = at /\ ver' = ver /\ orphans' = orphans /\ done' = done
        /\ \A q \in Processes \ {p} : pc'[q] = pc[q]
    BY DEF AlterTable, Goto, MigrateInv, TypeOK
  <1>5. ASSUME NEW t \in Places PROVE TableIndexes(t)'
    <2>1. TableIndexes(t)
      BY DEF CompleteInv
    <2>2. CASE t # at[p]
      BY <1>2, <2>1, <2>2 DEF TableIndexes, Exists
    <2>3. CASE t = at[p]
      <3>1. Exists(t)'
        BY <1>1, <1>2, <2>3 DEF Exists
      <3>2. ASSUME ~IsTest(t), NEW n \in Missing(p), AlwaysUnique(t, n)
            PROVE  n \in MissingUnique(p)
        <4>1. n \in DOMAIN Fields[ver[p]][ObjectOf(t)]
          BY <2>3, <3>2 DEF Missing, DeclaredColumns
        <4> QED
          BY <1>1, <2>3, <3>2, <4>1 DEF AlwaysUnique, MissingUnique
      <3>3. ~IsTest(t) => \A n \in DOMAIN cols'[t] : AlwaysUnique(t, n) => UniqueIndex(n) \in idx'[t]
        BY <1>2, <2>1, <2>3, <3>2 DEF TableIndexes
      <3>4. \A j \in idx'[t] : OfSomeVersion(j, t)
        <4>1. \A n \in MissingUnique(p) : n \in Columns
          BY <1>1, KindType DEF MissingUnique, Missing
        <4> QED
          BY <1>2, <2>1, <2>3, <4>1 DEF TableIndexes, OfSomeVersion
      <3> QED
        BY <3>1, <3>3, <3>4 DEF TableIndexes, OfSomeVersion
    <2> QED
      BY <2>2, <2>3
  <1> QED
    BY <1>1, <1>3, <1>4, <1>5, AlteringKeepsIndexes

LEMMA RelaxKeepsIndexes ==
  ASSUME MigrateInv, CompleteInv, NEW p \in Processes, RelaxOrphanColumns(p)
  PROVE  CompleteInv'
  <1>1. RunInv(p) /\ pc[p] = "relax" /\ at[p] \in Places
    BY DEF MigrateInv, RelaxOrphanColumns, RunInv
  <1>2. /\ \A t \in Places \ {at[p]} : cols'[t] = cols[t]
        /\ DOMAIN cols'[at[p]] = DOMAIN cols[at[p]]
        /\ \A n \in DOMAIN cols[at[p]] :
            cols'[at[p]][n] = IF n \in orphans[p]
                              THEN [cols[at[p]][n] EXCEPT !.notnull = FALSE]
                              ELSE cols[at[p]][n]
    BY <1>1 DEF RelaxOrphanColumns, MigrateInv, TypeOK
  <1>3. \A n \in DOMAIN cols[at[p]] : cols'[at[p]][n].dflt = cols[at[p]][n].dflt
    <2> SUFFICES ASSUME NEW n \in DOMAIN cols[at[p]]
                 PROVE  cols'[at[p]][n].dflt = cols[at[p]][n].dflt
      OBVIOUS
    <2>1. cols[at[p]][n] \in [notnull : BOOLEAN, dflt : BOOLEAN, pk : BOOLEAN]
      BY <1>1 DEF MigrateInv, TypeOK
    <2> QED
      BY <1>2, <2>1
  <1>4. Kept
    BY <1>2, <1>3 DEF Kept, RelaxOrphanColumns
  <1>5. /\ pc'[p] = "index" /\ at' = at /\ ver' = ver /\ orphans' = orphans /\ done' = done
        /\ idx' = idx /\ \A q \in Processes \ {p} : pc'[q] = pc[q]
    BY DEF RelaxOrphanColumns, Goto, MigrateInv, TypeOK
  <1>6. ASSUME NEW t \in Places PROVE TableIndexes(t)'
    <2>1. TableIndexes(t) /\ DOMAIN cols'[t] = DOMAIN cols[t]
      BY <1>2 DEF CompleteInv
    <2> QED
      BY <1>5, <2>1 DEF TableIndexes, Exists
  <1> QED
    BY <1>1, <1>4, <1>5, <1>6, AlteringKeepsIndexes

LEMMA InitCompleteInv == Init => CompleteInv
  BY DEF Init, CompleteInv, TableIndexes, RunIndexes, Exists

LEMMA NextCompleteInv == MigrateInv /\ CompleteInv /\ [Next]_vars => CompleteInv'
  <1> SUFFICES ASSUME MigrateInv, CompleteInv, [Next]_vars PROVE CompleteInv'
    OBVIOUS
  <1>1. CASE UNCHANGED <<cols, idx, named, pc, ver, at, orphans, done>>
    BY <1>1 DEF CompleteInv, HasIndexes, IsNamed, TableIndexes, RunIndexes, Exists
  <1>2. ASSUME NEW p \in Processes, MigrateFails(p) PROVE CompleteInv'
    BY <1>2, LeaveKeepsIndexes DEF MigrateFails
  <1>3. ASSUME NEW p \in Processes, AlterFails(p) \/ IndexFails(p) PROVE CompleteInv'
    BY <1>2, <1>3 DEF AlterFails, IndexFails
  <1>4. ASSUME NEW p \in Processes, MigrateReturns(p) PROVE CompleteInv'
    BY <1>4, LeaveKeepsIndexes DEF MigrateReturns
  <1>5. ASSUME NEW p \in Processes, Step(p) PROVE CompleteInv'
    BY <1>3, <1>4, <1>5, CreateKeepsIndexes, AlterKeepsIndexes, RelaxKeepsIndexes,
       ReadingKeepsIndexes DEF Step
  <1>6. ASSUME NEW p \in Processes, NEW v \in Versions, MigrateBegin(p, v) PROVE CompleteInv'
    BY <1>6, ReadingKeepsIndexes
  <1>7. ASSUME NEW v \in Versions, NEW t \in Places, Insert(v, t) PROVE CompleteInv'
    BY <1>1, <1>7 DEF Insert
  <1>8. CASE UNCHANGED vars
    BY <1>1, <1>8 DEF vars
  <1> QED
    BY <1>2, <1>5, <1>6, <1>7, <1>8 DEF Next

\* The tables have the indexes that the runs and versions have made, always.
THEOREM CompleteInvariant == Spec => [](MigrateInv /\ CompleteInv)
  BY InitMigrateInv, NextMigrateInv, InitCompleteInv, NextCompleteInv, PTL DEF Spec

\* An index of some name is the version's own, or another's.
LEMMA IndexByName ==
  ASSUME MigrateInv, CompleteInv, NEW v \in Versions, NEW t \in Places,
         NEW i \in CreateIndexes(v, t), IsNamed(i.name, t)
  PROVE  \/ i \in idx[t]
         \/ \E j \in idx[t], w \in Versions \ {v} : j.name = i.name /\ j \in CreateIndexes(w, t)
  <1>1. PICK j \in idx[t] : j.name = i.name
    BY DEF IsNamed
  <1>2. ObjectOf(t) \in Objects
    BY MigrateAssumption DEF Places, ObjectOf, Objects, IsTest
  <1>3. \A w \in Versions : \A k \in Indexed[w][ObjectOf(t)] : k.name[1] = "index"
    BY <1>2, MigrateAssumption
  <1>4. \A n : UniqueIndex(n).name = <<"unique", n>> /\ UniqueIndex(n).name[1] = "unique"
    BY DEF UniqueIndex
  <1>5. OfSomeVersion(j, t)
    BY DEF CompleteInv, TableIndexes, OfSomeVersion
  <1>6. CASE i \in Indexed[v][ObjectOf(t)]
    <2>1. j.name[1] = "index"
      BY <1>1, <1>3, <1>6
    <2>2. PICK w \in Versions : j \in Indexed[w][ObjectOf(t)]
      BY <1>4, <1>5, <2>1 DEF OfSomeVersion
    <2>3. CASE w = v
      BY <1>1, <1>2, <1>6, <2>2, <2>3, MigrateAssumption
    <2>4. CASE w # v
      BY <1>1, <2>2, <2>4 DEF CreateIndexes
    <2> QED
      BY <2>3, <2>4
  <1>7. CASE \E n : i = UniqueIndex(n)
    <2>1. PICK n : i = UniqueIndex(n)
      BY <1>7
    <2>2. j.name = <<"unique", n>> /\ j.name[1] = "unique"
      BY <1>1, <1>4, <2>1
    <2>3. PICK m \in Columns : j = UniqueIndex(m)
      BY <1>3, <1>5, <2>2 DEF OfSomeVersion
    <2>4. m = n
      BY <1>4, <2>2, <2>3
    <2> QED
      BY <2>1, <2>3, <2>4
  <1> QED
    BY <1>6, <1>7 DEF CreateIndexes

\* A version whose Migrate returned has each of its indexes, or one another
\* version declares under that name, and its objects' names from then on,
\* whatever other versions create, add and relax.
THEOREM MigratedVersionsAreComplete == Spec => []MigratedIsComplete
  <1>1. MigrateInv /\ CompleteInv => MigratedIsComplete
    <2> SUFFICES ASSUME MigrateInv, CompleteInv, NEW v \in done
                 PROVE  /\ Objects \subseteq named
                        /\ \A t \in Places : \A i \in CreateIndexes(v, t) :
                            \/ i \in idx[t]
                            \/ \E j \in idx[t], w \in Versions \ {v} :
                                j.name = i.name /\ j \in CreateIndexes(w, t)
      BY DEF MigratedIsComplete
    <2>1. /\ v \in Versions /\ Objects \subseteq named
          /\ \A t \in Places : \A i \in CreateIndexes(v, t) : IsNamed(i.name, t)
      BY DEF MigrateInv, TypeOK, CompleteInv, HasIndexes
    <2> QED
      BY <2>1, IndexByName
  <1> QED
    BY <1>1, CompleteInvariant, PTL

\* A field that is unique in every version is unique in the database once one
\* version has migrated: createTable, alterObject and createIndexes leave no
\* way to the column but with its index, wherever runs stop.
THEOREM UniqueFieldsAreUnique == Spec => []UniqueIsEnforced
  <1>1. MigrateInv /\ CompleteInv => UniqueIsEnforced
    <2> SUFFICES ASSUME MigrateInv, CompleteInv, NEW v \in done, NEW t \in Places,
                        NEW n \in Unique[v][ObjectOf(t)], AlwaysUnique(t, n)
                 PROVE  UniqueIndex(n) \in idx[t]
      BY DEF UniqueIsEnforced
    <2>1. v \in Versions /\ ObjectOf(t) \in Objects
      BY MigrateAssumption DEF MigrateInv, TypeOK, Places, ObjectOf, Objects, IsTest
    <2>2. n \in DOMAIN Fields[v][ObjectOf(t)]
      BY <2>1, MigrateAssumption
    <2>3. KindOf(v, t, n) # "key"
      BY <2>1, <2>2 DEF AlwaysUnique
    <2>4. CASE IsTest(t)
      <3>1. UniqueIndex(n) \in CreateIndexes(v, t)
        BY <2>3, <2>4 DEF CreateIndexes
      <3>2. PICK j \in idx[t] : j.name = UniqueIndex(n).name
        BY <3>1 DEF CompleteInv, HasIndexes, IsNamed
      <3>3. \A w \in Versions : \A k \in Indexed[w][ObjectOf(t)] : k.name[1] = "index"
        BY <2>1, MigrateAssumption
      <3>4. \A m : UniqueIndex(m).name = <<"unique", m>>
        BY DEF UniqueIndex
      <3>5. j.name[1] = "unique" /\ j.name = <<"unique", n>>
        BY <3>2, <3>4
      <3>6. PICK m \in Columns : j = UniqueIndex(m)
        BY <3>3, <3>5 DEF CompleteInv, TableIndexes
      <3>7. m = n
        BY <3>4, <3>5, <3>6
      <3> QED
        BY <3>6, <3>7
    <2>5. CASE ~IsTest(t)
      <3>1. n \in DOMAIN cols[t]
        BY <2>2, <2>3 DEF MigrateInv, Ready, Has, DeclaredColumns
      <3> QED
        BY <2>5, <3>1 DEF CompleteInv, TableIndexes
    <2> QED
      BY <2>4, <2>5
  <1> QED
    BY <1>1, CompleteInvariant, PTL

\* Tables are functions of their columns.
AreFunctions ==
    /\ cols = [t \in Places |-> cols[t]]
    /\ \A t \in Places : cols[t] = [n \in DOMAIN cols[t] |-> cols[t][n]]

LEMMA OneTable ==
  ASSUME AreFunctions, NEW t \in Places, NEW c, c = [n \in DOMAIN c |-> c[n]],
         cols' = [cols EXCEPT ![t] = c]
  PROVE  AreFunctions'
  <1>1. /\ cols' = [u \in Places |-> cols'[u]] /\ cols'[t] = c
        /\ \A u \in Places : u # t => cols'[u] = cols[u]
    BY DEF AreFunctions
  <1>2. ASSUME NEW u \in Places PROVE cols'[u] = [n \in DOMAIN cols'[u] |-> cols'[u][n]]
    <2>1. CASE u = t
      BY <1>1, <2>1
    <2>2. CASE u # t
      BY <1>1, <2>2 DEF AreFunctions
    <2> QED
      BY <2>1, <2>2
  <1> QED
    BY <1>1, <1>2 DEF AreFunctions

LEMMA CreateStep ==
  ASSUME AreFunctions, MigrateInv, NEW p \in Processes, CreateTable(p)
  PROVE  AreFunctions' /\ (Exists(at[p]) => cols' = cols)
  <1>1. at[p] \in Places
    BY DEF MigrateInv, CreateTable, RunInv
  <1>2. CASE Exists(at[p])
    <2>1. cols' = [cols EXCEPT ![at[p]] = cols[at[p]]]
      BY <1>2 DEF CreateTable
    <2> QED
      BY <1>1, <2>1 DEF AreFunctions
  <1>3. CASE ~Exists(at[p])
    <2> DEFINE c == Created(ver[p], at[p])
    <2>1. cols' = [cols EXCEPT ![at[p]] = c] /\ c = [n \in DOMAIN c |-> c[n]]
      BY <1>3 DEF CreateTable, Created
    <2> HIDE DEF c
    <2> QED
      BY <1>1, <1>3, <2>1, OneTable
  <1> QED
    BY <1>2, <1>3

LEMMA AlterStep ==
  ASSUME AreFunctions, MigrateInv, NEW p \in Processes, AlterTable(p)
  PROVE  AreFunctions' /\ (Has(ver[p], at[p]) => cols' = cols)
  <1> DEFINE t == at[p]
             old == cols[t]
             c == [n \in DOMAIN old \cup Missing(p) |->
                    IF n \in DOMAIN old THEN old[n] ELSE AddedColumn(KindOf(ver[p], t, n))]
  <1>1. at[p] \in Places /\ Missing(p) \cap DOMAIN old = {}
    BY DEF MigrateInv, AlterTable, RunInv
  <1>2. cols' = [cols EXCEPT ![t] = c] /\ c = [n \in DOMAIN c |-> c[n]]
    BY DEF AlterTable
  <1>3. AreFunctions'
    <2> HIDE DEF c
    <2> QED
      BY <1>1, <1>2, OneTable
  <1>4. ASSUME Has(ver[p], t) PROVE cols' = cols
    <2>1. Missing(p) = {}
      BY <1>1, <1>4 DEF Has, Missing
    <2>2. old = [n \in DOMAIN old |-> old[n]]
      BY <1>1 DEF AreFunctions
    <2>3. c = old
      BY <2>1, <2>2
    <2>4. cols' = [cols EXCEPT ![t] = cols[t]]
      <3> HIDE DEF c
      <3> QED
        BY <1>2, <2>3
    <2> QED
      BY <1>1, <2>4 DEF AreFunctions
  <1> QED
    BY <1>3, <1>4

LEMMA RelaxStep ==
  ASSUME AreFunctions, MigrateInv, CompleteInv, NEW p \in Processes, RelaxOrphanColumns(p)
  PROVE  AreFunctions' /\ (Ready(ver[p], at[p]) => cols' = cols)
  <1> DEFINE t == at[p]
             old == cols[t]
             c == [n \in DOMAIN old |->
                    IF n \in orphans[p] THEN [old[n] EXCEPT !.notnull = FALSE] ELSE old[n]]
  <1>1. pc[p] = "relax" /\ RunInv(p) /\ RunIndexes(p) /\ t \in Places
    BY DEF MigrateInv, CompleteInv, RelaxOrphanColumns, RunInv
  <1>2. cols' = [cols EXCEPT ![t] = c] /\ c = [n \in DOMAIN c |-> c[n]]
    BY DEF RelaxOrphanColumns
  <1>3. AreFunctions'
    <2> HIDE DEF c
    <2> QED
      BY <1>1, <1>2, OneTable
  <1>4. ASSUME Ready(ver[p], t) PROVE cols' = cols
    <2>1. ASSUME NEW n \in DOMAIN old, n \in orphans[p]
          PROVE  [old[n] EXCEPT !.notnull = FALSE] = old[n]
      <3>1. /\ n \notin DeclaredColumns(ver[p], t) /\ ~old[n].dflt
            /\ n \notin Keys(t)
        BY <1>1, <2>1 DEF RunInv, RunIndexes
      <3>2. n \notin BlockingColumns(t)
        BY <1>4, <3>1 DEF Ready
      <3>3. old[n] \in [notnull : BOOLEAN, dflt : BOOLEAN, pk : BOOLEAN]
        BY <1>1, <2>1 DEF MigrateInv, TypeOK
      <3>4. ~old[n].notnull
        BY <2>1, <3>1, <3>2 DEF BlockingColumns, Keys
      <3> HIDE DEF old
      <3>5. old[n].notnull = FALSE
        BY <3>3, <3>4
      <3> QED
        BY <3>3, <3>5
    <2>2. old = [n \in DOMAIN old |-> old[n]]
      BY <1>1 DEF AreFunctions
    <2>3. c = old
      <3> HIDE DEF old
      <3>1. \A n \in DOMAIN old : c[n] = old[n]
        BY <2>1
      <3> QED
        BY <2>2, <3>1
    <2>4. cols' = [cols EXCEPT ![t] = cols[t]]
      <3> HIDE DEF c
      <3> QED
        BY <1>2, <2>3
    <2> QED
      BY <1>1, <2>4 DEF AreFunctions
  <1> QED
    BY <1>3, <1>4

\* Only three statements alter a table, and a process takes its own steps only.
LEMMA WhoAlters ==
  ASSUME [Next]_vars, MigrateInv, cols' # cols
  PROVE  \E q \in Processes :
            /\ CreateTable(q) \/ AlterTable(q) \/ RelaxOrphanColumns(q)
            /\ \A p \in Processes \ {q} : pc'[p] = pc[p]
  <1>1. PICK q \in Processes : CreateTable(q) \/ AlterTable(q) \/ RelaxOrphanColumns(q)
    BY DEF Next, vars, Step, MigrateBegin, ColumnNames, AlterFails, ReadOrphans, IndexFails,
           CreateIndex, NextTable, RecordName, MigrateReturns, MigrateFails, Insert
  <1>2. \A p \in Processes \ {q} : pc'[p] = pc[p]
    BY <1>1 DEF CreateTable, AlterTable, RelaxOrphanColumns, Goto, MigrateInv, TypeOK
  <1> QED
    BY <1>1, <1>2

LEMMA FunctionsInvariant == Spec => []AreFunctions
  <1>1. Init => AreFunctions
    BY DEF Init, AreFunctions
  <1>2. MigrateInv /\ CompleteInv /\ AreFunctions /\ [Next]_vars => AreFunctions'
    <2> SUFFICES ASSUME MigrateInv, CompleteInv, AreFunctions, [Next]_vars
                 PROVE  AreFunctions'
      OBVIOUS
    <2>1. CASE cols' = cols
      BY <2>1 DEF AreFunctions
    <2>2. CASE cols' # cols
      BY <2>2, WhoAlters, CreateStep, AlterStep, RelaxStep
    <2> QED
      BY <2>1, <2>2
  <1> QED
    BY <1>1, <1>2, CompleteInvariant, PTL DEF Spec

\* "Running it twice is a no-op" (migrate.go): a run of a version that has
\* migrated finds its tables, its columns, and nothing left to relax, also when
\* it read the orphans before the other run of that version let go of them.
THEOREM SecondRunAltersNothing == Spec => SecondRunIsANoOp
  <1>1. ASSUME MigrateInv, CompleteInv, AreFunctions, [Next]_vars, NEW p \in Processes,
               ver[p] \in done, pc[p] # "idle", pc'[p] # pc[p]
        PROVE  cols' = cols
    <2>1. at[p] \in Places /\ Ready(ver[p], at[p])
      BY <1>1 DEF MigrateInv, RunInv
    <2>2. Exists(at[p]) /\ Has(ver[p], at[p])
      BY <2>1 DEF Ready, Has
    <2>3. cols' = cols \/ CreateTable(p) \/ AlterTable(p) \/ RelaxOrphanColumns(p)
      BY <1>1, WhoAlters
    <2> QED
      BY <1>1, <2>1, <2>2, <2>3, CreateStep, AlterStep, RelaxStep
  <1>2. ASSUME MigrateInv, CompleteInv, AreFunctions, [Next]_vars
        PROVE  [\A p \in Processes :
                  (ver[p] \in done /\ pc[p] # "idle" /\ pc'[p] # pc[p]) => cols' = cols]_vars
    BY <1>1, <1>2
  <1> QED
    BY <1>2, CompleteInvariant, FunctionsInvariant, PTL DEF Spec, SecondRunIsANoOp
=============================================================================
