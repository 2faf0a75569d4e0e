------------------------------- MODULE Migrate -------------------------------
(***************************************************************************)
(* Migrate of src/spec: it creates the tables of a declared module, adds   *)
(* the columns a table lacks, lets go of `not null` on columns no longer   *)
(* declared, and makes the indexes, table by table and statement by        *)
(* statement (migrate.go, alter.go, relax.go, names.go).                   *)
(*                                                                         *)
(* Processes of several versions of the module start, migrate, fail half   *)
(* way and start again over one Postgres database, and write rows once     *)
(* their Migrate has returned without an error.  A transaction of `alter   *)
(* table` statements holds the table from its first statement, so it is    *)
(* one step; what it is made of was read by an earlier statement.          *)
(***************************************************************************)
EXTENDS Integers, Sequences

CONSTANTS
    Processes,  \* processes that migrate, each one run at a time
    Versions,   \* published versions of the module
    NStored,    \* how many objects are stored: declared ones and settings
    NObjects,   \* how many of them are declared, and have a test copy
    Columns,    \* column names, RunID among them
    RunID,      \* the column only test copies have
    Fields,     \* the kind of each field, by version and object
    Unique,     \* the unique fields, by version and object
    IndexNames, \* names of declared indexes
    Indexed,    \* the declared indexes, by version and object
    MaxRows,    \* bound: rows of a table
    MaxRuns     \* bound: runs of Migrate in a behaviour

\* What validation lets a field be: part of the primary key; required; a
\* required json or geometry; with a default, given or its type's; or with
\* neither (nullable, or an optional document).
Kinds == {"key", "required", "document", "defaulted", "nullable"}

Objects == 1..NStored

\* The tables in the order Migrate takes them: live, then test copies.
Places == 1..(NStored + NObjects)
IsTest(t) == t > NStored
ObjectOf(t) == IF IsTest(t) THEN t - NStored ELSE t

\* An index: its name in the database, its columns and whether it is unique.
\* Names are made of the table's and the declared one (IndexFor), or of the
\* table's and a unique field's (testUniqueIndexName), and never meet.  What an
\* expression or a condition of an index leaves out of it is left out here, and
\* so is the run_id that the indexes of a test copy begin with.
Index == [name : {"unique", "index"} \X (Columns \cup IndexNames),
          on : SUBSET Columns, unique : BOOLEAN]
UniqueIndex(n) == [name |-> <<"unique", n>>, on |-> {n}, unique |-> TRUE]

ASSUME MigrateAssumption ==
    /\ NStored \in Nat \ {0} /\ NObjects \in 0..NStored
    /\ MaxRows \in Nat /\ MaxRuns \in Nat
    /\ RunID \in Columns
    /\ \A v \in Versions, o \in Objects :
        /\ DOMAIN Fields[v][o] \subseteq Columns \ {RunID}
        /\ \A n \in DOMAIN Fields[v][o] : Fields[v][o][n] \in Kinds
        /\ \E n \in DOMAIN Fields[v][o] : Fields[v][o][n] = "key"
        /\ Unique[v][o] \subseteq DOMAIN Fields[v][o]
        /\ \A i \in Indexed[v][o] :
            i \in Index /\ i.name[1] = "index" /\ i.on \subseteq DOMAIN Fields[v][o]
        /\ \A i, j \in Indexed[v][o] : i.name = j.name => i = j

VARIABLES
    cols,       \* the columns of each table; none before it is created
    idx,        \* the indexes of each table
    rows,       \* the rows of each table, of one run in a test copy: for each
                \* row the version that wrote it
    named,      \* the objects in the name registry
    pc,         \* which statement each process comes to next
    ver,        \* the version each process runs
    at,         \* the table each process is at
    held,       \* the column names each process read
    orphans,    \* the blocking columns each process read
    done,       \* history: versions whose Migrate returned without an error
    runs        \* runs of Migrate begun so far

vars == <<cols, idx, rows, named, pc, ver, at, held, orphans, done, runs>>

Exists(t) == DOMAIN cols[t] # {}
-----------------------------------------------------------------------------
\* Field.column and defaultClause: a field's column in `create table`.
Column(kind) ==
    [notnull |-> kind \in {"key", "required", "document"},
     dflt |-> kind = "defaulted",
     pk |-> kind = "key"]

\* Mutant: a column is added the way it is created.
AddedColumnAsCreated(kind) == Column(kind)

\* addedColumn: a required field takes its type's empty value as a default, a
\* required document has none and is added nullable.
AddedColumn(kind) ==
    [notnull |-> kind \in {"key", "required"},
     dflt |-> kind \in {"required", "defaulted"},
     pk |-> kind = "key"]

\* declaredColumns: the test copy's run_id counts as declared.
DeclaredColumns(v, t) ==
    DOMAIN Fields[v][ObjectOf(t)] \cup (IF IsTest(t) THEN {RunID} ELSE {})

KindOf(v, t, n) == IF n = RunID THEN "key" ELSE Fields[v][ObjectOf(t)][n]

\* createTable; in a live table a unique field has its constraint.
Created(v, t) == [n \in DeclaredColumns(v, t) |-> Column(KindOf(v, t, n))]
CreatedUniques(v, t) ==
    IF IsTest(t) THEN {}
    ELSE {UniqueIndex(n) : n \in {u \in Unique[v][ObjectOf(t)] : KindOf(v, t, u) # "key"}}

\* createIndexes and testUniqueFieldIndexes.
CreateIndexes(v, t) ==
    Indexed[v][ObjectOf(t)] \cup
    (IF IsTest(t)
     THEN {UniqueIndex(n) : n \in {u \in Unique[v][ObjectOf(t)] : KindOf(v, t, u) # "key"}}
     ELSE {})

\* What `if not exists` looks at.
IsNamed(name, t) == \E j \in idx[t] : j.name = name

\* Mutant: columns with a default are relaxed as well.
BlockingColumnsWithDefaults(t) ==
    {n \in DOMAIN cols[t] : cols[t][n].notnull /\ ~cols[t][n].pk}

\* blockingColumns: those that make an insert which does not name them fail,
\* but for the primary key.
BlockingColumns(t) ==
    {n \in DOMAIN cols[t] : cols[t][n].notnull /\ ~cols[t][n].dflt /\ ~cols[t][n].pk}

Init ==
    /\ cols = [t \in Places |-> [n \in {} |-> Column("key")]]
    /\ idx = [t \in Places |-> {}]
    /\ rows = [t \in Places |-> <<>>]
    /\ named = {}
    /\ pc = [p \in Processes |-> "idle"]
    /\ ver \in [Processes -> Versions]
    /\ at = [p \in Processes |-> 0]
    /\ held = [p \in Processes |-> {}]
    /\ orphans = [p \in Processes |-> {}]
    /\ done = {}
    /\ runs = 0

Goto(p, place) == pc' = [pc EXCEPT ![p] = place]

\* Migrate returns, or the process stops: what it had read is gone.
Leave(p) ==
    /\ Goto(p, "idle")
    /\ at' = [at EXCEPT ![p] = 0]
    /\ held' = [held EXCEPT ![p] = {}]
    /\ orphans' = [orphans EXCEPT ![p] = {}]

\* A statement answers an error, or the process stops; every statement and
\* every transaction before it stays.
MigrateFails(p) ==
    /\ pc[p] # "idle"
    /\ Leave(p)
    /\ UNCHANGED <<cols, idx, rows, named, ver, done, runs>>
-----------------------------------------------------------------------------
MigrateBegin(p, v) ==
    /\ pc[p] = "idle"
    /\ runs < MaxRuns
    /\ runs' = runs + 1
    /\ ver' = [ver EXCEPT ![p] = v]
    /\ at' = [at EXCEPT ![p] = 1]
    /\ Goto(p, "create")
    /\ UNCHANGED <<cols, idx, rows, named, held, orphans, done>>

\* create table if not exists
CreateTable(p) ==
    LET t == at[p] IN
    /\ pc[p] = "create"
    /\ cols' = [cols EXCEPT ![t] = IF Exists(t) THEN @ ELSE Created(ver[p], t)]
    /\ idx' = [idx EXCEPT ![t] = IF Exists(t) THEN @ ELSE CreatedUniques(ver[p], t)]
    /\ Goto(p, "columns")
    /\ UNCHANGED <<rows, named, ver, at, held, orphans, done, runs>>

\* columnNames
ColumnNames(p) ==
    /\ pc[p] = "columns"
    /\ held' = [held EXCEPT ![p] = DOMAIN cols[at[p]]]
    /\ Goto(p, "alter")
    /\ UNCHANGED <<cols, idx, rows, named, ver, at, orphans, done, runs>>

\* alterObject: the fields the table lacks.  A missing key is left to the
\* module, for Migrate ignores missingKeys.
Missing(p) ==
    {n \in DeclaredColumns(ver[p], at[p]) \ held[p] : KindOf(ver[p], at[p], n) # "key"}

MissingUnique(p) == Missing(p) \cap Unique[ver[p]][ObjectOf(at[p])]

\* A unique index on a new column, over rows that all read its default.
UniqueFails(p) ==
    /\ Len(rows[at[p]]) > 1
    /\ \E n \in MissingUnique(p) : AddedColumn(KindOf(ver[p], at[p], n)).dflt

\* Mutant: the unique indexes come after the transaction, and may not come.
AlterTableIndexesApart(p) ==
    LET t == at[p] IN
    /\ pc[p] = "alter"
    /\ Missing(p) \cap DOMAIN cols[t] = {}
    /\ cols' = [cols EXCEPT ![t] =
            [n \in DOMAIN @ \cup Missing(p) |->
                IF n \in DOMAIN @ THEN @[n] ELSE AddedColumn(KindOf(ver[p], t, n))]]
    /\ \/ idx' = [idx EXCEPT ![t] = @ \cup {UniqueIndex(n) : n \in MissingUnique(p)}]
          /\ Goto(p, "blocking")
          /\ UNCHANGED <<at, held, orphans>>
       \/ UNCHANGED idx /\ Leave(p)
    /\ UNCHANGED <<rows, named, ver, done, runs>>

\* The transaction of evolveTable: every missing column and its unique index,
\* or none, when one is there by now or a unique index cannot hold.
AlterTable(p) ==
    LET t == at[p] IN
    /\ pc[p] = "alter"
    /\ Missing(p) \cap DOMAIN cols[t] = {}
    /\ ~UniqueFails(p)
    /\ cols' = [cols EXCEPT ![t] =
            [n \in DOMAIN @ \cup Missing(p) |->
                IF n \in DOMAIN @ THEN @[n] ELSE AddedColumn(KindOf(ver[p], t, n))]]
    /\ idx' = [idx EXCEPT ![t] = @ \cup {UniqueIndex(n) : n \in MissingUnique(p)}]
    /\ Goto(p, "blocking")
    /\ UNCHANGED <<rows, named, ver, at, held, orphans, done, runs>>

AlterFails(p) ==
    /\ pc[p] = "alter"
    /\ Missing(p) \cap DOMAIN cols[at[p]] # {} \/ UniqueFails(p)
    /\ MigrateFails(p)

\* relaxOrphanColumns: the blocking columns this version does not declare.
Orphans(p) == BlockingColumns(at[p]) \ DeclaredColumns(ver[p], at[p])

ReadOrphans(p) ==
    /\ pc[p] = "blocking"
    /\ orphans' = [orphans EXCEPT ![p] = Orphans(p)]
    /\ Goto(p, "relax")
    /\ UNCHANGED <<cols, idx, rows, named, ver, at, held, done, runs>>

\* alter column ... drop not null, in one transaction
RelaxOrphanColumns(p) ==
    LET t == at[p] IN
    /\ pc[p] = "relax"
    /\ cols' = [cols EXCEPT ![t] =
            [n \in DOMAIN @ |->
                IF n \in orphans[p] THEN [@[n] EXCEPT !.notnull = FALSE] ELSE @[n]]]
    /\ Goto(p, "index")
    /\ UNCHANGED <<idx, rows, named, ver, at, held, orphans, done, runs>>

\* A row that v writes has the default in every one of these columns.
Defaulted(v, t, columns) ==
    columns \subseteq {n \in DOMAIN cols[t] \ DeclaredColumns(v, t) : cols[t][n].dflt}

\* An index can be made: its columns are there and, when it is unique, no two
\* rows are sure to agree on them.
CanIndex(t, i) ==
    /\ i.on \subseteq DOMAIN cols[t]
    /\ i.unique =>
        \A r, s \in DOMAIN rows[t] :
            Defaulted(rows[t][r], t, i.on) /\ Defaulted(rows[t][s], t, i.on) => r = s

\* An index statement that the table or its rows cannot take fails.
IndexFails(p) ==
    /\ pc[p] = "index"
    /\ \E i \in CreateIndexes(ver[p], at[p]) : ~IsNamed(i.name, at[p]) /\ ~CanIndex(at[p], i)
    /\ MigrateFails(p)

\* create index if not exists, statement by statement; where one fails those
\* before it stay.  An index of that name, whatever it is on, is left alone.
CreateIndex(p, i) ==
    /\ pc[p] = "index"
    /\ ~IsNamed(i.name, at[p])
    /\ CanIndex(at[p], i)
    /\ idx' = [idx EXCEPT ![at[p]] = @ \cup {i}]
    /\ UNCHANGED <<cols, rows, named, pc, ver, at, held, orphans, done, runs>>

\* Mutant: the indexes are left for another run to make.
NextTableAnyway(p) ==
    /\ pc[p] = "index"
    /\ at' = [at EXCEPT ![p] = IF at[p] + 1 \in Places THEN @ + 1 ELSE @]
    /\ held' = [held EXCEPT ![p] = {}]
    /\ orphans' = [orphans EXCEPT ![p] = {}]
    /\ Goto(p, IF at[p] + 1 \in Places THEN "create" ELSE "names")
    /\ UNCHANGED <<cols, idx, rows, named, ver, done, runs>>

\* Every index name is there: the next table, or the name registry.
NextTable(p) ==
    /\ pc[p] = "index"
    /\ \A i \in CreateIndexes(ver[p], at[p]) : IsNamed(i.name, at[p])
    /\ at' = [at EXCEPT ![p] = IF at[p] + 1 \in Places THEN @ + 1 ELSE @]
    /\ held' = [held EXCEPT ![p] = {}]
    /\ orphans' = [orphans EXCEPT ![p] = {}]
    /\ Goto(p, IF at[p] + 1 \in Places THEN "create" ELSE "names")
    /\ UNCHANGED <<cols, idx, rows, named, ver, done, runs>>

\* RecordNames: one upsert per stored object.
RecordName(p, o) ==
    /\ pc[p] = "names"
    /\ o \notin named
    /\ named' = named \cup {o}
    /\ UNCHANGED <<cols, idx, rows, pc, ver, at, held, orphans, done, runs>>

MigrateReturns(p) ==
    /\ pc[p] = "names"
    /\ Objects \subseteq named
    /\ done' = done \cup {ver[p]}
    /\ Leave(p)
    /\ UNCHANGED <<cols, idx, rows, named, ver, runs>>
-----------------------------------------------------------------------------
\* The database takes a row that gives a new value for each field v declares: it
\* knows their columns, every other one may be left out, and no row is there
\* that has the defaults of a unique index which v knows nothing of.
Accepts(v, t) ==
    /\ DeclaredColumns(v, t) \subseteq DOMAIN cols[t]
    /\ \A n \in DOMAIN cols[t] \ DeclaredColumns(v, t) :
        cols[t][n].notnull => cols[t][n].dflt
    /\ \A i \in idx[t], r \in DOMAIN rows[t] :
        i.unique /\ Defaulted(v, t, i.on) => ~Defaulted(rows[t][r], t, i.on)

\* A module that has migrated writes a row.
Insert(v, t) ==
    /\ v \in done
    /\ Accepts(v, t)
    /\ Len(rows[t]) < MaxRows
    /\ rows' = [rows EXCEPT ![t] = Append(@, v)]
    /\ UNCHANGED <<cols, idx, named, pc, ver, at, held, orphans, done, runs>>

Step(p) ==
    \/ CreateTable(p) \/ ColumnNames(p) \/ AlterTable(p) \/ AlterFails(p)
    \/ ReadOrphans(p) \/ RelaxOrphanColumns(p) \/ IndexFails(p)
    \/ pc[p] = "index" /\ \E i \in CreateIndexes(ver[p], at[p]) : CreateIndex(p, i)
    \/ NextTable(p)
    \/ \E o \in Objects : RecordName(p, o)
    \/ MigrateReturns(p)

Next ==
    \/ \E p \in Processes :
        \/ \E v \in Versions : MigrateBegin(p, v)
        \/ Step(p)
        \/ MigrateFails(p)
    \/ \E v \in Versions, t \in Places : Insert(v, t)

Spec == Init /\ [][Next]_vars
-----------------------------------------------------------------------------
Keys(t) == {n \in DOMAIN cols[t] : cols[t][n].pk}
KeysOf(v, t) == {n \in DeclaredColumns(v, t) : KindOf(v, t, n) = "key"}

\* Every variable is of its kind, and no column of a primary key has lost its
\* `not null`.
TypeOK ==
    /\ DOMAIN cols = Places
    /\ \A t \in Places :
        /\ DOMAIN cols[t] \subseteq Columns
        /\ \A n \in DOMAIN cols[t] :
            /\ cols[t][n] \in [notnull : BOOLEAN, dflt : BOOLEAN, pk : BOOLEAN]
            /\ cols[t][n].pk => cols[t][n].notnull
    /\ idx \in [Places -> SUBSET Index]
    /\ rows \in [Places -> Seq(Versions)]
    /\ \A t \in Places : Len(rows[t]) <= MaxRows
    /\ named \subseteq Objects
    /\ pc \in [Processes -> {"idle", "create", "columns", "alter", "blocking",
                             "relax", "index", "names"}]
    /\ ver \in [Processes -> Versions]
    /\ at \in [Processes -> Places \cup {0}]
    /\ held \in [Processes -> SUBSET Columns]
    /\ orphans \in [Processes -> SUBSET Columns]
    /\ done \subseteq Versions
    /\ runs \in 0..MaxRuns

\* Another version's unique index is on columns that are the defaults in all
\* rows of v, so a second row of v has no place in the table.
CrowdedOut(v, t) == \E i \in idx[t] : i.unique /\ Defaulted(v, t, i.on)

\* A version that has migrated can write every one of its tables from then on,
\* whatever other versions migrate after it or along with it and wherever they
\* stop.  Two things are left out: a module whose key grew repairs its table
\* itself, and a unique field with a default that a version does not declare
\* (or a declared unique index on such fields) leaves it room for one row.
MigratedCanWrite ==
    \A v \in done, t \in Places :
        Keys(t) = KeysOf(v, t) /\ ~CrowdedOut(v, t) => Accepts(v, t)

\* What Migrate has brought about at a table, once it has added the columns
\* (Has) and once it has relaxed the orphans (Ready).  A column that came with
\* neither value nor default could undo it, and only `create table` makes one.
Has(v, t) ==
    /\ Exists(t)
    /\ \A n \in DeclaredColumns(v, t) : KindOf(v, t, n) # "key" => n \in DOMAIN cols[t]

Ready(v, t) ==
    /\ Has(v, t)
    /\ BlockingColumns(t) \subseteq DeclaredColumns(v, t)

\* A run of p has made every table it has gone past ready; on its way through
\* a table it knows columns that are there still, and has read every orphan.
RunInv(p) ==
    pc[p] # "idle" =>
        /\ at[p] \in Places
        /\ \A t \in Places : t < at[p] => Ready(ver[p], t)
        /\ pc[p] \in {"columns", "alter"} => Exists(at[p])
        /\ pc[p] = "alter" => held[p] \subseteq DOMAIN cols[at[p]]
        /\ pc[p] \in {"blocking", "relax"} => Has(ver[p], at[p])
        /\ pc[p] = "relax" =>
            /\ BlockingColumns(at[p]) \ DeclaredColumns(ver[p], at[p]) \subseteq orphans[p]
            /\ orphans[p] \subseteq DOMAIN cols[at[p]] \ Keys(at[p])
        /\ pc[p] \in {"index", "names"} => Ready(ver[p], at[p])
        /\ pc[p] = "names" => at[p] + 1 \notin Places

\* The inductive invariant: every table is ready for each version that has
\* migrated, and for each run as far as it has come.
MigrateInv ==
    /\ TypeOK
    /\ \A v \in done, t \in Places : Ready(v, t)
    /\ \A p \in Processes : RunInv(p)

\* Every index v declares is in the table by its name.
HasIndexes(v, t) == \A i \in CreateIndexes(v, t) : IsNamed(i.name, t)

\* A version that has migrated finds its tables in the name registry and each of
\* its indexes, or one that another version declares under the same name.
MigratedIsComplete ==
    \A v \in done :
        /\ Objects \subseteq named
        /\ \A t \in Places : \A i \in CreateIndexes(v, t) :
            \/ i \in idx[t]
            \/ \E j \in idx[t], w \in Versions \ {v} :
                j.name = i.name /\ j \in CreateIndexes(w, t)

\* Declared unique, and outside the primary key, by every version that declares it.
AlwaysUnique(t, n) ==
    \A w \in Versions : n \in DOMAIN Fields[w][ObjectOf(t)] =>
        n \in Unique[w][ObjectOf(t)] /\ KindOf(w, t, n) # "key"

\* A column that every version declaring it declares unique, none of them in its
\* primary key, is unique in the database, though the column and its index are
\* two statements and a run that is cut off is not begun again where it stopped.
\* A column that was in the key stays without an index of its own.
UniqueIsEnforced ==
    \A v \in done, t \in Places : \A n \in Unique[v][ObjectOf(t)] :
        AlwaysUnique(t, n) => UniqueIndex(n) \in idx[t]

\* "Running it twice is a no-op": a run of a version that has already migrated
\* alters no table, whatever other versions have done to it meanwhile.
SecondRunIsANoOp ==
    [][\A p \in Processes :
        (ver[p] \in done /\ pc[p] # "idle" /\ pc'[p] # pc[p]) => cols' = cols]_vars

\* The same for indexes.  Only a table that is there has one, each is some
\* version's own or that of a unique field, and in a live table every unique
\* column came with its own.
TableIndexes(t) ==
    /\ ~Exists(t) => idx[t] = {}
    /\ \A j \in idx[t] :
        (\E w \in Versions : j \in Indexed[w][ObjectOf(t)]) \/ \E n \in Columns : j = UniqueIndex(n)
    /\ ~IsTest(t) =>
        \A n \in DOMAIN cols[t] : AlwaysUnique(t, n) => UniqueIndex(n) \in idx[t]

\* A run has made the indexes of every table it has gone past; what it read as
\* an orphan had no default and is none of its own columns.
RunIndexes(p) ==
    pc[p] # "idle" =>
        /\ \A t \in Places : t < at[p] => HasIndexes(ver[p], t)
        /\ pc[p] = "names" => HasIndexes(ver[p], at[p])
        /\ pc[p] = "relax" => \A n \in orphans[p] :
            n \notin DeclaredColumns(ver[p], at[p]) /\ ~cols[at[p]][n].dflt

CompleteInv ==
    /\ \A v \in done : Objects \subseteq named /\ \A t \in Places : HasIndexes(v, t)
    /\ \A t \in Places : TableIndexes(t)
    /\ \A p \in Processes : RunIndexes(p)
=============================================================================
