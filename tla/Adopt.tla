-------------------------------- MODULE Adopt --------------------------------
(***************************************************************************)
(* AdoptLegacy of src/spec (legacy.go, adopt_types.go) over Postgres: it   *)
(* gives the tables of an older release the names the spec declares, drops *)
(* their indexes and renames their columns, statement by statement and     *)
(* with no transaction.                                                    *)
(*                                                                         *)
(* Processes of the new release adopt and then migrate; each may stop at   *)
(* any statement and start again.  Processes of the old release go on      *)
(* writing to the legacy tables, and somebody may have migrated without    *)
(* adopting.  An operator retypes a column the adoption refused.           *)
(***************************************************************************)
EXTENDS Integers

CONSTANTS
    Processes,
    NObjects,    \* the declared objects, 1..NObjects
    NLegacy,     \* legacy names of each object, in the order they are tried
    Fields,      \* the declared columns, by object
    Columns,     \* Legacy.Columns: declared name by legacy name
    Start,       \* the tables an older release may have left, by object and name
    None,        \* no table
    Empty,       \* what a column that Migrate added holds
    Ahead,       \* the same, where a Migrate that did not adopt added it beside the
                 \* legacy column it was to be renamed from
    MaxRuns,     \* bound: calls of AdoptLegacy in a behaviour
    MaxRows      \* bound: rows of a legacy table

Objects == 1..NObjects

\* legacyTablesWith: <<o, 0>> is the declared name, the others are legacy ones.
Names == Objects \X (0..NLegacy)

\* The indexes of a table: the old release's own, and others.
Indexes == {"legacy", "other"}

\* What a column holds: data is the column it was when the old release made it,
\* ok says that its type is of the declared family.
Cells == [data : STRING \cup {Empty, Ahead}, ok : BOOLEAN]

LeftColumns(left) == UNION {DOMAIN left[n].cols : n \in DOMAIN left}

ColumnNames ==
    DOMAIN Columns \cup (UNION {Fields[o] : o \in Objects})
    \cup (UNION {LeftColumns(left) : left \in Start})

ASSUME AdoptAssumption ==
    /\ NObjects \in Nat /\ NLegacy \in Nat /\ MaxRuns \in Nat /\ MaxRows \in Nat
    \* No column takes a name that another one gives up, and no object declares
    \* both names of a column.
    /\ \A c \in DOMAIN Columns : Columns[c] \notin DOMAIN Columns
    /\ \A o \in Objects, c \in DOMAIN Columns : Columns[c] \in Fields[o] => c \notin Fields[o]
    \* The old release left tables under legacy names.
    /\ \A left \in Start : \A n \in DOMAIN left :
        /\ n \in Objects \X (1..NLegacy)
        /\ left[n] \in [rows : Nat, late : {0}, idx : SUBSET Indexes,
                        cols : [DOMAIN left[n].cols -> [data : STRING, ok : BOOLEAN]]]
    /\ Empty \notin STRING /\ Ahead \notin STRING /\ Empty # Ahead
    /\ None \notin [rows : Nat, late : Nat, idx : SUBSET Indexes,
                    cols : UNION {[S -> Cells] : S \in SUBSET ColumnNames}]

VARIABLES
    tab,        \* each table: its rows, columns and whether it has a legacy index
    at,         \* where each process is
    runs,       \* calls of AdoptLegacy so far
    done,       \* history: some AdoptLegacy returned without an error
    cut         \* history: a run stopped between a table's rename and its indexes

vars == <<tab, at, runs, done, cut>>

HasTable(n) == tab[n] # None

\* DOMAIN cols are the column names.
HasColumn(n, c) == HasTable(n) /\ c \in DOMAIN tab[n].cols

Stopped == [pc |-> "idle", o |-> 1, i |-> 1, todo |-> {}, col |-> None, bad |-> FALSE]

Init ==
    /\ \E left \in Start : tab = [n \in Names |-> IF n \in DOMAIN left THEN left[n] ELSE None]
    /\ at = [p \in Processes |-> Stopped]
    /\ runs = 0 /\ done = FALSE /\ cut = FALSE

\* Process p goes on at pc, with the changes of r.
Goto(p, r) == at' = [at EXCEPT ![p] = r]

Fails(p) == Goto(p, Stopped) /\ UNCHANGED <<tab, runs, done, cut>>
-----------------------------------------------------------------------------
AdoptLegacy(p) ==
    /\ at[p].pc = "idle"
    /\ runs < MaxRuns
    /\ runs' = runs + 1
    /\ Goto(p, [Stopped EXCEPT !.pc = "check"])
    /\ UNCHANGED <<tab, done, cut>>

\* Mutant: only the declared names are looked at.
heldColumnForDeclared(n, f) == {f} \cap DOMAIN tab[n].cols

\* heldColumnFor: the column of a table that a field's data is in.  Of several
\* legacy columns it answers the first that the iteration over a Go map meets:
\* these are the ones it may answer.
heldColumnFor(n, f) ==
    IF HasColumn(n, f) THEN {f}
    ELSE {c \in DOMAIN Columns : Columns[c] = f /\ HasColumn(n, c)}

\* adoptionTypeProblems: whether it finds any, under each answer of heldColumnFor.
adoptionTypeProblems(n, o) ==
    LET held(ok) == {f \in Fields[o] : \E c \in heldColumnFor(n, f) : tab[n].cols[c].ok = ok} IN
    {found \in BOOLEAN : IF found THEN held(FALSE) # {} ELSE held(FALSE) \subseteq held(TRUE)}

\* checkAdoptedColumnTypes at one object: the first legacy table that is there,
\* where the declared one is not.
checkAdoptedColumnTypes(p) ==
    LET o == at[p].o
        first == {i \in 1..NLegacy : HasTable(<<o, i>>) /\ \A j \in 1..(i - 1) : ~HasTable(<<o, j>>)}
    IN
    /\ at[p].pc = "check" /\ o <= NObjects
    /\ \E found \in BOOLEAN :
        /\ IF HasTable(<<o, 0>>) \/ first = {} THEN ~found
           ELSE \E i \in first : found \in adoptionTypeProblems(<<o, i>>, o)
        /\ Goto(p, [at[p] EXCEPT !.o = @ + 1, !.bad = @ \/ found])
    /\ UNCHANGED <<tab, runs, done, cut>>

Checked(p) ==
    /\ at[p].pc = "check" /\ at[p].o > NObjects
    /\ IF at[p].bad THEN Fails(p)
       ELSE /\ Goto(p, [Stopped EXCEPT !.pc = "legacy"])
            /\ UNCHANGED <<tab, runs, done, cut>>

NextLegacy(r) == [r EXCEPT !.pc = "legacy", !.i = @ + 1]

\* The loop over legacy names: HasTable(legacy), then HasTable(declared).
FindLegacy(p) ==
    LET r == at[p] IN
    /\ r.pc = "legacy" /\ r.o <= NObjects /\ r.i <= NLegacy
    /\ Goto(p, IF HasTable(<<r.o, r.i>>) THEN [r EXCEPT !.pc = "both"] ELSE NextLegacy(r))
    /\ UNCHANGED <<tab, runs, done, cut>>

FindDeclared(p) ==
    LET r == at[p] IN
    /\ r.pc = "both"
    /\ Goto(p, [r EXCEPT !.pc = IF HasTable(<<r.o, 0>>) THEN "count" ELSE "rename"])
    /\ UNCHANGED <<tab, runs, done, cut>>

\* Mutant: where both tables exist, the legacy one is taken for a leftover.
StrandedNever(n) == FALSE

Stranded(n) == ~HasTable(n) \/ tab[n].rows + tab[n].late > 0

\* RowCount: an error when it has rows, or is gone by now.
Count(p) ==
    LET r == at[p] IN
    /\ r.pc = "count"
    /\ IF Stranded(<<r.o, r.i>>) THEN Fails(p)
       ELSE Goto(p, NextLegacy(r)) /\ UNCHANGED <<tab, runs, done, cut>>

RenameTable(p) ==
    LET r == at[p] IN
    /\ r.pc = "rename"
    /\ IF ~HasTable(<<r.o, r.i>>) \/ HasTable(<<r.o, 0>>) THEN Fails(p)
       ELSE /\ tab' = [tab EXCEPT ![<<r.o, 0>>] = tab[<<r.o, r.i>>], ![<<r.o, r.i>>] = None]
            /\ Goto(p, [r EXCEPT !.pc = "drop"])
            /\ UNCHANGED <<runs, done, cut>>

\* legacyIndex: named the way the old release named its own.
legacyIndex(index) == index = "legacy"

\* Mutant: the indexes are read under the name the table had.
LegacyIndexesOfOldName(o, i) == {}

\* The indexes DropIndexes reads from the catalog and drops.
LegacyIndexes(o, i) == {x \in tab[<<o, 0>>].idx : legacyIndex(x)}

DropIndexes(p) ==
    LET r == at[p] IN
    /\ r.pc = "drop"
    /\ tab' = [tab EXCEPT ![<<r.o, 0>>].idx = @ \ LegacyIndexes(r.o, r.i)]
    /\ Goto(p, NextLegacy(r))
    /\ UNCHANGED <<runs, done, cut>>

\* renameColumns begins, where the declared table is there.
FindColumns(p) ==
    LET r == at[p] IN
    /\ r.pc = "legacy" /\ r.o <= NObjects /\ r.i > NLegacy
    /\ Goto(p, IF HasTable(<<r.o, 0>>)
               THEN [r EXCEPT !.pc = "columns", !.todo = {c \in DOMAIN Columns : Columns[c] \in Fields[r.o]}]
               ELSE [r EXCEPT !.o = @ + 1, !.i = 1])
    /\ UNCHANGED <<tab, runs, done, cut>>

\* HasColumn of both names; the columns come in any order (a Go map).
FindColumn(p, c) ==
    LET r == at[p] n == <<r.o, 0>> IN
    /\ r.pc = "columns" /\ c \in r.todo
    /\ Goto(p, IF HasColumn(n, c) /\ ~HasColumn(n, Columns[c])
               THEN [r EXCEPT !.pc = "column", !.col = c, !.todo = @ \ {c}]
               ELSE [r EXCEPT !.todo = @ \ {c}])
    /\ UNCHANGED <<tab, runs, done, cut>>

\* The columns of a table after `rename column c to Columns[c]`.
Renamed(cols, c) ==
    [n \in (DOMAIN cols \ {c}) \cup {Columns[c]} |-> IF n = Columns[c] THEN cols[c] ELSE cols[n]]

RenameColumn(p) ==
    LET r == at[p] n == <<r.o, 0>> IN
    /\ r.pc = "column"
    /\ IF ~HasColumn(n, r.col) \/ HasColumn(n, Columns[r.col]) THEN Fails(p)
       ELSE /\ tab' = [tab EXCEPT ![n].cols = Renamed(@, r.col)]
            /\ Goto(p, [r EXCEPT !.pc = "columns", !.col = None])
            /\ UNCHANGED <<runs, done, cut>>

ColumnsDone(p) ==
    LET r == at[p] IN
    /\ r.pc = "columns" /\ r.todo = {}
    /\ Goto(p, [r EXCEPT !.pc = "legacy", !.o = @ + 1, !.i = 1])
    /\ UNCHANGED <<tab, runs, done, cut>>

AdoptReturns(p) ==
    /\ at[p].pc = "legacy" /\ at[p].o > NObjects
    /\ Goto(p, [Stopped EXCEPT !.pc = "adopted"])
    /\ done' = TRUE
    /\ UNCHANGED <<tab, runs, cut>>

\* A statement answers an error, or the process stops.
Stop(p) ==
    /\ at[p].pc # "idle"
    /\ Goto(p, Stopped)
    /\ cut' = (cut \/ at[p].pc = "drop")
    /\ UNCHANGED <<tab, runs, done>>
-----------------------------------------------------------------------------
(***************************************************************************)
(* What happens around AdoptLegacy.                                        *)
(***************************************************************************)
Fresh(o) == [rows |-> 0, late |-> 0, idx |-> {"other"},
             cols |-> [c \in Fields[o] |-> [data |-> Empty, ok |-> TRUE]]]

\* A column that evolveTable adds, to a table with the columns old.
Added(c, old, beside) ==
    [data |-> IF \E d \in DOMAIN Columns : d \in DOMAIN old /\ Columns[d] = c THEN beside ELSE Empty,
     ok |-> TRUE]

\* The declared table after Migrate: made, or given the columns that are missing.
Migrated(o, beside) ==
    LET old == tab[<<o, 0>>].cols IN
    IF HasTable(<<o, 0>>)
    THEN [tab[<<o, 0>>] EXCEPT !.cols =
            [c \in DOMAIN old \cup Fields[o] |-> IF c \in DOMAIN old THEN old[c] ELSE Added(c, old, beside)]]
    ELSE Fresh(o)

\* Migrate of a process that has adopted.
Migrate(p, o) ==
    /\ at[p].pc = "adopted"
    /\ tab[<<o, 0>>] # Migrated(o, Empty)
    /\ tab' = [tab EXCEPT ![<<o, 0>>] = Migrated(o, Empty)]
    /\ UNCHANGED <<at, runs, done, cut>>

\* Migrate of a process that never adopts, perhaps between another's rename of
\* the table and of its columns.
MigrateFirst(o) ==
    /\ tab[<<o, 0>>] # Migrated(o, Ahead)
    /\ tab' = [tab EXCEPT ![<<o, 0>>] = Migrated(o, Ahead)]
    /\ UNCHANGED <<at, runs, done, cut>>

\* The old release writes; late rows are those it writes beside a declared table.
OldInsert(o, i) ==
    LET n == <<o, i>> IN
    /\ HasTable(n) /\ tab[n].rows + tab[n].late < MaxRows
    /\ tab' = IF HasTable(<<o, 0>>) THEN [tab EXCEPT ![n].late = @ + 1] ELSE [tab EXCEPT ![n].rows = @ + 1]
    /\ UNCHANGED <<at, runs, done, cut>>

\* The operator retypes a column by hand, as the refusal asks.
Retype(o, i, c) ==
    /\ HasColumn(<<o, i>>, c) /\ ~tab[<<o, i>>].cols[c].ok
    /\ tab' = [tab EXCEPT ![<<o, i>>].cols[c].ok = TRUE]
    /\ UNCHANGED <<at, runs, done, cut>>

Next ==
    \/ \E p \in Processes :
        \/ AdoptLegacy(p) \/ checkAdoptedColumnTypes(p) \/ Checked(p)
        \/ FindLegacy(p) \/ FindDeclared(p) \/ Count(p) \/ RenameTable(p) \/ DropIndexes(p)
        \/ FindColumns(p) \/ RenameColumn(p) \/ ColumnsDone(p) \/ AdoptReturns(p) \/ Stop(p)
        \/ \E c \in DOMAIN Columns : FindColumn(p, c)
        \/ \E o \in Objects : Migrate(p, o)
    \/ \E o \in Objects :
        \/ MigrateFirst(o)
        \/ \E i \in 1..NLegacy :
            \/ OldInsert(o, i)
            \/ \E c \in DOMAIN Columns \cup Fields[o] : Retype(o, i, c)

Spec == Init /\ [][Next]_vars
-----------------------------------------------------------------------------
\* Once an AdoptLegacy has returned without an error, by whatever stops and
\* restarts of however many processes: no row that the old release wrote before
\* the declared table existed is left in a legacy table, and no column's data
\* is left under its legacy name beside an empty column of the declared name,
\* unless a Migrate that did not adopt had added that column first (Ahead):
\* renameColumns skips such a column, and AdoptLegacy returns without an error.
NothingIsStranded ==
    done =>
        /\ \A o \in Objects, i \in 1..NLegacy : HasTable(<<o, i>>) => tab[<<o, i>>].rows = 0
        /\ \A o \in Objects, c \in DOMAIN Columns :
            ~(/\ Columns[c] \in Fields[o] /\ HasColumn(<<o, 0>>, c)
              /\ HasColumn(<<o, 0>>, Columns[c]) /\ tab[<<o, 0>>].cols[Columns[c]].data = Empty)

\* Two legacy columns are for the field, so that heldColumnFor looks at either.
Ambiguous(f) == \E c, d \in DOMAIN Columns : c # d /\ Columns[c] = f /\ Columns[d] = f

\* A table that AdoptLegacy gave its declared name never has a declared field,
\* under its own name or under the one it is about to be renamed from, in a
\* column whose type the engine cannot read, if one legacy name is its only one.
AdoptedIsReadable ==
    \A o \in Objects : HasTable(<<o, 0>>) =>
        \A c \in DOMAIN tab[<<o, 0>>].cols :
            ~tab[<<o, 0>>].cols[c].ok =>
                /\ c \in Fields[o] => Ambiguous(c)
                /\ c \in DOMAIN Columns =>
                    (Columns[c] \in Fields[o] =>
                        HasColumn(<<o, 0>>, Columns[c]) \/ Ambiguous(Columns[c]))

\* A declared table has an index of the old release only while the run that
\* renamed the table is about to drop its indexes, or when a run stopped between
\* the two: no later run looks for them.
LegacyIndexesGo ==
    \A o \in Objects : HasTable(<<o, 0>>) /\ (\E x \in tab[<<o, 0>>].idx : legacyIndex(x)) =>
        cut \/ \E p \in Processes : at[p].pc = "drop" /\ at[p].o = o
=============================================================================
