------------------------------ MODULE SpecStore ------------------------------
(***************************************************************************)
(* src/specstore over Postgres: New joins each declared field with the Go  *)
(* field that carries it, Insert and InsertOnce encode a value into a row, *)
(* Take and List decode it, Unset builds the predicate for "never filled   *)
(* in", ForRun scopes a store to one run of the test copies, RemoveRun and *)
(* RowsOfRun go over a run's rows table by table.                          *)
(*                                                                         *)
(* Each object has a key and one other field, the same for all of them.  A *)
(* value is "nil", "zero", "some" or "bad": the nil pointer, the Go zero   *)
(* value (an empty string, list or []byte, a geometry with no kind), any   *)
(* other value, and one that is not well-formed for what it is put in      *)
(* (not an instant, not JSON, not GeoJSON).                                *)
(***************************************************************************)
EXTENDS Integers, FiniteSets

CONSTANTS
    Fields,      \* what may be declared: [type, nullable]
    Carriers,    \* Go fields that may carry it: [go, pointer]
    NObjects,    \* the declared objects, 1..NObjects
    Runs,        \* run ids
    Live,        \* the scope of a store that is not scoped to a run
    Keys,        \* primary keys
    Workers,     \* calls of RemoveRun and RowsOfRun under way
    Null,        \* SQL NULL
    Error,       \* a call answers an error
    Idle,        \* a worker has no call under way
    MaxInserts,  \* bound: inserts in a behaviour
    MaxAsked,    \* bound: clauses cached
    MaxJobs      \* bound: calls of RemoveRun and RowsOfRun in a behaviour

Objects == 1..NObjects
Scopes == Runs \cup {Live}

FieldType ==
    [type : {"int", "float", "bool", "string", "timestamp", "json", "bytes", "geometry"},
     nullable : BOOLEAN]
CarrierType ==
    [go : {"int", "int32", "float", "bool", "string", "time", "bytes", "list", "struct",
           "geometry"},
     pointer : BOOLEAN]

\* What a value is in a row or a result: how it is written, and what it was.
Values == {"nil", "zero", "some", "bad"}
Encoded ==
    [rep : {"int", "float", "bool", "text", "instant", "doc", "base64", "bytes"}, val : Values]
RowType == [object : Objects, run : Scopes, key : Keys, cell : Encoded \cup {Null}]
JobType ==
    [op : {"remove", "count"}, run : Runs, at : Nat \ {0}, rows : SUBSET RowType, alone : BOOLEAN]

ASSUME SpecStoreAssumption ==
    /\ NObjects \in Nat /\ MaxInserts \in Nat /\ MaxAsked \in Nat /\ MaxJobs \in Nat
    /\ Live \notin Runs
    /\ Fields \subseteq FieldType /\ Carriers \subseteq CarrierType
    /\ Null # Error /\ Null \notin Encoded /\ Error \notin Encoded
    /\ Idle \notin JobType

VARIABLES
    field, carrier, \* what New joined
    built,      \* New has answered a store
    held,       \* live column type of each object: "absent", "declared", "timestamptz"
    copies,     \* whether the test copies exist
    rows,       \* rows: [object, run, key, cell]; run is Live in a live table
    unset,      \* cached clauses: [scope, object, textual]
    job,        \* what each worker is at, or Idle
    jobs,       \* jobs begun so far
    acked,      \* history: inserts acknowledged and not removed since
    inserted,   \* inserts so far
    gone        \* history: runs removed, with no insert since the removal began

vars == <<field, carrier, built, held, copies, rows, unset, job, jobs, acked, inserted, gone>>
table == <<field, carrier, built, held, copies>>
-----------------------------------------------------------------------------
(***************************************************************************)
(* The codec.                                                              *)
(***************************************************************************)
\* disagreements, for a declared field and the field of its name.
Agree(f, g) == f.nullable <=> g.pointer

\* The values a carrier can hold.
ValuesOf(g) ==
    (IF g.pointer THEN {"nil"} ELSE {}) \cup
    (IF g.go \in {"string", "geometry"} THEN {"zero", "some", "bad"} ELSE {"zero", "some"})

\* json.Marshal of a value that is not a string.  A []byte becomes base64
\* text; a geometry with no kind refuses.
Marshalled(g, v) ==
    IF g.go = "geometry" /\ v = "zero" THEN Error
    ELSE [rep |-> IF g.go = "bytes" THEN "base64" ELSE "doc", val |-> v]

document(g, v) ==
    CASE v = "zero" /\ g.go \in {"string", "bytes", "list"} -> Null
      [] v # "zero" /\ g.go = "string" -> [rep |-> "doc", val |-> v]
      [] OTHER -> Marshalled(g, v)

\* geo.Validate: a place, whatever Go type it was marshalled from.
IsPlace(g, v) == v = "some" /\ g.go \in {"string", "geometry", "struct"}

place(g, v) ==
    IF g.go = "geometry" /\ v = "zero" THEN Null
    ELSE LET doc == document(g, v) IN
         IF doc \in {Null, Error} \/ IsPlace(g, v) THEN doc ELSE Error

opaque(g, v) ==
    IF g.go # "bytes" THEN Error
    ELSE IF v = "zero" THEN Null ELSE [rep |-> "bytes", val |-> v]

text(f, g, v) ==
    IF g.go = "string" \/ (g.go = "time" /\ f.type = "timestamp")
    THEN [rep |-> "text", val |-> v] ELSE Error

scalar(f, g, v) ==
    IF (f.type = "int" /\ g.go \in {"int", "int32"}) \/ (f.type # "int" /\ g.go = f.type)
    THEN [rep |-> f.type, val |-> v] ELSE Error

cell(f, g, v) ==
    IF v = "nil" THEN Null
    ELSE
    CASE f.type \in {"int", "float", "bool"} -> scalar(f, g, v)
      [] f.type = "json" -> document(g, v)
      [] f.type = "bytes" -> opaque(g, v)
      [] f.type = "geometry" -> place(g, v)
      [] OTHER -> text(f, g, v)

\* What Postgres makes of a cell in a column: text that is no instant does
\* not go into a timestamptz, text that is no JSON does not go into a jsonb.
StoredCell(type, c) ==
    IF c \in {Null, Error} THEN c
    ELSE IF type = "timestamptz"
    THEN IF c.val = "some" \/ carrier.go = "time" THEN [rep |-> "instant", val |-> c.val] ELSE Error
    ELSE IF c.rep = "doc" /\ c.val = "bad" /\ carrier.go = "string" THEN Error ELSE c

\* assign, assignTime, parseTime, assignBytes, unmarshal.
assign(g, raw) ==
    CASE g.go = "time" ->
            IF raw.rep = "instant" \/ raw.rep = "text" THEN raw.val ELSE Error
      [] g.go = "bytes" -> IF raw.rep = "base64" THEN "garbled" ELSE raw.val
      [] g.go = "string" -> IF raw.rep = "instant" THEN Error ELSE raw.val
      [] g.go = "int32" -> Error
      [] g.go \in {"int", "float", "bool"} -> IF raw.rep = g.go THEN raw.val ELSE Error
      [] OTHER -> IF g.go = "geometry" /\ raw.val = "bad" THEN Error ELSE raw.val

\* Decode leaves the Go zero value where the column is NULL.
Decode(g, c) ==
    IF c = Null THEN (IF g.pointer THEN "nil" ELSE "zero") ELSE assign(g, c)
-----------------------------------------------------------------------------
(***************************************************************************)
(* Tables, runs and queries.                                               *)
(***************************************************************************)
\* Store.Table: whether the table a scope reads and writes is there, and the
\* type of its column.
TableType(s, o) ==
    IF s = Live THEN held[o] ELSE IF copies THEN "declared" ELSE "absent"

\* Store.Query.
Query(s, o) == {r \in rows : r.object = o /\ r.run = s}

\* Store.Row.
Row(s, o, k, c) == [object |-> o, run |-> s, key |-> k, cell |-> c]

\* Mutant: a copy has the primary key of its live table.
ConflictsIgnoreRun(s, o, k) ==
    \E r \in rows : r.object = o /\ (r.run = Live <=> s = Live) /\ r.key = k

\* createTable: the run id is part of the primary key of a test copy.
Conflicts(s, o, k) == \E r \in rows : r.object = o /\ r.run = s /\ r.key = k

Take(s, o, k) ==
    LET found == {r \in Query(s, o) : r.key = k} IN
    IF found = {} THEN "not found"
    ELSE Decode(carrier, (CHOOSE r \in found : TRUE).cell)

\* columnType and textualColumnType.
DeclaresTextual == field.type \in {"string", "timestamp"}
ColumnIsTextual(s, o) == TableType(s, o) # "timestamptz" /\ DeclaresTextual

\* Mutant: unset means NULL, whatever the type.
UnsetSQLNull(textual, c) == c = Null

UnsetSQL(textual, c) == c = Null \/ (textual /\ c.rep = "text" /\ c.val = "zero" /\ carrier.go = "string")

\* A query with a cached clause; `= ''` is an error on a timestamptz.
UnsetRows(u) ==
    IF TableType(u.scope, u.object) = "absent"
       \/ (u.textual /\ ~ColumnIsTextual(u.scope, u.object))
    THEN Error
    ELSE {r \in Query(u.scope, u.object) : UnsetSQL(u.textual, r.cell)}
-----------------------------------------------------------------------------
\* Tables may have come from elsewhere, with a timestamptz under a timestamp.
Init ==
    /\ field \in Fields /\ carrier \in Carriers
    /\ built = FALSE
    /\ held \in [Objects -> {"absent"} \cup
                    (IF field.type = "timestamp" THEN {"timestamptz"} ELSE {})]
    /\ copies = FALSE
    /\ rows = {} /\ unset = {}
    /\ job = [w \in Workers |-> Idle] /\ jobs = 0
    /\ acked = {} /\ inserted = 0 /\ gone = {}

New ==
    /\ ~built
    /\ Agree(field, carrier)
    /\ built' = TRUE
    /\ UNCHANGED <<field, carrier, held, copies, rows, unset, job, jobs, acked, inserted, gone>>

\* Migrate, which creates what is missing.
Migrate ==
    /\ ~copies
    /\ copies' = TRUE
    /\ held' = [o \in Objects |-> IF held[o] = "absent" THEN "declared" ELSE held[o]]
    /\ UNCHANGED <<field, carrier, built, rows, unset, job, jobs, acked, inserted, gone>>

\* The insert statement of Insert and InsertOnce, where it answers no error;
\* once says `on conflict do nothing`.
Insert(s, o, k, v, once) ==
    LET c == StoredCell(TableType(s, o), cell(field, carrier, v))
        Same(a) == a.scope = s /\ a.object = o /\ a.key = k
    IN
    /\ built
    /\ inserted < MaxInserts
    /\ TableType(s, o) # "absent"
    /\ c # Error
    /\ once <=> Conflicts(s, o, k)
    /\ inserted' = inserted + 1
    /\ rows' = IF once THEN rows ELSE rows \cup {Row(s, o, k, c)}
    /\ acked' = IF \E a \in acked : Same(a) THEN acked
                ELSE acked \cup {[scope |-> s, object |-> o, key |-> k, value |-> v]}
    /\ gone' = gone \ {s}
    /\ job' = [w \in Workers |->
                IF job[w] # Idle /\ job[w].run = s THEN [job[w] EXCEPT !.alone = FALSE] ELSE job[w]]
    /\ UNCHANGED <<table, unset, jobs>>

\* Unset, asked for the first time: from the database, or from the
\* declaration when the database does not answer or has no such table.
Unset(s, o) ==
    /\ built
    /\ Cardinality(unset) < MaxAsked
    /\ ~\E u \in unset : u.scope = s /\ u.object = o
    /\ \E textual \in {DeclaresTextual} \cup
            (IF TableType(s, o) = "absent" THEN {} ELSE {ColumnIsTextual(s, o)}) :
        unset' = unset \cup {[scope |-> s, object |-> o, textual |-> textual]}
    /\ UNCHANGED <<table, rows, job, jobs, acked, inserted, gone>>

\* ForRun answers a store of its own, whose cache is empty.
ForRun(r) ==
    /\ built
    /\ \E u \in unset : u.scope = r
    /\ unset' = {u \in unset : u.scope # r}
    /\ UNCHANGED <<table, rows, job, jobs, acked, inserted, gone>>
-----------------------------------------------------------------------------
JobBegin(w, op, r) ==
    /\ job[w] = Idle
    /\ jobs < MaxJobs
    /\ jobs' = jobs + 1
    /\ job' = [job EXCEPT ![w] =
                [op |-> op, run |-> r, at |-> 1, rows |-> {}, alone |-> TRUE]]
    /\ UNCHANGED <<table, rows, unset, acked, inserted, gone>>

\* Mutant: the last object is left out.
IsLastEarly(w) == job[w].at >= NObjects

\* RemoveRun and RowsOfRun go over every object.
IsLast(w) == job[w].at > NObjects

\* The rows `delete ... where run_id = ?` takes.
Deleted(o, r) == {x \in rows : x.object = o /\ x.run = r}

\* RemoveRun at one table; HasTable and the delete see the same table, since
\* none is ever dropped.
RemoveStep(w) ==
    LET j == job[w] IN
    /\ j # Idle /\ j.op = "remove" /\ ~IsLast(w)
    /\ rows' = rows \ (IF copies THEN Deleted(j.at, j.run) ELSE {})
    /\ acked' = {a \in acked : ~(a.scope = j.run /\ a.object = j.at)}
    /\ job' = [x \in Workers |->
                IF x = w THEN [j EXCEPT !.at = @ + 1]
                ELSE IF job[x] # Idle /\ job[x].op = "count" /\ job[x].run = j.run
                     THEN [job[x] EXCEPT !.alone = FALSE] ELSE job[x]]
    /\ UNCHANGED <<table, unset, jobs, inserted, gone>>

RemoveReturns(w) ==
    LET j == job[w] IN
    /\ j # Idle /\ j.op = "remove" /\ IsLast(w)
    /\ job' = [job EXCEPT ![w] = Idle]
    /\ gone' = IF j.alone THEN gone \cup {j.run} ELSE gone
    /\ UNCHANGED <<table, rows, unset, jobs, acked, inserted>>

\* RowsOfRun counts one table.
CountStep(w) ==
    LET j == job[w] IN
    /\ j # Idle /\ j.op = "count" /\ ~IsLast(w)
    /\ job' = [job EXCEPT ![w] = [j EXCEPT !.at = @ + 1,
                !.rows = @ \cup (IF copies THEN {x \in rows : x.object = j.at /\ x.run = j.run} ELSE {})]]
    /\ UNCHANGED <<table, rows, unset, jobs, acked, inserted, gone>>

\* RowsOfRun returns, or a statement of either answers an error; what was
\* deleted before it stays deleted.
JobEnds(w) ==
    /\ job[w] # Idle
    /\ job[w].op = "count" \/ ~IsLast(w)
    /\ job' = [job EXCEPT ![w] = Idle]
    /\ UNCHANGED <<table, rows, unset, jobs, acked, inserted, gone>>

Next ==
    \/ New \/ Migrate
    \/ \E s \in Scopes, o \in Objects :
        \/ Unset(s, o)
        \/ \E k \in Keys, v \in ValuesOf(carrier), once \in BOOLEAN : Insert(s, o, k, v, once)
    \/ \E r \in Runs : ForRun(r)
    \/ \E w \in Workers :
        \/ \E op \in {"remove", "count"}, r \in Runs : JobBegin(w, op, r)
        \/ RemoveStep(w) \/ RemoveReturns(w) \/ CountStep(w) \/ JobEnds(w)

Spec == Init /\ [][Next]_vars
-----------------------------------------------------------------------------
\* Carriers New accepts and Insert writes, whose rows no read answers: a
\* narrow integer, a scalar or bytes in a json column, a geometry of the wrong
\* shape in a json column, and text over an adopted timestamptz.
Unreadable(a) ==
    \/ carrier.go = "int32"
    \/ field.type = "json" /\ carrier.go \in {"int", "float", "bool", "time", "bytes"}
    \/ field.type = "json" /\ carrier.go = "geometry" /\ a.value = "bad"
    \/ carrier.go = "string" /\ TableType(a.scope, a.object) = "timestamptz"

\* Empty documents and empty bytes are stored as NULL, so a pointer to one is
\* read back as nil; everything else is read back as it was.
ReadAs(v) ==
    LET empties == field.type = "bytes"
                   \/ (field.type \in {"json", "geometry"} /\ carrier.go \in {"string", "bytes", "list"})
                   \/ (field.type = "geometry" /\ carrier.go = "geometry")
    IN IF v = "zero" /\ empties /\ carrier.pointer THEN "nil" ELSE v

\* What Insert or InsertOnce acknowledged is there for the store that wrote it,
\* with the value it had, absent kept apart from zero, until RemoveRun of that
\* very run comes to its table: no other run, and no row of the live tables,
\* takes its place, hides it or is removed with it (Row, Query, Encode, Decode,
\* the key of the test copies, RemoveRun).
AckedIsReadBack ==
    \A a \in acked : Unreadable(a) \/ Take(a.scope, a.object, a.key) = ReadAs(a.value)

\* A run whose RemoveRun returned without an error, nothing having been inserted
\* for it since the call began, has no row in any table, although the tables
\* are emptied one by one and earlier removals may have stopped half way; and
\* RowsOfRun tells every row of a run that nothing was written to meanwhile.
RunsAreAccountedFor ==
    /\ \A r \in rows : r.run \notin gone
    /\ \A w \in Workers : job[w] # Idle =>
        (job[w].op = "count" /\ job[w].alone /\ IsLast(w) =>
            job[w].rows = {r \in rows : r.run = job[w].run})

\* A query by a clause of Unset that the database answers finds the rows whose
\* column is NULL or the empty text, and those only, whichever types the table
\* turned out to have after the clause was cached.
UnsetFindsTheUnset ==
    \A u \in unset :
        \/ UnsetRows(u) = Error
        \/ UnsetRows(u) = {r \in Query(u.scope, u.object) :
                            r.cell = Null \/ (DeclaresTextual /\ carrier.go = "string" /\ r.cell.val = "zero")}
=============================================================================
