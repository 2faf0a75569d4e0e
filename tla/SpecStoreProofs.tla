--------------------------- MODULE SpecStoreProofs ---------------------------
(***************************************************************************)
(* Proofs about SpecStore for any declared field and carrier, objects,     *)
(* runs, keys and workers: what was acknowledged is read back, a removed   *)
(* run is gone and a count is exact, and a cached clause stays right.      *)
(***************************************************************************)
EXTENDS SpecStore, TLAPS

AckType == [scope : Scopes, object : Objects, key : Keys, value : Values]
UnsetType == [scope : Scopes, object : Objects, textual : BOOLEAN]
TableTypes == {"absent", "declared", "timestamptz"}

\* The row of an acknowledged insert, and what the insert put in it.
RowOf(a, r) == r.object = a.object /\ r.run = a.scope /\ r.key = a.key
Written(a) == StoredCell(TableType(a.scope, a.object), cell(field, carrier, a.value))

TableInv ==
    /\ field \in FieldType /\ carrier \in CarrierType
    /\ built \in BOOLEAN /\ copies \in BOOLEAN
    /\ built => Agree(field, carrier)
    /\ held \in [Objects -> TableTypes]
    /\ \A o \in Objects : held[o] = "timestamptz" => field.type = "timestamp"

\* Rows and acknowledged inserts are one to one.
RowsInv ==
    /\ rows \in SUBSET RowType /\ acked \in SUBSET AckType
    /\ acked # {} => built
    /\ \A r \in rows : TableType(r.run, r.object) # "absent"
    /\ \A r, r2 \in rows : r.object = r2.object /\ r.run = r2.run /\ r.key = r2.key => r = r2
    /\ \A r \in rows : \E a \in acked : RowOf(a, r)
    /\ \A a \in acked :
        /\ a.value \in ValuesOf(carrier)
        /\ \E r \in rows : RowOf(a, r) /\ r.cell = Written(a)

\* A clause that does not look for the empty text is for a column without one.
UnsetInv ==
    /\ unset \in SUBSET UnsetType
    /\ \A u \in unset : ~u.textual /\ DeclaresTextual =>
        TableType(u.scope, u.object) = "timestamptz"

\* A removal has emptied the tables behind it, a count has seen them, unless
\* somebody wrote to the run meanwhile.
JobInv(j, R) ==
    /\ j.op = "remove" /\ j.alone => \A r \in R : r.run = j.run => r.object >= j.at
    /\ j.op = "count" /\ j.alone => j.rows = {r \in R : r.run = j.run /\ r.object < j.at}

JobsInv ==
    /\ job \in [Workers -> JobType \cup {Idle}]
    /\ \A w \in Workers : job[w] # Idle => JobInv(job[w], rows)
    /\ gone \in SUBSET Runs
    /\ \A r \in rows : r.run \notin gone

SpecInv == TableInv /\ RowsInv /\ UnsetInv /\ JobsInv
-----------------------------------------------------------------------------
(***************************************************************************)
(* The codec.                                                              *)
(***************************************************************************)
LEMMA CellTypes ==
    ASSUME NEW f \in FieldType, NEW g \in CarrierType, NEW v \in ValuesOf(g)
    PROVE  /\ v \in Values /\ cell(f, g, v) \in Encoded \cup {Null, Error}
           /\ f.type \in {"string", "timestamp"} /\ cell(f, g, v) \in Encoded =>
                cell(f, g, v) = [rep |-> "text", val |-> v]
<1>1. v \in Values
  BY DEF ValuesOf, Values
<1>2. \A rep \in {"int", "float", "bool", "text", "instant", "doc", "base64", "bytes"} :
        [rep |-> rep, val |-> v] \in Encoded
  BY <1>1 DEF Encoded
<1>3. document(g, v) \in Encoded \cup {Null, Error}
  BY <1>2 DEF document, Marshalled
<1>4. CASE v = "nil"
  BY <1>1, <1>4, SpecStoreAssumption DEF cell
<1>5. CASE v # "nil" /\ f.type \in {"int", "float", "bool"}
  BY <1>1, <1>2, <1>5 DEF cell, scalar
<1>6. CASE v # "nil" /\ f.type = "json"
  BY <1>1, <1>3, <1>6 DEF cell
<1>7. CASE v # "nil" /\ f.type = "bytes"
  BY <1>1, <1>2, <1>7 DEF cell, opaque
<1>8. CASE v # "nil" /\ f.type = "geometry"
  BY <1>1, <1>3, <1>8 DEF cell, place
<1>9. CASE v # "nil" /\ f.type \in {"string", "timestamp"}
  BY <1>1, <1>2, <1>9, SpecStoreAssumption DEF cell, text
<1> QED
  BY <1>4, <1>5, <1>6, <1>7, <1>8, <1>9 DEF FieldType

\* What is stored is a cell, and over a timestamptz it is an instant.
LEMMA StoredTypes ==
    ASSUME TableInv, NEW c \in Encoded \cup {Null, Error}, NEW T \in TableTypes,
           StoredCell(T, c) # Error
    PROVE  /\ StoredCell(T, c) \in Encoded \cup {Null}
           /\ StoredCell(T, c) # Null /\ T = "timestamptz" =>
                StoredCell(T, c).val = "some" \/ carrier.go = "time"
           /\ StoredCell(T, c) # Null /\ T # "timestamptz" => StoredCell(T, c) = c /\ c \in Encoded
<1>1. CASE c \in {Null, Error}
  BY <1>1 DEF StoredCell
<1>2. CASE c \in Encoded /\ T = "timestamptz"
  <2>1. c \notin {Null, Error} /\ c.val \in Values
    BY <1>2, SpecStoreAssumption DEF Encoded
  <2>2. c.val = "some" \/ carrier.go = "time"
    BY <1>2, <2>1 DEF StoredCell
  <2>3. StoredCell(T, c) = [rep |-> "instant", val |-> c.val]
    BY <1>2, <2>1, <2>2 DEF StoredCell
  <2> QED
    BY <1>2, <2>1, <2>2, <2>3 DEF Encoded
<1>3. CASE c \in Encoded /\ T # "timestamptz"
  BY <1>3, SpecStoreAssumption DEF StoredCell
<1> QED
  BY <1>1, <1>2, <1>3

\* Decode undoes Encode, but for what is known not to be readable.
LEMMA Faithful ==
    ASSUME TableInv, built, NEW a \in AckType, a.value \in ValuesOf(carrier),
           TableType(a.scope, a.object) # "absent", Written(a) # Error
    PROVE  Unreadable(a) \/ Decode(carrier, Written(a)) = ReadAs(a.value)
<1> DEFINE v == a.value
           T == TableType(a.scope, a.object)
           c == cell(field, carrier, v)
           d == Written(a)
<1>1. /\ field \in FieldType /\ carrier \in CarrierType /\ Agree(field, carrier)
      /\ field.type \in {"int", "float", "bool", "string", "timestamp", "json", "bytes", "geometry"}
      /\ carrier.go \in {"int", "int32", "float", "bool", "string", "time", "bytes", "list",
                          "struct", "geometry"}
      /\ carrier.pointer \in BOOLEAN
  BY DEF TableInv, FieldType, CarrierType
<1>2. T \in {"declared", "timestamptz"} /\ (T = "timestamptz" => field.type = "timestamp")
  <2>1. CASE a.scope = Live
    <3>1. T = held[a.object] /\ a.object \in Objects
      BY <2>1 DEF TableType, AckType
    <3> QED
      BY <3>1 DEF TableInv, TableTypes
  <2>2. CASE a.scope # Live
    BY <2>2 DEF TableType
  <2> QED
    BY <2>1, <2>2
<1>3. d = StoredCell(T, c)
  BY DEF Written
<1>4. v = "nil" => carrier.pointer
  BY DEF ValuesOf
<1>5. v \in {"nil", "zero", "some", "bad"} /\ c \in Encoded \cup {Null, Error}
  BY <1>1, CellTypes DEF Values
<1>6. /\ Null # Error
      /\ \A rep \in {"int", "float", "bool", "text", "instant", "doc", "base64", "bytes"} :
            [rep |-> rep, val |-> v] # Null /\ [rep |-> rep, val |-> v] # Error
  BY <1>5, SpecStoreAssumption DEF Encoded, Values
<1>7. Unreadable(a) <=>
        \/ carrier.go = "int32"
        \/ field.type = "json" /\ carrier.go \in {"int", "float", "bool", "time", "bytes"}
        \/ field.type = "json" /\ carrier.go = "geometry" /\ v = "bad"
        \/ carrier.go = "string" /\ T = "timestamptz"
  BY DEF Unreadable
<1> HIDE DEF v, T, c, d
<1>8. d # Error
  BY DEF d
<1>9. Decode(carrier, Null) = IF carrier.pointer THEN "nil" ELSE "zero"
  BY DEF Decode
<1>10. \A rep \in {"int", "float", "bool", "text", "instant", "doc", "base64", "bytes"} :
          Decode(carrier, [rep |-> rep, val |-> v]) = assign(carrier, [rep |-> rep, val |-> v])
  BY <1>6 DEF Decode
<1>11. CASE v = "nil"
  <2>1. c = Null
    BY <1>11 DEF c, cell, v
  <2> QED
    BY <1>3, <1>4, <1>9, <1>11, <2>1 DEF StoredCell, ReadAs, d, v
<1>12. CASE v # "nil" /\ field.type \in {"int", "float", "bool"}
  <2>1. c = scalar(field, carrier, v) /\ T = "declared"
    BY <1>2, <1>12 DEF c, cell, v
  <2>2. c # Error
    BY <1>3, <1>8, <2>1 DEF StoredCell
  <2>3. c = [rep |-> field.type, val |-> v] /\ carrier.go \in {"int", "int32", "float", "bool"}
        /\ (carrier.go # "int32" => carrier.go = field.type)
    BY <1>12, <2>1, <2>2 DEF scalar
  <2>4. d = c
    BY <1>3, <1>6, <1>12, <2>1, <2>3 DEF StoredCell
  <2>5. ReadAs(v) = v
    BY <1>12 DEF ReadAs
  <2>6. CASE carrier.go # "int32"
    <3>1. assign(carrier, [rep |-> field.type, val |-> v]) = v
      BY <1>12, <2>3, <2>6 DEF assign
    <3> QED
      BY <1>10, <1>12, <2>3, <2>4, <2>5, <3>1 DEF d, v
  <2> QED
    BY <1>7, <2>6
<1>13. CASE v # "nil" /\ field.type \in {"string", "timestamp"}
  <2>1. c = text(field, carrier, v)
    BY <1>13 DEF c, cell, v
  <2>2. c # Error
    BY <1>3, <1>8 DEF StoredCell
  <2>3. c = [rep |-> "text", val |-> v] /\ carrier.go \in {"string", "time"}
    BY <2>1, <2>2 DEF text
  <2>4. ReadAs(v) = v
    BY <1>13 DEF ReadAs
  <2>5. c.rep = "text" /\ c.val = v /\ c # Null
    BY <1>6, <2>3
  <2>6. CASE T = "declared"
    <3>1. d = [rep |-> "text", val |-> v]
      BY <1>3, <2>2, <2>3, <2>5, <2>6 DEF StoredCell
    <3>2. assign(carrier, [rep |-> "text", val |-> v]) = v
      BY <2>3 DEF assign
    <3> QED
      BY <1>10, <2>4, <3>1, <3>2 DEF d, v
  <2>7. CASE T = "timestamptz" /\ carrier.go = "time"
    <3>1. d = [rep |-> "instant", val |-> v]
      BY <1>3, <2>2, <2>5, <2>7 DEF StoredCell
    <3>2. assign(carrier, [rep |-> "instant", val |-> v]) = v
      BY <2>7 DEF assign
    <3> QED
      BY <1>10, <2>4, <3>1, <3>2 DEF d, v
  <2> QED
    BY <1>2, <1>7, <2>3, <2>6, <2>7
<1>14. CASE v # "nil" /\ field.type = "bytes"
  <2>1. c = opaque(carrier, v) /\ T = "declared"
    BY <1>2, <1>14 DEF c, cell, v
  <2>2. c # Error /\ carrier.go = "bytes"
    BY <1>3, <1>8, <2>1 DEF StoredCell, opaque
  <2>3. CASE v = "zero"
    <3>1. d = Null
      BY <1>3, <2>1, <2>2, <2>3 DEF StoredCell, opaque
    <3>2. ReadAs(v) = IF carrier.pointer THEN "nil" ELSE "zero"
      BY <1>14, <2>3 DEF ReadAs
    <3> QED
      BY <1>9, <3>1, <3>2 DEF d, v
  <2>4. CASE v # "zero"
    <3>1. c = [rep |-> "bytes", val |-> v] /\ c # Null
      BY <1>6, <2>1, <2>2, <2>4 DEF opaque
    <3>2. d = [rep |-> "bytes", val |-> v]
      BY <1>3, <2>1, <2>2, <3>1 DEF StoredCell
    <3>3. assign(carrier, [rep |-> "bytes", val |-> v]) = v /\ ReadAs(v) = v
      BY <2>2, <2>4 DEF assign, ReadAs
    <3> QED
      BY <1>10, <3>2, <3>3 DEF d, v
  <2> QED
    BY <2>3, <2>4
\* A document that is stored as NULL, or as it was marshalled.
<1>15. ASSUME v # "nil", field.type \in {"json", "geometry"}, c = document(carrier, v),
              T = "declared", ~Unreadable(a),
              field.type = "geometry" => IsPlace(carrier, v) \/ c = Null
       PROVE  Decode(carrier, d) = ReadAs(v)
  <2>1. c # Error
    BY <1>3, <1>8 DEF StoredCell
  <2>2. CASE v = "zero" /\ carrier.go \in {"string", "bytes", "list"}
    <3>1. c = Null
      BY <1>15, <2>2 DEF document
    <3>2. d = Null
      BY <1>3, <3>1 DEF StoredCell
    <3>3. ReadAs(v) = IF carrier.pointer THEN "nil" ELSE "zero"
      BY <1>15, <2>2 DEF ReadAs
    <3> QED
      BY <1>9, <3>2, <3>3
  <2>3. CASE ~(v = "zero" /\ carrier.go \in {"string", "bytes", "list"})
    <3>1. c \in {[rep |-> "doc", val |-> v], [rep |-> "base64", val |-> v]}
          /\ (carrier.go # "bytes" => c = [rep |-> "doc", val |-> v])
      BY <1>15, <2>1, <2>3 DEF document, Marshalled
    <3>2. c # Null
      BY <1>6, <3>1
    <3>3. carrier.go \in {"string", "list", "struct", "geometry"}
      BY <1>1, <1>7, <1>15, <3>2 DEF IsPlace
    <3>4. c = [rep |-> "doc", val |-> v] /\ c.rep = "doc" /\ c.val = v
      BY <3>1, <3>3
    <3>5. ~(carrier.go = "string" /\ v = "bad") /\ ~(carrier.go = "geometry" /\ v = "bad")
      BY <1>3, <1>7, <1>8, <1>15, <2>1, <3>2, <3>4 DEF StoredCell, IsPlace
    <3>6. d = [rep |-> "doc", val |-> v]
      BY <1>3, <1>15, <2>1, <3>2, <3>4, <3>5 DEF StoredCell
    <3>7. assign(carrier, [rep |-> "doc", val |-> v]) = v
      BY <3>3, <3>5 DEF assign
    <3>8. v = "zero" => carrier.go = "struct"
      BY <1>15, <2>1, <2>3, <3>2, <3>3 DEF document, Marshalled
    <3>9. ReadAs(v) = v
      BY <1>15, <3>8, <3>2, <3>3 DEF ReadAs, IsPlace
    <3> QED
      BY <1>10, <3>6, <3>7, <3>9
  <2> QED
    BY <2>2, <2>3
<1>16. CASE v # "nil" /\ field.type = "json"
  <2>1. c = document(carrier, v) /\ T = "declared"
    BY <1>2, <1>16 DEF c, cell, v
  <2> QED
    BY <1>15, <1>16, <2>1 DEF d, v
<1>17. CASE v # "nil" /\ field.type = "geometry"
  <2>1. c = place(carrier, v) /\ T = "declared"
    BY <1>2, <1>17 DEF c, cell, v
  <2>2. c # Error
    BY <1>3, <1>8 DEF StoredCell
  <2>3. CASE carrier.go = "geometry" /\ v = "zero"
    <3>1. d = Null
      BY <1>3, <2>1, <2>3 DEF StoredCell, place
    <3>2. ReadAs(v) = IF carrier.pointer THEN "nil" ELSE "zero"
      BY <1>17, <2>3 DEF ReadAs
    <3> QED
      BY <1>9, <3>1, <3>2 DEF d, v
  <2>4. CASE ~(carrier.go = "geometry" /\ v = "zero")
    <3>1. c = document(carrier, v) /\ (IsPlace(carrier, v) \/ c = Null)
      BY <2>1, <2>2, <2>4 DEF place
    <3> QED
      BY <1>15, <1>17, <2>1, <3>1 DEF d, v
  <2> QED
    BY <2>3, <2>4
<1> QED
  BY <1>1, <1>11, <1>12, <1>13, <1>14, <1>16, <1>17
-----------------------------------------------------------------------------
(***************************************************************************)
(* What the steps keep.                                                    *)
(***************************************************************************)
\* A table that is there keeps the type of its column.
Stays ==
    /\ field' = field /\ carrier' = carrier /\ (built => built')
    /\ \A s \in Scopes, o \in Objects :
        TableType(s, o) # "absent" => TableType(s, o)' = TableType(s, o)

LEMMA UnchangedStays ==
    ASSUME TableInv, UNCHANGED table
    PROVE  Stays /\ TableInv'
<1>1. field' = field /\ carrier' = carrier /\ built' = built /\ held' = held /\ copies' = copies
  BY DEF table
<1> QED
  BY <1>1 DEF TableInv, Stays, TableType

LEMMA NewStays ==
    ASSUME TableInv, New
    PROVE  Stays /\ TableInv'
BY DEF TableInv, Stays, TableType, New

LEMMA MigrateStays ==
    ASSUME TableInv, Migrate
    PROVE  Stays /\ TableInv'
<1>1. /\ field' = field /\ carrier' = carrier /\ built' = built /\ copies' = TRUE /\ copies = FALSE
      /\ held' = [o \in Objects |-> IF held[o] = "absent" THEN "declared" ELSE held[o]]
  BY DEF Migrate, TableInv
<1>2. \A o \in Objects : /\ held'[o] \in TableTypes
                         /\ held[o] # "absent" => held'[o] = held[o]
                         /\ held'[o] = "timestamptz" => held[o] = "timestamptz"
  BY <1>1 DEF TableInv, TableTypes
<1>3. Stays
  BY <1>1, <1>2 DEF Stays, TableType
<1>4. held' \in [Objects -> TableTypes]
  <2>1. \A o \in Objects : (IF held[o] = "absent" THEN "declared" ELSE held[o]) \in TableTypes
    BY DEF TableInv, TableTypes
  <2> QED
    BY <1>1, <2>1
<1>5. \A o \in Objects : held'[o] = "timestamptz" => field'.type = "timestamp"
  BY <1>1, <1>2 DEF TableInv
<1>6. field' \in FieldType /\ carrier' \in CarrierType /\ built' \in BOOLEAN /\ copies' \in BOOLEAN
  BY <1>1 DEF TableInv
<1>7. (built => Agree(field, carrier))'
  BY <1>1 DEF TableInv
<1> QED
  BY <1>3, <1>4, <1>5, <1>6, <1>7 DEF TableInv

LEMMA WrittenStays ==
    ASSUME RowsInv, Stays, NEW a \in acked
    PROVE  /\ a \in AckType /\ TableType(a.scope, a.object) # "absent"
           /\ TableType(a.scope, a.object)' = TableType(a.scope, a.object)
           /\ Written(a)' = Written(a)
<1>1. a \in AckType /\ a.scope \in Scopes /\ a.object \in Objects
  BY DEF RowsInv, AckType
<1>2. TableType(a.scope, a.object) # "absent"
  BY DEF RowsInv, RowOf
<1>3. TableType(a.scope, a.object)' = TableType(a.scope, a.object)
  BY <1>1, <1>2 DEF Stays
<1>4. Written(a)' = Written(a)
  BY <1>3 DEF Stays, Written, StoredCell
<1> QED
  BY <1>1, <1>2, <1>3, <1>4

LEMMA RowsStay ==
    ASSUME RowsInv, Stays, rows' = rows, acked' = acked
    PROVE  RowsInv'
<1>1. \A r \in rows : TableType(r.run, r.object)' # "absent"
  BY DEF RowsInv, RowType, Stays
<1>2. \A a \in acked : Written(a)' = Written(a)
  BY WrittenStays
<1>3. \A a \in acked : a.value \in ValuesOf(carrier)' /\ \E r \in rows : RowOf(a, r) /\ r.cell = Written(a)'
  BY <1>2 DEF RowsInv, Stays
<1>4. acked' # {} => built'
  BY DEF RowsInv, Stays
<1> QED
  BY <1>1, <1>3, <1>4 DEF RowsInv

LEMMA UnsetStays ==
    ASSUME UnsetInv, Stays, unset' \subseteq unset
    PROVE  UnsetInv'
<1>1. DeclaresTextual' <=> DeclaresTextual
  BY DEF Stays, DeclaresTextual
<1>2. \A u \in unset : u.scope \in Scopes /\ u.object \in Objects
  BY DEF UnsetInv, UnsetType
<1>3. \A u \in unset : TableType(u.scope, u.object) = "timestamptz" =>
                         TableType(u.scope, u.object)' = "timestamptz"
  BY <1>2 DEF Stays
<1> QED
  BY <1>1, <1>3 DEF UnsetInv

LEMMA JobsStay ==
    ASSUME JobsInv, rows' = rows, job' = job, gone' = gone
    PROVE  JobsInv'
BY DEF JobsInv

\* A step of one worker, to j.
LEMMA JobStep ==
    ASSUME JobsInv, rows' = rows, gone' = gone, NEW w \in Workers, NEW j \in JobType \cup {Idle},
           job' = [job EXCEPT ![w] = j], j # Idle => JobInv(j, rows)
    PROVE  JobsInv'
BY DEF JobsInv

LEMMA JobFacts ==
    ASSUME JobsInv, NEW w \in Workers, job[w] # Idle
    PROVE  /\ job[w] \in JobType /\ JobInv(job[w], rows)
           /\ job[w].op \in {"remove", "count"} /\ job[w].run \in Runs /\ job[w].at \in Nat \ {0}
           /\ job[w].rows \in SUBSET RowType /\ job[w].alone \in BOOLEAN
<1>1. job[w] \in JobType /\ JobInv(job[w], rows)
  BY DEF JobsInv
<1> QED
  BY <1>1 DEF JobType
-----------------------------------------------------------------------------
LEMMA UnsetKept ==
    ASSUME SpecInv, NEW s \in Scopes, NEW o \in Objects, Unset(s, o)
    PROVE  SpecInv'
<1>1. UNCHANGED table /\ rows' = rows /\ acked' = acked /\ job' = job /\ gone' = gone
  BY DEF Unset
<1>2. Stays /\ TableInv'
  BY <1>1, UnchangedStays DEF SpecInv
<1>3. RowsInv' /\ JobsInv'
  BY <1>1, <1>2, RowsStay, JobsStay DEF SpecInv
<1>10. PICK textual \in {DeclaresTextual} \cup
                (IF TableType(s, o) = "absent" THEN {} ELSE {ColumnIsTextual(s, o)}) :
            unset' = unset \cup {[scope |-> s, object |-> o, textual |-> textual]}
  BY DEF Unset
<1>4. /\ unset' = unset \cup {[scope |-> s, object |-> o, textual |-> textual]}
      /\ textual = DeclaresTextual \/ (TableType(s, o) # "absent" /\ textual = ColumnIsTextual(s, o))
  BY <1>10
<1>11. textual \in BOOLEAN
  <2>1. DeclaresTextual \in BOOLEAN /\ ColumnIsTextual(s, o) \in BOOLEAN
    BY DEF DeclaresTextual, ColumnIsTextual
  <2> QED
    BY <1>4, <2>1
<1> DEFINE u == [scope |-> s, object |-> o, textual |-> textual]
<1>5. u \in UnsetType /\ u.textual = textual /\ u.scope = s /\ u.object = o
  BY <1>11 DEF UnsetType
<1>6. ASSUME ~textual, DeclaresTextual PROVE TableType(s, o) = "timestamptz"
  BY <1>4, <1>6 DEF ColumnIsTextual
<1> HIDE DEF u
<1>7. /\ DeclaresTextual' = DeclaresTextual
      /\ \A s2, o2 : TableType(s2, o2)' = TableType(s2, o2)
  BY <1>1 DEF table, DeclaresTextual, TableType
<1>8. unset' = unset \cup {u}
  BY <1>4 DEF u
<1>9. UnsetInv'
  BY <1>5, <1>6, <1>7, <1>8 DEF SpecInv, UnsetInv
<1> QED
  BY <1>2, <1>3, <1>9 DEF SpecInv

LEMMA ForRunKept ==
    ASSUME SpecInv, NEW r \in Runs, ForRun(r)
    PROVE  SpecInv'
<1>1. /\ UNCHANGED table /\ rows' = rows /\ acked' = acked /\ job' = job /\ gone' = gone
      /\ unset' \subseteq unset
  BY DEF ForRun
<1> QED
  BY <1>1, UnchangedStays, RowsStay, JobsStay, UnsetStays DEF SpecInv

LEMMA TablesKept ==
    ASSUME SpecInv, New \/ Migrate \/ UNCHANGED vars
    PROVE  SpecInv'
<1>1. rows' = rows /\ acked' = acked /\ job' = job /\ gone' = gone /\ unset' \subseteq unset
  BY DEF New, Migrate, vars
<1>2. Stays /\ TableInv'
  BY NewStays, MigrateStays, UnchangedStays DEF SpecInv, vars, table
<1> QED
  BY <1>1, <1>2, RowsStay, JobsStay, UnsetStays DEF SpecInv

\* The steps of a job that remove nothing.
LEMMA WorkerKept ==
    ASSUME SpecInv, NEW w \in Workers, NEW j \in JobType \cup {Idle},
           j # Idle => JobInv(j, rows), job' = [job EXCEPT ![w] = j],
           UNCHANGED <<table, rows, unset, acked>>,
           gone' = gone
    PROVE  SpecInv'
<1>1. UNCHANGED table /\ rows' = rows /\ acked' = acked /\ unset' \subseteq unset
  OBVIOUS
<1>2. Stays /\ TableInv'
  BY <1>1, UnchangedStays DEF SpecInv
<1> QED
  BY <1>1, <1>2, RowsStay, UnsetStays, JobStep DEF SpecInv

LEMMA JobBeginKept ==
    ASSUME SpecInv, NEW w \in Workers, NEW op \in {"remove", "count"}, NEW r \in Runs,
           JobBegin(w, op, r)
    PROVE  SpecInv'
<1> DEFINE j == [op |-> op, run |-> r, at |-> 1, rows |-> {}, alone |-> TRUE]
<1>1. j \in JobType /\ j.op = op /\ j.run = r /\ j.at = 1 /\ j.rows = {}
  BY DEF JobType
<1>2. job' = [job EXCEPT ![w] = j] /\ UNCHANGED <<table, rows, unset, acked>> /\ gone' = gone
  BY DEF JobBegin
<1> HIDE DEF j
<1>3. \A x \in rows : x.object >= 1 /\ ~(x.object < 1)
  BY SpecStoreAssumption DEF SpecInv, RowsInv, RowType, Objects
<1>4. JobInv(j, rows)
  BY <1>1, <1>3 DEF JobInv
<1> QED
  BY <1>1, <1>2, <1>4, WorkerKept

LEMMA CountStepKept ==
    ASSUME SpecInv, NEW w \in Workers, CountStep(w)
    PROVE  SpecInv'
<1> DEFINE j == job[w]
           seen == IF copies THEN {x \in rows : x.object = j.at /\ x.run = j.run} ELSE {}
           k == [j EXCEPT !.at = @ + 1, !.rows = @ \cup seen]
<1>1. j # Idle /\ j.op = "count"
  BY DEF CountStep
<1>2. /\ job' = [job EXCEPT ![w] = k] /\ UNCHANGED <<table, rows, unset, acked>> /\ gone' = gone
  BY DEF CountStep
<1>3. /\ j \in JobType /\ JobInv(j, rows) /\ j.run \in Runs /\ j.at \in Nat \ {0}
      /\ j.rows \in SUBSET RowType
  BY <1>1, JobFacts DEF SpecInv
<1>4. rows \in SUBSET RowType /\ \A x \in rows : x.object \in Nat
  BY SpecStoreAssumption DEF SpecInv, RowsInv, RowType, Objects
<1>5. seen = {x \in rows : x.object = j.at /\ x.run = j.run}
  <2>1. CASE copies
    BY <2>1
  <2>2. CASE ~copies
    <3>1. \A x \in rows : x.run # j.run
      BY <1>3, <2>2, SpecStoreAssumption DEF SpecInv, RowsInv, TableType
    <3> QED
      BY <2>2, <3>1
  <2> QED
    BY <2>1, <2>2
<1>6. seen \in SUBSET RowType /\ j.at + 1 \in Nat \ {0}
  BY <1>3, <1>4, <1>5
<1> HIDE DEF seen
<1>7. /\ k \in JobType /\ k.op = "count" /\ k.run = j.run /\ k.at = j.at + 1
      /\ k.rows = j.rows \cup seen /\ k.alone = j.alone
  BY <1>1, <1>3, <1>6 DEF JobType
<1> HIDE DEF k
<1>8. ASSUME j.alone
      PROVE  k.rows = {x \in rows : x.run = k.run /\ x.object < k.at}
  <2>1. j.rows = {x \in rows : x.run = j.run /\ x.object < j.at}
    BY <1>1, <1>3, <1>8 DEF JobInv
  <2>2. \A x \in rows : x.object < j.at + 1 <=> x.object < j.at \/ x.object = j.at
    BY <1>3, <1>4
  <2> HIDE DEF j
  <2> QED
    BY <1>5, <1>7, <2>1, <2>2
<1>9. JobInv(k, rows)
  BY <1>7, <1>8 DEF JobInv
<1> QED
  BY <1>2, <1>7, <1>9, WorkerKept

LEMMA JobEndsKept ==
    ASSUME SpecInv, NEW w \in Workers, JobEnds(w)
    PROVE  SpecInv'
BY WorkerKept DEF JobEnds

LEMMA TypeOfTable ==
    ASSUME TableInv, NEW s \in Scopes, NEW o \in Objects
    PROVE  TableType(s, o) \in TableTypes
BY DEF TableInv, TableType, TableTypes

\* What an insert writes for the first time.
LEMMA InsertRows ==
    ASSUME SpecInv, Stays, built, NEW s \in Scopes, NEW o \in Objects, NEW k \in Keys,
           NEW v \in ValuesOf(carrier), TableType(s, o) # "absent",
           TableType(s, o)' = TableType(s, o),
           NEW c \in Encoded \cup {Null},
           c = StoredCell(TableType(s, o), cell(field, carrier, v)),
           ~\E a \in acked : a.scope = s /\ a.object = o /\ a.key = k,
           rows' = rows \cup {Row(s, o, k, c)},
           acked' = acked \cup {[scope |-> s, object |-> o, key |-> k, value |-> v]}
    PROVE  RowsInv'
<1> DEFINE r == Row(s, o, k, c)
           a == [scope |-> s, object |-> o, key |-> k, value |-> v]
<1>1. r \in RowType /\ r.object = o /\ r.run = s /\ r.key = k /\ r.cell = c
  BY DEF Row, RowType
<1>2. v \in Values
  BY DEF ValuesOf, Values
<1>3. a \in AckType /\ a.scope = s /\ a.object = o /\ a.key = k /\ a.value = v
  BY <1>2 DEF AckType
<1>4. rows' = rows \cup {r} /\ acked' = acked \cup {a}
  OBVIOUS
<1> HIDE DEF r, a
<1>5. RowsInv
  BY DEF SpecInv
<1>6. rows' \in SUBSET RowType /\ acked' \in SUBSET AckType /\ built'
  BY <1>1, <1>3, <1>4, <1>5 DEF RowsInv, Stays
<1>7. \A x \in rows' : TableType(x.run, x.object)' # "absent"
  <2>1. \A x \in rows : TableType(x.run, x.object)' # "absent"
    BY <1>5 DEF RowsInv, RowType, Stays
  <2> QED
    BY <1>1, <1>4, <2>1
<1>8. \A x \in rows : ~(x.object = o /\ x.run = s /\ x.key = k)
  BY <1>5 DEF RowsInv, RowOf
<1>9. \A x, y \in rows' : x.object = y.object /\ x.run = y.run /\ x.key = y.key => x = y
  BY <1>1, <1>4, <1>5, <1>8 DEF RowsInv
<1>10. \A x \in rows' : \E b \in acked' : RowOf(b, x)
  BY <1>1, <1>3, <1>4, <1>5 DEF RowsInv, RowOf
<1>11. \A b \in acked : Written(b)' = Written(b)
  BY <1>5, WrittenStays
<1>12. Written(a)' = c
  BY <1>3 DEF Stays, Written, StoredCell
<1>13. \A b \in acked' :
          /\ b.value \in ValuesOf(carrier)'
          /\ \E x \in rows' : RowOf(b, x) /\ x.cell = Written(b)'
  <2>1. RowOf(a, r) /\ r.cell = Written(a)' /\ a.value \in ValuesOf(carrier)'
    BY <1>1, <1>3, <1>12 DEF RowOf, Stays
  <2>2. \A b \in acked : /\ b.value \in ValuesOf(carrier)'
                         /\ \E x \in rows : RowOf(b, x) /\ x.cell = Written(b)'
    BY <1>5, <1>11 DEF RowsInv, Stays
  <2> QED
    BY <1>4, <2>1, <2>2
<1> QED
  BY <1>6, <1>7, <1>9, <1>10, <1>13 DEF RowsInv

\* A job depends on the rows of its own run.
LEMMA JobOfOtherRun ==
    ASSUME NEW j \in JobType, NEW R, NEW R2, JobInv(j, R),
           \A x \in R \cup R2 : x.run = j.run => (x \in R <=> x \in R2)
    PROVE  JobInv(j, R2)
<1>1. {x \in R : x.run = j.run /\ x.object < j.at} = {x \in R2 : x.run = j.run /\ x.object < j.at}
  OBVIOUS
<1> QED
  BY <1>1 DEF JobInv

LEMMA InsertKept ==
    ASSUME SpecInv, NEW s \in Scopes, NEW o \in Objects, NEW k \in Keys,
           NEW v \in ValuesOf(carrier), NEW once \in BOOLEAN, Insert(s, o, k, v, once)
    PROVE  SpecInv'
<1> DEFINE c == StoredCell(TableType(s, o), cell(field, carrier, v))
           known == \E a \in acked : a.scope = s /\ a.object = o /\ a.key = k
<1>1. /\ built /\ TableType(s, o) # "absent" /\ c # Error /\ (once <=> Conflicts(s, o, k))
      /\ rows' = IF once THEN rows ELSE rows \cup {Row(s, o, k, c)}
      /\ acked' = IF known THEN acked
                  ELSE acked \cup {[scope |-> s, object |-> o, key |-> k, value |-> v]}
      /\ gone' = gone \ {s} /\ UNCHANGED table /\ unset' \subseteq unset
      /\ job' = [w \in Workers |->
                IF job[w] # Idle /\ job[w].run = s THEN [job[w] EXCEPT !.alone = FALSE] ELSE job[w]]
  BY DEF Insert
<1>2. Stays /\ TableInv' /\ TableInv /\ RowsInv /\ JobsInv /\ UnsetInv
  BY <1>1, UnchangedStays DEF SpecInv
<1>3. TableType(s, o)' = TableType(s, o)
  BY <1>1, <1>2 DEF Stays
<1>4. c \in Encoded \cup {Null}
  <2>1. field \in FieldType /\ carrier \in CarrierType
    BY <1>2 DEF TableInv
  <2>2. cell(field, carrier, v) \in Encoded \cup {Null, Error}
    BY <2>1, CellTypes
  <2> QED
    BY <1>1, <1>2, <2>2, StoredTypes, TypeOfTable
<1>5. known <=> Conflicts(s, o, k)
  BY <1>2 DEF Conflicts, RowsInv, RowOf
<1> HIDE DEF known
<1>6. RowsInv'
  <2>1. CASE known
    BY <1>1, <1>2, <1>5, <2>1, RowsStay
  <2>2. CASE ~known
    <3>1. ~\E a \in acked : a.scope = s /\ a.object = o /\ a.key = k
      BY <2>2 DEF known
    <3>2. /\ rows' = rows \cup {Row(s, o, k, c)}
          /\ acked' = acked \cup {[scope |-> s, object |-> o, key |-> k, value |-> v]}
      BY <1>1, <1>5, <2>2
    <3>3. PICK d \in Encoded \cup {Null} : d = c
      BY <1>4
    <3> QED
      BY <1>1, <1>2, <1>3, <3>1, <3>2, <3>3, InsertRows
  <2> QED
    BY <2>1, <2>2
<1>7. \A x \in rows \cup rows' : x.run # s => (x \in rows <=> x \in rows')
  BY <1>1 DEF Row
<1>8. \A w \in Workers : job'[w] \in JobType \cup {Idle} /\ (job'[w] # Idle => JobInv(job'[w], rows'))
  <2> SUFFICES ASSUME NEW w \in Workers
               PROVE  job'[w] \in JobType \cup {Idle} /\ (job'[w] # Idle => JobInv(job'[w], rows'))
    OBVIOUS
  <2>1. CASE job[w] = Idle
    BY <1>1, <2>1
  <2>2. CASE job[w] # Idle /\ job[w].run # s
    <3>1. job[w] \in JobType /\ JobInv(job[w], rows) /\ job'[w] = job[w]
      BY <1>1, <1>2, <2>2, JobFacts
    <3>2. \A x \in rows \cup rows' : x.run = job[w].run => (x \in rows <=> x \in rows')
      BY <1>7, <2>2
    <3> QED
      BY <3>1, <3>2, JobOfOtherRun
  <2>3. CASE job[w] # Idle /\ job[w].run = s
    <3>1. job[w] \in JobType /\ job'[w] = [job[w] EXCEPT !.alone = FALSE]
      BY <1>1, <1>2, <2>3, JobFacts
    <3>2. job'[w] \in JobType /\ ~job'[w].alone
      BY <3>1 DEF JobType
    <3> QED
      BY <3>2 DEF JobInv
  <2> QED
    BY <2>1, <2>2, <2>3
<1>9. JobsInv'
  <2>1. job' \in [Workers -> JobType \cup {Idle}]
    <3> DEFINE J == JobType \cup {Idle}
    <3>1. \A w \in Workers : job'[w] \in J
      BY <1>8
    <3>2. job' = [w \in Workers |-> job'[w]]
      BY <1>1
    <3> HIDE DEF J
    <3>3. job' \in [Workers -> J]
      BY <3>1, <3>2
    <3> QED
      BY <3>3 DEF J
  <2>2. gone' \in SUBSET Runs /\ \A x \in rows' : x.run \notin gone'
    BY <1>1, <1>2, <1>7 DEF JobsInv
  <2> QED
    BY <1>8, <2>1, <2>2 DEF JobsInv
<1> QED
  BY <1>1, <1>2, <1>6, <1>9, UnsetStays DEF SpecInv

LEMMA RemoveStepKept ==
    ASSUME SpecInv, NEW w \in Workers, RemoveStep(w)
    PROVE  SpecInv'
<1> DEFINE j == job[w]
           k == [j EXCEPT !.at = @ + 1]
<1>1. /\ j # Idle /\ j.op = "remove"
      /\ rows' = rows \ (IF copies THEN Deleted(j.at, j.run) ELSE {})
      /\ acked' = {a \in acked : ~(a.scope = j.run /\ a.object = j.at)}
      /\ job' = [x \in Workers |->
                IF x = w THEN k
                ELSE IF job[x] # Idle /\ job[x].op = "count" /\ job[x].run = j.run
                     THEN [job[x] EXCEPT !.alone = FALSE] ELSE job[x]]
      /\ UNCHANGED table /\ unset' \subseteq unset /\ gone' = gone
  BY DEF RemoveStep
<1>2. Stays /\ TableInv' /\ TableInv /\ RowsInv /\ JobsInv /\ UnsetInv
  BY <1>1, UnchangedStays DEF SpecInv
<1>3. j \in JobType /\ JobInv(j, rows) /\ j.run \in Runs /\ j.at \in Nat \ {0} /\ j.alone \in BOOLEAN
  BY <1>1, <1>2, JobFacts
<1>4. \A x : x \in rows' <=> x \in rows /\ ~(x.run = j.run /\ x.object = j.at)
  <2>1. CASE copies
    BY <1>1, <2>1 DEF Deleted
  <2>2. CASE ~copies
    <3>1. \A x \in rows : x.run # j.run
      BY <1>2, <1>3, <2>2, SpecStoreAssumption DEF RowsInv, TableType
    <3> QED
      BY <1>1, <2>2, <3>1
  <2> QED
    BY <2>1, <2>2
<1>5. \A a : a \in acked' <=> a \in acked /\ ~(a.scope = j.run /\ a.object = j.at)
  BY <1>1
<1>6. j.at + 1 \in Nat \ {0}
  BY <1>3
<1>7. /\ k \in JobType /\ k.op = "remove" /\ k.run = j.run /\ k.at = j.at + 1
      /\ k.alone = j.alone
  BY <1>1, <1>3, <1>6 DEF JobType
<1>8. \A x \in Workers : x # w =>
        job'[x] = IF job[x] # Idle /\ job[x].op = "count" /\ job[x].run = j.run
                  THEN [job[x] EXCEPT !.alone = FALSE] ELSE job[x]
  BY <1>1
<1>9. job'[w] = k /\ job' = [x \in Workers |-> job'[x]]
  BY <1>1
<1> HIDE DEF j, k
<1>10. RowsInv'
  <2>1. rows' \in SUBSET RowType /\ acked' \in SUBSET AckType /\ (acked' # {} => built')
    BY <1>2, <1>4, <1>5 DEF RowsInv, Stays
  <2>2. \A r \in rows' : TableType(r.run, r.object)' # "absent"
    BY <1>2, <1>4 DEF RowsInv, RowType, Stays
  <2>3. \A r, r2 \in rows' : r.object = r2.object /\ r.run = r2.run /\ r.key = r2.key => r = r2
    BY <1>2, <1>4 DEF RowsInv
  <2>4. \A r \in rows' : \E a \in acked' : RowOf(a, r)
    BY <1>2, <1>4, <1>5 DEF RowsInv, RowOf
  <2>5. \A a \in acked : Written(a)' = Written(a)
    BY <1>2, WrittenStays
  <2>6. \A a \in acked' : /\ a.value \in ValuesOf(carrier)'
                          /\ \E r \in rows' : RowOf(a, r) /\ r.cell = Written(a)'
    BY <1>2, <1>4, <1>5, <2>5 DEF RowsInv, RowOf, Stays
  <2> QED
    BY <2>1, <2>2, <2>3, <2>4, <2>6 DEF RowsInv
<1>11. JobInv(k, rows')
  <2>1. \A x \in rows : x.object \in Nat
    BY <1>2, SpecStoreAssumption DEF RowsInv, RowType, Objects
  <2>2. ASSUME k.alone, NEW x \in rows', x.run = k.run PROVE x.object >= k.at
    <3>1. x \in rows /\ x.run = j.run /\ x.object # j.at
      BY <1>4, <1>7, <2>2
    <3>2. x.object >= j.at
      BY <1>1, <1>3, <1>7, <2>2, <3>1 DEF JobInv
    <3> QED
      BY <1>3, <1>7, <2>1, <3>1, <3>2
  <2> QED
    BY <1>7, <2>2 DEF JobInv
<1>12. ASSUME NEW x \in Workers
       PROVE  job'[x] \in JobType \cup {Idle} /\ (job'[x] # Idle => JobInv(job'[x], rows'))
  <2>1. CASE x = w
    BY <1>7, <1>9, <1>11, <2>1
  <2>2. CASE x # w /\ job[x] = Idle
    BY <1>8, <2>2
  <2>3. CASE x # w /\ job[x] # Idle /\ job[x].op = "count" /\ job[x].run = j.run
    <3>1. job[x] \in JobType /\ job'[x] = [job[x] EXCEPT !.alone = FALSE]
      BY <1>2, <1>8, <2>3, JobFacts
    <3>2. job'[x] \in JobType /\ ~job'[x].alone
      BY <3>1 DEF JobType
    <3> QED
      BY <3>2 DEF JobInv
  <2>4. CASE x # w /\ job[x] # Idle /\ job[x].run # j.run
    <3>1. job[x] \in JobType /\ JobInv(job[x], rows) /\ job'[x] = job[x]
      BY <1>2, <1>8, <2>4, JobFacts
    <3>2. \A y \in rows \cup rows' : y.run = job[x].run => (y \in rows <=> y \in rows')
      BY <1>4, <2>4
    <3> QED
      BY <3>1, <3>2, JobOfOtherRun
  <2>5. CASE x # w /\ job[x] # Idle /\ job[x].op # "count"
    <3>1. job[x] \in JobType /\ JobInv(job[x], rows) /\ job'[x] = job[x]
      BY <1>2, <1>8, <2>5, JobFacts
    <3> QED
      BY <1>4, <2>5, <3>1 DEF JobInv
  <2> QED
    BY <2>1, <2>2, <2>3, <2>4, <2>5
<1>13. JobsInv'
  <2>1. job' \in [Workers -> JobType \cup {Idle}]
    <3> DEFINE J == JobType \cup {Idle}
    <3>1. \A x \in Workers : job'[x] \in J
      BY <1>12
    <3> HIDE DEF J
    <3>2. job' \in [Workers -> J]
      BY <1>9, <3>1
    <3> QED
      BY <3>2 DEF J
  <2>2. gone' \in SUBSET Runs /\ \A x \in rows' : x.run \notin gone'
    BY <1>1, <1>2, <1>4 DEF JobsInv
  <2> QED
    BY <1>12, <2>1, <2>2 DEF JobsInv
<1> QED
  BY <1>1, <1>2, <1>10, <1>13, UnsetStays DEF SpecInv

LEMMA RemoveReturnsKept ==
    ASSUME SpecInv, NEW w \in Workers, RemoveReturns(w)
    PROVE  SpecInv'
<1> DEFINE j == job[w]
<1>1. /\ j # Idle /\ j.op = "remove" /\ j.at > NObjects
      /\ job' = [job EXCEPT ![w] = Idle]
      /\ gone' = IF j.alone THEN gone \cup {j.run} ELSE gone
      /\ UNCHANGED table /\ rows' = rows /\ acked' = acked /\ unset' \subseteq unset
  BY DEF RemoveReturns, IsLast
<1>2. Stays /\ TableInv' /\ RowsInv /\ JobsInv /\ UnsetInv
  BY <1>1, UnchangedStays DEF SpecInv
<1>3. JobInv(j, rows) /\ j.run \in Runs /\ j.at \in Nat \ {0}
  BY <1>1, <1>2, JobFacts
<1>4. j.alone => \A r \in rows : r.run # j.run
  <2>1. \A r \in rows : r.object \in Nat /\ r.object <= NObjects
    BY <1>2, SpecStoreAssumption DEF RowsInv, RowType, Objects
  <2> QED
    BY <1>1, <1>3, <2>1, SpecStoreAssumption DEF JobInv
<1>5. gone' \in SUBSET Runs /\ \A r \in rows' : r.run \notin gone'
  BY <1>1, <1>2, <1>3, <1>4 DEF JobsInv
<1>6. JobsInv'
  BY <1>1, <1>2, <1>5 DEF JobsInv
<1> QED
  BY <1>1, <1>2, <1>6, RowsStay, UnsetStays DEF SpecInv
-----------------------------------------------------------------------------
LEMMA SpecInit == Init => SpecInv
<1> SUFFICES ASSUME Init PROVE SpecInv
  OBVIOUS
<1>1. \A o \in Objects : held[o] \in TableTypes /\ (held[o] = "timestamptz" => field.type = "timestamp")
  BY DEF Init, TableTypes
<1>2. held = [o \in Objects |-> held[o]]
  BY DEF Init
<1>3. TableInv
  BY <1>1, <1>2, SpecStoreAssumption DEF Init, TableInv
<1>4. RowsInv /\ UnsetInv /\ JobsInv
  BY DEF Init, RowsInv, UnsetInv, JobsInv
<1> QED
  BY <1>3, <1>4 DEF SpecInv

LEMMA SpecNext == SpecInv /\ [Next]_vars => SpecInv'
<1> SUFFICES ASSUME SpecInv, [Next]_vars PROVE SpecInv'
  OBVIOUS
<1>1. CASE New \/ Migrate \/ UNCHANGED vars
  BY <1>1, TablesKept
<1>2. ASSUME NEW s \in Scopes, NEW o \in Objects,
             \/ Unset(s, o)
             \/ \E k \in Keys, v \in ValuesOf(carrier), once \in BOOLEAN : Insert(s, o, k, v, once)
      PROVE  SpecInv'
  BY <1>2, UnsetKept, InsertKept
<1>3. ASSUME NEW r \in Runs, ForRun(r) PROVE SpecInv'
  BY <1>3, ForRunKept
<1>4. ASSUME NEW w \in Workers,
             \/ \E op \in {"remove", "count"}, r \in Runs : JobBegin(w, op, r)
             \/ RemoveStep(w) \/ RemoveReturns(w) \/ CountStep(w) \/ JobEnds(w)
      PROVE  SpecInv'
  BY <1>4, JobBeginKept, RemoveStepKept, RemoveReturnsKept, CountStepKept, JobEndsKept
<1> QED
  BY <1>1, <1>2, <1>3, <1>4 DEF Next

\* Every row is the one row of an acknowledged insert and holds what that insert
\* encoded, every cached clause fits its column, and every removal and count is
\* right about the tables behind it, always.
THEOREM SpecStoreInvariant == Spec => []SpecInv
<1> QED
  BY SpecInit, SpecNext, PTL DEF Spec

\* What Insert or InsertOnce acknowledged is read back by the store that wrote
\* it, with its value (codec.go), until its run is removed.
THEOREM AckedReadsBack == Spec => []AckedIsReadBack
<1>1. ASSUME SpecInv PROVE AckedIsReadBack
  <2> SUFFICES ASSUME NEW a \in acked
               PROVE  Unreadable(a) \/ Take(a.scope, a.object, a.key) = ReadAs(a.value)
    BY DEF AckedIsReadBack
  <2>1. TableInv /\ RowsInv
    BY <1>1 DEF SpecInv
  <2>2. PICK r \in rows : RowOf(a, r) /\ r.cell = Written(a)
    BY <2>1 DEF RowsInv
  <2>3. /\ a \in AckType /\ a.value \in ValuesOf(carrier) /\ built
        /\ TableType(a.scope, a.object) # "absent"
    BY <2>1, <2>2 DEF RowsInv, RowOf
  <2>4. Written(a) # Error
    BY <2>1, <2>2, SpecStoreAssumption DEF RowsInv, RowType
  <2>5. {x \in Query(a.scope, a.object) : x.key = a.key} = {r}
    BY <2>1, <2>2 DEF Query, RowsInv, RowOf
  <2>6. Take(a.scope, a.object, a.key) = Decode(carrier, Written(a))
    <3> DEFINE found == {x \in Query(a.scope, a.object) : x.key = a.key}
    <3>1. (CHOOSE x \in found : TRUE) = r
      BY <2>5
    <3> QED
      BY <2>2, <2>5, <3>1 DEF Take
  <2> QED
    BY <2>1, <2>3, <2>4, <2>6, Faithful
<1> QED
  BY <1>1, SpecStoreInvariant, PTL

\* A removed run has no row left, and RowsOfRun tells every row of a run that
\* was left alone, however many removals and counts run at once and wherever
\* they stop (testrun.go).
THEOREM RunsAccountedFor == Spec => []RunsAreAccountedFor
<1>1. ASSUME SpecInv PROVE RunsAreAccountedFor
  <2>1. JobsInv /\ RowsInv
    BY <1>1 DEF SpecInv
  <2>2. ASSUME NEW w \in Workers, job[w] # Idle, job[w].op = "count", job[w].alone, IsLast(w)
        PROVE  job[w].rows = {r \in rows : r.run = job[w].run}
    <3>1. JobInv(job[w], rows) /\ job[w].at \in Nat /\ job[w].at > NObjects
      BY <2>1, <2>2, JobFacts DEF IsLast
    <3>2. \A r \in rows : r.object < job[w].at
      BY <2>1, <3>1, SpecStoreAssumption DEF RowsInv, RowType, Objects
    <3>3. job[w].rows = {r \in rows : r.run = job[w].run /\ r.object < job[w].at}
      BY <2>2, <3>1 DEF JobInv
    <3> QED
      BY <3>2, <3>3
  <2>3. \A r \in rows : r.run \notin gone
    BY <2>1 DEF JobsInv
  <2> QED
    BY <2>2, <2>3 DEF RunsAreAccountedFor
<1> QED
  BY <1>1, SpecStoreInvariant, PTL

\* A clause of Unset (store.go) finds the rows never filled in and no others,
\* whatever the table turned out to be after the clause was cached.
THEOREM UnsetFindsUnset == Spec => []UnsetFindsTheUnset
<1>1. ASSUME SpecInv PROVE UnsetFindsTheUnset
  <2> SUFFICES ASSUME NEW u \in unset, UnsetRows(u) # Error
               PROVE  UnsetRows(u) = {r \in Query(u.scope, u.object) :
                        r.cell = Null \/ (DeclaresTextual /\ carrier.go = "string" /\ r.cell.val = "zero")}
    BY DEF UnsetFindsTheUnset
  <2> DEFINE T == TableType(u.scope, u.object)
  <2>1. TableInv /\ RowsInv /\ UnsetInv
    BY <1>1 DEF SpecInv
  <2>2. /\ T # "absent" /\ (u.textual => ColumnIsTextual(u.scope, u.object))
        /\ UnsetRows(u) = {r \in Query(u.scope, u.object) : UnsetSQL(u.textual, r.cell)}
    BY DEF UnsetRows
  <2>3. /\ u.textual => T # "timestamptz" /\ DeclaresTextual
        /\ ~u.textual /\ DeclaresTextual => T = "timestamptz"
    BY <2>1, <2>2 DEF UnsetInv, ColumnIsTextual
  <2>4. ASSUME NEW r \in Query(u.scope, u.object), r.cell # Null, DeclaresTextual,
               carrier.go = "string"
        PROVE  /\ T # "timestamptz" => r.cell.rep = "text"
               /\ T = "timestamptz" => r.cell.val = "some"
    <3>1. r \in rows /\ r.run = u.scope /\ r.object = u.object
      BY DEF Query
    <3>2. PICK a \in acked : RowOf(a, r)
      BY <2>1, <3>1 DEF RowsInv
    <3>3. a.value \in ValuesOf(carrier) /\ r.cell = Written(a)
      <4>1. PICK x \in rows : RowOf(a, x) /\ x.cell = Written(a)
        BY <2>1 DEF RowsInv
      <4>2. x = r
        BY <2>1, <3>1, <3>2, <4>1 DEF RowsInv, RowOf
      <4> QED
        BY <2>1, <4>1, <4>2 DEF RowsInv
    <3>4. field \in FieldType /\ carrier \in CarrierType /\ T \in TableTypes
      <4>1. u.scope \in Scopes /\ u.object \in Objects
        BY <2>1 DEF UnsetInv, UnsetType
      <4> QED
        BY <2>1, <4>1, TypeOfTable DEF TableInv
    <3> DEFINE c == cell(field, carrier, a.value)
    <3>5. r.cell = StoredCell(T, c)
      BY <3>1, <3>2, <3>3 DEF Written, RowOf
    <3>6. /\ c \in Encoded \cup {Null, Error}
          /\ c \in Encoded => c = [rep |-> "text", val |-> a.value]
      BY <2>4, <3>3, <3>4, CellTypes DEF DeclaresTextual
    <3>7. r.cell # Error
      BY <2>1, <3>1, SpecStoreAssumption DEF RowsInv, RowType
    <3> HIDE DEF c, T
    <3> QED
      BY <2>1, <2>4, <3>4, <3>5, <3>6, <3>7, StoredTypes
  <2>5. \A r \in Query(u.scope, u.object) :
          UnsetSQL(u.textual, r.cell) <=>
            r.cell = Null \/ (DeclaresTextual /\ carrier.go = "string" /\ r.cell.val = "zero")
    BY <2>3, <2>4 DEF UnsetSQL
  <2> QED
    BY <2>2, <2>5
<1> QED
  BY <1>1, SpecStoreInvariant, PTL
=============================================================================
