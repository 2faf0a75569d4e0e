------------------------- MODULE PerCollectionProofs -------------------------
(***************************************************************************)
(* Proofs about PerCollection for any callers, types, collections, schemas *)
(* and declared relationships: registry and collections agree, a unique    *)
(* key has one live entity, relationships find their endpoints, and the    *)
(* backend implements the one-table backend of EntityStore.                *)
(*                                                                         *)
(* The parts of the invariant take the registry R, the collections C and   *)
(* the relationships E they speak of, so that one lemma serves every step  *)
(* that writes them.                                                       *)
(***************************************************************************)
EXTENDS PerCollection, WellFoundedInduction, TLAPS

Places == {"idle", "create", "link", "upsert", "register", "commit"}
Wrote == {"register", "commit"}

NewRows == UNION {[S -> EdgeRow] : S \in SUBSET EdgeIds}

TxType ==
    [req : RowType \cup {Absent}, fields : Seq(Props),
     left : Seq([name : Labels, to : Ids]),
     id : Ids \cup {Absent}, type : Types \cup {Absent}, row : RowType \cup {Absent},
     new : NewRows, matched : SUBSET Ids]

Registries == [Ids -> Types \cup {Absent}]
Collections == [Tables -> [Ids -> RowType \cup {Absent}]]
EdgeTables == [EdgeIds -> EdgeRow \cup {Absent}]

RowTypes ==
    /\ reg \in Registries
    /\ content \in Collections
    /\ edges \in EdgeTables
    /\ active \in Schemas \cup {Absent}
    /\ pc \in [Callers -> Places]
    /\ tx \in [Callers -> TxType]

\* An entity is in the collection of the type it is registered with, and there
\* only.
Registered(R, C) ==
    /\ \A tb \in Tables, id \in Ids : C[tb][id] # Absent =>
        R[id] = C[tb][id].type /\ tb = TableFor[R[id]]
    /\ \A id \in Ids : R[id] # Absent => C[TableFor[R[id]]][id] # Absent

\* OneLivePerKey and EndpointsFit, of given tables.
KeysOnce(C) ==
    \A tb1, tb2 \in Tables, i, j \in Ids :
        /\ Store!IsLive(C[tb1][i]) /\ Store!IsLive(C[tb2][j])
        /\ C[tb1][i].type = C[tb2][j].type
        /\ C[tb1][i].key = C[tb2][j].key
        /\ C[tb1][i].key # Null
        => i = j

Fit(C, E) ==
    \A e \in EdgeIds : E[e] # Absent =>
        \E i \in RelationshipEdges :
            /\ Declared[i].table = E[e].table
            /\ C[TableFor[Declared[i].from]][E[e].from] # Absent
            /\ C[TableFor[Declared[i].to]][E[e].to] # Absent

\* A relationship row of a transaction finds its endpoints once it commits.
Finds(t, row, C) ==
    \E i \in RelationshipEdges :
        /\ Declared[i].table = row.table
        /\ TableFor[Declared[i].from] = TableFor[t.req.type]
        /\ C[TableFor[Declared[i].to]][row.to] # Absent

\* A CreateEntity under way: its id is nobody's.
CreateInv(place, t, R, C, E) ==
    /\ t.id \in Ids /\ R[t.id] = Absent
    /\ t.req \in RowType /\ t.req.key = Null /\ ~t.req.deleted
    /\ t.type = t.req.type
    /\ place = "link" => t.row = t.req
    /\ \A e \in DOMAIN t.new :
        E[e] = Absent /\ t.new[e].from = t.id /\ Finds(t, t.new[e], C)

\* An UpsertEntity that has written its row: a new one of a key nobody has, or
\* the patched one of the entity that has it.
Inserts(t, R, C) ==
    /\ R[t.id] = Absent
    /\ t.row = t.req
    /\ \A tb \in Tables, i \in Ids : ~Store!HasKey(C[tb][i], t.req.type, t.req.key)

Merges(t, R, C) ==
    /\ R[t.id] = t.req.type
    /\ Store!HasKey(C[TableFor[t.req.type]][t.id], t.req.type, t.req.key)
    /\ t.row = [C[TableFor[t.req.type]][t.id] EXCEPT
                    !.props = Store!Patched(@, t.req.props)]

UpsertInv(place, t, R, C) ==
    /\ t.req \in RowType /\ t.req.key # Null /\ ~t.req.deleted
    /\ DOMAIN t.new = {}
    /\ place \in {"upsert", "register"} => t.type = Absent
    /\ place = "upsert" => t.id = Absent
    /\ place \in Wrote =>
        /\ t.id \in Ids
        /\ t.row \in RowType /\ t.row.type = t.req.type /\ t.row.key = t.req.key
        /\ Inserts(t, R, C) \/ Merges(t, R, C)
    /\ place = "commit" =>
        t.type = IF R[t.id] = Absent THEN t.req.type ELSE Absent

TxInv(place, t, R, C, E) ==
    /\ place = "idle" => t = NoTx
    /\ place \in {"create", "link"} => CreateInv(place, t, R, C, E)
    /\ place \in {"upsert", "register", "commit"} => UpsertInv(place, t, R, C)

\* Two transactions under way write different rows.
Apart(p, t, q, u) ==
    /\ t.id # Absent => t.id # u.id
    /\ DOMAIN t.new \cap DOMAIN u.new = {}
    /\ p \in Wrote /\ q \in Wrote =>
        t.req.type # u.req.type \/ t.req.key # u.req.key

CollectionInv ==
    /\ RowTypes
    /\ Registered(reg, content)
    /\ \A c \in Callers : TxInv(pc[c], tx[c], reg, content, edges)
    /\ \A c, d \in Callers : c # d => Apart(pc[c], tx[c], pc[d], tx[d])
    /\ KeysOnce(content)
    /\ Fit(content, edges)
-----------------------------------------------------------------------------
\* Patching a document gives a document.
LEMMA PatchedDocument ==
    ASSUME NEW p \in Documents, NEW q \in Documents
    PROVE  Store!Patched(p, q) \in Documents
<1>1. PICK S \in SUBSET Props : p \in [S -> Values]
  BY DEF Documents
<1>2. PICK T \in SUBSET Props : q \in [T -> Values]
  BY DEF Documents
<1>3. Store!Patched(p, q) \in [S \cup T -> Values]
  BY <1>1, <1>2 DEF Store!Patched
<1> QED
  BY <1>3 DEF Documents

\* A row with other properties, or deleted, is a row of the type and key it had.
LEMMA RewrittenRow ==
    ASSUME NEW row \in RowType, NEW q \in Documents
    PROVE  LET patched == [row EXCEPT !.props = Store!Patched(@, q)]
               deleted == [row EXCEPT !.deleted = TRUE]
           IN  /\ patched \in RowType /\ patched.type = row.type
               /\ patched.key = row.key /\ patched.deleted = row.deleted
               /\ deleted \in RowType /\ deleted.type = row.type
               /\ deleted.key = row.key /\ deleted.deleted
<1>1. row.props \in Documents
  BY DEF RowType
<1>2. Store!Patched(row.props, q) \in Documents
  BY <1>1, PatchedDocument
<1> QED
  BY <1>2 DEF RowType

LEMMA NewRow ==
    ASSUME NEW ty \in Types, NEW props \in Documents, NEW key \in UniqueKeys \cup {Null}
    PROVE  LET row == Store!Entity(ty, props, key)
           IN  row \in RowType /\ row.type = ty /\ row.props = props
               /\ row.key = key /\ ~row.deleted
BY DEF RowType, Store!Entity

\* The key of a type that has one is a unique key.
LEMMA KeyIsUnique ==
    ASSUME NEW s \in Schemas, NEW ty \in Types, NEW props \in Documents,
           UniqueKey[s][ty] # <<>>
    PROVE  KeyOf(UniqueKey[s][ty], props) \in UniqueKeys
<1> DEFINE f == UniqueKey[s][ty]
<1>1. f \in Seq(Props) /\ f # <<>>
  BY PerCollectionAssumption
<1> HIDE DEF f
<1>2. 1 \in DOMAIN f
  BY <1>1
<1>3. 1 \in DOMAIN KeyOf(f, props)
  BY <1>2 DEF KeyOf
<1>4. KeyOf(f, props) # <<>>
  BY <1>3
<1> QED
  BY <1>4 DEF UniqueKeys, f

LEMMA DeclaredTypes ==
    \A i \in RelationshipEdges :
        /\ i \in DOMAIN Declared
        /\ Declared[i] \in [from : Types, name : Labels, to : Types, table : STRING]
        /\ TableFor[Declared[i].from] \in Tables /\ TableFor[Declared[i].to] \in Tables
<1> DEFINE D == [from : Types, name : Labels, to : Types, table : STRING]
<1>1. Declared \in Seq(D)
  BY PerCollectionAssumption
<1> HIDE DEF D
<1>2. \A i \in DOMAIN Declared : Declared[i] \in D
  BY <1>1
<1> QED
  BY <1>2, PerCollectionAssumption DEF RelationshipEdges, D

\* relTableFor finds a table of that name among those made.
LEMMA RelTable ==
    ASSUME NEW name, HasTable(name)
    PROVE  \E i \in RelationshipEdges :
               Declared[i].name = name /\ RelTableFor(name) = Declared[i]
<1> DEFINE N == {i \in RelationshipEdges : Declared[i].name = name}
           Last(i) == i \in N /\ \A j \in N : j <= i
<1>1. /\ Len(Declared) \in Nat /\ DOMAIN Declared = 1 .. Len(Declared)
      /\ N # {} /\ N \subseteq 1 .. Len(Declared)
  BY PerCollectionAssumption DEF HasTable, RelationshipEdges
<1> DEFINE M == {Len(Declared) - i : i \in N}
<1>2. M # {} /\ M \subseteq Nat
  BY <1>1
<1>3. PICK m \in M : \A k \in M : ~(<<k, m>> \in OpToRel(<, Nat))
  BY <1>2, WFMin, NatLessThanWellFounded
<1> HIDE DEF M
<1>4. ASSUME NEW k \in M, k < m PROVE FALSE
  <2>1. <<k, m>> \in Nat \X Nat /\ <<k, m>>[1] < <<k, m>>[2]
    BY <1>2, <1>4
  <2>2. <<k, m>> \in OpToRel(<, Nat)
    BY <2>1 DEF OpToRel
  <2> QED
    BY <1>3, <2>2
<1>5. \E i \in N : Last(i)
  <2>1. PICK i \in N : m = Len(Declared) - i
    BY DEF M
  <2>2. \A j \in N : Len(Declared) - j \in M
    BY DEF M
  <2>3. ASSUME NEW j \in N PROVE j <= i
    <3>1. i \in Nat /\ j \in Nat /\ Len(Declared) \in Nat
      BY <1>1
    <3>2. ~(Len(Declared) - j < Len(Declared) - i)
      BY <1>4, <2>1, <2>2
    <3> QED
      BY <3>1, <3>2
  <2> QED
    BY <2>3
<1> QED
  BY <1>5 DEF RelTableFor
-----------------------------------------------------------------------------
\* A transaction keeps its invariant while the others write other rows.
LEMMA TxKept ==
    ASSUME NEW place \in Places, NEW t \in TxType,
           NEW R, NEW C, NEW E, NEW R2, NEW C2, NEW E2,
           TxInv(place, t, R, C, E),
           t.id \in Ids => R2[t.id] = R[t.id],
           \A tb \in Tables, i \in Ids : C[tb][i] # Absent => C2[tb][i] # Absent,
           \A tb \in Tables, i \in Ids : place \in Wrote =>
               /\ i = t.id => C2[tb][i] = C[tb][i]
               /\ Store!HasKey(C2[tb][i], t.req.type, t.req.key) =>
                      Store!HasKey(C[tb][i], t.req.type, t.req.key),
           \A e \in DOMAIN t.new : E[e] = Absent => E2[e] = Absent
    PROVE  TxInv(place, t, R2, C2, E2)
<1>1. CASE place = "idle"
  BY <1>1 DEF TxInv
<1>2. CASE place \in {"create", "link"}
  <2>1. CreateInv(place, t, R, C, E)
    BY <1>2 DEF TxInv
  <2>2. ASSUME NEW e \in DOMAIN t.new, Finds(t, t.new[e], C)
        PROVE  Finds(t, t.new[e], C2)
    <3>1. t.new[e].to \in Ids
      BY DEF TxType, NewRows, EdgeRow
    <3>2. \A i \in RelationshipEdges : TableFor[Declared[i].to] \in Tables
      BY DeclaredTypes, PerCollectionAssumption
    <3> QED
      BY <2>2, <3>1, <3>2 DEF Finds
  <2>3. CreateInv(place, t, R2, C2, E2)
    BY <2>1, <2>2 DEF CreateInv
  <2> QED
    BY <1>2, <2>3 DEF TxInv
<1>3. CASE place \in {"upsert", "register", "commit"}
  <2>1. UpsertInv(place, t, R, C)
    BY <1>3 DEF TxInv
  <2>2. ASSUME place \in Wrote, Inserts(t, R, C)
        PROVE  Inserts(t, R2, C2)
    BY <2>1, <2>2 DEF UpsertInv, Inserts
  <2>3. ASSUME place \in Wrote, Merges(t, R, C)
        PROVE  Merges(t, R2, C2)
    <3>1. t.id \in Ids /\ TableFor[t.req.type] \in Tables
      BY <2>1, <2>3, PerCollectionAssumption DEF UpsertInv, RowType
    <3> QED
      BY <2>3, <3>1 DEF Merges
  <2>4. UpsertInv(place, t, R2, C2)
    BY <2>1, <2>2, <2>3 DEF UpsertInv, Wrote
  <2> QED
    BY <1>3, <2>4 DEF TxInv
<1> QED
  BY <1>1, <1>2, <1>3 DEF Places

LEMMA ApartIsMutual ==
    ASSUME NEW p, NEW t, NEW q, NEW u, Apart(p, t, q, u)
    PROVE  Apart(q, u, p, t)
BY DEF Apart
-----------------------------------------------------------------------------
\* One row of one collection written.
LEMMA RowPut ==
    ASSUME NEW C \in Collections, NEW tb \in Tables, NEW id \in Ids, NEW row \in RowType
    PROVE  LET C2 == [C EXCEPT ![tb][id] = row]
           IN  /\ C2 \in Collections
               /\ C2[tb][id] = row
               /\ \A b \in Tables, i \in Ids : b # tb \/ i # id => C2[b][i] = C[b][i]
BY DEF Collections

\* A new row, registered with its type, of a key no live row has.
LEMMA RowAdded ==
    ASSUME NEW R \in Registries, NEW C \in Collections,
           NEW id \in Ids, NEW row \in RowType,
           Registered(R, C), KeysOnce(C), R[id] = Absent,
           row.key = Null \/ \A tb \in Tables, i \in Ids :
               ~Store!HasKey(C[tb][i], row.type, row.key)
    PROVE  LET R2 == [R EXCEPT ![id] = row.type]
               C2 == [C EXCEPT ![TableFor[row.type]][id] = row]
           IN  /\ R2 \in Registries /\ C2 \in Collections
               /\ Registered(R2, C2) /\ KeysOnce(C2)
               /\ \A i \in Ids \ {id} : R2[i] = R[i]
               /\ C2[TableFor[row.type]][id] = row
               /\ \A tb \in Tables, i \in Ids :
                    tb # TableFor[row.type] \/ i # id => C2[tb][i] = C[tb][i]
               /\ \A tb \in Tables, i \in Ids : C[tb][i] # Absent => C2[tb][i] # Absent
<1> DEFINE tt == TableFor[row.type]
           R2 == [R EXCEPT ![id] = row.type]
           C2 == [C EXCEPT ![tt][id] = row]
<1>1. row.type \in Types /\ tt \in Tables /\ row # Absent /\ row.type # Absent
  BY PerCollectionAssumption DEF RowType
<1>2. /\ C2 \in Collections /\ C2[tt][id] = row
      /\ \A tb \in Tables, i \in Ids : tb # tt \/ i # id => C2[tb][i] = C[tb][i]
  BY <1>1, RowPut
<1>3. R2 \in Registries /\ R2[id] = row.type /\ \A i \in Ids \ {id} : R2[i] = R[i]
  BY <1>1 DEF Registries
<1>4. \A tb \in Tables : C[tb][id] = Absent
  BY PerCollectionAssumption DEF Registered, Collections, RowType
<1> HIDE DEF R2, C2, tt
<1>5. Registered(R2, C2)
  <2>1. \A i \in Ids : R[i] # Absent => TableFor[R[i]] \in Tables
    BY PerCollectionAssumption DEF Registries
  <2>2. ASSUME NEW tb \in Tables, NEW i \in Ids, C2[tb][i] # Absent
        PROVE  R2[i] = C2[tb][i].type /\ tb = TableFor[R2[i]]
    BY <1>1, <1>2, <1>3, <1>4, <2>2 DEF Registered, tt
  <2>3. ASSUME NEW i \in Ids, R2[i] # Absent
        PROVE  C2[TableFor[R2[i]]][i] # Absent
    BY <1>1, <1>2, <1>3, <2>1, <2>3 DEF Registered, tt
  <2> QED
    BY <2>2, <2>3 DEF Registered
<1>6. KeysOnce(C2)
  BY <1>1, <1>2, <1>4 DEF KeysOnce, Store!HasKey, Store!IsLive
<1> QED
  BY <1>1, <1>2, <1>3, <1>5, <1>6 DEF R2, C2, tt

\* A row written over: of the same type and key, and not undeleted.
LEMMA RowRewritten ==
    ASSUME NEW R \in Registries, NEW C \in Collections,
           NEW id \in Ids, NEW row \in RowType,
           Registered(R, C), KeysOnce(C), R[id] # Absent,
           row.type = C[TableFor[R[id]]][id].type, row.key = C[TableFor[R[id]]][id].key,
           C[TableFor[R[id]]][id].deleted => row.deleted,
           NEW C2, C2 = [C EXCEPT ![TableFor[R[id]]][id] = row]
    PROVE  /\ C2 \in Collections /\ Registered(R, C2) /\ KeysOnce(C2)
           /\ C2[TableFor[R[id]]][id] = row
           /\ \A tb \in Tables, i \in Ids : i # id => C2[tb][i] = C[tb][i]
           /\ \A tb \in Tables, i \in Ids : C[tb][i] # Absent <=> C2[tb][i] # Absent
           /\ \A tb \in Tables, i \in Ids : Store!IsLive(C2[tb][i]) =>
                /\ Store!IsLive(C[tb][i])
                /\ C2[tb][i].type = C[tb][i].type /\ C2[tb][i].key = C[tb][i].key
<1> DEFINE tt == TableFor[R[id]]
<1>1. tt \in Tables /\ row # Absent
  BY PerCollectionAssumption DEF Registries
<1>2. /\ C2 \in Collections /\ C2[tt][id] = row
      /\ \A tb \in Tables, i \in Ids : tb # tt \/ i # id => C2[tb][i] = C[tb][i]
  BY <1>1 DEF Collections
<1>3. C[tt][id] # Absent
  BY DEF Registered
<1> HIDE DEF tt
<1>4. Registered(R, C2)
  <2>1. \A i \in Ids : R[i] # Absent => TableFor[R[i]] \in Tables
    BY PerCollectionAssumption DEF Registries
  <2>2. ASSUME NEW tb \in Tables, NEW i \in Ids, C2[tb][i] # Absent
        PROVE  R[i] = C2[tb][i].type /\ tb = TableFor[R[i]]
    BY <1>1, <1>2, <1>3, <2>2 DEF Registered, tt
  <2>3. ASSUME NEW i \in Ids, R[i] # Absent
        PROVE  C2[TableFor[R[i]]][i] # Absent
    BY <1>1, <1>2, <2>1, <2>3 DEF Registered, tt
  <2> QED
    BY <2>2, <2>3 DEF Registered
<1>5. \A tb \in Tables, i \in Ids :
          /\ C[tb][i] # Absent <=> C2[tb][i] # Absent
          /\ C2[tb][i].type = C[tb][i].type /\ C2[tb][i].key = C[tb][i].key
          /\ Store!IsLive(C2[tb][i]) => Store!IsLive(C[tb][i])
  BY <1>1, <1>2, <1>3 DEF Store!IsLive, tt
<1>6. KeysOnce(C2)
  <2>1. ASSUME NEW tb1 \in Tables, NEW tb2 \in Tables, NEW i \in Ids, NEW j \in Ids,
               Store!IsLive(C2[tb1][i]), Store!IsLive(C2[tb2][j]),
               C2[tb1][i].type = C2[tb2][j].type, C2[tb1][i].key = C2[tb2][j].key,
               C2[tb1][i].key # Null
        PROVE  i = j
    <3>1. /\ Store!IsLive(C[tb1][i]) /\ Store!IsLive(C[tb2][j])
          /\ C[tb1][i].type = C[tb2][j].type /\ C[tb1][i].key = C[tb2][j].key
          /\ C[tb1][i].key # Null
      BY <1>5, <2>1
    <3> QED
      BY <3>1 DEF KeysOnce
  <2> QED
    BY <2>1 DEF KeysOnce
<1> QED
  BY <1>2, <1>4, <1>5, <1>6 DEF tt

\* Relationships find their endpoints while rows only come.
LEMMA FitKept ==
    ASSUME NEW C, NEW C2, NEW E \in EdgeTables, Fit(C, E),
           \A tb \in Tables, i \in Ids : C[tb][i] # Absent => C2[tb][i] # Absent
    PROVE  Fit(C2, E)
<1>1. \A e \in EdgeIds : E[e] # Absent => E[e].from \in Ids /\ E[e].to \in Ids
  BY DEF EdgeTables, EdgeRow
<1> QED
  BY <1>1, DeclaredTypes DEF Fit
-----------------------------------------------------------------------------
\* A step of caller c, to place p with transaction t.
LEMMA CallerStep ==
    ASSUME CollectionInv, NEW c \in Callers, NEW p \in Places, NEW t \in TxType,
           pc' = [pc EXCEPT ![c] = p], tx' = [tx EXCEPT ![c] = t], UNCHANGED active,
           reg' \in Registries, content' \in Collections, edges' \in EdgeTables,
           Registered(reg', content'), KeysOnce(content'), Fit(content', edges'),
           TxInv(p, t, reg', content', edges'),
           \A d \in Callers \ {c} :
               /\ TxInv(pc[d], tx[d], reg', content', edges')
               /\ Apart(p, t, pc[d], tx[d])
    PROVE  CollectionInv'
<1>1. RowTypes'
  BY DEF CollectionInv, RowTypes
<1>2. /\ pc'[c] = p /\ tx'[c] = t
      /\ \A d \in Callers \ {c} : pc'[d] = pc[d] /\ tx'[d] = tx[d]
  BY DEF CollectionInv, RowTypes
<1>3. \A d \in Callers : TxInv(pc'[d], tx'[d], reg', content', edges')
  BY <1>2
<1>4. ASSUME NEW d \in Callers, NEW f \in Callers, d # f
      PROVE  Apart(pc'[d], tx'[d], pc'[f], tx'[f])
  <2>1. CASE d = c
    BY <1>2, <1>4, <2>1
  <2>2. CASE f = c
    BY <1>2, <1>4, <2>2, ApartIsMutual
  <2>3. CASE d # c /\ f # c
    BY <1>2, <1>4, <2>3 DEF CollectionInv
  <2> QED
    BY <2>1, <2>2, <2>3
<1> QED
  BY <1>1, <1>3, <1>4 DEF CollectionInv

\* One that leaves the tables alone.
LEMMA LocalStep ==
    ASSUME CollectionInv, NEW c \in Callers, NEW p \in Places, NEW t \in TxType,
           pc' = [pc EXCEPT ![c] = p], tx' = [tx EXCEPT ![c] = t],
           UNCHANGED <<reg, content, edges, active>>,
           TxInv(p, t, reg, content, edges),
           \A d \in Callers \ {c} : Apart(p, t, pc[d], tx[d])
    PROVE  CollectionInv'
<1>1. /\ RowTypes /\ Registered(reg, content) /\ KeysOnce(content) /\ Fit(content, edges)
      /\ \A d \in Callers : TxInv(pc[d], tx[d], reg, content, edges)
  BY DEF CollectionInv
<1>2. reg' = reg /\ content' = content /\ edges' = edges /\ active' = active
  OBVIOUS
<1>3. reg \in Registries /\ content \in Collections /\ edges \in EdgeTables
  BY <1>1 DEF RowTypes
<1>4. /\ reg' \in Registries /\ content' \in Collections /\ edges' \in EdgeTables
      /\ Registered(reg', content') /\ KeysOnce(content') /\ Fit(content', edges')
      /\ TxInv(p, t, reg', content', edges')
  BY <1>1, <1>2, <1>3
<1>5. \A d \in Callers \ {c} :
          /\ TxInv(pc[d], tx[d], reg', content', edges')
          /\ Apart(p, t, pc[d], tx[d])
  BY <1>1, <1>2
<1> QED
  BY <1>2, <1>4, <1>5, CallerStep

\* An ended transaction is nobody's concern.
LEMMA Ended ==
    /\ NoTx \in TxType
    /\ "idle" \in Places
    /\ \A R, C, E : TxInv("idle", NoTx, R, C, E)
    /\ \A q, u : Apart("idle", NoTx, q, u)
<1>1. <<>> \in NewRows
  <2>1. <<>> \in [{} -> EdgeRow]
    OBVIOUS
  <2> QED
    BY <2>1 DEF NewRows
<1> QED
  BY <1>1 DEF NoTx, TxType, Places, TxInv, Apart, Wrote
-----------------------------------------------------------------------------
\* Statements inside a transaction.
LEMMA RollbackKept ==
    ASSUME CollectionInv, NEW c \in Callers, Rollback(c)
    PROVE  CollectionInv'
BY Ended, LocalStep DEF Rollback, End, Goto

LEMMA CreateRegisterKept ==
    ASSUME CollectionInv, NEW c \in Callers, NEW id \in Ids, NEW ty \in Types,
           NEW props \in Documents, NEW links \in Links,
           CreateRegister(c, id, ty, props, links)
    PROVE  CollectionInv'
<1> DEFINE row == Store!Entity(ty, props, Null)
           t == [NoTx EXCEPT !.req = row, !.left = links, !.id = id, !.type = ty]
<1>1. /\ row \in RowType /\ row.type = ty /\ row.key = Null /\ ~row.deleted
  BY NewRow
<1>2. links \in Seq([name : Labels, to : Ids])
  <2> DEFINE D == [name : Labels, to : Ids]
  <2>1. links = <<>> \/ \E rel \in D : links = <<rel>>
    BY DEF Links
  <2> HIDE DEF D
  <2>2. <<>> \in Seq(D) /\ \A rel \in D : <<rel>> \in Seq(D)
    OBVIOUS
  <2>3. links \in Seq(D)
    BY <2>1, <2>2
  <2> QED
    BY <2>3 DEF D
<1> HIDE DEF row
<1>3. t \in TxType
  BY <1>1, <1>2, Ended DEF TxType, NoTx
<1>4. TxInv("create", t, reg, content, edges)
  BY <1>1 DEF TxInv, CreateInv, NoTx, CreateRegister, FreshId
<1>5. \A d \in Callers : Apart("create", t, pc[d], tx[d])
  BY DEF Apart, NoTx, CreateRegister, FreshId, Wrote
<1>6. "create" \in Places
  BY DEF Places
<1>7. /\ pc' = [pc EXCEPT ![c] = "create"] /\ tx' = [tx EXCEPT ![c] = t]
      /\ UNCHANGED <<reg, content, edges, active>>
  BY DEF CreateRegister, Goto, row
<1> HIDE DEF t
<1> QED
  BY <1>3, <1>4, <1>5, <1>6, <1>7, LocalStep

LEMMA CreateInsertKept ==
    ASSUME CollectionInv, NEW c \in Callers, CreateInsert(c)
    PROVE  CollectionInv'
<1> DEFINE t == [tx[c] EXCEPT !.row = tx[c].req]
<1>1. tx[c] \in TxType /\ pc[c] = "create" /\ tx \in [Callers -> TxType]
  BY DEF CollectionInv, RowTypes, CreateInsert
<1>2. CreateInv(pc[c], tx[c], reg, content, edges)
  BY <1>1 DEF CollectionInv, TxInv
<1>3. /\ t \in TxType /\ t.id = tx[c].id /\ t.req = tx[c].req /\ t.row = tx[c].req
      /\ t.type = tx[c].type /\ t.new = tx[c].new
  BY <1>1 DEF TxType
<1>4. /\ pc' = [pc EXCEPT ![c] = "link"] /\ tx' = [tx EXCEPT ![c] = t]
      /\ UNCHANGED <<reg, content, edges, active>>
  BY <1>1 DEF CreateInsert, Goto
<1> HIDE DEF t
<1>5. TxInv("link", t, reg, content, edges)
  <2>1. ASSUME NEW e \in DOMAIN t.new
        PROVE  /\ edges[e] = Absent /\ t.new[e].from = t.id
               /\ Finds(t, t.new[e], content)
    BY <1>2, <1>3 DEF CreateInv, Finds
  <2> QED
    BY <1>2, <1>3, <2>1 DEF TxInv, CreateInv
<1>6. \A d \in Callers \ {c} : Apart("link", t, pc[d], tx[d])
  BY <1>3 DEF CollectionInv, Apart, Wrote
<1>7. "link" \in Places
  BY DEF Places
<1> QED
  BY <1>3, <1>4, <1>5, <1>6, <1>7, LocalStep

\* A relationship to a collection that has the row.
LEMMA LinkableEdge ==
    ASSUME NEW name \in Labels, NEW row, NEW from \in Ids, NEW to \in Ids,
           Linkable(name, row, to)
    PROVE  /\ Edge(name, from, to) \in EdgeRow
           /\ Edge(name, from, to).name = name
           /\ Edge(name, from, to).from = from /\ Edge(name, from, to).to = to
           /\ row # Absent
           /\ \E i \in RelationshipEdges :
                /\ Declared[i].table = Edge(name, from, to).table
                /\ RelTableFor(name) = Declared[i]
                /\ TableFor[Declared[i].from] = TableFor[row.type]
                /\ content[TableFor[Declared[i].to]][to] # Absent
<1>1. PICK i \in RelationshipEdges : RelTableFor(name) = Declared[i]
  BY RelTable DEF Linkable
<1>2. i \in DOMAIN Declared
  BY DeclaredTypes
<1> QED
  BY <1>1, <1>2 DEF Linkable, Edge, EdgeRow

LEMMA CreateLinkKept ==
    ASSUME CollectionInv, NEW c \in Callers, NEW e \in EdgeIds, CreateLink(c, e)
    PROVE  CollectionInv'
<1> DEFINE rel == Head(tx[c].left)
           row == Edge(rel.name, tx[c].id, rel.to)
           new == [f \in DOMAIN tx[c].new \cup {e} |->
                       IF f = e THEN row ELSE tx[c].new[f]]
           t == [tx[c] EXCEPT !.left = Tail(tx[c].left), !.new = new]
<1>1. /\ tx[c] \in TxType /\ pc[c] = "link" /\ tx \in [Callers -> TxType]
      /\ pc \in [Callers -> Places]
  BY DEF CollectionInv, RowTypes, CreateLink
<1>2. CreateInv("link", tx[c], reg, content, edges)
  BY <1>1 DEF CollectionInv, TxInv
<1>3. /\ tx[c].left \in Seq([name : Labels, to : Ids]) /\ tx[c].left # <<>>
      /\ tx[c].new \in NewRows
  BY <1>1 DEF TxType, CreateLink
<1>4. rel \in [name : Labels, to : Ids] /\ Tail(tx[c].left) \in Seq([name : Labels, to : Ids])
  <2> DEFINE D == [name : Labels, to : Ids]
  <2>1. tx[c].left \in Seq(D) /\ tx[c].left # <<>>
    BY <1>3
  <2> HIDE DEF D
  <2>2. rel \in D /\ Tail(tx[c].left) \in Seq(D)
    BY <2>1
  <2> QED
    BY <2>2 DEF D
<1>5. Linkable(rel.name, tx[c].row, rel.to)
  BY DEF CreateLink
<1>6. tx[c].id \in Ids /\ tx[c].row = tx[c].req
  BY <1>2 DEF CreateInv
<1>7. /\ row \in EdgeRow /\ row.from = tx[c].id /\ row.to = rel.to
      /\ \E i \in RelationshipEdges :
            /\ Declared[i].table = row.table
            /\ TableFor[Declared[i].from] = TableFor[tx[c].req.type]
            /\ content[TableFor[Declared[i].to]][row.to] # Absent
  <2>1. rel.name \in Labels /\ rel.to \in Ids
    BY <1>4
  <2> HIDE DEF rel
  <2>2. /\ row \in EdgeRow
        /\ row.from = tx[c].id
        /\ row.to = rel.to
    <3> HIDE DEF t, new
    <3>1. row \in EdgeRow
      BY <1>5, <1>6, <2>1, LinkableEdge
    <3>2. row.from = tx[c].id /\ row.to = rel.to
      BY DEF Edge
    <3> QED
      BY <3>1, <3>2
  <2>3. PICK i \in RelationshipEdges :
            /\ Declared[i].table = row.table
            /\ TableFor[Declared[i].from] = TableFor[tx[c].row.type]
            /\ content[TableFor[Declared[i].to]][rel.to] # Absent
    BY <1>5, <1>6, <2>1, LinkableEdge
  <2> HIDE DEF row
  <2> QED
    BY <1>6, <2>2, <2>3
<1>8. edges[e] = Absent /\ \A d \in Callers : e \notin DOMAIN tx[d].new
  BY DEF CreateLink, FreshEdge
<1>9. /\ pc' = [pc EXCEPT ![c] = "link"] /\ tx' = [tx EXCEPT ![c] = t]
      /\ UNCHANGED <<reg, content, edges, active>>
  BY <1>1 DEF CreateLink
<1> HIDE DEF row, rel
<1>10. new \in NewRows
  <2>1. PICK S \in SUBSET EdgeIds : tx[c].new \in [S -> EdgeRow]
    BY <1>3 DEF NewRows
  <2>2. new \in [S \cup {e} -> EdgeRow]
    BY <2>1, <1>7
  <2> QED
    BY <2>2 DEF NewRows
<1>11. /\ DOMAIN new = DOMAIN tx[c].new \cup {e} /\ new[e] = row
       /\ \A f \in DOMAIN tx[c].new : f # e => new[f] = tx[c].new[f]
  OBVIOUS
<1> HIDE DEF new
<1>12. /\ t \in TxType /\ t.id = tx[c].id /\ t.req = tx[c].req /\ t.row = tx[c].row
       /\ t.type = tx[c].type /\ t.new = new
  BY <1>1, <1>4, <1>10 DEF TxType
<1> HIDE DEF t
<1>13. \A f \in DOMAIN new :
          edges[f] = Absent /\ new[f].from = tx[c].id /\ Finds(t, new[f], content)
  <2>1. ASSUME NEW f \in DOMAIN tx[c].new
        PROVE  /\ edges[f] = Absent /\ tx[c].new[f].from = tx[c].id
               /\ Finds(t, tx[c].new[f], content)
    BY <1>2, <1>12 DEF CreateInv, Finds
  <2>2. edges[e] = Absent /\ row.from = tx[c].id /\ Finds(t, row, content)
    BY <1>2, <1>7, <1>8, <1>12 DEF CreateInv, Finds
  <2> QED
    BY <1>11, <2>1, <2>2
<1>14. TxInv("link", t, reg, content, edges)
  BY <1>2, <1>12, <1>13 DEF TxInv, CreateInv
<1>15. ASSUME NEW d \in Callers \ {c} PROVE Apart("link", t, pc[d], tx[d])
  <2>1. Apart(pc[c], tx[c], pc[d], tx[d])
    BY DEF CollectionInv
  <2> QED
    BY <1>1, <1>8, <1>11, <1>12, <2>1 DEF Apart, Wrote
<1>16. "link" \in Places
  BY DEF Places
<1> QED
  BY <1>9, <1>12, <1>14, <1>15, <1>16, LocalStep
-----------------------------------------------------------------------------
LEMMA UpsertReadActiveKept ==
    ASSUME CollectionInv, NEW c \in Callers, NEW ty \in Types, NEW props \in Documents,
           UpsertReadActive(c, ty, props)
    PROVE  CollectionInv'
<1> DEFINE key == KeyOf(UniqueKey[active][ty], props)
           row == Store!Entity(ty, props, key)
           t == [NoTx EXCEPT !.req = row, !.fields = UniqueKey[active][ty]]
<1>1. active \in Schemas /\ UniqueKey[active][ty] # <<>>
  BY DEF CollectionInv, RowTypes, UpsertReadActive
<1>2. key \in UniqueKeys /\ UniqueKey[active][ty] \in Seq(Props) /\ key # Null
  BY <1>1, KeyIsUnique, PerCollectionAssumption
<1> HIDE DEF key
<1>3. row \in RowType /\ row.key = key /\ ~row.deleted
  BY <1>2, NewRow
<1>4. /\ pc' = [pc EXCEPT ![c] = "upsert"] /\ tx' = [tx EXCEPT ![c] = t]
      /\ UNCHANGED <<reg, content, edges, active>>
  BY DEF UpsertReadActive, Goto, key
<1> HIDE DEF row
<1>5. /\ t \in TxType /\ t.id = Absent /\ t.req = row /\ t.type = Absent
      /\ DOMAIN t.new = {}
  <2>1. t.id = Absent /\ t.req = row /\ t.type = Absent /\ t.new = <<>>
    BY DEF NoTx
  <2>2. t \in TxType
    BY <1>2, <1>3, Ended DEF TxType
  <2> QED
    BY <2>1, <2>2
<1> HIDE DEF t
<1>6. TxInv("upsert", t, reg, content, edges)
  BY <1>2, <1>3, <1>5 DEF TxInv, UpsertInv, Wrote
<1>7. \A d \in Callers : Apart("upsert", t, pc[d], tx[d])
  BY <1>5 DEF Apart, Wrote
<1>8. "upsert" \in Places
  BY DEF Places
<1> QED
  BY <1>4, <1>5, <1>6, <1>7, <1>8, LocalStep

\* What holds of a transaction that waits for the unique index, and of one that
\* holds an entry of it.
LEMMA Upserting ==
    ASSUME CollectionInv, NEW c \in Callers, pc[c] = "upsert"
    PROVE  /\ tx[c] \in TxType /\ tx \in [Callers -> TxType]
           /\ tx[c].req \in RowType /\ tx[c].req.key # Null /\ ~tx[c].req.deleted
           /\ tx[c].req.type \in Types /\ tx[c].req.props \in Documents
           /\ TableFor[tx[c].req.type] \in Tables
           /\ DOMAIN tx[c].new = {} /\ tx[c].type = Absent /\ tx[c].id = Absent
<1>1. UpsertInv(pc[c], tx[c], reg, content)
  BY DEF CollectionInv, TxInv
<1> QED
  BY <1>1, PerCollectionAssumption DEF CollectionInv, RowTypes, UpsertInv, RowType

LEMMA HasWritten ==
    ASSUME CollectionInv, NEW c \in Callers, pc[c] \in Wrote
    PROVE  /\ tx[c] \in TxType /\ tx \in [Callers -> TxType]
           /\ tx[c].req \in RowType /\ tx[c].req.key # Null /\ ~tx[c].req.deleted
           /\ tx[c].req.type \in Types /\ tx[c].req.props \in Documents
           /\ tx[c].req.key \in UniqueKeys
           /\ TableFor[tx[c].req.type] \in Tables
           /\ DOMAIN tx[c].new = {} /\ tx[c].id \in Ids
           /\ tx[c].row \in RowType /\ tx[c].row.type = tx[c].req.type
           /\ tx[c].row.key = tx[c].req.key
           /\ Inserts(tx[c], reg, content) \/ Merges(tx[c], reg, content)
           /\ pc[c] = "register" => tx[c].type = Absent
           /\ pc[c] = "commit" =>
                tx[c].type = IF reg[tx[c].id] = Absent THEN tx[c].req.type ELSE Absent
<1>1. UpsertInv(pc[c], tx[c], reg, content)
  BY DEF CollectionInv, TxInv, Wrote
<1>2. /\ tx[c] \in TxType /\ tx \in [Callers -> TxType]
      /\ tx[c].req \in RowType /\ tx[c].req.key # Null /\ ~tx[c].req.deleted
  BY <1>1 DEF CollectionInv, RowTypes, UpsertInv
<1>3. /\ tx[c].req.type \in Types /\ tx[c].req.props \in Documents
      /\ tx[c].req.key \in UniqueKeys
      /\ TableFor[tx[c].req.type] \in Tables
  BY <1>2, PerCollectionAssumption DEF RowType
<1> QED
  BY <1>1, <1>2, <1>3 DEF UpsertInv, Wrote

\* The row an upsert writes is kept for it: no other transaction has its key,
\* and the id it writes is its own.
LEMMA UpsertRowKept ==
    ASSUME CollectionInv, NEW c \in Callers, pc[c] = "upsert",
           NEW id \in Ids, NEW row \in RowType, UpsertRow(c, id, row),
           row.type = tx[c].req.type, row.key = tx[c].req.key,
           \A d \in Callers \ {c} : tx[d].id # id,
           \A t \in TxType : t.id = id /\ t.req = tx[c].req /\ t.row = row =>
               Inserts(t, reg, content) \/ Merges(t, reg, content)
    PROVE  CollectionInv'
<1> DEFINE t == [tx[c] EXCEPT !.id = id, !.row = row, !.matched = Matching(c)]
<1>1. /\ tx[c] \in TxType /\ tx \in [Callers -> TxType]
      /\ tx[c].req \in RowType /\ tx[c].req.key # Null /\ ~tx[c].req.deleted
      /\ DOMAIN tx[c].new = {} /\ tx[c].type = Absent
  BY Upserting
<1>2. /\ pc' = [pc EXCEPT ![c] = "register"] /\ tx' = [tx EXCEPT ![c] = t]
      /\ UNCHANGED <<reg, content, edges, active>>
  BY <1>1 DEF UpsertRow, Goto
<1>3. Matching(c) \in SUBSET Ids
  BY DEF Matching
<1>4. /\ t \in TxType /\ t.id = id /\ t.req = tx[c].req /\ t.row = row
      /\ t.type = Absent /\ t.new = tx[c].new
  BY <1>1, <1>3 DEF TxType
<1> HIDE DEF t
<1>5. TxInv("register", t, reg, content, edges)
  <2>1. Inserts(t, reg, content) \/ Merges(t, reg, content)
    BY <1>4
  <2> QED
    BY <1>1, <1>4, <2>1 DEF TxInv, UpsertInv, Wrote
<1>6. ASSUME NEW d \in Callers \ {c}
      PROVE  Apart("register", t, pc[d], tx[d])
  <2>1. CASE pc[d] \in Wrote
    <3>1. tx[d].row.type = tx[d].req.type /\ tx[d].row.key = tx[d].req.key
      BY <2>1, HasWritten
    <3>2. tx[d].row.type # tx[c].req.type \/ tx[d].row.key # tx[c].req.key
      BY <2>1 DEF UpsertRow, KeyFree, Wrote
    <3> QED
      BY <1>1, <1>4, <3>1, <3>2 DEF Apart
  <2>2. CASE pc[d] \notin Wrote
    BY <1>1, <1>4, <2>2 DEF Apart
  <2> QED
    BY <2>1, <2>2
<1>7. "register" \in Places
  BY DEF Places
<1> QED
  BY <1>2, <1>4, <1>5, <1>6, <1>7, LocalStep

LEMMA UpsertInsertKept ==
    ASSUME CollectionInv, NEW c \in Callers, NEW id \in Ids, UpsertInsert(c, id)
    PROVE  CollectionInv'
<1>1. pc[c] = "upsert" /\ UpsertRow(c, id, tx[c].req) /\ Conflicting(c) = {} /\ FreshId(id)
  BY DEF UpsertInsert
<1>2. tx[c].req \in RowType /\ TableFor[tx[c].req.type] \in Tables
  BY <1>1, Upserting
<1>3. reg[id] = Absent /\ \A d \in Callers : tx[d].id # id
  BY <1>1 DEF FreshId
<1>4. ASSUME NEW tb \in Tables, NEW i \in Ids
      PROVE  ~Store!HasKey(content[tb][i], tx[c].req.type, tx[c].req.key)
  <2>1. ~Store!HasKey(Collection(c)[i], tx[c].req.type, tx[c].req.key)
    BY <1>1 DEF Conflicting
  <2>2. content[tb][i] # Absent /\ content[tb][i].type = tx[c].req.type =>
            tb = TableFor[tx[c].req.type]
    BY DEF CollectionInv, Registered
  <2> QED
    BY <2>1, <2>2 DEF Collection, Store!HasKey, Store!IsLive
<1>5. \A t \in TxType : t.id = id /\ t.req = tx[c].req /\ t.row = tx[c].req =>
          Inserts(t, reg, content)
  BY <1>3, <1>4 DEF Inserts
<1> QED
  BY <1>1, <1>2, <1>3, <1>5, UpsertRowKept

LEMMA UpsertMergeKept ==
    ASSUME CollectionInv, NEW c \in Callers, NEW id \in Ids, UpsertMerge(c, id)
    PROVE  CollectionInv'
<1> DEFINE old == content[TableFor[tx[c].req.type]][id]
           row == [old EXCEPT !.props = Store!Patched(@, tx[c].req.props)]
<1>1. pc[c] = "upsert" /\ UpsertRow(c, id, row) /\ id \in Conflicting(c)
  BY DEF UpsertMerge, Collection
<1>2. /\ tx[c].req \in RowType /\ TableFor[tx[c].req.type] \in Tables
      /\ tx[c].req.type \in Types /\ tx[c].req.props \in Documents
  BY <1>1, Upserting
<1>3. Store!HasKey(old, tx[c].req.type, tx[c].req.key)
  BY <1>1 DEF Conflicting, Collection
<1>4. /\ old \in RowType /\ old.type = tx[c].req.type /\ old.key = tx[c].req.key
      /\ reg[id] = tx[c].req.type /\ reg[id] # Absent
  <2>1. old # Absent /\ old.type = tx[c].req.type /\ old.key = tx[c].req.key
    BY <1>3 DEF Store!HasKey, Store!IsLive
  <2>2. old \in RowType
    BY <1>2, <2>1 DEF CollectionInv, RowTypes, Collections
  <2> QED
    BY <1>2, <2>1, <2>2, PerCollectionAssumption DEF CollectionInv, Registered
<1>5. row \in RowType /\ row.type = tx[c].req.type /\ row.key = tx[c].req.key
  <2> HIDE DEF old
  <2> QED
    BY <1>2, <1>4, RewrittenRow
<1>6. ASSUME NEW d \in Callers \ {c}, tx[d].id = id PROVE FALSE
  <2>1. CASE pc[d] \in {"create", "link"}
    <3>1. CreateInv(pc[d], tx[d], reg, content, edges)
      BY <2>1 DEF CollectionInv, TxInv
    <3> QED
      BY <1>4, <1>6, <3>1 DEF CreateInv
  <2>2. CASE pc[d] \in Wrote
    <3>1. /\ Inserts(tx[d], reg, content) \/ Merges(tx[d], reg, content)
          /\ tx[d].row.type = tx[d].req.type /\ tx[d].row.key = tx[d].req.key
      BY <2>2, HasWritten
    <3>2. Merges(tx[d], reg, content)
      BY <1>4, <1>6, <3>1 DEF Inserts
    <3>3. tx[d].req.type = tx[c].req.type /\ tx[d].req.key = tx[c].req.key
      BY <1>3, <1>4, <1>6, <3>2 DEF Merges, Store!HasKey
    <3> QED
      BY <1>1, <2>2, <3>1, <3>3 DEF UpsertRow, KeyFree, Wrote
  <2>3. CASE pc[d] \in {"idle", "upsert"}
    <3>1. pc[d] = "upsert" => tx[d].id = Absent
      BY Upserting
    <3>2. pc[d] = "idle" => tx[d].id = Absent
      BY DEF CollectionInv, TxInv, NoTx
    <3> QED
      BY <1>6, <2>3, <3>1, <3>2, PerCollectionAssumption
  <2> QED
    BY <2>1, <2>2, <2>3 DEF CollectionInv, RowTypes, Places, Wrote
<1>7. \A t \in TxType : t.id = id /\ t.req = tx[c].req /\ t.row = row =>
          Merges(t, reg, content)
  BY <1>3, <1>4 DEF Merges
<1> HIDE DEF row
<1> QED
  BY <1>1, <1>5, <1>6, <1>7, UpsertRowKept

LEMMA UpsertRegisterKept ==
    ASSUME CollectionInv, NEW c \in Callers, UpsertRegister(c)
    PROVE  CollectionInv'
<1> DEFINE ty == IF reg[tx[c].id] = Absent THEN tx[c].req.type ELSE Absent
           t == [tx[c] EXCEPT !.type = ty]
<1>1. pc[c] = "register" /\ pc[c] \in Wrote
  BY DEF UpsertRegister, Wrote
<1>2. /\ tx[c] \in TxType /\ tx \in [Callers -> TxType]
      /\ tx[c].req \in RowType /\ tx[c].req.key # Null /\ ~tx[c].req.deleted
      /\ tx[c].req.type \in Types
      /\ DOMAIN tx[c].new = {} /\ tx[c].id \in Ids
      /\ tx[c].row \in RowType /\ tx[c].row.type = tx[c].req.type
      /\ tx[c].row.key = tx[c].req.key
      /\ Inserts(tx[c], reg, content) \/ Merges(tx[c], reg, content)
  BY <1>1, HasWritten
<1>3. /\ pc' = [pc EXCEPT ![c] = "commit"] /\ tx' = [tx EXCEPT ![c] = t]
      /\ UNCHANGED <<reg, content, edges, active>>
  BY <1>2 DEF UpsertRegister, Goto
<1>4. /\ t \in TxType /\ t.id = tx[c].id /\ t.req = tx[c].req /\ t.row = tx[c].row
      /\ t.type = ty /\ t.new = tx[c].new
  BY <1>2 DEF TxType
<1> HIDE DEF t
<1>5. TxInv("commit", t, reg, content, edges)
  <2>1. Inserts(t, reg, content) \/ Merges(t, reg, content)
    BY <1>2, <1>4 DEF Inserts, Merges
  <2> QED
    BY <1>2, <1>4, <2>1 DEF TxInv, UpsertInv, Wrote
<1>6. \A d \in Callers \ {c} : Apart("commit", t, pc[d], tx[d])
  BY <1>1, <1>4 DEF CollectionInv, Apart
<1>7. "commit" \in Places
  BY DEF Places
<1> QED
  BY <1>3, <1>4, <1>5, <1>6, <1>7, LocalStep
-----------------------------------------------------------------------------
\* The commits.
LEMMA Creating ==
    ASSUME CollectionInv, NEW c \in Callers, pc[c] = "link"
    PROVE  /\ tx[c] \in TxType /\ tx[c].id \in Ids /\ reg[tx[c].id] = Absent
           /\ tx[c].row \in RowType /\ tx[c].row = tx[c].req
           /\ tx[c].row.key = Null /\ ~tx[c].row.deleted
           /\ tx[c].type = tx[c].row.type /\ tx[c].row.type \in Types
           /\ tx[c].row.props \in Documents /\ tx[c].type # Absent
           /\ TableFor[tx[c].row.type] \in Tables
           /\ DOMAIN tx[c].new \subseteq EdgeIds
           /\ \A e \in DOMAIN tx[c].new :
                /\ tx[c].new[e] \in EdgeRow /\ edges[e] = Absent
                /\ tx[c].new[e].from = tx[c].id /\ Finds(tx[c], tx[c].new[e], content)
<1>1. CreateInv(pc[c], tx[c], reg, content, edges)
  BY DEF CollectionInv, TxInv
<1>2. /\ tx[c] \in TxType /\ tx[c].id \in Ids /\ reg[tx[c].id] = Absent
      /\ tx[c].row \in RowType /\ tx[c].row = tx[c].req
      /\ tx[c].row.key = Null /\ ~tx[c].row.deleted /\ tx[c].type = tx[c].row.type
  BY <1>1 DEF CreateInv, CollectionInv, RowTypes
<1>3. /\ tx[c].row.type \in Types /\ tx[c].row.props \in Documents
      /\ tx[c].row.type # Absent /\ TableFor[tx[c].row.type] \in Tables
  BY <1>2, PerCollectionAssumption DEF RowType
<1>4. /\ DOMAIN tx[c].new \subseteq EdgeIds
      /\ \A e \in DOMAIN tx[c].new : tx[c].new[e] \in EdgeRow
  BY <1>2 DEF TxType, NewRows
<1> QED
  BY <1>1, <1>2, <1>3, <1>4 DEF CreateInv

LEMMA CreateCommitKept ==
    ASSUME CollectionInv, NEW c \in Callers, CreateCommit(c)
    PROVE  CollectionInv'
<1> DEFINE t == tx[c]
<1>1. pc[c] = "link" /\ Commit(c)
  BY DEF CreateCommit
<1>2. /\ t \in TxType /\ t.id \in Ids /\ reg[t.id] = Absent
      /\ t.row \in RowType /\ t.row = t.req /\ t.row.key = Null
      /\ t.type = t.row.type /\ t.type # Absent
      /\ TableFor[t.row.type] \in Tables /\ DOMAIN t.new \subseteq EdgeIds
      /\ \A e \in DOMAIN t.new :
            /\ t.new[e] \in EdgeRow /\ edges[e] = Absent
            /\ t.new[e].from = t.id /\ Finds(t, t.new[e], content)
  BY <1>1, Creating
<1>3. /\ reg \in Registries /\ content \in Collections /\ edges \in EdgeTables
      /\ Registered(reg, content) /\ KeysOnce(content) /\ Fit(content, edges)
  BY DEF CollectionInv, RowTypes
<1>4. /\ reg' = [reg EXCEPT ![t.id] = t.row.type]
      /\ content' = [content EXCEPT ![TableFor[t.row.type]][t.id] = t.row]
      /\ edges' = [e \in EdgeIds |-> IF e \in DOMAIN t.new THEN t.new[e] ELSE edges[e]]
      /\ pc' = [pc EXCEPT ![c] = "idle"] /\ tx' = [tx EXCEPT ![c] = NoTx]
      /\ UNCHANGED active
  BY <1>1, <1>2 DEF Commit, End, Goto
<1>5. /\ reg' \in Registries /\ content' \in Collections
      /\ Registered(reg', content') /\ KeysOnce(content')
      /\ \A i \in Ids \ {t.id} : reg'[i] = reg[i]
      /\ content'[TableFor[t.row.type]][t.id] = t.row
      /\ \A tb \in Tables, i \in Ids :
            tb # TableFor[t.row.type] \/ i # t.id => content'[tb][i] = content[tb][i]
      /\ \A tb \in Tables, i \in Ids : content[tb][i] # Absent => content'[tb][i] # Absent
  <2> DEFINE R2 == [reg EXCEPT ![t.id] = t.row.type]
             C2 == [content EXCEPT ![TableFor[t.row.type]][t.id] = t.row]
  <2>1. t.id \in Ids /\ t.row \in RowType /\ reg[t.id] = Absent /\ t.row.key = Null
    BY <1>2
  <2> HIDE DEF t
  <2>2. /\ R2 \in Registries /\ C2 \in Collections /\ Registered(R2, C2) /\ KeysOnce(C2)
        /\ \A i \in Ids \ {t.id} : R2[i] = reg[i]
        /\ C2[TableFor[t.row.type]][t.id] = t.row
        /\ \A tb \in Tables, i \in Ids :
            tb # TableFor[t.row.type] \/ i # t.id => C2[tb][i] = content[tb][i]
        /\ \A tb \in Tables, i \in Ids : content[tb][i] # Absent => C2[tb][i] # Absent
    BY <1>3, <2>1, RowAdded, SMTT(20)
  <2>3. reg' = R2 /\ content' = C2
    BY <1>4
  <2> HIDE DEF R2, C2
  <2> QED
    BY <2>2, <2>3
<1>6. edges' \in EdgeTables
  BY <1>2, <1>3, <1>4 DEF EdgeTables
<1>7. Fit(content', edges')
  <2>1. Fit(content', edges)
    BY <1>3, <1>5, FitKept
  <2>2. ASSUME NEW e \in DOMAIN t.new
        PROVE  \E i \in RelationshipEdges :
                    /\ Declared[i].table = t.new[e].table
                    /\ content'[TableFor[Declared[i].from]][t.new[e].from] # Absent
                    /\ content'[TableFor[Declared[i].to]][t.new[e].to] # Absent
    <3>1. PICK i \in RelationshipEdges :
              /\ Declared[i].table = t.new[e].table
              /\ TableFor[Declared[i].from] = TableFor[t.row.type]
              /\ content[TableFor[Declared[i].to]][t.new[e].to] # Absent
      BY <1>2 DEF Finds
    <3>2. t.new[e].to \in Ids /\ t.new[e].from = t.id /\ t.row # Absent
      BY <1>2, PerCollectionAssumption DEF EdgeRow
    <3> QED
      BY <1>5, <3>1, <3>2, DeclaredTypes
  <2>3. ASSUME NEW e \in EdgeIds, edges'[e] # Absent
        PROVE  \E i \in RelationshipEdges :
                    /\ Declared[i].table = edges'[e].table
                    /\ content'[TableFor[Declared[i].from]][edges'[e].from] # Absent
                    /\ content'[TableFor[Declared[i].to]][edges'[e].to] # Absent
    <3>1. CASE e \in DOMAIN t.new
      <4>1. edges'[e] = t.new[e]
        BY <1>4, <3>1
      <4> QED
        BY <2>2, <3>1, <4>1
    <3>2. CASE e \notin DOMAIN t.new
      <4>1. edges'[e] = edges[e]
        BY <1>4, <3>2
      <4> QED
        BY <2>1, <2>3, <4>1 DEF Fit
    <3> QED
      BY <3>1, <3>2
  <2> QED
    BY <2>3 DEF Fit
<1>8. ASSUME NEW d \in Callers \ {c}
      PROVE  TxInv(pc[d], tx[d], reg', content', edges')
  <2>1. /\ TxInv(pc[d], tx[d], reg, content, edges) /\ tx[d] \in TxType
        /\ pc[d] \in Places /\ Apart(pc[c], t, pc[d], tx[d])
    BY DEF CollectionInv, RowTypes
  <2>2. tx[d].id # t.id /\ DOMAIN t.new \cap DOMAIN tx[d].new = {}
    BY <1>2, <2>1, PerCollectionAssumption DEF Apart
  <2>3. tx[d].id \in Ids => reg'[tx[d].id] = reg[tx[d].id]
    BY <1>5, <2>2
  <2>4. ASSUME NEW tb \in Tables, NEW i \in Ids, pc[d] \in Wrote
        PROVE  /\ i = tx[d].id => content'[tb][i] = content[tb][i]
               /\ Store!HasKey(content'[tb][i], tx[d].req.type, tx[d].req.key) =>
                      Store!HasKey(content[tb][i], tx[d].req.type, tx[d].req.key)
    <3>1. tx[d].req.key # Null
      BY <2>4, HasWritten
    <3> QED
      BY <1>2, <1>5, <2>2, <3>1 DEF Store!HasKey
  <2>5. \A e \in DOMAIN tx[d].new : edges[e] = Absent => edges'[e] = Absent
    <3>1. DOMAIN tx[d].new \subseteq EdgeIds
      BY <2>1 DEF TxType, NewRows
    <3> QED
      BY <1>4, <2>2, <3>1
  <2> HIDE DEF t
  <2> QED
    BY <1>5, <2>1, <2>3, <2>4, <2>5, TxKept
<1>9. \A d \in Callers \ {c} : Apart("idle", NoTx, pc[d], tx[d])
  BY Ended
<1> QED
  BY <1>4, <1>5, <1>6, <1>7, <1>8, <1>9, Ended, CallerStep

\* A row written over: the tables, and the transactions that have not written it.
LEMMA RewriteKept ==
    ASSUME CollectionInv, NEW id \in Ids, NEW row \in RowType, reg[id] # Absent,
           row.type = content[TableFor[reg[id]]][id].type,
           row.key = content[TableFor[reg[id]]][id].key,
           content[TableFor[reg[id]]][id].deleted => row.deleted,
           content' = [content EXCEPT ![TableFor[reg[id]]][id] = row],
           reg' = reg, edges' = edges
    PROVE  /\ reg' \in Registries /\ content' \in Collections /\ edges' \in EdgeTables
           /\ Registered(reg', content') /\ KeysOnce(content') /\ Fit(content', edges')
           /\ \A d \in Callers : (pc[d] \in Wrote => tx[d].id # id) =>
                TxInv(pc[d], tx[d], reg', content', edges')
<1> DEFINE C2 == [content EXCEPT ![TableFor[reg[id]]][id] = row]
<1>0. C2 = [content EXCEPT ![TableFor[reg[id]]][id] = row]
  OBVIOUS
<1> HIDE DEF C2
<1>1. /\ reg \in Registries /\ content \in Collections /\ edges \in EdgeTables
      /\ Registered(reg, content) /\ KeysOnce(content) /\ Fit(content, edges)
  BY DEF CollectionInv, RowTypes
<1>2. /\ C2 \in Collections /\ Registered(reg, C2) /\ KeysOnce(C2)
      /\ \A tb \in Tables, i \in Ids : i # id => C2[tb][i] = content[tb][i]
      /\ \A tb \in Tables, i \in Ids : content[tb][i] # Absent <=> C2[tb][i] # Absent
      /\ \A tb \in Tables, i \in Ids : Store!IsLive(C2[tb][i]) =>
            /\ Store!IsLive(content[tb][i])
            /\ C2[tb][i].type = content[tb][i].type /\ C2[tb][i].key = content[tb][i].key
  <2>1. C2 \in Collections /\ Registered(reg, C2) /\ KeysOnce(C2)
    BY <1>0, <1>1, RowRewritten, Zenon
  <2>2. /\ \A tb \in Tables, i \in Ids : i # id => C2[tb][i] = content[tb][i]
        /\ \A tb \in Tables, i \in Ids : content[tb][i] # Absent <=> C2[tb][i] # Absent
    BY <1>0, <1>1, RowRewritten, SMTT(20)
  <2>3. \A tb \in Tables, i \in Ids : Store!IsLive(C2[tb][i]) =>
            /\ Store!IsLive(content[tb][i])
            /\ C2[tb][i].type = content[tb][i].type /\ C2[tb][i].key = content[tb][i].key
    BY <1>0, <1>1, RowRewritten, SMTT(20)
  <2> QED
    BY <2>1, <2>2, <2>3
<1>3. content' = C2
  BY DEF C2
<1>4. Fit(C2, edges)
  BY <1>1, <1>2, FitKept
<1>5. ASSUME NEW d \in Callers, pc[d] \in Wrote => tx[d].id # id
      PROVE  TxInv(pc[d], tx[d], reg, C2, edges)
  <2>1. /\ TxInv(pc[d], tx[d], reg, content, edges)
        /\ tx[d] \in TxType /\ pc[d] \in Places
    BY DEF CollectionInv, RowTypes
  <2>2. \A tb \in Tables, i \in Ids : pc[d] \in Wrote =>
            /\ i = tx[d].id => C2[tb][i] = content[tb][i]
            /\ Store!HasKey(C2[tb][i], tx[d].req.type, tx[d].req.key) =>
                    Store!HasKey(content[tb][i], tx[d].req.type, tx[d].req.key)
    BY <1>2, <1>5 DEF Store!HasKey
  <2> QED
    BY <1>2, <2>1, <2>2, TxKept
<1> QED
  BY <1>1, <1>2, <1>3, <1>4, <1>5

LEMMA UpsertCommitKept ==
    ASSUME CollectionInv, NEW c \in Callers, UpsertCommit(c)
    PROVE  CollectionInv'
<1> DEFINE t == tx[c]
<1>1. pc[c] = "commit" /\ pc[c] \in Wrote /\ Commit(c)
  BY DEF UpsertCommit, Wrote
<1>2. /\ t \in TxType /\ t.req \in RowType /\ t.req.key # Null
      /\ t.req.type \in Types /\ t.req.props \in Documents
      /\ TableFor[t.req.type] \in Tables /\ DOMAIN t.new = {} /\ t.id \in Ids
      /\ t.row \in RowType /\ t.row.type = t.req.type /\ t.row.key = t.req.key
      /\ Inserts(t, reg, content) \/ Merges(t, reg, content)
      /\ t.type = IF reg[t.id] = Absent THEN t.req.type ELSE Absent
  BY <1>1, HasWritten
<1>3. /\ reg \in Registries /\ content \in Collections /\ edges \in EdgeTables
      /\ Registered(reg, content) /\ KeysOnce(content) /\ Fit(content, edges)
  BY DEF CollectionInv, RowTypes
<1>4. t.req.type # Absent
  BY <1>2, PerCollectionAssumption
<1>5. /\ reg' = IF reg[t.id] = Absent THEN [reg EXCEPT ![t.id] = t.req.type] ELSE reg
      /\ content' = [content EXCEPT ![TableFor[t.req.type]][t.id] = t.row]
      /\ edges' = edges
      /\ pc' = [pc EXCEPT ![c] = "idle"] /\ tx' = [tx EXCEPT ![c] = NoTx]
      /\ UNCHANGED active
  BY <1>1, <1>2, <1>3, <1>4 DEF Commit, End, Goto, Registries, EdgeTables
<1>6. ASSUME NEW d \in Callers \ {c}
      PROVE  /\ TxInv(pc[d], tx[d], reg, content, edges) /\ tx[d] \in TxType
             /\ pc[d] \in Places /\ tx[d].id # t.id
             /\ pc[d] \in Wrote =>
                  t.req.type # tx[d].req.type \/ t.req.key # tx[d].req.key
  <2>1. Apart(pc[c], t, pc[d], tx[d])
    BY DEF CollectionInv
  <2>2. t.id # Absent
    BY <1>2, PerCollectionAssumption
  <2> QED
    BY <1>1, <2>1, <2>2 DEF CollectionInv, RowTypes, Apart
<1> HIDE DEF t
<1>7. /\ reg' \in Registries /\ content' \in Collections /\ edges' \in EdgeTables
      /\ Registered(reg', content') /\ KeysOnce(content') /\ Fit(content', edges')
      /\ \A d \in Callers \ {c} : TxInv(pc[d], tx[d], reg', content', edges')
  <2>1. CASE Inserts(t, reg, content)
    <3> DEFINE R2 == [reg EXCEPT ![t.id] = t.row.type]
               C2 == [content EXCEPT ![TableFor[t.row.type]][t.id] = t.row]
    <3>1. /\ reg[t.id] = Absent /\ t.row = t.req
          /\ \A tb \in Tables, i \in Ids :
                ~Store!HasKey(content[tb][i], t.row.type, t.row.key)
      BY <2>1 DEF Inserts
    <3>2. /\ R2 \in Registries /\ C2 \in Collections
          /\ Registered(R2, C2) /\ KeysOnce(C2)
          /\ \A i \in Ids \ {t.id} : R2[i] = reg[i]
          /\ C2[TableFor[t.row.type]][t.id] = t.row
          /\ \A tb \in Tables, i \in Ids :
                tb # TableFor[t.row.type] \/ i # t.id => C2[tb][i] = content[tb][i]
          /\ \A tb \in Tables, i \in Ids : content[tb][i] # Absent => C2[tb][i] # Absent
      BY <1>2, <1>3, <3>1, RowAdded, SMTT(20)
    <3>3. reg' = R2 /\ content' = C2 /\ edges' = edges
      BY <1>5, <3>1
    <3> HIDE DEF R2, C2
    <3>4. Fit(C2, edges)
      BY <1>3, <3>2, FitKept
    <3>5. ASSUME NEW d \in Callers \ {c}
          PROVE  TxInv(pc[d], tx[d], R2, C2, edges)
      <4>1. \A tb \in Tables, i \in Ids : pc[d] \in Wrote =>
              /\ i = tx[d].id => C2[tb][i] = content[tb][i]
              /\ Store!HasKey(C2[tb][i], tx[d].req.type, tx[d].req.key) =>
                      Store!HasKey(content[tb][i], tx[d].req.type, tx[d].req.key)
        BY <1>6, <3>1, <3>2 DEF Store!HasKey
      <4>2. tx[d].id \in Ids => R2[tx[d].id] = reg[tx[d].id]
        BY <1>6, <3>2
      <4> QED
        BY <1>6, <3>2, <4>1, <4>2, TxKept
    <3> QED
      BY <1>3, <3>2, <3>3, <3>4, <3>5
  <2>2. CASE Merges(t, reg, content)
    <3> DEFINE old == content[TableFor[reg[t.id]]][t.id]
    <3>1. /\ reg[t.id] = t.req.type /\ reg[t.id] # Absent
          /\ Store!HasKey(old, t.req.type, t.req.key)
      BY <1>4, <2>2 DEF Merges
    <3>2. t.row.type = old.type /\ t.row.key = old.key /\ ~old.deleted
      BY <1>2, <3>1 DEF Store!HasKey, Store!IsLive
    <3>3. /\ reg' = reg /\ edges' = edges
          /\ content' = [content EXCEPT ![TableFor[reg[t.id]]][t.id] = t.row]
      BY <1>5, <3>1
    <3>4. /\ reg' \in Registries /\ content' \in Collections /\ edges' \in EdgeTables
          /\ Registered(reg', content') /\ KeysOnce(content') /\ Fit(content', edges')
          /\ \A d \in Callers : (pc[d] \in Wrote => tx[d].id # t.id) =>
                TxInv(pc[d], tx[d], reg', content', edges')
      BY <1>2, <3>1, <3>2, <3>3, RewriteKept
    <3> QED
      BY <1>6, <3>4
  <2> QED
    BY <1>2, <2>1, <2>2
<1>8. \A d \in Callers \ {c} : Apart("idle", NoTx, pc[d], tx[d])
  BY Ended
<1> QED
  BY <1>5, <1>7, <1>8, Ended, CallerStep
-----------------------------------------------------------------------------
\* The methods of one statement.
LEMMA TableStep ==
    ASSUME CollectionInv, UNCHANGED <<pc, tx>>, active' \in Schemas \cup {Absent},
           reg' \in Registries, content' \in Collections, edges' \in EdgeTables,
           Registered(reg', content'), KeysOnce(content'), Fit(content', edges'),
           \A d \in Callers : TxInv(pc[d], tx[d], reg', content', edges')
    PROVE  CollectionInv'
<1>1. pc' = pc /\ tx' = tx
  OBVIOUS
<1>2. RowTypes'
  BY <1>1 DEF CollectionInv, RowTypes
<1>3. \A c, d \in Callers : c # d => Apart(pc'[c], tx'[c], pc'[d], tx'[d])
  BY <1>1 DEF CollectionInv
<1>4. \A d \in Callers : TxInv(pc'[d], tx'[d], reg', content', edges')
  BY <1>1
<1> QED
  BY <1>2, <1>3, <1>4 DEF CollectionInv

\* What GetEntity finds.
LEMMA Reached ==
    ASSUME CollectionInv, NEW id \in Ids, GetEntity(id) # Absent
    PROVE  /\ reg[id] \in Types /\ reg[id] # Absent /\ ResolveTable(id) \in Tables
           /\ content[TableFor[reg[id]]][id] \in RowType
           /\ Store!IsLive(content[TableFor[reg[id]]][id])
<1>1. reg[id] # Absent /\ Store!IsLive(content[TableFor[reg[id]]][id])
  BY DEF GetEntity, ResolveTable
<1>2. reg[id] \in Types /\ TableFor[reg[id]] \in Tables
  BY <1>1, PerCollectionAssumption DEF CollectionInv, RowTypes, Registries
<1>3. content[TableFor[reg[id]]][id] \in RowType
  BY <1>1, <1>2 DEF CollectionInv, RowTypes, Collections, Store!IsLive
<1> QED
  BY <1>1, <1>2, <1>3 DEF ResolveTable

LEMMA UpdateKept ==
    ASSUME CollectionInv, NEW id \in Ids, NEW patch \in Documents, UpdateEntity(id, patch)
    PROVE  CollectionInv'
<1> DEFINE old == content[TableFor[reg[id]]][id]
           row == [old EXCEPT !.props = Store!Patched(@, patch)]
<1>1. reg[id] # Absent /\ TableFor[reg[id]] \in Tables /\ old \in RowType
  BY Reached DEF UpdateEntity, ResolveTable
<1>2. /\ row \in RowType /\ row.type = old.type /\ row.key = old.key
      /\ old.deleted => row.deleted
  BY <1>1, RewrittenRow
<1>3. content' = [content EXCEPT ![TableFor[reg[id]]][id] = row]
  BY <1>1 DEF UpdateEntity, ResolveTable, CollectionInv, RowTypes, Collections
<1>4. /\ reg' = reg /\ edges' = edges /\ active' = active /\ UNCHANGED <<pc, tx>>
      /\ \A d \in Callers : pc[d] \in Wrote => tx[d].id # id
  BY DEF UpdateEntity, Locks, Wrote
<1> HIDE DEF row
<1>5. /\ reg' \in Registries /\ content' \in Collections /\ edges' \in EdgeTables
      /\ Registered(reg', content') /\ KeysOnce(content') /\ Fit(content', edges')
      /\ \A d \in Callers : (pc[d] \in Wrote => tx[d].id # id) =>
            TxInv(pc[d], tx[d], reg', content', edges')
  BY <1>1, <1>2, <1>3, <1>4, RewriteKept
<1>6. active' \in Schemas \cup {Absent}
  BY <1>4 DEF CollectionInv, RowTypes
<1> QED
  BY <1>4, <1>5, <1>6, TableStep

LEMMA DeleteKept ==
    ASSUME CollectionInv, NEW id \in Ids, DeleteEntity(id)
    PROVE  CollectionInv'
<1> DEFINE old == content[TableFor[reg[id]]][id]
           row == [old EXCEPT !.deleted = TRUE]
<1>1. reg[id] # Absent /\ TableFor[reg[id]] \in Tables /\ old \in RowType
  BY Reached DEF DeleteEntity, ResolveTable
<1>2. row \in RowType /\ row.type = old.type /\ row.key = old.key /\ row.deleted
  BY <1>1 DEF RowType
<1>3. content' = [content EXCEPT ![TableFor[reg[id]]][id] = row]
  BY <1>1 DEF DeleteEntity, ResolveTable, CollectionInv, RowTypes, Collections
<1>4. /\ reg' = reg /\ edges' = edges /\ active' = active /\ UNCHANGED <<pc, tx>>
      /\ \A d \in Callers : pc[d] \in Wrote => tx[d].id # id
  BY DEF DeleteEntity, Locks, Wrote
<1> HIDE DEF row
<1>5. /\ reg' \in Registries /\ content' \in Collections /\ edges' \in EdgeTables
      /\ Registered(reg', content') /\ KeysOnce(content') /\ Fit(content', edges')
      /\ \A d \in Callers : (pc[d] \in Wrote => tx[d].id # id) =>
            TxInv(pc[d], tx[d], reg', content', edges')
  BY <1>1, <1>2, <1>3, <1>4, RewriteKept
<1>6. active' \in Schemas \cup {Absent}
  BY <1>4 DEF CollectionInv, RowTypes
<1> QED
  BY <1>4, <1>5, <1>6, TableStep

\* A step that writes relationships only, none that a transaction has written.
LEMMA EdgesStep ==
    ASSUME CollectionInv, UNCHANGED <<reg, content, active, pc, tx>>,
           edges' \in EdgeTables, Fit(content, edges'),
           \A d \in Callers : \A e \in DOMAIN tx[d].new :
               edges[e] = Absent => edges'[e] = Absent
    PROVE  CollectionInv'
<1>1. reg' = reg /\ content' = content /\ active' = active /\ UNCHANGED <<pc, tx>>
  OBVIOUS
<1>2. /\ reg \in Registries /\ content \in Collections
      /\ active \in Schemas \cup {Absent}
      /\ Registered(reg, content) /\ KeysOnce(content)
  BY DEF CollectionInv, RowTypes
<1>3. ASSUME NEW d \in Callers PROVE TxInv(pc[d], tx[d], reg, content, edges')
  <2>1. /\ TxInv(pc[d], tx[d], reg, content, edges)
        /\ tx[d] \in TxType /\ pc[d] \in Places
    BY DEF CollectionInv, RowTypes
  <2> QED
    BY <2>1, TxKept
<1> QED
  BY <1>1, <1>2, <1>3, TableStep

LEMMA RelateKept ==
    ASSUME CollectionInv, NEW e \in EdgeIds, NEW name \in Labels,
           NEW from \in Ids, NEW to \in Ids, CreateRelationship(e, name, from, to)
    PROVE  CollectionInv'
<1> DEFINE row == Edge(name, from, to)
           fromRow == content[TableFor[RelTableFor(name).from]][from]
<1>1. /\ Linkable(name, fromRow, to) /\ HasTable(name)
      /\ edges[e] = Absent /\ \A d \in Callers : e \notin DOMAIN tx[d].new
      /\ edges' = [edges EXCEPT ![e] = row]
      /\ UNCHANGED <<reg, content, active, pc, tx>>
  BY DEF CreateRelationship, FreshEdge
<1>2. edges \in EdgeTables /\ Fit(content, edges)
  BY DEF CollectionInv, RowTypes
<1>3. row \in EdgeRow /\ row.from = from /\ row.to = to
  <2>1. row \in EdgeRow
    <3> HIDE DEF fromRow
    <3> QED
      BY <1>1, LinkableEdge
  <2> QED
    BY <2>1 DEF Edge
<1>4. PICK i \in RelationshipEdges :
          /\ Declared[i].table = row.table
          /\ RelTableFor(name) = Declared[i]
          /\ content[TableFor[Declared[i].to]][to] # Absent
          /\ fromRow # Absent
  <2> HIDE DEF fromRow
  <2> QED
    BY <1>1, LinkableEdge
<1>5. content[TableFor[Declared[i].from]][from] # Absent
  BY <1>4
<1> HIDE DEF row, fromRow
<1>6. edges' \in EdgeTables
  BY <1>1, <1>2, <1>3 DEF EdgeTables
<1>7. edges'[e] = row /\ \A f \in EdgeIds : f # e => edges'[f] = edges[f]
  BY <1>1, <1>2 DEF EdgeTables
<1>8. Fit(content, edges')
  <2>1. ASSUME NEW f \in EdgeIds, edges'[f] # Absent
        PROVE  \E k \in RelationshipEdges :
                    /\ Declared[k].table = edges'[f].table
                    /\ content[TableFor[Declared[k].from]][edges'[f].from] # Absent
                    /\ content[TableFor[Declared[k].to]][edges'[f].to] # Absent
    <3>1. CASE f = e
      BY <1>3, <1>4, <1>5, <1>7, <3>1
    <3>2. CASE f # e
      BY <1>2, <1>7, <2>1, <3>2 DEF Fit
    <3> QED
      BY <3>1, <3>2
  <2> QED
    BY <2>1 DEF Fit
<1>9. \A d \in Callers : \A f \in DOMAIN tx[d].new : edges[f] = Absent => edges'[f] = Absent
  <2>1. \A d \in Callers : DOMAIN tx[d].new \subseteq EdgeIds
    BY DEF CollectionInv, RowTypes, TxType, NewRows
  <2> QED
    BY <1>1, <1>7, <2>1
<1> QED
  BY <1>1, <1>6, <1>8, <1>9, EdgesStep

LEMMA UnrelateKept ==
    ASSUME CollectionInv, NEW e \in EdgeIds, DeleteRelationship(e)
    PROVE  CollectionInv'
<1>1. /\ edges' = [edges EXCEPT ![e] = Absent]
      /\ UNCHANGED <<reg, content, active, pc, tx>>
  BY DEF DeleteRelationship
<1>2. edges \in EdgeTables /\ Fit(content, edges)
  BY DEF CollectionInv, RowTypes
<1>3. /\ edges' \in EdgeTables /\ edges'[e] = Absent
      /\ \A f \in EdgeIds : f # e => edges'[f] = edges[f]
  BY <1>1, <1>2 DEF EdgeTables
<1>4. Fit(content, edges')
  BY <1>2, <1>3 DEF Fit
<1>5. \A d \in Callers : \A f \in DOMAIN tx[d].new : edges[f] = Absent => edges'[f] = Absent
  <2>1. \A d \in Callers : DOMAIN tx[d].new \subseteq EdgeIds
    BY DEF CollectionInv, RowTypes, TxType, NewRows
  <2> QED
    BY <1>3, <2>1
<1> QED
  BY <1>1, <1>3, <1>4, <1>5, EdgesStep

LEMMA ActivateKept ==
    ASSUME CollectionInv, NEW s \in Schemas, Activate(s)
    PROVE  CollectionInv'
<1>1. /\ reg' = reg /\ content' = content /\ edges' = edges /\ UNCHANGED <<pc, tx>>
      /\ active' \in Schemas \cup {Absent}
  BY DEF Activate
<1>2. /\ reg \in Registries /\ content \in Collections /\ edges \in EdgeTables
      /\ Registered(reg, content) /\ KeysOnce(content) /\ Fit(content, edges)
      /\ \A d \in Callers : TxInv(pc[d], tx[d], reg, content, edges)
  BY DEF CollectionInv, RowTypes
<1> QED
  BY <1>1, <1>2, TableStep

LEMMA StutterKept ==
    ASSUME CollectionInv, UNCHANGED vars
    PROVE  CollectionInv'
<1>1. /\ reg' = reg /\ content' = content /\ edges' = edges /\ UNCHANGED <<pc, tx>>
      /\ active' = active
  BY DEF vars
<1>2. /\ reg \in Registries /\ content \in Collections /\ edges \in EdgeTables
      /\ active \in Schemas \cup {Absent}
      /\ Registered(reg, content) /\ KeysOnce(content) /\ Fit(content, edges)
      /\ \A d \in Callers : TxInv(pc[d], tx[d], reg, content, edges)
  BY DEF CollectionInv, RowTypes
<1> QED
  BY <1>1, <1>2, TableStep
-----------------------------------------------------------------------------
LEMMA InitCollection == Init => CollectionInv
<1> SUFFICES ASSUME Init PROVE CollectionInv
  OBVIOUS
<1>1. RowTypes
  BY Ended DEF Init, RowTypes, Registries, Collections, EdgeTables, Places
<1>2. Registered(reg, content) /\ KeysOnce(content) /\ Fit(content, edges)
  BY PerCollectionAssumption DEF Init, Registered, KeysOnce, Fit, Store!IsLive
<1>3. \A c \in Callers : TxInv(pc[c], tx[c], reg, content, edges)
  BY DEF Init, TxInv
<1>4. \A c, d \in Callers : Apart(pc[c], tx[c], pc[d], tx[d])
  BY Ended DEF Init
<1> QED
  BY <1>1, <1>2, <1>3, <1>4 DEF CollectionInv

LEMMA StepCollection ==
    ASSUME CollectionInv, NEW c \in Callers, Step(c)
    PROVE  CollectionInv'
<1>1. CASE \E id \in Ids, ty \in Types, props \in Documents, links \in Links :
              CreateRegister(c, id, ty, props, links)
  BY <1>1, CreateRegisterKept
<1>2. CASE CreateInsert(c)
  BY <1>2, CreateInsertKept
<1>3. CASE \E e \in EdgeIds : CreateLink(c, e)
  BY <1>3, CreateLinkKept
<1>4. CASE CreateLinkFails(c) \/ Rollback(c)
  BY <1>4, RollbackKept DEF CreateLinkFails
<1>5. CASE CreateCommit(c)
  BY <1>5, CreateCommitKept
<1>6. CASE \E ty \in Types, props \in Documents : UpsertReadActive(c, ty, props)
  BY <1>6, UpsertReadActiveKept
<1>7. CASE \E id \in Ids : UpsertInsert(c, id) \/ UpsertMerge(c, id)
  BY <1>7, UpsertInsertKept, UpsertMergeKept
<1>8. CASE UpsertRegister(c)
  BY <1>8, UpsertRegisterKept
<1>9. CASE UpsertCommit(c)
  BY <1>9, UpsertCommitKept
<1> QED
  BY <1>1, <1>2, <1>3, <1>4, <1>5, <1>6, <1>7, <1>8, <1>9 DEF Step

\* Each step keeps the invariant: the registry and the collections agree, and
\* every transaction under way has written rows nobody else writes.
THEOREM CollectionInvariant == Spec => []CollectionInv
<1>1. Init => CollectionInv
  BY InitCollection
<1>2. CollectionInv /\ [Next]_vars => CollectionInv'
  <2> SUFFICES ASSUME CollectionInv, [Next]_vars PROVE CollectionInv'
    OBVIOUS
  <2>1. CASE \E c \in Callers : Step(c)
    BY <2>1, StepCollection
  <2>2. CASE \E id \in Ids, patch \in Documents : UpdateEntity(id, patch)
    BY <2>2, UpdateKept
  <2>3. CASE \E id \in Ids : DeleteEntity(id)
    BY <2>3, DeleteKept
  <2>4. CASE \E e \in EdgeIds, name \in Labels, from, to \in Ids :
                CreateRelationship(e, name, from, to)
    BY <2>4, RelateKept
  <2>5. CASE \E e \in EdgeIds : DeleteRelationship(e)
    BY <2>5, UnrelateKept
  <2>6. CASE \E s \in Schemas : Activate(s)
    BY <2>6, ActivateKept
  <2>7. CASE UNCHANGED vars
    BY <2>7, StutterKept
  <2> QED
    BY <2>1, <2>2, <2>3, <2>4, <2>5, <2>6, <2>7 DEF Next
<1> QED
  BY <1>1, <1>2, PTL DEF Spec

\* What ListEntities finds in the collections is what GetEntity, UpdateEntity
\* and DeleteEntity find through the registry, for any overlap of CreateEntity
\* and UpsertEntity and wherever one of them is rolled back.
THEOREM ListingsAreReached == Spec => []ListedIsReached
<1>1. CollectionInv => ListedIsReached
  <2> SUFFICES ASSUME CollectionInv, NEW id \in Ids
               PROVE  id \in ListEntities <=> GetEntity(id) # Absent
    BY DEF ListedIsReached
  <2>1. /\ \A tb \in Tables : content[tb][id] # Absent =>
              reg[id] = content[tb][id].type /\ tb = TableFor[reg[id]]
        /\ \A tb \in Tables : content[tb][id] \in RowType \cup {Absent}
        /\ reg[id] \in Types \cup {Absent}
    BY DEF CollectionInv, RowTypes, Registries, Collections, Registered
  <2>2. ASSUME id \in ListEntities PROVE GetEntity(id) # Absent
    <3>1. PICK tb \in Tables : Store!IsLive(content[tb][id])
      BY <2>2 DEF ListEntities
    <3>2. /\ content[tb][id] # Absent /\ content[tb][id] \in RowType
      BY <2>1, <3>1 DEF Store!IsLive
    <3>3. reg[id] = content[tb][id].type /\ tb = TableFor[reg[id]] /\ reg[id] # Absent
      BY <2>1, <3>2, PerCollectionAssumption DEF RowType
    <3> QED
      BY <3>1, <3>2, <3>3 DEF GetEntity, ResolveTable
  <2>3. ASSUME GetEntity(id) # Absent PROVE id \in ListEntities
    BY <2>3, Reached DEF ListEntities, ResolveTable
  <2> QED
    BY <2>2, <2>3
<1> QED
  BY <1>1, CollectionInvariant, PTL

\* Never two live entities of one type with one unique key, however many
\* UpsertEntity calls overlap and whichever schema each of them read.
THEOREM KeysStayUnique == Spec => []OneLivePerKey
<1>1. CollectionInv => OneLivePerKey
  BY DEF CollectionInv, KeysOnce, OneLivePerKey
<1> QED
  BY <1>1, CollectionInvariant, PTL

\* A relationship is in a table whose foreign keys it satisfies: both endpoints
\* are rows of the collections the table was declared between.
THEOREM RelationshipsFit == Spec => []EndpointsFit
<1>1. CollectionInv => EndpointsFit
  BY DEF CollectionInv, Fit, EndpointsFit
<1> QED
  BY <1>1, CollectionInvariant, PTL
-----------------------------------------------------------------------------
\* The refinement.  The tables of EntityStore, as seen through the registry.
Seen(R, C) ==
    [id \in Ids |-> IF R[id] = Absent THEN Absent ELSE C[TableFor[R[id]]][id]]

PlainEdge(row) == [name |-> row.name, from |-> row.from, to |-> row.to]

SeenEdges(E) == [e \in EdgeIds |-> IF E[e] = Absent THEN Absent ELSE PlainEdge(E[e])]

LEMMA SeenAdded ==
    ASSUME NEW R \in Registries, NEW C \in Collections,
           NEW R2 \in Registries, NEW C2 \in Collections,
           NEW id \in Ids, NEW row \in RowType,
           R2[id] = row.type, \A i \in Ids : i # id => R2[i] = R[i],
           C2[TableFor[row.type]][id] = row,
           \A tb \in Tables, i \in Ids :
               tb # TableFor[row.type] \/ i # id => C2[tb][i] = C[tb][i]
    PROVE  Seen(R2, C2)[id] = row /\ \A i \in Ids : i # id => Seen(R2, C2)[i] = Seen(R, C)[i]
<1>1. /\ R2[id] = row.type /\ row.type # Absent
      /\ \A i \in Ids : i # id => R2[i] = R[i]
      /\ \A i \in Ids : R[i] # Absent => TableFor[R[i]] \in Tables
  BY PerCollectionAssumption DEF Registries, RowType
<1>2. Seen(R2, C2)[id] = row
  BY <1>1 DEF Seen
<1>3. ASSUME NEW i \in Ids, i # id
      PROVE  Seen(R2, C2)[i] = Seen(R, C)[i]
  BY <1>1, <1>3 DEF Seen
<1> QED
  BY <1>2, <1>3

\* A row of a collection is seen, whichever collection it is in.
LEMMA RowSeen ==
    ASSUME NEW R, NEW C \in Collections, Registered(R, C),
           NEW tb \in Tables, NEW id \in Ids, C[tb][id] # Absent
    PROVE  Seen(R, C)[id] # Absent
<1>1. C[tb][id] \in RowType
  BY DEF Collections
<1>2. R[id] # Absent /\ tb = TableFor[R[id]]
  BY <1>1, PerCollectionAssumption DEF Registered, RowType
<1> QED
  BY <1>2 DEF Seen

\* A row of CreateEntity or UpsertEntity is the entity it was asked for.
LEMMA RowIsEntity ==
    ASSUME NEW row \in RowType, ~row.deleted
    PROVE  row = Store!Entity(row.type, row.props, row.key)
BY DEF RowType, Store!Entity

\* Where neither what is seen of the entities nor the relationships changes.
LEMMA SeenStutter ==
    ASSUME UNCHANGED <<reg, content, edges>>
    PROVE  UNCHANGED Store!storeVars
BY DEF Store!storeVars

LEMMA CreateImplements ==
    ASSUME CollectionInv, NEW c \in Callers, CreateCommit(c)
    PROVE  \E id \in Ids, ty \in Types, props \in Store!Documents :
               Store!StoreCreate(id, ty, props)
<1> DEFINE t == tx[c]
           C2 == [content EXCEPT ![TableFor[t.row.type]][t.id] = t.row]
           new == [e \in DOMAIN t.new |-> PlainEdge(t.new[e])]
<1>1. pc[c] = "link" /\ Commit(c)
  BY DEF CreateCommit
<1>2. /\ t.id \in Ids /\ reg[t.id] = Absent /\ t.row \in RowType
      /\ t.row.key = Null /\ ~t.row.deleted
      /\ t.type = t.row.type /\ t.type # Absent /\ t.row = t.req
      /\ t.row.type \in Types /\ t.row.props \in Documents
      /\ TableFor[t.row.type] \in Tables /\ DOMAIN t.new \subseteq EdgeIds
      /\ \A e \in DOMAIN t.new :
            /\ t.new[e] \in EdgeRow /\ edges[e] = Absent
            /\ t.new[e].from = t.id /\ Finds(t, t.new[e], content)
  BY <1>1, Creating
<1>3. /\ reg \in Registries /\ content \in Collections /\ edges \in EdgeTables
      /\ Registered(reg, content)
  BY DEF CollectionInv, RowTypes
<1>4. /\ reg' = [reg EXCEPT ![t.id] = t.row.type]
      /\ content' = C2
      /\ edges' = [e \in EdgeIds |-> IF e \in DOMAIN t.new THEN t.new[e] ELSE edges[e]]
  BY <1>1, <1>2 DEF Commit
<1>5. /\ C2[TableFor[t.row.type]][t.id] = t.row
      /\ \A tb \in Tables, i \in Ids :
            tb # TableFor[t.row.type] \/ i # t.id => C2[tb][i] = content[tb][i]
  <2>1. t.id \in Ids /\ t.row \in RowType /\ TableFor[t.row.type] \in Tables
    BY <1>2
  <2> HIDE DEF t
  <2> QED
    BY <1>3, <2>1 DEF Collections
<1> HIDE DEF C2, t
<1>6. Seen(reg', content') = [Seen(reg, content) EXCEPT ![t.id] = t.row]
  <2>1. /\ content'[TableFor[t.row.type]][t.id] = t.row
        /\ \A tb \in Tables, i \in Ids :
            tb # TableFor[t.row.type] \/ i # t.id => content'[tb][i] = content[tb][i]
        /\ reg'[t.id] = t.row.type /\ \A i \in Ids : i # t.id => reg'[i] = reg[i]
    BY <1>2, <1>3, <1>4, <1>5 DEF Registries
  <2>2. t.id \in Ids /\ t.row \in RowType
    BY <1>2
  <2>3. reg' \in Registries /\ content' \in Collections
    BY CreateCommitKept DEF CollectionInv, RowTypes
  <2>4. /\ Seen(reg', content')[t.id] = t.row
        /\ \A i \in Ids : i # t.id => Seen(reg', content')[i] = Seen(reg, content)[i]
    BY <1>3, <2>1, <2>2, <2>3, SeenAdded
  <2>5. /\ Seen(reg', content') = [i \in Ids |-> Seen(reg', content')[i]]
        /\ Seen(reg, content) = [i \in Ids |-> Seen(reg, content)[i]]
    BY DEF Seen
  <2> QED
    BY <2>2, <2>4, <2>5
<1>7. Seen(reg, content)[t.id] = Absent
  BY <1>2 DEF Seen
<1>8. t.row = Store!Entity(t.row.type, t.row.props, Null)
  BY <1>2, RowIsEntity
<1>9. /\ new \in Store!NewEdges /\ DOMAIN new = DOMAIN t.new
      /\ \A e \in DOMAIN t.new : new[e] = PlainEdge(t.new[e])
  BY <1>2 DEF Store!NewEdges, Store!EdgeType, EdgeRow, PlainEdge
<1> HIDE DEF new
<1>10. ASSUME NEW e \in DOMAIN new
       PROVE  /\ SeenEdges(edges)[e] = Absent /\ new[e].from = t.id
              /\ Seen(reg, content)[new[e].to] # Absent
  <2>1. /\ SeenEdges(edges)[e] = Absent /\ new[e].from = t.id
        /\ new[e].to = t.new[e].to /\ new[e].to \in Ids
    <3>1. /\ e \in DOMAIN t.new /\ e \in EdgeIds /\ edges[e] = Absent
          /\ t.new[e] \in EdgeRow /\ t.new[e].from = t.id
          /\ new[e] = PlainEdge(t.new[e])
      BY <1>2, <1>9
    <3>2. t.new[e].to \in Ids
      BY <3>1 DEF EdgeRow
    <3>3. SeenEdges(edges)[e] = Absent
      BY <3>1 DEF SeenEdges
    <3> QED
      BY <3>1, <3>2, <3>3 DEF PlainEdge
  <2>2. PICK i \in RelationshipEdges : content[TableFor[Declared[i].to]][t.new[e].to] # Absent
    BY <1>2, <1>9 DEF Finds
  <2> QED
    BY <1>3, <2>1, <2>2, RowSeen, DeclaredTypes
<1>11. SeenEdges(edges') =
          [e \in EdgeIds |-> IF e \in DOMAIN new THEN new[e] ELSE SeenEdges(edges)[e]]
  <2>1. ASSUME NEW e \in EdgeIds
        PROVE  SeenEdges(edges')[e] =
                  IF e \in DOMAIN new THEN new[e] ELSE SeenEdges(edges)[e]
    BY <1>2, <1>4, <1>9, PerCollectionAssumption DEF SeenEdges
  <2>2. SeenEdges(edges') = [e \in EdgeIds |-> SeenEdges(edges')[e]]
    BY DEF SeenEdges
  <2> QED
    BY <2>1, <2>2
<1>12. /\ Seen(reg, content)[t.id] = Absent
       /\ Seen(reg', content') =
            [Seen(reg, content) EXCEPT ![t.id] = Store!Entity(t.row.type, t.row.props, Null)]
       /\ \E nw \in Store!NewEdges :
            /\ \A e \in DOMAIN nw :
                /\ SeenEdges(edges)[e] = Absent /\ nw[e].from = t.id
                /\ Seen(reg, content)[nw[e].to] # Absent
            /\ SeenEdges(edges') =
                [e \in EdgeIds |-> IF e \in DOMAIN nw THEN nw[e] ELSE SeenEdges(edges)[e]]
  BY <1>6, <1>7, <1>8, <1>9, <1>10, <1>11
<1>13. PICK id \in Ids, ty \in Types, props \in Store!Documents :
          id = t.id /\ ty = t.row.type /\ props = t.row.props
  BY <1>2 DEF Documents, Store!Documents
<1>14. Store!StoreCreate(id, ty, props)
  BY <1>12, <1>13 DEF Store!StoreCreate, Seen, SeenEdges, PlainEdge
<1> QED
  BY <1>14

\* One row of what is seen written over.
LEMMA RewriteImplements ==
    ASSUME CollectionInv, CollectionInv', NEW id \in Ids, NEW row \in RowType,
           reg[id] # Absent, reg' = reg,
           content' = [content EXCEPT ![TableFor[reg[id]]][id] = row]
    PROVE  /\ Seen(reg, content)[id] = content[TableFor[reg[id]]][id]
           /\ Seen(reg', content') = [Seen(reg, content) EXCEPT ![id] = row]
<1>1. reg \in Registries /\ content \in Collections /\ content' \in Collections
  BY DEF CollectionInv, RowTypes
<1>2. /\ Seen(reg, content')[id] = row
      /\ \A i \in Ids : i # id => Seen(reg, content')[i] = Seen(reg, content)[i]
  <2>1. TableFor[reg[id]] \in Tables
    BY <1>1, PerCollectionAssumption DEF Registries
  <2>2. /\ content'[TableFor[reg[id]]][id] = row
        /\ \A tb \in Tables, i \in Ids : i # id => content'[tb][i] = content[tb][i]
    BY <1>1, <2>1 DEF Collections
  <2>3. \A i \in Ids : reg[i] # Absent => TableFor[reg[i]] \in Tables
    BY <1>1, PerCollectionAssumption DEF Registries
  <2>4. Seen(reg, content')[id] = row
    BY <2>2 DEF Seen
  <2>5. ASSUME NEW i \in Ids, i # id
        PROVE  Seen(reg, content')[i] = Seen(reg, content)[i]
    BY <2>2, <2>3, <2>5 DEF Seen
  <2> QED
    BY <2>4, <2>5
<1>3. /\ Seen(reg, content') = [i \in Ids |-> Seen(reg, content')[i]]
      /\ Seen(reg, content) = [i \in Ids |-> Seen(reg, content)[i]]
  BY DEF Seen
<1>4. Seen(reg, content)[id] = content[TableFor[reg[id]]][id]
  BY DEF Seen
<1> QED
  BY <1>2, <1>3, <1>4

LEMMA UpdateImplements ==
    ASSUME CollectionInv, NEW id \in Ids, NEW patch \in Documents, UpdateEntity(id, patch)
    PROVE  Store!StoreUpdate(id, patch)
<1> DEFINE old == content[TableFor[reg[id]]][id]
           row == [old EXCEPT !.props = Store!Patched(@, patch)]
<1>1. /\ reg[id] # Absent /\ TableFor[reg[id]] \in Tables /\ old \in RowType
      /\ Store!IsLive(old)
  BY Reached DEF UpdateEntity, ResolveTable
<1>2. row \in RowType
  BY <1>1, RewrittenRow
<1>3. content' = [content EXCEPT ![TableFor[reg[id]]][id] = row]
  BY <1>1 DEF UpdateEntity, ResolveTable, CollectionInv, RowTypes, Collections
<1>4. reg' = reg /\ edges' = edges
  BY DEF UpdateEntity
<1>5. CollectionInv'
  BY UpdateKept
<1>6. /\ Seen(reg, content)[id] = old
      /\ Seen(reg', content') = [Seen(reg, content) EXCEPT ![id] = row]
  <2> HIDE DEF row
  <2> QED
    BY <1>1, <1>2, <1>3, <1>4, <1>5, RewriteImplements
<1>7. /\ Store!IsLive(Seen(reg, content)[id])
      /\ Seen(reg', content') =
            [Seen(reg, content) EXCEPT ![id].props = Store!Patched(@, patch)]
      /\ SeenEdges(edges') = SeenEdges(edges)
  BY <1>1, <1>4, <1>6
<1> QED
  BY <1>7 DEF Store!StoreUpdate, Seen, SeenEdges, PlainEdge

LEMMA DeleteImplements ==
    ASSUME CollectionInv, NEW id \in Ids, DeleteEntity(id)
    PROVE  Store!StoreDelete(id)
<1> DEFINE old == content[TableFor[reg[id]]][id]
           row == [old EXCEPT !.deleted = TRUE]
<1>1. /\ reg[id] # Absent /\ TableFor[reg[id]] \in Tables /\ old \in RowType
      /\ Store!IsLive(old)
  BY Reached DEF DeleteEntity, ResolveTable
<1>2. row \in RowType
  BY <1>1 DEF RowType
<1>3. content' = [content EXCEPT ![TableFor[reg[id]]][id] = row]
  BY <1>1 DEF DeleteEntity, ResolveTable, CollectionInv, RowTypes, Collections
<1>4. reg' = reg /\ edges' = edges
  BY DEF DeleteEntity
<1>5. CollectionInv'
  BY DeleteKept
<1>6. /\ Seen(reg, content)[id] = old
      /\ Seen(reg', content') = [Seen(reg, content) EXCEPT ![id] = row]
  <2> HIDE DEF row
  <2> QED
    BY <1>1, <1>2, <1>3, <1>4, <1>5, RewriteImplements
<1>7. /\ Store!IsLive(Seen(reg, content)[id])
      /\ Seen(reg', content') = [Seen(reg, content) EXCEPT ![id].deleted = TRUE]
      /\ SeenEdges(edges') = SeenEdges(edges)
  BY <1>1, <1>4, <1>6
<1> QED
  BY <1>7 DEF Store!StoreDelete, Seen, SeenEdges, PlainEdge

LEMMA MergeImplements ==
    ASSUME CollectionInv, NEW c \in Callers, UpsertCommit(c),
           Merges(tx[c], reg, content)
    PROVE  \E id \in Ids, ty \in Types, props \in Store!Documents, key \in UniqueKeys :
               Store!StoreMerge(id, ty, props, key)
<1> DEFINE t == tx[c]
           old == content[TableFor[reg[t.id]]][t.id]
<1>1. pc[c] = "commit" /\ pc[c] \in Wrote /\ Commit(c)
  BY DEF UpsertCommit, Wrote
<1>2. /\ t.req.props \in Documents /\ t.req.key \in UniqueKeys
      /\ t.req.type \in Types /\ DOMAIN t.new = {} /\ t.id \in Ids
      /\ t.row \in RowType /\ t.row.type = t.req.type
      /\ t.type = IF reg[t.id] = Absent THEN t.req.type ELSE Absent
  BY <1>1, HasWritten
<1>3. /\ reg[t.id] = t.req.type /\ reg[t.id] # Absent
      /\ Store!HasKey(old, t.req.type, t.req.key)
      /\ t.row = [old EXCEPT !.props = Store!Patched(@, t.req.props)]
  BY <1>2, PerCollectionAssumption DEF Merges
<1>4. /\ reg' = reg /\ edges' = edges
      /\ content' = [content EXCEPT ![TableFor[reg[t.id]]][t.id] = t.row]
  BY <1>1, <1>2, <1>3 DEF Commit, CollectionInv, RowTypes, Registries, EdgeTables
<1>5. CollectionInv'
  BY UpsertCommitKept
<1> HIDE DEF t
<1>6. /\ Seen(reg, content)[t.id] = old
      /\ Seen(reg', content') = [Seen(reg, content) EXCEPT ![t.id] = t.row]
  BY <1>2, <1>3, <1>4, <1>5, RewriteImplements
<1>7. /\ Store!HasKey(Seen(reg, content)[t.id], t.req.type, t.req.key)
      /\ Seen(reg', content') =
            [Seen(reg, content) EXCEPT ![t.id].props = Store!Patched(@, t.req.props)]
      /\ SeenEdges(edges') = SeenEdges(edges)
  BY <1>3, <1>4, <1>6
<1>8. PICK id \in Ids, ty \in Types, props \in Store!Documents, key \in UniqueKeys :
          id = t.id /\ ty = t.req.type /\ props = t.req.props /\ key = t.req.key
  BY <1>2 DEF Documents, Store!Documents
<1>9. Store!StoreMerge(id, ty, props, key)
  BY <1>7, <1>8 DEF Store!StoreMerge, Seen, SeenEdges, PlainEdge
<1> QED
  BY <1>9

LEMMA InsertImplements ==
    ASSUME CollectionInv, NEW c \in Callers, UpsertCommit(c),
           Inserts(tx[c], reg, content)
    PROVE  \E id \in Ids, ty \in Types, props \in Store!Documents, key \in UniqueKeys :
               Store!StoreInsert(id, ty, props, key)
<1> DEFINE t == tx[c]
<1>1. pc[c] = "commit" /\ pc[c] \in Wrote /\ Commit(c)
  BY DEF UpsertCommit, Wrote
<1>2. /\ t.req.props \in Documents /\ t.req.key \in UniqueKeys
      /\ t.req.type \in Types /\ DOMAIN t.new = {} /\ t.id \in Ids
      /\ t.row \in RowType /\ ~t.req.deleted /\ TableFor[t.req.type] \in Tables
      /\ t.type = IF reg[t.id] = Absent THEN t.req.type ELSE Absent
  BY <1>1, HasWritten
<1>3. /\ reg[t.id] = Absent /\ t.row = t.req
      /\ \A tb \in Tables, i \in Ids : ~Store!HasKey(content[tb][i], t.req.type, t.req.key)
  BY DEF Inserts
<1>4. /\ edges' = edges /\ reg' = [reg EXCEPT ![t.id] = t.row.type]
      /\ content' = [content EXCEPT ![TableFor[t.row.type]][t.id] = t.row]
  BY <1>1, <1>2, <1>3, PerCollectionAssumption
     DEF Commit, CollectionInv, RowTypes, EdgeTables
<1>5. /\ reg \in Registries /\ content \in Collections
      /\ reg' \in Registries /\ content' \in Collections
  BY UpsertCommitKept DEF CollectionInv, RowTypes
<1> HIDE DEF t
<1>6. /\ content'[TableFor[t.row.type]][t.id] = t.row
      /\ \A tb \in Tables, i \in Ids :
            tb # TableFor[t.row.type] \/ i # t.id => content'[tb][i] = content[tb][i]
      /\ reg'[t.id] = t.row.type /\ \A i \in Ids : i # t.id => reg'[i] = reg[i]
  BY <1>2, <1>3, <1>4, <1>5 DEF Collections, Registries
<1>7. /\ Seen(reg', content')[t.id] = t.row
      /\ \A i \in Ids : i # t.id => Seen(reg', content')[i] = Seen(reg, content)[i]
  BY <1>2, <1>5, <1>6, SeenAdded
<1>8. /\ Seen(reg', content') = [i \in Ids |-> Seen(reg', content')[i]]
      /\ Seen(reg, content) = [i \in Ids |-> Seen(reg, content)[i]]
  BY DEF Seen
<1>9. t.row = Store!Entity(t.req.type, t.req.props, t.req.key)
  BY <1>2, <1>3, RowIsEntity
<1>10. ASSUME NEW m \in Ids
       PROVE  ~Store!HasKey(Seen(reg, content)[m], t.req.type, t.req.key)
  <2>1. CASE reg[m] = Absent
    BY <2>1 DEF Seen, Store!HasKey, Store!IsLive
  <2>2. CASE reg[m] # Absent
    <3>1. TableFor[reg[m]] \in Tables
      BY <1>5, <2>2, PerCollectionAssumption DEF Registries
    <3>2. Seen(reg, content)[m] = content[TableFor[reg[m]]][m]
      BY <2>2 DEF Seen
    <3> QED
      BY <1>3, <3>1, <3>2
  <2> QED
    BY <2>1, <2>2
<1>11. /\ Seen(reg, content)[t.id] = Absent
       /\ \A m \in Ids : ~Store!HasKey(Seen(reg, content)[m], t.req.type, t.req.key)
       /\ Seen(reg', content') = [Seen(reg, content) EXCEPT ![t.id] =
              Store!Entity(t.req.type, t.req.props, t.req.key)]
       /\ SeenEdges(edges') = SeenEdges(edges)
  <2>1. Seen(reg, content)[t.id] = Absent
    BY <1>2, <1>3 DEF Seen
  <2>2. Seen(reg', content') = [Seen(reg, content) EXCEPT ![t.id] = t.row]
    BY <1>2, <1>7, <1>8
  <2> QED
    BY <1>4, <1>9, <1>10, <2>1, <2>2
<1>12. PICK id \in Ids, ty \in Types, props \in Store!Documents, key \in UniqueKeys :
          id = t.id /\ ty = t.req.type /\ props = t.req.props /\ key = t.req.key
  BY <1>2 DEF Documents, Store!Documents
<1>13. Store!StoreInsert(id, ty, props, key)
  BY <1>11, <1>12 DEF Store!StoreInsert, Seen, SeenEdges, PlainEdge
<1> QED
  BY <1>13

LEMMA RelateImplements ==
    ASSUME CollectionInv, NEW e \in EdgeIds, NEW name \in Labels,
           NEW from \in Ids, NEW to \in Ids, CreateRelationship(e, name, from, to)
    PROVE  Store!StoreRelate(e, name, from, to)
<1> DEFINE row == Edge(name, from, to)
<1>1. /\ Linkable(name, content[TableFor[RelTableFor(name).from]][from], to)
      /\ HasTable(name) /\ edges[e] = Absent
      /\ edges' = [edges EXCEPT ![e] = row]
      /\ reg' = reg /\ content' = content
  BY DEF CreateRelationship, FreshEdge
<1>2. PICK i \in RelationshipEdges : RelTableFor(name) = Declared[i]
  BY <1>1, RelTable
<1>3. /\ content[TableFor[Declared[i].from]][from] # Absent
      /\ content[TableFor[Declared[i].to]][to] # Absent
  BY <1>1, <1>2 DEF Linkable
<1>4. content \in Collections /\ Registered(reg, content) /\ edges \in EdgeTables
  BY DEF CollectionInv, RowTypes
<1>5. Seen(reg, content)[from] # Absent /\ Seen(reg, content)[to] # Absent
  BY <1>3, <1>4, RowSeen, DeclaredTypes
<1>6. row # Absent /\ PlainEdge(row) = [name |-> name, from |-> from, to |-> to]
  <2>1. row \in EdgeRow
    BY <1>2, DeclaredTypes DEF Edge, EdgeRow
  <2> QED
    BY <2>1, PerCollectionAssumption DEF Edge, PlainEdge
<1> HIDE DEF row
<1>7. SeenEdges(edges') = [SeenEdges(edges) EXCEPT ![e] =
          [name |-> name, from |-> from, to |-> to]]
  BY <1>1, <1>4, <1>6 DEF SeenEdges, EdgeTables
<1>8. /\ SeenEdges(edges)[e] = Absent
      /\ Seen(reg', content') = Seen(reg, content)
  BY <1>1 DEF SeenEdges
<1> QED
  BY <1>5, <1>7, <1>8 DEF Store!StoreRelate, Seen, SeenEdges, PlainEdge

LEMMA UnrelateImplements ==
    ASSUME CollectionInv, NEW e \in EdgeIds, DeleteRelationship(e)
    PROVE  Store!StoreUnrelate(e)
<1>1. /\ edges[e] # Absent /\ edges' = [edges EXCEPT ![e] = Absent]
      /\ reg' = reg /\ content' = content
  BY DEF DeleteRelationship
<1>2. edges \in EdgeTables /\ edges[e] \in EdgeRow
  BY <1>1 DEF CollectionInv, RowTypes, EdgeTables
<1>3. PlainEdge(edges[e]) # Absent
  BY <1>2, PerCollectionAssumption DEF PlainEdge, EdgeRow
<1>4. SeenEdges(edges)[e] # Absent
  BY <1>1, <1>3 DEF SeenEdges
<1>5. SeenEdges(edges') = [SeenEdges(edges) EXCEPT ![e] = Absent]
  BY <1>1, <1>2 DEF SeenEdges, EdgeTables
<1>6. Seen(reg', content') = Seen(reg, content)
  BY <1>1
<1> QED
  BY <1>4, <1>5, <1>6 DEF Store!StoreUnrelate, Seen, SeenEdges, PlainEdge

LEMMA StepImplements ==
    ASSUME CollectionInv, NEW c \in Callers, Step(c)
    PROVE  Store!StoreNext \/ UNCHANGED Store!storeVars
<1>1. CASE CreateCommit(c)
  <2>1. PICK id \in Ids, ty \in Types, props \in Store!Documents :
            Store!StoreCreate(id, ty, props)
    BY <1>1, CreateImplements
  <2> QED
    BY <2>1 DEF Store!StoreNext
<1>2. CASE UpsertCommit(c)
  <2>1. pc[c] \in Wrote
    BY <1>2 DEF UpsertCommit, Wrote
  <2>2. Inserts(tx[c], reg, content) \/ Merges(tx[c], reg, content)
    BY <2>1, HasWritten
  <2>3. PICK id \in Ids, ty \in Types, props \in Store!Documents, key \in UniqueKeys :
            Store!StoreMerge(id, ty, props, key) \/ Store!StoreInsert(id, ty, props, key)
    BY <1>2, <2>2, InsertImplements, MergeImplements
  <2> QED
    BY <2>3 DEF Store!StoreNext
<1>3. CASE ~CreateCommit(c) /\ ~UpsertCommit(c)
  <2>1. UNCHANGED <<reg, content, edges>>
    BY <1>3 DEF Step, CreateRegister, CreateInsert, CreateLink, CreateLinkFails, Rollback,
        UpsertReadActive, UpsertInsert, UpsertMerge, UpsertRow, UpsertRegister
  <2> QED
    BY <2>1, SeenStutter
<1> QED
  BY <1>1, <1>2, <1>3

\* Seen through the registry, one table per collection is the one-table backend:
\* a commit is one of its methods, whatever other transactions do meanwhile, and
\* no step in between shows.
THEOREM CollectionsImplementStore == Spec => ImplementsStore
<1>1. Init => Store!StoreInit
  BY DEF Init, Store!StoreInit
<1>2. CollectionInv /\ [Next]_vars => [Store!StoreNext]_(Store!storeVars)
  <2> SUFFICES ASSUME CollectionInv, [Next]_vars
               PROVE  Store!StoreNext \/ UNCHANGED Store!storeVars
    OBVIOUS
  <2>1. CASE \E c \in Callers : Step(c)
    BY <2>1, StepImplements
  <2>2. CASE \E id \in Ids, patch \in Documents : UpdateEntity(id, patch)
    <3>1. PICK id \in Ids, patch \in Documents : UpdateEntity(id, patch)
      BY <2>2
    <3>2. Store!StoreUpdate(id, patch) /\ patch \in Store!Documents
      BY <3>1, UpdateImplements DEF Documents, Store!Documents
    <3> QED
      BY <3>2 DEF Store!StoreNext
  <2>3. CASE \E id \in Ids : DeleteEntity(id)
    <3>1. PICK id \in Ids : Store!StoreDelete(id)
      BY <2>3, DeleteImplements
    <3> QED
      BY <3>1 DEF Store!StoreNext
  <2>4. CASE \E e \in EdgeIds, name \in Labels, from, to \in Ids :
                CreateRelationship(e, name, from, to)
    <3>1. PICK e \in EdgeIds, name \in Labels, from \in Ids, to \in Ids :
              Store!StoreRelate(e, name, from, to)
      BY <2>4, RelateImplements
    <3> QED
      BY <3>1 DEF Store!StoreNext
  <2>5. CASE \E e \in EdgeIds : DeleteRelationship(e)
    <3>1. PICK e \in EdgeIds : Store!StoreUnrelate(e)
      BY <2>5, UnrelateImplements
    <3> QED
      BY <3>1 DEF Store!StoreNext
  <2>6. CASE \E s \in Schemas : Activate(s)
    BY <2>6, SeenStutter DEF Activate
  <2>7. CASE UNCHANGED vars
    BY <2>7, SeenStutter DEF vars
  <2> QED
    BY <2>1, <2>2, <2>3, <2>4, <2>5, <2>6, <2>7 DEF Next
<1> QED
  BY <1>1, <1>2, CollectionInvariant, PTL DEF Spec, ImplementsStore, Store!StoreSpec
=============================================================================
