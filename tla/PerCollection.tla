---------------------------- MODULE PerCollection ----------------------------
(***************************************************************************)
(* PerCollectionBackend of src/postgres: a table of entities for each      *)
(* collection, a table of relationships for each declared pair of types,   *)
(* and one registry that says which type an id has (percollection.go over  *)
(* the tables of percollection_ddl.go).                                    *)
(*                                                                         *)
(* CreateEntity and UpsertEntity write several tables in a transaction,    *)
(* statement by statement.  Postgres at Read Committed is external: nobody *)
(* sees a row before its transaction commits; a writer of a row, or of an  *)
(* entry of a unique index, waits for the transaction that wrote it and    *)
(* then works on what that one left; a foreign key asks for a committed    *)
(* row or one of its own transaction.                                      *)
(***************************************************************************)
EXTENDS Integers, Sequences

CONSTANTS
    Callers,    \* goroutines, each in one transaction at a time
    Ids, EdgeIds, Types, Labels, Props, Values, Null, Absent, \* as in EntityStore
    Tables,     \* the distinct collections
    TableFor,   \* the collection of each type of the backend's schema
    Declared,   \* its relationships with a storage table, in schema order
    Schemas,    \* documents that may be active, now or later
    UniqueKey   \* the unique key of each type of each such document

VARIABLES
    reg,        \* committed rows of the id registry: the type of each id
    content,    \* committed rows of each collection
    edges,      \* committed rows of the relationship tables
    active,     \* the active schema
    pc,         \* the statement each caller comes to next
    tx          \* what its call was asked for and has written, uncommitted

vars == <<reg, content, edges, active, pc, tx>>

\* UpsertEntity's key: a property the request lacks is null in it.
KeyOf(fields, props) ==
    [i \in DOMAIN fields |->
        IF fields[i] \in DOMAIN props THEN props[fields[i]] ELSE Null]

Documents == UNION {[S -> Values] : S \in SUBSET Props}

\* A type whose UniqueKey is empty has none.
UniqueKeys ==
    {KeyOf(UniqueKey[s][t], props) :
        s \in Schemas, t \in Types, props \in Documents} \ {<<>>}

RowType ==
    [type : Types, props : Documents, key : UniqueKeys \cup {Null}, deleted : BOOLEAN]

\* A row of a relationship table.
EdgeRow ==
    [table : {Declared[i].table : i \in DOMAIN Declared},
     name : Labels, from : Ids, to : Ids]

ASSUME PerCollectionAssumption ==
    /\ DOMAIN TableFor = Types
    /\ \A t \in Types : TableFor[t] \in Tables
    /\ Declared \in Seq([from : Types, name : Labels, to : Types, table : STRING])
    /\ \A s \in Schemas, t \in Types : UniqueKey[s][t] \in Seq(Props)
    /\ Absent \notin Schemas /\ Absent \notin Types /\ Absent \notin Ids
    /\ Absent \notin RowType /\ Absent \notin EdgeRow
    /\ Absent \notin [name : Labels, from : Ids, to : Ids]
    /\ Null \notin Values /\ Null \notin UniqueKeys

\* relationshipEdges: of the declarations that name one table, the first.
RelationshipEdges ==
    {i \in DOMAIN Declared : \A j \in DOMAIN Declared :
        Declared[j].table = Declared[i].table => i <= j}

\* relTableFor: of the tables of one name, the last.  Its foreign keys are to
\* the collections of the two types it was declared between.
HasTable(name) == \E i \in RelationshipEdges : Declared[i].name = name
RelTableFor(name) ==
    Declared[CHOOSE i \in RelationshipEdges :
        /\ Declared[i].name = name
        /\ \A j \in RelationshipEdges : Declared[j].name = name => j <= i]

Store == INSTANCE EntityStore WITH
    Keys <- UniqueKeys,
    entities <- [id \in Ids |->
        IF reg[id] = Absent THEN Absent ELSE content[TableFor[reg[id]]][id]],
    edges <- [e \in EdgeIds |->
        IF edges[e] = Absent THEN Absent
        ELSE [name |-> edges[e].name, from |-> edges[e].from, to |-> edges[e].to]]

\* The entity asked for, the unique key's fields and the relationships left to
\* write; the registry, entity and relationship rows written.  `matched` is
\* history: the entities an upsert's key values matched.
NoTx ==
    [req |-> Absent, fields |-> <<>>, left |-> <<>>,
     id |-> Absent, type |-> Absent, row |-> Absent, new |-> <<>>, matched |-> {}]

Init ==
    /\ reg = [id \in Ids |-> Absent]
    /\ content = [tb \in Tables |-> [id \in Ids |-> Absent]]
    /\ edges = [e \in EdgeIds |-> Absent]
    /\ active = Absent
    /\ pc = [c \in Callers |-> "idle"]
    /\ tx = [c \in Callers |-> NoTx]

Goto(c, place) == pc' = [pc EXCEPT ![c] = place]

\* An id uuid.NewString has not handed out, in a table or a transaction.
FreshId(id) ==
    /\ \A tb \in Tables : content[tb][id] = Absent
    /\ reg[id] = Absent
    /\ \A d \in Callers : tx[d].id # id

FreshEdge(e) == edges[e] = Absent /\ \A d \in Callers : e \notin DOMAIN tx[d].new

End(c) == Goto(c, "idle") /\ tx' = [tx EXCEPT ![c] = NoTx]

\* A statement fails or the connection goes: the transaction leaves nothing.
Rollback(c) ==
    /\ pc[c] # "idle"
    /\ End(c)
    /\ UNCHANGED <<reg, content, edges, active>>
-----------------------------------------------------------------------------
\* CreateEntity's first statement registers the id.
CreateRegister(c, id, t, props, links) ==
    /\ pc[c] = "idle"
    /\ FreshId(id)
    /\ tx' = [tx EXCEPT ![c] =
            [NoTx EXCEPT !.req = Store!Entity(t, props, Null), !.left = links,
                         !.id = id, !.type = t]]
    /\ Goto(c, "create")
    /\ UNCHANGED <<reg, content, edges, active>>

CreateInsert(c) ==
    /\ pc[c] = "create"
    /\ tx' = [tx EXCEPT ![c].row = tx[c].req]
    /\ Goto(c, "link")
    /\ UNCHANGED <<reg, content, edges, active>>

\* Mutant: the foreign keys are to the registry, whatever the type.
LinkableToRegistry(name, fromRow, to) ==
    HasTable(name) /\ fromRow # Absent /\ reg[to] # Absent

\* A row of name's table holds: there is one, and it finds its endpoints.
Linkable(name, fromRow, to) ==
    /\ HasTable(name)
    /\ fromRow # Absent
    /\ TableFor[fromRow.type] = TableFor[RelTableFor(name).from]
    /\ content[TableFor[RelTableFor(name).to]][to] # Absent

Edge(name, from, to) ==
    [table |-> RelTableFor(name).table, name |-> name, from |-> from, to |-> to]

CreateLink(c, e) ==
    /\ pc[c] = "link"
    /\ tx[c].left # <<>>
    /\ FreshEdge(e)
    /\ LET rel == Head(tx[c].left) IN
        /\ Linkable(rel.name, tx[c].row, rel.to)
        /\ tx' = [tx EXCEPT
                ![c].left = Tail(@),
                ![c].new = [f \in DOMAIN @ \cup {e} |->
                    IF f = e THEN Edge(rel.name, tx[c].id, rel.to) ELSE @[f]]]
    /\ UNCHANGED <<reg, content, edges, active, pc>>

CreateLinkFails(c) ==
    /\ pc[c] = "link"
    /\ tx[c].left # <<>>
    /\ ~Linkable(Head(tx[c].left).name, tx[c].row, Head(tx[c].left).to)
    /\ Rollback(c)

\* A transaction commits the rows it wrote.
Commit(c) ==
    LET t == tx[c] IN
    /\ reg' = [reg EXCEPT ![t.id] = IF t.type = Absent THEN @ ELSE t.type]
    /\ content' = [content EXCEPT ![TableFor[t.row.type]][t.id] = t.row]
    /\ edges' = [e \in EdgeIds |-> IF e \in DOMAIN t.new THEN t.new[e] ELSE edges[e]]
    /\ End(c)
    /\ UNCHANGED active

CreateCommit(c) ==
    /\ pc[c] = "link"
    /\ tx[c].left = <<>>
    /\ Commit(c)
-----------------------------------------------------------------------------
\* GetActive, FindTypeDef and the UniqueKey; the call ends here if there is no
\* active schema or no key.  What it read is used by a later statement.
UpsertReadActive(c, t, props) ==
    /\ pc[c] = "idle"
    /\ active # Absent
    /\ UniqueKey[active][t] # <<>>
    /\ tx' = [tx EXCEPT ![c] =
            [NoTx EXCEPT !.req = Store!Entity(t, props, KeyOf(UniqueKey[active][t], props)),
                         !.fields = UniqueKey[active][t]]]
    /\ Goto(c, "upsert")
    /\ UNCHANGED <<reg, content, edges, active>>

\* Mutant: an upsert's row is not locked to the end of its transaction.
LocksNone(c, id) == FALSE

\* c's transaction has written the row of id and not ended.
Locks(c, id) == pc[c] \in {"register", "commit"} /\ tx[c].id = id

\* Mutant: the unique index is not waited for.
KeyFreeAtOnce(c) == TRUE

\* No other transaction holds an entry of the unique index for c's key.
KeyFree(c) ==
    \A d \in Callers \ {c} : pc[d] \in {"register", "commit"} =>
        tx[d].row.type # tx[c].req.type \/ tx[d].row.key # tx[c].req.key

Collection(c) == content[TableFor[tx[c].req.type]]

Conflicting(c) ==
    {id \in Ids : Store!HasKey(Collection(c)[id], tx[c].req.type, tx[c].req.key)}

Matching(c) ==
    {id \in Ids :
        /\ Store!IsLive(Collection(c)[id])
        /\ Collection(c)[id].type = tx[c].req.type
        /\ KeyOf(tx[c].fields, Collection(c)[id].props) = tx[c].req.key}

\* insert ... on conflict do update: a new row, or the one in the way patched.
UpsertRow(c, id, row) ==
    /\ KeyFree(c)
    /\ tx' = [tx EXCEPT ![c].id = id, ![c].row = row, ![c].matched = Matching(c)]
    /\ Goto(c, "register")
    /\ UNCHANGED <<reg, content, edges, active>>

UpsertInsert(c, id) ==
    /\ pc[c] = "upsert"
    /\ Conflicting(c) = {}
    /\ FreshId(id)
    /\ UpsertRow(c, id, tx[c].req)

UpsertMerge(c, id) ==
    /\ pc[c] = "upsert"
    /\ id \in Conflicting(c)
    /\ UpsertRow(c, id,
            [Collection(c)[id] EXCEPT !.props = Store!Patched(@, tx[c].req.props)])

\* Mutant: an upsert does not register its entity.
UpsertRegisterSkipped(c) ==
    /\ pc[c] = "register"
    /\ Goto(c, "commit")
    /\ UNCHANGED <<reg, content, edges, active, tx>>

\* insert into the registry ... on conflict do nothing
UpsertRegister(c) ==
    /\ pc[c] = "register"
    /\ tx' = [tx EXCEPT ![c].type =
            IF reg[tx[c].id] = Absent THEN tx[c].req.type ELSE Absent]
    /\ Goto(c, "commit")
    /\ UNCHANGED <<reg, content, edges, active>>

UpsertCommit(c) == pc[c] = "commit" /\ Commit(c)
-----------------------------------------------------------------------------
\* resolveTable, GetEntity: where the registry says the id is.
ResolveTable(id) == TableFor[reg[id]]
GetEntity(id) ==
    IF reg[id] = Absent \/ ~Store!IsLive(content[ResolveTable(id)][id]) THEN Absent
    ELSE content[ResolveTable(id)][id]

\* A registry row never changes, so the lookup and the statement are one step.
UpdateEntity(id, patch) ==
    /\ GetEntity(id) # Absent
    /\ \A c \in Callers : ~Locks(c, id)
    /\ content' = [content EXCEPT ![ResolveTable(id)][id].props = Store!Patched(@, patch)]
    /\ UNCHANGED <<reg, edges, active, pc, tx>>

DeleteEntity(id) ==
    /\ GetEntity(id) # Absent
    /\ \A c \in Callers : ~Locks(c, id)
    /\ content' = [content EXCEPT ![ResolveTable(id)][id].deleted = TRUE]
    /\ UNCHANGED <<reg, edges, active, pc, tx>>

CreateRelationship(e, name, from, to) ==
    /\ FreshEdge(e)
    /\ HasTable(name)
    /\ Linkable(name, content[TableFor[RelTableFor(name).from]][from], to)
    /\ edges' = [edges EXCEPT ![e] = Edge(name, from, to)]
    /\ UNCHANGED <<reg, content, active, pc, tx>>

\* DeleteRelationship goes through the tables until one has the id.
DeleteRelationship(e) ==
    /\ edges[e] # Absent
    /\ edges' = [edges EXCEPT ![e] = Absent]
    /\ UNCHANGED <<reg, content, active, pc, tx>>

\* The schema manager makes another document the active one.
Activate(s) ==
    /\ active' = s
    /\ UNCHANGED <<reg, content, edges, pc, tx>>

\* Bound: a CreateEntity carries at most one relationship.
Links == {<<>>} \cup {<<[name |-> n, to |-> id]>> : n \in Labels, id \in Ids}

Step(c) ==
    \/ \E id \in Ids, t \in Types, props \in Documents, links \in Links :
        CreateRegister(c, id, t, props, links)
    \/ CreateInsert(c)
    \/ \E e \in EdgeIds : CreateLink(c, e)
    \/ CreateLinkFails(c) \/ CreateCommit(c)
    \/ \E t \in Types, props \in Documents : UpsertReadActive(c, t, props)
    \/ \E id \in Ids : UpsertInsert(c, id) \/ UpsertMerge(c, id)
    \/ UpsertRegister(c) \/ UpsertCommit(c)
    \/ Rollback(c)

Next ==
    \/ \E c \in Callers : Step(c)
    \/ \E id \in Ids, patch \in Documents : UpdateEntity(id, patch)
    \/ \E id \in Ids : DeleteEntity(id)
    \/ \E e \in EdgeIds, name \in Labels, from, to \in Ids :
        CreateRelationship(e, name, from, to)
    \/ \E e \in EdgeIds : DeleteRelationship(e)
    \/ \E s \in Schemas : Activate(s)

Spec == Init /\ [][Next]_vars
-----------------------------------------------------------------------------
\* ListEntities, over every collection.
ListEntities == {id \in Ids : \E tb \in Tables : Store!IsLive(content[tb][id])}

\* What ListEntities shows, GetEntity, UpdateEntity and DeleteEntity reach, and
\* the other way round: an entity and its registration come together, whichever
\* of the two methods made it and however it overlapped or failed.
ListedIsReached == \A id \in Ids : id \in ListEntities <=> GetEntity(id) # Absent

\* At most one live entity per type and unique key, though upserts of one key
\* overlap under different active schemas.
OneLivePerKey ==
    \A tb1, tb2 \in Tables, i, j \in Ids :
        /\ Store!IsLive(content[tb1][i]) /\ Store!IsLive(content[tb2][j])
        /\ content[tb1][i].type = content[tb2][j].type
        /\ content[tb1][i].key = content[tb2][j].key
        /\ content[tb1][i].key # Null
        => i = j

\* A relationship's endpoints are in the collections its table was declared
\* between, deleted or not, for inline relationships too.
EndpointsFit ==
    \A e \in EdgeIds : edges[e] # Absent =>
        \E i \in RelationshipEdges :
            /\ Declared[i].table = edges[e].table
            /\ content[TableFor[Declared[i].from]][edges[e].from] # Absent
            /\ content[TableFor[Declared[i].to]][edges[e].to] # Absent

\* Seen through the registry the backend is postgres.Backend: each commit is
\* one of its methods, and nothing else shows.
ImplementsStore == Store!StoreSpec

\* "If a non-deleted entity whose UniqueKey property values match the request
\* already exists, its properties are patched".  Refuted: UpsertEntity looks at
\* the unique_key column, which CreateEntity leaves null and UpdateEntity leaves
\* as it was.
UpsertFindsMatch ==
    \A c \in Callers :
        pc[c] = "register" /\ tx[c].matched # {} => tx[c].id \in tx[c].matched
=============================================================================
