----------------------------- MODULE EntityStore -----------------------------
(***************************************************************************)
(* Entities and relationships as postgres.Backend keeps them: one table of *)
(* entities for all types and one of relationships (src/postgres,          *)
(* entities.go and relationships.go over the tables of ddl.go).            *)
(*                                                                         *)
(* Each method writes in one statement, and CreateEntity in a transaction  *)
(* whose rows have fresh ids and which nobody sees before it commits, so   *)
(* each is one step.  It is the reference for the backend with one table   *)
(* per collection, which says of itself that it mirrors this one.          *)
(***************************************************************************)
CONSTANTS
    Ids,        \* ids uuid.NewString may hand out for entities
    EdgeIds,    \* ids it may hand out for relationships
    Types,      \* names of types
    Labels,     \* names of relationships
    Props,      \* property names
    Values,     \* property values, as JSON
    Keys,       \* what a unique key may be: values in the order of UniqueKey
    Null,       \* no unique key, and JSON's null
    Absent      \* no row

VARIABLES
    entities,   \* the entities table
    edges       \* the relationships table

storeVars == <<entities, edges>>

\* What a request or a row may hold: a value for each of some properties.
Documents == UNION {[S -> Values] : S \in SUBSET Props}

\* jsonb ||: what the patch does not mention stays.
Patched(props, patch) ==
    [k \in DOMAIN props \cup DOMAIN patch |->
        IF k \in DOMAIN patch THEN patch[k] ELSE props[k]]

Entity(t, props, key) ==
    [type |-> t, props |-> props, key |-> key, deleted |-> FALSE]

IsLive(row) == row # Absent /\ ~row.deleted

\* The index entry UpsertEntity conflicts with.
HasKey(row, t, key) == IsLive(row) /\ row.type = t /\ row.key = key

StoreInit ==
    /\ entities = [id \in Ids |-> Absent]
    /\ edges = [e \in EdgeIds |-> Absent]

EdgeType == [name : Labels, from : Ids, to : Ids]
NewEdges == UNION {[S -> EdgeType] : S \in SUBSET EdgeIds}

\* The relationships a request carries come with the entity, or it does not.
StoreCreate(id, t, props) ==
    /\ entities[id] = Absent
    /\ entities' = [entities EXCEPT ![id] = Entity(t, props, Null)]
    /\ \E new \in NewEdges :
        /\ \A e \in DOMAIN new :
            edges[e] = Absent /\ new[e].from = id /\ entities[new[e].to] # Absent
        /\ edges' = [e \in EdgeIds |-> IF e \in DOMAIN new THEN new[e] ELSE edges[e]]

StoreUpdate(id, patch) ==
    /\ IsLive(entities[id])
    /\ entities' = [entities EXCEPT ![id].props = Patched(@, patch)]
    /\ UNCHANGED edges

StoreDelete(id) ==
    /\ IsLive(entities[id])
    /\ entities' = [entities EXCEPT ![id].deleted = TRUE]
    /\ UNCHANGED edges

\* on conflict (type_id, unique_key) do update
StoreMerge(id, t, props, key) ==
    /\ HasKey(entities[id], t, key)
    /\ entities' = [entities EXCEPT ![id].props = Patched(@, props)]
    /\ UNCHANGED edges

StoreInsert(id, t, props, key) ==
    /\ entities[id] = Absent
    /\ \A m \in Ids : ~HasKey(entities[m], t, key)
    /\ entities' = [entities EXCEPT ![id] = Entity(t, props, key)]
    /\ UNCHANGED edges

\* The foreign keys ask for rows, deleted or not.
StoreRelate(e, name, from, to) ==
    /\ edges[e] = Absent
    /\ entities[from] # Absent /\ entities[to] # Absent
    /\ edges' = [edges EXCEPT ![e] = [name |-> name, from |-> from, to |-> to]]
    /\ UNCHANGED entities

StoreUnrelate(e) ==
    /\ edges[e] # Absent
    /\ edges' = [edges EXCEPT ![e] = Absent]
    /\ UNCHANGED entities

StoreNext ==
    \/ \E id \in Ids, t \in Types, props \in Documents : StoreCreate(id, t, props)
    \/ \E id \in Ids, patch \in Documents : StoreUpdate(id, patch)
    \/ \E id \in Ids : StoreDelete(id)
    \/ \E id \in Ids, t \in Types, props \in Documents, key \in Keys :
        StoreMerge(id, t, props, key) \/ StoreInsert(id, t, props, key)
    \/ \E e \in EdgeIds, name \in Labels, from, to \in Ids : StoreRelate(e, name, from, to)
    \/ \E e \in EdgeIds : StoreUnrelate(e)

StoreSpec == StoreInit /\ [][StoreNext]_storeVars
=============================================================================
