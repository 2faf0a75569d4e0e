----------------------------- MODULE MemEntities -----------------------------
(***************************************************************************)
(* The in-memory backend whole: its entities and relationships             *)
(* (src/memory, entities.go and relationships.go) beside its schema        *)
(* manager, which UpsertEntity asks for the active schema's unique key     *)
(* before it takes the mutex again to look for a match.                    *)
(*                                                                         *)
(* Properties are Go maps.  An entity has a copy of the one in the request *)
(* (cloneProps), but the one in an answer is the entity's own, and callers *)
(* may write into it.  Two goroutines in one map at once, which stops the  *)
(* program, and maps shared inside the values are left out.                *)
(***************************************************************************)
EXTENDS MemSchema

CONSTANTS
    Ids, EdgeIds,   \* ids uuid.NewString may hand out
    Types, Labels,  \* names of types and of relationships
    Props,          \* property names
    Documents,      \* what a map may hold: values, as JSON, of some properties
    Unencodable,    \* values that have no JSON, such as a NaN
    Nil,            \* a nil map
    UniqueKey       \* the unique key, by document and type

\* for k, v := range patch { props[k] = v }
Written(props, patch) ==
    [k \in DOMAIN props \cup DOMAIN patch |-> IF k \in DOMAIN patch THEN patch[k] ELSE props[k]]

ASSUME MemEntitiesAssumption ==
    /\ \A d \in Docs, t \in Types : UniqueKey[d][t] \in Seq(Props)
    /\ \A m \in Documents : DOMAIN m \subseteq Props
    /\ Nil \notin Documents /\ <<>> \in Documents
    /\ \A m, n \in Documents : Written(m, n) \in Documents

VARIABLES
    entities,       \* b.entities
    edges,          \* b.relationships
    key             \* the type and unique key an UpsertEntity under way read

entityVars == <<entities, edges, key>>
allVars == <<vars, entityVars>>

IsLive(id) == entities[id] # Absent /\ ~entities[id].deleted

MemInit ==
    /\ Init
    /\ entities = [id \in Ids |-> Absent]
    /\ edges = [e \in EdgeIds |-> Absent]
    /\ key = [c \in Callers |-> Absent]

\* What a map holds; nil reads as an empty one.
Content(m) == IF m = Nil THEN <<>> ELSE m

\* A new entity, with a copy of the request's map or nil for nil (cloneProps); by
\* and moved are history: the unique key of the UpsertEntity that made it, and
\* whether its properties in that key have changed since.
Put(id, t, m, by) ==
    /\ entities[id] = Absent
    /\ entities' = [entities EXCEPT ![id] =
            [type |-> t, props |-> m, deleted |-> FALSE, by |-> by, moved |-> FALSE]]

\* The relationships of the request are stored unchecked.
CreateEntity(id, t, m, links) ==
    /\ Put(id, t, m, <<>>)
    /\ \A e \in DOMAIN links : edges[e] = Absent /\ links[e].from = id
    /\ edges' = [e \in EdgeIds |-> IF e \in DOMAIN links THEN links[e] ELSE edges[e]]
    /\ UNCHANGED <<vars, key>>

KeyOf(fields, props) ==
    [i \in DOMAIN fields |-> IF fields[i] \in DOMAIN props THEN props[fields[i]] ELSE Nil]

\* The entity's map is written in place, or made when it was nil.
SetContent(id, now) ==
    LET old == entities[id] IN
    entities' = [entities EXCEPT ![id].props = now,
                 ![id].moved = @ \/ KeyOf(old.by, now) # KeyOf(old.by, Content(old.props))]

Merge(id, m) == SetContent(id, Written(Content(entities[id].props), Content(m)))

UpdateEntity(id, m) ==
    /\ IsLive(id)
    /\ Merge(id, m)
    /\ UNCHANGED <<vars, edges, key>>

DeleteEntity(id) ==
    /\ IsLive(id)
    /\ entities' = [entities EXCEPT ![id].deleted = TRUE]
    /\ UNCHANGED <<vars, edges, key>>

\* UpsertEntity: GetActive under the mutex, FindTypeDef, and the refusal of a
\* type with no unique key.
UpsertRead(c, t) ==
    LET fields == UniqueKey[schemaVersions[Live].types][t] IN
    /\ key[c] = Absent /\ arg[c] = Absent
    /\ Live # 0
    /\ fields # <<>>
    /\ key' = [key EXCEPT ![c] = [type |-> t, fields |-> fields]]
    /\ UNCHANGED <<vars, entities, edges>>

\* Mutant: a property that is missing matches nothing.
uniqueKeyMatchesPresent(existing, candidate, fields) ==
    \A i \in DOMAIN fields :
        /\ fields[i] \in DOMAIN existing /\ fields[i] \in DOMAIN candidate
        /\ existing[fields[i]] = candidate[fields[i]]

Encodable(values) == \A i \in DOMAIN values : values[i] \notin Unencodable

\* uniqueKeyMatches with equalJSON: equal as JSON, nil counting as equal to nil,
\* and a value that has no JSON as equal to none.
uniqueKeyMatches(existing, candidate, fields) ==
    /\ Encodable(KeyOf(fields, existing)) /\ Encodable(KeyOf(fields, candidate))
    /\ KeyOf(fields, existing) = KeyOf(fields, candidate)

Matches(c, m) ==
    {id \in Ids : IsLive(id) /\ entities[id].type = key[c].type
                  /\ uniqueKeyMatches(Content(entities[id].props), Content(m), key[c].fields)}

\* The rest, under the mutex: some match is merged into (a Go map has no
\* order), or the entity is new.
UpsertWrite(c, id, m) ==
    /\ key[c] # Absent
    /\ IF Matches(c, m) # {}
       THEN id \in Matches(c, m) /\ Merge(id, m)
       ELSE Put(id, key[c].type, m, key[c].fields)
    /\ key' = [key EXCEPT ![c] = Absent]
    /\ UNCHANGED <<vars, edges>>

CreateRelationship(e, name, from, to) ==
    /\ edges[e] = Absent
    /\ IsLive(from) /\ IsLive(to)
    /\ edges' = [edges EXCEPT ![e] = [name |-> name, from |-> from, to |-> to]]
    /\ UNCHANGED <<vars, entities, key>>

DeleteRelationship(e) ==
    /\ edges[e] # Absent
    /\ edges' = [edges EXCEPT ![e] = Absent]
    /\ UNCHANGED <<vars, entities, key>>

\* A caller writes into the map of an answer.  Every call that makes or changes
\* an entity answers it, so each map of an entity is in some caller's hands.
AnswerWritten(id, props) ==
    /\ entities[id] # Absent /\ entities[id].props # Nil
    /\ SetContent(id, props)
    /\ UNCHANGED <<vars, edges, key>>
-----------------------------------------------------------------------------
Edges == [name : Labels, from : Ids, to : Ids]

\* A caller is in one call at a time.
MemNext ==
    \/ /\ Next
       /\ \A c \in Callers : arg'[c] # Absent => key[c] = Absent
       /\ UNCHANGED entityVars
    \/ \E id \in Ids, m \in Documents \cup {Nil} :
        \/ \E t \in Types, links \in UNION {[S -> Edges] : S \in SUBSET EdgeIds} :
            CreateEntity(id, t, m, links)
        \/ UpdateEntity(id, m)
        \/ \E c \in Callers : UpsertWrite(c, id, m)
    \/ \E id \in Ids : DeleteEntity(id)
    \/ \E c \in Callers, t \in Types : UpsertRead(c, t)
    \/ \E e \in EdgeIds :
        \/ \E r \in Edges : CreateRelationship(e, r.name, r.from, r.to)
        \/ DeleteRelationship(e)
    \/ \E id \in Ids, props \in Documents : AnswerWritten(id, props)

MemSpec == MemInit /\ [][MemNext]_allVars
-----------------------------------------------------------------------------
\* Two live entities of a type that UpsertEntity made under the same unique
\* key, neither of whose key properties was changed since, differ in the key,
\* however upserts, publications and activations interleave: the scan and the
\* insert are one critical section, and a missing property matches a missing one.
\* A key with a value that has no JSON matches nothing and is left out.
UpsertsDoNotMultiply ==
    \A a, b \in Ids :
        (/\ a # b /\ IsLive(a) /\ IsLive(b)
         /\ entities[a].type = entities[b].type
         /\ entities[a].by = entities[b].by /\ entities[a].by # <<>>
         /\ Encodable(KeyOf(entities[a].by, Content(entities[a].props)))
         /\ ~entities[a].moved /\ ~entities[b].moved) =>
            KeyOf(entities[a].by, Content(entities[a].props)) #
            KeyOf(entities[b].by, Content(entities[b].props))
=============================================================================
