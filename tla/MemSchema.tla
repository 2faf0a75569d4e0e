------------------------------ MODULE MemSchema ------------------------------
(***************************************************************************)
(* The in-memory backend's schema manager: src/memory/schema_manager.go.   *)
(* Every method runs under one mutex, so it is one step; Publish takes the *)
(* mutex twice, to read the draft and to append the snapshot, and is two.  *)
(***************************************************************************)
EXTENDS Integers, Sequences, FiniteSets

CONSTANTS
    Docs,           \* schema documents
    Valid,          \* the ones ValidateSchema accepts
    MaxVersions,    \* bound: versions published in a behaviour
    Callers,        \* goroutines that publish, each one call at a time
    Absent          \* nil

ASSUME MemSchemaAssumption ==
    /\ Valid \subseteq Docs
    /\ MaxVersions \in Nat
    /\ Absent \notin Docs
    /\ IsFiniteSet(Callers)

VARIABLES
    schemaDraft,    \* b.schemaDraft
    drafts,         \* history: every draft there has been
    schemaVersions, \* b.schemaVersions
    arg             \* the draft a Publish under way read, or Absent

vars == <<schemaDraft, drafts, schemaVersions, arg>>

Init ==
    /\ schemaDraft = Absent
    /\ drafts = {}
    /\ schemaVersions = <<>>
    /\ arg = [c \in Callers |-> Absent]

SetSchema(d) ==
    /\ schemaDraft' = d
    /\ drafts' = drafts \cup {d}
    /\ UNCHANGED <<schemaVersions, arg>>

\* Bound: publishes under way and published stay within MaxVersions.
RoomToPublish ==
    Len(schemaVersions) + Cardinality({c \in Callers : arg[c] # Absent}) < MaxVersions

\* GetSchema under the mutex, then ValidateSchema.
PublishRead(c) ==
    /\ arg[c] = Absent
    /\ schemaDraft \in Valid
    /\ RoomToPublish
    /\ arg' = [arg EXCEPT ![c] = schemaDraft]
    /\ UNCHANGED <<schemaDraft, drafts, schemaVersions>>

Snapshot(c) ==
    [types |-> arg[c], version |-> Len(schemaVersions) + 1, active |-> FALSE]

PublishAppend(c) ==
    /\ arg[c] # Absent
    /\ schemaVersions' = Append(schemaVersions, Snapshot(c))
    /\ arg' = [arg EXCEPT ![c] = Absent]
    /\ UNCHANGED <<schemaDraft, drafts>>

\* Mutant: the flags are cleared before the version is looked for.
ActivateClearsFirst(v) ==
    /\ schemaVersions' = [i \in DOMAIN schemaVersions |->
            [schemaVersions[i] EXCEPT !.active = schemaVersions[i].version = v]]
    /\ UNCHANGED <<schemaDraft, drafts, arg>>

\* An unknown version returns ErrSchemaNotFound before any flag is touched.
Activate(v) ==
    /\ \E i \in DOMAIN schemaVersions : schemaVersions[i].version = v
    /\ schemaVersions' = [i \in DOMAIN schemaVersions |->
            [schemaVersions[i] EXCEPT !.active = schemaVersions[i].version = v]]
    /\ UNCHANGED <<schemaDraft, drafts, arg>>

Next ==
    \/ \E d \in Docs : SetSchema(d)
    \/ \E c \in Callers : PublishRead(c) \/ PublishAppend(c)
    \/ \E v \in 1..MaxVersions : Activate(v)

Spec == Init /\ [][Next]_vars
-----------------------------------------------------------------------------
\* GetActive answers the first version whose flag is set.
Live ==
    LET set == {i \in DOMAIN schemaVersions : schemaVersions[i].active}
    IN  IF set = {} THEN 0 ELSE CHOOSE i \in set : \A j \in set : i <= j

History ==
    [v \in 1..MaxVersions |->
        IF v \in DOMAIN schemaVersions THEN schemaVersions[v].types ELSE Absent]

Registry == INSTANCE SchemaRegistry WITH
    draft <- schemaDraft, history <- History, live <- Live

\* The backend implements the schema manager's contract, the same one the
\* Postgres backend does, though a SetSchema may come between the two halves
\* of a Publish.
ImplementsRegistry == Registry!RegistrySpec
=============================================================================
