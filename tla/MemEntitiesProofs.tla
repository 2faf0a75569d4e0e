-------------------------- MODULE MemEntitiesProofs --------------------------
(***************************************************************************)
(* Proofs about the in-memory backend for any callers, documents, types    *)
(* and entities: upserts of one key find each other, whatever callers      *)
(* write into the answers they hold, and the schema manager implements the *)
(* contract of SchemaRegistry.                                             *)
(***************************************************************************)
EXTENDS MemEntities, FiniteSetTheorems, TLAPS

Publishing == {c \in Callers : arg[c] # Absent}

Snapshots == [types : Valid, version : Nat, active : BOOLEAN]

VersionTypes ==
    /\ schemaVersions \in Seq(Snapshots)
    /\ arg \in [Callers -> Valid \cup {Absent}]

\* Every version has its place for its number, and at most one is active.
Numbered ==
    /\ \A i \in DOMAIN schemaVersions : schemaVersions[i].version = i
    /\ \A i, j \in DOMAIN schemaVersions :
        schemaVersions[i].active /\ schemaVersions[j].active => i = j

\* What is published, or read to be published, was a draft.
WereDrafts ==
    /\ schemaDraft # Absent => schemaDraft \in drafts
    /\ \A c \in Callers : arg[c] # Absent => arg[c] \in drafts
    /\ \A i \in DOMAIN schemaVersions : schemaVersions[i].types \in drafts

\* Every Publish under way has a number left to take.
RoomLeft == Len(schemaVersions) + Cardinality(Publishing) <= MaxVersions

VersionsInv == VersionTypes /\ Numbered /\ WereDrafts /\ RoomLeft

EntityType ==
    [type : Types, props : Documents \cup {Nil}, deleted : BOOLEAN, by : Seq(Props), moved : BOOLEAN]

EntityTypes ==
    /\ DOMAIN entities = Ids
    /\ DOMAIN key = Callers
    /\ \A id \in Ids : entities[id] # Absent => entities[id] \in EntityType
    /\ \A c \in Callers : key[c] # Absent => key[c] \in [type : Types, fields : Seq(Props)]

MemInv == EntityTypes /\ UpsertsDoNotMultiply

\* The key an entity was made under, as its properties have it now.
Key(id) == KeyOf(entities[id].by, Content(entities[id].props))

\* An entity that counts for UpsertsDoNotMultiply after a step counted before
\* it, with the key it has.
Kept(id) ==
    IsLive(id)' /\ entities'[id].by # <<>> /\ ~entities'[id].moved =>
        /\ IsLive(id) /\ ~entities[id].moved
        /\ entities'[id].type = entities[id].type
        /\ entities'[id].by = entities[id].by
        /\ Key(id)' = Key(id)
-----------------------------------------------------------------------------
(* The schema manager. *)

\* Reading the draft takes one more number of those left.
LEMMA OneMorePublishing ==
  ASSUME NEW S \in SUBSET Callers, NEW c \in Callers
  PROVE  /\ Cardinality(S) \in Nat
         /\ c \notin S => Cardinality(S \cup {c}) = Cardinality(S) + 1
         /\ c \in S => Cardinality(S \ {c}) = Cardinality(S) - 1 /\ Cardinality(S) >= 1
  <1>1. IsFiniteSet(S)
    BY MemSchemaAssumption, FS_Subset
  <1>2. Cardinality(S) \in Nat
    BY <1>1, FS_CardinalityType
  <1>3. c \notin S => Cardinality(S \cup {c}) = Cardinality(S) + 1
    BY <1>1, FS_AddElement
  <1>4. c \in S => Cardinality(S \ {c}) = Cardinality(S) - 1
    BY <1>1, FS_RemoveElement
  <1>5. c \in S => Cardinality(S) # 0
    BY <1>1, FS_EmptySet
  <1> QED
    BY <1>2, <1>3, <1>4, <1>5

\* Nothing is published at the start.
LEMMA InitVersionsInv == Init => VersionsInv
  <1> SUFFICES ASSUME Init PROVE VersionsInv
    OBVIOUS
  <1>1. VersionTypes /\ Numbered /\ WereDrafts
    BY DEF Init, VersionTypes, Numbered, WereDrafts
  <1>2. Publishing = {}
    BY DEF Init, Publishing
  <1>3. RoomLeft
    BY <1>2, FS_EmptySet, MemSchemaAssumption DEF Init, RoomLeft
  <1> QED
    BY <1>1, <1>3 DEF VersionsInv

\* PublishAppend puts a snapshot of what it read, inactive, at the end.
LEMMA Appended ==
  ASSUME VersionTypes, NEW c \in Callers, PublishAppend(c)
  PROVE  LET n == Len(schemaVersions) + 1 IN
         /\ n \in Nat /\ Len(schemaVersions') = n
         /\ schemaVersions' \in Seq(Snapshots)
         /\ DOMAIN schemaVersions = 1..(n - 1) /\ DOMAIN schemaVersions' = 1..n
         /\ \A i \in 1..(n - 1) : schemaVersions'[i] = schemaVersions[i]
         /\ schemaVersions'[n].version = n
         /\ schemaVersions'[n].types = arg[c]
         /\ ~schemaVersions'[n].active
  <1>1. Snapshot(c) \in Snapshots /\ Snapshot(c).version = Len(schemaVersions) + 1
        /\ ~Snapshot(c).active /\ Snapshot(c).types = arg[c]
    BY DEF PublishAppend, Snapshot, Snapshots, VersionTypes
  <1> QED
    BY <1>1 DEF PublishAppend, VersionTypes

\* Activate changes the flags and nothing else of the versions.
LEMMA Flagged ==
  ASSUME VersionTypes, NEW v, Activate(v)
  PROVE  /\ schemaVersions' \in Seq(Snapshots)
         /\ Len(schemaVersions') = Len(schemaVersions)
         /\ DOMAIN schemaVersions' = DOMAIN schemaVersions
         /\ DOMAIN schemaVersions = 1..Len(schemaVersions) /\ Len(schemaVersions) \in Nat
         /\ \A i \in DOMAIN schemaVersions :
                /\ schemaVersions'[i].version = schemaVersions[i].version
                /\ schemaVersions'[i].types = schemaVersions[i].types
                /\ schemaVersions'[i].active <=> schemaVersions[i].version = v
  <1>1. /\ DOMAIN schemaVersions' = DOMAIN schemaVersions
        /\ \A i \in DOMAIN schemaVersions :
            /\ schemaVersions[i] \in Snapshots
            /\ schemaVersions'[i]
                = [schemaVersions[i] EXCEPT !.active = schemaVersions[i].version = v]
    BY DEF VersionTypes, Activate
  <1>2. \A i \in DOMAIN schemaVersions :
            /\ schemaVersions'[i] \in Snapshots
            /\ schemaVersions'[i].version = schemaVersions[i].version
            /\ schemaVersions'[i].types = schemaVersions[i].types
            /\ schemaVersions'[i].active <=> schemaVersions[i].version = v
    BY <1>1 DEF Snapshots
  <1>3. DOMAIN schemaVersions = 1..Len(schemaVersions) /\ Len(schemaVersions) \in Nat
    BY DEF VersionTypes
  <1>4. schemaVersions' \in [1..Len(schemaVersions) -> Snapshots]
    <2>1. schemaVersions' = [i \in DOMAIN schemaVersions |-> schemaVersions'[i]]
      BY DEF Activate
    <2> QED
      BY <1>1, <1>2, <1>3, <2>1
  <1>5. Len(schemaVersions') = Len(schemaVersions) /\ schemaVersions' \in Seq(Snapshots)
    BY <1>3, <1>4
  <1> QED
    BY <1>1, <1>2, <1>3, <1>5

\* Each step of the schema manager keeps its invariant.
LEMMA VersionsKept ==
  ASSUME VersionsInv, [Next]_vars
  PROVE  VersionsInv'
  <1> USE MemSchemaAssumption DEF VersionsInv
  <1>1. ASSUME NEW d \in Docs, SetSchema(d) PROVE VersionsInv'
    <2>1. VersionTypes' /\ Numbered' /\ WereDrafts'
      BY <1>1 DEF SetSchema, VersionTypes, Numbered, WereDrafts
    <2>2. RoomLeft'
      BY <1>1 DEF SetSchema, RoomLeft, Publishing
    <2> QED
      BY <2>1, <2>2
  <1>2. ASSUME NEW c \in Callers, PublishRead(c) PROVE VersionsInv'
    <2> USE <1>2 DEF PublishRead
    <2>1. VersionTypes' /\ Numbered' /\ WereDrafts'
      BY DEF VersionTypes, Numbered, WereDrafts
    <2>2. Publishing' = Publishing \cup {c} /\ c \notin Publishing /\ Publishing \in SUBSET Callers
      BY DEF Publishing, VersionTypes
    <2>3. Len(schemaVersions) \in Nat
      BY DEF VersionTypes
    <2>4. RoomLeft'
      BY <2>2, <2>3, OneMorePublishing DEF RoomLeft, RoomToPublish, Publishing
    <2> QED
      BY <2>1, <2>4
  <1>3. ASSUME NEW c \in Callers, PublishAppend(c) PROVE VersionsInv'
    <2>1. arg' = [arg EXCEPT ![c] = Absent] /\ arg[c] # Absent /\ UNCHANGED <<schemaDraft, drafts>>
      BY <1>3 DEF PublishAppend
    <2>2. VersionTypes'
      BY <1>3, <2>1, Appended DEF VersionTypes
    <2>3. Numbered'
      BY <1>3, Appended DEF Numbered
    <2>4. WereDrafts'
      BY <1>3, <2>1, Appended DEF WereDrafts, VersionTypes
    <2>5. Publishing' = Publishing \ {c} /\ c \in Publishing /\ Publishing \in SUBSET Callers
      BY <2>1 DEF Publishing, VersionTypes
    <2>6. RoomLeft'
      BY <1>3, <2>5, Appended, OneMorePublishing DEF RoomLeft
    <2> QED
      BY <2>2, <2>3, <2>4, <2>6
  <1>4. ASSUME NEW v \in 1..MaxVersions, Activate(v) PROVE VersionsInv'
    <2>1. UNCHANGED <<schemaDraft, drafts, arg>>
      BY <1>4 DEF Activate
    <2>2. VersionTypes'
      BY <1>4, <2>1, Flagged DEF VersionTypes
    <2>3. Numbered'
      BY <1>4, Flagged DEF Numbered
    <2>4. WereDrafts'
      BY <1>4, <2>1, Flagged DEF WereDrafts
    <2>5. RoomLeft'
      BY <1>4, <2>1, Flagged DEF RoomLeft, Publishing
    <2> QED
      BY <2>2, <2>3, <2>4, <2>5
  <1>5. CASE UNCHANGED vars
    BY <1>5 DEF vars, VersionTypes, Numbered, WereDrafts, RoomLeft, Publishing
  <1> QED
    BY <1>1, <1>2, <1>3, <1>4, <1>5 DEF Next

\* The version GetActive answers is the one whose flag is set.
LEMMA LiveIsActive ==
  ASSUME VersionTypes, Numbered
  PROVE  /\ \A i \in DOMAIN schemaVersions : schemaVersions[i].active => Live = i
         /\ Live # 0 => Live \in DOMAIN schemaVersions /\ schemaVersions[Live].active
  <1> DEFINE set == {i \in DOMAIN schemaVersions : schemaVersions[i].active}
  <1>1. \A i, j \in set : i = j
    BY DEF Numbered
  <1>2. set \subseteq Nat
    BY DEF VersionTypes
  <1>3. CASE set = {}
    BY <1>3 DEF Live
  <1>4. ASSUME NEW k \in set PROVE Live = k
    <2>1. \E i \in set : \A j \in set : i <= j
      BY <1>1, <1>2, <1>4
    <2>2. Live \in set
      BY <1>4, <2>1 DEF Live
    <2> QED
      BY <1>1, <2>2
  <1> QED
    BY <1>3, <1>4

\* Each step of the schema manager is a step of the registry or shows nothing.
LEMMA StepImplements ==
  ASSUME VersionsInv, [Next]_vars
  PROVE  [Registry!RegistryNext]_(Registry!registryVars)
  <1> USE MemSchemaAssumption DEF VersionsInv, Registry!VersionNumbers
  <1>1. ASSUME UNCHANGED <<schemaDraft, drafts, schemaVersions>>
        PROVE  UNCHANGED Registry!registryVars
    BY <1>1 DEF Registry!registryVars, History, Live
  <1>0. /\ DOMAIN schemaVersions = 1..Len(schemaVersions) /\ Len(schemaVersions) \in Nat
        /\ \A i \in DOMAIN schemaVersions : schemaVersions[i].types \in Valid
    <2>1. \A i \in DOMAIN schemaVersions : schemaVersions[i] \in Snapshots
      BY DEF VersionTypes
    <2> QED
      BY <2>1 DEF VersionTypes, Snapshots
  <1>2. ASSUME NEW d \in Docs, SetSchema(d) PROVE Registry!RegistryNext
    BY <1>2 DEF SetSchema, Registry!RegistryNext, Registry!RegistrySet, History, Live
  <1>3. ASSUME NEW c \in Callers, PublishAppend(c) PROVE Registry!RegistryNext
    <2> DEFINE n == Len(schemaVersions) + 1
    <2>1. n \in 1..MaxVersions
      <3>1. Publishing \in SUBSET Callers /\ c \in Publishing
        BY <1>3 DEF Publishing, PublishAppend
      <3>2. Len(schemaVersions) \in Nat
        BY DEF VersionTypes
      <3>3. Cardinality(Publishing) \in Nat /\ Cardinality(Publishing) >= 1
        BY <3>1, OneMorePublishing
      <3> QED
        BY <3>2, <3>3 DEF RoomLeft
    <2>2. arg[c] \in drafts \cap Valid /\ UNCHANGED <<schemaDraft, drafts>>
      BY <1>3 DEF PublishAppend, VersionTypes, WereDrafts
    <2>3. \A w \in 1..MaxVersions : History[w] # Absent <=> w < n
      BY <1>0, <2>1 DEF History
    <2>4. History' = [History EXCEPT ![n] = arg[c]]
      <3>1. \A w \in 1..MaxVersions : History'[w] = IF w = n THEN arg[c] ELSE History[w]
        BY <1>0, <1>3, <2>1, Appended DEF History
      <3>2. DOMAIN History = 1..MaxVersions /\ DOMAIN History' = 1..MaxVersions
        BY DEF History
      <3> QED
        BY <2>1, <3>1, <3>2 DEF History
    <2>5. Live' = Live
      <3> DEFINE old == {i \in DOMAIN schemaVersions : schemaVersions[i].active}
                 now == {i \in DOMAIN schemaVersions' : schemaVersions'[i].active}
      <3>1. now = old
        BY <1>3, Appended
      <3>2. Live = IF old = {} THEN 0 ELSE CHOOSE i \in old : \A j \in old : i <= j
        BY DEF Live
      <3>3. Live' = IF now = {} THEN 0 ELSE CHOOSE i \in now : \A j \in now : i <= j
        BY DEF Live
      <3> HIDE DEF old, now
      <3> QED
        BY <3>1, <3>2, <3>3
    <2>6. Registry!RegistryPublish(n, arg[c])
      BY <2>2, <2>3, <2>4, <2>5 DEF Registry!RegistryPublish, Registry!IsNext
    <2> QED
      BY <2>1, <2>2, <2>6 DEF Registry!RegistryNext
  <1>4. ASSUME NEW v \in 1..MaxVersions, Activate(v) PROVE Registry!RegistryNext
    <2>1. v \in DOMAIN schemaVersions /\ UNCHANGED <<schemaDraft, drafts>>
      BY <1>4 DEF Activate, Numbered
    <2>2. History[v] # Absent
      BY <1>0, <2>1 DEF History
    <2>3. History' = History
      BY <1>4, Flagged DEF History
    <2>4. Live' = v
      <3>1. {i \in DOMAIN schemaVersions' : schemaVersions'[i].active} = {v}
        BY <1>4, <2>1, Flagged DEF Numbered
      <3> QED
        BY <3>1 DEF Live
    <2> QED
      BY <2>1, <2>2, <2>3, <2>4 DEF Registry!RegistryNext, Registry!RegistryActivate
  <1>5. ASSUME NEW c \in Callers, PublishRead(c)
        PROVE  UNCHANGED <<schemaDraft, drafts, schemaVersions>>
    BY <1>5 DEF PublishRead
  <1> QED
    BY <1>1, <1>2, <1>3, <1>4, <1>5 DEF Next, vars

\* What the entities do leaves the schema manager alone.
LEMMA SchemaSteps == [MemNext]_allVars => [Next]_vars
  BY DEF MemNext, allVars, vars, entityVars, CreateEntity, UpdateEntity, UpsertWrite,
         DeleteEntity, UpsertRead, CreateRelationship, DeleteRelationship, AnswerWritten

\* The schema manager's invariant holds of the whole backend.
THEOREM VersionsInvariant == MemSpec => []VersionsInv
  <1>1. MemInit => VersionsInv
    BY InitVersionsInv DEF MemInit
  <1>2. VersionsInv /\ [MemNext]_allVars => VersionsInv'
    BY VersionsKept, SchemaSteps
  <1> QED
    BY <1>1, <1>2, PTL DEF MemSpec

\* The in-memory backend implements the schema manager's contract, with its
\* entities at work beside it.
THEOREM MemoryImplementsRegistry == MemSpec => ImplementsRegistry
  <1>1. MemInit => Registry!RegistryInit
    BY DEF MemInit, Init, Registry!RegistryInit, Registry!VersionNumbers, History, Live
  <1>2. VersionsInv /\ [MemNext]_allVars => [Registry!RegistryNext]_(Registry!registryVars)
    BY StepImplements, SchemaSteps
  <1> QED
    BY <1>1, <1>2, VersionsInvariant, PTL
    DEF MemSpec, ImplementsRegistry, Registry!RegistrySpec
-----------------------------------------------------------------------------
(* The entities. *)

\* A step after which every entity that counts is kept makes no two alike.
LEMMA KeptStayApart ==
  ASSUME UpsertsDoNotMultiply, \A id \in Ids : Kept(id)
  PROVE  UpsertsDoNotMultiply'
  BY DEF UpsertsDoNotMultiply, Kept, Key

\* An entity whose row a step leaves alone is kept.
LEMMA UntouchedIsKept ==
  ASSUME NEW id \in Ids, entities'[id] = entities[id]
  PROVE  Kept(id)
  BY DEF Kept, Key, IsLive, Content

\* A new entity holds what the request's map held, and every other entity keeps
\* its row.
LEMMA PutFacts ==
  ASSUME EntityTypes, NEW id \in Ids, NEW t \in Types, NEW m \in Documents \cup {Nil},
         NEW by \in Seq(Props), Put(id, t, m, by)
  PROVE  /\ DOMAIN entities' = Ids
         /\ entities'[id] \in EntityType
         /\ entities'[id].type = t /\ entities'[id].by = by /\ entities'[id].props = m
         /\ \A o \in Ids \ {id} : entities'[o] = entities[o]
  <1> DEFINE new == [type |-> t, props |-> m, deleted |-> FALSE, by |-> by, moved |-> FALSE]
  <1>1. /\ DOMAIN entities' = Ids /\ entities'[id] = new
        /\ \A o \in Ids \ {id} : entities'[o] = entities[o]
    BY DEF EntityTypes, Put
  <1>2. new \in EntityType
    BY DEF EntityType
  <1> QED
    BY <1>1, <1>2

\* A write into an entity's map marks the entity where its key changes by it.
LEMMA SetFacts ==
  ASSUME EntityTypes, NEW id \in Ids, entities[id] # Absent,
         NEW now \in Documents, SetContent(id, now), Nil \notin Documents
  PROVE  /\ DOMAIN entities' = Ids
         /\ entities'[id] \in EntityType
         /\ \A o \in Ids : Kept(o)
         /\ \A o \in Ids \ {id} : entities'[o] = entities[o]
  <1> DEFINE old == entities[id]
             changed == KeyOf(old.by, now) # KeyOf(old.by, Content(old.props))
  <1>1. old \in EntityType
    BY DEF EntityTypes
  <1>2. /\ entities' = [entities EXCEPT ![id].props = now, ![id].moved = @ \/ changed]
        /\ DOMAIN entities' = Ids
    BY DEF SetContent, EntityTypes
  <1> HIDE DEF changed
  <1>3. /\ entities'[id] = [old EXCEPT !.props = now, !.moved = @ \/ changed]
        /\ \A o \in Ids \ {id} : entities'[o] = entities[o]
    BY <1>2 DEF EntityTypes
  <1>4. /\ entities'[id] \in EntityType
        /\ entities'[id].props = now /\ entities'[id].type = old.type
        /\ entities'[id].deleted = old.deleted /\ entities'[id].by = old.by
        /\ entities'[id].moved <=> (old.moved \/ changed)
    BY <1>1, <1>3 DEF EntityType
  <1>5. Kept(id)
    <2>1. Content(entities'[id].props) = now
      BY <1>4 DEF Content
    <2>2. ~changed => Key(id)' = Key(id)
      BY <1>4, <2>1 DEF changed, Key, Content
    <2> QED
      BY <1>1, <1>4, <2>2 DEF Kept, IsLive
  <1>6. \A o \in Ids \ {id} : Kept(o)
    BY <1>3, UntouchedIsKept
  <1> QED
    BY <1>2, <1>3, <1>4, <1>5, <1>6

\* A merge is such a write.
LEMMA MergeFacts ==
  ASSUME EntityTypes, NEW id \in Ids, entities[id] # Absent,
         NEW m \in Documents \cup {Nil}, Merge(id, m)
  PROVE  /\ DOMAIN entities' = Ids
         /\ entities'[id] \in EntityType
         /\ \A o \in Ids : Kept(o)
         /\ \A o \in Ids \ {id} : entities'[o] = entities[o]
  <1>1. entities[id].props \in Documents \cup {Nil}
    BY DEF EntityTypes, EntityType
  <1>2. Content(entities[id].props) \in Documents /\ Content(m) \in Documents
    BY <1>1, MemEntitiesAssumption DEF Content
  <1>3. Written(Content(entities[id].props), Content(m)) \in Documents
    BY <1>2, MemEntitiesAssumption
  <1> QED
    BY <1>3, SetFacts, MemEntitiesAssumption DEF Merge

\* There are no entities at the start.
LEMMA InitMemInv == MemInit => MemInv
  BY DEF MemInit, MemInv, EntityTypes, UpsertsDoNotMultiply, IsLive

\* A step that changes one entity keeps the types if it is one still.
LEMMA TypesKept ==
  ASSUME EntityTypes, NEW id \in Ids,
         DOMAIN entities' = Ids, DOMAIN key' = Callers,
         entities'[id] \in EntityType,
         \A o \in Ids \ {id} : entities'[o] = entities[o],
         \A d \in Callers : key'[d] \in {key[d], Absent}
  PROVE  EntityTypes'
  BY DEF EntityTypes, EntityType

\* CreateEntity keeps the invariant: what it makes was made under no key.
LEMMA CreateKeeps ==
  ASSUME MemInv, NEW id \in Ids, NEW t \in Types, NEW m \in Documents \cup {Nil}, NEW links,
         CreateEntity(id, t, m, links)
  PROVE  MemInv'
  <1> USE DEF MemInv
  <1>1. Put(id, t, m, <<>>) /\ key' = key
    BY DEF CreateEntity
  <1>2. <<>> \in Seq(Props)
    OBVIOUS
  <1>3. EntityTypes'
    <2>1. DOMAIN key' = Callers
      BY <1>1 DEF EntityTypes
    <2> QED
      BY <1>1, <1>2, <2>1, PutFacts, TypesKept
  <1>4. Kept(id)
    BY <1>1, <1>2, PutFacts DEF Kept
  <1>5. \A o \in Ids \ {id} : Kept(o)
    BY <1>1, <1>2, PutFacts, UntouchedIsKept
  <1> QED
    BY <1>3, <1>4, <1>5, KeptStayApart

\* UpdateEntity keeps the invariant: a change of the key is marked.
LEMMA UpdateKeeps ==
  ASSUME MemInv, NEW id \in Ids, NEW m \in Documents \cup {Nil}, UpdateEntity(id, m)
  PROVE  MemInv'
  <1> USE DEF MemInv
  <1>1. entities[id] # Absent /\ Merge(id, m) /\ key' = key
    BY DEF UpdateEntity, IsLive
  <1>2. EntityTypes'
    <2>1. DOMAIN key' = Callers
      BY <1>1 DEF EntityTypes
    <2> QED
      BY <1>1, <2>1, MergeFacts, TypesKept
  <1> QED
    BY <1>1, <1>2, MergeFacts, KeptStayApart

\* DeleteEntity keeps the invariant: one entity less is live.
LEMMA DeleteKeeps ==
  ASSUME MemInv, NEW id \in Ids, DeleteEntity(id)
  PROVE  MemInv'
  <1> USE DEF MemInv, DeleteEntity
  <1>1. entities[id] \in EntityType
    BY DEF EntityTypes, IsLive
  <1>2. /\ entities'[id] = [entities[id] EXCEPT !.deleted = TRUE] /\ DOMAIN entities' = Ids
        /\ \A o \in Ids \ {id} : entities'[o] = entities[o]
    BY DEF EntityTypes
  <1>3. entities'[id] \in EntityType /\ entities'[id].deleted
    BY <1>1, <1>2 DEF EntityType
  <1>4. EntityTypes'
    BY <1>2, <1>3 DEF EntityTypes, EntityType
  <1>5. Kept(id)
    BY <1>3 DEF Kept, IsLive
  <1>6. \A o \in Ids \ {id} : Kept(o)
    BY <1>2, UntouchedIsKept
  <1> QED
    BY <1>4, <1>5, <1>6, KeptStayApart

\* UpsertEntity keeps the invariant: it inserts only where no live entity of
\* the type has the key, in the same step as it looked.
LEMMA UpsertKeeps ==
  ASSUME MemInv, NEW c \in Callers, NEW id \in Ids, NEW m \in Documents \cup {Nil},
         UpsertWrite(c, id, m)
  PROVE  MemInv'
  <1> USE DEF MemInv
  <1>1. /\ key' = [key EXCEPT ![c] = Absent]
        /\ key[c] \in [type : Types, fields : Seq(Props)]
    BY DEF UpsertWrite, EntityTypes
  <1>2. /\ DOMAIN key' = Callers
        /\ \A d \in Callers : key'[d] \in {key[d], Absent}
    BY <1>1 DEF EntityTypes
  <1>3. CASE Matches(c, m) # {}
    <2>1. entities[id] # Absent /\ Merge(id, m)
      BY <1>3 DEF UpsertWrite, Matches, IsLive
    <2>2. EntityTypes'
      BY <1>2, <2>1, MergeFacts, TypesKept
    <2> QED
      BY <2>1, <2>2, MergeFacts, KeptStayApart
  <1>4. CASE Matches(c, m) = {}
    <2> DEFINE t == key[c].type
               by == key[c].fields
    <2>1. t \in Types /\ by \in Seq(Props) /\ Put(id, t, m, by)
      BY <1>1, <1>4 DEF UpsertWrite
    <2>2. EntityTypes'
      BY <1>2, <2>1, PutFacts, TypesKept
    <2>3. Key(id)' = KeyOf(by, Content(m)) /\ entities'[id].type = t /\ entities'[id].by = by
      <3>1. entities'[id].type = t /\ entities'[id].by = by /\ entities'[id].props = m
        BY <2>1, PutFacts
      <3> QED
        BY <3>1 DEF Key, Content
    <2>4. \A o \in Ids \ {id} : Kept(o)
      BY <2>1, PutFacts, UntouchedIsKept
    <2>5. \A o \in Ids : IsLive(o) /\ entities[o].type = t /\ Encodable(KeyOf(by, Content(m))) =>
            KeyOf(by, Content(entities[o].props)) # KeyOf(by, Content(m))
      BY <1>4 DEF Matches, uniqueKeyMatches
    <2>6. \A o \in Ids \ {id} :
            (/\ IsLive(o)' /\ entities'[o].by # <<>> /\ ~entities'[o].moved
             /\ Encodable(Key(o)') \/ Encodable(Key(id)')
             /\ entities'[o].type = t /\ entities'[o].by = by) => Key(o)' # Key(id)'
      <3> TAKE o \in Ids \ {id}
      <3> HAVE /\ IsLive(o)' /\ entities'[o].by # <<>> /\ ~entities'[o].moved
               /\ Encodable(Key(o)') \/ Encodable(Key(id)')
               /\ entities'[o].type = t /\ entities'[o].by = by
      <3>1. /\ IsLive(o) /\ entities[o].type = t /\ entities[o].by = by
            /\ Key(o)' = Key(o)
        BY <2>4 DEF Kept
      <3>2. Encodable(KeyOf(by, Content(m))) => Key(o) # KeyOf(by, Content(m))
        BY <2>5, <3>1 DEF Key
      <3> QED
        BY <2>3, <3>1, <3>2
    <2>7. ASSUME NEW a \in Ids, NEW b \in Ids, a # b, IsLive(a)', IsLive(b)',
                 entities'[a].type = entities'[b].type,
                 entities'[a].by = entities'[b].by, entities'[a].by # <<>>,
                 ~entities'[a].moved, ~entities'[b].moved, Encodable(Key(a)')
          PROVE  Key(a)' # Key(b)'
      <3>1. CASE a = id \/ b = id
        BY <2>3, <2>6, <2>7, <3>1
      <3>2. CASE a # id /\ b # id
        <4>1. /\ IsLive(a) /\ IsLive(b) /\ ~entities[a].moved /\ ~entities[b].moved
              /\ entities[a].type = entities[b].type
              /\ entities[a].by = entities[b].by /\ entities[a].by # <<>>
              /\ Key(a)' = Key(a) /\ Key(b)' = Key(b)
          BY <2>4, <2>7, <3>2 DEF Kept
        <4> QED
          BY <2>7, <4>1 DEF UpsertsDoNotMultiply, Key
      <3> QED
        BY <3>1, <3>2
    <2>8. UpsertsDoNotMultiply'
      BY <2>7 DEF UpsertsDoNotMultiply, Key
    <2> QED
      BY <2>2, <2>8
  <1> QED
    BY <1>3, <1>4

\* UpsertRead keeps the invariant: the unique key is one of the active schema's.
LEMMA UpsertReadKeeps ==
  ASSUME VersionsInv, MemInv, NEW c \in Callers, NEW t \in Types, UpsertRead(c, t)
  PROVE  MemInv'
  <1> USE DEF MemInv, UpsertRead
  <1>1. schemaVersions[Live].types \in Docs
    <2>1. Live \in DOMAIN schemaVersions
      BY LiveIsActive DEF VersionsInv
    <2>2. schemaVersions[Live] \in Snapshots
      BY <2>1 DEF VersionsInv, VersionTypes
    <2> QED
      BY <2>2, MemSchemaAssumption DEF Snapshots
  <1>2. UniqueKey[schemaVersions[Live].types][t] \in Seq(Props)
    BY <1>1, MemEntitiesAssumption
  <1>3. EntityTypes'
    BY <1>2 DEF EntityTypes
  <1>4. \A o \in Ids : Kept(o)
    BY UntouchedIsKept
  <1> QED
    BY <1>3, <1>4, KeptStayApart

\* A caller that writes into an answer changes one entity, and marks it where the
\* key changes.
LEMMA AnswerWrittenKeeps ==
  ASSUME MemInv, NEW id \in Ids, NEW props \in Documents, AnswerWritten(id, props)
  PROVE  MemInv'
  <1> USE DEF MemInv
  <1>1. entities[id] # Absent /\ SetContent(id, props) /\ key' = key
    BY DEF AnswerWritten
  <1>2. EntityTypes'
    <2>1. DOMAIN key' = Callers
      BY <1>1 DEF EntityTypes
    <2> QED
      BY <1>1, <2>1, SetFacts, TypesKept, MemEntitiesAssumption
  <1> QED
    BY <1>1, <1>2, SetFacts, KeptStayApart, MemEntitiesAssumption

\* MemInv holds in every reachable state.
THEOREM MemInvariant == MemSpec => []MemInv
  <1>1. MemInit => MemInv
    BY InitMemInv
  <1>2. VersionsInv /\ MemInv /\ [MemNext]_allVars => MemInv'
    <2> SUFFICES ASSUME VersionsInv, MemInv, [MemNext]_allVars PROVE MemInv'
      OBVIOUS
    <2>1. ASSUME UNCHANGED <<entities, key>> PROVE MemInv'
      BY <2>1 DEF MemInv, EntityTypes, UpsertsDoNotMultiply, IsLive, Content
    <2>2. ASSUME NEW id \in Ids, NEW m \in Documents \cup {Nil},
                 \/ \E t \in Types, links \in UNION {[S -> Edges] : S \in SUBSET EdgeIds} :
                        CreateEntity(id, t, m, links)
                 \/ UpdateEntity(id, m)
                 \/ \E c \in Callers : UpsertWrite(c, id, m)
          PROVE  MemInv'
      BY <2>2, CreateKeeps, UpdateKeeps, UpsertKeeps
    <2>3. ASSUME NEW e \in EdgeIds,
                 \/ \E r \in Edges : CreateRelationship(e, r.name, r.from, r.to)
                 \/ DeleteRelationship(e)
          PROVE  UNCHANGED <<entities, key>>
      BY <2>3 DEF CreateRelationship, DeleteRelationship
    <2>4. CASE UNCHANGED entityVars
      BY <2>1, <2>4 DEF entityVars
    <2> QED
      BY <2>1, <2>2, <2>3, <2>4, DeleteKeeps, UpsertReadKeeps, AnswerWrittenKeeps
      DEF MemNext, allVars
  <1> QED
    BY <1>1, <1>2, VersionsInvariant, PTL DEF MemSpec

\* UpsertsDoNotMultiply for every instance: upserts under one key find each
\* other, whatever is published and activated between their halves.
THEOREM UpsertsStaySingle == MemSpec => []UpsertsDoNotMultiply
  <1>1. MemInv => UpsertsDoNotMultiply
    BY DEF MemInv
  <1> QED
    BY <1>1, MemInvariant, PTL
=============================================================================
