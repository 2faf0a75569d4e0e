------------------------------ MODULE PgSchema ------------------------------
(***************************************************************************)
(* The Postgres backend's schema manager: src/postgres/schema_manager.go   *)
(* over the tables of src/postgres/ddl.go.                                 *)
(*                                                                         *)
(* Publish reads the draft outside its transaction, takes the highest      *)
(* version plus one and inserts it under the primary key.  Activate clears *)
(* the flag where it is set, then sets it on one row, under a unique index *)
(* on the set flags.  Postgres at Read Committed is external: a statement  *)
(* finds its rows in what was committed when it began, waits for the       *)
(* uncommitted writer of a row, and an insert into a unique index waits    *)
(* for the uncommitted writer of a conflicting entry and fails if the      *)
(* entry stays.                                                            *)
(***************************************************************************)
EXTENDS Integers, FiniteSets

CONSTANTS
    Docs,           \* schema documents
    Valid,          \* the ones ValidateSchema accepts
    MaxVersions,    \* bound: versions published in a behaviour
    Callers,        \* goroutines, each in one Publish or Activate at a time
    Absent          \* no row, no document

ASSUME PgSchemaAssumption ==
    /\ Valid \subseteq Docs
    /\ MaxVersions \in Nat
    /\ Absent \notin Docs

VARIABLES
    draft,          \* the committed draft row
    drafts,         \* history: every draft there has been
    doc,            \* committed rows of the versions table: the document
    active,         \* the committed rows whose active column is set
    pc,             \* where each caller is
    arg,            \* the draft a Publish read
    ver,            \* the version a Publish inserts or an Activate asks for
    scan            \* rows the deactivating statement found set

vars == <<draft, drafts, doc, active, pc, arg, ver, scan>>

VersionNumbers == 1..MaxVersions

Init ==
    /\ draft = Absent
    /\ drafts = {}
    /\ doc = [v \in VersionNumbers |-> Absent]
    /\ active = {}
    /\ pc = [c \in Callers |-> "idle"]
    /\ arg = [c \in Callers |-> Absent]
    /\ ver = [c \in Callers |-> 0]
    /\ scan = [c \in Callers |-> {}]

Others(c) == Callers \ {c}
At(c, place) == pc[c] = place
Goto(c, place) == pc' = [pc EXCEPT ![c] = place]

\* The call returns and its local variables go.
End(c) ==
    /\ Goto(c, "idle")
    /\ arg' = [arg EXCEPT ![c] = Absent]
    /\ ver' = [ver EXCEPT ![c] = 0]
    /\ scan' = [scan EXCEPT ![c] = {}]

\* A transaction that leaves nothing: an error was returned and the deferred
\* Rollback ran, or the connection went.
Rollback(c) ==
    /\ pc[c] # "idle"
    /\ End(c)
    /\ UNCHANGED <<draft, drafts, doc, active>>
-----------------------------------------------------------------------------
\* SetSchema: one upsert of the singleton row, valid or not.
SetSchema(d) ==
    /\ draft' = d
    /\ drafts' = drafts \cup {d}
    /\ UNCHANGED <<doc, active, pc, arg, ver, scan>>

\* Bound: publishes under way and published stay within MaxVersions.
RoomToPublish ==
    Cardinality({c \in Callers : pc[c] \in {"validated", "numbered", "inserted"}})
        + Cardinality({v \in VersionNumbers : doc[v] # Absent}) < MaxVersions

\* Mutant: the draft is published without ValidateSchema.
PublishReadUnvalidated(c) ==
    /\ At(c, "idle")
    /\ draft # Absent
    /\ RoomToPublish
    /\ arg' = [arg EXCEPT ![c] = draft]
    /\ Goto(c, "validated")
    /\ UNCHANGED <<draft, drafts, doc, active, ver, scan>>

\* GetSchema and ValidateSchema; with no draft or an invalid one the call
\* returns and leaves nothing.
PublishRead(c) ==
    /\ At(c, "idle")
    /\ draft \in Valid
    /\ RoomToPublish
    /\ arg' = [arg EXCEPT ![c] = draft]
    /\ Goto(c, "validated")
    /\ UNCHANGED <<draft, drafts, doc, active, ver, scan>>

\* Mutant: the default of COALESCE is 1.
IsMaxPlusOneFromTwo(v) ==
    /\ \A w \in VersionNumbers : doc[w] # Absent => w < v
    /\ v > 1
    /\ v > 2 => doc[v - 1] # Absent

\* v is COALESCE(MAX(version), 0) + 1 of the committed rows.
IsMaxPlusOne(v) ==
    /\ \A w \in VersionNumbers : doc[w] # Absent => w < v
    /\ v > 1 => doc[v - 1] # Absent

PublishNumber(c) ==
    /\ At(c, "validated")
    /\ \E v \in VersionNumbers :
        /\ IsMaxPlusOne(v)
        /\ ver' = [ver EXCEPT ![c] = v]
    /\ Goto(c, "numbered")
    /\ UNCHANGED <<draft, drafts, doc, active, arg, scan>>

InsertWaitsFor(c) ==
    IF At(c, "numbered")
    THEN {d \in Others(c) : At(d, "inserted") /\ ver[d] = ver[c]}
    ELSE {}

PublishInsert(c) ==
    /\ At(c, "numbered")
    /\ InsertWaitsFor(c) = {}
    /\ doc[ver[c]] = Absent
    /\ Goto(c, "inserted")
    /\ UNCHANGED <<draft, drafts, doc, active, arg, ver, scan>>

\* Mutant: the insert is tried again with the same version.
PublishDuplicateRetries(c) ==
    /\ At(c, "numbered")
    /\ doc[ver[c]] # Absent
    /\ UNCHANGED vars

\* The version was taken meanwhile: classify makes it ErrEntityAlreadyExists.
PublishDuplicate(c) ==
    /\ At(c, "numbered")
    /\ doc[ver[c]] # Absent
    /\ Rollback(c)

PublishCommit(c) ==
    /\ At(c, "inserted")
    /\ doc' = [doc EXCEPT ![ver[c]] = arg[c]]
    /\ End(c)
    /\ UNCHANGED <<draft, drafts, active>>
-----------------------------------------------------------------------------
\* update ... set active = false where active: the statement begins.
ActivateBegin(c, v) ==
    /\ At(c, "idle")
    /\ ver' = [ver EXCEPT ![c] = v]
    /\ scan' = [scan EXCEPT ![c] = active]
    /\ Goto(c, "deactivating")
    /\ UNCHANGED <<draft, drafts, doc, active, arg>>

\* Rows c has locked: those the first statement went over, also the ones it
\* then found cleared by another call, and the one the second one updates.
Held(c) ==
    CASE pc[c] = "deactivated" -> scan[c]
      [] pc[c] \in {"locked", "flagged"} -> scan[c] \cup {ver[c]}
      [] OTHER -> {}

DeactivateWaitsFor(c) ==
    IF At(c, "deactivating")
    THEN {d \in Others(c) : Held(d) \cap scan[c] # {}}
    ELSE {}

Deactivate(c) ==
    /\ At(c, "deactivating")
    /\ DeactivateWaitsFor(c) = {}
    /\ Goto(c, "deactivated")
    /\ UNCHANGED <<draft, drafts, doc, active, arg, ver, scan>>

\* Mutant: the rows affected are not looked at and the transaction commits.
ActivateNotFoundCommits(c) ==
    /\ At(c, "deactivated")
    /\ doc[ver[c]] = Absent
    /\ active' = active \ scan[c]
    /\ End(c)
    /\ UNCHANGED <<draft, drafts, doc>>

\* No row was updated: ErrSchemaNotFound, and the flag cleared comes back.
ActivateNotFound(c) ==
    /\ At(c, "deactivated")
    /\ doc[ver[c]] = Absent
    /\ Rollback(c)

LockWaitsFor(c) ==
    IF At(c, "deactivated") THEN {d \in Others(c) : ver[c] \in Held(d)} ELSE {}

\* update ... set active = true where version = $1: the row is locked.
ActivateLock(c) ==
    /\ At(c, "deactivated")
    /\ doc[ver[c]] # Absent
    /\ LockWaitsFor(c) = {}
    /\ Goto(c, "locked")
    /\ UNCHANGED <<draft, drafts, doc, active, arg, ver, scan>>

\* Mutant: the versions table has no unique index on the set flags.
InTheWayUnindexed(c) == {}

\* Rows whose set flag stands in the way of c's new index entry.
InTheWay(c) == active \ (scan[c] \cup {ver[c]})

\* The index entry waits for whoever is clearing or rewriting a set flag, and
\* for whoever has entered one and not committed.
IndexWaitsFor(c) ==
    IF At(c, "locked")
    THEN {d \in Others(c) : At(d, "flagged") \/ Held(d) \cap InTheWay(c) # {}}
    ELSE {}

ActivateFlag(c) ==
    /\ At(c, "locked")
    /\ IndexWaitsFor(c) = {}
    /\ InTheWay(c) = {}
    /\ Goto(c, "flagged")
    /\ UNCHANGED <<draft, drafts, doc, active, arg, ver, scan>>

\* schema_versions_one_active_idx refuses a second set flag.
ActivateConflict(c) ==
    /\ At(c, "locked")
    /\ IndexWaitsFor(c) = {}
    /\ InTheWay(c) # {}
    /\ Rollback(c)

ActivateCommit(c) ==
    /\ At(c, "flagged")
    /\ active' = (active \ scan[c]) \cup {ver[c]}
    /\ End(c)
    /\ UNCHANGED <<draft, drafts, doc>>

WaitsFor(c) ==
    InsertWaitsFor(c) \cup DeactivateWaitsFor(c) \cup LockWaitsFor(c) \cup IndexWaitsFor(c)

\* The database finds c in a cycle of waits and fails its statement.
Deadlock(c) ==
    /\ \E d \in Others(c) : d \in WaitsFor(c) /\ c \in WaitsFor(d)
    /\ Rollback(c)

Step(c) ==
    \/ PublishNumber(c) \/ PublishInsert(c) \/ PublishDuplicate(c) \/ PublishCommit(c)
    \/ Deactivate(c) \/ ActivateNotFound(c) \/ ActivateLock(c) \/ ActivateFlag(c)
    \/ ActivateConflict(c) \/ ActivateCommit(c) \/ Deadlock(c)

Next ==
    \/ \E d \in Docs : SetSchema(d)
    \/ \E c \in Callers :
        \/ PublishRead(c)
        \/ \E v \in VersionNumbers : ActivateBegin(c, v)
        \/ Step(c)
        \/ Rollback(c)

Spec == Init /\ [][Next]_vars

\* A caller's next statement is run and answered by the database, which
\* queues those that wait and breaks their cycles.
FairSpec == Spec /\ \A c \in Callers : SF_vars(Step(c))
-----------------------------------------------------------------------------
\* Documents are published only after ValidateSchema, whatever happens to the
\* draft while a Publish is under way.
TypeOK ==
    /\ draft \in Docs \cup {Absent}
    /\ drafts \subseteq Docs
    /\ doc \in [VersionNumbers -> Valid \cup {Absent}]
    /\ active \subseteq VersionNumbers
    /\ pc \in [Callers -> {"idle", "validated", "numbered", "inserted",
                           "deactivating", "deactivated", "locked", "flagged"}]
    /\ arg \in [Callers -> Valid \cup {Absent}]
    /\ ver \in [Callers -> 0..MaxVersions]
    /\ scan \in [Callers -> SUBSET VersionNumbers]

\* "Only one published version can be active at a time" (schema.go), however
\* calls of Activate overlap: the index holds where the two updates race.
OneActive == \A v, w \in active : v = w

\* Versions are numbered 1, 2, 3, ... with none missing, though publishers race
\* for a number and losers fail after others have read theirs.
NoGaps ==
    \A v, w \in VersionNumbers : doc[w] # Absent /\ v < w => doc[v] # Absent

\* What is in use for writes is a published version.
ActiveIsPublished == \A v \in active : doc[v] # Absent

\* Once a version is in use there is always one: an Activate that fails, for an
\* unknown version, a lost race or a broken connection, leaves it in use.
ActiveKept == [][active # {} => active' # {}]_vars

\* Every call ends, though two Activates may each hold the row the other waits
\* for.
EveryCallEnds == \A c \in Callers : pc[c] # "idle" ~> pc[c] = "idle"

\* The rows and calls that make OneActive and NoGaps last.
Publishing(c) == pc[c] \in {"validated", "numbered", "inserted"}

PublishInv ==
    /\ draft \in drafts \cup {Absent}
    /\ \A c \in Callers :
        /\ Publishing(c) => arg[c] \in drafts \cap Valid
        /\ pc[c] \in {"numbered", "inserted"} =>
            /\ ver[c] \in VersionNumbers
            /\ \A w \in VersionNumbers : w < ver[c] => doc[w] # Absent
        /\ pc[c] = "inserted" =>
            /\ doc[ver[c]] = Absent
            /\ \A d \in Callers : pc[d] = "inserted" /\ ver[d] = ver[c] => d = c

ActivateInv ==
    \A c \in Callers :
        /\ pc[c] \in {"deactivating", "deactivated", "locked", "flagged"} =>
            ver[c] \in VersionNumbers
        /\ pc[c] \in {"locked", "flagged"} => doc[ver[c]] # Absent
        /\ pc[c] = "flagged" =>
            /\ active \subseteq scan[c] \cup {ver[c]}
            /\ \A d \in Callers : pc[d] = "flagged" => d = c

\* The inductive invariant: a publisher under way holds a number whose
\* predecessors are all published and, once inserted, that no other holds; an
\* activation that has passed the index is the only one, and every set flag is
\* one it clears or its own.
SchemaInv ==
    TypeOK /\ OneActive /\ NoGaps /\ ActiveIsPublished /\ PublishInv /\ ActivateInv

\* GetActive: the version whose flag is set.
Live == IF active = {} THEN 0 ELSE CHOOSE v \in active : TRUE

Registry == INSTANCE SchemaRegistry WITH history <- doc, live <- Live

\* The backend implements the schema manager's contract: seen from outside,
\* each commit is one SetSchema, Publish or Activate, and nothing else shows.
ImplementsRegistry == Registry!RegistrySpec
=============================================================================
