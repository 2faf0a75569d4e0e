--------------------------- MODULE SchemaRegistry ---------------------------
(***************************************************************************)
(* What entitygraph.SchemaManager promises its callers                     *)
(* (src/entitygraph/schema_manager.go): one draft anyone may overwrite, an *)
(* append-only history of published snapshots numbered from 1, and at most *)
(* one of them live.  Each operation is one step.  PgSchema and MemSchema, *)
(* the two backends, are shown to implement it.                            *)
(***************************************************************************)
EXTENDS Integers

CONSTANTS
    Docs,           \* schema documents
    Valid,          \* the ones ValidateSchema accepts
    MaxVersions,    \* bound: versions published in a behaviour
    Absent          \* no document

VARIABLES
    draft,          \* the draft, or Absent before the first SetSchema
    drafts,         \* history: every draft there has been
    history,        \* the published snapshots, by version
    live            \* the active version, 0 before the first Activate

registryVars == <<draft, drafts, history, live>>

VersionNumbers == 1..MaxVersions

\* v is "highest existing + 1; first publish = 1".
IsNext(v) == \A w \in VersionNumbers : history[w] # Absent <=> w < v

RegistryInit ==
    /\ draft = Absent
    /\ drafts = {}
    /\ history = [v \in VersionNumbers |-> Absent]
    /\ live = 0

RegistrySet(d) ==
    /\ draft' = d
    /\ drafts' = drafts \cup {d}
    /\ UNCHANGED <<history, live>>

\* A publish snapshots a draft.  Neither backend reads the draft and appends
\* the snapshot in one step, so it may be one that was overwritten meanwhile.
RegistryPublish(v, d) ==
    /\ IsNext(v)
    /\ d \in drafts \cap Valid
    /\ history' = [history EXCEPT ![v] = d]
    /\ UNCHANGED <<draft, drafts, live>>

RegistryActivate(v) ==
    /\ history[v] # Absent
    /\ live' = v
    /\ UNCHANGED <<draft, drafts, history>>

RegistryNext ==
    \/ \E d \in Docs : RegistrySet(d)
    \/ \E v \in VersionNumbers, d \in Docs : RegistryPublish(v, d)
    \/ \E v \in VersionNumbers : RegistryActivate(v)

RegistrySpec == RegistryInit /\ [][RegistryNext]_registryVars
=============================================================================
