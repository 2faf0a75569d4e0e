--------------------------- MODULE PgSchemaProofs ---------------------------
(***************************************************************************)
(* Proofs about PgSchema for any documents, callers and number of          *)
(* versions: SchemaInv is inductive, and the transactions implement the    *)
(* one-step operations of SchemaRegistry.                                  *)
(***************************************************************************)
EXTENDS PgSchema, TLAPS

\* Init establishes the inductive invariant: nothing is published or active.
LEMMA InitSchemaInv == Init => SchemaInv
  <1> USE PgSchemaAssumption
  <1> SUFFICES ASSUME Init PROVE SchemaInv
    OBVIOUS
  <1>1. TypeOK
    BY DEF Init, TypeOK, VersionNumbers
  <1>2. OneActive /\ NoGaps /\ ActiveIsPublished
    BY DEF Init, OneActive, NoGaps, ActiveIsPublished
  <1>3. PublishInv /\ ActivateInv
    BY DEF Init, PublishInv, ActivateInv, Publishing
  <1> QED
    BY <1>1, <1>2, <1>3 DEF SchemaInv

\* A rollback, whatever statement failed, keeps the invariant: the caller is
\* idle and no table changed.
LEMMA RollbackKeeps ==
  ASSUME SchemaInv, NEW c \in Callers, Rollback(c)
  PROVE  SchemaInv'
  <1> USE PgSchemaAssumption DEF SchemaInv, Rollback, End, Goto
  <1>1. TypeOK'
    BY DEF TypeOK, VersionNumbers
  <1>2. OneActive' /\ NoGaps' /\ ActiveIsPublished'
    BY DEF OneActive, NoGaps, ActiveIsPublished
  <1>3. PublishInv'
    BY DEF TypeOK, PublishInv, Publishing
  <1>4. ActivateInv'
    BY DEF TypeOK, ActivateInv
  <1> QED
    BY <1>1, <1>2, <1>3, <1>4

\* SetSchema keeps the invariant: no published row depends on the draft.
LEMMA SetSchemaKeeps ==
  ASSUME SchemaInv, NEW d \in Docs, SetSchema(d)
  PROVE  SchemaInv'
  <1> USE PgSchemaAssumption DEF SchemaInv, SetSchema
  <1>1. TypeOK'
    BY DEF TypeOK
  <1>2. OneActive' /\ NoGaps' /\ ActiveIsPublished'
    BY DEF OneActive, NoGaps, ActiveIsPublished
  <1>3. PublishInv'
    BY DEF PublishInv, Publishing
  <1>4. ActivateInv'
    BY DEF ActivateInv
  <1> QED
    BY <1>1, <1>2, <1>3, <1>4

\* Publish keeps the invariant: the number read has all its predecessors
\* published and none of them ever goes; an insert that passed the primary key
\* is the only one of its number.
LEMMA PublishKeeps ==
  ASSUME SchemaInv, NEW c \in Callers,
         PublishRead(c) \/ PublishNumber(c) \/ PublishInsert(c) \/ PublishCommit(c)
  PROVE  SchemaInv'
  <1> USE PgSchemaAssumption DEF SchemaInv
  <1>1. CASE PublishRead(c)
    <2> USE <1>1 DEF PublishRead, Goto, At
    <2>1. TypeOK'
      BY DEF TypeOK
    <2>2. OneActive' /\ NoGaps' /\ ActiveIsPublished'
      BY DEF OneActive, NoGaps, ActiveIsPublished
    <2>3. PublishInv'
      BY DEF TypeOK, PublishInv, Publishing
    <2>4. ActivateInv'
      BY DEF TypeOK, ActivateInv
    <2> QED
      BY <2>1, <2>2, <2>3, <2>4
  <1>2. CASE PublishNumber(c)
    <2> USE <1>2 DEF PublishNumber, Goto, At
    <2>1. PICK v \in VersionNumbers : IsMaxPlusOne(v) /\ ver' = [ver EXCEPT ![c] = v]
      OBVIOUS
    <2>2. TypeOK'
      BY <2>1 DEF TypeOK, VersionNumbers
    <2>3. OneActive' /\ NoGaps' /\ ActiveIsPublished'
      BY DEF OneActive, NoGaps, ActiveIsPublished
    <2>4. \A w \in VersionNumbers : w < v => doc[w] # Absent
      BY <2>1 DEF IsMaxPlusOne, NoGaps, VersionNumbers
    <2>5. PublishInv'
      BY <2>1, <2>4 DEF TypeOK, PublishInv, Publishing
    <2>6. ActivateInv'
      BY <2>1 DEF TypeOK, ActivateInv
    <2> QED
      BY <2>2, <2>3, <2>5, <2>6
  <1>3. CASE PublishInsert(c)
    <2> USE <1>3 DEF PublishInsert, Goto, At
    <2>1. TypeOK'
      BY DEF TypeOK
    <2>2. OneActive' /\ NoGaps' /\ ActiveIsPublished'
      BY DEF OneActive, NoGaps, ActiveIsPublished
    <2>3. \A d \in Callers : pc[d] = "inserted" => ver[d] # ver[c]
      BY DEF InsertWaitsFor, Others
    <2>4. PublishInv'
      BY <2>3 DEF TypeOK, PublishInv, Publishing
    <2>5. ActivateInv'
      BY DEF TypeOK, ActivateInv
    <2> QED
      BY <2>1, <2>2, <2>4, <2>5
  <1>4. CASE PublishCommit(c)
    <2> USE <1>4 DEF PublishCommit, End, Goto, At
    <2>1. /\ ver[c] \in VersionNumbers
          /\ arg[c] \in Valid /\ arg[c] # Absent
          /\ doc[ver[c]] = Absent
          /\ \A w \in VersionNumbers : w < ver[c] => doc[w] # Absent
      BY DEF PublishInv, Publishing
    <2>2. /\ doc'[ver[c]] = arg[c]
          /\ \A w \in VersionNumbers \ {ver[c]} : doc'[w] = doc[w]
      BY <2>1 DEF TypeOK
    <2>3. TypeOK'
      BY <2>1 DEF TypeOK
    <2>4. OneActive' /\ ActiveIsPublished'
      BY <2>1, <2>2 DEF OneActive, ActiveIsPublished, TypeOK
    <2>5. NoGaps'
      BY <2>1, <2>2 DEF NoGaps
    <2>6. PublishInv'
      BY <2>1, <2>2 DEF TypeOK, PublishInv, Publishing
    <2>7. ActivateInv'
      BY <2>1, <2>2 DEF TypeOK, ActivateInv
    <2> QED
      BY <2>3, <2>4, <2>5, <2>6, <2>7
  <1> QED
    BY <1>1, <1>2, <1>3, <1>4

\* Activate keeps the invariant: nothing in the way of the index entry means
\* every set flag is one this call clears or its own, and until it commits no
\* other call passes the index.
LEMMA ActivateKeeps ==
  ASSUME SchemaInv, NEW c \in Callers,
         \/ \E v \in VersionNumbers : ActivateBegin(c, v)
         \/ Deactivate(c) \/ ActivateLock(c) \/ ActivateFlag(c) \/ ActivateCommit(c)
  PROVE  SchemaInv'
  <1> USE PgSchemaAssumption DEF SchemaInv
  <1>1. CASE \E v \in VersionNumbers : ActivateBegin(c, v)
    <2> PICK v \in VersionNumbers : ActivateBegin(c, v)
      BY <1>1
    <2> USE DEF ActivateBegin, Goto, At
    <2>1. TypeOK'
      BY DEF TypeOK, VersionNumbers
    <2>2. OneActive' /\ NoGaps' /\ ActiveIsPublished'
      BY DEF OneActive, NoGaps, ActiveIsPublished
    <2>3. PublishInv'
      BY DEF TypeOK, PublishInv, Publishing
    <2>4. ActivateInv'
      BY DEF TypeOK, ActivateInv
    <2> QED
      BY <2>1, <2>2, <2>3, <2>4
  <1>2. CASE Deactivate(c) \/ ActivateLock(c)
    <2> USE <1>2 DEF Deactivate, ActivateLock, Goto, At
    <2>1. TypeOK'
      BY DEF TypeOK
    <2>2. OneActive' /\ NoGaps' /\ ActiveIsPublished'
      BY DEF OneActive, NoGaps, ActiveIsPublished
    <2>3. PublishInv'
      BY DEF TypeOK, PublishInv, Publishing
    <2>4. ActivateInv'
      BY DEF TypeOK, ActivateInv
    <2> QED
      BY <2>1, <2>2, <2>3, <2>4
  <1>3. CASE ActivateFlag(c)
    <2> USE <1>3 DEF ActivateFlag, Goto, At
    <2>1. TypeOK'
      BY DEF TypeOK
    <2>2. OneActive' /\ NoGaps' /\ ActiveIsPublished'
      BY DEF OneActive, NoGaps, ActiveIsPublished
    <2>3. PublishInv'
      BY DEF TypeOK, PublishInv, Publishing
    <2>4. active \subseteq scan[c] \cup {ver[c]}
      BY DEF InTheWay
    <2>5. \A d \in Callers : pc[d] = "flagged" => d = c
      BY DEF IndexWaitsFor, Others
    <2>6. ActivateInv'
      BY <2>4, <2>5 DEF TypeOK, ActivateInv
    <2> QED
      BY <2>1, <2>2, <2>3, <2>6
  <1>4. CASE ActivateCommit(c)
    <2> USE <1>4 DEF ActivateCommit, End, Goto, At
    <2>1. /\ ver[c] \in VersionNumbers
          /\ doc[ver[c]] # Absent
          /\ active' = {ver[c]}
          /\ \A d \in Callers : pc[d] = "flagged" => d = c
      BY DEF ActivateInv
    <2>2. TypeOK'
      BY <2>1 DEF TypeOK, VersionNumbers
    <2>3. OneActive' /\ NoGaps' /\ ActiveIsPublished'
      BY <2>1 DEF OneActive, NoGaps, ActiveIsPublished
    <2>4. PublishInv'
      BY DEF TypeOK, PublishInv, Publishing
    <2>5. ActivateInv'
      BY <2>1 DEF TypeOK, ActivateInv
    <2> QED
      BY <2>2, <2>3, <2>4, <2>5
  <1> QED
    BY <1>1, <1>2, <1>3, <1>4

\* Every way a call fails is a rollback.
LEMMA FailureIsRollback ==
  ASSUME NEW c \in Callers,
         PublishDuplicate(c) \/ ActivateNotFound(c) \/ ActivateConflict(c) \/ Deadlock(c)
  PROVE  Rollback(c)
  BY DEF PublishDuplicate, ActivateNotFound, ActivateConflict, Deadlock

\* Every step of the backend keeps the inductive invariant.
LEMMA NextKeeps ==
  ASSUME SchemaInv, [Next]_vars
  PROVE  SchemaInv'
  <1>1. CASE UNCHANGED vars
    BY <1>1 DEF vars, SchemaInv, TypeOK, OneActive, NoGaps, ActiveIsPublished,
                PublishInv, ActivateInv, Publishing
  <1>2. CASE \E d \in Docs : SetSchema(d)
    BY <1>2, SetSchemaKeeps
  <1>3. ASSUME NEW c \in Callers,
               \/ PublishRead(c)
               \/ \E v \in VersionNumbers : ActivateBegin(c, v)
               \/ Step(c)
               \/ Rollback(c)
        PROVE  SchemaInv'
    BY <1>3, PublishKeeps, ActivateKeeps, RollbackKeeps, FailureIsRollback DEF Step
  <1> QED
    BY <1>1, <1>2, <1>3 DEF Next

\* The inductive invariant holds in every reachable state.
THEOREM SchemaInvariant == Spec => []SchemaInv
  <1>1. Init => SchemaInv
    BY InitSchemaInv
  <1>2. SchemaInv /\ [Next]_vars => SchemaInv'
    BY NextKeeps
  <1> QED
    BY <1>1, <1>2, PTL DEF Spec

\* Only valid documents are ever published, by any number of callers.
THEOREM TypeCorrect == Spec => []TypeOK
  <1>1. SchemaInv => TypeOK
    BY DEF SchemaInv
  <1> QED
    BY <1>1, SchemaInvariant, PTL

\* At most one version is active, however many Activates overlap.
THEOREM AtMostOneActive == Spec => []OneActive
  <1>1. SchemaInv => OneActive
    BY DEF SchemaInv
  <1> QED
    BY <1>1, SchemaInvariant, PTL

\* Published versions are numbered from 1 without a gap.
THEOREM VersionsHaveNoGaps == Spec => []NoGaps
  <1>1. SchemaInv => NoGaps
    BY DEF SchemaInv
  <1> QED
    BY <1>1, SchemaInvariant, PTL

\* Once a version is active there is always one.
THEOREM AlwaysActiveOnceActive == Spec => ActiveKept
  <1>1. SchemaInv /\ [Next]_vars => [active # {} => active' # {}]_vars
    <2> SUFFICES ASSUME SchemaInv, Next, active # {} PROVE active' # {}
      BY DEF vars
    <2>1. CASE \E c \in Callers : ActivateCommit(c)
      BY <2>1 DEF ActivateCommit
    <2>2. CASE ~\E c \in Callers : ActivateCommit(c)
      <3>1. active' = active
        BY <2>2 DEF Next, Step, SetSchema, PublishRead, PublishNumber, PublishInsert,
                    PublishDuplicate, PublishCommit, ActivateBegin, Deactivate,
                    ActivateNotFound, ActivateLock, ActivateFlag, ActivateConflict,
                    Deadlock, Rollback
      <3> QED
        BY <3>1
    <2> QED
      BY <2>1, <2>2
  <1> QED
    BY <1>1, SchemaInvariant, PTL DEF Spec, ActiveKept
-----------------------------------------------------------------------------
\* The version the mapping calls live is the one in the flag's only row.
LEMMA LiveOfOne == ASSUME NEW v, active' = {v} PROVE Live' = v
  BY DEF Live

\* Each step of the backend is a step of the registry or shows nothing.
LEMMA StepImplements ==
  ASSUME SchemaInv, [Next]_vars
  PROVE  [Registry!RegistryNext]_(Registry!registryVars)
  <1> DEFINE Shows == <<draft, drafts, doc, active>>
  <1> USE DEF Registry!VersionNumbers, VersionNumbers
  <1>1. ASSUME UNCHANGED Shows
        PROVE  UNCHANGED Registry!registryVars
    BY <1>1 DEF Registry!registryVars, Live
  <1>2. ASSUME NEW d \in Docs, SetSchema(d)
        PROVE  Registry!RegistrySet(d)
    BY <1>2 DEF SetSchema, Registry!RegistrySet, Live
  <1>3. ASSUME NEW c \in Callers, PublishCommit(c)
        PROVE  Registry!RegistryPublish(ver[c], arg[c]) /\ ver[c] \in VersionNumbers
                 /\ arg[c] \in Docs
    <2>1. /\ ver[c] \in VersionNumbers
          /\ arg[c] \in drafts \cap Valid
          /\ doc[ver[c]] = Absent
          /\ \A w \in VersionNumbers : w < ver[c] => doc[w] # Absent
      BY <1>3 DEF SchemaInv, PublishInv, Publishing, PublishCommit, At
    <2>2. \A w \in VersionNumbers : doc[w] # Absent <=> w < ver[c]
      BY <2>1, PgSchemaAssumption DEF SchemaInv, NoGaps
    <2>3. arg[c] \in Docs
      BY <2>1, PgSchemaAssumption
    <2>4. doc' = [doc EXCEPT ![ver[c]] = arg[c]] /\ UNCHANGED <<draft, drafts, active>>
      BY <1>3 DEF PublishCommit
    <2> QED
      BY <2>1, <2>2, <2>3, <2>4 DEF Registry!RegistryPublish, Registry!IsNext, Live
  <1>4. ASSUME NEW c \in Callers, ActivateCommit(c)
        PROVE  Registry!RegistryActivate(ver[c]) /\ ver[c] \in VersionNumbers
    <2>1. /\ ver[c] \in VersionNumbers
          /\ doc[ver[c]] # Absent
          /\ active' = {ver[c]}
      BY <1>4 DEF SchemaInv, ActivateInv, ActivateCommit, At
    <2>2. Live' = ver[c]
      BY <2>1, LiveOfOne
    <2>3. UNCHANGED <<draft, drafts, doc>>
      BY <1>4 DEF ActivateCommit
    <2> QED
      BY <2>1, <2>2, <2>3 DEF Registry!RegistryActivate
  <1>5. ASSUME NEW c \in Callers,
               \/ PublishRead(c) \/ PublishNumber(c) \/ PublishInsert(c)
               \/ Deactivate(c) \/ ActivateLock(c) \/ ActivateFlag(c)
               \/ \E v \in VersionNumbers : ActivateBegin(c, v)
               \/ Rollback(c)
        PROVE  UNCHANGED Shows
    BY <1>5 DEF PublishRead, PublishNumber, PublishInsert, Deactivate, ActivateLock,
                ActivateFlag, ActivateBegin, Rollback
  <1>6. CASE UNCHANGED vars
    BY <1>6, <1>1 DEF vars
  <1>7. CASE Next
    <2>1. CASE \E d \in Docs : SetSchema(d)
      BY <2>1, <1>2 DEF Registry!RegistryNext
    <2>2. ASSUME NEW c \in Callers,
                 \/ PublishRead(c)
                 \/ \E v \in VersionNumbers : ActivateBegin(c, v)
                 \/ Step(c)
                 \/ Rollback(c)
          PROVE  [Registry!RegistryNext]_(Registry!registryVars)
      <3>1. CASE PublishCommit(c)
        BY <3>1, <1>3 DEF Registry!RegistryNext
      <3>2. CASE ActivateCommit(c)
        BY <3>2, <1>4 DEF Registry!RegistryNext
      <3>3. CASE ~PublishCommit(c) /\ ~ActivateCommit(c)
        BY <2>2, <3>3, <1>1, <1>5, FailureIsRollback DEF Step
      <3> QED
        BY <3>1, <3>2, <3>3
    <2> QED
      BY <1>7, <2>1, <2>2 DEF Next
  <1> QED
    BY <1>6, <1>7

\* The Postgres backend implements the schema manager's contract.
THEOREM BackendImplementsRegistry == Spec => ImplementsRegistry
  <1>1. Init => Registry!RegistryInit
    BY DEF Init, Registry!RegistryInit, Registry!VersionNumbers, VersionNumbers, Live
  <1>2. SchemaInv /\ [Next]_vars => [Registry!RegistryNext]_(Registry!registryVars)
    BY StepImplements
  <1> QED
    BY <1>1, <1>2, SchemaInvariant, PTL DEF Spec, ImplementsRegistry, Registry!RegistrySpec
=============================================================================
