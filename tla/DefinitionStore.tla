--------------------------- MODULE DefinitionStore ---------------------------
(***************************************************************************)
(* PutDefinitionSettings of src/spec/settings_store.go: the definition     *)
(* layer of a module's settings, replaced when the agency is published.    *)
(*                                                                         *)
(* One transaction deletes every row and inserts the new ones, name by     *)
(* name in Go's map order, which is any order.  Postgres at Read Committed *)
(* is external: the delete works on the rows committed when it began,      *)
(* waiting for whoever is deleting them; an insert of a name waits for     *)
(* whoever inserts or deletes a row of that name, and fails on a row of    *)
(* that name that stays.  A cycle of waits is broken by failing one of its *)
(* members.                                                                *)
(***************************************************************************)
EXTENDS Settings, Integers, Sequences

CONSTANTS
    Publishers, \* goroutines publishing, each one put at a time
    MaxPuts     \* bound: puts begun in a behaviour

ASSUME DefinitionStoreAssumption == MaxPuts \in Nat

VARIABLES
    table,      \* committed rows of spec_settings_definition
    stage,      \* where each publisher's transaction is
    put,        \* the put each publisher runs: its number, version and values
    snap,       \* rows the delete statement saw when it began
    dels,       \* rows deleted and not committed
    ins,        \* names inserted and not committed
    committed,  \* history: the puts that committed, in order
    puts        \* puts begun so far

putVars == <<table, stage, put, snap, dels, ins, committed, puts>>

NoPut == [num |-> 0, vals |-> <<>>]

\* The values a put may be handed: a value for each of some names.
Layers == UNION {[S -> Values] : S \in SUBSET Names}

\* The row of name n that put p inserts.  `num` is no column: it tells one
\* row version from another, as the database does.
DefinitionRow(p, n) == [name |-> n, value |-> Document[p.vals[n]], num |-> p.num]

RowsOf(p) == {DefinitionRow(p, n) : n \in DOMAIN p.vals}

Others(c) == Publishers \ {c}

PutInit ==
    /\ table = {}
    /\ stage = [c \in Publishers |-> "idle"]
    /\ put = [c \in Publishers |-> NoPut]
    /\ snap = [c \in Publishers |-> {}]
    /\ dels = [c \in Publishers |-> {}]
    /\ ins = [c \in Publishers |-> {}]
    /\ committed = <<>>
    /\ puts = 0
-----------------------------------------------------------------------------
\* Mutant: the values are stored without CheckSettings.
CheckSettingsSkipped(v, vals) == TRUE

\* CheckSettings finds no problem; with one, the call stores nothing.
CheckSettings(v, vals) == \A n \in DOMAIN vals : Fits(v, n, vals[n])

\* Mutant: only the rows the new values name are deleted.
DeleteSnapshotNamed(c, vals) ==
    snap' = [snap EXCEPT ![c] = {r \in table : r.name \in DOMAIN vals}]

\* The rows `delete from <table>` is to delete: all that are committed.
DeleteSnapshot(c, vals) == snap' = [snap EXCEPT ![c] = table]

\* The call is accepted and the delete statement begins.
PutBegin(c, v, vals) ==
    /\ stage[c] = "idle"
    /\ puts < MaxPuts
    /\ Declares[v] # {}
    /\ CheckSettings(v, vals)
    /\ puts' = puts + 1
    /\ put' = [put EXCEPT ![c] = [num |-> puts', ver |-> v, vals |-> vals]]
    /\ DeleteSnapshot(c, vals)
    /\ stage' = [stage EXCEPT ![c] = "deleting"]
    /\ UNCHANGED <<table, dels, ins, committed>>

DeleteWaitsFor(c) ==
    IF stage[c] = "deleting"
    THEN {d \in Others(c) : dels[d] \cap snap[c] \cap table # {}}
    ELSE {}

\* The delete statement ends.  Taking the row locks all at once differs from
\* one by one only in which member of a wait cycle fails, and any may.
PutDelete(c) ==
    /\ stage[c] = "deleting"
    /\ DeleteWaitsFor(c) = {}
    /\ dels' = [dels EXCEPT ![c] = snap[c] \cap table]
    /\ stage' = [stage EXCEPT ![c] = "inserting"]
    /\ UNCHANGED <<table, put, snap, ins, committed, puts>>

\* The next row to insert.  A range over a Go map visits the names in any
\* order, and a call in the middle of it knows only which are left.
Pending(c) == IF stage[c] = "inserting" THEN DOMAIN put[c].vals \ ins[c] ELSE {}

InsertWaitsFor(c, n) ==
    {d \in Others(c) :
        \/ n \in ins[d]
        \/ \E r \in dels[d] : r.name = n /\ r \notin dels[c]}

\* A row of the name is committed and nobody is deleting it.
DuplicateKey(c, n) ==
    \E r \in table : r.name = n /\ \A d \in Publishers : r \notin dels[d]

PutInsert(c, n) ==
    /\ n \in Pending(c)
    /\ Encodable(put[c].vals[n])
    /\ InsertWaitsFor(c, n) = {}
    /\ ~DuplicateKey(c, n)
    /\ ins' = [ins EXCEPT ![c] = @ \cup {n}]
    /\ UNCHANGED <<table, stage, put, snap, dels, committed, puts>>

End(c) ==
    /\ stage' = [stage EXCEPT ![c] = "idle"]
    /\ put' = [put EXCEPT ![c] = NoPut]
    /\ snap' = [snap EXCEPT ![c] = {}]
    /\ dels' = [dels EXCEPT ![c] = {}]
    /\ ins' = [ins EXCEPT ![c] = {}]

PutCommit(c) ==
    /\ stage[c] = "inserting"
    /\ Pending(c) = {}
    /\ table' = (table \ dels[c]) \cup RowsOf(put[c])
    /\ committed' = Append(committed, put[c])
    /\ End(c)
    /\ UNCHANGED puts

\* A statement answers an error, or the connection goes: nothing is left.
PutRollback(c) ==
    /\ stage[c] # "idle"
    /\ End(c)
    /\ UNCHANGED <<table, committed, puts>>

\* Mutant: a put whose insert fails is run again from its delete.
PutInsertFailsRetries(c, n) ==
    /\ n \in Pending(c)
    /\ \/ ~Encodable(put[c].vals[n])
       \/ InsertWaitsFor(c, n) = {} /\ DuplicateKey(c, n)
    /\ snap' = [snap EXCEPT ![c] = table]
    /\ dels' = [dels EXCEPT ![c] = {}]
    /\ ins' = [ins EXCEPT ![c] = {}]
    /\ stage' = [stage EXCEPT ![c] = "deleting"]
    /\ UNCHANGED <<table, put, committed, puts>>

\* The insert of n fails: the value does not encode, or the name is taken.
PutInsertFails(c, n) ==
    /\ n \in Pending(c)
    /\ \/ ~Encodable(put[c].vals[n])
       \/ InsertWaitsFor(c, n) = {} /\ DuplicateKey(c, n)
    /\ PutRollback(c)

\* Whom c waits for, if the name it came to next is one that has to wait.
WaitsFor(c) == DeleteWaitsFor(c) \cup UNION {InsertWaitsFor(c, n) : n \in Pending(c)}

\* The database finds c in a cycle of waits and fails its statement.
PutDeadlock(c) ==
    /\ \E d \in Others(c) : d \in WaitsFor(c) /\ c \in WaitsFor(d)
    /\ PutRollback(c)

PutStep(c) ==
    \/ PutDelete(c)
    \/ \E n \in Names : PutInsert(c, n) \/ PutInsertFails(c, n)
    \/ PutCommit(c)
    \/ PutDeadlock(c)

PutNext ==
    \E c \in Publishers :
        \/ \E v \in Versions, vals \in Layers : PutBegin(c, v, vals)
        \/ PutStep(c)
        \/ PutRollback(c)

PutSpec == PutInit /\ [][PutNext]_putVars

\* A publisher's next statement is run and answered by the database, which
\* queues those that wait and breaks their cycles.
FairPutSpec == PutSpec /\ \A c \in Publishers : SF_putVars(PutStep(c))
-----------------------------------------------------------------------------
\* A put is stored whole or not at all and goes whole: no part of the values of
\* one put is ever left without the rest, whichever put overtakes it or fails
\* half way through its inserts.
PutsAreWhole ==
    /\ \A r \in table : \E k \in DOMAIN committed : committed[k].num = r.num
    /\ \A k \in DOMAIN committed :
        {r \in table : r.num = committed[k].num} \in {{}, RowsOf(committed[k])}

\* Publishing goes through CheckSettings: a stored value that decodes fits, as
\* it reads back, the declaration of the version that published it.
StoredFits ==
    \A r \in table, k \in DOMAIN committed :
        committed[k].num = r.num /\ r.value # Unreadable =>
            Fits(committed[k].ver, r.name, r.value)

\* Every put ends, though two that insert the same names in different orders
\* wait for each other.
EveryPutEnds == \A c \in Publishers : stage[c] # "idle" ~> stage[c] = "idle"
=============================================================================
