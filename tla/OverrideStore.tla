---------------------------- MODULE OverrideStore ----------------------------
(***************************************************************************)
(* StoreOverride and StoreClearOverride of src/spec/settings_store.go: the *)
(* owner's overrides and the log of every change to them.                  *)
(*                                                                         *)
(* Each call is one database transaction of three statements: it reads the *)
(* overrides, writes or deletes the row of one name, and inserts the       *)
(* change row.  The database is Postgres at its default level, Read        *)
(* Committed, which is external to the repository and modelled by what     *)
(* these statements meet there: a statement sees what was committed when   *)
(* it began, a writer of a row waits for the uncommitted writer of that    *)
(* row and then works on what that one left, and a commit publishes a      *)
(* transaction's writes at once.                                           *)
(***************************************************************************)
EXTENDS Settings, Integers, Sequences

CONSTANTS
    Callers,    \* goroutines calling the store, each one call at a time
    MaxCalls    \* bound: calls begun in a behaviour

\* A row of spec_settings_override; `ver`, the version whose call stored it, is
\* a history field no column holds.
StoredOverride ==
    [value : Documents, by : Callers, at : 1..MaxCalls, ver : Versions]

ASSUME OverrideStoreAssumption ==
    /\ MaxCalls \in Nat
    /\ Absent \notin Callers
    /\ Absent \notin StoredOverride

VARIABLES
    override,   \* committed rows of spec_settings_override, by name
    log,        \* committed rows of spec_settings_change, in commit order
    rowLock,    \* who has written or deleted a name's row and not committed
    pc,         \* where each caller's transaction is
    req,        \* what each caller asked for
    prior,      \* the override each caller's transaction read
    was,        \* history: the row each caller's write found in place
    calls       \* calls begun so far

vars == <<override, log, rowLock, pc, req, prior, was, calls>>

\* A change row; `at` is the number of the call, for callers hand over the
\* time they began.  `was` and `seen` are history fields no column holds: the
\* override the statement really replaced or deleted, and how many changes were
\* committed when the call read the overrides.
Row(c) ==
    [name |-> req[c].name,
     from |-> FromOf(prior[c]),
     to |-> IF req[c].op = "set" THEN Document[req[c].value] ELSE Nil,
     cleared |-> req[c].op = "clear",
     by |-> c,
     at |-> req[c].at,
     ver |-> req[c].ver,
     was |-> was[c],
     seen |-> req[c].seen]

OverrideRow(c) ==
    [value |-> Document[req[c].value], by |-> c, at |-> req[c].at,
     ver |-> req[c].ver]

ValueOf(row) == IF row = Absent THEN Absent ELSE row.value

\* LoadSettingLayers decodes every override of the module, whichever name the
\* call is about, and answers an error for the first that does not decode.
LayersLoad == \A n \in Names : ValueOf(override[n]) # Unreadable

Init ==
    /\ override = [n \in Names |-> Absent]
    /\ log = <<>>
    /\ rowLock = [n \in Names |-> Absent]
    /\ pc = [c \in Callers |-> "idle"]
    /\ req = [c \in Callers |-> Absent]
    /\ prior = [c \in Callers |-> Absent]
    /\ was = [c \in Callers |-> Absent]
    /\ calls = 0
-----------------------------------------------------------------------------
\* Mutant: SetOverride looks the setting up and does not check the value.
BeginSetUnchecked(c, v, n, x) ==
    /\ pc[c] = "idle"
    /\ calls < MaxCalls
    /\ LayersLoad
    /\ n \in Declares[v]
    /\ calls' = calls + 1
    /\ req' = [req EXCEPT ![c] =
                [op |-> "set", ver |-> v, name |-> n, value |-> x, at |-> calls',
                 seen |-> Len(log)]]
    /\ prior' = [prior EXCEPT ![c] = ValueOf(override[n])]
    /\ pc' = [pc EXCEPT ![c] = "loaded"]
    /\ UNCHANGED <<override, log, rowLock, was>>

\* LoadSettingLayers and the checks of SetOverride.  A call refused for a layer
\* that does not load, an undeclared name, a value off its shape or a missing
\* actor rolls back an empty transaction and leaves nothing, so only the
\* accepted call is a step.
BeginSet(c, v, n, x) ==
    /\ pc[c] = "idle"
    /\ calls < MaxCalls
    /\ LayersLoad
    /\ Fits(v, n, x)
    /\ calls' = calls + 1
    /\ req' = [req EXCEPT ![c] =
                [op |-> "set", ver |-> v, name |-> n, value |-> x, at |-> calls',
                 seen |-> Len(log)]]
    /\ prior' = [prior EXCEPT ![c] = ValueOf(override[n])]
    /\ pc' = [pc EXCEPT ![c] = "loaded"]
    /\ UNCHANGED <<override, log, rowLock, was>>

\* LoadSettingLayers and the checks of ClearOverride: with no override read
\* the call commits an empty transaction and answers false.
BeginClear(c, v, n) ==
    /\ pc[c] = "idle"
    /\ calls < MaxCalls
    /\ LayersLoad
    /\ n \in Declares[v]
    /\ override[n] # Absent
    /\ calls' = calls + 1
    /\ req' = [req EXCEPT ![c] =
                [op |-> "clear", ver |-> v, name |-> n, value |-> Nil, at |-> calls',
                 seen |-> Len(log)]]
    /\ prior' = [prior EXCEPT ![c] = ValueOf(override[n])]
    /\ pc' = [pc EXCEPT ![c] = "loaded"]
    /\ UNCHANGED <<override, log, rowLock, was>>

LockRow(c, n) ==
    /\ rowLock[n] = Absent
    /\ rowLock' = [rowLock EXCEPT ![n] = c]
    /\ was' = [was EXCEPT ![c] = ValueOf(override[n])]

\* Mutant: the override is written through db, outside the transaction.
WriteOverrideOutsideTx(c) ==
    /\ pc[c] = "loaded" /\ req[c].op = "set"
    /\ Encodable(req[c].value)
    /\ LockRow(c, req[c].name)
    /\ override' = [override EXCEPT ![req[c].name] = OverrideRow(c)]
    /\ pc' = [pc EXCEPT ![c] = "written"]
    /\ UNCHANGED <<log, req, prior, calls>>

\* insert ... on conflict (name) do update: waits for an uncommitted insert,
\* update or delete of the same name, then inserts or updates.
WriteOverride(c) ==
    /\ pc[c] = "loaded" /\ req[c].op = "set"
    /\ Encodable(req[c].value)
    /\ LockRow(c, req[c].name)
    /\ pc' = [pc EXCEPT ![c] = "written"]
    /\ UNCHANGED <<override, log, req, prior, calls>>

\* delete ... where name = ?: a committed row is locked, after waiting for its
\* writer; where no row is committed the statement touches none, waits for
\* nobody and still succeeds.
DeleteOverride(c) ==
    /\ pc[c] = "loaded" /\ req[c].op = "clear"
    /\ \/ /\ override[req[c].name] # Absent
          /\ LockRow(c, req[c].name)
       \/ /\ override[req[c].name] = Absent
          /\ was' = [was EXCEPT ![c] = Absent]
          /\ UNCHANGED rowLock
    /\ pc' = [pc EXCEPT ![c] = "written"]
    /\ UNCHANGED <<override, log, req, prior, calls>>

\* Mutant: the change row is inserted through db, outside the transaction.
RecordChangeOutsideTx(c) ==
    /\ pc[c] = "written"
    /\ log' = Append(log, Row(c))
    /\ pc' = [pc EXCEPT ![c] = "recorded"]
    /\ UNCHANGED <<override, rowLock, req, prior, was, calls>>

\* recordChange: the insert of the change row, private until the commit.
RecordChange(c) ==
    /\ pc[c] = "written"
    /\ pc' = [pc EXCEPT ![c] = "recorded"]
    /\ UNCHANGED <<override, log, rowLock, req, prior, was, calls>>

Unlocked(c) == [n \in Names |-> IF rowLock[n] = c THEN Absent ELSE rowLock[n]]

\* What the transaction leaves in the override table when it commits.
Written(c) ==
    [n \in Names |->
        IF rowLock[n] # c THEN override[n]
        ELSE IF req[c].op = "set" THEN OverrideRow(c) ELSE Absent]

\* The transaction commits: its row, its change row and its lock, at once.
Commit(c) ==
    /\ pc[c] = "recorded"
    /\ override' = Written(c)
    /\ log' = Append(log, Row(c))
    /\ rowLock' = Unlocked(c)
    /\ pc' = [pc EXCEPT ![c] = "idle"]
    /\ UNCHANGED <<req, prior, was, calls>>

\* Mutant: an error returns without ending the transaction.
RollbackKeepsLock(c) ==
    /\ pc[c] # "idle"
    /\ pc' = [pc EXCEPT ![c] = "idle"]
    /\ UNCHANGED <<override, log, rowLock, req, prior, was, calls>>

\* Any statement may fail (a value that does not encode always does), and the
\* connection or the process may go: the transaction leaves nothing behind.
Rollback(c) ==
    /\ pc[c] # "idle"
    /\ rowLock' = Unlocked(c)
    /\ pc' = [pc EXCEPT ![c] = "idle"]
    /\ UNCHANGED <<override, log, req, prior, was, calls>>

\* encodeSetting answers an error, so the call returns it.
EncodeFails(c) ==
    /\ pc[c] = "loaded" /\ req[c].op = "set"
    /\ ~Encodable(req[c].value)
    /\ Rollback(c)

Step(c) ==
    WriteOverride(c) \/ DeleteOverride(c) \/ RecordChange(c) \/ Commit(c) \/ EncodeFails(c)

Next ==
    \E c \in Callers :
        \/ \E v \in Versions, n \in Names, x \in Values : BeginSet(c, v, n, x)
        \/ \E v \in Versions, n \in Names : BeginClear(c, v, n)
        \/ Step(c)
        \/ Rollback(c)

Spec == Init /\ [][Next]_vars

\* A call that can take its next statement takes it: the goroutine runs and
\* the database answers.  A waiter for a row lock is queued by the database,
\* so it is not passed over for ever.
Fairness == \A c \in Callers : SF_vars(Step(c))
FairSpec == Spec /\ Fairness
-----------------------------------------------------------------------------
Request ==
    [op : {"set", "clear"}, ver : Versions, name : Names,
     value : Values \cup {Nil}, at : 1..MaxCalls, seen : Nat]

Change ==
    [name : Names, from : Values \cup {Nil}, to : Documents \cup {Nil},
     cleared : BOOLEAN, by : Callers, at : 1..MaxCalls, ver : Versions,
     was : Maybe(Documents), seen : Nat]

\* Every column holds a value of its kind: in particular from_value and
\* to_value are a document or the empty text, never a missing value, and a
\* from_value was decoded once.
TypeOK ==
    /\ override \in [Names -> Maybe(StoredOverride)]
    /\ log \in Seq(Change)
    /\ rowLock \in [Names -> Maybe(Callers)]
    /\ pc \in [Callers -> {"idle", "loaded", "written", "recorded"}]
    /\ req \in [Callers -> Maybe(Request)]
    /\ prior \in [Callers -> Maybe(Values)]
    /\ was \in [Callers -> Maybe(Documents)]
    /\ calls \in 0..MaxCalls

\* The change row i records a write or a delete that touched a row.
TookEffect(i) == ~log[i].cleared \/ log[i].was # Absent

\* The change row i is the last one committed that touched the row of n.
LastEffect(n, i) ==
    /\ log[i].name = n
    /\ TookEffect(i)
    /\ \A j \in DOMAIN log : j > i /\ log[j].name = n => ~TookEffect(j)

\* The log accounts for the override table: the override in place is the one
\* the last effective change set, with its value, its actor and its time, and
\* there is none exactly when that change cleared it or none was made.  This
\* is what "in one transaction, writes the override and appends its change
\* row" is for, whatever calls overlap, fail or are cut off.
LogAccountsForOverrides ==
    \A n \in Names :
        /\ override[n] = Absent =>
            \A i \in DOMAIN log : LastEffect(n, i) => log[i].cleared
        /\ override[n] # Absent =>
            \E i \in DOMAIN log :
                /\ LastEffect(n, i)
                /\ ~log[i].cleared
                /\ override[n] = [value |-> log[i].to, by |-> log[i].by,
                                  at |-> log[i].at, ver |-> log[i].ver]

\* An owner never stores what Resolve would pass over: under the version whose
\* call stored it, an override that decodes is served as it stands
\* (settings_change.go checks the value before it is encoded, Resolve after it
\* was decoded).  One that does not decode is served to nobody: no read of the
\* module's settings loads from then on.
StoredIsServed ==
    \A n \in Names : ValueOf(override[n]) \notin {Absent, Unreadable} =>
        Resolve(override[n].ver, Absent, override[n].value, n)
            = [layer |-> "override", value |-> override[n].value]

InTx(c) == pc[c] \in {"written", "recorded"}

RequestInv ==
    \A c \in Callers : pc[c] # "idle" =>
        /\ req[c] \in Request
        /\ req[c].op = "set" => Fits(req[c].ver, req[c].name, req[c].value)

LockInv ==
    /\ \A n \in Names, c \in Callers : rowLock[n] = c =>
        InTx(c) /\ req[c].name = n /\ was[c] = ValueOf(override[n])
    /\ \A c \in Callers : InTx(c) =>
        /\ req[c].op = "set" =>
            rowLock[req[c].name] = c /\ Encodable(req[c].value)
        /\ req[c].op = "clear" =>
            (rowLock[req[c].name] = c <=> was[c] # Absent)

\* A change of n that took effect was committed after the first k changes.
ChangedSince(n, k) ==
    \E i \in DOMAIN log : i > k /\ log[i].name = n /\ TookEffect(i)

\* What a call read of its name is in place until a change of it commits.
PriorInv ==
    \A c \in Callers : pc[c] # "idle" =>
        /\ req[c].seen <= Len(log)
        /\ \/ prior[c] = ValueOf(override[req[c].name])
           \/ ChangedSince(req[c].name, req[c].seen)

\* The inductive invariant: whoever has written a name's row holds it until the
\* commit, and what it found in place is in place still.  A clear that found no
\* row holds nothing.
StoreInv ==
    /\ TypeOK /\ LogAccountsForOverrides /\ StoredIsServed
    /\ RequestInv /\ LockInv /\ PriorInv

\* An override changes only by a commit that appends the change row naming it,
\* and the from_value of that row is the override the commit replaces, unless
\* another change of the name committed after the call read the overrides: the
\* write waited for that one, and from_value still has what was read before.
ChangesAreLogged ==
    [][\A n \in Names : override'[n] # override[n] =>
        /\ Len(log') = Len(log) + 1
        /\ LET row == log'[Len(log')] IN
            /\ row.name = n
            /\ \/ row.from = FromOf(ValueOf(override[n]))
               \/ ChangedSince(n, row.seen)]_vars

\* A change of n that took effect and cleared it was committed after the first
\* k changes.
ClearedSince(n, k) ==
    \E i \in DOMAIN log :
        i > k /\ log[i].name = n /\ TookEffect(i) /\ log[i].cleared

\* What a clear is about is in place until another clear of it commits, and
\* without one its delete finds a row.
ClearInv ==
    \A c \in Callers : pc[c] # "idle" /\ req[c].op = "clear" =>
        \/ ClearedSince(req[c].name, req[c].seen)
        \/ override[req[c].name] # Absent /\ (InTx(c) => was[c] # Absent)

\* Where the log is not what settings_store.go says of it ("The override
\* replaced") and the design of StoreClearOverride ("writes nothing when there
\* was nothing to clear"), two calls overlapped: before a row whose from_value is
\* not what its call's write found, another change of the name was committed that
\* the call had not read, and before one whose delete touched no row, a clear.
StaleRowsAreExplained ==
    \A i \in DOMAIN log :
        LET unread == {j \in DOMAIN log :
                        /\ log[i].seen < j /\ j < i
                        /\ log[j].name = log[i].name /\ TookEffect(j)}
        IN  /\ log[i].from # FromOf(log[i].was) => unread # {}
            /\ ~TookEffect(i) => \E j \in unread : log[j].cleared

\* Every call ends, whoever holds the row it waits for and however that
\* transaction ends.
EveryCallEnds == \A c \in Callers : pc[c] # "idle" ~> pc[c] = "idle"
=============================================================================
