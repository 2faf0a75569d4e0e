--------------------------- MODULE SettingsProofs ---------------------------
(***************************************************************************)
(* Proofs about what an organization configures: the overrides and their   *)
(* change log (OverrideStore), the definition layer (DefinitionStore) and  *)
(* the organization's numbers (OrgPolicy), each for any constants.         *)
(***************************************************************************)
EXTENDS OverrideStore, DefinitionStore, OrgPolicy, TLAPS

(* OverrideStore: StoreInv is inductive, so the change log accounts for the
   overrides in place whatever transactions overlap or fail. *)

\* Nothing is stored, logged or under way at the start.
LEMMA InitStoreInv == Init => StoreInv
  <1> USE OverrideStoreAssumption, SettingsAssumption
  <1> SUFFICES ASSUME Init PROVE StoreInv
    OBVIOUS
  <1>1. TypeOK
    BY DEF Init, TypeOK, Maybe
  <1>2. LogAccountsForOverrides
    <2>1. DOMAIN log = {}
      BY DEF Init
    <2> QED
      BY <2>1 DEF Init, LogAccountsForOverrides
  <1>3. StoredIsServed
    BY DEF Init, StoredIsServed, ValueOf
  <1>4. RequestInv /\ LockInv /\ PriorInv
    BY DEF Init, RequestInv, LockInv, InTx, PriorInv
  <1> QED
    BY <1>1, <1>2, <1>3, <1>4 DEF StoreInv

\* A step that leaves the override table and the log alone leaves what relates
\* them alone.
LEMMA TablesUnchanged ==
  ASSUME StoreInv, UNCHANGED <<override, log>>
  PROVE  LogAccountsForOverrides' /\ StoredIsServed'
  BY DEF StoreInv, LogAccountsForOverrides, LastEffect, TookEffect, StoredIsServed,
         ValueOf

\* Nor does it touch what a call under way has read, if the call goes on with
\* the request it began.
LEMMA PriorUnchanged ==
  ASSUME StoreInv, UNCHANGED <<override, log, req, prior>>,
         \A d \in Callers : pc'[d] # "idle" => pc[d] # "idle"
  PROVE  PriorInv'
  BY DEF StoreInv, PriorInv, ChangedSince, TookEffect

\* The value read from a well-typed override row is a value, and there is one
\* exactly when there is a row.
LEMMA ValueOfType ==
  ASSUME NEW row \in Maybe(StoredOverride)
  PROVE  ValueOf(row) \in Maybe(Documents) /\ (ValueOf(row) = Absent <=> row = Absent)
  BY SettingsAssumption, OverrideStoreAssumption DEF ValueOf, Maybe, StoredOverride, Documents

\* Reading and checking keep the invariant: the caller holds no row yet.
LEMMA BeginKeeps ==
  ASSUME StoreInv, NEW c \in Callers, NEW v \in Versions, NEW n \in Names,
         (\E x \in Values : BeginSet(c, v, n, x)) \/ BeginClear(c, v, n)
  PROVE  StoreInv'
  <1> USE OverrideStoreAssumption, SettingsAssumption DEF StoreInv
  <1>1. PICK op \in {"set", "clear"}, x \in Values \cup {Nil} :
          /\ pc[c] = "idle" /\ calls < MaxCalls /\ calls' = calls + 1
          /\ LayersLoad
          /\ op = "set" => Fits(v, n, x)
          /\ req' = [req EXCEPT ![c] =
                [op |-> op, ver |-> v, name |-> n, value |-> x, at |-> calls',
                 seen |-> Len(log)]]
          /\ prior' = [prior EXCEPT ![c] = ValueOf(override[n])]
          /\ pc' = [pc EXCEPT ![c] = "loaded"]
          /\ UNCHANGED <<override, log, rowLock, was>>
    BY DEF BeginSet, BeginClear
  <1>2. calls' \in 1..MaxCalls
    BY <1>1 DEF TypeOK
  <1>3. /\ Len(log) \in Nat
        /\ [op |-> op, ver |-> v, name |-> n, value |-> x, at |-> calls',
            seen |-> Len(log)] \in Request
    BY <1>1, <1>2 DEF Request, TypeOK
  <1>4. ValueOf(override[n]) \in Maybe(Values)
    BY <1>1, ValueOfType DEF TypeOK, LayersLoad, Maybe, Documents
  <1>5. TypeOK'
    BY <1>1, <1>2, <1>3, <1>4 DEF TypeOK, Maybe
  <1>6. LogAccountsForOverrides' /\ StoredIsServed'
    BY <1>1, TablesUnchanged
  <1>7. RequestInv'
    BY <1>1, <1>3 DEF RequestInv, TypeOK
  <1>8. LockInv'
    BY <1>1 DEF LockInv, InTx, TypeOK
  <1>9. PriorInv'
    <2> SUFFICES ASSUME NEW d \in Callers, pc'[d] # "idle"
                 PROVE  /\ req'[d].seen <= Len(log')
                        /\ \/ prior'[d] = ValueOf(override'[req'[d].name])
                           \/ ChangedSince(req[d].name, req[d].seen)'
      BY DEF PriorInv
    <2>1. CASE d = c
      BY <1>1, <1>3, <2>1 DEF TypeOK
    <2>2. CASE d # c
      BY <1>1, <2>2 DEF TypeOK, PriorInv, ChangedSince, TookEffect
    <2> QED
      BY <2>1, <2>2
  <1> QED
    BY <1>5, <1>6, <1>7, <1>8, <1>9

\* The write and the delete keep the invariant: they take the row's lock when
\* nobody has it, and note what is in place.
LEMMA WriteKeeps ==
  ASSUME StoreInv, NEW c \in Callers, WriteOverride(c) \/ DeleteOverride(c)
  PROVE  StoreInv'
  <1> USE OverrideStoreAssumption, SettingsAssumption DEF StoreInv
  <1> DEFINE n == req[c].name
  <1>1. /\ pc[c] = "loaded" /\ pc' = [pc EXCEPT ![c] = "written"]
        /\ UNCHANGED <<override, log, req, prior, calls>>
    BY DEF WriteOverride, DeleteOverride
  <1>2. n \in Names /\ req[c] \in Request
    BY <1>1 DEF RequestInv, Request
  <1>3. ValueOf(override[n]) \in Maybe(Documents)
        /\ (ValueOf(override[n]) = Absent <=> override[n] = Absent)
    BY <1>2, ValueOfType DEF TypeOK
  <1>4. LogAccountsForOverrides' /\ StoredIsServed'
    BY <1>1, TablesUnchanged
  <1>5. RequestInv'
    BY <1>1 DEF RequestInv, TypeOK
  <1>6. \A m \in Names : rowLock[m] # c
    BY <1>1 DEF LockInv, InTx
  <1>9. PriorInv'
    BY <1>1, PriorUnchanged DEF TypeOK
  <1>7. CASE LockRow(c, n)
    <2> USE <1>7 DEF LockRow
    <2>1. TypeOK'
      BY <1>1, <1>2, <1>3 DEF TypeOK, Maybe
    <2>2. req[c].op = "set" => Encodable(req[c].value)
      BY <1>1 DEF WriteOverride, DeleteOverride
    <2>3. req[c].op = "clear" => override[n] # Absent
      BY <1>1, <1>2 DEF WriteOverride, DeleteOverride, TypeOK
    <2>4. LockInv'
      BY <1>1, <1>2, <1>3, <1>6, <2>2, <2>3 DEF LockInv, InTx, TypeOK
    <2> QED
      BY <1>4, <1>5, <1>9, <2>1, <2>4
  <1>8. CASE ~LockRow(c, n)
    <2>1. /\ req[c].op = "clear" /\ UNCHANGED rowLock
          /\ was' = [was EXCEPT ![c] = Absent]
      BY <1>8 DEF WriteOverride, DeleteOverride
    <2>2. TypeOK'
      BY <1>1, <2>1 DEF TypeOK, Maybe
    <2>3. LockInv'
      BY <1>1, <1>2, <1>6, <2>1 DEF LockInv, InTx, TypeOK
    <2> QED
      BY <1>4, <1>5, <1>9, <2>2, <2>3
  <1> QED
    BY <1>7, <1>8

\* Recording keeps the invariant: the change row is private until the commit.
LEMMA RecordKeeps ==
  ASSUME StoreInv, NEW c \in Callers, RecordChange(c)
  PROVE  StoreInv'
  <1> USE OverrideStoreAssumption DEF StoreInv, RecordChange
  <1>1. TypeOK'
    BY DEF TypeOK
  <1>2. LogAccountsForOverrides' /\ StoredIsServed'
    BY TablesUnchanged
  <1>3. RequestInv' /\ LockInv'
    BY DEF RequestInv, LockInv, InTx, TypeOK
  <1>4. PriorInv'
    BY PriorUnchanged DEF TypeOK
  <1> QED
    BY <1>1, <1>2, <1>3, <1>4

\* A rollback keeps the invariant: it gives its lock back and leaves nothing.
LEMMA RollbackKeeps ==
  ASSUME StoreInv, NEW c \in Callers, Rollback(c)
  PROVE  StoreInv'
  <1> USE OverrideStoreAssumption DEF StoreInv, Rollback
  <1>1. TypeOK'
    BY DEF TypeOK, Unlocked, Maybe
  <1>2. LogAccountsForOverrides' /\ StoredIsServed'
    BY TablesUnchanged
  <1>3. RequestInv'
    BY DEF RequestInv, TypeOK
  <1>4. LockInv'
    BY DEF LockInv, InTx, TypeOK, Unlocked, RequestInv, Request
  <1>5. PriorInv'
    BY PriorUnchanged DEF TypeOK
  <1> QED
    BY <1>1, <1>2, <1>3, <1>4, <1>5

\* A commit keeps the invariant.  A set or a clear that holds the row becomes
\* the last effective change of its name; a clear that holds nothing appends a
\* row that took no effect; other names are not concerned.
LEMMA CommitKeeps ==
  ASSUME StoreInv, NEW c \in Callers, Commit(c)
  PROVE  StoreInv'
  <1> USE OverrideStoreAssumption, SettingsAssumption DEF StoreInv
  <1>1. /\ pc[c] = "recorded" /\ pc' = [pc EXCEPT ![c] = "idle"]
        /\ override' = Written(c) /\ rowLock' = Unlocked(c)
        /\ log' = Append(log, Row(c))
        /\ UNCHANGED <<req, prior, was, calls>>
    BY DEF Commit
  <1>2. req[c] \in Request /\ req[c].name \in Names /\ InTx(c)
    BY <1>1 DEF RequestInv, Request, InTx
  <1>3. PICK n \in Names : n = req[c].name
    BY <1>2
  <1>4. PICK k \in Nat : k = Len(log) + 1
    BY DEF TypeOK
  <1>5. req[c].op = "set" =>
          /\ rowLock[n] = c
          /\ Encodable(req[c].value)
          /\ OverrideRow(c) \in StoredOverride
          /\ Document[req[c].value] # Unreadable =>
                Fits(req[c].ver, n, Document[req[c].value])
    BY <1>1, <1>2, <1>3 DEF LockInv, RequestInv, Request, Encodable, OverrideRow,
                            StoredOverride, Fits, Documents
  <1>6. /\ \A m \in Names : m # n => rowLock[m] # c
        /\ \A m \in Names : rowLock[m] # c => override'[m] = override[m]
    BY <1>1, <1>3 DEF LockInv, Written
  <1>7. Row(c) \in Change
    BY <1>2, <1>5 DEF Row, Change, Request, TypeOK, Maybe, FromOf, Encodable, Documents
  <1>8. /\ log \in Seq(Change) /\ log' \in Seq(Change)
        /\ DOMAIN log = 1..(k - 1) /\ DOMAIN log' = 1..k
        /\ \A i \in DOMAIN log : log'[i] = log[i]
        /\ log'[k] = Row(c)
    BY <1>1, <1>4, <1>7 DEF TypeOK
  <1>9. /\ Row(c).name = n /\ Row(c).was = was[c]
        /\ req[c].op = "clear" => Row(c).cleared
        /\ req[c].op = "set" => ~Row(c).cleared
        /\ req[c].op \in {"set", "clear"}
    BY <1>2, <1>3 DEF Row, Request
  <1>10. ASSUME NEW i \in DOMAIN log
         PROVE  TookEffect(i)' <=> TookEffect(i)
    BY <1>8 DEF TookEffect
  <1>11. TypeOK'
    <2>1. override' \in [Names -> Maybe(StoredOverride)]
      BY <1>1, <1>2, <1>3, <1>5, <1>6, <1>9 DEF TypeOK, Written, Maybe
    <2> QED
      BY <1>1, <1>8, <2>1 DEF TypeOK, Unlocked, Maybe
  \* A change of another name, or one that took no effect, displaces nothing.
  <1>12. ASSUME NEW m \in Names, m # n \/ ~TookEffect(k)'
         PROVE  \A i \in DOMAIN log' :
                    LastEffect(m, i)' <=> i \in DOMAIN log /\ LastEffect(m, i)
    BY <1>8, <1>9, <1>10, <1>12 DEF LastEffect
  <1>13. ASSUME NEW m \in Names, m # n \/ ~TookEffect(k)', override'[m] = override[m]
         PROVE  /\ override'[m] = Absent =>
                    \A i \in DOMAIN log' : LastEffect(m, i)' => log'[i].cleared
                /\ override'[m] # Absent =>
                    \E i \in DOMAIN log' :
                        /\ LastEffect(m, i)'
                        /\ ~log'[i].cleared
                        /\ override'[m] = [value |-> log'[i].to, by |-> log'[i].by,
                                          at |-> log'[i].at, ver |-> log'[i].ver]
    <2>1. \A i \in DOMAIN log' :
            LastEffect(m, i)' <=> i \in DOMAIN log /\ LastEffect(m, i)
      BY <1>12, <1>13
    <2>2. DOMAIN log \subseteq DOMAIN log'
      BY <1>8
    <2>3. CASE override[m] = Absent
      <3>1. \A i \in DOMAIN log : LastEffect(m, i) => log[i].cleared
        BY <2>3 DEF LogAccountsForOverrides
      <3> QED
        BY <1>8, <1>13, <2>1, <2>3, <3>1
    <2>4. CASE override[m] # Absent
      <3>1. PICK i \in DOMAIN log :
                /\ LastEffect(m, i)
                /\ ~log[i].cleared
                /\ override[m] = [value |-> log[i].to, by |-> log[i].by,
                                  at |-> log[i].at, ver |-> log[i].ver]
        BY <2>4 DEF LogAccountsForOverrides
      <3>2. i \in DOMAIN log' /\ log'[i] = log[i] /\ LastEffect(m, i)'
        BY <1>8, <2>1, <2>2, <3>1
      <3> QED
        BY <1>13, <2>4, <3>1, <3>2
    <2> QED
      BY <2>3, <2>4
  <1>14. LogAccountsForOverrides'
    <2>1. CASE rowLock[n] = c
      <3>1. TookEffect(k)'
        <4>1. req[c].op = "clear" => was[c] # Absent
          BY <1>2, <1>3, <2>1 DEF LockInv
        <4> QED
          BY <1>8, <1>9, <4>1 DEF TookEffect
      <3>2. \A i \in DOMAIN log' : LastEffect(n, i)' <=> i = k
        BY <1>8, <1>9, <3>1 DEF LastEffect
      <3>3. /\ req[c].op = "set" => override'[n] = OverrideRow(c)
            /\ req[c].op = "clear" => override'[n] = Absent
        BY <1>1, <1>3, <2>1 DEF Written
      <3>4. req[c].op = "set" =>
              /\ override'[n] # Absent
              /\ override'[n] = [value |-> log'[k].to, by |-> log'[k].by,
                                at |-> log'[k].at, ver |-> log'[k].ver]
        BY <1>5, <1>8, <3>3 DEF OverrideRow, Row
      <3>5. /\ override'[n] = Absent =>
                \A i \in DOMAIN log' : LastEffect(n, i)' => log'[i].cleared
            /\ override'[n] # Absent =>
                \E i \in DOMAIN log' :
                    /\ LastEffect(n, i)'
                    /\ ~log'[i].cleared
                    /\ override'[n] = [value |-> log'[i].to, by |-> log'[i].by,
                                      at |-> log'[i].at, ver |-> log'[i].ver]
        <4>1. k \in DOMAIN log'
          BY <1>4, <1>8 DEF TypeOK
        <4> QED
          BY <1>8, <1>9, <3>2, <3>3, <3>4, <4>1
      <3> QED
        BY <1>6, <1>13, <3>5 DEF LogAccountsForOverrides
    <2>2. CASE rowLock[n] # c
      <3>1. req[c].op = "clear" /\ was[c] = Absent
        BY <1>2, <1>3, <1>5, <1>9, <2>2 DEF LockInv
      <3>2. ~TookEffect(k)'
        BY <1>8, <1>9, <3>1 DEF TookEffect
      <3>3. \A m \in Names : override'[m] = override[m]
        BY <1>6, <2>2
      <3> QED
        BY <1>13, <3>2, <3>3 DEF LogAccountsForOverrides
    <2> QED
      BY <2>1, <2>2
  <1>15. StoredIsServed'
    <2>1. ASSUME NEW m \in Names, override'[m] # Absent,
                 override'[m].value # Unreadable
          PROVE  Fits(override'[m].ver, m, override'[m].value)
      <3>1. CASE rowLock[m] # c
        <4>1. override[m] # Absent /\ override'[m] = override[m]
          BY <1>6, <2>1, <3>1
        <4>2. Resolve(override[m].ver, Absent, override[m].value, m)
                = [layer |-> "override", value |-> override[m].value]
          <5>1. override[m].value \notin {Absent, Unreadable}
            BY <2>1, <4>1 DEF TypeOK, Maybe, StoredOverride, Documents
          <5> QED
            BY <4>1, <5>1 DEF StoredIsServed, ValueOf
        <4>3. Fits(override[m].ver, m, override[m].value)
          BY <4>2 DEF Resolve
        <4> QED
          BY <4>1, <4>3
      <3>2. CASE rowLock[m] = c
        <4>1. m = n /\ req[c].op = "set" /\ override'[m] = OverrideRow(c)
          BY <1>1, <1>6, <1>9, <2>1, <3>2 DEF Written
        <4> QED
          BY <1>5, <2>1, <4>1 DEF OverrideRow
      <3> QED
        BY <3>1, <3>2
    <2>2. \A m \in Names : override'[m] # Absent => override'[m].value # Absent
      BY <1>11 DEF TypeOK, Maybe, StoredOverride, Documents
    <2> QED
      BY <2>1, <2>2 DEF StoredIsServed, Resolve, ValueOf
  <1>16. RequestInv'
    BY <1>1 DEF RequestInv, TypeOK
  <1>17. LockInv'
    <2>1. ASSUME NEW m \in Names, NEW d \in Callers, rowLock'[m] = d
          PROVE  InTx(d)' /\ req'[d].name = m /\ was'[d] = ValueOf(override'[m])
      <3>1. rowLock[m] = d /\ d # c /\ override'[m] = override[m]
        BY <1>1, <1>6, <2>1 DEF Unlocked
      <3> QED
        BY <1>1, <3>1 DEF LockInv, InTx, TypeOK
    <2>2. ASSUME NEW d \in Callers, InTx(d)'
          PROVE  /\ d # c /\ InTx(d) /\ req'[d] = req[d] /\ was'[d] = was[d]
                 /\ rowLock'[req[d].name] = d <=> rowLock[req[d].name] = d
      <3>1. d # c /\ InTx(d)
        BY <1>1, <2>2 DEF InTx, TypeOK
      <3>2. req[d].name \in Names
        BY <3>1 DEF RequestInv, InTx, Request
      <3> QED
        BY <1>1, <3>1, <3>2 DEF Unlocked
    <2> QED
      BY <2>1, <2>2 DEF LockInv
  \* A call of another name, or one the commit did not touch, has read what is
  \* in place as before; the others were overtaken by the change just logged.
  <1>18. PriorInv'
    <2> SUFFICES ASSUME NEW d \in Callers, pc'[d] # "idle"
                 PROVE  /\ req'[d].seen <= Len(log')
                        /\ \/ prior'[d] = ValueOf(override'[req'[d].name])
                           \/ ChangedSince(req[d].name, req[d].seen)'
      BY DEF PriorInv
    <2>1. d # c /\ pc[d] # "idle" /\ req'[d] = req[d] /\ prior'[d] = prior[d]
      BY <1>1 DEF TypeOK
    <2>2. /\ req[d].seen <= Len(log) /\ req[d].seen \in Nat
          /\ \/ prior[d] = ValueOf(override[req[d].name])
             \/ ChangedSince(req[d].name, req[d].seen)
      BY <2>1 DEF PriorInv, RequestInv, Request
    <2>3. req[d].name \in Names
      BY <2>1 DEF RequestInv, Request
    <2>4. req'[d].seen <= Len(log') /\ k > req[d].seen /\ k \in DOMAIN log'
      BY <1>4, <1>8, <2>1, <2>2 DEF TypeOK
    <2>5. CASE ChangedSince(req[d].name, req[d].seen)
      BY <1>8, <1>10, <2>1, <2>4, <2>5 DEF ChangedSince, TookEffect
    <2>6. CASE prior[d] = ValueOf(override[req[d].name]) /\ rowLock[req[d].name] # c
      BY <1>6, <2>1, <2>3, <2>4, <2>6
    <2>7. CASE rowLock[req[d].name] = c
      <3>1. req[d].name = n
        BY <1>6, <2>3, <2>7
      <3>2. req[c].op = "clear" => was[c] # Absent
        BY <1>2, <1>3, <2>7, <3>1 DEF LockInv
      <3>3. log'[k].name = n /\ TookEffect(k)'
        BY <1>8, <1>9, <3>2 DEF TookEffect
      <3>4. ChangedSince(req[d].name, req[d].seen)'
        BY <2>1, <2>4, <3>1, <3>3 DEF ChangedSince
      <3> QED
        BY <2>4, <3>4
    <2> QED
      BY <2>2, <2>5, <2>6, <2>7
  <1> QED
    BY <1>11, <1>14, <1>15, <1>16, <1>17, <1>18

\* Every step of the store keeps the inductive invariant.
LEMMA NextKeeps ==
  ASSUME StoreInv, [Next]_vars
  PROVE  StoreInv'
  <1>1. CASE UNCHANGED vars
    BY <1>1, TablesUnchanged, PriorUnchanged
       DEF vars, StoreInv, TypeOK, RequestInv, LockInv, InTx
  <1>2. ASSUME NEW c \in Callers,
               \/ \E v \in Versions, n \in Names, x \in Values : BeginSet(c, v, n, x)
               \/ \E v \in Versions, n \in Names : BeginClear(c, v, n)
        PROVE  StoreInv'
    BY <1>2, BeginKeeps
  <1>3. ASSUME NEW c \in Callers, Step(c) \/ Rollback(c)
        PROVE  StoreInv'
    BY <1>3, WriteKeeps, RecordKeeps, CommitKeeps, RollbackKeeps DEF Step, EncodeFails
  <1> QED
    BY <1>1, <1>2, <1>3 DEF Next

\* The inductive invariant holds in every reachable state.
THEOREM StoreInvariant == Spec => []StoreInv
  <1>1. Init => StoreInv
    BY InitStoreInv
  <1>2. StoreInv /\ [Next]_vars => StoreInv'
    BY NextKeeps
  <1> QED
    BY <1>1, <1>2, PTL DEF Spec

\* The change log accounts for every override in place.
THEOREM LogAccounts == Spec => []LogAccountsForOverrides
  <1>1. StoreInv => LogAccountsForOverrides
    BY DEF StoreInv
  <1> QED
    BY <1>1, StoreInvariant, PTL

\* An owner never stores what Resolve would pass over.
THEOREM StoredValuesAreServed == Spec => []StoredIsServed
  <1>1. StoreInv => StoredIsServed
    BY DEF StoreInv
  <1> QED
    BY <1>1, StoreInvariant, PTL

\* Overrides change only with their change row, whose from_value is what the
\* commit replaces unless another change of the name overtook the call's read.
THEOREM OverridesChangeLogged == Spec => ChangesAreLogged
  <1> DEFINE Logged ==
        \A n \in Names : override'[n] # override[n] =>
            /\ Len(log') = Len(log) + 1
            /\ LET row == log'[Len(log')] IN
                /\ row.name = n
                /\ \/ row.from = FromOf(ValueOf(override[n]))
                   \/ ChangedSince(n, row.seen)
  <1>1. StoreInv /\ [Next]_vars => [Logged]_vars
    <2> SUFFICES ASSUME StoreInv, Next, NEW n \in Names, override'[n] # override[n]
                 PROVE  /\ Len(log') = Len(log) + 1
                        /\ log'[Len(log')].name = n
                        /\ \/ log'[Len(log')].from = FromOf(ValueOf(override[n]))
                           \/ ChangedSince(n, log'[Len(log')].seen)
      OBVIOUS
    <2>1. PICK c \in Callers : Commit(c)
      BY DEF Next, Step, BeginSet, BeginClear, WriteOverride, DeleteOverride,
             RecordChange, EncodeFails, Rollback
    <2>2. rowLock[n] = c
      BY <2>1 DEF Commit, Written
    <2>3. req[c].name = n
      BY <2>2 DEF StoreInv, LockInv
    <2>4. log' = Append(log, Row(c)) /\ log \in Seq(Change) /\ pc[c] = "recorded"
      BY <2>1 DEF Commit, StoreInv, TypeOK
    <2>5. prior[c] = ValueOf(override[n]) \/ ChangedSince(n, req[c].seen)
      BY <2>3, <2>4 DEF StoreInv, PriorInv
    <2>6. /\ Row(c).name = n /\ Row(c).from = FromOf(prior[c])
          /\ Row(c).seen = req[c].seen
      BY <2>3 DEF Row
    <2> QED
      BY <2>4, <2>5, <2>6
  <1> QED
    BY <1>1, StoreInvariant, PTL DEF Spec, ChangesAreLogged

\* Until its call is done, a clear's override is in place or was cleared since
\* by another: only a commit of a clear takes it away.
LEMMA ClearInvKept ==
  ASSUME StoreInv, ClearInv, [Next]_vars
  PROVE  ClearInv'
  <1> USE OverrideStoreAssumption, SettingsAssumption
  <1> SUFFICES ASSUME NEW d \in Callers, pc'[d] # "idle", req'[d].op = "clear"
               PROVE  \/ ClearedSince(req[d].name, req[d].seen)'
                      \/ override'[req'[d].name] # Absent /\ (InTx(d)' => was'[d] # Absent)
    BY DEF ClearInv
  <1>1. CASE UNCHANGED <<override, log, req>> /\ was'[d] = was[d]
             /\ pc[d] # "idle" /\ (InTx(d)' => InTx(d))
    <2>1. ClearedSince(req[d].name, req[d].seen) =>
            ClearedSince(req[d].name, req[d].seen)'
      BY <1>1 DEF ClearedSince, TookEffect
    <2> QED
      BY <1>1, <2>1 DEF ClearInv
  <1>2. CASE UNCHANGED vars
    BY <1>1, <1>2 DEF vars, InTx
  <1>3. ASSUME NEW c \in Callers, NEW v \in Versions, NEW n \in Names,
               (\E x \in Values : BeginSet(c, v, n, x)) \/ BeginClear(c, v, n)
        PROVE  \/ ClearedSince(req[d].name, req[d].seen)'
               \/ override'[req'[d].name] # Absent /\ (InTx(d)' => was'[d] # Absent)
    <2>1. CASE d = c
      BY <1>3, <2>1 DEF BeginSet, BeginClear, InTx, StoreInv, TypeOK
    <2>2. CASE d # c
      <3>1. /\ UNCHANGED <<override, log, was>>
            /\ req'[d] = req[d] /\ pc'[d] = pc[d]
        BY <1>3, <2>2 DEF BeginSet, BeginClear, StoreInv, TypeOK
      <3>2. ClearedSince(req[d].name, req[d].seen) =>
              ClearedSince(req[d].name, req[d].seen)'
        BY <3>1 DEF ClearedSince, TookEffect
      <3> QED
        BY <3>1, <3>2 DEF ClearInv, InTx
    <2> QED
      BY <2>1, <2>2
  <1>4. ASSUME NEW c \in Callers, WriteOverride(c) \/ DeleteOverride(c)
        PROVE  \/ ClearedSince(req[d].name, req[d].seen)'
               \/ override'[req'[d].name] # Absent /\ (InTx(d)' => was'[d] # Absent)
    <2>1. /\ pc[c] = "loaded" /\ pc' = [pc EXCEPT ![c] = "written"]
          /\ UNCHANGED <<override, log, req>>
      BY <1>4 DEF WriteOverride, DeleteOverride
    <2>2. CASE d # c
      BY <1>1, <1>4, <2>1, <2>2
         DEF WriteOverride, DeleteOverride, LockRow, InTx, StoreInv, TypeOK
    <2>3. CASE d = c
      <3>1. req[c].name \in Names
        BY <2>1 DEF StoreInv, RequestInv, Request
      <3>2. ValueOf(override[req[c].name]) = Absent <=> override[req[c].name] = Absent
        BY <3>1, ValueOfType DEF StoreInv, TypeOK
      <3>3. override[req[c].name] # Absent => was'[c] # Absent
        BY <1>4, <2>1, <2>3, <3>2 DEF WriteOverride, DeleteOverride, LockRow, StoreInv, TypeOK
      <3>4. ClearedSince(req[c].name, req[c].seen) =>
              ClearedSince(req[c].name, req[c].seen)'
        BY <2>1 DEF ClearedSince, TookEffect
      <3>5. \/ ClearedSince(req[c].name, req[c].seen)
            \/ override[req[c].name] # Absent
        BY <2>1, <2>3 DEF ClearInv
      <3> QED
        BY <2>1, <2>3, <3>3, <3>4, <3>5
    <2> QED
      BY <2>2, <2>3
  <1>5. ASSUME NEW c \in Callers, RecordChange(c) \/ Rollback(c)
        PROVE  \/ ClearedSince(req[d].name, req[d].seen)'
               \/ override'[req'[d].name] # Absent /\ (InTx(d)' => was'[d] # Absent)
    BY <1>1, <1>5 DEF RecordChange, Rollback, InTx, StoreInv, TypeOK
  <1>6. ASSUME NEW c \in Callers, Commit(c)
        PROVE  \/ ClearedSince(req[d].name, req[d].seen)'
               \/ override'[req'[d].name] # Absent /\ (InTx(d)' => was'[d] # Absent)
    <2>1. /\ pc[c] = "recorded" /\ d # c /\ pc[d] # "idle" /\ pc'[d] = pc[d]
          /\ UNCHANGED <<req, was>>
          /\ log \in Seq(Change) /\ log' = Append(log, Row(c))
      BY <1>6 DEF Commit, StoreInv, TypeOK
    <2>2. req[d].name \in Names /\ req[d].seen \in Nat /\ req[d].seen <= Len(log)
      BY <2>1 DEF StoreInv, RequestInv, Request, PriorInv
    <2>3. /\ \A i \in DOMAIN log : i \in DOMAIN log' /\ log'[i] = log[i]
          /\ Len(log) + 1 \in DOMAIN log' /\ log'[Len(log) + 1] = Row(c)
      BY <2>1
    <2>4. CASE ClearedSince(req[d].name, req[d].seen)
      <3>1. ClearedSince(req[d].name, req[d].seen)'
        BY <2>1, <2>3, <2>4 DEF ClearedSince, TookEffect
      <3> QED
        BY <3>1
    <2>5. CASE /\ override[req[d].name] # Absent /\ (InTx(d) => was[d] # Absent)
               /\ override'[req[d].name] # Absent
      BY <2>1, <2>5 DEF InTx
    <2>6. CASE override[req[d].name] # Absent /\ override'[req[d].name] = Absent
      <3>1. rowLock[req[d].name] = c /\ req[c].op # "set"
        <4>1. req[c].op = "set" => OverrideRow(c) \in StoredOverride
          BY <2>1 DEF StoreInv, RequestInv, LockInv, Request, InTx, Encodable,
                      OverrideRow, StoredOverride, Documents
        <4> QED
          BY <1>6, <2>2, <2>6, <4>1 DEF Commit, Written
      <3>2. /\ req[c].name = req[d].name /\ req[c].op = "clear"
            /\ was[c] = ValueOf(override[req[d].name])
        BY <2>1, <2>2, <3>1 DEF StoreInv, LockInv, RequestInv, Request
      <3>3. was[c] # Absent
        BY <2>2, <2>6, <3>2, ValueOfType DEF StoreInv, TypeOK
      <3>4. Row(c).name = req[d].name /\ Row(c).cleared /\ Row(c).was # Absent
        BY <3>2, <3>3 DEF Row
      <3>5. Len(log) + 1 > req[d].seen
        BY <2>1, <2>2
      <3>6. ClearedSince(req[d].name, req[d].seen)'
        BY <2>1, <2>3, <3>4, <3>5 DEF ClearedSince, TookEffect
      <3> QED
        BY <3>6
    <2> QED
      BY <2>1, <2>4, <2>5, <2>6 DEF ClearInv
  <1> QED
    BY <1>2, <1>3, <1>4, <1>5, <1>6 DEF Next, Step, EncodeFails

\* A row that is appended is as the log is to be: its call held the row it
\* wrote, so that what it found is in place, or it is a clear overtaken by one.
LEMMA ExplainedKept ==
  ASSUME StoreInv, ClearInv, StaleRowsAreExplained, [Next]_vars
  PROVE  StaleRowsAreExplained'
  <1>1. CASE UNCHANGED log
    BY <1>1 DEF StaleRowsAreExplained, TookEffect
  <1>2. ASSUME NEW c \in Callers, Commit(c)
        PROVE  StaleRowsAreExplained'
    <2>1. /\ pc[c] = "recorded" /\ InTx(c) /\ log \in Seq(Change)
          /\ log' = Append(log, Row(c))
      BY <1>2 DEF Commit, StoreInv, TypeOK, InTx
    <2>2. PICK k \in Nat : k = Len(log) + 1
      BY <2>1
    <2>3. /\ DOMAIN log = 1..(k - 1) /\ DOMAIN log' = 1..k
          /\ \A i \in 1..(k - 1) : log'[i] = log[i]
          /\ log'[k] = Row(c)
      BY <2>1, <2>2
    <2>4. \A i \in 1..(k - 1) : TookEffect(i)' <=> TookEffect(i)
      BY <2>3 DEF TookEffect
    <2>5. /\ Row(c).name = req[c].name /\ Row(c).seen = req[c].seen
          /\ Row(c).from = FromOf(prior[c]) /\ Row(c).was = was[c]
          /\ Row(c).cleared <=> req[c].op = "clear"
      BY DEF Row
    <2>6. req[c].op \in {"set", "clear"} /\ req[c].seen \in Nat
      BY <2>1 DEF StoreInv, RequestInv, Request
    <2>7. /\ \/ was[c] = prior[c]
             \/ ChangedSince(req[c].name, req[c].seen)
          /\ req[c].op = "clear" /\ was[c] = Absent =>
                ClearedSince(req[c].name, req[c].seen)
      <3>1. req[c].op = "clear" /\ was[c] = Absent =>
                ClearedSince(req[c].name, req[c].seen)
        BY <2>1 DEF ClearInv
      <3>2. CASE rowLock[req[c].name] = c
        <4>1. was[c] = ValueOf(override[req[c].name])
          BY <2>1, <3>2 DEF StoreInv, LockInv, RequestInv, Request
        <4> QED
          BY <2>1, <3>1, <4>1 DEF StoreInv, PriorInv
      <3>3. CASE rowLock[req[c].name] # c
        <4>1. req[c].op = "clear" /\ was[c] = Absent
          BY <2>1, <2>6, <3>3 DEF StoreInv, LockInv
        <4> QED
          BY <3>1, <4>1 DEF ChangedSince, ClearedSince
      <3> QED
        BY <3>2, <3>3
    <2> DEFINE Unread(i) == {j \in DOMAIN log' :
                    /\ log'[i].seen < j /\ j < i
                    /\ log'[j].name = log'[i].name /\ TookEffect(j)'}
    <2> SUFFICES ASSUME NEW i \in 1..k
                 PROVE  /\ log'[i].from # FromOf(log'[i].was) => Unread(i) # {}
                        /\ ~TookEffect(i)' => \E j \in Unread(i) : log'[j].cleared
      BY <2>3 DEF StaleRowsAreExplained
    <2>8. CASE i # k
      <3> DEFINE Before == {j \in DOMAIN log :
                    /\ log[i].seen < j /\ j < i
                    /\ log[j].name = log[i].name /\ TookEffect(j)}
      <3>1. i \in DOMAIN log
        BY <2>3, <2>8
      <3>2. /\ log[i].from # FromOf(log[i].was) => Before # {}
            /\ ~TookEffect(i) => \E j \in Before : log[j].cleared
        BY <3>1 DEF StaleRowsAreExplained
      <3>3. Before \subseteq Unread(i)
        BY <2>3, <2>4, <3>1
      <3>4. \A j \in Before : log'[j].cleared <=> log[j].cleared
        BY <2>3
      <3> QED
        BY <2>3, <2>4, <3>1, <3>2, <3>3, <3>4
    <2>9. CASE i = k
      <3>1. ASSUME NEW j \in DOMAIN log, j > req[c].seen, log[j].name = req[c].name,
                   TookEffect(j)
            PROVE  j \in Unread(k) /\ log'[j] = log[j]
        BY <2>2, <2>3, <2>4, <2>5, <2>6, <3>1
      <3>2. log'[k].from # FromOf(log'[k].was) => Unread(k) # {}
        BY <2>3, <2>5, <2>7, <3>1 DEF ChangedSince
      <3>3. ~TookEffect(k)' => req[c].op = "clear" /\ was[c] = Absent
        BY <2>3, <2>5 DEF TookEffect
      <3>4. ~TookEffect(k)' => \E j \in Unread(k) : log'[j].cleared
        BY <2>7, <3>1, <3>3 DEF ClearedSince
      <3> QED
        BY <2>9, <3>2, <3>4
    <2> QED
      BY <2>8, <2>9
  <1>3. \/ UNCHANGED log
        \/ \E c \in Callers : Commit(c)
    BY DEF Next, Step, BeginSet, BeginClear, WriteOverride, DeleteOverride,
           RecordChange, EncodeFails, Rollback, vars
  <1> QED
    BY <1>1, <1>2, <1>3

\* A row of the log that is not what was replaced, or that cleared nothing, comes
\* after a change its call had not read.
THEOREM StaleRowsHaveACause == Spec => []StaleRowsAreExplained
  <1>1. Init => ClearInv /\ StaleRowsAreExplained
    BY DEF Init, ClearInv, StaleRowsAreExplained
  <1>2. StoreInv /\ ClearInv /\ StaleRowsAreExplained /\ [Next]_vars =>
          ClearInv' /\ StaleRowsAreExplained'
    BY ClearInvKept, ExplainedKept
  <1> QED
    BY <1>1, <1>2, StoreInvariant, PTL DEF Spec
-----------------------------------------------------------------------------
(* DefinitionStore: a put is stored whole and goes whole, and what is stored
   fits the declaration it was published with. *)

Puts == [num : Nat, ver : Versions, vals : Layers]

\* Of each put of the log, the rows hold all or none, and they hold nothing else.
Whole(rows, history) ==
    /\ \A r \in rows : \E k \in DOMAIN history : history[k].num = r.num
    /\ \A k \in DOMAIN history : {r \in rows : r.num = history[k].num} \in {{}, RowsOf(history[k])}

\* A publisher holds rows only while its inserts are under way.
PutTypes ==
    /\ puts \in Nat
    /\ stage \in [Publishers -> {"idle", "deleting", "inserting"}]
    /\ DOMAIN put = Publishers
    /\ DOMAIN snap = Publishers /\ DOMAIN dels = Publishers /\ DOMAIN ins = Publishers
    /\ committed \in Seq(Puts)
    /\ \A c \in Publishers : stage[c] # "idle" => put[c] \in Puts
    /\ \A c \in Publishers : stage[c] # "inserting" => dels[c] = {} /\ ins[c] = {}

\* Puts are numbered apart, those that committed and those under way.
NumbersApart ==
    /\ \A k \in DOMAIN committed : committed[k].num <= puts
    /\ \A j, k \in DOMAIN committed : committed[j].num = committed[k].num => j = k
    /\ \A c \in Publishers : stage[c] # "idle" =>
        /\ put[c].num <= puts
        /\ \A k \in DOMAIN committed : committed[k].num # put[c].num
        /\ \A d \in Publishers \ {c} : stage[d] # "idle" => put[d].num # put[c].num

\* A put under way was checked, and what it inserted could be encoded.
Checked ==
    /\ \A c \in Publishers : stage[c] # "idle" =>
        /\ CheckSettings(put[c].ver, put[c].vals)
        /\ \A n \in ins[c] : Encodable(put[c].vals[n])
    /\ \A k \in DOMAIN committed :
        /\ CheckSettings(committed[k].ver, committed[k].vals)
        /\ \A n \in DOMAIN committed[k].vals : Encodable(committed[k].vals[n])

\* What a delete saw, and what it holds, are puts as a whole.
DeletesWhole ==
    \A c \in Publishers : Whole(snap[c], committed) /\ Whole(dels[c], committed)

DefinitionInv ==
    /\ PutTypes
    /\ NumbersApart
    /\ Checked
    /\ PutsAreWhole
    /\ DeletesWhole

\* The rows of a put carry its number.
LEMMA RowsCarryNumber ==
  ASSUME NEW p, NEW r \in RowsOf(p)
  PROVE  /\ r.num = p.num
         /\ r.name \in DOMAIN p.vals
         /\ r.value = Document[p.vals[r.name]]
  BY DEF RowsOf, DefinitionRow

\* What two sets of whole puts have in common is whole puts, and so is what is
\* left when one is taken from the other.
LEMMA WholeParts ==
  ASSUME NEW S, NEW T, NEW history, Whole(S, history), Whole(T, history)
  PROVE  Whole(S \cap T, history) /\ Whole(S \ T, history)
  <1> DEFINE Of(R, k) == {r \in R : r.num = history[k].num}
  <1>1. ASSUME NEW k \in DOMAIN history
        PROVE  /\ Of(S \cap T, k) \in {{}, RowsOf(history[k])}
               /\ Of(S \ T, k) \in {{}, RowsOf(history[k])}
    <2>1. /\ Of(S, k) = {} \/ Of(S, k) = RowsOf(history[k])
          /\ Of(T, k) = {} \/ Of(T, k) = RowsOf(history[k])
      BY DEF Whole
    <2>2. Of(S \cap T, k) = Of(S, k) \cap Of(T, k) /\ Of(S \ T, k) = Of(S, k) \ Of(T, k)
      OBVIOUS
    <2> QED
      BY <2>1, <2>2
  <1>2. \A r \in S : \E k \in DOMAIN history : history[k].num = r.num
    BY DEF Whole
  <1> QED
    BY <1>1, <1>2 DEF Whole

\* A put that enters the log leaves the sets of whole puts whole, and adds its
\* rows to one of them as a whole.
LEMMA WholeAppended ==
  ASSUME NEW history \in Seq(Puts), NEW p \in Puts, NEW S, Whole(S, history),
         \A k \in DOMAIN history : history[k].num # p.num
  PROVE  Whole(S, Append(history, p)) /\ Whole(S \cup RowsOf(p), Append(history, p))
  <1> DEFINE n == Len(history) + 1
             longer == Append(history, p)
  <1>1. /\ DOMAIN longer = DOMAIN history \cup {n}
        /\ longer[n] = p /\ n \notin DOMAIN history
        /\ \A k \in DOMAIN history : longer[k] = history[k]
    OBVIOUS
  <1> HIDE DEF n, longer
  <1>2. \A r \in S : r.num # p.num
    BY DEF Whole
  <1>3. \A r \in RowsOf(p) : r.num = p.num
    BY RowsCarryNumber
  <1>4. ASSUME NEW k \in DOMAIN history
        PROVE  /\ {r \in S : r.num = longer[k].num} \in {{}, RowsOf(longer[k])}
               /\ {r \in S \cup RowsOf(p) : r.num = longer[k].num}
                    = {r \in S : r.num = longer[k].num}
    BY <1>1, <1>3 DEF Whole
  <1>5. /\ {r \in S : r.num = longer[n].num} = {}
        /\ {r \in S \cup RowsOf(p) : r.num = longer[n].num} = RowsOf(longer[n])
    BY <1>1, <1>2, <1>3
  <1>6. \A r \in S \cup RowsOf(p) : \E k \in DOMAIN longer : longer[k].num = r.num
    BY <1>1, <1>3 DEF Whole
  <1>7. ASSUME NEW k \in DOMAIN longer
        PROVE  /\ {r \in S : r.num = longer[k].num} \in {{}, RowsOf(longer[k])}
               /\ {r \in S \cup RowsOf(p) : r.num = longer[k].num}
                    \in {{}, RowsOf(longer[k])}
    <2>1. CASE k \in DOMAIN history
      BY <1>4, <2>1, Zenon
    <2>2. CASE k = n
      BY <1>5, <2>2, Zenon
    <2> QED
      BY <1>1, <2>1, <2>2, Zenon
  <1>8. Whole(S, longer) /\ Whole(S \cup RowsOf(p), longer)
    BY <1>6, <1>7, Zenon DEF Whole
  <1> QED
    BY <1>8 DEF longer

\* Nothing is stored or under way at the start.
LEMMA InitDefinitionInv == PutInit => DefinitionInv
  BY DEF PutInit, DefinitionInv, PutTypes, NumbersApart, Checked, PutsAreWhole,
         DeletesWhole, Whole, Puts

\* A put that begins takes a number of its own, is checked, and sees a table of
\* whole puts.
LEMMA PutBeginKeeps ==
  ASSUME DefinitionInv, NEW c \in Publishers, NEW v \in Versions, NEW vals \in Layers,
         PutBegin(c, v, vals)
  PROVE  DefinitionInv'
  <1> USE DEF DefinitionInv, PutBegin, DeleteSnapshot
  <1>1. /\ puts \in Nat /\ puts' = puts + 1
        /\ put'[c] = [num |-> puts', ver |-> v, vals |-> vals]
        /\ stage'[c] = "deleting" /\ snap'[c] = table
        /\ \A d \in Publishers \ {c} : stage'[d] = stage[d] /\ put'[d] = put[d] /\ snap'[d] = snap[d]
    BY DEF PutTypes
  <1>2. PutTypes'
    BY <1>1 DEF PutTypes, Puts
  <1>3. NumbersApart'
    <2>1. \A k \in DOMAIN committed : committed[k].num \in Nat
      <3>1. \A k \in DOMAIN committed : committed[k] \in Puts
        BY DEF PutTypes
      <3> QED
        BY <3>1 DEF Puts
    <2>2. \A d \in Publishers : stage[d] # "idle" => put[d].num \in Nat
      BY DEF PutTypes, Puts
    <2> QED
      BY <1>1, <2>1, <2>2 DEF NumbersApart
  <1>4. Checked'
    BY <1>1 DEF Checked, PutTypes, CheckSettings
  <1>5. PutsAreWhole'
    BY DEF PutsAreWhole
  <1>6. DeletesWhole'
    BY <1>1 DEF DeletesWhole, PutsAreWhole, Whole
  <1> QED
    BY <1>2, <1>3, <1>4, <1>5, <1>6

\* A delete holds the rows it saw that are still there: whole puts.
LEMMA PutDeleteKeeps ==
  ASSUME DefinitionInv, NEW c \in Publishers, PutDelete(c)
  PROVE  DefinitionInv'
  <1> USE DEF DefinitionInv, PutDelete
  <1>1. /\ dels'[c] = snap[c] \cap table /\ stage'[c] = "inserting" /\ stage[c] = "deleting"
        /\ \A d \in Publishers \ {c} : dels'[d] = dels[d] /\ stage'[d] = stage[d]
    BY DEF PutTypes
  <1>2. PutTypes'
    BY <1>1 DEF PutTypes
  <1>3. NumbersApart' /\ Checked'
    BY <1>1 DEF NumbersApart, Checked
  <1>4. PutsAreWhole'
    BY DEF PutsAreWhole
  <1>5. Whole(dels'[c], committed)
    <2>1. Whole(snap[c], committed) /\ Whole(table, committed)
      BY DEF DeletesWhole, PutsAreWhole, Whole
    <2>2. Whole(snap[c] \cap table, committed)
      BY <2>1, WholeParts
    <2> QED
      BY <1>1, <2>2
  <1>6. DeletesWhole'
    BY <1>1, <1>5 DEF DeletesWhole
  <1> QED
    BY <1>2, <1>3, <1>4, <1>6

\* An insert adds a name whose value could be encoded.
LEMMA PutInsertKeeps ==
  ASSUME DefinitionInv, NEW c \in Publishers, NEW n \in Names, PutInsert(c, n)
  PROVE  DefinitionInv'
  <1> USE DEF DefinitionInv, PutInsert
  <1>1. /\ ins'[c] = ins[c] \cup {n} /\ stage[c] = "inserting"
        /\ \A d \in Publishers \ {c} : ins'[d] = ins[d]
    BY DEF PutTypes, Pending
  <1>2. PutTypes'
    BY <1>1 DEF PutTypes
  <1>3. NumbersApart' /\ Checked'
    BY <1>1 DEF NumbersApart, Checked
  <1>4. PutsAreWhole' /\ DeletesWhole'
    BY DEF PutsAreWhole, DeletesWhole
  <1> QED
    BY <1>2, <1>3, <1>4

\* A rollback leaves the tables as they were and its publisher with nothing.
LEMMA PutRollbackKeeps ==
  ASSUME DefinitionInv, NEW c \in Publishers, PutRollback(c)
  PROVE  DefinitionInv'
  <1> USE DEF DefinitionInv, PutRollback, End
  <1>1. /\ stage'[c] = "idle" /\ snap'[c] = {} /\ dels'[c] = {} /\ ins'[c] = {}
        /\ \A d \in Publishers \ {c} :
            /\ stage'[d] = stage[d] /\ put'[d] = put[d] /\ snap'[d] = snap[d]
            /\ dels'[d] = dels[d] /\ ins'[d] = ins[d]
    BY DEF PutTypes
  <1>2. PutTypes'
    BY <1>1 DEF PutTypes
  <1>3. NumbersApart' /\ Checked'
    BY <1>1 DEF NumbersApart, Checked
  <1>4. PutsAreWhole'
    BY DEF PutsAreWhole
  <1>5. DeletesWhole'
    BY <1>1 DEF DeletesWhole, Whole
  <1> QED
    BY <1>2, <1>3, <1>4, <1>5

\* A commit takes whole puts away and adds one.
LEMMA PutCommitKeeps ==
  ASSUME DefinitionInv, NEW c \in Publishers, PutCommit(c)
  PROVE  DefinitionInv'
  <1> USE DEF DefinitionInv, PutCommit, End
  <1>1. /\ stage'[c] = "idle" /\ snap'[c] = {} /\ dels'[c] = {} /\ ins'[c] = {}
        /\ \A d \in Publishers \ {c} :
            /\ stage'[d] = stage[d] /\ put'[d] = put[d] /\ snap'[d] = snap[d]
            /\ dels'[d] = dels[d] /\ ins'[d] = ins[d]
    BY DEF PutTypes
  <1>2. /\ committed \in Seq(Puts) /\ put[c] \in Puts
        /\ \A k \in DOMAIN committed : committed[k].num # put[c].num
    BY DEF PutTypes, NumbersApart
  <1>3. /\ DOMAIN committed' = DOMAIN committed \cup {Len(committed) + 1}
        /\ committed'[Len(committed) + 1] = put[c]
        /\ \A k \in DOMAIN committed : committed'[k] = committed[k]
    BY <1>2
  <1>4. PutTypes'
    BY <1>1, <1>2 DEF PutTypes
  <1>5. NumbersApart'
    BY <1>1, <1>2, <1>3 DEF NumbersApart
  <1>6. Checked'
    <2>1. \A n \in DOMAIN put[c].vals : Encodable(put[c].vals[n])
      BY DEF Checked, Pending
    <2> QED
      BY <1>1, <1>2, <1>3, <2>1 DEF Checked
  <1>7. PutsAreWhole'
    <2>1. Whole(table \ dels[c], committed)
      BY WholeParts DEF DeletesWhole, PutsAreWhole, Whole
    <2>2. Whole(table', committed')
      BY <1>2, <2>1, WholeAppended
    <2> QED
      BY <2>2 DEF Whole, PutsAreWhole
  <1>8. DeletesWhole'
    <2>1. \A d \in Publishers : Whole(snap[d], committed') /\ Whole(dels[d], committed')
      BY <1>2, WholeAppended DEF DeletesWhole
    <2>2. Whole({}, committed')
      BY DEF Whole
    <2> QED
      BY <1>1, <2>1, <2>2 DEF DeletesWhole
  <1> QED
    BY <1>4, <1>5, <1>6, <1>7, <1>8

\* DefinitionInv holds in every reachable state.
THEOREM DefinitionInvariant == PutSpec => []DefinitionInv
  <1>1. PutInit => DefinitionInv
    BY InitDefinitionInv
  <1>2. DefinitionInv /\ [PutNext]_putVars => DefinitionInv'
    <2> SUFFICES ASSUME DefinitionInv, [PutNext]_putVars PROVE DefinitionInv'
      OBVIOUS
    <2>1. CASE UNCHANGED putVars
      BY <2>1 DEF putVars, DefinitionInv, PutTypes, NumbersApart, Checked, PutsAreWhole,
                  DeletesWhole
    <2>2. ASSUME NEW c \in Publishers, PutStep(c) PROVE DefinitionInv'
      <3>1. CASE PutDelete(c)
        BY <3>1, PutDeleteKeeps
      <3>2. ASSUME NEW n \in Names, PutInsert(c, n) PROVE DefinitionInv'
        BY <3>2, PutInsertKeeps
      <3>3. CASE PutCommit(c)
        BY <3>3, PutCommitKeeps
      <3>4. ASSUME PutRollback(c) PROVE DefinitionInv'
        BY <3>4, PutRollbackKeeps
      <3> QED
        BY <2>2, <3>1, <3>2, <3>3, <3>4 DEF PutStep, PutInsertFails, PutDeadlock
    <2>3. ASSUME NEW c \in Publishers, NEW v \in Versions, NEW vals \in Layers,
                 PutBegin(c, v, vals)
          PROVE  DefinitionInv'
      BY <2>3, PutBeginKeeps
    <2>4. ASSUME NEW c \in Publishers, PutRollback(c) PROVE DefinitionInv'
      BY <2>4, PutRollbackKeeps
    <2> QED
      BY <2>1, <2>2, <2>3, <2>4 DEF PutNext
  <1> QED
    BY <1>1, <1>2, PTL DEF PutSpec

\* PutsAreWhole for every instance: however puts overlap, fail and wait, the
\* definition layer holds all of a put's rows or none.
THEOREM PutsStayWhole == PutSpec => []PutsAreWhole
  <1>1. DefinitionInv => PutsAreWhole
    BY DEF DefinitionInv
  <1> QED
    BY <1>1, DefinitionInvariant, PTL

\* StoredFits for every instance: a stored value that decodes fits the
\* declaration of the version that published it.
THEOREM StoredSettingsFit == PutSpec => []StoredFits
  <1>1. DefinitionInv => StoredFits
    <2> SUFFICES ASSUME DefinitionInv, NEW r \in table, NEW k \in DOMAIN committed,
                        committed[k].num = r.num, r.value # Unreadable
                 PROVE  Fits(committed[k].ver, r.name, r.value)
      BY DEF StoredFits
    <2> DEFINE p == committed[k]
    <2>1. r \in RowsOf(p)
      BY DEF DefinitionInv, PutsAreWhole
    <2>2. p \in Puts
      BY DEF DefinitionInv, PutTypes
    <2>3. /\ r.name \in DOMAIN p.vals
          /\ r.value = Document[p.vals[r.name]]
      BY <2>1, RowsCarryNumber
    <2>4. Fits(p.ver, r.name, p.vals[r.name]) /\ Encodable(p.vals[r.name])
      BY <2>3 DEF DefinitionInv, Checked, CheckSettings
    <2>5. r.name \in Names /\ p.ver \in Versions
      BY <2>2, <2>3 DEF Puts, Layers
    <2> QED
      BY <2>3, <2>4, <2>5, SettingsAssumption DEF Fits, Encodable
  <1> QED
    BY <1>1, DefinitionInvariant, PTL
-----------------------------------------------------------------------------
(* OrgPolicy: two puts may overlap, and each still works on what it read. *)

\* What a put under way has read is the policy there is, unless another put was
\* written since.
PutInv(c) ==
    handler[c] = "read" =>
        /\ sent[c] \in Requests
        /\ read[c] \in [Fields -> Int]
        /\ base[c] \in 0..writes
        /\ base[c] = writes => read[c] = Get

\* The policy in force never falls below the floors.
PolicyInv ==
    /\ policy \in [Fields -> Int] \cup {Unset}
    /\ Valid(Get)
    /\ raise \in [Members -> Int \cup {Unset}]
    /\ DOMAIN handler = Handlers /\ DOMAIN sent = Handlers
    /\ DOMAIN read = Handlers /\ DOMAIN base = Handlers
    /\ writes \in Nat
    /\ \A c \in Handlers : PutInv(c)

\* Get answers a policy, stored or compiled.
LEMMA GetType ==
  ASSUME PolicyInv
  PROVE  Get \in [Fields -> Int]
  BY OrgPolicyAssumption DEF PolicyInv, Get

\* So is what a put lays over the policy it read.
LEMMA OverlayType ==
  ASSUME PolicyInv, NEW c \in Handlers, handler[c] = "read"
  PROVE  Overlay(c) \in [Fields -> Int] /\ Overlay(c) # Unset
  <1>1. sent[c] \in [Fields -> Numbers \cup {Unset}] /\ read[c] \in [Fields -> Int]
    BY DEF PolicyInv, PutInv, Requests
  <1>2. \A f \in Fields : (IF sent[c][f] = Unset THEN read[c][f] ELSE sent[c][f]) \in Int
    BY <1>1, OrgPolicyAssumption
  <1>3. Overlay(c) \in [Fields -> Int]
    BY <1>2 DEF Overlay
  <1> QED
    BY <1>3, OrgPolicyAssumption

\* The compiled defaults respect the floors.
LEMMA InitPolicyInv == PolicyInit => PolicyInv
  BY OrgPolicyAssumption DEF PolicyInit, PolicyInv, PutInv, Get, Valid

\* A put that reads now has read the policy there is.
LEMMA PutReadKeeps ==
  ASSUME PolicyInv, NEW c \in Handlers, NEW in \in Requests, PutRead(c, in)
  PROVE  PolicyInv'
  <1>1. Get' = Get
    BY DEF PutRead, Get
  <1>2. PutInv(c)'
    BY <1>1, GetType DEF PolicyInv, PutInv, PutRead
  <1>3. ASSUME NEW d \in Handlers, d # c PROVE PutInv(d)'
    BY <1>1, <1>3 DEF PolicyInv, PutInv, PutRead
  <1> QED
    BY <1>1, <1>2, <1>3 DEF PolicyInv, PutRead, Valid

\* A write validates, and makes every other read an older one.
LEMMA PutWriteKeeps ==
  ASSUME PolicyInv, NEW c \in Handlers, PutWrite(c)
  PROVE  PolicyInv'
  <1>1. Overlay(c) \in [Fields -> Int] /\ Overlay(c) # Unset
    BY OverlayType DEF PutWrite
  <1>2. Get' = Overlay(c)
    BY <1>1 DEF PutWrite, Get
  <1>3. ASSUME NEW d \in Handlers PROVE PutInv(d)'
    BY DEF PolicyInv, PutInv, PutWrite, Return
  <1> QED
    BY <1>1, <1>2, <1>3 DEF PolicyInv, PutWrite, Return, Valid

\* A put that fails writes nothing.
LEMMA PutFailsKeeps ==
  ASSUME PolicyInv, NEW c \in Handlers, PutFails(c)
  PROVE  PolicyInv'
  <1>1. Get' = Get
    BY DEF PutFails, Get
  <1>2. ASSUME NEW d \in Handlers PROVE PutInv(d)'
    BY <1>1 DEF PolicyInv, PutInv, PutFails, Return
  <1> QED
    BY <1>1, <1>2 DEF PolicyInv, PutFails, Return, Valid

\* An individual cap touches no policy.
LEMMA RaiseKeeps ==
  ASSUME PolicyInv, NEW m \in Members, NEW n \in Numbers \cup {Unset},
         SetPublicAddressCapFor(m, n)
  PROVE  PolicyInv'
  <1>1. Get' = Get
    BY DEF SetPublicAddressCapFor, Get
  <1>2. ASSUME NEW d \in Handlers PROVE PutInv(d)'
    BY <1>1 DEF PolicyInv, PutInv, SetPublicAddressCapFor
  <1>3. raise' \in [Members -> Int \cup {Unset}]
    BY OrgPolicyAssumption DEF PolicyInv, SetPublicAddressCapFor
  <1> QED
    BY <1>1, <1>2, <1>3 DEF PolicyInv, SetPublicAddressCapFor, Valid

\* PolicyInv holds in every state: Validate* keeps the policy in force on or
\* above its floors, and a put that nobody overtook still holds the row its Get
\* read.
THEOREM PolicyInvariant == PolicySpec => []PolicyInv
  <1>1. PolicyInv /\ [PolicyNext]_policyVars => PolicyInv'
    <2> SUFFICES ASSUME PolicyInv, [PolicyNext]_policyVars PROVE PolicyInv'
      OBVIOUS
    <2>1. CASE UNCHANGED policyVars
      BY <2>1 DEF policyVars, PolicyInv, PutInv, Get, Valid
    <2>2. CASE PolicyNext
      BY <2>2, PutReadKeeps, PutWriteKeeps, PutFailsKeeps, RaiseKeeps DEF PolicyNext
    <2> QED
      BY <2>1, <2>2
  <1> QED
    BY <1>1, InitPolicyInv, PTL DEF PolicySpec

\* The step in which a put writes and ends is its own write, which keeps the
\* fields its request did not carry as it read them.
LEMMA WriterChanges ==
  ASSUME PolicyInv, [PolicyNext]_policyVars, NEW c \in Handlers, NEW f \in Fields,
         handler[c] = "read", writes' # writes, handler'[c] = "idle",
         sent[c][f] = Unset, base[c] = writes
  PROVE  Get'[f] = Get[f]
  <1>1. PICK d \in Handlers : PutWrite(d)
    BY DEF PolicyNext, policyVars, PutRead, PutFails, SetPublicAddressCapFor
  <1>2. d = c
    BY <1>1 DEF PutWrite, Return, PolicyInv
  <1>3. Get' = Overlay(c)
    BY <1>1, <1>2, OverlayType DEF PutWrite, Get
  <1>4. Get'[f] = read[c][f]
    BY <1>3 DEF Overlay
  <1> QED
    BY <1>4 DEF PolicyInv, PutInv

\* PutOrgPolicy changes a field its request did not carry only where another put
\* was written between its Get and its Set.
THEOREM FieldsAreLostOnlyInOverlap == PolicySpec => LostOnlyInOverlap
  <1>1. PolicyInv /\ [PolicyNext]_policyVars =>
            [\A c \in Handlers, f \in Fields :
                handler[c] = "read" /\ writes' # writes /\ handler'[c] = "idle"
                /\ sent[c][f] = Unset /\ base[c] = writes => Get'[f] = Get[f]]_policyVars
    BY WriterChanges
  <1> QED
    BY <1>1, PolicyInvariant, PTL DEF PolicySpec, LostOnlyInOverlap
=============================================================================
