# Verification of mwanachama-backend-shared

TLA+ modules for the parts of this repository that keep state in a database or in
memory while several goroutines, processes or module versions work on it, and for
the two that only compute (dispatching a call, expanding a schedule); TLC
configurations that check them on small instances; and TLAPS proofs that hold for
every instance. Paths are relative to the repository, `src/` being its root.

## The system

The repository is a Go library. A backend declares a *module* (objects, fields,
settings, operations) and the library migrates its tables, stores its rows and
settings, and serves its operations. There is no server loop of its own: concurrency
comes from the goroutines of the process that mounts it, from several processes over
one Postgres database, and from two published versions of a module running side by
side. There are no messages and no timers; the difficulty is in what interleaved
statements, failed transactions and runs that stop half way leave in the database.

| Component | State | Operations | What is hard |
|---|---|---|---|
| `spec` settings (`settings*.go`) | three tables per module: definition layer, overrides, change log | `PutDefinitionSettings`, `StoreOverride`, `StoreClearOverride`, `SettingChanges`, `Resolve*` | read, then wait for a row, then write; log and override must agree; map-range insert order; values change when encoded |
| `spec` migrations (`migrate.go`, `alter.go`, `relax.go`, `names.go`) | columns, constraints and indexes of every table, the name registry | `Migrate` | one statement after another, any of which may be the last; versions that differ over one table; reads used by a later statement |
| `spec` adoption (`legacy.go`, `adopt_types.go`) | legacy and declared tables | `AdoptLegacy`, `Adopted` | renames outside any transaction; order against `Migrate` and the old release |
| `spec` loading (`spec.go`, `blueprint.go`, `validate.go`, ...) | none | `Load`, `Validate` | none beyond case analysis |
| `specstore` | rows of a module, test rows by run id; a cache of clauses | `New`, `Insert`, `InsertOnce`, `Take`, `List`, `Unset`, `ForRun`, `RemoveRun`, `RowsOfRun` | the encoding of every type in every carrier; run isolation; partial removal; stale cache |
| `dispatch` | the table of operations, its routes and its tools | validation, `Mount`, the HTTP handler, the tool invoker | merged routes and what is public; one call bound by two pieces of code; map-order error matching |
| `recur` | none | `Next`, `Between`, `Period`, the wire form | bounded search; months without the day; clock changes |
| `entitygraph` schema manager, with backends `postgres` and `memory` | one draft, published versions, one active flag | `SetSchema`, `Publish`, `Activate`, `Get*` | number race, flag race, deadlock, rollback |
| `entitygraph` data manager, with backends `postgres`, per-collection and `memory` | entities, relationships, unique keys, id registry | create, update, delete, upsert, list | the upsert key against create and update; three tables written together; upserts of one key that overlap; answers that hand out a stored map |
| `orgpolicy` | one policy row, individual caps by member | `PutOrgPolicy`, `SetPublicAddressCapFor` | read, overlay, write back with no transaction |
| `orgsettings` | one row | get, set | replaced whole; nothing |
| `identity`, `vocab`, `geo`, `httpwire`, `gormutil`, `gormtest`, `events`, `mcpui`, `entitygraphtest` | none | helpers | not modelled: pure, I/O or test code |

Interactions: every component talks to the database through GORM or `database/sql`;
`Migrate` creates the settings tables the settings store uses; the data managers ask
the schema manager for the active schema; `dispatch` calls a manager's methods by
reflection. What should hold of each component is listed with its runs below; what
can go wrong, line by line, is the `hazards` list of `PROJECT.json`.

## Modules

| Module | Models | State and actions |
|---|---|---|
| `Settings` | `settings.go`, `settings_change.go` | pure: `Fits` (check), `Resolve`, `Encodable` and `Document` (what a value reads back as, or `Unreadable`), per module version |
| `OverrideStore` | `StoreOverride`, `StoreClearOverride` | one transaction per call: `BeginSet`/`BeginClear` (read and checks), `WriteOverride`/`DeleteOverride`, `RecordChange`, `Commit`, `Rollback` at any point |
| `DefinitionStore` | `PutDefinitionSettings` | `PutBegin`, `PutDelete`, `PutInsert` per name in any order, `PutCommit`, failures and deadlock |
| `Migrate` | `Migrate` on Postgres | a step per statement or transaction; a column is its `not null`, its default and its place in the key, an index its name, columns and uniqueness, a row the version that wrote it |
| `Adopt` | `AdoptLegacy` | the loops over objects, legacy names and columns statement by statement, a stop at any of them; around it the `Migrate` that follows (`Migrate`) or that a release which does not adopt runs at any time (`MigrateFirst`), rows of the old release (`OldInsert`), an operator's retyping (`Retype`) |
| `SpecStore` | `specstore`, `spec/column.go` | `New` joins a field with its carrier; `Insert` encodes, `Decode` is what `Take` and `List` answer; `RemoveRun` and `RowsOfRun` table by table; `Unset` with its cache |
| `Dispatch` | `dispatch` | `Load` validates a table, merges its routes, splits off the public ones and lists its tools; `Serve` finds a request's route, `handlerFor` answers it; `Repeat` says the same request as a tool call, which `invokerFor` answers |
| `Recur` | `recur` | `ReadSchedule`/`WriteBack` are the wire form; `AskNext`, `AskBetween`, `AskPeriod` begin a walk that `WalkPeriod` takes a period further; dates are the real calendar's |
| `SchemaRegistry` | the `SchemaManager` contract | abstract: set, publish, activate, each one step |
| `PgSchema` | `postgres/schema_manager.go` | `Publish` in four steps, `Activate` in five, with row and index waits; implements `SchemaRegistry` |
| `MemSchema` | `memory/schema_manager.go` | a step per critical section; implements `SchemaRegistry` |
| `MemEntities` | `memory/entities.go`, `relationships.go`, composed with `MemSchema` | a step per critical section; `AnswerWritten` is a caller that writes into the map an answer handed out |
| `EntityStore` | `postgres/entities.go`, `postgres/relationships.go` | abstract: a step per method of the one-table backend |
| `PerCollection` | `postgres/percollection.go`, `percollection_ddl.go` | `CreateEntity` and `UpsertEntity` statement by statement, with the wait on the unique index and the row lock; the other methods one statement each; implements `EntityStore` |
| `OrgPolicy` | `orgpolicy` | `PutRead`, `PutWrite`, `PutFails`, `SetPublicAddressCapFor` |
| `MC*` | instances of the above | |
| `SettingsProofs` | theorems about `OverrideStore`, `DefinitionStore` and `OrgPolicy` | |
| `StatelessProofs` | theorems about `Dispatch` and `Recur` | |
| the other `*Proofs` | theorems about the module each is named after | |

Composition: `OverrideStore` and `DefinitionStore` extend `Settings`; `MemEntities`
extends `MemSchema`; `Adopt` has the part of `Migrate` that meets its tables
(create, add a column) as one action, for what `Migrate` does between its own
statements is the subject of `Migrate`. The modules that share a proof module name
their specifications apart (`PutSpec`, `PolicySpec`, `RecurSpec`).

Postgres is outside the repository and is modelled by what these statements meet at
its default level, Read Committed: a statement sees what was committed when it
began; a writer waits for the uncommitted writer of a row or unique key and then
works on what that one left; a commit publishes at once; a cycle of waits is broken
by failing a member of it. These definitions are among the `external` ones of the
map, with what `encoding/json`, `reflect` and `time` do for `Dispatch` and `Recur`.
A transaction may be rolled back at any point, which stands for a failed statement,
a lost connection and a stopped process.

Data is abstracted to what the properties distinguish: a setting's value is a member
of a set and its declared type a set of values; a schema document is a model value,
valid or not; a field of `Migrate` is one of the five kinds validation leaves
(`Kinds`); a value of `SpecStore` is nil, zero, some or malformed, and a cell is
what each type and carrier make of it; a value of `Dispatch` is a kind and its
texts, and the arguments of a call are kept slot by slot, for a spread slot passes
any number of them; a rule of `Recur` as text is a sequence of parts that were read,
empty where the wire has no rule. History variables (`drafts`, `was`, `seen`,
`committed`, `puts`, `raises`, `base`, `done`, `cut`, `matched`, `acked`, `gone`,
`occurs`, `by` and `moved` of an entity, `ver` of a row) record what the properties
speak of and guard nothing but the bounds.

## Runs

| Run | Distinct states | Shows |
|---|---|---|
| `overrides` | 73 101 | the log accounts for the override in place (`LogAccountsForOverrides`), an override changes only together with its change row, whose `from_value` is the override replaced unless another change of it committed after the call had read (`ChangesAreLogged`); a change row that is not what was in place, or that is of a clear which cleared nothing, follows a change its call had not read (`StaleRowsAreExplained`); with two versions of a declaration, values that encode to something else, one that does not encode and one that does not decode, what is stored and reads back is what `Resolve` serves (`StoredIsServed`); every call ends (`EveryCallEnds`) |
| `definitions` | 459 126 | a put is stored whole and goes whole (`PutsAreWhole`), stored values that read back fit (`StoredFits`), and puts that wait for each other's names end |
| `migrate` | 606 216 | a version that has migrated can write from then on, but for a grown key and for a unique default of another version (`MigratedCanWrite`); it finds each of its indexes, or another version's of the same name, and its names (`MigratedIsComplete`); a column that is unique in every version is unique (`UniqueIsEnforced`), running again alters nothing (`SecondRunIsANoOp`) |
| `adopt` | 595 530 | after an `AdoptLegacy` that returned no error, by whatever stops and restarts, no row is left behind, and no column's data but beside a column that a `Migrate` had added (`NothingIsStranded`); an adopted table has no declared field the engine cannot read, if the field has one legacy name (`AdoptedIsReadable`); a declared table has an old index only while a run is about to drop it or after one was cut there (`LegacyIndexesGo`) |
| `specstore` | 2 346 942 | every type with every carrier: an acknowledged row is read back by its own store with nil apart from zero, whatever other runs do (`AckedIsReadBack`, which names the combinations the codec writes and cannot read); a removed run is gone and a counted one counted (`RunsAreAccountedFor`); a cached clause of `Unset` finds what is unset (`UnsetFindsTheUnset`) |
| `dispatch` | 402 468 | the manager is called only for what is public or permitted (`CalledIsAllowed`); the HTTP handler and the tool invoker bind one call alike, but for the fields of a whole query that JSON does not carry (`DoorsBindAlike`); path and session outrank the body (`AddressOutranksTheBody`) |
| `recur` | 29 442 | `Next`, `Between` and `Period` against the set of days the rule describes, computed without the walk, in zones that change their clocks, one by a whole date; the wire form keeps every occurrence |
| `pg_schema` | 37 699 | one active version, no gaps, one active for good once there is one (`ActiveKept`), the refinement `ImplementsRegistry`, and every call returns, deadlocks included |
| `memory` | 849 339 | upserts under one unique key find each other while schemas change between the halves of a call and callers write into their answers (`UpsertsDoNotMultiply`), and the schema manager implements the contract |
| `per_collection` | 172 441 | what is listed can be got (`ListedIsReached`), one live entity per unique key, relationships end in the collections their table was made for (`EndpointsFit`), and the backend implements the one-table backend (`ImplementsStore`) |
| `upsert_match` | violated | refutes that an upsert patches a live entity with the request's key values |
| `org_policy` | 3 201 830 | a field a request did not carry changes only when two requests overlap (`LostOnlyInOverlap`) |

Bounds. Names in `overrides` are one, for calls on different names share no row;
`definitions` needs two, for its deadlock and its mixed layers. Two transactions
make every race of the settings tables, and the third call finds what they left; the
third caller of `pg_schema` is there for a waiter that is overtaken, and its two
versions for an activation of an inactive, an active and an unknown one. `migrate`
has three versions of one object and its test copy: a required column that is
dropped and comes back as a document, a new required column with an index, a unique
column, and a last version with a grown key, an index redefined under its name and a
unique column with a default; two rows make that last one's index fail, or leave an
older version no room, and three runs let a version run before and after another.
`adopt` has two objects, the first with two legacy names that may both be there, and
four calls: two that overlap, one that finds what they left and one more after an
operator retyped a column; a field of the second object may have two legacy columns.
`specstore` has two objects, so that a removal can stop between them, and two runs
and the live tables under one key, so that a row of each could take another's place.
`dispatch` takes every table of up to three of fifteen operations, among them ones
that share an address, clash or are refused, and one table of four; two parameters
are enough to tell the order in which alternatives are tried. `recur` looks at 2024
to 2028, two leap years, with zones that change their clocks just before and just
after midnight, one of them back again, and one that skips a whole date;
`maxEmptyPeriods` is 40 in place of 4000, so that a rule without a date (30
February) comes to it. `memory` has two callers and two entities, one document whose
key is one property and one whose key is two, and a value that has no JSON;
symmetric callers and ids. `per_collection` has three ids, so that two transactions
and a committed entity meet, one relationship, one property that is set or not (two
unique keys) and a schema with and one without a key; its labels are declared twice
and in a table that is taken. `org_policy` uses numbers below, at and above the
floors, two requests that overlap and a third put between them. Runs whose callers
stop at a bound do not check deadlock; the others do. Symmetry is used only in runs
without liveness.

Fairness. The liveness properties assume strong fairness of each call's next
statement (`Step`, `PutStep`): the goroutine runs, the database answers, queues
those that wait for a lock (so that nobody is overtaken for ever) and fails a member
of a wait cycle. Starting a call and rolling back without cause are not fair.
`Migrate`, `Adopt`, `SpecStore`, `MemEntities` and `OrgPolicy` wait for nobody,
`Dispatch` and `Recur` are sequential, and a call of `PerCollection` waits for one
transaction that waits for nobody, so no liveness is claimed of them.

## Proofs

Each proof module extends the components it is about and takes as assumptions only
the ASSUMEs on its constants, which TLC evaluates in every run. A theorem holds for
any processes, names, versions and values; the bounds of a model are natural numbers
of which nothing else is assumed.

* `SettingsProofs`, overrides: `StoreInvariant` shows `StoreInv` inductive. What the
  log says of an override is not inductive by itself: `LockInv` adds that whoever
  wrote a row holds its lock until it commits and that what it found is still in
  place, `RequestInv` that a set under way was checked, and `PriorInv` that what a
  call read is in place still or was changed since. `StaleRowsHaveACause` adds
  `ClearInv`: what a clear is about is in place until another clear commits.
  `LogAccounts`, `StoredValuesAreServed` and the action property
  `OverridesChangeLogged` follow.
* `SettingsProofs`, the definition layer: `DefinitionInvariant`. That puts are
  stored whole (`PutsStayWhole`) needs the same of what a delete saw and of what it
  has marked (`DeletesWhole`), for a commit takes that set away, and that puts are
  numbered apart, those under way included. `StoredSettingsFit` needs `Checked`. The
  two theorems about stored values take from `Document` only that a value which
  reads back fits where it fitted before, and say nothing of one that does not.
* `SettingsProofs`, policies: `PolicyInvariant` shows `PolicyInv` inductive. A put
  reads the policy, overlays its request and writes the whole row back, so the
  invariant says what a put under way still knows: while nobody has written since
  (`base`), what it read is what is stored. `FieldsAreLostOnlyInOverlap` follows.
* `PgSchemaProofs`: `SchemaInvariant` shows `SchemaInv` inductive. `OneActive` needs
  `ActivateInv`: an activation that has passed the unique index is the only one, and
  every set flag is one it clears or its own. `NoGaps` needs `PublishInv`: a number
  once read has all its predecessors published, and an inserted one is held by
  nobody else. `AlwaysActiveOnceActive` and the refinement
  `BackendImplementsRegistry` (initial states and every step, with the mapping
  `history <- doc`, `live <- Live`) follow.
* `MemEntitiesProofs`: `VersionsInvariant` (versions are at the index of their
  number, one is active, what is published was a draft, and every `Publish` under
  way has a number left) carries the refinement `MemoryImplementsRegistry`.
  `MemInvariant` is `UpsertsDoNotMultiply` with the types of entities: every step, a
  write into an answer too, is shown to leave the key of an entity it does not mark
  as moved (`Kept`), and an upsert that creates one to have found none with its key.
  `UpsertsStaySingle` follows.
* `MigrateProofs`: `MigrateInvariant` shows `MigrateInv` inductive. That a migrated
  version can write rests on `Ready` (its columns are there, and no other column
  blocks an insert) being kept by every other version's steps, which holds because
  only `create table` makes a blocking column and `RunInv` ties what a run has read
  to what is there still. `MigratedVersionsWrite` follows for tables whose key is
  the version's and that no unique index of defaults crowds it out of.
  `CompleteInvariant` does the same for indexes (`CompleteInv`): nobody drops one,
  each is some version's or a unique field's, a live table's unique column came with
  its own (`TableIndexes`), and a run finds those of the tables behind it by their
  names (`RunIndexes`). `MigratedVersionsAreComplete` and `UniqueFieldsAreUnique`
  follow. `SecondRunAltersNothing` shows of each of the three statements that alter
  a table that it finds nothing to do for a version that has migrated: no column
  missing, no orphan that blocks.
* `AdoptProofs`: `AdoptInvariant`. A process that runs the loop relies on what it
  saw in earlier statements, while others rename the same tables, so `AtInv` ties
  each place in the loop to the tables: `Clear` (the type check found nothing wrong
  with the table to be renamed, in the fields that have one legacy name) and
  `Passed` (a legacy name, a column, an object the loop is past has nothing left).
  `Later` is what any step may do to the tables, and keeps both; what a process
  knows outlasts the steps of the others for that reason. `NothingStranded`,
  `AdoptedStaysReadable` and, from `IndexInv`, `LegacyIndexesAreDropped` follow.
* `SpecStoreProofs`: `Faithful` is the codec: for every field type, carrier, value
  and column type, `Decode` of what was stored answers the value, but for the
  combinations the specification names. `SpecStoreInvariant` adds that rows and
  acknowledged inserts are one to one (`RowsInv`), that a removal has emptied and a
  count has seen the tables behind it unless somebody wrote to the run (`JobInv`),
  and that a cached clause without the empty text is for a column that has none
  (`UnsetInv`). `AckedReadsBack`, `RunsAccountedFor` and `UnsetFindsUnset` follow.
* `PerCollectionProofs`: `CollectionInvariant`. `Registered` says that an entity is
  in the collection of the type it is registered with and nowhere else. It is
  written by two statements of one transaction, so `TxInv` says of each transaction
  under way what its commit will find: its id is nobody's, or it is the entity that
  has the key, whose row it has locked; `Apart` says that two of them write
  different rows. `ListingsAreReached`, `KeysStayUnique` and `RelationshipsFit`
  follow, and so does the refinement `CollectionsImplementStore`: what the
  collections show (`Seen`) changes at a commit by one method of the one-table
  backend, and at no other statement.
* `StatelessProofs`, dispatch: `DispatchInvariant`. `Mounted` says that the routes
  and tools in use are those of a table `Validate` accepted, and `CallInv` and
  `ToolCallInv` that a call is of an operation of the request's address, was let in,
  and has what its door bound. `CallsAreAllowed` needs that a route built without an
  authorizer has every alternative public (`UnguardedIsPublic`), and that the query
  selects one of the route's operations (`SelectingChooses`). `AddressOutranks`
  needs, beside the invariant, that the one whole argument is found, that the
  overwrites are applied after it is read, the last into a field winning
  (`LastOverwrite`, `OverwriteOutranks`), and that a tool says and reads what the
  path has (`AddressIsSaid`, `SaidReads`), two arguments of one key being refused by
  `ToolFits`.
* `StatelessProofs`, recur: `RecurInvariant` says that a schedule in use is one
  `ValidSchedule` accepts. `StoringKeepsOccurrences` needs that what `WireOf` writes
  `Schedule` reads back as the same rule and dates (`RuleReadsBack`,
  `WireReadsBack`), each part being written once and only where it is not the
  default, and that cutting times to the second moves no occurrence across a bound,
  for they fall on whole seconds themselves (`FloorKeepsReading`, `AtIsWhole`).

What the assumptions say of the constants. Sentinels (`Absent`, `None`, `Null`,
`Error`, `Idle`) are no values, as nil, NULL and an error are none. The callers of
`MemSchema` are finitely many, as goroutines are. The tables `Start` of `Adopt` have
legacy names, rows, indexes and columns with data, for only `Migrate` makes others;
no column takes a name that another gives up. `Fields` and `Carriers` of `SpecStore`
are among the types and carriers its codec branches on. `PerCollection` gives every
type a table and every declared relationship two types and a table, as
`NewPerCollectionBackend` reads them from a schema. The tables of `Dispatch` are
finite and their arguments sequences. The zones of `Recur` have offsets and changes
of whole seconds, any number of them, and a wire's times are numbers or did not
read. The compiled policy of `OrgPolicy` respects its floors.

Model-checked only:

* liveness (`EveryCallEnds` and its like), which is out of the prover's reach;
* `DoorsBindAlike`, which no weaker assumption than "the structs and the texts are
  like those of the run" would give: a number list with an empty text has a zero
  over HTTP that an agent would have to write as one. The property names the fields
  it leaves out, a whole query's tagged `json:"-"`;
* `NextIsFirst`, `BetweenIsExact` and `PeriodIsExact`, which compare the walk of
  `Recur` with the days a rule describes: they hold as far as `Horizon` reaches, and
  rest on the calendar (`CivilOf` as the inverse of `DayNo`, divisions by 365, 153
  and 146096 that the solver does not get through) and on `Sorted`, which counts
  elements of finite sets and needs induction;
* `UpsertFindsMatch`, which the code does not keep.

## Findings

`upsert_match` is a run in which TLC shows the code doing otherwise than a comment
says; `PROJECT.json` quotes the line. An upsert looks at a key column that only
upserts fill, so it passes over an entity that has the request's key values by
`CreateEntity` or `UpdateEntity`.

In the following, too, the code does otherwise than its documents say. The models
take all of these steps. Where a property is named, the case is an exception written
into it, and TLC refutes the property without it; where none is, nothing is claimed.

* Settings: a set or a clear logs as the override replaced what it read before its
  write waited for another transaction (`settings_store.go:196`; line 55 there says
  "The override replaced"). Of two clears that overlap the second deletes nothing
  and logs a change (`settings_store.go:233`; `declared-domains.md:940` says "writes
  nothing when there was nothing to clear"). `ChangesAreLogged` and
  `StaleRowsAreExplained` say when.
* Policy: an individual cap that raises nobody is stored (`store_impl.go:124`), for
  nothing calls `ValidateOverride` but its test; `models/policy.go:56` says the
  write door refuses it. A put that overlaps another puts back what that one changed
  in a field its own request did not carry (`http.go:103`; lines 66-68 there say
  such a field "keeps its stored value"). `LostOnlyInOverlap` says that only an
  overlap does.
* Migrations: an index that changed between versions and kept its name stays as the
  first version made it, and `Migrate` returns no error (`migrate.go:197`;
  `declared-domains.md:396` says that it creates a table's indexes).
  `MigratedIsComplete` is about names for that reason.
* Adoption: with two legacy columns for one field the type of one is checked and the
  other may be the one that is renamed (`adopt_types.go:32`;
  `declared-domains.md:552` says that adoption refuses a type the engine cannot
  read). `AdoptedIsReadable` leaves such fields out (`Ambiguous`).
* `dispatch`: a typed error's detail is told over HTTP (`dispatch.go:183`) and not
  by a tool (`tools.go:180`), and an error that two entries of the error table match
  gets either, by the order of a map (`typed_error.go:34`); `dispatcher.md:282` says
  that the two surfaces cannot disagree. A field of a whole query tagged `json:"-"`
  is offered to an agent and dropped when the call is put together
  (`tools_bind.go:95`; `dispatcher.md:245` says that the query is reassembled);
  `DoorsBindAlike` names such fields.
* In memory: `CreateEntity`, `GetEntity`, `UpdateEntity` and `UpsertEntity` answer
  with the stored entity's own map, which a caller can write without the mutex
  (`memory/entities.go:41`; `backend.go:16` says that all state is behind it).
  `AnswerWritten` is that write, and `UpsertsDoNotMultiply` leaves out the entities
  it moves.

Other disagreements met while modelling:

* Settings: two overlapping puts that name different settings leave rows of both
  (`settings_store.go:123`); `declared-domains.md:932` says a put "replaces the
  whole definition layer with `values`". `PutsAreWhole` says what does hold. A value
  that passes the check and encodes but does not decode, such as a json number out
  of a float's range, is stored, and from then on no read of the module's settings
  succeeds, those of the calls that would replace it included (`LayersLoad`).
* Schema: `Activate` updates the column and not the stored document, so the
  document's own `Active` stays false (`postgres/schema_manager.go:103` against
  `schema/schema.go:247`).
* Migrations: a unique column with a default leaves a version that does not declare
  it room for one row (`CrowdedOut`, `alter.go:60`). A column that one version has
  in its primary key and another declares unique gets no index of its own, for the
  second version adds neither the column nor an index to a table that has it
  (`alter.go:52`), and is then not unique if the key has other columns.
  `UniqueIsEnforced` is therefore about columns that every version declares unique
  and outside its key.
* Adoption: a run cut between a table's rename and its indexes leaves the old
  indexes for good, for no later run looks for them (`LegacyIndexesGo`);
  `AdoptedWith` answers true after a stop between a table's rename and its columns';
  a `Migrate` that does not adopt, run between those two, adds the declared column
  empty, the rename of the old one is skipped, and `AdoptLegacy` returns no error
  (`legacy.go:137`; such a column is `Ahead` in the model); renames that form a
  chain are assumed absent.
* `specstore`: `int32` fields, and json columns carried by a scalar or by bytes, are
  accepted by `New` and written but not read back; a pointer to an empty list or to
  empty bytes reads back nil (both are named in the specification).
  `declared-domains.md:113` says that a string carrier on a bytes column is refused
  by `New`; the code refuses it at `Insert`.
* `dispatch`: a whole query that is no struct is bound over HTTP from the query as
  it was written, and no tool is made of it; a whole body beside a named body
  argument passes validation, and every request to it is then refused; of two
  arguments that overwrite one field the last wins.
* `recur`: a WEEKLY rule takes BYMONTHDAY and ignores it; a start with a fraction of
  a second has no occurrence at the start; a clock change moves an occurrence; where
  a zone skips a whole date, its occurrence falls on a neighbour's instant, and
  `Between` answers that instant twice (`rule.go:336` removes double dates, not
  double instants; `BetweenIsExact` allows it for such dates only).
* In memory: `CreateRelationship` says it mirrors the foreign key of Postgres, which
  accepts soft-deleted endpoints and it does not; inline relationships of
  `CreateEntity` are not checked at all.

## Not modelled

* The SQLite branches: SQLite runs the tests, takes one writer at a time and has
  none of these interleavings.
* Two `Migrate` calls that race inside one `create table if not exists`, which
  Postgres may answer with an error: it is a failed statement, which every step
  allows. The design document names the limit.
* Slices of a schema that the in-memory backend shares with its caller. The data
  race between a write into an answer and a call is modelled by the orders of the
  two, not by what Go may do where they meet.
* What an index with an expression or a condition leaves out, and the run id that
  the indexes of a test copy begin with.
* A reader of both settings layers: the library promises nothing of the pair, and
  `Resolve` takes any.
* Wording of errors, SQL text, identifiers' lengths, the JSON Schema text of tools,
  the splitting of a rule's text, times below a microsecond.
* The components marked `not_modelled` in `PROJECT.json`, with the reason: `geo` is
  floating-point geometry, `orgsettings` replaces one row whole, the others are I/O,
  assets, pure helpers and test harness.

## State of the plan

The models are complete for what the code lets interleave or fail, and every safety
invariant and action property that a passing run checks is proved but the four named
above. What could be added is a proof of the calendar (`CivilOf` and `DayNo` inverse
to each other for every day), on which the three properties of the walk would then
be built period by period.
