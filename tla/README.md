# TLA+ models of django-mongodb-backend

Specifications of the parts of the backend whose correctness depends on the
order of steps, on what fails between them, or on the agreement of two pieces of
code; TLC configurations that check them on small instances; and TLAPS proofs
of the invariants that matter most, for every value of the constants. Paths are
relative to `src/django_mongodb_backend/` unless they start with `docs/` or
`tests/`.

## The system

Django calls the backend through `DatabaseWrapper` (one per thread and database
alias), compilers (one per query) and a schema editor (one per migration).
PyMongo and the MongoDB server are outside the repository; they are modelled
from the calls the backend makes and the outcomes it can see.

| Component | State it keeps | Operations | Interacts with | What is hard | What makes it correct |
|---|---|---|---|---|---|
| Transactions (`transaction.py`, `base.py` 354-406) | `session`, `in_atomic_block_mongo`, `nested_atomics`, `run_on_commit` of the wrapper | `Atomic.__enter__`, `__exit__`, `start_transaction_mongo`, `commit_mongo`, `rollback_mongo`, `on_commit`, `close_pool` | every query passes `session`; Django's own `atomic()` shares `run_on_commit` and the connection | failed commits and starts, exceptions at any depth, hooks that open blocks | writes of a block are kept together or not at all; hooks are called after the commit, in order, once; between blocks nothing is left behind |
| Connection pool (`base.py` 267-343) | `_connection_pools`, shared by all threads; `connection` of each wrapper | `get_new_connection`, `close_pool` | transactions (a lost connection loses hooks) | no lock: threads interleave between dictionary operations | no closed client is handed out; one client for all threads; a pool that is closed is closed |
| Schema editor (`schema.py`, `gis/schema.py`, `constraints.py`, `indexes.py`, `introspection.py`) | the database: collections, indexes, documents | create, delete and rename models; add, alter and remove fields, indexes, constraints and `*_together` | introspection (indexes are found by their columns), GIS and embedded fields | no transaction around DDL: an operation stops anywhere and is run again; long series of operations | the indexes and documents are those of the model, however it came about |
| WHERE clauses (`query.py` 364-425, `lookups.py`, `base.py` 113-212) | none: a tree is translated | `where_node`, `as_mql` of lookups | exceptions `FullResultSet` and `EmptyResultSet` travel between levels; joins reuse conditions | negation and XOR of trees with such children; two translations of each lookup; null, missing and numbers; escaping of patterns | the documents SQL would select; the two translations agree |
| Joins and pushdown (`query.py` 190-361, `compiler.py` 796-863) | none: a pipeline is built | `join`, `_collect_pushable`, `get_lookup_pipeline` | WHERE clauses | conditions move across negations, OR, outer joins and earlier joins | the rows SQL would return; the same rows without pushing |
| Combinators (`compiler.py` 650-794) | none | `get_combinator_queries` | every part is a query of its own | empty parts, other collections, duplicates | set operations on rows |
| Grouping, windows (`compiler.py` 50-311, 883-1123, `functions/window.py`, `aggregates.py`) | names of generated columns | `build_query`, `_prepare_annotations…`, `_get_window_pipeline` | projections, ordering | empty groups, ties, frames | the value SQL defines |
| Subqueries, projection (`compiler.py`, `expressions/builtins.py`) | `subqueries` of a compiler | `query()`, `get_subquery_wrapping_pipeline` | joins, WHERE clauses | no rows, correlated columns | the value SQL defines |
| Writes (`compiler.py` 1220-1377) | none | `insert_many`, `delete_many`, `update_many` and related updates | sessions, embedded fields, encryption | several commands for one `save()`, between which others write or one fails | row counts; all or nothing within a block; only parts of the call outside of one |
| Search (`expressions/search.py`, `compiler.py` 115-214) | the server's list of search indexes | construction of `$search` operators, choice of the index, the stage of a query | compilers | negation, nesting, the rules of compound clauses, one stage per pipeline | boolean meaning of the combination, with its score |
| Fields (`fields/`) | `_state.adding` of embedded instances | preparation and conversion of values, transforms and lookups of structured fields | writes, schema editor, WHERE clauses | an insert that fails after the flag was changed; paths and expressions that look into arrays and documents | flags agree with the database; a lookup selects what it would in Python |
| Queryable encryption (`base.py` 409-462, `schema.py` 395-453, `fields/encryption.py`) | the key vault | creation of data keys and of encrypted collections | schema editor | operations run again | one key per name |
| Search indexes (`schema.py` 342-366, `indexes.py` 216-458) | the server's search indexes | create and wait, drop and wait | schema editor | a timeout races readiness | the operation reports what happened |
| Migration commands, autodetector (`db/`, `management/`) | none | rewriting of generated operations | schema editor | - | - |
| Test databases (`creation.py`) | settings | create, destroy | pool, key vault namespace | settings shared by aliases | settings are restored |
| Functions (`functions/`) | none | translations of functions on text, dates and numbers | lookups, compilers | ends of strings, null and missing arguments | the value of SQL's function |
| Operations, features, forms, GIS operators, client, debug wrapper | none | pure translations, constants, I/O | compilers | - | - |

`PROJECT.json` lists the same components with their sources and what is left
out, and the hazards (places where a test would hardly notice that something
goes wrong) with the properties that would catch them.

## Modules

```
ClientSession <- MongoAtomic <- MCMongoAtomic          ConnectionPool <- MCConnectionPool
                      ^   \ INSTANCE AtomicPromise            ^
              MongoAtomicProofs                       ConnectionPoolProofs

WhereNode <- JoinPipeline <- MCJoinPipeline            SchemaEditor <- MCSchemaEditor
                      ^                                     ^
              JoinPipelineProofs                       SchemaEditorProofs
                                                            ^
SlowOperations <- MCSlowOperations                     SchemaIndexProofs
      ^
SlowOperationsProofs

WindowFunctions <- SelectPipeline <- MCSelectPipeline

BsonValues <- TextLookups <- FieldLookups <- MCFieldLookups

SearchPipeline <- MCSearchPipeline                     Writes <- MCWrites
      ^                                                    ^
SearchPipelineProofs                                   WritesProofs
```

### ClientSession, MongoAtomic, AtomicPromise

`ClientSession` is the driver's session and the server's transaction behind it
(external): the driver's transaction states, inserts inside and outside of a
transaction, operations the server refuses (after which the transaction is
aborted but the driver does not know), commits that succeed, that fail with or
without effect, and sessions whose transaction is over and which therefore run
everything in autocommit mode.

`MongoAtomic` is one thread. Its program is arbitrary and known by a stack of
frames: `mongo` (a block of the backend), `django` (one of Django's), `hooks`
(`commit_mongo()` running hooks) and `on_commit` (a hook run at once). Each path
through `__enter__` and `__exit__` is an action: `EnterInner`, `EnterOuter`,
`EnterFails`; `ExitInner`, `ExitError` (rollback), `ExitCommit`,
`ExitCommitFails`. `Save`, `SaveFails`, `Raise` and `Catch` are the program;
`OnCommitDeferred`, `OnCommitNow`, `NextHook`, `HookReturns`, `HookRaises` and
`HooksDone` are hooks; `ClosePool`, `EnterDjango`, `ExitDjango` and `Restart` are
what else can happen. `fate` is a history variable: what the program was told
about each write. `Faults` chooses which of the things that go wrong around the
wrapper are part of an instance.

`AtomicPromise` is what `docs/topics/transactions.rst` promises: blocks, writes
that become durable together, hooks that are due after the commit. Without
faults `MongoAtomic` implements it (`KeepsPromise`): `buffered` are the writes
with fate `current`, `due` the hooks in the queues of the stack.

### ConnectionPool

Every dictionary operation of `get_new_connection()` and `close_pool()` is a step
of its own, as between any two of them another thread may run: `Connect` (the
test), `MakeClient`, `Publish` (`setdefault`), `LookUp` (the return), `ClosePool`
(the wrapper forgets its client), `Unlist` (`del`, which may raise `KeyError`),
`CloseClient`. The threads that ever call `close_pool()` are chosen in the
initial state.

### SchemaEditor

A model in the state of the migrations, and the collection, its indexes and one
document in the database. An operation (`CreateModel`, `DeleteModel`,
`AddField`, `AlterField`, `RemoveField`, `AlterUniqueTogether`,
`AlterIndexTogether`, `AddMetaIndex`, `RemoveMetaIndex`, `AddConstraint`,
`RemoveConstraint`, `AlterDbTable`) is a plan, a sequence of commands in the
order in which the method of the editor issues them; `RunCommand` runs the next
one against the database, `Raise` stops where the server or a lookup refuses it,
`Interrupt` stops anywhere, `Rerun` starts over, and `Save` is a program using
the collection between operations. Names of indexes are kept as the data they
are computed from, so that two names are equal exactly if the code's are.

A field has a default of its own, one that only `effective_default()` knows (that of a
blank text, or of `auto_now`), or none: `add_field()` fills the column with either
(`InitialValue`), and a field that becomes NOT NULL has its NULL replaced only in the
first case (`NullReplaced`, `has_default()` at `schema.py` 143) and keeps it in the
others (`held`). Entries of `Meta.constraints` and `Meta.indexes` name one field or more
and have a condition or not; conditions compare only the fields of their entry. An entry
that serves as a constraint and as an index has two names.

`Quirks` lists histories after which the code does leave other indexes than the
model's. They are excluded from the passing instances (`Quirks = {}`), each by a
guard of the operation; adding one to `Quirks` shows the history:

* `shared_column`: renaming the column of a field of `unique_together`,
  `index_together` or `Meta` moves only the field's own index (`schema.py`
  131-140; `features.py` skips Django's tests of it: "MongoDB doesn't rename an
  index when a field is renamed.");
* `retype`: the filter of a unique index names the old type (`constraints.py` 17-61), and
  that of an index with a condition compares values of the old type;
* `move_spatial`: a spatial index stays on the old column (`gis/schema.py` 59-64);
* `drop_place`: the spatial index below an embedded model stays
  (`gis/schema.py` 66-69);
* `rename_table`: the computed name of a spatial index is no longer its name;
* `two_keys`: the lookup of a `db_index` index also finds a spatial one, although
  the comment at `schema.py` 265 says it retrieves only BTREE indexes;
* `index_beside`: `_remove_field_index()` excludes the names of `Meta.indexes` but not
  those of `Meta.constraints` (`schema.py` 258-275), so that removing `db_index` from a
  field that a `UniqueConstraint` names alone finds two indexes and raises `ValueError`;
* `twins`: an entry of Meta that asks for an index which the model has already, under
  another name, such as `unique=True` and a `UniqueConstraint` of the same field: the
  server refuses the second request (an instance shows it whose entry `s` has no
  condition).

### SlowOperations

The operations of the schema editor that reach beyond a collection. `models` is
what the recorder of migrations knows; `collections`, `search` and `vault` are
the server. An operation is a plan, as in `SchemaEditor`: `IndexVault`,
`CreateDataKey`, `KeyRefused`, `CreateCollection`, `CollectionRefused`,
`DropCollection` for models with encrypted fields, whose key ids are collected in
`data_keys` as `_get_encrypted_fields()` does; `CreateSearchIndex…`,
`DropSearchIndex…` and the loop of `wait_until_index_created()` and
`wait_until_index_dropped()`, one `Poll` per round, `WaitTimesOut` when the
clock has run out. The server builds and drops search indexes at its own pace
(`Built`, which may fail; `Dropped`). What it answers to a second creation or
deletion is left open. `Stop` ends an operation anywhere; `RunAgain` starts it
over. With `dry` an operation is run by `sqlmigrate`: `Collect` stands for the
commands that the `OperationCollector` writes out.

The property that is not there is that a creation can be run again: after a stop
between two data keys the keys' names are taken, and after `delete_model()` they
still are, so that the model cannot be created a second time until a user
deletes the keys (`DeleteKeys`).

### WhereNode, JoinPipeline

`WhereNode` holds the pure part: lookups and their two translations
(`LookupMql`, with what `PathHolds` and `ExprHolds` the server makes of them),
`where_node()` as `AsMql`, `Combine`, `Raised` and `Xor`, the evaluation of
the result (`Matches`, `Selected`), and the reference definition `Sql`, the tree in
SQL's three-valued logic. Values are encoded by BSON's order: missing -2,
null -1, numbers from 0. What recurs over trees is a recursive function on the trees
up to a `Height`, which the theorems leave open: `Tree`, and `MqlUpTo` for what a tree
becomes.

`JoinPipeline` compiles a query (`Compile`: `CollectPushable` and the
exceptions of `get_lookup_pipeline()`, in the order of `Raises`) and runs its pipeline
on the server, a stage per step (`RunJoin`: `$lookup`, `$set`, `$unwind`; `RunMatch`). Rows are
functions from aliases to documents. The MC module builds the trees as Django's
`build_filter()` does, with `IS NOT NULL` below negations.

The last section of `JoinPipeline` says what the properties need of a query, each a
divergence below when it is missing: `FormsAgree` (constants are numbers, and ranges have
a start), `ComparesEarlier` (no lookup compares a column with one that is joined later),
`NullsAreHidden` (below negations there is an `IS NOT NULL`, see `NullsHidden`), and
`ComparesValues` (joins and comparisons of columns do not meet null where MQL orders or
equates it). `MCJoinPipelineAssumption` checks that every query of the instance
satisfies all four.

### SelectPipeline

What follows the joins. A query is a record: a `select` of one model (condition,
GROUP BY with one aggregate, HAVING, columns, `distinct()`, ordering with the
place of nulls, slice), a combination of queries, or an `aggregate()` over a query.
`Pipeline` compiles it as `build_query()` and `get_pipeline()` do: `GroupStages`,
`GroupDistinct`, `ProjectStages`, `OrderStages`, `SliceStages`; `CombinatorStages` with
`Standardized`, `UnionWith`, `FilterByMembers` and `DistinctStages` for
`get_combinator_queries()`; `WrapStages` for the document that is added so that an
aggregate of nothing has a row, as a `$unionWith` or, with automatic encryption,
behind `$collStats`. Aggregates are two things, as in the code: an accumulator
(`Accumulate`, aggregates.py) and what replaces the aggregate behind the `$group`
(`Replacement`, `_get_replace_expr()`). `RaisesEmpty` says which parts raise
`EmptyResultSet`; a query that does is not sent (`CompileNothing`).

`StringAgg` pushes its values with the keys of its order, and `StringAggJoin` sorts,
filters and joins them behind the `$group`; `Variance` is the square of what
`$stdDevPop` and `$stdDevSamp` return. A text that is aggregated is a number of one
digit, and the delimiter is the digit 9.

`Run` runs one stage on the server (`RunStage`), `Return` reads the cursor. `Sql` is
the reference definition: sets and sequences of rows, without stages. Rows are
compared in order where the query orders by all of its columns, and as bags
otherwise.

### WindowFunctions

The windows of a `select`, behind GROUP BY and DISTINCT. `WindowStages` groups them
into `$setWindowFields` stages by partition and order, with an `$addFields` before for
orders that say where nulls go and one behind for the functions that are computed
from temporary fields (`Outputs`, `Compute`: `percent_rank`, `cume_dist`, `ntile`,
`nth_value`, frames of first and last values...). A filter on a window is a `$match`
behind all of them (`qualify`). `IsRefused` says which stages the server refuses: the
behaviour ends as "refused". `SqlWindow` is the reference: partition, order,
frame and function, from SQL's definitions.

### SearchPipeline

An expression is what the application wrote: an instance of a search class with its
options, a combination by `&`, `|` or `~`, or a `CompoundExpression` made by hand. `Build`
wraps what Python's operators wrap, at every level; `Resolve` pushes negations inwards and
makes compound clauses, as `CombinedSearchExpression.resolve()` and `CompoundExpression`
do; `LeafOperator` makes the operator of each class with the options it sends (`NotNone`,
`Truthy`), `SearchOperator` that of a compound; `SearchIndex` and `VectorIndex` go through
the indexes that `list_search_indexes()` returned; `Compiled` is what the compiler makes of
all search expressions of a query (`CompoundSearches`): one stage, or an exception.
`RunSearch` and `RunMatch` are the server, for which a field that its index does not cover
has no value (`Seen`). A value is a number, and what an analyzer would find "near" is a
number whose distance is at most the fuzziness; a score is the sum of the boosts of the
operators that matched. `Means` and `Worth` give meaning and score to the expression as it
was written.

What recurs over expressions is a recursive function on the expressions up to a `Height`,
which the theorems leave open: what Python and `resolve()` make of one of height h has at
most height h + 2 (`Written`, `Expression`).

The last section says what the properties need: `AsksNoZeros` of a query and
`VectorIndexesLast` of the indexes, each a divergence below when it is missing.
`MCSearchPipelineAssumption` checks that the queries and indexes of the instance have them.

### Writes

Processes that run programs: sequences of `save()`, `create()`, `bulk_create()`,
`update()` and `delete()` on the rows of one model or of a child, its parent and
grandparent (multi-table inheritance), in a block of the backend or not. Every command
is an action: the update that `save()` tries before it inserts, the insert of each
table, `insert_many`, the query for the keys before an update of several tables, the
update of the own table and of each related one, the deletes. `UpdateMethod` chooses
between `update_one` and `update_many` by the column of the criteria and by whether the
key is an `ObjectId`, as `compiler.py` 1353-1360 does: with encryption the second one is
refused.

A command may fail (`MaxFaults`): before it does anything (`Fault`), or outside of a
transaction half way (`CutShort`), when the server keeps what it has written by then, any
of the documents of an `update_many` or `delete_many`, the first ones of an ordered
`insert_many`, or all of them if only the answer is lost. It may find a duplicate key,
or, in a transaction, may meet the write of another one (`Conflicts`) and abort; outside
of one it waits (`Waits`). A command of several documents that does not fail is one step:
other processes run before and behind it, not between its documents. `txn` holds the
snapshot and the view of an open transaction (external, as in `ClientSession`, but with
documents). `emb` is the embedded instance that a process saves: `_state.adding` and
the time of its `auto_now_add` field. A call of `update()` has the values of the tables
it sets (`sets`) and the parents among them (`related`) in the order in which
`get_related_updates()` gives their queries. `Meant`, `MeantRows`, `Allowed` and
`PartDone` are the promise: what one SQL statement or transaction does, what it refuses,
and what part of it a failed call may leave.

### BsonValues, TextLookups, FieldLookups

`BsonValues` holds the kinds of values that lookups tell apart.

`FieldLookups` is a filter on one document: a column of a kind (array, embedded
document, array of embedded documents, JSON, text, array of texts, number), a sequence
of transforms, a lookup and a right side that is a constant, a column or a subquery.
`MatchStage` evaluates it as the WHERE clause of a query, `Nested` as an expression
(within `Case`, or an annotation). `PathHolds` and `ExprHolds` are the two translations;
`Reach`, `Candidates`, `GetField`, `ArrayElemAt` and `ServerSlice` are what the server
makes of paths and operators, `Rhs` what the wrapping pipeline of a subquery leaves.
`Meant` is the reference: the value that Python would reach, and the lookup on it.

`TextLookups` has the lookups by parts of strings: `ConstantPattern` and
`ColumnPattern` are the two ways of escaping, `Tokens` and `RegexMatch` the server's
reading of the pattern; and the functions on text, each as the expression that
`functions/text.py` builds, with the operators of the server (`SubstrCP`, `StrLenCP`...).
`TextMeant` and `SqlOnText` are the references.

## Runs

All passing runs are exhaustive. Deadlock checking is off in the instances that
may stop by design: a pipeline that has run, threads that have nothing to do.

| Run | Shows |
|---|---|
| `atomic_clean` | with no fault, blocks keep `AtomicPromise`; the database holds exactly what was kept; nothing is left between blocks |
| `atomic_faults` | with every fault, the counter and the flag still count the open blocks, hooks stay in order, outside blocks and unique, and no acknowledged write is lost |
| `pool` | no closed client in the dictionary; without `close_pool()`, one client for all and no `KeyError` |
| `schema` | indexes and documents match the model after every history of interrupted operations, of keys and options in one project, of spatial indexes, embedded models and renamed collections in another, and of entries of Meta for single fields and with conditions in a third; no first run is refused; no value is lost; some operations can always be run again |
| `slow_operations` | encrypted collections and the key vault agree; operations that returned left every search index as the model says; a first run is refused only for keys in the vault; every operation ends |
| `query_pipeline` | results are those of SQL; paths and expressions agree; pushing conditions changes nothing |
| `select_pipeline` | grouping, HAVING, DISTINCT, windows, ordering, slices, combinators and aggregates return what SQL does, also of empty parts and empty tables |
| `search` | documents and scores of a search are those of the expression as written; vector searches find the nearest; a query that does not fit one stage is refused, and no other |
| `writes` | an undisturbed call does what SQL does; a failed one, even half way through a command, leaves only parts of it, in a known order; what a block writes is committed in one step; an embedded instance keeps its time of creation |
| `lookups` | lookups through transforms select what Python would, as a path and as an expression; so do lookups by parts of strings; functions on text return what SQL's do |
| `atomic_exception` | violation: after a failed commit an exception does not roll the next block back |
| `union_elsewhere` | violation: a union whose first part is empty runs the second on the first's collection |

### Bounds

* `MaxHooks` 3 and `MaxDepth` 4 with two writes: two nested blocks with a hook
  that opens a block of its own, a hook registered in it, and a write inside and
  outside of the block that fails. A third level of nesting repeats the second:
  only the counter changes, which `NestingCorrect` covers for every depth.
* Three threads and four clients: two threads racing for the entry, a third
  that closes, and a client after the close.
* Two fields and three columns (one free to rename to), in three projects, because the
  product of all options is too large. `Keys`: fields that are plain, indexed or unique,
  of two types, null or not, with each kind of default, one pair of fields for
  `*_together` and the same pair in the other order for Meta. `Maps`: spatial fields and
  embedded models, two names of the collection. `Entries`: plain, indexed and unique
  fields, an entry of Meta for one of them and one for the pair of `*_together`, both with
  a condition, so that lookups find several indexes of a column and must exclude those of
  Meta; without a condition many of them would be `Twins`. What the projects do not combine,
  the proofs cover.
* `MaxPolls` 2: the server may be done before the first poll, between two, after the
  last one or never. The two timeouts (an hour, a minute) are one bound. Two
  columns of one encrypted model, so that a creation can stop between its keys,
  and a model without; `MaxKeys` 4: the keys can be deleted and created again
  twice.
* Trees of depth three over lookups that match everything, nothing, and some
  values (`Height` 6 with the nodes that `build_filter()` adds); documents with `x` missing, null, 0 and 1. Three collections with one
  or no document each, so that every join finds something or nothing; more
  documents only add rows, which stages treat one by one. One join with the condition
  of a `FilteredRelation`, which may match everything. The proofs need none of these
  bounds.
* The columns of `SchemaEditor` are a symmetric set: operations compare columns and never
  read them. Names of fields are not, because Meta lists them in an order.
* `SelectPipeline`: two models; up to two documents of each (three of one, for
  slices from the middle), with equal and null values, in every order: groups of
  one and two, duplicates within a part and across parts, no rows. Combinations
  of two or three parts and of combinations, so that a part is left out in every
  place and the result of one operation is the input of the next. Two columns,
  so that parts can name them in another order. Windows see up to three rows, so that
  a partition has a tie and a row apart, a frame ends inside of it and a bucket is
  larger than the next.
* `SearchPipeline`: documents with two fields that are missing, null or one of two
  numbers; expressions of every class and up to three levels of `&`, `|`, `~` and
  compounds, so that a negation meets every kind of clause below another negation;
  indexes that cover all fields, one, none, in both orders. `Height` 6 leaves room for
  every expression of the instance; the proofs need none of these bounds.
* `Writes`: two processes, two keys, one of which is an `ObjectId`, chains of one to three tables (one or two with
  encryption), two calls of a process alone and one of each together, one fault. A third
  process only waits as the second does; with two keys a bulk insert can fail before and
  behind a stored row, and three objects can share one of them. The proofs need none of
  these bounds.
* `FieldLookups`: arrays of up to three items, documents of depth two, subqueries of up
  to two rows. Strings of up to three characters and parts of up to two, over the
  letters of both cases, a wildcard, a backslash and the two braces: what is escaped
  depends on a character and the one before it. Functions get numbers from 0 to
  beyond the length of the longest string.

### Excluded from the passing instances

* Trees in which negations around a lookup cancel out below an XOR (`NullsHidden`,
  `NullsAreHidden`): SQL counts `NOT UNKNOWN` as false, MQL as true, and
  `build_filter()` adds no `IS NOT NULL` there. The repository states no promise for it.
* Ranges without a start inside expressions (`FormsAgree`), columns of collections
  joined later (`ComparesEarlier`), comparisons and reverse joins that meet null
  (`ComparesValues`): the divergences below. A pushed range without ends raises
  (`FullResultSetIsCaught`) and returns nothing that could be compared.
* Unions whose first part that is not empty is of another model than the first
  (`RunsElsewhere`: `union_elsewhere`), intersections and differences of a union
  (`NoAnchor`, below), distinct averages and variances with a filter (`FilteredTwice`,
  below), orders of `StringAgg` that place nulls or have ties.
* Windows over tied rows whose result SQL defines by peers where the code counts
  documents, or leaves open (`TiesMatter`), windows of a `distinct()` query that need
  columns it does not select (`DistinctFirst`), and orders that the server refuses
  (`NotSupported`): the instance has queries of each kind, and the divergences below say
  what they get.
* Searches whose bounds are zero (`AsksNoZeros`), lists of indexes with one for vectors
  before a search index that covers all fields (`VectorIndexesLast`): below.
* What `ArrayLookupsMatchPython`, `JsonLookupsMatchPython`, `TextLookupsMatchPython` and
  `TextFunctionsMatchSQL` name after their first line (`CountedSlice`, `AllOfNothing`,
  `NullItem`, `NoValue`, `NullRow`, `MeetsArray`, `MeetsNull`, `OtherType`,
  `NewlineAtEnd`, `NotEscaped`, `ArrayToString`, `OnNoText`, `NoLiteral`): each is a divergence below,
  and without it the property is violated.
* Documents that fields of the model cannot produce (arrays, mixed types).
* Renaming a collection with encrypted fields: the names of its keys stay.

### Divergences known without a run of their own

The two runs that expect a violation are the divergences that lose writes or read
another collection. The others are reproduced by checking the property named here, or
by the property whose exclusion is dropped.

Queries:

* A comparison with a column that is joined later is pushed into the earlier `$lookup`,
  where that column is unknown, and loses rows (`compiler.py` 843; `LateQuery` violates
  `ResultMatchesSQL`).
* The filter of a distinct average or variance is applied again behind the `$group`, to a
  set of values that has no columns any more (`compiler.py` 89; `FilteredTwiceQuery`
  violates `AggregatesMatchSQL`).
* `nulls_first` and `nulls_last` in the order of a `StringAgg` are ignored, and with
  `distinct` its values are sorted whatever the order names (`compiler.py` 109-120).
* Without a frame a window with an order ends at the current document instead of its
  last peer (SQL's RANGE), and `percent_rank` counts documents: ties get values that
  differ from SQL's (`functions/window.py` 183; `TiesMatter`). The rank over two columns
  is refused by the server, `cume_dist` and range frames need one numeric column without
  nulls and without `nulls_first` or `nulls_last`.
* The constant by which ranks without an order are sorted is added to the fields of an
  `$addFields` after it was decided whether there is one (`compiler.py` 1064, 1095): it is
  missing unless another window of the query places nulls. All rows are tied in either
  case, but `cume_dist` without an order is refused (`NotSupported`).
* `distinct()` is a `$group` that comes before the windows (`compiler.py` 534, `query.py`
  96-101), which then see distinct rows with the selected columns only, where SQL
  computes windows first (`DistinctFirst`).
* A range without ends on a joined column, `filter(t2__x__range=(None, None))`,
  raises `FullResultSet` (`query.py` 285): the condition is pushed into the
  `$lookup`, where nobody catches it, although `tests/lookup_/tests.py` 27-30 has it
  return every row of one collection (`JoinedRangeQuery` violates
  `FullResultSetIsCaught`).
* A foreign key followed backwards from an outer join that found nothing finds
  the documents whose key is null: `$lookup` takes a missing `localField` for null
  (`query.py` 251; `NothingQuery` violates `NothingJoinsNothing`).
* `sqlmigrate` of a model with encrypted fields creates the data keys in the vault
  (`schema.py` 430), against `docs/howto/queryable-encryption.rst` 313
  (`SqlMigrateMakesNoKeys` of `SlowOperations`).
* The rows of an intersection or difference are looked up beside the first
  document of the first model's collection (`compiler.py` 744). If that is empty
  there are none, although the first operand, a union with another model, has
  rows (`NoAnchor` queries violate `CombinationsMatchSQL`).
* `distinct()` with an aggregate that is not grouped, over no rows: the document
  for the empty result is projected behind the `$group` of `distinct()`, so that
  `Count` is None instead of 0.
* HAVING without GROUP BY is not wrapped (`compiler.py` 303): over an empty collection
  it returns no row even when its condition is met by the aggregate of nothing.
* Missing and null are two groups for `$group`: GROUP BY and DISTINCT of a column
  of an outer join return two rows that both read None if the joined collection
  also has a null.
* A range without a lower end, `When(x__range=(None, 0))`, is `$lte` alone in
  `mongo_expr_operators` and includes null, against `base.py` 187-188; `filter()`
  with the same range does not. `query_pipeline` with such a range violates
  `PathAndExprAgree`.

Lookups and functions:

* `$slice` takes a position and a number of items, the code gives it the start and the end
  (`fields/array.py` 418): a slice from 1 or later has too many items, and `0_0` is an
  error of the server, against `docs/ref/models/fields.rst` 258, "Any two non-negative
  integers" (`CountedSlice`).
* `contains=[]` as a path matches nothing (`AllOfNothing`); `lt` and `lte` over the items
  of an array miss arrays with a null item (`NullItem`).
* A subquery without rows, or whose row is null, is compared like a value, and refused
  where an array is needed (`NoValue`); a null column is found `in` a subquery with a null
  row (`NullRow`).
* A path of a `JSONField` looks into arrays on its way (`MeetsArray`); within an expression
  a key of null is null, as if it existed (`MeetsNull`), and order comparisons compare
  values of any types (`OtherType`). `HasKeyLookup.can_use_path` never holds
  (`fields/json.py` 106). A key that begins with `$` is sent to `$getField` without
  `$literal` (`fields/json.py` 36): the server reads it as the path of a field of the
  document and refuses the command (`NoLiteral`).
* `docs/topics/embedded-models.rst` 206-208 says that `tags__0_1__name` finds "one of the
  first two tags"; the slice has the first one only.
* `endswith` and `iexact` also match before a newline that ends the string
  (`NewlineAtEnd`). `lookups.py` 133 replaces `{` by `\}`, so that
  `contains=F("column")` with a `{` looks for a `}`; `iexact` escapes a constant for LIKE
  only and a column not at all, so that a dot is any character (`NotEscaped`). Lookups by
  parts of an array of strings fail within an expression (`ArrayToString`).
* `Left` and `Substr` of null are the empty string, `Right` and `Substr` without a length
  are refused; `Length`, `Reverse`, padding and `Repeat` do not take a missing value for
  null (`OnNoText`).

Search:

* Bounds of a `SearchRange` that are 0 are dropped (`expressions/search.py`;
  `docs/ref/models/search.rst` 198-222; `ZeroBounds` violates `RangesMatch`).
* The documented `score` of a `CompoundExpression` is never sent. A combination inside of
  a hand-made `CompoundExpression` raises `AttributeError`, as does a
  `SearchMoreLikeThis` of a list. `text & vector` raises at compilation only.
* With a vector index before the search index that covers the fields, the choice of an
  index raises `KeyError`; the vector index is chosen by the path alone, whatever the
  filter names.
* Two searches that are equal but name their path as a string and as a column are two,
  and refused. `annotate(search).count()` drops the search.

Writes:

* `update()` does not refuse None for a field that is not null, as inserts do.
* An update of a child that failed half way and is repeated does not repair the parents
  if its filter is the column that was updated (`compiler.py` 1344).
* With encryption `update_many` is refused, and used for all updates but those of one
  `_id` that is an `ObjectId` (`compiler.py` 1356-1360): saving a child of another model
  fails, and so does saving a model whose primary key is of another type, an integer or a
  text, unless the key is new and `force_insert` says so. `Allowed` leaves these out.
* `update_many`, `delete_many` and `bulk_create()` outside of a block keep the documents
  that were written before they failed, where SQL would undo them (`CutShort`); a failed
  call leaves what `PartDone` says.
* A `BulkWriteError` that is no duplicate key is raised as PyMongo's (`query.py` 22-25).

Connections and migrations:

* `close_pool()` deletes whatever entry the dictionary has (`base.py` 341): when
  another thread has closed and made a client in between, the call removes the new
  client from the dictionary, and no `close_pool()` of a later thread closes it
  unless that thread's own wrapper holds it.
* `sqlmigrate` of an operation on a search index raises `TypeError`: the
  collector's `list_search_indexes()` returns None (`error = "TypeError"`).
* `showencryptedfieldsmap` looks for keys under the present name of the table
  (`schema.py` 437): after `alter_db_table()` it raises, or finds the keys of
  the model that had the name before.
* A block whose body swallows a `DatabaseError` is neither committed nor rolled
  back at its end: `commit_transaction()` raises a PyMongo error, which
  `except DatabaseError` does not catch, and session and hooks outlive the block
  (`Faults` with `"swallow"` violates `CleanBetweenBlocks`).
* `_rollback()` is a no-op, but Django's `rollback()` resets `run_on_commit`: an
  exception leaving Django's `atomic()` inside a block of the backend drops the
  hooks of the block, though `docs/topics/transactions.rst` 14 says that it
  functions as a no-op (`"django"`).
* Other threads keep a client that `close_pool()` closed.

## Fairness and liveness

Only `SlowOperations` waits. Its specification assumes weak fairness of the
editor's own steps, a process that is not stopped goes on, and none of the
server, of the user who runs operations again, or of `Stop`. `OperationEnds` holds
because the clock advances with every round of the loop.

Elsewhere no fairness is assumed: a block, a query and an operation end when the
program says so.

## Proofs

In the modules whose names end in `Proofs`, for any numbers of writes, hooks, frames,
threads, clients, models, expressions, columns, search indexes, processes, programs, keys and
failures, any `Faults` and any `Robust` if nothing else is said, from the assumptions
named in the modules.

* `TypeCorrect`: the type invariant of `MongoAtomic`, one step per action;
  frames and queues are sequences, so lemmas say what pushing and popping keep.
* `NestingCorrect` and `HooksOutsideBlocksCorrect`: `nested_atomics` plus the flag is
  the number of `mongo` frames, and no hook runs inside one. The two are proved together
  (`StackInv`): that a hook frame on top has no block below it is what makes `NextHook`
  and the popping of frames keep the count. Lemmas `PushBlocks` and `PopBlocks` give the
  cardinalities.
* `HooksInOrderCorrect` and `NoHookTwiceCorrect`: hooks wait in order
  and in one place. `HooksInv` says it of every queue there is, `run_on_commit`, those
  saved in the frames of blocks and those that hook frames are running: each is ordered,
  no two of them share a hook, none holds one that was called, and every hook is older
  than the next to be registered. Most of the proof is what `Append` and `Tail` keep, and
  that handing a queue from one place to another keeps them disjoint.
* `KeepsPromiseCorrect` (`MongoAtomicProofs`): `MongoAtomic` implements `AtomicPromise` if
  `Faults = {}`, with the server refusing commands, exceptions in blocks and hooks, and
  processes that die at any step. It needs all invariants before it and `CleanInv`: in
  which state the session of an open block may be, that outside of blocks there is no
  session and no hook waits, and that the database plus the transaction hold what the
  promise says is kept. `BlockIsOpen`, `CommitAddsCurrent` and `PromiseDoes` connect the
  steps; every action is then a step of the promise or a stutter.
  `DurableIsKeptCorrect` and `CleanBetweenBlocksCorrect` come from the same invariant.
  The condition is necessary: each member of `Faults` breaks one of the three, as the
  runs and "Excluded from the passing instances" show.
* `KeptIsDurableCorrect`: an acknowledged write is in the database. Not inductive
  by itself: `DurabilityInv` adds where the writes of the open block are, which
  depends on the state of the session: in the transaction while that can commit,
  in the database if the session is in autocommit mode.
* `PoolInvariant`: the strengthening of `PoolHoldsOpenClient`: a client that is
  about to be published is open and known to its maker alone, one that is about
  to be closed is not in the dictionary.
* `PoolHoldsOpenClientCorrect` follows. `OneClientCorrect` and `NoKeyErrorCorrect`: if no
  thread closes, every connection is the entry of the dictionary, and it is there when
  it is read (`SharingInv`, inductive relative to `PoolInvariant`).
* `MapMatchesCollectionsCorrect`: every column of an encrypted collection has
  exactly one key in the vault, the collection's own. `KeysInv` adds what keeps it
  so across stops and reruns: key names are unique in a vault that is not empty,
  and it has its index then; the commands that an operation has left index the
  vault before they make keys, and make a key of every column, or have it already,
  before they make the collection. The lemma `PlanStarts` shows that of every
  plan, `TailIndexed` and `TailKeysMade` that taking a command keeps it.

* `SearchMatchesModelsCorrect`, `FirstRunsRefusedCorrect` and the type invariant
  (`SlowOperationsProofs`): search indexes are those of the models when no operation is under
  way or to be run again, and an operation that runs for the first time is refused for
  its keys only. `SearchInv` says what an operation may have done to its model so far
  (`Underway`), what it has done once the command for it is not left (`Done`), and, if it
  runs for the first time, that nothing it has left to do was done before (`Untouched`).
  `OperationAdvances` says that every step of the editor brings it nearer to its end.
* `DocMatchesModelCorrect` and `ValuesSurviveCorrect` (`SchemaEditorProofs`): after every
  operation, interrupted and run again anywhere, each field has its value or default in
  its column and no column is left behind; and no value is lost on the way. A NULL is the
  value of its field as well, and stays unless the field has a default of its own. `EditInv`
  says of every field where its value is while an operation runs, in the old column or in
  the new one, and that the commands that are left, or those of the next run, do to it
  what has not been done (`KeptIs`, `RemovedIs`, `AddedIs`). It needs that a plan renames
  before it replaces NULL and has exactly the commands for the fields in which the two
  models differ (`Planned`, one lemma per operation).
* `IndexesMatchModelCorrect`, `NothingRefusedCorrect` and `RerunSucceedsCorrect`
  (`SchemaIndexProofs`), if `Quirks = {}` and every project is `Separate`. `IndexInv` compares indexes without the name their collection had when they were
  made (`Timeless`): after any number of stops, what is there is what both models call
  for, plus some of what one of them does, and what is missing or too much is still to be
  made or dropped if the operation is running (`Changed`); an operation that runs for the
  first time finds what it drops (`FirstRun`). An operation keeps it if its plan is
  `Fitted` to its models: makes exactly the indexes that the second one calls for beyond
  the first, drops the others, each by one command whose lookup finds this one index,
  never looks indexes up after it made one, and moves the collection at most once. The
  lemmas whose names end in `Fitted` show that of the plan of every operation.

  `Separate` says that `*_together` name at least two fields and that the entries of Meta
  differ in their names, as Django requires of them. Entries of Meta may name one field
  that has a key, or the fields of `*_together`: `Sound` without `twins` keeps the model
  from asking for one index twice, a lookup finds the index it is to drop because the
  names of Meta are excluded (`MetaConstraintNames`, `MetaIndexNames`) or, where they are
  not, because an index that is left differs in `unique` or in its number of columns
  (`KeysAlone`, `KeyApart`); only `index_beside` escapes all of these. The projects of
  `MCSchemaEditor` are separate.
* `BlocksAreAtomicCorrect` (`WritesProofs`): what a block writes reaches the collections
  in the step that commits it. `RunInv` says that a process within a call of its block
  has an open transaction; each action has a lemma that reduces it to `Outcome`: one
  command, an exception, or a step that sends nothing. `CommitMerges` says what a commit
  writes.
* `CreatedOnceCorrect`: all documents of an embedded instance have its one time of
  creation. `DataInv` adds that an instance of which a document exists anywhere, in the
  collections or in an open transaction, is marked as stored; that is why preparing it
  once more, after whatever failure, spoils no document. `Derived` is what every command
  does to documents in these terms.

* `CallsMatchSQLCorrect` and `FailedCallsLeavePartsCorrect` (`WritesProofs`): what a single
  call does, from `KeyAssumption` (finitely many keys, so that rows can be counted) and
  `ProgramsAssumption` (the tables of a model are distinct, and calls are such as Django
  makes). `CallInv` follows a call from one command to the next. As long as nobody else
  writes to what the process sees (`Undisturbed`), each table is as the call means it
  if it is among `DoneTables` and as it was before the call if not (`Reached`); a
  `save()` gets to an insert only in a table without its key (`SaveFits`), because the
  table above it had none and the image was whole, or because the call is a `create()`;
  the keys that `update()` and `delete()` hold are those the filter chose (`UpdateFits`,
  `DeleteFits`), and they count every table once. When the call returns, `DoneTables` is
  the whole model (`Settled`); when it raises, the server did it, or SQL would have
  refused the call, too (`Possible`). `UnderWayIsPart` shows that a call between any two
  commands satisfies `PartDone`, so it does not matter before which one it fails. If it
  fails within one, `CutIsPart` says that each document is as it was before the command or
  as the command would have made it, and `PartIsWhole` that what is stored then still has
  its parents. One lemma per
  action reduces it to a refusal, a command or a look at the collections (`InCall`);
  `CallInvAfter` says what that leaves of the other processes.

  Two statements turned out to be wrong in the proof, and TLC had found neither: with
  several objects of one key `bulk_create()` means the first, and `PartDone` orders only
  the first objects of each key. The instance has such calls now.

* `PathAndExprAgreeCorrect` (`JoinPipelineProofs`), if `FormsAgree`: `where_node()`
  selects the same rows as a path and as an expression, for trees of any height. A
  recursive function has no value in TLA+ until one is shown to exist, so
  `JoinPipelineProofs` first builds `Tree`, `AsMql`, `Matches`, `Sql`, `LookupsIn` and
  `NullsHidden` from their definitions, height by height, and then argues by the least
  height at which a claim fails. `CombineSelects` and `XorSelects` say which rows the
  loop of `where_node()` and its XOR leave, in terms of those that the children select,
  exceptions included; `FormsSelectTheSame` follows for lookups, then for trees.
* `PushdownIsSafeCorrect`, if `ComparesEarlier`: conditions that are pushed into
  the `$lookup` of an inner join neither lose a row nor add one. `PushablesAreParts` says
  that what `collect_pushable()` takes from a WHERE clause holds of every row that meets the
  clause, below any negations; `MeetsDependsOnColumns`, that it says of a row
  within the `$lookup` what it says of the complete row. `RunInv`: the stream lacks of the
  rows of the joins alone only those that extend a row which does not meet
  what was pushed so far (`Loses`), and a later join or the `$match` loses these in any case.
  Without `ComparesEarlier` it is false (`LateQuery`).
* `ResultMatchesSQLCorrect`, if moreover `NullsAreHidden` and `ComparesValues`: the query
  returns the rows of SQL. A tree selects the rows for which `Sql` is true if
  `NullsHidden` has its negation (the claim for the induction is both halves: below an even
  number of negations "T" and selected are the same, below an odd number "F" and not
  selected); `FoundMatches` and `PlainIsSql` carry that through the joins, where a join
  finds what SQL's finds; `PushdownIsSafe` does the rest. `TypeCorrect` is the type
  invariant that the three rest on: stages follow one another, and rows bind the aliases
  of the query.

* `SearchesMatchCorrect` (`SearchPipelineProofs`), if `AsksNoZeros`: a query returns the
  documents that satisfy its search expression as it was written, with their scores, for
  expressions of any height. The expression goes through four forms on its way to the
  server, and each has its lemma. `ExpressionInduction` is the induction by height, and
  `Solution` shows with it that the recursive definitions have functions that solve them
  (`MeansDef`, `WorthDef` and the like). `Faithful`: what `resolve()` makes of the built
  expression means the same, or the opposite if it was negated, and is worth the same below
  an even number of negations, and nothing below an odd one; the claim for the induction
  has both signs, since De Morgan's laws exchange them. `SentIsPlain`: no combination is
  left in what is sent, which is why its operator exists. `PlainIsSaid`: the operator
  matches and scores as the plain expression it was made of; here a dropped zero bound
  makes a difference. `FieldsDecide`: an expression looks at the fields it names only, so
  that what the index hides from the server (`Seen`) changes nothing if the index covers
  them, and `SearchIndexSearchable` says that the one chosen does. `SearchesFind` is the
  invariant of the rows, `CompiledOnce` that of the stage they come from.
* `NearestAreFoundCorrect`: a vector search returns the nearest of the documents that pass
  its filter, as many as it was asked for, without an assumption.
* `RefusedIfNotOneStageCorrect`, if `VectorIndexesLast`: a query is refused exactly if one
  stage cannot say what it asks. `RefusedUnlessKeyError` says what is left without it: the
  `KeyError` of a vector index that comes first. `FinalHolds` shows that building and
  resolving neither hide nor create what is refused, a vector search within something or a
  combination within a compound made by hand.

  Two statements of the property turned out to be wrong in the proof, and TLC had found
  neither: two searches that were written differently can be equal once they are built,
  and share a stage (`a & b` and `CompoundExpression(must=[a]) & CompoundExpression(must=[b])`);
  and a compound made by hand is refused for a combination in it also if it is itself
  the operand of an operator. The instance has such queries now.

Only model-checked: `SelectPipeline` with `WindowFunctions`, and `FieldLookups` with
`TextLookups` and `BsonValues`. They and their helpers are written with `RECURSIVE`
operators and with folds over sequences of stages, rows and characters, for which the
prover has no rules. The conversion of `WhereNode` and `SearchPipeline` into recursive
functions on a bounded set is open to them, too.

Out of the prover's reach: liveness (`OperationEnds`, of which
`OperationAdvances` is the safety half), `ENABLED`, and the induction theorems of the
library, which take an operator as a parameter. `JoinPipelineProofs` and
`SearchPipelineProofs` state each induction for a set instead (the least number that is
missing in it); the plans of `SchemaEditor` list finite sets by `SetToSeq`, not by
recursion.

## Not modelled

* Operations and converters between Python and BSON values, functions on dates and numbers,
  casts, hashes: their arithmetic is the server's or Python's, and one unit test per value
  says more than a model that repeats it.
* `Replace`, `Trim`, `regex` and `iregex` pass their arguments on.
* Null conditions on paths with an index over arrays of documents, `has_key` with a key
  transform on its right side, `Each` within `Each`: combinations for which neither docs
  nor tests say what they mean.
* Several aggregates in one query, statistics over windows, subqueries that refer to
  columns of the outer query, joins over several columns: more of the same stages.
* Implicit many-to-many tables; renaming the collection of a model with encrypted fields,
  whose keys keep their old names (below, "Connections and migrations").
* The autodetector and the migration commands rewrite generated operations; most of what
  decides their result is Django's autodetector, outside of the repository.
* Creation of test databases, feature flags, forms, templates, system checks, GIS
  operators, the command-line client and the debug wrapper: configuration, constants,
  user interface and I/O.

## Plan

In the order of importance to users of the backend; 1 to 7 are done.

1. `ClientSession`, `MongoAtomic`, `AtomicPromise`, with proofs.
2. `ConnectionPool`, with proofs.
3. `SchemaEditor` and `SlowOperations`: interrupted operations, search indexes, encrypted
   collections, with proofs.
4. `WhereNode`, `JoinPipeline`, `SelectPipeline`, `WindowFunctions` against SQL.
5. `FieldLookups`, `TextLookups` against Python and SQL.
6. `SearchPipeline` against the meaning of expressions.
7. `Writes`, with processes, faults and transactions.
8. Left: correlated subqueries; several aggregates of one query; renaming the table of an
   encrypted model.
9. Proofs that are left: `SelectPipeline` and `FieldLookups`, converted as `WhereNode` and
   `SearchPipeline` were.
