---------------------------- MODULE SlowOperations ----------------------------
(***************************************************************************)
(* The operations of schema.DatabaseSchemaEditor whose effects go beyond a  *)
(* collection and its indexes: search indexes, which another process of the *)
(* server builds and drops while the editor polls it (schema.py 341-367),   *)
(* and models with encrypted fields, whose data keys are documents of the   *)
(* key vault (schema.py 369-452).  An operation may stop between any two of *)
(* its commands, and is then run again from its start.                      *)
(*                                                                         *)
(* A model here is its encrypted fields and its search indexes; SchemaEditor *)
(* models the rest.  The server supports search.                            *)
(***************************************************************************)
EXTENDS Integers, Sequences, FiniteSets, SequencesExt

CONSTANTS
  Table,                \* models, by the name of their collection
  Index,                \* names of search indexes
  EncryptedFields,      \* [Table -> sequence of the columns of encrypted fields]
  MaxPolls,             \* bound: the polls that fit in the timeout
  MaxKeys,              \* bound: user-deleted keys are replaced below it
  None

\* dry: in sqlmigrate, so that the editor has collect_sql set.
\* again: not the first run of the operation.
Operation ==
  [kind : {"create_model", "delete_model", "add_index", "remove_index"}, table : Table,
   indexes : SeqOf(Index, Cardinality(Index)), dry : BOOLEAN, again : BOOLEAN]

\* What an operation raises.
Error == {"stopped", "key exists", "collection exists", "index refused", "no index",
          "timeout", "TypeError"}

ASSUME SlowOperationsAssumption ==
  /\ MaxPolls \in Nat
  /\ MaxKeys \in Nat
  /\ \A t \in Table : EncryptedFields[t] \in Seq(STRING)

\* None is no operation, no error, no indexes of a model and no encryptedFields.
ASSUME NoneAssumption ==
  /\ None \notin Operation
  /\ None \notin Error
  /\ \A indexes \in SUBSET Index : None # indexes
  /\ \A t \in Table : None \notin [Range(EncryptedFields[t]) -> Nat]

ASSUME FiniteAssumption == IsFiniteSet(Table)

Columns(t) == Range(EncryptedFields[t])
Column == UNION {Columns(t) : t \in Table}

VARIABLES
  models,               \* django_migrations: the indexes of each model, or None
  collections,          \* encryptedFields of each collection, or None
  search,               \* the state of each search index on the server
  vault,                \* the documents of the key vault
  unique_names,         \* whether the vault has its unique index
  next_key,             \* identity of the next data key
  phase,                \* "idle", "running" or "failed"
  op,                   \* the operation that is running or failed
  todo,                 \* the commands it has left to run
  data_keys,            \* _get_encrypted_fields(): the keyId of each column so far
  polls,                \* (monotonic() - start) / interval of a wait
  error                 \* what the operation raised

database == <<collections, search, vault, unique_names, next_key>>
editor == <<phase, op, todo, data_keys, polls, error>>
vars == <<models, database, editor>>

Status == {"absent", "building", "ready", "failed", "deleting"}

\* The vault's document: the only keyAltName, f"{db_table}.{column}", and _id.
Key == [name : Table \X Column, id : 1..MaxKeys + Cardinality(Table \X Column)]

Init ==
  /\ models = [t \in Table |-> None]
  /\ collections = [t \in Table |-> None]
  /\ search = [t \in Table |-> [i \in Index |-> "absent"]]
  /\ vault = {}
  /\ unique_names = FALSE
  /\ next_key = 1
  /\ phase = "idle"
  /\ op = None
  /\ todo = <<>>
  /\ data_keys = <<>>
  /\ polls = 0
  /\ error = None

-----------------------------------------------------------------------------
(* What an operation runs.                                                 *)

Command(do, arg) == [do |-> do, arg |-> arg]

\* add_index(): create_search_index() and wait_until_index_created().
AddIndexPlan(i) == <<Command("create_search_index", i), Command("await_ready", i)>>

\* One after the other.
AddIndexesPlan(indexes) ==
  [n \in 1..2 * Len(indexes) |->
     AddIndexPlan(indexes[(n + 1) \div 2])[IF n % 2 = 1 THEN 1 ELSE 2]]

RemoveIndexAtOnce(i) ==   \* mutant: does not wait
  <<Command("drop_search_index", i)>>

\* remove_index(): drop_search_index() and wait_until_index_dropped().
RemoveIndexPlan(i) == <<Command("drop_search_index", i), Command("await_dropped", i)>>

KeysAtOnce(t) ==   \* mutant: the vault is not indexed
  [k \in DOMAIN EncryptedFields[t] |-> Command("create_key", EncryptedFields[t][k])]

\* The commands of _create_collection() before db.create_collection().
VaultPlan(t) ==
  IF EncryptedFields[t] = <<>> THEN <<>>
  ELSE <<Command("index_vault", None)>>
       \o [k \in DOMAIN EncryptedFields[t] |->
             Command("create_key", EncryptedFields[t][k])]

CollectionFirst(t, indexes) ==   \* mutant
  <<Command("create_collection", None)>> \o VaultPlan(t)
  \o AddIndexesPlan(indexes)

\* create_model() makes the collection, then the indexes of Meta.indexes.
CreateModelPlan(t, indexes) ==
  VaultPlan(t) \o <<Command("create_collection", None)>>
  \o AddIndexesPlan(indexes)

DeleteModelPlan == <<Command("drop_collection", None)>>

Plan(o) ==
  CASE o.kind = "create_model" -> CreateModelPlan(o.table, o.indexes)
    [] o.kind = "delete_model" -> DeleteModelPlan
    [] o.kind = "add_index" -> AddIndexPlan(o.indexes[1])
    [] o.kind = "remove_index" -> RemoveIndexPlan(o.indexes[1])

\* The next operation of the project's migrations.
Follows(o) ==
  /\ o.kind = "create_model" <=> models[o.table] = None
  /\ o.kind = "create_model" => \A j, k \in DOMAIN o.indexes :
                            j # k => o.indexes[j] # o.indexes[k]
  /\ o.kind = "delete_model" => o.indexes = <<>>
  /\ o.kind \in {"add_index", "remove_index"} => Len(o.indexes) = 1
  /\ o.kind = "add_index" => o.indexes[1] \notin models[o.table]
  /\ o.kind = "remove_index" => o.indexes[1] \in models[o.table]

\* What the migration recorder keeps of an operation that returned.
Recorded(o) ==
  CASE o.kind = "create_model" -> Range(o.indexes)
    [] o.kind = "delete_model" -> None
    [] o.kind = "add_index" -> models[o.table] \cup Range(o.indexes)
    [] o.kind = "remove_index" -> models[o.table] \ Range(o.indexes)

-----------------------------------------------------------------------------
(* Operations start, stop, are run again and end.                          *)

Run(o) ==
  /\ phase' = "running"
  /\ op' = o
  /\ todo' = Plan(o)
  /\ data_keys' = <<>>
  /\ polls' = 0
  /\ error' = None
  /\ UNCHANGED <<models, database>>

\* migrate, or sqlmigrate of the next operation.
Start ==
  /\ phase = "idle"
  /\ \E o \in Operation : Follows(o) /\ ~o.again /\ Run(o)

RunAgain ==
  /\ phase = "failed"
  /\ ~op.dry
  /\ Run([op EXCEPT !.again = TRUE])

Leave ==
  /\ phase' = "idle"
  /\ op' = None
  /\ error' = None
  /\ UNCHANGED <<database, todo, data_keys, polls>>

Finish ==
  /\ phase = "running"
  /\ todo = <<>>
  /\ models' = IF op.dry THEN models ELSE [models EXCEPT ![op.table] = Recorded(op)]
  /\ Leave

\* sqlmigrate has raised.
GiveUp ==
  /\ phase = "failed"
  /\ op.dry
  /\ Leave
  /\ UNCHANGED models

Fail(e) ==
  /\ phase' = "failed"
  /\ error' = e
  /\ todo' = <<>>
  /\ UNCHANGED <<models, op, data_keys, polls>>

\* The process dies, or the server refuses a command for a reason of its own.
Stop ==
  /\ phase = "running"
  /\ Fail("stopped")
  /\ UNCHANGED database

At(do) ==
  /\ phase = "running"
  /\ todo # <<>>
  /\ Head(todo).do = do

Proceed ==
  /\ todo' = Tail(todo)
  /\ UNCHANGED <<models, phase, op, polls, error>>

\* OperationCollector: the command is written to the output instead.
Collect ==
  /\ \E do \in {"create_collection", "drop_collection", "create_search_index", "drop_search_index"} :
       At(do)
  /\ op.dry
  /\ Proceed
  /\ UNCHANGED <<database, data_keys>>

-----------------------------------------------------------------------------
(* Encrypted models.  key_vault and client_encryption are the connection's, *)
(* whatever collect_sql is.                                                 *)

IndexVault ==
  /\ At("index_vault")
  /\ unique_names' = TRUE
  /\ Proceed
  /\ UNCHANGED <<collections, search, vault, next_key, data_keys>>

NameTaken(name) == unique_names /\ \E k \in vault : k.name = name

CreateDataKey ==
  /\ At("create_key")
  /\ LET column == Head(todo).arg
         name == <<op.table, column>>
     IN /\ ~NameTaken(name)
        /\ vault' = vault \cup {[name |-> name, id |-> next_key]}
        /\ next_key' = next_key + 1
        /\ data_keys' = [c \in DOMAIN data_keys \cup {column} |->
                            IF c = column THEN next_key ELSE data_keys[c]]
  /\ Proceed
  /\ UNCHANGED <<collections, search, unique_names>>

KeyRefused ==
  /\ At("create_key")
  /\ NameTaken(<<op.table, Head(todo).arg>>)
  /\ Fail("key exists")
  /\ UNCHANGED database

CreateCollection ==
  /\ At("create_collection")
  /\ ~op.dry
  /\ collections[op.table] = None
  /\ collections' = [collections EXCEPT ![op.table] = data_keys]
  /\ Proceed
  /\ UNCHANGED <<search, vault, unique_names, next_key, data_keys>>

CollectionRefused ==
  /\ At("create_collection")
  /\ ~op.dry
  /\ collections[op.table] # None
  /\ Fail("collection exists")
  /\ UNCHANGED database

\* The collection's search indexes go with it; its keys stay in the vault.
DropCollection ==
  /\ At("drop_collection")
  /\ ~op.dry
  /\ collections' = [collections EXCEPT ![op.table] = None]
  /\ search' = [search EXCEPT ![op.table] = [i \in Index |-> "absent"]]
  /\ Proceed
  /\ UNCHANGED <<vault, unique_names, next_key, data_keys>>

\* A user deletes the keys of a model that has no collection, as the tests do.
DeleteKeys(t) ==
  /\ phase # "running"
  /\ collections[t] = None
  /\ next_key <= MaxKeys
  /\ vault' = {k \in vault : k.name[1] # t}
  /\ vault' # vault
  /\ UNCHANGED <<models, collections, search, unique_names, next_key, editor>>

\* showencryptedfieldsmap, _get_encrypted_fields(create_data_keys=False): the
\* ids that find_one() may return for a column; none raises an exception.
ShownKeys(t, column) == {k.id : k \in {v \in vault : v.name = <<t, column>>}}

-----------------------------------------------------------------------------
(* Search indexes.                                                         *)

SetSearch(i, status) == search' = [search EXCEPT ![op.table][i] = status]
OnlySearch == UNCHANGED <<collections, vault, unique_names, next_key, data_keys>>

CreateSearchIndex ==
  /\ At("create_search_index")
  /\ ~op.dry
  /\ collections[op.table] # None
  /\ search[op.table][Head(todo).arg] = "absent"
  /\ SetSearch(Head(todo).arg, "building")
  /\ Proceed
  /\ OnlySearch

\* Whether the server accepts an index that is there already is left open.
CreateSearchIndexAgain ==
  /\ At("create_search_index")
  /\ ~op.dry
  /\ search[op.table][Head(todo).arg] \in {"building", "ready", "failed"}
  /\ Proceed
  /\ UNCHANGED <<database, data_keys>>

CreateSearchIndexRefused ==
  /\ At("create_search_index")
  /\ ~op.dry
  /\ collections[op.table] = None \/ search[op.table][Head(todo).arg] # "absent"
  /\ Fail("index refused")
  /\ UNCHANGED database

DropSearchIndex ==
  /\ At("drop_search_index")
  /\ ~op.dry
  /\ search[op.table][Head(todo).arg] # "absent"
  /\ SetSearch(Head(todo).arg, "deleting")
  /\ Proceed
  /\ OnlySearch

DropSearchIndexRefused ==
  /\ At("drop_search_index")
  /\ ~op.dry
  /\ search[op.table][Head(todo).arg] \in {"absent", "deleting"}
  /\ Fail("no index")
  /\ UNCHANGED database

\* What the loops of wait_until_index_created() and _dropped() wait for.
Waiting == At("await_ready") \/ At("await_dropped")
ListedStatus == Status \ {"absent"}   \* mutant: the status is not compared
ReadyStatus == {"ready"}
Reached ==
  LET status == search[op.table][Head(todo).arg]
  IN IF Head(todo).do = "await_ready" THEN status \in ReadyStatus
     ELSE status = "absent"

RestartedClock(p) == p   \* mutant: start is set in the loop
Waited(p) == p + 1

\* One round of the loop: the time is compared before the server is asked.
Poll ==
  /\ Waiting
  /\ ~op.dry
  /\ polls < MaxPolls
  /\ IF Reached THEN todo' = Tail(todo) /\ polls' = 0
     ELSE polls' = Waited(polls) /\ UNCHANGED todo
  /\ UNCHANGED <<models, database, phase, op, data_keys, error>>

WaitTimesOut ==
  /\ Waiting
  /\ ~op.dry
  /\ polls >= MaxPolls
  /\ Fail("timeout")
  /\ UNCHANGED database

\* The collector's list_search_indexes() returns None: list(None).
WaitOfCollector ==
  /\ Waiting
  /\ op.dry
  /\ Fail("TypeError")
  /\ UNCHANGED database

\* The server's side.
Built(t, i) ==
  /\ search[t][i] = "building"
  /\ \E status \in {"ready", "failed"} : search' = [search EXCEPT ![t][i] = status]
  /\ UNCHANGED <<models, collections, vault, unique_names, next_key, editor>>

Dropped(t, i) ==
  /\ search[t][i] = "deleting"
  /\ search' = [search EXCEPT ![t][i] = "absent"]
  /\ UNCHANGED <<models, collections, vault, unique_names, next_key, editor>>

-----------------------------------------------------------------------------
Editor ==
  \/ Collect
  \/ IndexVault \/ CreateDataKey \/ KeyRefused
  \/ CreateCollection \/ CollectionRefused \/ DropCollection
  \/ CreateSearchIndex \/ CreateSearchIndexAgain \/ CreateSearchIndexRefused
  \/ DropSearchIndex \/ DropSearchIndexRefused
  \/ Poll \/ WaitTimesOut \/ WaitOfCollector
  \/ Finish

Next ==
  \/ Editor \/ Start \/ RunAgain \/ GiveUp \/ Stop
  \/ \E t \in Table : DeleteKeys(t)
  \/ \E t \in Table, i \in Index : Built(t, i) \/ Dropped(t, i)

Spec == Init /\ [][Next]_vars /\ WF_vars(Editor)
-----------------------------------------------------------------------------
(* Properties.                                                             *)

TypeOK ==
  /\ \A t \in Table : models[t] = None \/ models[t] \subseteq Index
  /\ \A t \in Table : collections[t] = None \/ DOMAIN collections[t] = Columns(t)
  /\ search \in [Table -> [Index -> Status]]
  /\ vault \subseteq Key
  /\ phase \in {"idle", "running", "failed"}
  /\ phase = "idle" <=> op = None
  /\ error # None <=> phase = "failed"
  /\ polls \in 0..MaxPolls

\* What showencryptedfieldsmap shows for a collection is what the server
\* encrypts with: every column of an encrypted collection has exactly one key
\* in the vault, the one that is in its encryptedFields, after any history of
\* interrupted and repeated creations, sqlmigrate, and deleted keys.
MapMatchesCollections ==
  \A t \in Table :
    collections[t] # None =>
      \A column \in Columns(t) : ShownKeys(t, column) = {collections[t][column]}

Changing(t) == op # None /\ ~op.dry /\ op.table = t

\* When no operation on a model is under way or failed, the server has the
\* model's collection and its search indexes are ready, and no others: an
\* operation that returned left nothing for the server to finish, whatever
\* waits timed out and whatever was run again before.
SearchMatchesModels ==
  \A t \in Table :
    ~Changing(t) =>
      /\ models[t] = None <=> collections[t] = None
      /\ \A i \in Index :
           search[t][i] = IF models[t] # None /\ i \in models[t] THEN "ready"
                          ELSE "absent"

\* The server refuses the first run of an operation only because of keys left
\* in the vault: operations that follow each other never get in the way of a
\* build or a drop that the server has not finished (5.2.x.rst:112-114).
FirstRunsRefusedForKeysOnly ==
  phase = "failed" /\ ~op.again =>
    error \in {"key exists", "stopped", "timeout", "TypeError"}

\* Every operation ends, also when the server never builds or drops the index
\* it waits for, or the build fails.
OperationEnds == phase = "running" ~> phase # "running"

\* "Encryption keys are created when you run migrations for models that have
\* encrypted fields" (howto/queryable-encryption.rst:313): sqlmigrate, which
\* shows a migration without running it, makes none.
SqlMigrateMakesNoKeys == op # None /\ op.dry => data_keys = <<>>
=============================================================================
