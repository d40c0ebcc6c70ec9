----------------------------- MODULE SchemaEditor -----------------------------
(***************************************************************************)
(* schema.DatabaseSchemaEditor (schema.py, gis/schema.py) on the collection *)
(* of one managed model.  A migration operation is a sequence of database   *)
(* commands: nothing makes it atomic, so it may stop between any two of     *)
(* them, because the server refuses one, a lookup finds the wrong number of *)
(* indexes, or the process dies.  It is then run again from its start.      *)
(*                                                                         *)
(* One document stands for every document of the collection.  The model has *)
(* no implicit many-to-many tables and no encrypted fields.                 *)
(***************************************************************************)
EXTENDS Integers, Sequences, FiniteSets, SequencesExt

CONSTANTS
  Name,                 \* field names
  Column,
  Projects,             \* the projects whose histories are visited, see Project
  Quirks,               \* histories to include though they go wrong, see Quirk
  None                  \* no model, collection, document or operation

\* The part of a field the editor looks at, apart from its column.  A "place"
\* is an EmbeddedModelField whose model has a spatial_index field.  The default is
\* the field's own, or one that only effective_default() knows, that of a blank text
\* or of auto_now.
FieldType == {"string", "int", "point", "place"}
FieldDefault == {"none", "given", "implied"}
FieldShape ==
  {s \in [type : FieldType, key : {"none", "index", "unique"}, spatial : BOOLEAN,
          null : BOOLEAN, default : FieldDefault] : s.spatial => s.type # "place"}

\* "shared_column"  changing the column of a field that unique_together,
\*                  index_together, Meta.constraints or Meta.indexes names
\* "retype"         changing the type of a field that is part of a unique index
\* "move_spatial"   changing the column of a field with a spatial index
\* "drop_place"     removing an embedded model with a spatial index, or
\*                  turning it into something else
\* "rename_table"   changing db_table while there is a spatial index
\* "two_keys"       db_index on a field that has a spatial index
\* "index_beside"   removing db_index from a field that Meta.constraints names alone
\* "twins"          asking for one index twice, see Twins
Quirk == {"shared_column", "retype", "move_spatial", "drop_place",
          "rename_table", "two_keys", "index_beside", "twins"}

\* table: names of collections; shape: what a field may be; together: candidates
\* for unique_together and index_together; meta: candidates for Meta.constraints
\* and Meta.indexes, with a condition on their fields or without.
MetaOption == [name : STRING, fields : Seq(Name) \ {<<>>}, condition : BOOLEAN]
Project ==
  [table : SUBSET STRING, shape : SUBSET FieldShape, together : SUBSET Seq(Name),
   meta : SUBSET MetaOption]

\* What the migrations know of a model.
ModelField ==
  [col : Column, type : FieldType, key : {"none", "index", "unique"}, spatial : BOOLEAN,
   null : BOOLEAN, default : FieldDefault]
Model ==
  [table : STRING, fields : UNION {[S -> ModelField] : S \in SUBSET Name},
   unique_together : SUBSET Seq(Name), index_together : SUBSET Seq(Name),
   constraints : SUBSET MetaOption, indexes : SUBSET MetaOption]

\* The values of the document: a field's own, which is written as its name, or
\* one of these.
Missing == "missing"
Null == "null"
Default == "default"
Value == Name \cup {Missing, Null, Default}

ASSUME SchemaEditorAssumption ==
  /\ Projects \subseteq Project
  /\ Quirks \subseteq Quirk
  /\ Name \cap {Missing, Null, Default} = {}
  /\ None \notin Model
  /\ None \notin [Column -> Value]

\* A project has finitely many fields, and options of its models.
ASSUME FiniteAssumption ==
  /\ IsFiniteSet(Name)
  /\ \A p \in Projects : IsFiniteSet(p.together) /\ IsFiniteSet(p.meta)

VARIABLES
  project,
  model,                \* the model's state in the migrations that were run
  collection,           \* the name of its collection
  indexes,              \* the indexes of the collection
  doc,                  \* the document, by column
  held,                 \* history: the value of each field of the document
  phase,                \* "idle", "running" or "failed"
  op,                   \* the operation that is running or failed
  todo                  \* the commands it has left to run

database == <<collection, indexes, doc>>
vars == <<project, model, database, held, phase, op, todo>>

Init ==
  /\ project \in Projects
  /\ model = None
  /\ collection = None
  /\ indexes = {}
  /\ doc = None
  /\ held = [n \in Name |-> Missing]
  /\ phase = "idle"
  /\ op = None
  /\ todo = <<>>

-----------------------------------------------------------------------------
(* Models.                                                                 *)

FieldNames(m) == DOMAIN m.fields
Fields(m) == {m.fields[n] : n \in FieldNames(m)}
Columns(m) == {f.col : f \in Fields(m)}

Field == {[col |-> c, type |-> s.type, key |-> s.key, spatial |-> s.spatial,
           null |-> s.null, default |-> s.default] : c \in Column, s \in project.shape}

\* Field.column in the index of a sequence of field names.
Paths(m, names) == [i \in DOMAIN names |-> <<m.fields[names[i]].col>>]

Uniques(m) == m.unique_together \cup {c.fields : c \in m.constraints}
Composed(m) == Uniques(m) \cup m.index_together \cup {x.fields : x \in m.indexes}
NamedIn(n, seqs) == \E s \in seqs : n \in Range(s)

\* What the types of fields are part of, by the filter of the index.
Filtered(m) == Uniques(m) \cup {x.fields : x \in {y \in m.indexes : y.condition}}

\* An entry of Meta asks for the index that another entry asks for under its own
\* name: the server refuses the second one.
Keyed(m, key) == {<<n>> : n \in {k \in FieldNames(m) : m.fields[k].key = key}}
Twins(m) ==
  \/ \E x \in m.constraints :
       ~x.condition /\ x.fields \in m.unique_together \cup Keyed(m, "unique")
  \/ \E x \in m.indexes :
       ~x.condition /\ x.fields \in m.index_together \cup Keyed(m, "index")
  \/ \E S \in {m.constraints, m.indexes} : \E x, y \in S :
       x # y /\ x.fields = y.fields /\ x.condition = y.condition

Spatial(f) == f.spatial \/ f.type = "place"

\* The models the histories visit: every entry of meta and of *_together names
\* fields of the model, none repeats another one, and db_index is not combined with a
\* spatial index.
Sound(m) ==
  /\ \A n, k \in FieldNames(m) : n # k => m.fields[n].col # m.fields[k].col
  /\ \A s \in Composed(m) : Range(s) \subseteq FieldNames(m)
  /\ "twins" \in Quirks \/ ~Twins(m)
  /\ "two_keys" \in Quirks \/ \A f \in Fields(m) : Spatial(f) => f.key = "none"

-----------------------------------------------------------------------------
(* Indexes.  Names are compared, never read: they are kept as the data they *)
(* are computed from.                                                       *)

MongoIndex(name, paths, unique, filter, geo) ==
  [name |-> name, paths |-> paths, unique |-> unique, filter |-> filter, geo |-> geo]

Plain(name, paths) == MongoIndex(name, paths, FALSE, {}, FALSE)

\* _get_partial_unique_filter(): a filter on the type of each field, so that
\* documents without a value are not compared.
UniqueFilter(m, names) ==
  {<<m.fields[names[i]].col, m.fields[names[i]].type>> : i \in DOMAIN names}

\* _get_condition_mql(): the values it compares with are those of the fields' types.
Condition(m, x) ==
  IF x.condition
  THEN {<<m.fields[n].col, m.fields[n].type, "condition">> : n \in Range(x.fields)}
  ELSE {}

FieldIndex(m, f) == Plain(<<"index", m.table, <<f.col>>>>, <<<<f.col>>>>)

FieldUnique(m, f) ==
  MongoIndex(<<"unique", m.table, <<f.col>>>>, <<<<f.col>>>>, TRUE,
             {<<f.col, f.type>>}, FALSE)

TogetherIndex(m, names) ==
  Plain(<<"together", m.table, names>>, Paths(m, names))

TogetherUnique(m, names) ==
  MongoIndex(<<"unique", m.table, [i \in DOMAIN names |-> m.fields[names[i]].col]>>,
             Paths(m, names), TRUE, UniqueFilter(m, names), FALSE)

ConstraintName(x) == <<"meta", "constraint", x.name>>
IndexName(x) == <<"meta", "index", x.name>>

MetaIndex(m, x) ==
  MongoIndex(IndexName(x), Paths(m, x.fields), FALSE, Condition(m, x), FALSE)

MetaUnique(m, x) ==
  MongoIndex(ConstraintName(x), Paths(m, x.fields), TRUE,
             Condition(m, x) \cup UniqueFilter(m, x.fields), FALSE)

\* _create_spatial_index_name() and _add_spatial_index().
SpatialIndex(m, path) == MongoIndex(<<"spatial", m.table, path>>, <<path>>, FALSE, {}, TRUE)

\* An embedded model's spatial field is indexed below the column.
SpatialPath(f) == IF f.type = "place" THEN <<f.col, "point">> ELSE <<f.col>>

\* What the server tells apart besides the name.
Signature(x) == [x EXCEPT !.name = <<>>]

-----------------------------------------------------------------------------
(* Commands.                                                               *)

Command(do, arg) == [do |-> do, arg |-> arg]
AddIndex(x) == Command("create_index", x)

\* The lookups of the editor: BaseDatabaseSchemaEditor._constraint_names() on
\* what DatabaseIntrospection._get_index_info() reports, which calls every
\* index of type Index.suffix.
ConstraintNames(paths, excluded) ==
  {x.name : x \in {y \in indexes : y.paths = paths /\ y.name \notin excluded}}

UniqueNames(paths, unique, excluded) ==
  {x.name : x \in {y \in indexes : /\ y.paths = paths
                                   /\ y.unique = unique
                                   /\ y.name \notin excluded}}

MetaIndexNames(m) == {IndexName(x) : x \in m.indexes}
NoneExcluded(m) == {}   \* mutant

MetaConstraintNames(m) == {ConstraintName(x) : x \in m.constraints}

\* The names a command may drop: exactly one, or it raises ValueError.
Found(c) ==
  CASE c.do = "remove_field_index" ->
         ConstraintNames(<<<<c.arg>>>>, MetaIndexNames(op.from))
    [] c.do = "remove_field_unique" ->
         UniqueNames(<<<<c.arg>>>>, TRUE, MetaConstraintNames(op.from))
    [] c.do = "remove_together" ->
         UniqueNames(Paths(op.to, c.arg.names), c.arg.unique,
                     MetaConstraintNames(op.to) \cup MetaIndexNames(op.to))
    [] c.do = "drop_index" -> {c.arg} \cap {x.name : x \in indexes}

Drops == {"remove_field_index", "remove_field_unique", "remove_together",
          "drop_index"}

\* The server answers with an error, or a lookup finds no or several indexes.
Refused(c) ==
  \/ c.do = "create_collection" /\ collection # None
  \/ c.do = "rename_collection" /\ collection # c.arg.from
  \/ /\ c.do = "create_index"
     /\ \E x \in indexes : x # c.arg /\ (\/ x.name = c.arg.name
                                         \/ Signature(x) = Signature(c.arg))
  \/ c.do \in Drops /\ Cardinality(Found(c)) # 1

UpdateDoc(d) == doc' = IF doc = None THEN None ELSE d

RenamedAsNew(old, new) ==   \* mutant: a column is removed, another is added
  [doc EXCEPT ![old] = Missing, ![new] = Null]

Renamed(old, new) ==
  IF doc[old] = Missing THEN doc
                        ELSE [doc EXCEPT ![new] = doc[old], ![old] = Missing]

Run(c) ==
  CASE c.do = "create_collection" ->
         collection' = c.arg /\ UNCHANGED <<indexes, doc>>
    [] c.do = "drop_collection" ->
         collection' = None /\ indexes' = {} /\ doc' = None
    [] c.do = "rename_collection" ->
         collection' = c.arg.to /\ UNCHANGED <<indexes, doc>>
    [] c.do = "set" ->
         /\ UpdateDoc([doc EXCEPT ![c.arg.col] = c.arg.value])
         /\ UNCHANGED <<collection, indexes>>
    [] c.do = "unset" ->
         /\ UpdateDoc([doc EXCEPT ![c.arg] = Missing])
         /\ UNCHANGED <<collection, indexes>>
    [] c.do = "rename_column" ->
         UpdateDoc(Renamed(c.arg.from, c.arg.to)) /\ UNCHANGED <<collection, indexes>>
    [] c.do = "replace_null" ->
         /\ UpdateDoc(IF doc[c.arg] \in {Null, Missing}
                      THEN [doc EXCEPT ![c.arg] = Default] ELSE doc)
         /\ UNCHANGED <<collection, indexes>>
    [] c.do = "create_index" ->
         indexes' = indexes \cup {c.arg} /\ UNCHANGED <<collection, doc>>
    [] c.do \in Drops ->
         /\ indexes' = {x \in indexes : x.name \notin Found(c)}
         /\ UNCHANGED <<collection, doc>>

-----------------------------------------------------------------------------
(* What each method of the editor does, as a sequence of commands.         *)

When(condition, commands) == IF condition THEN commands ELSE <<>>

\* A loop over a set or the members of Meta: the order is of no account.
ForEach(commands) == SetToSeq(commands)

\* _add_field_index() or _add_field_unique(), if required.
AddKey(m, f) ==
  When(f.key = "index", <<AddIndex(FieldIndex(m, f))>>) \o
  When(f.key = "unique", <<AddIndex(FieldUnique(m, f))>>)

RemoveKey(f) ==
  When(f.key = "index", <<Command("remove_field_index", f.col)>>) \o
  When(f.key = "unique", <<Command("remove_field_unique", f.col)>>)

AddSpatial(m, f) == When(Spatial(f), <<AddIndex(SpatialIndex(m, SpatialPath(f)))>>)

RemoveSpatial(m, col) == <<Command("drop_index", SpatialIndex(m, <<col>>).name)>>

AddUniqueTogether(m, S) ==
  ForEach({AddIndex(TogetherUnique(m, names)) : names \in S})

\* create_model(): index_together is never created with the collection.
CreateModelPlan(m) ==
  <<Command("create_collection", m.table)>> \o
  ForEach(UNION {Range(AddKey(m, f)) : f \in Fields(m)}) \o
  AddUniqueTogether(m, m.unique_together) \o
  ForEach({AddIndex(MetaUnique(m, x)) : x \in m.constraints}) \o
  ForEach({AddIndex(MetaIndex(m, x)) : x \in m.indexes}) \o
  ForEach(UNION {Range(AddSpatial(m, f)) : f \in Fields(m)})

DropIndexesFirst(m) ==   \* mutant
  ForEach(UNION {Range(RemoveKey(f)) : f \in Fields(m)}) \o
  <<Command("drop_collection", m.table)>>

DeleteModelPlan(m) == <<Command("drop_collection", m.table)>>

InitialValue(f) == IF f.default = "none" THEN Null ELSE Default   \* effective_default()

AddFieldPlan(m, f) ==
  <<Command("set", [col |-> f.col, value |-> InitialValue(f)])>> \o
  AddKey(m, f) \o AddSpatial(m, f)

MovedKeptOld(m, old, new) == AddKey(m, new)   \* mutant: the old one stays

\* An index that was there and stays moves with the column.
Moved(m, old, new) == RemoveKey(old) \o AddKey(m, new)

NullAlwaysReplaced(old, new) == old.null /\ ~new.null   \* mutant

\* NULL is replaced by the default of the field, if it has one of its own.
NullReplaced(old, new) == new.default = "given" /\ old.null /\ ~new.null

AlterFieldPlan(m, old, new) ==
  When(old.key # new.key, RemoveKey(old)) \o
  When(old.col # new.col,
       <<Command("rename_column", [from |-> old.col, to |-> new.col])>> \o
       When(old.key = new.key, Moved(m, old, new))) \o
  When(NullReplaced(old, new), <<Command("replace_null", new.col)>>) \o
  When(old.key # new.key, AddKey(m, new)) \o
  When(~old.spatial /\ new.spatial, <<AddIndex(SpatialIndex(m, <<new.col>>))>>) \o
  When(old.spatial /\ ~new.spatial, RemoveSpatial(m, new.col))

\* Indexes below an embedded model's column stay.
RemoveFieldPlan(m, f) ==
  <<Command("unset", f.col)>> \o RemoveKey(f) \o
  When(f.spatial, RemoveSpatial(m, f.col))

RemoveTogether(S, unique) ==
  ForEach({Command("remove_together", [names |-> names, unique |-> unique]) : names \in S})

AlterUniqueTogetherPlan(m, olds, news) ==
  RemoveTogether(olds \ news, TRUE) \o AddUniqueTogether(m, news \ olds)

AlterIndexTogetherPlan(m, olds, news) ==
  RemoveTogether(olds \ news, FALSE) \o
  ForEach({AddIndex(TogetherIndex(m, names)) : names \in news \ olds})

-----------------------------------------------------------------------------
(* The migration operations.                                               *)

\* An operation starts on the model the migrations have led to so far.
Start(kind, to, plan) ==
  /\ phase = "idle"
  /\ IF to = None THEN TRUE ELSE Sound(to)
  /\ phase' = "running"
  /\ op' = [kind |-> kind, from |-> model, to |-> to, plan |-> plan, again |-> FALSE]
  /\ todo' = plan
  /\ UNCHANGED <<model, database, held>>

With(n, f) ==
  [model EXCEPT !.fields = [k \in FieldNames(model) \cup {n} |->
                              IF k = n THEN f ELSE model.fields[k]]]
Without(n) == [model EXCEPT !.fields = Restrict(@, FieldNames(model) \ {n})]

CreateModel ==
  /\ phase = "idle" /\ model = None
  /\ \E table \in project.table, fields \in UNION {[S -> Field] : S \in SUBSET Name} :
       LET m == [table |-> table, fields |-> fields, unique_together |-> {},
                 index_together |-> {}, constraints |-> {}, indexes |-> {}]
       IN /\ Sound(m)
          /\ \E u \in SUBSET project.together :
             \E c \in SUBSET project.meta : \E x \in SUBSET project.meta :
               LET full == [m EXCEPT !.unique_together = u, !.constraints = c,
                                     !.indexes = x]
               IN Sound(full) /\ Start("create_model", full, CreateModelPlan(full))

DeleteModel ==
  /\ model # None
  /\ Start("delete_model", None, DeleteModelPlan(model))

AddField(n, f) ==
  /\ model # None
  /\ n \notin FieldNames(model) /\ f.col \notin Columns(model)
  /\ Start("add_field", With(n, f), AddFieldPlan(model, f))

AlterField(n, new) ==
  /\ model # None
  /\ n \in FieldNames(model)
  /\ LET old == model.fields[n]
         moved == new.col # old.col
     IN /\ new # old
        /\ moved => new.col \notin Columns(model)
        /\ moved /\ NamedIn(n, Composed(model)) => "shared_column" \in Quirks
        /\ new.type # old.type /\ (\/ NamedIn(n, Filtered(model))
                                   \/ old.key = "unique" /\ new.key = "unique")
             => "retype" \in Quirks
        /\ old.key = "index" /\ new.key # "index" /\ (\E c \in model.constraints : c.fields = <<n>>)
             => "index_beside" \in Quirks
        /\ moved /\ Spatial(old) => "move_spatial" \in Quirks
        /\ (old.type = "place") # (new.type = "place") => "drop_place" \in Quirks
        /\ Start("alter_field", With(n, new), AlterFieldPlan(model, old, new))

RemoveField(n) ==
  /\ model # None
  /\ n \in FieldNames(model)
  /\ ~NamedIn(n, Composed(model))
  /\ model.fields[n].type = "place" => "drop_place" \in Quirks
  /\ Start("remove_field", Without(n), RemoveFieldPlan(model, model.fields[n]))

AlterUniqueTogether(news) ==
  /\ model # None
  /\ news # model.unique_together
  /\ LET to == [model EXCEPT !.unique_together = news]
     IN Sound(to) /\ Start("alter_unique_together", to,
          AlterUniqueTogetherPlan(to, model.unique_together, news))

AlterIndexTogether(news) ==
  /\ model # None
  /\ news # model.index_together
  /\ LET to == [model EXCEPT !.index_together = news]
     IN Sound(to) /\ Start("alter_index_together", to,
          AlterIndexTogetherPlan(to, model.index_together, news))

AddMetaIndex(x) ==
  /\ model # None /\ x \notin model.indexes
  /\ LET to == [model EXCEPT !.indexes = @ \cup {x}]
     IN Sound(to) /\ Start("add_index", to, <<AddIndex(MetaIndex(to, x))>>)

RemoveMetaIndex(x) ==
  /\ model # None /\ x \in model.indexes
  /\ Start("remove_index", [model EXCEPT !.indexes = @ \ {x}],
           <<Command("drop_index", IndexName(x))>>)

AddConstraint(x) ==
  /\ model # None /\ x \notin model.constraints
  /\ LET to == [model EXCEPT !.constraints = @ \cup {x}]
     IN Sound(to) /\ Start("add_constraint", to, <<AddIndex(MetaUnique(to, x))>>)

RemoveConstraint(x) ==
  /\ model # None /\ x \in model.constraints
  /\ Start("remove_constraint", [model EXCEPT !.constraints = @ \ {x}],
           <<Command("drop_index", ConstraintName(x))>>)

AlterDbTable(table) ==
  /\ model # None /\ table # model.table
  /\ (\E f \in Fields(model) : Spatial(f)) => "rename_table" \in Quirks
  /\ Start("rename_table", [model EXCEPT !.table = table],
           <<Command("rename_collection", [from |-> model.table, to |-> table])>>)

Operation ==
  \/ CreateModel \/ DeleteModel
  \/ \E n \in Name : RemoveField(n) \/ \E f \in Field : AddField(n, f) \/ AlterField(n, f)
  \/ \E S \in SUBSET project.together : AlterUniqueTogether(S) \/ AlterIndexTogether(S)
  \/ \E x \in project.meta : \/ AddMetaIndex(x) \/ RemoveMetaIndex(x)
                             \/ AddConstraint(x) \/ RemoveConstraint(x)
  \/ \E table \in project.table : AlterDbTable(table)

-----------------------------------------------------------------------------
(* Running an operation, and the program that uses the collection.         *)

RunCommand ==
  /\ phase = "running" /\ todo # <<>>
  /\ ~Refused(Head(todo))
  /\ Run(Head(todo))
  /\ todo' = Tail(todo)
  /\ UNCHANGED <<model, held, phase, op>>

Stop ==
  /\ phase' = "failed"
  /\ todo' = <<>>
  /\ UNCHANGED <<model, database, held, op>>

Raise ==
  /\ phase = "running" /\ todo # <<>>
  /\ Refused(Head(todo))
  /\ Stop

\* The process dies, or the connection is lost.
Interrupt ==
  /\ phase = "running"
  /\ Stop

\* The migration was not recorded: its operation is run again.
Rerun ==
  /\ phase = "failed"
  /\ phase' = "running"
  /\ todo' = op.plan
  /\ op' = [op EXCEPT !.again = TRUE]
  /\ UNCHANGED <<model, database, held>>

\* What a field holds once the operation is over: a field that is made NOT NULL
\* without a default keeps its NULL.
HeldAfter(to, n) ==
  IF to = None \/ doc = None THEN Missing
  ELSE CASE n \notin FieldNames(to) -> Missing
         [] n \in FieldNames(to) /\ held[n] = Missing -> InitialValue(to.fields[n])
         [] n \in FieldNames(to) /\ held[n] = Null /\ model.fields[n].null
              /\ ~to.fields[n].null /\ to.fields[n].default = "given" -> Default
         [] OTHER -> held[n]

Finish ==
  /\ phase = "running" /\ todo = <<>>
  /\ phase' = "idle"
  /\ model' = op.to
  /\ held' = [n \in Name |-> HeldAfter(op.to, n)]
  /\ op' = None
  /\ UNCHANGED <<database, todo>>

\* A program saves the document; a value is known by the field it was given.
Save ==
  /\ phase = "idle" /\ model # None
  /\ \E nulls \in SUBSET {n \in FieldNames(model) : model.fields[n].null} :
       held' = [n \in Name |-> IF n \notin FieldNames(model) THEN Missing
                               ELSE IF n \in nulls THEN Null ELSE n]
  /\ doc' = [c \in Column |->
               IF \E n \in FieldNames(model) : model.fields[n].col = c
               THEN held'[CHOOSE n \in FieldNames(model) : model.fields[n].col = c]
               ELSE Missing]
  /\ UNCHANGED <<model, collection, indexes, phase, op, todo>>

Next ==
  /\ Operation \/ RunCommand \/ Raise \/ Interrupt \/ Rerun \/ Finish \/ Save
  /\ UNCHANGED project

Spec == Init /\ [][Next]_vars

-----------------------------------------------------------------------------
(* Properties.                                                             *)

\* The indexes a model calls for: those create_model() makes, and those of
\* index_together.
IndexesOf(m) ==
  IF m = None THEN {}
  ELSE {c.arg : c \in {d \in Range(CreateModelPlan(m)) : d.do = "create_index"}}
       \cup {TogetherIndex(m, names) : names \in m.index_together}

\* Names other than those the model chooses are compared by nobody.
Anonymous(x) == IF x.name[1] = "meta" THEN x ELSE Signature(x)

\* However a model came about, by whatever series of operations and after
\* whatever interruptions, its collection has the indexes that creating the
\* model at once would have made, and no others.
IndexesMatchModel ==
  phase = "idle" =>
    {Anonymous(x) : x \in indexes} = {Anonymous(x) : x \in IndexesOf(model)}

\* After every operation each field still has its value, or its default, in
\* its column, and no column is left behind.
DocMatchesModel ==
  phase = "idle" /\ doc # None =>
    /\ \A n \in FieldNames(model) : doc[model.fields[n].col] = held[n]
    /\ \A c \in Column \ Columns(model) : doc[c] = Missing

\* No operation that is run on the result of those before it, stopped half way
\* and run again though they may have been, meets an error of the server or
\* finds the wrong number of indexes.
NothingRefused ==
  phase = "running" /\ todo # <<>> /\ ~op.again => ~Refused(Head(todo))

\* A field of both the old and the new model has its value in the document at
\* every moment of the operation: no interruption loses one.
ValuesSurvive ==
  op # None /\ doc # None /\ op.from # None /\ op.to # None =>
    \A n \in FieldNames(op.from) \cap FieldNames(op.to) :
      held[n] = n => n \in {doc[op.from.fields[n].col], doc[op.to.fields[n].col]}

Repeatable == {"delete_model", "add_field", "add_index", "add_constraint"}

\* These operations can be run again, however far they came: commands that ran
\* before make none of theirs fail.
RerunSucceeds ==
  phase = "running" /\ todo # <<>> /\ op.kind \in Repeatable => ~Refused(Head(todo))
=============================================================================
