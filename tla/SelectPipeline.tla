---------------------------- MODULE SelectPipeline ----------------------------
(***************************************************************************)
(* The pipeline of a SELECT behind its joins: grouping and aggregates,      *)
(* windows, DISTINCT, projection, ORDER BY and slices, unions, intersections *)
(* and differences of such queries, and aggregates over any of them         *)
(* (compiler.py, MongoQuery.get_pipeline(), aggregates.py).                 *)
(*                                                                         *)
(* As in JoinPipeline a step of the specification compiles the query, or    *)
(* is a stage of the pipeline that runs on the server.                      *)
(***************************************************************************)
EXTENDS WindowFunctions

CONSTANTS
  Table,                \* collections, one for each model
  Query,                \* the queries, see below
  Contents(_)           \* what the collections hold, [Table -> Seq of documents], for a query

VARIABLES
  query,
  tables,
  encrypted,            \* connection.client_encryption
  phase,                \* "compile", "running", "done" or "refused"
  pipeline,             \* the stages that have not run
  stream                \* the documents that leave the last stage

vars == <<query, tables, encrypted, phase, pipeline, stream>>

EmptyDoc == <<>>

(***************************************************************************)
(* Queries are records; q.op is                                            *)
(*   "select":  one model's documents that meet q.where, grouped by         *)
(*              q.agg.by with an aggregate "agg" and HAVING agg > 0 if       *)
(*              q.agg is not None, with the windows q.windows and filtered   *)
(*              by the condition q.qualify on them; values_list() of        *)
(*              q.columns, distinct() if q.distinct;                        *)
(*   "union", "intersection", "difference": of q.parts, "all" for           *)
(*              union(all=True);                                            *)
(*   "aggregate": aggregate() of q.inner with the aggregate q.agg.          *)
(* All but "aggregate" have an order_by() and a slice [q.low, q.high).       *)
(* A condition None is met by all, otherwise by documents with q.where.col   *)
(* IN q.where.among; nothing meets IN an empty list.                         *)
(***************************************************************************)
Combinator == {"union", "intersection", "difference"}

Meets(doc, cond) == cond = None \/ Get(doc, cond.col) \in cond.among
IsNothing(cond) == cond # None /\ cond.among = {}

RECURSIVE Columns(_)
Columns(q) == IF q.op \in Combinator THEN Columns(q.parts[1])
              ELSE IF q.op = "aggregate" THEN <<"agg">> ELSE q.columns

\* base_table: the collection that the query's pipeline runs on.
RECURSIVE BaseTable(_)
BaseTable(q) == IF q.op \in Combinator THEN BaseTable(q.parts[1])
                ELSE IF q.op = "aggregate" THEN BaseTable(q.inner) ELSE q.table

OrderColumns(q) == [i \in DOMAIN q.order |-> q.order[i].col]

\* build_query() raises EmptyResultSet.  A part that does is left out of a union,
\* and of a difference if it is not the first.
RECURSIVE RaisesEmpty(_)
RaisesEmpty(q) ==
  LET raising == {i \in DOMAIN q.parts : RaisesEmpty(q.parts[i])}
  IN CASE q.op = "select" -> IsNothing(q.where)
       [] q.op = "aggregate" -> RaisesEmpty(q.inner)
       [] q.op = "union" -> raising = DOMAIN q.parts
       [] q.op = "intersection" -> raising # {}
       [] q.op = "difference" -> 1 \in raising

-----------------------------------------------------------------------------
(* Stages and expressions.                                                 *)

Field(f) == [is |-> "field", field |-> f]
IsNullFlag(f) == [is |-> "null flag", field |-> f]
Replaced(agg) == [is |-> "replaced", agg |-> agg]

Project(fields) == [do |-> "$project", fields |-> fields]
Sort(keys) == [do |-> "$sort", keys |-> keys]
Skip(n) == [do |-> "$skip", n |-> n]
Limit(n) == [do |-> "$limit", n |-> n]
Group(ids, accumulators) == [do |-> "$group", ids |-> ids, accumulators |-> accumulators]

AggregateColumn == "agg"
Fields(names) == [f \in ToSet(names) |-> Field(f)]

\* An annotation is projected as what replaces its aggregate.
ProjectFields(q, names) ==
  [f \in ToSet(names) |-> IF f = AggregateColumn THEN Replaced(q.agg) ELSE Field(f)]

-----------------------------------------------------------------------------
(* Aggregates: an accumulator of $group, then an expression that replaces   *)
(* the aggregate (_get_replace_expr()).                                    *)

Argument(doc, agg) == IF agg.func = "count all" THEN TRUE ELSE Get(doc, agg.col)

\* Case(When(conditions, then=...), default=Remove()); null is left out for COUNT
\* and SUM only.
Accumulated(docs, agg) ==
  LET takes(doc) == /\ Meets(doc, agg.filter)
                    /\ agg.func \in {"count", "sum"} => ~IsNull(Get(doc, agg.col))
      taken == SelectSeq(docs, takes)
  IN [i \in DOMAIN taken |-> Argument(taken[i], agg)]

Total(values) == FoldLeft(+, 0, values)

\* $avg leaves out what is not a number; in hundredths.
Average(values) ==
  LET numbers == SelectSeq(values, LAMBDA v : ~IsNull(v))
  IN IF numbers = <<>> THEN Null ELSE (100 * Total(numbers)) \div Len(numbers)

\* $stdDevPop and $stdDevSamp: their squares, in hundredths.
Variances == {"var_pop", "var_samp"}
Variance(values, func) ==
  LET numbers == SelectSeq(values, LAMBDA v : ~IsNull(v))
      n == Len(numbers)
      squares == Total([i \in DOMAIN numbers |-> numbers[i] * numbers[i]])
      divisor == n * IF func = "var_pop" THEN n ELSE n - 1
  IN IF divisor <= 0 THEN Null ELSE (100 * (n * squares - Total(numbers) * Total(numbers))) \div divisor

\* The documents for an ordered StringAgg: the value, if the filter is met, and the
\* keys to sort by later.
KeyFields == <<"k0", "k1">>
WithKeys(docs, agg) ==
  LET value(d) == IF Meets(d, agg.filter) THEN "v" :> Get(d, agg.col) ELSE EmptyDoc
      keys(d) == [k \in {KeyFields[i] : i \in DOMAIN agg.order} |->
                    Get(d, agg.order[CHOOSE i \in DOMAIN agg.order : KeyFields[i] = k].col)]
  IN [i \in DOMAIN docs |-> value(docs[i]) @@ keys(docs[i])]

\* $addToSet, $sum of ones, $push, $avg.
Accumulate(docs, agg) ==
  LET values == Accumulated(docs, agg)
  IN CASE agg.distinct -> ToSet(values)
       [] ~agg.distinct /\ agg.func \in {"count", "count all"} -> Len(values)
       [] ~agg.distinct /\ agg.func = "sum" -> values
       [] ~agg.distinct /\ agg.func = "avg" -> Average(values)
       [] ~agg.distinct /\ agg.func \in Variances -> Variance(values, agg.func)
       [] ~agg.distinct /\ agg.func = "string_agg" ->
            IF agg.order = <<>> THEN values ELSE WithKeys(docs, agg)

SumOfNothingIsZero(values) == Total(values)   \* mutant

NullSafeArraySum(values) == IF values = <<>> THEN Null ELSE Total(values)

\* $sort and $sortArray.
Sorted(docs, keys) ==
  LET key(doc) == [i \in DOMAIN keys |-> IF keys[i].descending THEN -Get(doc, keys[i].field)
                                         ELSE Get(doc, keys[i].field)]
  IN SortSeq(docs, LAMBDA l, r : Lexicographic(key(l), key(r)))

\* StringAggJoin: sorted by the keys, or by itself if it is a set, without nulls and
\* the rows that were filtered.  A text is the number that has its characters as digits.
SortKeysOf(agg) ==
  [i \in DOMAIN agg.order |-> [field |-> KeyFields[i], descending |-> agg.order[i].desc]]
SortArray(array, agg) ==
  LET docs == Sorted(array, SortKeysOf(agg)) IN [i \in DOMAIN docs |-> Get(docs[i], "v")]
SortSet(set, agg) ==
  SortSeq(SetToSeq(set), LAMBDA v, w : IF agg.order[1].desc THEN v > w ELSE v < w)

Delimited(text, v) == 100 * text + 90 + v
Joined(values) ==
  IF values = <<>> THEN Null ELSE FoldLeft(Delimited, Head(values), Tail(values))

StringAggJoin(array, agg) ==
  LET sorted == CASE agg.order = <<>> -> array
                  [] agg.order # <<>> /\ agg.distinct -> SortSet(array, agg)
                  [] agg.order # <<>> /\ ~agg.distinct -> SortArray(array, agg)
  IN Joined(SelectSeq(sorted, LAMBDA v : ~IsNull(v)))

\* The replacement of a distinct aggregate is the aggregate again, of the set: its
\* filter is evaluated a second time, except by COUNT and SUM.
Replacement(doc, agg) ==
  LET set == SetToSeq(doc[AggregateColumn])
      missing == AggregateColumn \notin DOMAIN doc
  IN CASE agg.func \in {"count", "count all"} ->
            IF missing THEN 0
            ELSE IF agg.distinct THEN Len(set) ELSE doc[AggregateColumn]
       [] agg.func = "sum" ->
            NullSafeArraySum(IF missing THEN <<>>
                             ELSE IF agg.distinct THEN set ELSE doc[AggregateColumn])
       [] agg.func = "avg" ->
            IF missing THEN Null
            ELSE IF ~agg.distinct THEN doc[AggregateColumn]
            ELSE IF Meets(doc, agg.filter) THEN Average(set) ELSE Null
       [] agg.func \in Variances ->
            IF missing THEN Null
            ELSE IF ~agg.distinct THEN doc[AggregateColumn]
            ELSE IF Meets(doc, agg.filter) THEN Variance(set, agg.func) ELSE Null
       [] agg.func = "string_agg" ->
            IF missing THEN Null ELSE StringAggJoin(doc[AggregateColumn], agg)

Value(doc, expr) ==
  CASE expr.is = "field" -> Get(doc, expr.field)
    [] expr.is = "null flag" -> IF IsNull(Get(doc, expr.field)) THEN 1 ELSE 0
    [] expr.is = "replaced" -> Replacement(doc, expr.agg)

\* {"$group": ...}, and the stages that put the parts of its _id in their places.
Grouped(docs, stage) ==
  LET ids(doc) == [f \in DOMAIN stage.ids |-> Value(doc, stage.ids[f])]
      groups == SetToSeq({ids(docs[i]) : i \in DOMAIN docs})
      members(id) == SelectSeq(docs, LAMBDA doc : ids(doc) = id)
  IN [i \in DOMAIN groups |->
        groups[i] @@ [f \in DOMAIN stage.accumulators |->
                        Accumulate(members(groups[i]), stage.accumulators[f])]]
-----------------------------------------------------------------------------
(* Compiling: build_query() and get_pipeline().                            *)

WhereStages(q) == IF q.where = None THEN <<>> ELSE <<[do |-> "$match", where |-> q.where]>>

\* $group by columns and HAVING, for annotate() behind values().
GroupStages(q) ==
  IF q.agg = None THEN <<>>
  ELSE <<Group(Fields(q.agg.by), AggregateColumn :> q.agg)>>
       \o IF q.agg.having THEN <<[do |-> "$match having", agg |-> q.agg]>> ELSE <<>>

\* A filter on windows comes behind them.
QualifiedStages(q) ==
  WindowStages(q.windows)
  \o IF q.qualify = None THEN <<>> ELSE <<[do |-> "$match", where |-> q.qualify]>>

\* distinct() and order_by() of a column that is not selected: both select it.
SelectedFields(q) == ProjectFields(q, Columns(q) \o OrderColumns(q))

\* distinct() is the last part of aggregation_pipeline, before the windows.
GroupDistinct(q) == IF q.distinct THEN <<Group(SelectedFields(q), <<>>)>> ELSE <<>>
ProjectStages(q) == IF q.distinct THEN <<>> ELSE <<Project(SelectedFields(q))>>

\* _get_ordering(): a field that is 1 for null comes before the column if the
\* place of nulls is given.
NullField(i) == <<"__order1", "__order2">>[i]

SortKeys(q) ==
  LET column(i) == [field |-> q.order[i].col, descending |-> q.order[i].desc]
      nulls(i) == [field |-> NullField(i), descending |-> q.order[i].nulls = "first"]
  IN FlattenSeq([i \in DOMAIN q.order |->
       IF q.order[i].nulls = None THEN <<column(i)>> ELSE <<nulls(i), column(i)>>])

ExtraFields(q) ==
  LET flagged == {i \in DOMAIN q.order : q.order[i].nulls # None}
      of(f) == CHOOSE i \in flagged : NullField(i) = f
  IN [f \in {NullField(i) : i \in flagged} |-> IsNullFlag(q.order[of(f)].col)]

LimitToHigh(q) == Limit(q.high)   \* mutant: the documents skipped are counted

LimitToSlice(q) == Limit(q.high - q.low)

OrderStages(q) ==
  IF q.order = <<>> THEN <<>>
  ELSE <<[do |-> "$addFields", fields |-> ExtraFields(q)], Sort(SortKeys(q))>>
SliceStages(q) ==
  (IF q.low > 0 THEN <<Skip(q.low)>> ELSE <<>>)
  \o (IF q.high = None THEN <<>> ELSE <<LimitToSlice(q)>>)

OwnNames(part, names) == Project(Fields(Columns(part)))   \* mutant

\* A part's columns take the names of those of the first query.
Standardized(part, names) ==
  LET own == Columns(part)
  IN Project([f \in ToSet(names) |-> Field(own[CHOOSE i \in DOMAIN names : names[i] = f])])

UnionWith(table, inner) == [do |-> "$unionWith", coll |-> table, pipeline |-> inner]

\* The rows of the other query are looked up once, beside the first document,
\* and those so far are filtered by membership of their tuple.
FilterByMembers(q, so_far, part, inner) ==
  <<Limit(1),
    [do |-> "$lookup set", from |-> BaseTable(part), pipeline |-> inner, names |-> Columns(q)],
    [do |-> "$lookup members", from |-> BaseTable(q), names |-> Columns(q),
     pipeline |-> Append(so_far, [do |-> "$match member", names |-> Columns(q),
                                  keep |-> q.op = "intersection"])],
    [do |-> "$unwind"]>>

NoDistinctStages(q) == <<>>   \* mutant

DistinctStages(q) ==
  IF q.all THEN <<>> ELSE <<Group(Fields(Columns(q)), <<>>)>>

\* get_combinator_queries(), for the compiled parts that were not left out.
CombinatorStages(q, parts, compiled) ==
  LET inner(i) == Append(compiled[i], Standardized(parts[i], Columns(q)))
      combine(so_far, i) ==
        IF i = 1 THEN inner(1)
        ELSE IF q.op = "union" THEN Append(so_far, UnionWith(BaseTable(parts[i]), inner(i)))
        ELSE FilterByMembers(q, so_far, parts[i], inner(i))
      combined == FoldLeft(combine, <<>>, [i \in DOMAIN parts |-> i])
  IN combined \o DistinctStages(q)

\* A document for when there was nothing to aggregate, so that one is left.
\* $unionWith is not supported by automatic encryption.
WrapStages(q, body) ==
  IF encrypted
  THEN <<[do |-> "$collStats"],
         [do |-> "$lookup wrapped", from |-> BaseTable(q), pipeline |-> body],
         [do |-> "$replaceWith first"]>>
  ELSE body \o <<[do |-> "$unionWith empty"], Limit(1)>>

\* QuerySet.aggregate() runs the query itself unless that would change which rows
\* are aggregated (Django); otherwise it is a subquery of an AggregateQuery.
IsPlain(q) ==
  q.op = "select" /\ q.agg = None /\ ~q.distinct /\ q.low = 0 /\ q.high = None

RECURSIVE Pipeline(_)
Pipeline(q) ==
  CASE q.op = "select" ->
         WhereStages(q) \o GroupStages(q) \o GroupDistinct(q) \o QualifiedStages(q)
         \o ProjectStages(q) \o OrderStages(q) \o SliceStages(q)
    [] q.op \in Combinator ->
         LET parts == SelectSeq(q.parts, LAMBDA part : ~RaisesEmpty(part))
         IN CombinatorStages(q, parts, [i \in DOMAIN parts |-> Pipeline(parts[i])])
            \o OrderStages(q) \o SliceStages(q)
    [] q.op = "aggregate" ->
         LET inner == IF IsPlain(q.inner) THEN WhereStages(q.inner) ELSE Pipeline(q.inner)
         IN WrapStages(q, Append(inner, Group(<<>>, AggregateColumn :> q.agg)))
            \o <<Project(AggregateColumn :> Replaced(q.agg))>>

-----------------------------------------------------------------------------
(* The server.  The order of documents is that of the last $sort; what an   *)
(* unsorted stage makes of the order is not relied upon.                   *)

With(doc, fields) == [f \in DOMAIN fields |-> Value(doc, fields[f])] @@ doc

\* members is the variable $$rhs_set of a $lookup.
RECURSIVE RunPipeline(_, _, _)
RunStage(stage, docs, members) ==
  LET of(coll) == RunPipeline(stage.pipeline, tables[coll], members)
      set == {Tuple(d, stage.names) : d \in ToSet(of(stage.from))}
      each(f(_)) == [i \in DOMAIN docs |-> f(docs[i])]
  IN CASE stage.do = "$match" -> SelectSeq(docs, LAMBDA d : Meets(d, stage.where))
       [] stage.do = "$match having" ->
            SelectSeq(docs, LAMBDA d : Replacement(d, stage.agg) > 0)
       [] stage.do = "$match member" ->
            SelectSeq(docs, LAMBDA d : stage.keep = (Tuple(d, stage.names) \in members))
       [] stage.do = "$group" -> Grouped(docs, stage)
       [] stage.do = "$project" -> each(LAMBDA d :
            [f \in DOMAIN stage.fields |-> Value(d, stage.fields[f])])
       [] stage.do = "$addFields" -> each(LAMBDA d : With(d, stage.fields))
       [] stage.do = "$sort" -> Sorted(docs, stage.keys)
       [] stage.do = "$skip" -> SubSeq(docs, stage.n + 1, Len(docs))
       [] stage.do = "$limit" -> 
            SubSeq(docs, 1, IF stage.n < Len(docs) THEN stage.n ELSE Len(docs))
       [] stage.do = "$unionWith" -> docs \o of(stage.coll)
       [] stage.do = "$unionWith empty" -> Append(docs, EmptyDoc)
       [] stage.do = "$collStats" -> <<EmptyDoc>>
       [] stage.do = "$lookup wrapped" -> each(LAMBDA d : "wrapped" :> of(stage.from))
       [] stage.do = "$replaceWith first" -> each(LAMBDA d :
            IF d["wrapped"] = <<>> THEN EmptyDoc ELSE d["wrapped"][1])
       [] stage.do = "$lookup set" -> each(LAMBDA d : "members" :> set)
       [] stage.do = "$lookup members" -> each(LAMBDA d : "rows" :>
            RunPipeline(stage.pipeline, tables[stage.from], d["members"]))
       [] stage.do \in {"$setWindowFields", "$addFields sort", "$addFields windows"} ->
            RunWindowStage(stage, docs)
       [] stage.do = "$unwind" -> FlattenSeq(each(LAMBDA d : d["rows"]))

RunPipeline(stages, docs, members) ==
  FoldLeft(LAMBDA so_far, stage : RunStage(stage, so_far, members), docs, stages)

-----------------------------------------------------------------------------
Init ==
  /\ query \in Query
  /\ tables \in Contents(query)
  /\ encrypted \in BOOLEAN
  /\ encrypted => query.op = "aggregate" /\ query.inner.op # "union"
  /\ phase = "compile"
  /\ pipeline = <<>>
  /\ stream = <<>>

\* What Django makes of an aggregate that execute_sql() returned None for.
ResultOfNothing(q) ==
  IF q.op # "aggregate" THEN <<>>
  ELSE <<AggregateColumn :> IF q.agg.func \in {"count", "count all"} THEN 0 ELSE Null>>

Compile ==
  /\ phase = "compile"
  /\ ~RaisesEmpty(query)
  /\ pipeline' = Pipeline(query)
  /\ stream' = tables[BaseTable(query)]
  /\ phase' = "running"
  /\ UNCHANGED <<query, tables, encrypted>>

\* execute_sql() catches EmptyResultSet.
CompileNothing ==
  /\ phase = "compile"
  /\ RaisesEmpty(query)
  /\ stream' = ResultOfNothing(query)
  /\ phase' = "done"
  /\ UNCHANGED <<query, tables, encrypted, pipeline>>

Run ==
  /\ phase = "running"
  /\ pipeline # <<>>
  /\ ~IsRefused(Head(pipeline), stream)
  /\ stream' = RunStage(Head(pipeline), stream, {})
  /\ pipeline' = Tail(pipeline)
  /\ UNCHANGED <<query, tables, encrypted, phase>>

\* The server fails the command.  Only "select" has windows in the queries of Init.
Refuse ==
  /\ phase = "running"
  /\ pipeline # <<>>
  /\ IsRefused(Head(pipeline), stream)
  /\ phase' = "refused"
  /\ UNCHANGED <<query, tables, encrypted, pipeline, stream>>

Return ==
  /\ phase = "running"
  /\ pipeline = <<>>
  /\ phase' = "done"
  /\ UNCHANGED <<query, tables, encrypted, pipeline, stream>>

Next == Compile \/ CompileNothing \/ Run \/ Refuse \/ Return

Spec == Init /\ [][Next]_vars
-----------------------------------------------------------------------------
(* What SQL makes of the query.                                            *)

SqlInOrder(docs, order) ==
  LET key(d) == [i \in DOMAIN order |-> SqlKey(order[i], d[order[i].col])]
  IN SortSeq(docs, LAMBDA l, r : Lexicographic(key(l), key(r)))

\* Of values that are in order: one of each.
SqlDistinct(values) ==
  FoldLeft(LAMBDA seen, v : IF v \in ToSet(seen) THEN seen ELSE Append(seen, v), <<>>, values)

\* From the mean of the values.
SqlVariance(values, n, func) ==
  LET deviation(v) == n * v - Total(values)
  IN (100 * Total([i \in 1..n |-> deviation(values[i]) * deviation(values[i])]))
       \div (n * n * IF func = "var_pop" THEN n ELSE n - 1)

SqlAggregate(docs, agg) ==
  LET met == SqlInOrder(SelectSeq(docs, LAMBDA d : Meets(d, agg.filter)), agg.order)
      some == SelectSeq([i \in DOMAIN met |-> met[i][agg.col]], LAMBDA v : v # Null)
      values == IF agg.distinct THEN SqlDistinct(some) ELSE some
  IN CASE agg.func = "count all" -> Len(met)
       [] agg.func = "count" -> Len(values)
       [] values = <<>> -> Null
       [] agg.func = "sum" -> Total(values)
       [] agg.func = "avg" -> (100 * Total(values)) \div Len(values)
       [] agg.func = "var_samp" /\ Len(values) = 1 -> Null
       [] agg.func \in Variances -> SqlVariance(values, Len(values), agg.func)
       [] agg.func = "string_agg" ->
            FoldLeft(LAMBDA text, v : 10 * (10 * text + 9) + v, values[1], Tail(values))

SqlSlice(q, docs) ==
  LET key(d) == [i \in DOMAIN q.order |-> SqlKey(q.order[i], d[q.order[i].col])]
      sorted == SortSeq(docs, LAMBDA l, r : Lexicographic(key(l), key(r)))
  IN SelectSeq([i \in DOMAIN docs |-> [at |-> i, doc |-> sorted[i]]],
               LAMBDA d : d.at > q.low /\ (q.high = None \/ d.at <= q.high))

SqlFiltered(q) == SelectSeq(tables[q.table], LAMBDA d : Meets(d, q.where))

SqlGrouped(docs, agg) ==
  LET groups == SetToSeq({Restrict(d, ToSet(agg.by)) : d \in ToSet(docs)})
      members(g) == SelectSeq(docs, LAMBDA d : Restrict(d, ToSet(agg.by)) = g)
      annotated == [i \in DOMAIN groups |->
        groups[i] @@ AggregateColumn :> SqlAggregate(members(groups[i]), agg)]
  IN SelectSeq(annotated, LAMBDA d : agg.having => d[AggregateColumn] > 0)

SqlProjected(rows, columns) == [i \in DOMAIN rows |-> Restrict(rows[i], columns)]
SqlUnique(rows, distinct) == IF distinct THEN SetToSeq(ToSet(rows)) ELSE rows

SqlRows(q) == IF q.agg = None THEN SqlFiltered(q) ELSE SqlGrouped(SqlFiltered(q), q.agg)

SqlSelect(q) ==
  LET rows == SqlRows(q)
      columns == ToSet(Columns(q) \o OrderColumns(q))
      selected == SqlProjected(SelectSeq(SqlWindowed(q.windows, rows),
                                         LAMBDA d : Meets(d, q.qualify)), columns)
  IN SqlUnique(selected, q.distinct)

\* Tuples, by the position of their columns.
SqlCombined(q, results) ==
  LET combine(so_far, rows) ==
        CASE q.op = "union" -> so_far \o rows
          [] q.op = "intersection" -> SelectSeq(so_far, LAMBDA r : r \in ToSet(rows))
          [] q.op = "difference" -> SelectSeq(so_far, LAMBDA r : r \notin ToSet(rows))
      combined == FoldLeft(combine, results[1], Tail(results))
  IN SqlUnique(combined, ~q.all)

Named(tuple, names) ==
  [f \in ToSet(names) |-> tuple[CHOOSE i \in DOMAIN names : names[i] = f]]

RECURSIVE Sql(_)
Sql(q) ==
  LET sliced(docs) == LET slice == SqlSlice(q, docs)
                      IN [i \in DOMAIN slice |-> Tuple(slice[i].doc, Columns(q))]
      named(rows, names) == [i \in DOMAIN rows |-> Named(rows[i], names)]
  IN CASE q.op = "select" -> sliced(SqlSelect(q))
       [] q.op \in Combinator ->
            LET results == [i \in DOMAIN q.parts |-> Sql(q.parts[i])]
            IN sliced(named(SqlCombined(q, results), Columns(q)))
       [] q.op = "aggregate" ->
            <<<<SqlAggregate(IF IsPlain(q.inner) THEN SqlFiltered(q.inner)
                             ELSE named(Sql(q.inner), Columns(q.inner)), q.agg)>>>>

-----------------------------------------------------------------------------
(* Properties.                                                             *)

Result == [i \in DOMAIN stream |-> Tuple(stream[i], Columns(query))]

\* Rows in the order that the query asks for, if it does.
IsOrdered(q) == q.op # "aggregate" /\ ToSet(Columns(q)) \subseteq ToSet(OrderColumns(q))

Occurrences(rows, row) == Cardinality({i \in DOMAIN rows : rows[i] = row})

SameRows(ordered, rows, wanted) ==
  IF ordered THEN rows = wanted
  ELSE \A row \in ToSet(rows) \cup ToSet(wanted) :
         Occurrences(rows, row) = Occurrences(wanted, row)

MatchesSQL == SameRows(IsOrdered(query), Result, Sql(query))

\* A query of one model returns the rows that SQL would, in its order: grouped,
\* filtered by HAVING, distinct and sliced in this order, with nulls where the
\* query wants them (build_query(), get_pipeline()).
SelectsMatchSQL ==
  phase = "done" /\ query.op = "select" => query.windows # <<>> \/ MatchesSQL

\* DISTINCT is applied before the windows, to rows without the columns that they need.
DistinctFirst(q) ==
  LET used == {"_id"} \cup UNION {UsedColumns(q.windows[i]) : i \in DOMAIN q.windows}
  IN q.distinct /\ ~(used \subseteq ToSet(Columns(q)))

\* So does one with windows: each row is numbered, ranked, compared and summed up
\* within its partition as SQL does it, whichever windows share a stage, and a
\* filter on a window takes rows away only after all windows were computed; the server
\* refuses those only that it cannot do (functions/window.py, compiler.py:995-1123).
WindowsMatchSQL ==
  query.op = "select" /\ query.windows # <<>> =>
    LET rows == SqlRows(query)
        some(P(_, _)) == \E i \in DOMAIN query.windows : P(query.windows[i], rows)
    IN /\ phase = "done" => MatchesSQL \/ DistinctFirst(query) \/ some(TiesMatter)
       /\ phase = "refused" => DistinctFirst(query) \/ some(NotSupported)

\* Unions, intersections and differences "ensure correct set semantics even when
\* queries apply complex transformations" (compiler.py:723-724), whichever parts
\* are empty, sliced, grouped or combined themselves.
CombinationsMatchSQL == phase = "done" /\ query.op \in Combinator => MatchesSQL

\* An aggregate has one result for any rows, also for none, whether the pipeline
\* is wrapped for automatic encryption or not, and it is that of SQL: 0 or NULL
\* of nothing, nulls and filtered rows left out (aggregates.py:25, 62, 105).
AggregatesMatchSQL == phase = "done" /\ query.op = "aggregate" => MatchesSQL
=============================================================================
