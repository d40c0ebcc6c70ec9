---------------------------- MODULE JoinPipeline ----------------------------
(***************************************************************************)
(* A SELECT with joins as an aggregation pipeline: get_lookup_pipeline()   *)
(* and build_query() (compiler.py), join() (query.py).  Each join becomes  *)
(* a $lookup, for an outer join a default for rows without a match, and an *)
(* $unwind; the WHERE clause becomes a $match behind them.  What the WHERE *)
(* clause demands of one joined collection alone is repeated inside the    *)
(* $lookup of an inner join, to keep the rows in between few.              *)
(*                                                                         *)
(* A step of the specification is a stage of the pipeline running on the   *)
(* server, after the one that compiles the query.                          *)
(***************************************************************************)
EXTENDS WhereNode, TLC

CONSTANTS
  Base,                 \* the alias of the query's own collection
  Query,                \* the queries: [joins, where], see JoinType
  Database(_)           \* for a query, contents of the collections by alias

\* Joins in the order of alias_map.  "parent" and "on" name the column of an
\* earlier alias that "to" is compared with, "foreignKey" whether one of them
\* is a ForeignKey.  "condition" is the condition of a FilteredRelation, or
\* a node without children.
JoinType == {"INNER", "LOUTER"}

Join == [alias : Alias, parent : Alias, type : JoinType, foreignKey : BOOLEAN,
         on : Col, to : Col, condition : Condition]

\* The aliases that are bound before the join of q with number i.
Before(q, i) == {Base} \cup {q.joins[k].alias : k \in 1 .. (i - 1)}

ASSUME JoinPipelineAssumption ==
  /\ Base \in Alias
  /\ \A q \in Query :
       /\ q.where \in Condition
       /\ q.joins \in Seq(Join)
       /\ \A i \in DOMAIN q.joins :
            q.joins[i].alias \notin Before(q, i) /\ q.joins[i].parent \in Before(q, i)
       /\ \A contents \in Database(q) :
            DOMAIN contents = Alias /\ \A a \in Alias : contents[a] \subseteq Doc

VARIABLES
  query,
  tables,
  stage,                \* what comes next, or how it ended
  joined,               \* the number of joins that were run
  stream                \* the documents that leave the last stage

vars == <<query, tables, stage, joined, stream>>

Joins == query.joins
Stage == {"compile", "join", "match", "done", "raised"}

\* Rows bind every alias; one that is not joined yet to no document.
BaseRow(doc) == [a \in Alias |-> IF a = Base THEN doc ELSE AbsentDoc]

Init ==
  /\ query \in Query
  /\ tables \in Database(query)
  /\ stage = "compile"
  /\ joined = 0
  /\ stream = {}

-----------------------------------------------------------------------------
(* _collect_pushable().                                                    *)

NothingPushed == <<>>

\* The conditions on alias of those of pushables that have one.
AliasNode(alias, pushables, connector) ==
  LET having == SetToSeq({i \in DOMAIN pushables : alias \in DOMAIN pushables[i]})
  IN Where(connector, FALSE, [k \in DOMAIN having |-> pushables[having[k]][alias]])

Unflipped(connector) == connector   \* mutant: De Morgan is forgotten

Flipped(connector) == IF connector = "AND" THEN "OR" ELSE "AND"

AliasesOfAny(connector, pushables) ==   \* mutant: no intersection for OR
  UNION {DOMAIN pushables[i] : i \in DOMAIN pushables}

\* AND keeps what any branch demands, OR only the aliases all branches are about.
PushableAliases(connector, pushables) ==
  LET of(i) == DOMAIN pushables[i]
      any == UNION {of(i) : i \in DOMAIN pushables}
  IN IF connector = "AND" THEN any
     ELSE {a \in any : \A i \in DOMAIN pushables : a \in of(i)}

CollectPushable[n \in Tree] ==
  [negated \in BOOLEAN |->
     IF IsLookup(n)
     THEN IF OnColumn(n) THEN [a \in {n.lhs[1]} |-> Where("AND", negated, <<n>>)]
          ELSE NothingPushed
     ELSE IF n.connector = "XOR" THEN NothingPushed
     ELSE LET neg == negated # n.negated
              connector == IF neg THEN Flipped(n.connector) ELSE n.connector
              pushables == [i \in DOMAIN n.children |-> CollectPushable[n.children[i]][neg]]
          IN [a \in PushableAliases(connector, pushables) |->
                AliasNode(a, pushables, connector)]]

-----------------------------------------------------------------------------
(* join().                                                                 *)

PushedIntoAny(j, pushed) ==   \* mutant: into outer joins as well
  IF j.alias \in DOMAIN pushed THEN <<pushed[j.alias]>> ELSE <<>>

\* An outer join is left alone: rows without a match must stay.
PushedInto(j, pushed) ==
  IF j.type = "INNER" /\ j.alias \in DOMAIN pushed THEN <<pushed[j.alias]>> ELSE <<>>

\* FullResultSet is caught for the condition of a FilteredRelation only.
FilterOf(j) == AsMql[j.condition][FALSE]

\* The results of as_mql() for what is nested in the $lookup of j.
Nested(j, pushed) ==
  LET filters == PushedInto(j, pushed)
  IN (IF FilterOf(j) = Full THEN <<>> ELSE <<FilterOf(j)>>)
     \o [i \in DOMAIN filters |-> AsMql[filters[i]][FALSE]]

\* The two fields of a foreign key become localField and foreignField, for which
\* missing and null are one value; those of another relation are compared by $eq.
KeysMatch(j, row, doc) ==
  LET local == row[j.parent][j.on]
      foreign == doc[j.to]
  IN \/ local = foreign
     \/ j.foreignKey /\ IsNull(local) /\ IsNull(foreign)

\* $lookup: a column of another alias is a variable that holds its value in
\* the row so far.
Found(j, row, pushed) ==
  {doc \in tables[j.alias] :
     /\ KeysMatch(j, row, doc)
     /\ \A r \in Range(Nested(j, pushed)) : Selected(r, [row EXCEPT ![j.alias] = doc])}

NoDefault(j, docs) == docs   \* mutant: the $set stage is left out

DefaultOfNulls(j, docs) ==   \* mutant: a document of nulls
  IF docs = {} /\ j.type # "INNER" THEN {[c \in Col |-> Null]} ELSE docs

\* $set and $unwind: without a match an outer join goes on with an empty
\* document, an inner join drops the row.
Default(j, docs) == IF docs = {} /\ j.type # "INNER" THEN {AbsentDoc} ELSE docs

Joined(rows, j, pushed) ==
  UNION {{[row EXCEPT ![j.alias] = doc] : doc \in Default(j, Found(j, row, pushed))} :
           row \in rows}

-----------------------------------------------------------------------------
(* The pipeline.                                                           *)

Pushed == CollectPushable[query.where][FALSE]

\* Where as_mql() of a part of the query raises, and in which order.
Raises ==
  {at \in (DOMAIN Joins) \X {1, 2} :
     LET results == Nested(Joins[at[1]], Pushed)
     IN at[2] \in DOMAIN results /\ results[at[2]] \in {Full, Empty}}
IsFirst(at) ==
  \A other \in Raises : at[1] < other[1] \/ (at[1] = other[1] /\ at[2] <= other[2])

\* FullResultSet from a join reaches the caller, EmptyResultSet ends the query
\* without asking the server.
Compile ==
  /\ stage = "compile"
  /\ \/ /\ Raises = {}
        /\ stage' = IF Joins = <<>> THEN "match" ELSE "join"
        /\ stream' = {BaseRow(doc) : doc \in tables[Base]}
     \/ \E at \in Raises :
          /\ IsFirst(at)
          /\ stage' = IF Nested(Joins[at[1]], Pushed)[at[2]] = Full THEN "raised" ELSE "done"
          /\ UNCHANGED stream
  /\ UNCHANGED <<query, tables, joined>>

RunJoin ==
  /\ stage = "join"
  /\ joined' = joined + 1
  /\ stream' = Joined(stream, Joins[joined'], Pushed)
  /\ stage' = IF joined' = Len(Joins) THEN "match" ELSE "join"
  /\ UNCHANGED <<query, tables>>

RunMatch ==
  /\ stage = "match"
  /\ stream' = {row \in stream : Selected(AsMql[query.where][FALSE], row)}
  /\ stage' = "done"
  /\ UNCHANGED <<query, tables, joined>>

Next == Compile \/ RunJoin \/ RunMatch

Spec == Init /\ [][Next]_vars

-----------------------------------------------------------------------------
(* Properties.                                                             *)

BaseRows == {BaseRow(doc) : doc \in tables[Base]}

\* What SQL joins: keys that are NULL match nothing, and a row without a match
\* is filled up with NULLs.
SqlMatches(j, row) ==
  {doc \in tables[j.alias] :
     /\ ~IsNull(row[j.parent][j.on])
     /\ doc[j.to] = row[j.parent][j.on]
     /\ Sql[j.condition][[row EXCEPT ![j.alias] = doc]] = "T"}

SqlJoined(rows, j) ==
  UNION {{[row EXCEPT ![j.alias] = doc] : doc \in
            IF SqlMatches(j, row) = {} /\ j.type = "LOUTER"
            THEN {AbsentDoc} ELSE SqlMatches(j, row)} : row \in rows}

SqlRows[k \in 0 .. Len(Joins)] ==
  IF k = 0 THEN BaseRows ELSE SqlJoined(SqlRows[k - 1], Joins[k])

\* A query returns the rows that the SQL it stands for would return, whatever
\* its conditions, their nesting and negation, its joins and the NULLs in the
\* data: translation, pushed conditions and stages agree with each other.
ResultMatchesSQL ==
  stage = "done" =>
    stream = {row \in SqlRows[Len(Joins)] : Sql[query.where][row] = "T"}

\* A condition selects the same documents in filter() and inside another
\* expression, as in When(): "Null values should be excluded in less than
\* queries" (tests/lookup_/tests.py:14) of both forms.
PathAndExprAgree ==
  stage = "match" =>
    \A row \in stream :
      Selected(AsMql[query.where][FALSE], row) <=> Selected(AsMql[query.where][TRUE], row)

\* The rows of the joins alone.
PlainRows[k \in 0 .. Len(Joins)] ==
  IF k = 0 THEN BaseRows ELSE Joined(PlainRows[k - 1], Joins[k], NothingPushed)

\* Conditions are pushed into a $lookup "to improve performance" (query.py:195)
\* and only "if it can be safely evaluated within the $lookup pipeline"
\* (query.py:276): the query returns the same without.
PushdownIsSafe ==
  stage = "done" =>
    stream = IF \E i \in DOMAIN Joins : FilterOf(Joins[i]) = Empty THEN {}
             ELSE {row \in PlainRows[Len(Joins)] : Selected(AsMql[query.where][FALSE], row)}

\* A condition that every document meets costs nothing: the caller never sees
\* the FullResultSet that says so (compiler.py:554, except FullResultSet).
FullResultSetIsCaught == stage # "raised"

\* "For left outer joins (LOUTER), however, an empty collection is returned"
\* (query.py:340) for what has no match, so a row that stands for no document
\* is joined with no document.
NothingJoinsNothing ==
  \A row \in stream : \A i \in 1 .. joined :
    row[Joins[i].parent] = AbsentDoc => row[Joins[i].alias] = AbsentDoc

-----------------------------------------------------------------------------
(* What the properties need of a query.  The README says where the code    *)
(* departs from them without.                                              *)

\* A path and an expression select the same.
FormsAgree(q) == \A l \in LookupsIn[q.where] : HasConstants(l) /\ ~OpenStart(l)

\* No lookup compares a column with one that is joined later.
ComparesEarlier(q) ==
  \A i \in DOMAIN q.joins : \A l \in LookupsIn[q.where] :
    l.lhs[1] = q.joins[i].alias /\ ComparesColumns(l) =>
      l.column[1] \in Before(q, i) \cup {q.joins[i].alias}

\* The aliases that are bound to a document before the join with number i.
Present(q, i) ==
  {Base} \cup {q.joins[k].alias : k \in {k \in 1 .. (i - 1) : q.joins[k].type = "INNER"}}

HasValue(contents, aliases, column) ==
  column[1] \in aliases /\ \A doc \in contents[column[1]] : ~IsNull(doc[column[2]])

\* null = null is true in MQL, and so is 1 > null.
HasConstantsAndValues(n, contents, aliases) ==
  \A l \in LookupsIn[n] :
    /\ HasConstants(l)
    /\ ComparesColumns(l) /\ l.lookup \in {"exact", "gt", "gte"} =>
         \/ HasValue(contents, aliases, l.column)
         \/ l.lookup = "exact" /\ HasValue(contents, aliases, l.lhs)

\* No join by null, and no outer one whose condition no row can meet.
JoinsByValue(q, contents, i) ==
  LET j == q.joins[i]
  IN /\ HasConstantsAndValues(j.condition, contents, Present(q, i) \cup {j.alias})
     /\ j.type = "INNER" \/ FilterOf(j) # Empty
     /\ \/ \A doc \in contents[j.alias] : ~IsNull(doc[j.to])
        \/ HasValue(contents, Present(q, i), <<j.parent, j.on>>)

\* What SQL and MQL do with NULL makes no difference.
NullsAreHidden(q) ==
  /\ FALSE \in NullsHidden[q.where]
  /\ \A i \in DOMAIN q.joins : FALSE \in NullsHidden[q.joins[i].condition]

ComparesValues(q, contents) ==
  /\ HasConstantsAndValues(q.where, contents, Present(q, Len(q.joins) + 1))
  /\ \A i \in DOMAIN q.joins : JoinsByValue(q, contents, i)
=============================================================================
