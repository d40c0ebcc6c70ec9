---------------------------- MODULE MCJoinPipeline ----------------------------
(* Instances of JoinPipeline for TLC.                                      *)
EXTENDS JoinPipeline

MCAlias == {"T1", "T2", "T3"}
MCCol == {"id", "fk", "x", "n"}

-----------------------------------------------------------------------------
(* Conditions, as Django's Query.build_filter() builds them from Q objects: *)
(* below an odd number of negations it adds IS NOT NULL for the columns     *)
(* that may be null.                                                        *)

NotNull(column) == Lookup("isnull", column, <<0>>, column)

Against(name, column, value) == Lookup(name, column, <<value>>, column)
Columns(name, left, right) == Lookup(name, left, <<>>, right)

Guards(n) ==
  (IF n.lookup \in {"isnull", "filled"} THEN <<>> ELSE <<NotNull(n.lhs)>>)
  \o (IF ComparesColumns(n) THEN <<NotNull(n.column)>> ELSE <<>>)

RECURSIVE Built(_, _)
Built(q, negated) ==
  IF IsLookup(q)
  THEN IF negated THEN Where("AND", FALSE, <<q>> \o Guards(q)) ELSE q
  ELSE Where(q.connector, q.negated,
             [i \in DOMAIN q.children |-> Built(q.children[i], negated # q.negated)])

All(q) == Built(Where("AND", FALSE, <<q>>), FALSE)

Neg(q) == Where("AND", TRUE, <<q>>)
Literals(lookups) == lookups \cup {Neg(n) : n \in lookups}

Pairs(connectors, lefts, rights) ==
  {Where(c, neg, <<l, r>>) : c \in connectors, neg \in BOOLEAN, l \in lefts, r \in rights}

Connectors == {"AND", "OR", "XOR"}
Everything == Where("AND", FALSE, <<>>)

NoJoins(wheres) == {[joins |-> <<>>, where |-> All(w)] : w \in wheres}

-----------------------------------------------------------------------------
(* Deep trees over one document.                                           *)

X == <<"T1", "x">>

XLookups ==
  {Against("exact", X, 1), Against("lt", X, 1), Lookup("in", X, <<>>, X),
   Lookup("range", X, <<Null, Null>>, X), Lookup("range", X, <<1, 0>>, X)}

Triples(lookups) ==
  {Where("XOR", neg, <<a, b, c>>) : neg \in BOOLEAN, a \in lookups, b \in lookups, c \in lookups}

\* Django's IS NOT NULL hides the difference between SQL and MQL except below an XOR
\* when the negations around a lookup cancel each other: then SQL counts NOT(UNKNOWN) as
\* false, MQL as true.
Comparable(wheres) == {w \in wheres : FALSE \in NullsHidden[All(w)]}

TreeQuery ==
  NoJoins(Comparable(Pairs(Connectors, Literals(XLookups),
                Pairs(Connectors, {Against("gte", X, 0), Neg(Against("exact", X, 1))},
                      Literals(XLookups)))
          \cup Triples(Literals(XLookups))))

TreeDoc == {[id |-> 1, fk |-> Null, x |-> x, n |-> 0] : x \in {Missing, Null, 0, 1}}

TreeDatabase ==
  {[a \in MCAlias |-> IF a = "T1" THEN docs ELSE {}] : docs \in {{d} : d \in TreeDoc}}

-----------------------------------------------------------------------------
(* Joins.                                                                  *)

JoinTo(alias, parent, forward, type) ==
  [alias |-> alias, parent |-> parent, type |-> type, foreignKey |-> TRUE,
   on |-> IF forward THEN "fk" ELSE "id", to |-> IF forward THEN "id" ELSE "fk",
   condition |-> Everything]

\* A join behind an outer join is an outer join.
T2Joins == {JoinTo("T2", "T1", forward, type) : forward \in BOOLEAN, type \in JoinType}
JoinPairs ==
  {<<j, k>> : j \in T2Joins,
              k \in {JoinTo("T3", parent, forward, type) :
                       parent \in {"T1", "T2"}, forward \in BOOLEAN, type \in JoinType}}

Possible(js) == js[2].parent = "T2" /\ js[1].type = "LOUTER" => js[2].type = "LOUTER"

\* Following a foreign key backwards from an outer join.
BackFromNothing(js) ==
  js[2].parent = "T2" /\ js[1].type = "LOUTER" /\ js[2].on = "id"

SomeJoins == {js \in JoinPairs : Possible(js) /\ ~BackFromNothing(js)}

X2 == <<"T2", "x">>
X3 == <<"T3", "x">>
N(alias) == <<alias, "n">>

JoinLookups ==
  {Against("exact", X, 1), Against("exact", X2, 1), Against("filled", X2, 0),
   Against("isnull", X3, 1), Columns("exact", N("T2"), N("T1"))}

JoinQuery ==
  {[joins |-> js, where |-> All(w)] : js \in SomeJoins,
     w \in Pairs({"AND", "OR"}, Literals(JoinLookups),
                 {Against("exact", X2, 1), Neg(Against("exact", X2, 1)),
                  Against("isnull", X3, 1), Columns("exact", N("T2"), N("T1"))})}

Docs(fks, xs, ns) ==
  {[id |-> 1, fk |-> fk, x |-> x, n |-> n] : fk \in fks, x \in xs, n \in ns}

OneOrNone(docs) == {{}} \cup {{d} : d \in docs}

JoinDatabase ==
  {"T1" :> {d1} @@ "T2" :> t2 @@ "T3" :> t3 :
     d1 \in Docs({Null, 1}, {Null, 1}, {1}),
     t2 \in OneOrNone(Docs({Null, 1}, {Null, 1}, {0})),
     t3 \in OneOrNone(Docs({Null, 1}, {1}, {1}))}

\* Joins with the condition of a FilteredRelation.
X2Lookups ==
  {Against("exact", X2, 1), Against("filled", X2, 0), Columns("lt", N("T2"), N("T1")),
   Lookup("range", X2, <<Null, Null>>, X2)}

FilteredQuery ==
  {[joins |-> <<[JoinTo("T2", "T1", forward, type) EXCEPT !.condition = All(c)]>>,
    where |-> All(w)] :
     forward \in BOOLEAN, type \in JoinType, c \in Literals(X2Lookups),
     w \in Literals({Against("exact", X2, 1), Against("isnull", X2, 1)})}

MCQuery == TreeQuery \cup JoinQuery \cup FilteredQuery

MCDatabase(q) == IF q.joins = <<>> THEN TreeDatabase ELSE JoinDatabase

\* The queries are those of the theorems.
ASSUME MCJoinPipelineAssumption ==
  \A q \in Query :
    /\ FormsAgree(q) /\ ComparesEarlier(q) /\ NullsAreHidden(q)
    /\ \A contents \in Database(q) : ComparesValues(q, contents)

-----------------------------------------------------------------------------
(* Queries on which the code departs from what it promises.                *)

\* filter(t2__x=1).filter(t2__n__lt=F("t3__n")): the second condition is about
\* T2, which the first one already joined, and about T3, which is joined last.
LateQuery ==
  {[joins |-> <<JoinTo("T2", "T1", TRUE, "INNER"), JoinTo("T3", "T1", TRUE, "INNER")>>,
    where |-> All(Where("AND", FALSE, <<Against("exact", X2, 1),
                                        Columns("lt", N("T2"), N("T3"))>>))]}

Ranges(column) ==
  {Lookup("range", column, <<a, b>>, column) : a \in {Null, 0, 1}, b \in {Null, 0, 1}}

\* filter(t2__x__range=(start, end)) or exclude().
JoinedRangeQuery ==
  {[joins |-> <<JoinTo("T2", "T1", forward, type)>>, where |-> All(w)] :
     forward \in BOOLEAN, type \in JoinType, w \in Literals(Ranges(X2))}

\* A foreign key is followed forwards to T2, which may be nothing, then
\* backwards to T3.
NothingQuery ==
  {[joins |-> js, where |-> All(Against("exact", X, 1))] :
     js \in {js \in JoinPairs : Possible(js)}}
=============================================================================
