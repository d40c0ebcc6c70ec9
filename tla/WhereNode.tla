------------------------------ MODULE WhereNode ------------------------------
(***************************************************************************)
(* From a tree of conditions to MQL: query.where_node(), the lookups below *)
(* it (lookups.py, the operators of base.py), and what the server makes of *)
(* the result.  A lookup has two translations.  As a path, {x: {$gt: 1}},  *)
(* it is an argument of $match that can use an index; as an expression,    *)
(* {$gt: ["$x", 1]}, it can be nested in other expressions and may compare *)
(* two columns.                                                            *)
(***************************************************************************)
EXTENDS Integers, Sequences, FiniteSets, SequencesExt

CONSTANTS
  Alias, Col,   \* a column of the query is <<alias, col>>
  Height        \* how high a tree of conditions may be; a lookup alone has height 1

ASSUME WhereNodeAssumption == Height \in Nat

\* BSON's order: missing fields, then null, then numbers from 0.
Missing == -2
Null == -1
IsNull(v) == v \in {Missing, Null}

Column == Alias \X Col
Doc == [Col -> {v \in Int : v >= Missing}]
AbsentDoc == [c \in Col |-> Missing]

\* A row binds each alias of the query to a document.
Row == [Alias -> Doc]
ValueOf(row, column) == row[column[1]][column[2]]

-----------------------------------------------------------------------------
(* Conditions.                                                             *)

\* args are constants; if there are none, a comparison is with a column.  "filled" is
\* exact with Coalesce(column, 0) on its left side.
Comparison == {"exact", "gt", "gte", "lt", "lte"}
LookupName == Comparison \cup {"isnull", "in", "range", "filled"}

Lookup(name, lhs, args, column) ==
  [lookup |-> name, lhs |-> lhs, args |-> args, column |-> column]

Lookups ==
  {n \in [lookup : LookupName, lhs : Column, args : Seq(Int), column : Column] :
     CASE n.lookup \in Comparison -> Len(n.args) <= 1
       [] n.lookup \in {"isnull", "filled"} -> Len(n.args) = 1
       [] n.lookup = "range" -> Len(n.args) = 2
       [] n.lookup = "in" -> TRUE}

Where(connector, negated, children) ==
  [connector |-> connector, negated |-> negated, children |-> children]

Nodes(trees) ==
  [connector : {"AND", "OR", "XOR"}, negated : BOOLEAN, children : Seq(trees)]

TreesUpTo[h \in 0 .. Height + 1] ==
  IF h = 0 THEN {} ELSE Lookups \cup Nodes(TreesUpTo[h - 1])

\* The conditions of queries, and those that are pushed: a lookup is pushed in a node.
Condition == TreesUpTo[Height]
Tree == TreesUpTo[Height + 1]

IsLookup(n) == "lookup" \in DOMAIN n

\* Lookup.lhs is a Col.
OnColumn(n) == n.lookup # "filled"

ComparesColumns(n) == n.lookup \in Comparison /\ n.args = <<>>

CanUsePath(n) == OnColumn(n) /\ ~ComparesColumns(n)

-----------------------------------------------------------------------------
(* Lookups.                                                                *)

\* What as_mql() does: it returns MQL, or raises one of two exceptions.
Mql(m) == [is |-> "mql", mql |-> m]
Full == [is |-> "FullResultSet"]
Empty == [is |-> "EmptyResultSet"]

Form(n, form) == [op |-> form, lookup |-> n]

\* Django raises for an empty list in either form, _range_operator() only as a
\* path.
LookupMql(n, asExpr) ==
  LET asPath == CanUsePath(n) /\ ~asExpr
      openRange == n.lookup = "range" /\ n.args[1] = Null /\ n.args[2] = Null
      upsideDown == n.lookup = "range" /\ n.args[2] # Null /\ n.args[1] > n.args[2]
  IN CASE n.lookup = "in" /\ n.args = <<>> -> Empty
       [] asPath /\ openRange -> Full
       [] asPath /\ upsideDown -> Empty
       [] OTHER -> Mql(Form(n, IF asPath THEN "path" ELSE "expr"))

\* mongo_operators: the server compares numbers with numbers only.
PathHolds(n, row) ==
  LET v == ValueOf(row, n.lhs)
      number == ~IsNull(v)
  IN CASE n.lookup = "exact" -> v = n.args[1]
       [] n.lookup = "gt" -> number /\ v > n.args[1]
       [] n.lookup = "gte" -> number /\ v >= n.args[1]
       [] n.lookup = "lt" -> number /\ v < n.args[1]
       [] n.lookup = "lte" -> number /\ v <= n.args[1]
       [] n.lookup = "isnull" -> IsNull(v) = (n.args[1] = 1)
       [] n.lookup = "in" -> v \in Range(n.args)
       [] n.lookup = "range" -> /\ n.args[1] # Null => number /\ v >= n.args[1]
                                /\ n.args[2] # Null => number /\ v <= n.args[2]

LessThanExpr(v, w) == v < w   \* mutant: null is not excluded

LtExpr(v, w) == v < w /\ ~IsNull(v)

\* mongo_expr_operators: values of all types are ordered.
ExprHolds(n, row) ==
  LET v == ValueOf(row, n.lhs)
      w == IF ComparesColumns(n) THEN ValueOf(row, n.column) ELSE n.args[1]
  IN CASE n.lookup = "exact" -> v = w
       [] n.lookup = "gt" -> v > w
       [] n.lookup = "gte" -> v >= w
       [] n.lookup = "lt" -> LtExpr(v, w)
       [] n.lookup = "lte" -> v <= w /\ ~IsNull(v)
       [] n.lookup = "isnull" -> IsNull(v) = (w = 1)
       [] n.lookup = "in" -> v \in Range(n.args)
       [] n.lookup = "range" -> /\ n.args[1] # Null => v >= n.args[1]
                                /\ n.args[2] # Null => v <= n.args[2]
       [] n.lookup = "filled" -> (IF IsNull(v) THEN 0 ELSE v) = w

-----------------------------------------------------------------------------
(* where_node().                                                           *)

RaisedAsIs(negated, e) == e   \* mutant: the negation is forgotten

\* A node without MQL of its own raises for itself what it negates.
Raised(negated, e) ==
  IF ~negated THEN e ELSE IF e = Full THEN Empty ELSE Full

\* What the loop leaves: the exceptions of children count against full_needed
\* and empty_needed, the MQL of the others is combined.
Combine(connector, negated, results) ==
  LET decides == IF connector = "AND" THEN Empty ELSE Full
      neutral == IF connector = "AND" THEN Full ELSE Empty
      parts == SetToSeq({i \in DOMAIN results : results[i].is = "mql"})
      args == [k \in DOMAIN parts |-> results[parts[k]].mql]
      joined == IF Len(args) = 1 THEN args[1] ELSE [op |-> connector, args |-> args]
  IN IF results = <<>> THEN Full
     ELSE IF \E i \in DOMAIN results : results[i] = decides THEN Raised(negated, decides)
     ELSE IF args = <<>> THEN Raised(negated, neutral)
     ELSE Mql(IF negated THEN [op |-> "NOT", args |-> <<joined>>] ELSE joined)

\* Case(When(c, then=1), default=0): a branch that raises has a constant value.
CaseOf(result) ==
  CASE result = Full -> [op |-> "AND", args |-> <<>>]
    [] result = Empty -> [op |-> "OR", args |-> <<>>]
    [] OTHER -> result.mql

SumIsOne(cases) == [op |-> "ONE", args |-> cases]
SumIsOdd(cases) == IF Len(cases) > 2 THEN [op |-> "ODD", args |-> cases] ELSE SumIsOne(cases)

\* a XOR b XOR c: (a OR b OR c) AND MOD(a + b + c, 2) = 1, the sum of expressions.
Xor(negated, results, expressions) ==
  LET anyOf == Combine("OR", FALSE, results)
      odd == SumIsOdd([i \in DOMAIN expressions |-> CaseOf(expressions[i])])
  IN Combine("AND", negated, <<anyOf, Mql(odd)>>)

AsMql[n \in Tree] ==
  [asExpr \in BOOLEAN |->
     LET results(as) == [i \in DOMAIN n.children |-> AsMql[n.children[i]][as]]
     IN IF IsLookup(n) THEN LookupMql(n, asExpr)
        ELSE IF n.connector = "XOR" THEN Xor(n.negated, results(asExpr), results(TRUE))
        ELSE Combine(n.connector, n.negated, results(asExpr))]

\* What as_mql() returns: at most three levels for each of the tree.
Forms == [op : {"path", "expr"}, lookup : Lookups]
Clauses(trees) == [op : {"AND", "OR", "NOT", "ONE", "ODD"}, args : Seq(trees)]
MqlUpTo[h \in 0 .. 3 * (Height + 1)] ==
  IF h = 0 THEN {} ELSE Forms \cup Clauses(MqlUpTo[h - 1])

Translated == MqlUpTo[3 * (Height + 1)]

\* The rows that meet a translated tree, as the server evaluates it.
Matches[m \in Translated] ==
  {row \in Row :
     LET true == {i \in DOMAIN m.args : row \in Matches[m.args[i]]}
     IN CASE m.op = "path" -> PathHolds(m.lookup, row)
          [] m.op = "expr" -> ExprHolds(m.lookup, row)
          [] m.op = "AND" -> true = DOMAIN m.args
          [] m.op = "OR" -> true # {}
          [] m.op = "NOT" -> true = {}
          [] m.op = "ONE" -> Cardinality(true) = 1
          [] m.op = "ODD" -> Cardinality(true) % 2 = 1}

\* A document passes the stage that build_query() makes of the tree.
Selected(result, row) ==
  CASE result = Full -> TRUE
    [] result = Empty -> FALSE
    [] OTHER -> row \in Matches[result.mql]

-----------------------------------------------------------------------------
(* What the tree means in SQL: three truth values, NULL from any comparison *)
(* with NULL.  An end of a range that is None is open, which SQL lacks.     *)

And(a) == IF "F" \in a THEN "F" ELSE IF "U" \in a THEN "U" ELSE "T"
Or(a) == IF "T" \in a THEN "T" ELSE IF "U" \in a THEN "U" ELSE "F"
Not(a) == CASE a = "T" -> "F" [] a = "F" -> "T" [] OTHER -> "U"
Truth(p) == IF p THEN "T" ELSE "F"

SqlLookup(n, row) ==
  LET v == ValueOf(row, n.lhs)
      w == IF ComparesColumns(n) THEN ValueOf(row, n.column) ELSE n.args[1]
      compared(p) == IF IsNull(v) \/ IsNull(w) THEN "U" ELSE Truth(p)
      bounded(bound, p) == IF bound = Null THEN "T" ELSE IF IsNull(v) THEN "U" ELSE Truth(p)
  IN CASE n.lookup = "exact" -> compared(v = w)
       [] n.lookup = "gt" -> compared(v > w)
       [] n.lookup = "gte" -> compared(v >= w)
       [] n.lookup = "lt" -> compared(v < w)
       [] n.lookup = "lte" -> compared(v <= w)
       [] n.lookup = "isnull" -> Truth(IsNull(v) = (w = 1))
       [] n.lookup = "in" -> IF n.args = <<>> THEN "F"
                             ELSE IF IsNull(v) THEN "U" ELSE Truth(v \in Range(n.args))
       [] n.lookup = "range" -> And({bounded(n.args[1], v >= n.args[1]),
                                     bounded(n.args[2], v <= n.args[2])})
       [] n.lookup = "filled" -> Truth((IF IsNull(v) THEN 0 ELSE v) = w)

Sql[n \in Tree] ==
  [row \in Row |->
     LET values == {Sql[n.children[i]][row] : i \in DOMAIN n.children}
         true == {i \in DOMAIN n.children : Sql[n.children[i]][row] = "T"}
         plain == CASE n.connector = "AND" -> And(values)
                    [] n.connector = "OR" -> Or(values)
                    [] n.connector = "XOR" -> Truth(Cardinality(true) % 2 = 1)
     IN IF IsLookup(n) THEN SqlLookup(n, row)
        ELSE IF n.negated THEN Not(plain) ELSE plain]

-----------------------------------------------------------------------------
(* Conditions as Django builds them.                                       *)

LookupsIn[n \in Tree] ==
  IF IsLookup(n) THEN {n} ELSE UNION {LookupsIn[n.children[i]] : i \in DOMAIN n.children}

\* Constants are numbers, None becomes isnull; the ends of a range may be None.
HasConstants(n) ==
  CASE n.lookup = "isnull" -> TRUE
    [] n.lookup = "range" -> \A i \in DOMAIN n.args : n.args[i] = Null \/ n.args[i] >= 0
    [] OTHER -> \A i \in DOMAIN n.args : n.args[i] >= 0

\* As an expression, a range without a start includes null.
OpenStart(n) == n.lookup = "range" /\ n.args[1] = Null /\ n.args[2] # Null

\* Lookups that are UNKNOWN for no row.
NeverUnknown(n) == n.lookup \in {"isnull", "filled"}

Compared(n) == {n.lhs} \cup (IF ComparesColumns(n) THEN {n.column} ELSE {})
IsNotNull(n, column) == n.lookup = "isnull" /\ n.args = <<0>> /\ n.lhs = column

\* Lookups together with IS NOT NULL for what they compare.
Guarded(n) ==
  /\ n.connector = "AND" /\ ~n.negated
  /\ \A i \in DOMAIN n.children : IsLookup(n.children[i])
  /\ \A i \in DOMAIN n.children :
       \/ NeverUnknown(n.children[i])
       \/ \A column \in Compared(n.children[i]) :
            \E k \in DOMAIN n.children : IsNotNull(n.children[k], column)

\* A null makes a comparison UNKNOWN in SQL and false in MQL.  That is the same unless
\* it is negated, and build_filter() adds IS NOT NULL below an odd number of negations.
\* NullsHidden[n] has TRUE if n may stand below an odd number of them, FALSE if below an
\* even one.  XOR is never UNKNOWN.
NullsHidden[n \in Tree] ==
  {odd \in BOOLEAN :
     IF IsLookup(n) THEN odd => NeverUnknown(n)
     ELSE \/ Guarded(n)
          \/ /\ n.connector = "XOR"
             /\ \A i \in DOMAIN n.children : FALSE \in NullsHidden[n.children[i]]
             /\ \A l \in LookupsIn[n] : ~OpenStart(l)
          \/ /\ n.connector # "XOR"
             /\ n.children # <<>>
             /\ \A i \in DOMAIN n.children : (odd # n.negated) \in NullsHidden[n.children[i]]}
=============================================================================
