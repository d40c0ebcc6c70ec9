--------------------------- MODULE MCSelectPipeline ---------------------------
(* Instances of SelectPipeline for TLC.                                    *)
EXTENDS SelectPipeline

MCTable == {"T", "U"}

AB == <<"a", "b">>
BA == <<"b", "a">>

In(among) == [col |-> "a", among |-> among]
Nothing == In({})

Select(table, where, columns) ==
  [op |-> "select", table |-> table, where |-> where, columns |-> columns, agg |-> None,
   windows |-> <<>>, qualify |-> None,
   distinct |-> FALSE, order |-> <<>>, low |-> 0, high |-> None]

Aggregate(func, distinct, filter) ==
  [func |-> func, col |-> "b", distinct |-> distinct, filter |-> filter, order |-> <<>>]

By(agg, having) == agg @@ [by |-> <<"a">>, having |-> having]

Combine(op, all, parts) ==
  [op |-> op, all |-> all, parts |-> parts, order |-> <<>>, low |-> 0, high |-> None]

Item(col, desc, nulls) == [col |-> col, desc |-> desc, nulls |-> nulls]

SomeAggregate ==
  {Aggregate("count all", FALSE, filter) : filter \in {None, In({0})}} \cup
  {Aggregate(f, distinct, filter) :
     f \in {"count", "sum", "avg", "var_pop", "var_samp"}, distinct \in BOOLEAN,
     filter \in {None, In({0}), Nothing}}

\* Avg(distinct=True, filter=...), see below.
FilteredTwice == {a \in SomeAggregate : a.func \in Variances \cup {"avg"} /\ a.distinct /\ a.filter # None}
Orders(first, second) ==
  {<<Item(first, desc, nulls), Item(second, ~desc, None)>> :
     desc \in BOOLEAN, nulls \in {None, "first", "last"}}

\* Texts in the order of columns, and sets of them in their own; null is not text.
StringAgg(distinct, filter, order) ==
  [Aggregate("string_agg", distinct, filter) EXCEPT !.order = order]
Texts ==
  {StringAgg(FALSE, filter, order) :
     filter \in {None, In({0}), Nothing}, order \in {o \in Orders("a", "b") : o[1].nulls = None}}
  \cup {StringAgg(TRUE, filter, <<Item("b", desc, None)>>) :
           filter \in {None, In({0}), Nothing}, desc \in BOOLEAN}

MCAggregate == SomeAggregate \ FilteredTwice

\* Slices of rows that are in a total order.
Sliced(q, items, low, high) == [q EXCEPT !.order = items, !.low = low, !.high = high]
Slices == {<<0, None>>, <<1, None>>, <<0, 1>>, <<1, 2>>}
SlicedAll(queries, orders) ==
  {Sliced(q, o, s[1], s[2]) : q \in queries, o \in orders, s \in Slices}

-----------------------------------------------------------------------------
Distinct(q) == [q EXCEPT !.distinct = TRUE]

Rows(table) == {Select(table, w, c) : w \in {None, In({0})}, c \in {AB, <<"b">>}}
GroupedRows(table) ==
  {[Select(table, None, <<"a", "agg">>) EXCEPT !.agg = By(a, having)] :
     a \in MCAggregate, having \in BOOLEAN}
  \cup {[Select(table, None, <<"a", "agg">>) EXCEPT !.agg = By(a, FALSE)] : a \in Texts}

SelectQuery ==
  LET some == Rows("T") \cup {Distinct(q) : q \in Rows("T")}
      grouped == GroupedRows("T")
      counts == {[q EXCEPT !.columns = <<"agg">>] : q \in grouped}
  IN some \cup SlicedAll(some, Orders("a", "b"))
     \cup grouped \cup SlicedAll(grouped, Orders("agg", "a"))
     \cup counts \cup {Distinct(q) : q \in counts}

-----------------------------------------------------------------------------
Parts(table) ==
  {Select(table, w, AB) : w \in {None, In({0}), Nothing}}
  \cup {Select(table, None, BA),
        Sliced(Select(table, None, AB),
               <<Item("b", TRUE, "last"), Item("a", FALSE, None)>>, 0, 1),
        [Select(table, None, <<"a", "agg">>) EXCEPT
           !.agg = By(Aggregate("sum", FALSE, None), FALSE)]}

How == {<<op, FALSE>> : op \in Combinator} \cup {<<"union", TRUE>>}

Combined(lefts, rights) ==
  {Combine(h[1], h[2], <<l, r>>) : h \in How, l \in lefts, r \in rights}

Triples ==
  {Combine(h[1], h[2], <<Select("T", None, AB), p, r>>) : h \in How,
     p \in Parts("U"),
     r \in {Select("T", Nothing, AB), Select("T", None, BA), Select("U", In({0}), AB)}}

Both == Combined({Select("T", None, AB)}, {Select("U", None, AB), Select("T", In({0}), AB)})
Nested ==
  Combined(Both, {Select("T", None, AB), Select("U", None, BA)})
  \cup Combined({Select("T", None, BA)}, Both)

AllCombined ==
  Combined(Parts("T"), Parts("T") \cup Parts("U")) \cup Triples \cup Nested
  \cup SlicedAll(Combined({Select("T", None, AB)}, {Select("U", None, BA)}), Orders("a", "b"))

-----------------------------------------------------------------------------
(* Queries on which the code departs from what it promises.                *)

\* The first query that is not left out runs on the collection of the first.
RunsElsewhere(q) ==
  q.op = "union" /\ \E i \in DOMAIN q.parts :
    /\ ~RaisesEmpty(q.parts[i])
    /\ \A j \in 1..(i - 1) : RaisesEmpty(q.parts[j])
    /\ BaseTable(q.parts[i]) # BaseTable(q)

\* Rows of a union are looked up beside the first document of its first query's
\* collection, which may be empty.
NoAnchor(q) == q.op \in {"intersection", "difference"} /\ q.parts[1].op = "union"

ElsewhereQuery == {q \in AllCombined : RunsElsewhere(q)}

CombinedQuery == {q \in AllCombined : ~RunsElsewhere(q) /\ ~NoAnchor(q)}

AggregateOf(inners, aggs) ==
  {[op |-> "aggregate", inner |-> q, agg |-> a] : q \in inners, a \in aggs}

Count == Aggregate("count all", FALSE, None)

AggregateQuery ==
  AggregateOf(Rows("T") \cup {Select("T", Nothing, AB)}, MCAggregate \cup Texts)
  \cup AggregateOf({Distinct(Select("T", None, <<"b">>))},
                   {a \in MCAggregate : a.filter = None})
  \cup AggregateOf(
         SlicedAll({Select("T", None, AB)}, {<<Item("a", TRUE, "first"), Item("b", FALSE, None)>>})
         \cup Both,
         {Count, Aggregate("sum", TRUE, None)})
  \cup AggregateOf(GroupedRows("T"), {Count})

FilteredTwiceQuery == AggregateOf({Select("T", None, AB)}, FilteredTwice)

-----------------------------------------------------------------------------
(* Windows, over documents with an _id.                                    *)

Window(func, col, n, by, order, frame) ==
  [name |-> func, func |-> func, col |-> col, n |-> n, by |-> by, order |-> order,
   frame |-> frame]

\* No two rows of a partition are tied.
TotalOrders ==
  {<<Item("b", desc, nulls), Item("_id", ~desc, None)>> :
     desc \in BOOLEAN, nulls \in {None, "first", "last"}}
    \cup {<<Item("_id", desc, None)>> : desc \in BOOLEAN}
\* One column, in which rows are tied and null.
Single == {<<Item("b", desc, nulls)>> : desc \in BOOLEAN, nulls \in {None, "first", "last"}}
Numbers == {<<Item("c", desc, None)>> : desc \in BOOLEAN}
ById == {<<Item("_id", desc, None)>> : desc \in BOOLEAN}
By1 == {<<>>, <<"a">>, <<"a", "c">>}

Rows1 == {Frame("documents", -1, 1), Frame("documents", None, -1), Frame("documents", 0, None)}
Ranges == {Frame("range", -1, 0), Frame("range", None, 0), Frame("range", 0, 1)}

OneWindow ==
  {Window(f, None, 0, by, o, None) : f \in {"rank", "dense_rank"}, by \in By1, o \in Single \cup {<<>>}}
  \cup {Window("row_number", None, 0, by, o, None) : by \in By1, o \in TotalOrders \cup {<<>>}}
  \cup {Window("cume_dist", None, 0, by, o, None) : by \in By1, o \in Numbers \cup {<<>>}}
  \cup {Window("percent_rank", None, 0, by, o, None) : by \in By1, o \in ById}
  \cup {Window("ntile", None, n, by, o, None) :
           n \in 1..4, by \in {<<>>, <<"a">>}, o \in ById \cup {<<>>}}
  \cup {Window(f, "b", n, by, o, None) :
           f \in {"lag", "lead"}, n \in 1..2, by \in By1, o \in ById}
  \cup {Window(f, "b", 2, by, o, frame) :
           f \in {"first_value", "last_value", "nth_value", "sum", "count", "avg"},
           by \in {<<>>, <<"a">>}, o \in ById, frame \in Rows1 \cup {None}}
  \cup {Window(f, "b", 0, <<"a">>, o, frame) :
           f \in {"sum", "count"}, o \in Numbers, frame \in Ranges}
  \* Tied in the whole partition, and no order at all.
  \cup {Window(f, "b", 0, <<"a">>, o, None) :
           f \in {"sum", "count", "avg"}, o \in {<<>>, <<Item("a", FALSE, None)>>}}
  \* With ties, and what the server refuses.
  \cup {Window(f, None, 0, <<"a">>, o, None) :
           f \in {"rank", "dense_rank", "cume_dist", "percent_rank"},
           o \in Single \cup Numbers \cup TotalOrders \cup {<<>>}}
  \cup {Window(f, "b", 1, by, o, frame) :
           f \in {"sum", "count", "first_value", "lag"}, by \in {<<>>, <<"a">>},
           o \in Numbers \cup {<<>>}, frame \in {None, Frame("documents", None, 0)}}

\* Some windows that share a stage and some that do not.
SeveralWindows ==
  LET ranks == Window("rank", None, 0, <<"a">>, <<Item("b", TRUE, "last")>>, None)
      numbers == Window("row_number", None, 0, <<>>, <<Item("_id", FALSE, None)>>, None)
      sums == Window("sum", "b", 0, <<>>, <<Item("_id", FALSE, None)>>, None)
      dense == Window("dense_rank", None, 0, <<"a">>, <<>>, None)
      within == Window("sum", "b", 0, <<"a">>, <<Item("_id", FALSE, None)>>, None)
      distribution == Window("cume_dist", None, 0, <<"a">>, <<>>, None)
      near == Window("count", "b", 0, <<"a">>, <<Item("c", FALSE, None)>>, Frame("range", -1, 0))
  IN {<<near>>, <<distribution, ranks>>, <<ranks, numbers>>, <<numbers, within>>, <<numbers, sums>>, <<sums, dense, numbers>>, <<dense, ranks>>}

Names(windows) == [i \in DOMAIN windows |-> windows[i].name]

SelectWindows(windows) ==
  [Select("T", None, <<"_id">> \o Names(windows)) EXCEPT !.windows = windows]

WindowQuery ==
  LET all == {SelectWindows(<<w>>) : w \in OneWindow} \cup {SelectWindows(ws) : ws \in SeveralWindows}
      several == {SelectWindows(ws) : ws \in SeveralWindows}
  IN all
     \cup {[q EXCEPT !.qualify = [col |-> q.windows[1].name, among |-> {1}]] : q \in several}
     \cup {[q EXCEPT !.where = In({0})] : q \in several}
     \cup {Distinct([q EXCEPT !.columns = columns \o Names(q.windows)]) :
              q \in several, columns \in {<<"_id", "a", "b">>, <<"_id", "a">>, <<"a">>}}
     \cup {Sliced(q, <<Item(q.windows[1].name, FALSE, None), Item("_id", TRUE, None)>>, 1, None) :
              q \in several}
     \cup {[Select("T", None, <<"a", "agg", "row_number">>) EXCEPT
              !.agg = By(Count, FALSE),
              !.windows = <<Window("row_number", None, 0, <<>>, <<Item("a", desc, None)>>, None)>>] :
              desc \in BOOLEAN}

MCQuery == SelectQuery \cup CombinedQuery \cup AggregateQuery \cup WindowQuery

-----------------------------------------------------------------------------
Docs ==
  <<[a |-> 0, b |-> 1], [a |-> 0, b |-> Null], [a |-> Null, b |-> 1], [a |-> 1, b |-> 0]>>

Bags(docs) ==
  {<<>>} \cup {<<docs[i]>> : i \in DOMAIN docs}
  \cup {<<docs[i], docs[j]>> : i, j \in DOMAIN docs}

RECURSIVE TablesOf(_)
TablesOf(q) == IF q.op \in Combinator THEN UNION {TablesOf(q.parts[i]) : i \in DOMAIN q.parts}
               ELSE IF q.op = "aggregate" THEN TablesOf(q.inner) ELSE {q.table}

Numbered ==
  {[i \in 1..4 |-> [_id |-> (3 * i) % 5, a |-> as[i], b |-> bs[i], c |-> cs[i]]] :
     as \in {<<0, 0, 0, 0>>, <<0, 1, 0, Null>>}, bs \in {<<Null, 1, 0, 1>>, <<2, 2, Null, 2>>},
     cs \in {<<1, 1, 1, 1>>, <<1, 0, 1, 3>>}}

MCContents(q) ==
  LET some == SubSeq(Docs, 1, 3)
  IN IF q \in WindowQuery
     THEN {"T" :> t @@ "U" :> <<>> :
             t \in Numbered \cup {SubSeq(n, 1, k) : n \in Numbered, k \in {0, 1, 3}}}
     ELSE IF TablesOf(q) = {"T"}
     THEN {"T" :> t @@ "U" :> <<>> : t \in Bags(Docs) \cup {SubSeq(Docs, 2, 4)}}
     ELSE {"T" :> t @@ "U" :> u : t \in Bags(some), u \in Bags(some)}
=============================================================================
