--------------------------- MODULE WindowFunctions ---------------------------
(***************************************************************************)
(* Window expressions as stages of a pipeline: compiler.py, the methods     *)
(* for windows, and functions/window.py.  Windows over the same partitions  *)
(* in the same order share a $setWindowFields stage; what its accumulators  *)
(* cannot say is computed from their temporary fields in an $addFields      *)
(* behind it.                                                              *)
(***************************************************************************)
EXTENDS Integers, Sequences, FiniteSets, SequencesExt, TLC

CONSTANT None

\* BSON's order: missing fields, then null, then numbers.
Missing == -2
Null == -1
IsNull(v) == v \in {Missing, Null}

\* A document is a function from the names of its fields to their values.
Get(doc, field) == IF field \in DOMAIN doc THEN doc[field] ELSE Missing

\* In an array a missing field is null.
Tuple(doc, names) ==
  [i \in DOMAIN names |-> IF IsNull(Get(doc, names[i])) THEN Null ELSE Get(doc, names[i])]

Lexicographic(left, right) ==
  \E i \in DOMAIN left :
    left[i] < right[i] /\ \A j \in 1..(i - 1) : left[j] = right[j]

(***************************************************************************)
(* A window is [name, func, col, n, by, order, frame]: the function of the   *)
(* column (and of the number n) as the field "name", over the partitions by  *)
(* the columns "by", in an order that is a sequence of [col, desc, nulls] as  *)
(* for order_by().  A frame is [unit, first, last], in rows from the current *)
(* one or in values of the only column of the order; None is unbounded.      *)
(***************************************************************************)
Frame(unit, first, last) == [unit |-> unit, first |-> first, last |-> last]
Everything == Frame("documents", None, None)
UpToCurrent == Frame("documents", None, 0)

NullInd(item) == IF (item.nulls = "last") # item.desc THEN 1 ELSE 0

\* {ind, val}, compared one after the other.
NullPlaced(item, v) == 100 * (IF v = Null THEN NullInd(item) ELSE 1 - NullInd(item)) + v

SortField(w, i) == IF w.order[i].nulls = None THEN w.order[i].col
                   ELSE w.name \o "__wsort" \o ToString(i)

Key(field, descending, placed) ==
  [field |-> field, descending |-> descending, placed |-> placed]
SortDocument(w) ==
  [i \in DOMAIN w.order |-> Key(SortField(w, i), w.order[i].desc, w.order[i].nulls # None)]

\* Fields that are added before, for items that say where nulls go, and the constant that
\* ranks without an order are sorted by.
PlacedItems(w) == {i \in DOMAIN w.order : w.order[i].nulls # None}
ConstantField == "__wsort constant"
Constant == ConstantField :> 1
AddSortFields(doc, windows) ==
  FoldLeft(LAMBDA d, w : [f \in {SortField(w, i) : i \in PlacedItems(w)} |->
                            LET i == CHOOSE i \in PlacedItems(w) : SortField(w, i) = f
                            IN NullPlaced(w.order[i], Get(doc, w.order[i].col))] @@ d,
           Constant @@ doc, windows)

\* All rows of a partition are tied.
SortSubsetOfPartition(w) ==
  /\ w.by # <<>> /\ w.order # <<>>
  /\ {SortField(w, i) : i \in DOMAIN w.order} \subseteq ToSet(w.by)

\* Mutant: the frame of a window with an order is up to the current row.
DefaultFrameUpToCurrent(w) ==
  IF w.frame # None THEN w.frame ELSE IF w.order # <<>> THEN UpToCurrent ELSE Everything

DefaultFrame(w) ==
  IF w.frame # None THEN w.frame
  ELSE IF w.order # <<>> /\ ~SortSubsetOfPartition(w) THEN UpToCurrent ELSE Everything

-----------------------------------------------------------------------------
(* The functions: the fields a window adds to $setWindowFields, and its own  *)
(* field computed from them, if it is not one of them.                     *)

Out(op, col, frame, n) == [op |-> op, col |-> col, frame |-> frame, n |-> n]
Ones(frame) == Out("$sum", None, frame, 0)
Position(op) == Out(op, None, Everything, 0)

Temp(w, i) == w.name \o "__wtemp" \o ToString(i)

Outputs(w) ==
  LET over(op) == w.name :> Out(op, w.col, DefaultFrame(w), w.n)
  IN CASE w.func = "rank" -> w.name :> Position("$rank")
       [] w.func = "dense_rank" -> w.name :> Position("$denseRank")
       [] w.func = "row_number" -> w.name :> Position("$documentNumber")
       [] w.func = "first_value" -> over("$first")
       [] w.func = "last_value" -> over("$last")
       [] w.func = "lag" -> w.name :> Out("$shift", w.col, Everything, -w.n)
       [] w.func = "lead" -> w.name :> Out("$shift", w.col, Everything, w.n)
       [] w.func = "count" -> over("$sum of values")
       [] w.func = "avg" -> over("$avg")
       [] w.func = "sum" -> Temp(w, 1) :> Out("$push values", w.col, DefaultFrame(w), 0)
       [] w.func = "nth_value" -> Temp(w, 1) :> Out("$push", w.col, DefaultFrame(w), 0)
       [] w.func = "cume_dist" ->
            Temp(w, 1) :> Position("$rank") @@ Temp(w, 2) :> Ones(Frame("range", 0, 0))
              @@ Temp(w, 3) :> Ones(Everything)
       [] w.func = "percent_rank" ->
            Temp(w, 1) :> Ones(UpToCurrent) @@ Temp(w, 2) :> Ones(Everything)
       [] w.func = "ntile" ->
            Temp(w, 1) :> Position("$documentNumber") @@ Temp(w, 2) :> Ones(Everything)

\* Fractions in hundredths.
CumeDist(rank, size, total) == (100 * (rank + size - 1)) \div total

PercentRank(number, count) == IF count <= 1 THEN 0 ELSE (100 * (number - 1)) \div (count - 1)

NthValue(values, n) == IF Len(values) >= n THEN values[n] ELSE Null

SumWindow(values) == IF values = <<>> THEN Null ELSE FoldLeft(+, 0, values)

Ntile(number, total, buckets) ==
  LET per == total \div buckets
      xtra == total % buckets
      thr == xtra * (per + 1)
  IN IF number <= thr THEN (number - 1) \div (per + 1) + 1
     ELSE xtra + (number - (thr + 1)) \div (IF per > 1 THEN per ELSE 1) + 1

Computed == {"sum", "nth_value", "cume_dist", "percent_rank", "ntile"}

Compute(w, doc) ==
  LET temp(i) == doc[Temp(w, i)]
  IN CASE w.func = "sum" -> SumWindow(temp(1))
       [] w.func = "nth_value" -> NthValue(temp(1), w.n)
       [] w.func = "cume_dist" -> CumeDist(temp(1), temp(2), temp(3))
       [] w.func = "percent_rank" -> PercentRank(temp(1), temp(2))
       [] w.func = "ntile" -> Ntile(temp(1), temp(2), w.n)

-----------------------------------------------------------------------------
(* The stages.                                                             *)

\* The positions of a row need an order: a constant for ranks, _id for numbers.
SortOrDefault(w, outputs) ==
  LET ops == {outputs[f].op : f \in DOMAIN outputs}
  IN IF w.order # <<>> THEN SortDocument(w)
     ELSE IF ops \cap {"$rank", "$denseRank"} # {} THEN <<Key(ConstantField, FALSE, FALSE)>>
     ELSE IF "$documentNumber" \in ops THEN <<Key("_id", FALSE, FALSE)>>
     ELSE <<>>

SameGroup(v, w) == v.by = w.by /\ SortDocument(v) = SortDocument(w)

SetWindowFields(group) ==
  LET outputs == FoldLeft(LAMBDA so_far, w : Outputs(w) @@ so_far, <<>>, group)
  IN [do |-> "$setWindowFields", partitionBy |-> group[1].by,
      sortBy |-> SortOrDefault(group[1], outputs), output |-> outputs]

\* The $addFields is appended before the constant is added to its fields: it is sent only
\* if some window places nulls, and otherwise the constant is missing, too.
SortFieldStages(windows) ==
  IF \A k \in DOMAIN windows : PlacedItems(windows[k]) = {} THEN <<>>
  ELSE <<[do |-> "$addFields sort", windows |-> windows]>>

\* _prepare_window_annotations_for_pipeline().
WindowStages(windows) ==
  LET leads == SelectSeq([i \in DOMAIN windows |-> i],
                         LAMBDA i : \A j \in 1..(i - 1) : ~SameGroup(windows[j], windows[i]))
      group(i) == SelectSeq(windows, LAMBDA w : SameGroup(windows[i], w))
  IN IF windows = <<>> THEN <<>>
     ELSE SortFieldStages(windows)
          \o [k \in DOMAIN leads |-> SetWindowFields(group(leads[k]))]
          \o <<[do |-> "$addFields windows",
                windows |-> SelectSeq(windows, LAMBDA w : w.func \in Computed)]>>

-----------------------------------------------------------------------------
(* The server.                                                             *)

\* The values of an accumulator's frame around position p of a sorted partition.
InFrame(out, sorted, keys, p) ==
  LET from(x, v) == out.frame.first = None \/ v - x >= out.frame.first
      to(x, v) == out.frame.last = None \/ v - x <= out.frame.last
      at(q) == IF keys = <<>> THEN 0 ELSE (IF keys[1].descending THEN -1 ELSE 1)
                                             * Get(sorted[q], keys[1].field)
      around(q) == IF out.frame.unit = "documents" THEN from(p, q) /\ to(p, q)
                   ELSE from(at(p), at(q)) /\ to(at(p), at(q))
      some == SelectSeq([q \in DOMAIN sorted |-> q], around)
  IN [i \in DOMAIN some |-> IF out.col = None THEN 1 ELSE Get(sorted[some[i]], out.col)]

Values(values) == SelectSeq(values, LAMBDA v : ~IsNull(v))

WindowValue(out, sorted, keys, p) ==
  LET frame == InFrame(out, sorted, keys, p)
      key(q) == [i \in DOMAIN keys |-> IF keys[i].descending THEN -Get(sorted[q], keys[i].field)
                                       ELSE Get(sorted[q], keys[i].field)]
      before == {q \in DOMAIN sorted : Lexicographic(key(q), key(p))}
      known == Values(frame)
  IN CASE out.op = "$rank" -> Cardinality(before) + 1
       [] out.op = "$denseRank" -> Cardinality({key(q) : q \in before}) + 1
       [] out.op = "$documentNumber" -> p
       [] out.op = "$first" -> IF frame = <<>> THEN Null ELSE Head(frame)
       [] out.op = "$last" -> IF frame = <<>> THEN Null ELSE frame[Len(frame)]
       [] out.op = "$shift" ->
            IF p + out.n \in DOMAIN sorted THEN Get(sorted[p + out.n], out.col) ELSE Null
       [] out.op = "$sum" -> Len(frame)
       [] out.op = "$sum of values" -> Len(known)
       [] out.op = "$avg" ->
            IF known = <<>> THEN Null ELSE (100 * FoldLeft(+, 0, known)) \div Len(known)
       [] out.op = "$push" -> frame
       [] out.op = "$push values" -> known

\* Ranks need exactly one key, positions and frames that end some, and a range one that
\* is a number in each document, which {ind, val} is not.
IsRefused(stage, docs) ==
  LET keys == stage.sortBy
      number(key) == ~key.placed /\ \A d \in ToSet(docs) : ~IsNull(Get(d, key.field))
      refused(out) ==
        \/ out.op \in {"$rank", "$denseRank"} /\ Len(keys) # 1
        \/ out.op \in {"$documentNumber", "$shift"} /\ keys = <<>>
        \/ out.frame # Everything /\ keys = <<>>
        \/ out.frame.unit = "range" /\ ~(Len(keys) = 1 /\ number(keys[1]))
  IN stage.do = "$setWindowFields" /\ \E f \in DOMAIN stage.output : refused(stage.output[f])

RunSetWindowFields(stage, docs) ==
  LET at(d) == Tuple(d, stage.partitionBy)
      key(d) == [i \in DOMAIN stage.sortBy |->
                   IF stage.sortBy[i].descending THEN -Get(d, stage.sortBy[i].field)
                   ELSE Get(d, stage.sortBy[i].field)]
      sorted(d) == SortSeq(SelectSeq(docs, LAMBDA e : at(e) = at(d)),
                           LAMBDA l, r : Lexicographic(key(l), key(r)))
  IN [i \in DOMAIN docs |->
        LET rows == sorted(docs[i])
            p == CHOOSE q \in DOMAIN rows : rows[q] = docs[i]
        IN [f \in DOMAIN stage.output |-> WindowValue(stage.output[f], rows, stage.sortBy, p)]
             @@ docs[i]]

RunWindowStage(stage, docs) ==
  CASE stage.do = "$setWindowFields" -> RunSetWindowFields(stage, docs)
    [] stage.do = "$addFields sort" ->
         [i \in DOMAIN docs |-> AddSortFields(docs[i], stage.windows)]
    [] stage.do = "$addFields windows" ->
         [i \in DOMAIN docs |->
            FoldLeft(LAMBDA d, w : (w.name :> Compute(w, docs[i])) @@ d, docs[i], stage.windows)]

-----------------------------------------------------------------------------
(* What SQL makes of a window.                                             *)

\* Nulls where the query wants them, or before all values, as in MongoDB.
SqlKey(item, v) ==
  CASE v = Null /\ item.nulls = "first" -> -1000
    [] v = Null /\ item.nulls = "last" -> 1000
    [] OTHER -> IF item.desc THEN -v ELSE v

\* The first buckets have a row more than the others.
SqlBucket(number, total, buckets) ==
  LET size(k) == total \div buckets + IF k <= total % buckets THEN 1 ELSE 0
      upTo(k) == FoldLeft(+, 0, [j \in 1..k |-> size(j)])
  IN CHOOSE k \in 1..buckets : upTo(k - 1) < number /\ number <= upTo(k)

SqlUnder(w, l, r) ==
  LET key(row) == [i \in DOMAIN w.order |-> SqlKey(w.order[i], row[w.order[i].col])]
  IN Lexicographic(key(l), key(r))

\* The rows of row's partition, in the window's order.
SqlPartition(w, rows, row) ==
  SortSeq(SelectSeq(rows, LAMBDA r : \A i \in DOMAIN w.by : r[w.by[i]] = row[w.by[i]]),
          LAMBDA l, r : IF w.order = <<>> /\ w.func \in {"row_number", "ntile"}
                        THEN l["_id"] < r["_id"] ELSE SqlUnder(w, l, r))

PositionOf(row, rows) == CHOOSE p \in DOMAIN rows : rows[p] = row

\* The frame's values of the column: of the rows up to row and its peers, if no frame
\* is given.
SqlFrame(w, part, row) ==
  LET number(r) == IF w.frame.unit = "documents" THEN PositionOf(r, part)
                   ELSE (IF w.order[1].desc THEN -1 ELSE 1) * r[w.order[1].col]
      distance(r) == number(r) - number(row)
      framed(r) == IF w.frame = None THEN ~SqlUnder(w, row, r)
                   ELSE LET d == distance(r)
                        IN /\ w.frame.first = None \/ d >= w.frame.first
                           /\ w.frame.last = None \/ d <= w.frame.last
      frame == SelectSeq(part, framed)
  IN [i \in DOMAIN frame |-> frame[i][w.col]]

SqlAccumulated(w, column, known) ==
  CASE w.func = "first_value" -> IF column = <<>> THEN Null ELSE Head(column)
    [] w.func = "last_value" -> IF column = <<>> THEN Null ELSE Last(column)
    [] w.func = "nth_value" -> IF w.n \in DOMAIN column THEN column[w.n] ELSE Null
    [] w.func = "count" -> Len(known)
    [] known = <<>> -> Null
    [] w.func = "sum" -> FoldLeft(+, 0, known)
    [] w.func = "avg" -> (100 * FoldLeft(+, 0, known)) \div Len(known)

SqlPlace(w, part, row) ==
  LET smaller == {p \in DOMAIN part : SqlUnder(w, part[p], row)}
      peers == {p \in DOMAIN part : ~SqlUnder(w, row, part[p])}
      first == {p \in smaller : p = 1 \/ SqlUnder(w, part[p - 1], part[p])}
      here == PositionOf(row, part)
      shifted(p) == IF p \in DOMAIN part THEN part[p][w.col] ELSE Null
  IN CASE w.func = "rank" -> Cardinality(smaller) + 1
       [] w.func = "dense_rank" -> Cardinality(first) + 1
       [] w.func = "row_number" -> here
       [] w.func = "percent_rank" ->
            IF Len(part) = 1 THEN 0 ELSE (100 * Cardinality(smaller)) \div (Len(part) - 1)
       [] w.func = "cume_dist" -> (100 * Cardinality(peers)) \div Len(part)
       [] w.func = "ntile" -> SqlBucket(here, Len(part), w.n)
       [] w.func = "lag" -> shifted(here - w.n)
       [] w.func = "lead" -> shifted(here + w.n)

Places == {"rank", "dense_rank", "row_number", "percent_rank", "cume_dist", "ntile", "lag", "lead"}

SqlOfFrame(w, column) == SqlAccumulated(w, column, Values(column))
SqlOfPartition(w, part, row) ==
  IF w.func \in Places THEN SqlPlace(w, part, row) ELSE SqlOfFrame(w, SqlFrame(w, part, row))

SqlWindow(w, rows, row) == SqlOfPartition(w, SqlPartition(w, rows, row), row)

SqlWindowed(windows, rows) ==
  [i \in DOMAIN rows |->
     FoldLeft(LAMBDA r, w : (w.name :> SqlWindow(w, rows, rows[i])) @@ r, rows[i], windows)]

-----------------------------------------------------------------------------
(* Windows that the code is known to treat in another way.                 *)

\* What the server refuses: ranks over two columns, positions without an order, and
\* ranges and cume_dist() of anything but one column of numbers.
NotSupported(w, rows) ==
  LET isRange == w.func = "cume_dist" \/ (w.frame # None /\ w.frame.unit = "range")
      column == w.order[1]
  IN \/ w.func \in {"rank", "dense_rank"} /\ Len(w.order) > 1
     \/ (w.func \in {"percent_rank", "lag", "lead"} \/ w.frame # None) /\ w.order = <<>>
     \/ isRange /\ \/ Len(w.order) # 1
                   \/ column.nulls # None
                   \/ \E row \in ToSet(rows) : row[column.col] = Null

\* Rows are tied, and the code counts documents, where SQL counts peers
\* (percent_rank(), frames that are not given) or any of them may come first.
TiesMatter(w, rows) ==
  LET tied(l, r) == /\ l # r /\ ~SqlUnder(w, l, r) /\ ~SqlUnder(w, r, l)
                    /\ \A i \in DOMAIN w.by : l[w.by[i]] = r[w.by[i]]
  IN /\ w.func \notin {"rank", "dense_rank", "cume_dist"}
     /\ w.order # <<>> /\ ~SortSubsetOfPartition(w)
     /\ w.frame = None \/ w.frame.unit = "documents"
     /\ \E l, r \in ToSet(rows) : tied(l, r)

UsedColumns(w) == ToSet(w.by) \cup {w.order[i].col : i \in DOMAIN w.order} \cup ({w.col} \ {None})
=============================================================================
