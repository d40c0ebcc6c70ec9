----------------------------- MODULE FieldLookups -----------------------------
(***************************************************************************)
(* Lookups on fields whose values have a structure: ArrayField,            *)
(* EmbeddedModelField, EmbeddedModelArrayField and JSONField, on text, and *)
(* lookups whose right side is a subquery.  Each lookup has two            *)
(* translations.  As a path, {"items.price": 1}, the server looks into     *)
(* arrays by itself; as an expression, the code spells out what is looked  *)
(* into.                                                                   *)
(***************************************************************************)
EXTENDS TextLookups, FiniteSets, TLC

CONSTANTS
  Query,       \* what is filtered by: see Filter
  Value        \* of each kind of field, what its column may hold

VARIABLES
  filter,
  stored,      \* the value of the column in a document
  form,        \* "none", then "stage" or "nested"
  result       \* "T", "F" or "error": whether the document is selected

vars == <<filter, stored, form, result>>

-----------------------------------------------------------------------------
Compares(lookup, a, b) ==
  CASE lookup = "gt" -> a > b [] lookup = "gte" -> a >= b
    [] lookup = "lt" -> a < b [] lookup = "lte" -> a <= b

-----------------------------------------------------------------------------
(* Filters.  The left side is a column with transforms on it.              *)

\* kind: "array", "embedded", "items" (EmbeddedModelArrayField), "json", "text",
\* "number", or "texts", an array of strings.  If constant is false, the right side is
\* a subquery with these rows, or a column with the value arg.
Filter(kind, on, lookup, arg) ==
  [kind |-> kind, on |-> on, lookup |-> lookup, arg |-> arg,
   constant |-> TRUE, rows |-> <<>>]
FilterBySubquery(kind, on, lookup, rows) ==
  [kind |-> kind, on |-> on, lookup |-> lookup, arg |-> Null,
   constant |-> FALSE, rows |-> rows]

FilterByColumn(kind, on, lookup, value) ==
  [kind |-> kind, on |-> on, lookup |-> lookup, arg |-> value,
   constant |-> FALSE, rows |-> <<>>]

Index(n) == [do |-> "index", name |-> ToString(n), n |-> n, to |-> 0]
Slice(a, b) == [do |-> "slice", name |-> "", n |-> a, to |-> b]
Length == [do |-> "len", name |-> "", n |-> 0, to |-> 0]
Field(name) == [do |-> "field", name |-> name, n |-> -1, to |-> 0]
Each(name) == [do |-> "each", name |-> name, n |-> -1, to |-> 0]   \* of the array's items
Key(name) == [do |-> "key", name |-> name, n |-> -1, to |-> 0]
Digit(n) == [do |-> "key", name |-> ToString(n), n |-> n, to |-> 0]
Odd(name) == [do |-> "odd", name |-> name, n |-> -1, to |-> 0]         \* "a.b", "a$"
Dollar(name) == [do |-> "dollar", name |-> name, n |-> -1, to |-> 0]   \* "$a"
Function(name, a, b, text) == [do |-> "function", name |-> name, n |-> a, to |-> b, text |-> text]

IsSimpleColumn(on) == \A i \in DOMAIN on : on[i].do \in {"index", "field", "each", "key"}

IsPattern(f) == f.kind \in {"text", "texts", "number"} /\ f.lookup \in TextLookup

\* _supports_regex_path(): strings and arrays of them; others are cast, in an $expr.
SupportsRegexPath(kind) == kind \in {"text", "texts"}

\* as_mql_path() exists and may be used.
CanUsePath(f) ==
  IsSimpleColumn(f.on) /\ f.constant /\ (IsPattern(f) => SupportsRegexPath(f.kind))
  /\ f.lookup \notin {"contained_by", "exists", "has_key", "has_keys", "has_any_keys"}

OverItems(f) == \E i \in DOMAIN f.on : f.on[i].do = "each"

-----------------------------------------------------------------------------
(* Paths, as $match understands them.                                      *)

\* What a path leads to: through the items of arrays that are documents, and to an
\* item if the name is a number.
RECURSIVE Reach(_, _)
Reach(v, path) ==
  IF path = <<>> THEN {v}
  ELSE LET step == Head(path)  rest == Tail(path)
       IN CASE v.is = "obj" ->
                 IF step.name \in DOMAIN v.fields THEN Reach(v.fields[step.name], rest)
                 ELSE {Missing}
            [] IsArr(v) ->
                 (IF step.n + 1 \in DOMAIN v.items THEN Reach(v.items[step.n + 1], rest) ELSE {})
                 \cup UNION {Reach(d, path) : d \in {e \in Items(v) : e.is = "obj"}}
            [] OTHER -> {Missing}

\* Conditions hold for a value or for an item of it.
Candidates(v, path) ==
  LET ends == Reach(v, path) IN ends \cup UNION {Items(e) : e \in {x \in ends : IsArr(x)}}

Equals(v, path, arg) ==
  \E c \in Candidates(v, path) : c = arg \/ (arg = Null /\ c = Missing)
Exists(v, path) == Reach(v, path) \ {Missing} # {}
Compared(v, path, lookup, arg) ==
  \E c \in Candidates(v, path) : c.is = "num" /\ Compares(lookup, c.n, arg.n)

-----------------------------------------------------------------------------
(* Expressions.                                                            *)

GetField(v, name) ==
  CASE v.is = "obj" -> IF name \in DOMAIN v.fields THEN v.fields[name] ELSE Missing
    [] v = Null -> Null
    [] v = Error -> Error
    [] OTHER -> Missing

ArrayElemAt(v, n) ==
  CASE IsArr(v) -> IF n + 1 \in DOMAIN v.items THEN v.items[n + 1] ELSE Missing
    [] IsNull(v) -> Null
    [] OTHER -> Error

\* $slice: [array, position, n].
ServerSlice(v, position, n) ==
  CASE IsNull(v) -> Null
    [] IsArr(v) /\ n > 0 ->
         Arr(SubSeq(v.items, position + 1,
                    IF position + n > Len(v.items) THEN Len(v.items) ELSE position + n))
    [] OTHER -> Error

\* BSON's order of the types.
Rank(v) ==
  CASE v.is = "missing" -> 0 [] v.is = "null" -> 1 [] v.is = "num" -> 2
    [] v.is = "str" -> 3 [] v.is = "obj" -> 4 [] OTHER -> 5
Less(v, w) == IF v.is = "num" /\ w.is = "num" THEN v.n < w.n ELSE Rank(v) < Rank(w)

-----------------------------------------------------------------------------
(* Left sides.                                                             *)

IndexByDigit(v, t) ==   \* mutant: the value may be no array
  CASE t.do = "dollar" -> Error
    [] t.n >= 0 -> ArrayElemAt(v, t.n)
    [] OTHER -> GetField(v, t.name)

\* build_json_mql_path(): digits index arrays, and name fields of documents.  The key
\* is no $literal: one that begins with "$" is the path of a field of the document, which
\* has none of that name, and $getField needs a string.
JsonStep(v, t) ==
  CASE t.do = "dollar" -> Error
    [] t.n >= 0 /\ IsArr(v) -> ArrayElemAt(v, t.n)
    [] OTHER -> GetField(v, t.name)

LenExpr(v) == IF IsArr(v) THEN Num(Len(v.items)) ELSE Null

\* $map over the items, or [].  A missing field of an item becomes null.
MapItems(v, name) ==
  IF IsNull(v) THEN Arr(<<>>)
  ELSE Arr([i \in DOMAIN v.items |->
              LET x == GetField(v.items[i], name) IN IF x = Missing THEN Null ELSE x])

Transformed(v, t) ==
  CASE v = Error -> Error
    [] t.do = "index" -> ArrayElemAt(v, t.n)
    [] t.do = "slice" -> ServerSlice(v, t.n, t.to)   \* [array, start, end]
    [] t.do = "len" -> LenExpr(v)
    [] t.do = "function" -> TextFunction(t.name, v, t.n, t.to, t.text)
    [] t.do = "field" -> GetField(v, t.name)
    [] t.do = "each" -> MapItems(v, t.name)
    [] t.do \in {"key", "odd", "dollar"} -> JsonStep(v, t)

Lhs(f, v) == FoldLeft(Transformed, v, f.on)

-----------------------------------------------------------------------------
(* Subqueries: a $lookup into "__subqueryN", of which one value is used.   *)

Distinct(values) == Arr(SetToSeq(values))   \* $addToSet

NoDummy(rows) ==   \* mutant: no document is added to an empty result
  IF rows = <<>> THEN Missing ELSE Distinct(ToSet(rows) \ {Missing})

\* get_subquery_wrapping_pipeline(): one document with the set of values.
WrapValues(rows) == Distinct(ToSet(rows) \ {Missing})

\* Those of overlap and of lookups over items: $unwind, then the set.
WrapArrays(rows) ==
  Distinct(UNION {IF IsArr(r) THEN Items(r) ELSE {r} : r \in {x \in ToSet(rows) : ~IsNull(x)}})

\* $set: the first row, or a document without fields.
FirstRow(rows) == IF rows = <<>> THEN Missing ELSE rows[1]

Rhs(f) ==
  IF f.constant \/ IsPattern(f) THEN f.arg
  ELSE CASE f.lookup = "overlap" -> WrapArrays(f.rows)
         [] f.lookup = "in" -> IF OverItems(f) THEN WrapArrays(f.rows) ELSE WrapValues(f.rows)
         [] OTHER -> FirstRow(f.rows)

-----------------------------------------------------------------------------
(* Lookups as paths.                                                       *)

IsNullPath(v, path, want) ==
  IF want THEN ~Exists(v, path) \/ Equals(v, path, Null)
  ELSE Exists(v, path) /\ ~Equals(v, path, Null)

\* key_transform_exact_path(), for the value of a key.
KeyExactPath(v, path, arg) == Equals(v, path, arg) /\ Exists(v, path)

PathHolds(f, v) ==
  LET p == f.on
  IN CASE IsPattern(f) -> PatternPath(f.lookup, Candidates(v, p), f.arg)
       [] f.lookup = "exact" -> IF f.kind = "json" /\ p # <<>> THEN KeyExactPath(v, p, f.arg)
                                ELSE Equals(v, p, f.arg)
       [] f.lookup \in {"gt", "gte"} -> Compared(v, p, f.lookup, f.arg)
       [] f.lookup \in {"lt", "lte"} -> Compared(v, p, f.lookup, f.arg) /\ IsNullPath(v, p, FALSE)
       [] f.lookup = "isnull" -> IF f.kind = "json" /\ p # <<>> THEN Exists(v, p) # f.arg.b
                                 ELSE IsNullPath(v, p, f.arg.b)
       [] f.lookup \in {"in", "overlap"} -> \E a \in Items(f.arg) : Equals(v, p, a)
       [] f.lookup = "contains" -> f.arg.items # <<>> /\ \A a \in Items(f.arg) : Equals(v, p, a)

-----------------------------------------------------------------------------
(* Lookups as expressions.                                                 *)

\* mongo_expr_operators.
Operator(lookup, x, arg) ==
  CASE lookup = "exact" -> x = arg
    [] lookup = "gt" -> Less(arg, x)
    [] lookup = "gte" -> ~Less(x, arg)
    [] lookup = "lt" -> Less(x, arg) /\ ~IsNull(x)
    [] lookup = "lte" -> ~Less(arg, x) /\ ~IsNull(x)
    [] lookup = "isnull" -> IsNull(x) = arg.b
    [] lookup = "in" -> x \in Items(arg)

\* _has_key_predicate(): the key is not missing, and the root is not null.
HasKeyExpr(root, x) == x # Missing /\ root # Null

\* The keys of the right side become transforms on the left one.
KeysOf(f) == {Append(f.on, Key(k.s)) : k \in Items(f.arg)}
HasKeys(f, v) ==
  LET has == {HasKeyExpr(Lhs(f, v), FoldLeft(Transformed, v, k)) : k \in KeysOf(f)}
  IN IF f.lookup = "has_any_keys" THEN TRUE \in has ELSE FALSE \notin has

JsonExpr(f, v, x, arg) ==
  CASE f.lookup = "isnull" -> HasKeyExpr(v, x) # arg.b
    [] f.lookup = "in" -> HasKeyExpr(v, x) /\ Operator("in", x, arg)
    [] f.lookup \in {"gt", "gte", "lt", "lte"} -> Operator(f.lookup, x, arg) /\ ~IsNull(x)
    [] f.lookup = "exact" -> Operator("exact", x, arg)

\* The sets of ArrayField's lookups.
ArrayExpr(lookup, x, arg) ==
  CASE x = Null \/ arg = Null -> "F"
    [] ~IsArr(x) \/ ~IsArr(arg) -> "error"
    [] lookup = "contains" -> Truth(Items(arg) \subseteq Items(x))
    [] lookup = "contained_by" -> Truth(Items(x) \subseteq Items(arg))
    [] lookup = "overlap" -> Truth(Items(x) \cap Items(arg) # {})

ExprHolds(f, v) ==
  LET x == Lhs(f, v)
      arg == Rhs(f)
  IN CASE x = Error -> "error"
       [] IsPattern(f) -> PatternExpr(f.lookup, f.kind = "text", x, arg, f.constant)
       [] f.lookup = "exists" -> Truth(f.rows # <<>>)
       [] f.lookup \in {"contains", "contained_by", "overlap"} -> ArrayExpr(f.lookup, x, arg)
       [] f.lookup = "in" /\ ~IsArr(arg) -> "error"
       [] f.lookup \in {"has_key", "has_keys", "has_any_keys"} -> Truth(HasKeys(f, v))
       [] OverItems(f) -> Truth(\E e \in Items(x) : Operator(f.lookup, e, arg))
       [] f.kind = "json" /\ f.on # <<>> -> Truth(JsonExpr(f, v, x, arg))
       [] OTHER -> Truth(Operator(f.lookup, x, arg))

-----------------------------------------------------------------------------

Init ==
  /\ filter \in Query
  /\ stored \in Value[filter.kind]
  /\ form = "none"
  /\ result = "none"

\* filter(): the lookup in a $match stage, as a path if that is possible.
MatchStage ==
  /\ form = "none"
  /\ form' = "stage"
  /\ result' = IF CanUsePath(filter) THEN Truth(PathHolds(filter, stored))
               ELSE ExprHolds(filter, stored)
  /\ UNCHANGED <<filter, stored>>

\* The lookup within an expression, such as the condition of a Case().
Nested ==
  /\ form = "none"
  /\ form' = "nested"
  /\ result' = ExprHolds(filter, stored)
  /\ UNCHANGED <<filter, stored>>

Next == MatchStage \/ Nested

Spec == Init /\ [][Next]_vars

-----------------------------------------------------------------------------
(* What the lookups mean: for Python's values, with None for an absent one. *)

None == Missing

PyStep(v, t) ==
  CASE t.do = "function" -> LET x == SqlOnText(t.name, v, t.n, t.to, t.text)
                            IN IF x = Null THEN None ELSE x
    [] v = None -> IF t.do = "each" THEN Arr(<<>>) ELSE None
    [] t.do = "len" -> Num(Len(v.items))
    [] t.do = "slice" ->
         Arr(SubSeq(v.items, t.n + 1, IF t.to > Len(v.items) THEN Len(v.items) ELSE t.to))
    [] t.do = "each" ->
         Arr([i \in DOMAIN v.items |-> IF t.name \in DOMAIN v.items[i].fields
                                       THEN v.items[i].fields[t.name] ELSE Null])
    [] t.do = "index" -> IF t.n + 1 \in DOMAIN v.items THEN v.items[t.n + 1] ELSE None
    [] v.is = "arr" -> IF t.n + 1 \in DOMAIN v.items THEN v.items[t.n + 1] ELSE None
    [] v.is = "obj" -> IF t.name \in DOMAIN v.fields THEN v.fields[t.name] ELSE None
    [] OTHER -> None

\* A key of a JSONField may be null, other fields are None then.
Py(f, v) ==
  LET step(w, t) == LET x == PyStep(IF f.kind # "json" /\ w = Null THEN None ELSE w, t)
                    IN IF f.kind # "json" /\ x = Null THEN None ELSE x
      root == IF v = Null THEN None ELSE v
  IN FoldLeft(step, root, f.on)

RowsWithValue(f) == {r \in ToSet(f.rows) : ~IsNull(r)}

PyArg(f) ==
  IF f.constant \/ IsPattern(f) THEN f.arg
  ELSE CASE f.lookup = "in" /\ ~OverItems(f) -> Arr(SetToSeq(RowsWithValue(f)))
         [] f.lookup \in {"in", "overlap"} -> Arr(SetToSeq(UNION {Items(r) : r \in RowsWithValue(f)}))
         [] OTHER -> IF f.rows = <<>> \/ f.rows[1] = Null THEN None ELSE f.rows[1]

\* Strings of numbers are their digits; a string of an array may be any of its items.
PatternMeant(f, x, arg) ==
  LET strings == CASE x.is = "text" -> {x.s}
                   [] x.is = "num" -> {Digits(x.n)}
                   [] IsArr(x) -> {e.s : e \in Items(x)}
                   [] OTHER -> {}
  IN arg.is = "text" /\ \E s \in strings : TextMeant(f.lookup, s, arg.s)

Meant(f, v) ==
  LET x == Py(f, v)
      arg == PyArg(f)
      one(y) == CASE f.lookup = "exact" -> y = arg
                  [] f.lookup = "in" -> y \in Items(arg)
                  [] f.lookup = "isnull" -> (y = None) = arg.b
                  [] OTHER -> y.is = "num" /\ arg.is = "num" /\ Compares(f.lookup, y.n, arg.n)
      has == {Py([f EXCEPT !.on = k], v) # None : k \in KeysOf(f)}
  IN CASE IsPattern(f) -> PatternMeant(f, x, arg)
       [] f.lookup = "exists" -> f.rows # <<>>
       [] f.lookup \in {"has_key", "has_keys"} -> FALSE \notin has
       [] f.lookup = "has_any_keys" -> TRUE \in has
       [] arg = None \/ (x = None /\ f.lookup # "isnull") -> FALSE
       [] f.lookup = "contains" -> Items(arg) \subseteq Items(x)
       [] f.lookup = "contained_by" -> Items(x) \subseteq Items(arg)
       [] f.lookup = "overlap" -> Items(x) \cap Items(arg) # {}
       [] OverItems(f) -> \E e \in Items(x) : e # Null /\ one(e)
       [] OTHER -> one(x)

-----------------------------------------------------------------------------
(* Where the translations are known to mean something else.                *)

\* $slice takes a position and a number of items, not a start and an end.
CountedSlice(f) == \E i \in DOMAIN f.on : f.on[i].do = "slice" /\ (f.on[i].n > 0 \/ f.on[i].to = 0)

\* {$all: []} matches nothing.
AllOfNothing(f) == f.lookup = "contains" /\ CanUsePath(f) /\ f.arg = Arr(<<>>)

\* {$ne: null} holds for an array only if it does for every item.
NullItem(f, v) ==
  f.lookup \in {"lt", "lte"} /\ OverItems(f) /\ CanUsePath(f) /\ Null \in Items(Lhs(f, v))

\* A subquery without a value: missing or null is compared like a value, and is no array.
NoValue(f) ==
  ~f.constant /\ f.lookup \notin {"exists", "in", "overlap"} /\ IsNull(FirstRow(f.rows))
NullRow(f, v) == ~f.constant /\ f.lookup = "in" /\ Null \in ToSet(f.rows) /\ Lhs(f, v) = Null

IsOnText(f) == f.kind \in {"text", "texts", "number"}

\* The property of the lookups of fields with items: a lookup selects the documents
\* that it selects in Python, in a $match stage and within an expression.
ArrayLookupsMatchPython ==
  form # "none" /\ filter.kind # "json" /\ ~IsOnText(filter) =>
    \/ result = Truth(Meant(filter, stored))
    \/ CountedSlice(filter)
    \/ form = "stage" /\ (AllOfNothing(filter) \/ NullItem(filter, stored))
    \/ NoValue(filter) \/ NullRow(filter, stored)

\* The values on the way of a JSON path.
OnTheWay(f, v) == {Py([f EXCEPT !.on = SubSeq(@, 1, i)], v) : i \in 0..Len(f.on)}

\* An array on the way or at the end of a path: the server looks into it, too.
MeetsArray(f, v) == \E w \in OnTheWay(f, v) : IsArr(w)
\* $getField of null is null, as if the key existed.
MeetsNull(f, v) == v = Null \/ \E i \in 0..(Len(f.on) - 1) : Py([f EXCEPT !.on = SubSeq(@, 1, i)], v) = Null
\* Expressions compare values of different types.
OtherType(f, v) == f.lookup \in {"gt", "gte", "lt", "lte"} /\ Lhs(f, v).is # "num"

\* A key that begins with "$" is refused by the server.
NoLiteral(f) == \E i \in DOMAIN f.on : f.on[i].do = "dollar"

\* A lookup of a JSONField selects the documents whose key exists and has a value that
\* satisfies it.
JsonLookupsMatchPython ==
  form # "none" /\ filter.kind = "json" =>
    \/ result = Truth(Meant(filter, stored))
    \/ form = "stage" /\ CanUsePath(filter) /\ MeetsArray(filter, stored)
    \/ ~(form = "stage" /\ CanUsePath(filter)) /\
       (MeetsNull(filter, stored) \/ OtherType(filter, stored))
    \/ NoLiteral(filter) /\ result = "error"

\* The text, or an item, of the document.
Texts(v) == CASE v.is = "text" -> {v.s} [] IsArr(v) -> {e.s : e \in Items(v)} [] OTHER -> {}

\* "$" matches before a last newline, too.
NewlineAtEnd(f, v) ==
  f.lookup \in ToEnd /\ \E s \in Texts(v) : s # <<>> /\ Last(s) = "\n"

\* A right side of iexact is escaped for LIKE, or not at all; a "{" of a column becomes
\* "\}".
NotEscaped(f) ==
  LET special(S) == f.arg.is = "text" /\ ToSet(f.arg.s) \cap S # {}
  IN IF f.lookup = "iexact" THEN special(IF f.constant THEN Special \ {"\\"} ELSE Special)
     ELSE ~f.constant /\ special({"{"})

\* $toString of an array.
ArrayToString(f, v) == f.kind = "texts" /\ form = "nested" /\ IsArr(v)

\* A lookup of a string, an array of strings or a number by a part of it selects the
\* documents with the part, whatever characters it has.
TextLookupsMatchPython ==
  form # "none" /\ IsPattern(filter) =>
    \/ result = Truth(Meant(filter, stored))
    \/ NewlineAtEnd(filter, stored) \/ NotEscaped(filter) \/ ArrayToString(filter, stored)

\* Functions of no string.
OnNoText(f, v) ==
  LET names == {f.on[i].name : i \in DOMAIN f.on}
  IN \/ IsNull(v) /\ names \cap EmptyOfNull # {}
     \/ v = Missing /\ names \cap NotOfMissing # {}

\* Functions of text return what SQL's do, at the ends of strings and beyond them.
TextFunctionsMatchSQL ==
  form # "none" /\ IsOnText(filter) /\ ~IsPattern(filter) =>
    \/ result = Truth(Meant(filter, stored))
    \/ OnNoText(filter, stored)
=============================================================================
