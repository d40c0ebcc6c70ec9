---------------------------- MODULE MCFieldLookups ----------------------------
(* Lookups on small arrays, embedded documents and JSON values.            *)
EXTENDS FieldLookups

Yes == [is |-> "bool", b |-> TRUE]
No == [is |-> "bool", b |-> FALSE]
Ints(s) == Arr([i \in DOMAIN s |-> Num(s[i])])
Keys(s) == Arr([i \in DOMAIN s |-> Str(s[i])])

Order == {"gt", "gte", "lt", "lte"}
Scalar(kind, on) ==
  {Filter(kind, on, lookup, Num(2)) : lookup \in Order \cup {"exact"}}
  \cup {Filter(kind, on, "in", Ints(<<1, 3>>))}
Nullness(kind, on) == {Filter(kind, on, "isnull", b) : b \in {Yes, No}}

OneColumn == {<<>>, <<Null>>, <<Num(2)>>, <<Num(1), Null>>, <<Num(3), Num(1)>>}
ArrayRows == {<<>>, <<Null>>, <<Ints(<<>>)>>, <<Ints(<<1>>), Null>>, <<Ints(<<3>>), Ints(<<1, 2>>)>>}

OfArrays(kind, on) ==
  {Filter(kind, on, lookup, arg) :
     lookup \in {"exact", "contains", "contained_by", "overlap"},
     arg \in {Ints(<<>>), Ints(<<1>>), Ints(<<1, 2>>)}}
  \cup {Filter(kind, on, "in", Arr(<<Ints(<<2>>), Ints(<<1, 2>>)>>))}

ArrayQuery ==
  OfArrays("array", <<>>) \cup Nullness("array", <<>>)
  \cup UNION {OfArrays("array", <<Slice(a, b)>>) : a \in {0, 1}, b \in {0, 1, 2}}
  \cup UNION {Scalar("array", <<t>>) : t \in {Index(0), Index(1), Length}}
  \cup UNION {Nullness("array", <<Index(i)>>) : i \in {0, 1}}
  \cup {FilterBySubquery("array", <<>>, lookup, rows) :
           lookup \in {"contains", "contained_by", "overlap", "exists"}, rows \in ArrayRows}
  \cup {FilterBySubquery("array", <<Index(0)>>, lookup, rows) :
           lookup \in Order \cup {"exact", "in"}, rows \in OneColumn}

EmbeddedQuery ==
  Scalar("embedded", <<Field("n")>>) \cup Nullness("embedded", <<Field("n")>>)
  \cup OfArrays("embedded", <<Field("tags")>>)
  \cup Scalar("embedded", <<Field("tags"), Index(1)>>)
  \cup Scalar("embedded", <<Field("tags"), Length>>)
  \cup {FilterBySubquery("embedded", <<Field("n")>>, "in", rows) : rows \in OneColumn}

ItemsQuery ==
  Scalar("items", <<Each("n")>>) \cup Scalar("items", <<Length>>)
  \cup UNION {Scalar("items", <<Slice(0, b), Each("n")>>) : b \in {1, 2}}
  \cup {Filter("items", <<Index(i), Field("n")>>, lookup, Num(2)) :
           i \in {0, 1}, lookup \in {"exact", "gt", "gte"}}
  \cup {FilterBySubquery("items", <<Each("n")>>, "in", rows) : rows \in ArrayRows}

JsonPaths == {<<Key("a")>>, <<Key("a"), Key("b")>>, <<Key("a"), Digit(1)>>, <<Digit(0)>>,
              <<Odd("a.b")>>, <<Key("a"), Odd("a$")>>, <<Dollar("$a")>>, <<Key("a"), Dollar("$a")>>}
JsonQuery ==
  UNION {Scalar("json", on) \cup Nullness("json", on)
         \cup {Filter("json", on, "exact", arg) : arg \in {Null, Str("x")}} : on \in JsonPaths}
  \cup {Filter("json", on, lookup, Keys(<<"a", "b">>)) :
           on \in {<<>>, <<Key("a")>>}, lookup \in {"has_keys", "has_any_keys"}}
  \cup {Filter("json", on, "has_key", Keys(<<"b">>)) : on \in {<<>>, <<Key("a")>>}}

Seqs(chars, n) == UNION {[1..k -> chars] : k \in 0..n}

\* Characters with a meaning in patterns, and letters of both cases.
PatternChars == {"a", ".", "{", "}", "\\"}
Parts == {Text(s) : s \in Seqs(PatternChars, 2) \cup Seqs({"a", "A", "B"}, 2)}
TextQuery ==
  {Filter("text", <<>>, lookup, arg) : lookup \in TextLookup, arg \in Parts}
  \cup {FilterByColumn("text", <<>>, lookup, arg) :
           lookup \in TextLookup, arg \in Parts \cup {Null}}
  \cup {Filter("texts", <<>>, lookup, Text(s)) :
           lookup \in TextLookup \ {"contains"}, s \in Seqs({"a", "."}, 1)}
  \cup {Filter("number", <<>>, lookup, Text(s)) :
           lookup \in TextLookup, s \in {<<>>, <<"1">>, <<"1", "2">>, <<".">>}}

Functions ==
  {Function(name, n, 0, <<>>) : name \in {"left", "right", "repeat", "substr_to_end"}, n \in 1..3}
  \cup {Function("repeat", 0, 0, <<>>)}
  \cup {Function("substr", p, n, <<>>) : p \in 1..3, n \in 0..2}
  \cup {Function(name, n, 0, s) : name \in {"lpad", "rpad"}, n \in 0..5, s \in Seqs({"a", "b"}, 2)}
  \cup {Function(name, 0, 0, s) : name \in {"concat", "str_index"}, s \in Seqs({"a", "b"}, 2)}
  \cup {Function(name, 0, 0, <<>>) : name \in {"length", "lower", "upper", "reverse"}}
Results ==
  {Text(s) : s \in Seqs({"a", "b"}, 2)} \cup {Num(n) : n \in 0..3}
Composed ==
  {<<Function("left", 2, 0, <<>>), Function("upper", 0, 0, <<>>)>>,
   <<Function("concat", 0, 0, <<"a">>), Function("length", 0, 0, <<>>)>>,
   <<Function("substr", 2, 2, <<>>), Function("reverse", 0, 0, <<>>)>>,
   <<Function("rpad", 3, 0, <<"b">>), Function("right", 2, 0, <<>>)>>}
FunctionQuery ==
  {Filter("text", on, "exact", x) : on \in Composed, x \in Results \cup {Text(<<"A", "B">>)}} \cup
  {Filter("text", <<t>>, "exact", x) : t \in Functions, x \in Results}
  \cup {Filter("text", <<t>>, "isnull", b) : t \in Functions, b \in {Yes, No}}

MCQuery ==
  ArrayQuery \cup EmbeddedQuery \cup ItemsQuery \cup JsonQuery \cup TextQuery \cup FunctionQuery

Arrays == {Ints(<<>>), Ints(<<1>>), Ints(<<2>>), Ints(<<1, 2>>), Ints(<<2, 1>>), Ints(<<3, 1, 2>>)}
Objects == {Obj([n |-> n]) : n \in {Null, Num(1), Num(2)}}
Leaves == {Null, Num(1), Num(2), Str("x"), Ints(<<1, 2>>)}

Strings ==
  Seqs(PatternChars, 2) \cup Seqs({"a", "A", "b", "."}, 2) \cup Seqs({"a", "b"}, 3)
  \cup {<<"a", "\n">>, <<"\n">>}

MCValue ==
  [array |-> Arrays \cup {Null},
   embedded |-> {Null} \cup
     {Obj([n |-> n, tags |-> tags]) : n \in {Null, Num(1), Num(2)}, tags \in {Null, Ints(<<2, 1>>)}},
   items |-> {Null} \cup {Arr(s) : s \in UNION {[1..k -> Objects] : k \in 0..3}},
   json |-> Leaves
     \cup {Obj([a |-> x]) : x \in Leaves \cup {Obj([b |-> y]) : y \in Leaves}
                              \cup {Arr(<<Num(1), Obj([b |-> Num(2)])>>)}}
     \cup {Obj([a |-> Num(1), b |-> Null])} \cup UNION {{Obj(name :> x), Obj([a |-> Obj(name :> x)])} :
                      name \in {"$a", "a$", "a.b"}, x \in Leaves}
     \cup {Obj("0" :> Num(2)), Arr(<<Obj([a |-> Num(2)]), Num(1)>>)},
   text |-> {Text(s) : s \in Strings} \cup {Null, Missing},
   texts |-> {Null} \cup {Arr([i \in DOMAIN s |-> Text(s[i])]) : s \in Seqs({<<>>, <<"a">>, <<".", "a">>}, 2)},
   number |-> {Null} \cup {Num(n) : n \in {0, 1, 12, 21}}]
=============================================================================
