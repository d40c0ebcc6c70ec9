----------------------------- MODULE TextLookups -----------------------------
(***************************************************************************)
(* Lookups that become regular expressions (contains, startswith, endswith,*)
(* iexact and their variants), and functions on text.  Strings are         *)
(* sequences of characters.                                                *)
(***************************************************************************)
EXTENDS BsonValues, FiniteSets, TLC

TextLookup == {"contains", "startswith", "endswith",
               "icontains", "istartswith", "iendswith", "iexact"}
Insensitive == {"icontains", "istartswith", "iendswith", "iexact"}
FromStart == {"startswith", "istartswith", "iexact"}
ToEnd == {"endswith", "iendswith", "iexact"}

LowerCase == [c \in {"A", "B"} |-> IF c = "A" THEN "a" ELSE "b"]
LowerChar(c) == IF c \in DOMAIN LowerCase THEN LowerCase[c] ELSE c
UpperChar(c) == IF \E u \in DOMAIN LowerCase : LowerCase[u] = c
                THEN CHOOSE u \in DOMAIN LowerCase : LowerCase[u] = c ELSE c
Lower(s) == [i \in DOMAIN s |-> LowerChar(s[i])]
Upper(s) == [i \in DOMAIN s |-> UpperChar(s[i])]

-----------------------------------------------------------------------------
(* Regular expressions of the server (PCRE), without quantifiers.          *)

AnyChar == <<"any">>
IsOpen(tokens) == tokens # <<>> /\ Last(tokens) = <<"escape">>

\* The tokens of a pattern: characters, and AnyChar; an escape that waits for its
\* character is the last one.
Tokens(pattern) ==
  LET read(tokens, c) ==
        CASE IsOpen(tokens) -> Append(Front(tokens), <<"char", c>>)
          [] c = "\\" -> Append(tokens, <<"escape">>)
          [] c = "." -> Append(tokens, AnyChar)
          [] OTHER -> Append(tokens, <<"char", c>>)
  IN FoldLeft(read, <<>>, pattern)

Regex(pattern, lookup) ==
  [tokens |-> Tokens(pattern), start |-> lookup \in FromStart, end |-> lookup \in ToEnd,
   insensitive |-> lookup \in Insensitive]

Fits(token, c, insensitive) ==
  IF token = AnyChar THEN c # "\n"
  ELSE token[2] = c \/ (insensitive /\ LowerChar(token[2]) = LowerChar(c))

\* "$" also matches before a newline that ends the string.
IsEnd(s, i) == i = Len(s) \/ (i = Len(s) - 1 /\ s[Len(s)] = "\n")

RegexMatch(s, regex) ==
  \E i \in 0..(Len(s) - Len(regex.tokens)) :
    /\ regex.start => i = 0
    /\ regex.end => IsEnd(s, i + Len(regex.tokens))
    /\ \A j \in DOMAIN regex.tokens : Fits(regex.tokens[j], s[i + j], regex.insensitive)

-----------------------------------------------------------------------------
(* Patterns.                                                               *)

Special == {"\\", ".", "{", "}", "\n", " "}

\* prep_for_like_query(): re.escape().
Escape(s) ==
  FoldLeft(LAMBDA out, c : IF c \in Special THEN out \o <<"\\", c>> ELSE Append(out, c), <<>>, s)

\* Django's prep_for_iexact_query, which is that of its base class: made for LIKE.
EscapeLike(s) ==
  FoldLeft(LAMBDA out, c : IF c = "\\" THEN out \o <<"\\", c>> ELSE Append(out, c), <<>>, s)

ReplaceChar(s, find, replacement) ==
  FoldLeft(LAMBDA out, c : IF c = find THEN out \o replacement ELSE Append(out, c), <<>>, s)

BackslashLast ==   \* mutant: escapes escapes
  <<<<".", <<"\\", ".">>>>, <<"{", <<"\\", "}">>>>, <<"\\", <<"\\", "\\">>>>>>

\* In this order, and "{" becomes "\}".
EscapeChars == <<<<"\\", <<"\\", "\\">>>>, <<".", <<"\\", ".">>>>, <<"{", <<"\\", "}">>>>>>

\* The pattern of a constant, and of a column on the right side.
ConstantPattern(lookup, s) == IF lookup = "iexact" THEN EscapeLike(s) ELSE Escape(s)
ColumnPattern(lookup, s) ==
  IF lookup = "iexact" THEN s
  ELSE FoldLeft(LAMBDA out, e : ReplaceChar(out, e[1], e[2]), s, EscapeChars)

Digits(n) == IF n < 10 THEN <<ToString(n)>> ELSE <<ToString(n \div 10), ToString(n % 10)>>

ServerToString(v) ==
  CASE IsNull(v) -> Null [] v.is = "text" -> v [] v.is = "num" -> Text(Digits(v.n))
    [] OTHER -> Error

\* pattern_lookup_expr() and regex_expr(): $regexMatch, with $toString if the field is
\* not a string.
PatternExpr(lookup, isString, x, arg, constant) ==
  LET lhs == IF isString THEN x ELSE ServerToString(x)
      pattern == IF constant THEN ConstantPattern(lookup, arg.s) ELSE ColumnPattern(lookup, arg.s)
      regex == Regex(pattern, lookup)
  IN CASE lhs = Error \/ arg = Error -> "error"
       [] IsNull(arg) -> "F"
       [] IsOpen(regex.tokens) -> "error"
       [] OTHER -> Truth(~IsNull(lhs) /\ RegexMatch(lhs.s, regex))

\* pattern_lookup_path() and regex_path(): {"$regex": ...}, of a string or of the items
\* of an array.
PatternPath(lookup, candidates, arg) ==
  LET regex == Regex(ConstantPattern(lookup, arg.s), lookup)
  IN \E c \in candidates : c.is = "text" /\ RegexMatch(c.s, regex)

-----------------------------------------------------------------------------
(* Functions on text (functions/text.py), as the operators they become.    *)

SubstrCP(v, position, n) ==
  CASE IsNull(v) -> Text(<<>>)
    [] v.is # "text" \/ position < 0 \/ n < 0 -> Error
    [] OTHER -> Text(SubSeq(v.s, position + 1,
                            IF position + n > Len(v.s) THEN Len(v.s) ELSE position + n))

StrLenCP(v) == IF v.is = "text" THEN Num(Len(v.s)) ELSE Error

ConcatStr(a, b) == IF IsNull(a) \/ IsNull(b) THEN Null ELSE Text(a.s \o b.s)
IfNull(v, other) == IF IsNull(v) THEN other ELSE v

RepeatStr(v, n) == FoldLeft(ConcatStr, Text(<<>>), [i \in 1..n |-> v])

\* left(), by get_substr().
LeftExpr(v, n) == SubstrCP(v, 0, n)

\* substr(): to the end without n, and positions count from one.
SubstrExpr(v, position, n) == SubstrCP(v, position - 1, n)
SubstrToEnd(v, position) ==
  IF StrLenCP(v) = Error THEN Error ELSE SubstrCP(v, position - 1, StrLenCP(v).n)

RightUnbounded(v, n) ==   \* mutant: without $max
  IF StrLenCP(v) = Error THEN Error ELSE SubstrCP(v, StrLenCP(v).n - n, n)

RightExpr(v, n) ==
  IF StrLenCP(v) = Error THEN Error
  ELSE SubstrCP(v, IF StrLenCP(v).n - n > 0 THEN StrLenCP(v).n - n ELSE 0, n)

LengthExpr(v) == IF v = Null THEN Null ELSE StrLenCP(v)

\* preserve_null(): $toLower and $toUpper of null are "".
PreserveNull(v, f) == IF IsNull(v) THEN Null ELSE Text(f)

PadExpr(v, n, fill, isLeft) ==
  LET strLen == Len(IfNull(v, Text(<<>>)).s)
      needed == n - strLen
      per == IF fill = <<>> THEN 1 ELSE Len(fill)
      padding == SubstrCP(RepeatStr(Text(fill), (needed + per - 1) \div per), 0, needed)
  IN CASE v = Null -> Null
       [] strLen >= n -> SubstrCP(v, 0, n)
       [] OTHER -> IF isLeft THEN ConcatStr(padding, v) ELSE ConcatStr(v, padding)

RepeatExpr(v, n) == IF v = Null THEN Null ELSE RepeatStr(v, n)

ReverseExpr(v) ==
  CASE v = Null -> Null [] StrLenCP(v) = Error -> Error [] OTHER -> Text(Reverse(v.s))

\* concat_pair(): coalesced, as one null would make the result null.
ConcatPairExpr(v, s) == ConcatStr(IfNull(v, Text(<<>>)), Text(s))

IndexOfCP(v, s) ==
  LET at == {i \in 0..(Len(v.s) - Len(s)) : SubSeq(v.s, i + 1, i + Len(s)) = s}
  IN IF at = {} THEN -1 ELSE CHOOSE i \in at : \A j \in at : i <= j

\* str_index(): 0 if there is none.
StrIndexExpr(v, s) == IF IsNull(v) THEN Null ELSE Num(IndexOfCP(v, s) + 1)

\* A function with two numbers and a text, those that it takes.
TextFunction(name, v, a, b, s) ==
  CASE name = "left" -> LeftExpr(v, a)
    [] name = "right" -> RightExpr(v, a)
    [] name = "substr" -> SubstrExpr(v, a, b)
    [] name = "substr_to_end" -> SubstrToEnd(v, a)
    [] name = "length" -> LengthExpr(v)
    [] name = "lower" -> PreserveNull(v, IF IsNull(v) THEN <<>> ELSE Lower(v.s))
    [] name = "upper" -> PreserveNull(v, IF IsNull(v) THEN <<>> ELSE Upper(v.s))
    [] name = "lpad" -> PadExpr(v, a, s, TRUE)
    [] name = "rpad" -> PadExpr(v, a, s, FALSE)
    [] name = "repeat" -> RepeatExpr(v, a)
    [] name = "reverse" -> ReverseExpr(v)
    [] name = "concat" -> ConcatPairExpr(v, s)
    [] name = "str_index" -> StrIndexExpr(v, s)

-----------------------------------------------------------------------------
(* What the lookups and functions mean.                                    *)

Occurs(s, t, i) == i >= 0 /\ i + Len(t) <= Len(s) /\ SubSeq(s, i + 1, i + Len(t)) = t

TextMeant(lookup, s, t) ==
  LET x == IF lookup \in Insensitive THEN Lower(s) ELSE s
      y == IF lookup \in Insensitive THEN Lower(t) ELSE t
  IN \E i \in 0..Len(x) : /\ Occurs(x, y, i)
                          /\ lookup \in FromStart => i = 0
                          /\ lookup \in ToEnd => i + Len(y) = Len(x)

Padded(s, n, fill, isLeft) ==
  LET filled(i) == fill[((i - 1) % Len(fill)) + 1]
      more == n - Len(s)
  IN CASE more <= 0 -> SubSeq(s, 1, n)
       [] fill = <<>> -> s
       [] OTHER -> [i \in 1..n |-> IF isLeft
                                   THEN IF i <= more THEN filled(i) ELSE s[i - more]
                                   ELSE IF i <= Len(s) THEN s[i] ELSE filled(i - Len(s))]

\* SQL's functions, of a string that is not null.
SqlFunction(name, s, a, b, t) ==
  LET from(i, j) == Text([k \in 1..Cardinality({x \in DOMAIN s : i <= x /\ x <= j})
                            |-> s[k + (IF i < 1 THEN 0 ELSE i - 1)]])
  IN CASE name = "left" -> from(1, a)
       [] name = "right" -> from(Len(s) - a + 1, Len(s))
       [] name = "substr" -> from(a, a + b - 1)
       [] name = "substr_to_end" -> from(a, Len(s))
       [] name = "length" -> Num(Len(s))
       [] name = "lower" -> Text(Lower(s))
       [] name = "upper" -> Text(Upper(s))
       [] name = "lpad" -> Text(Padded(s, a, t, TRUE))
       [] name = "rpad" -> Text(Padded(s, a, t, FALSE))
       [] name = "repeat" -> Text([i \in 1..(a * Len(s)) |-> s[((i - 1) % Len(s)) + 1]])
       [] name = "reverse" -> Text([i \in DOMAIN s |-> s[Len(s) + 1 - i]])
       [] name = "concat" -> Text(s \o t)
       [] name = "str_index" ->
            Num(CHOOSE k \in 0..(Len(s) + 1) :
                  /\ k = 0 <=> \A i \in 0..Len(s) : ~Occurs(s, t, i)
                  /\ k > 0 => Occurs(s, t, k - 1) /\ \A i \in 0..(k - 2) : ~Occurs(s, t, i))

\* Null, except for concatenation, which is that of Django.
SqlOnText(name, v, a, b, t) ==
  CASE v.is = "text" -> SqlFunction(name, v.s, a, b, t)
    [] name = "concat" -> Text(t)
    [] OTHER -> Null

\* The functions that make "" of null, or fail with it, and those that fail with, or
\* make something of, a missing value only.
EmptyOfNull == {"left", "right", "substr", "substr_to_end"}
NotOfMissing == {"length", "lpad", "rpad", "repeat", "reverse"}
=============================================================================
