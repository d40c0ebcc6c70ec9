--------------------------- MODULE MCSearchPipeline ---------------------------
(* Instances of SearchPipeline for TLC.                                    *)
EXTENDS SearchPipeline

MCField == {"a", "b"}
MCMissing == -2
MCDocument == {d \in [MCField -> {MCMissing, -1, 0, 1}] : d["b"] # -1}

IndexOf(name, type, dynamic, fields) ==
  [name |-> name, type |-> type, dynamic |-> dynamic, fields |-> fields]

A == IndexOf("a", "search", FALSE, {"a"})
B == IndexOf("b", "search", FALSE, {"b"})
AB == IndexOf("ab", "search", FALSE, {"a", "b"})
Dynamic == IndexOf("dynamic", "search", TRUE, {})
VectorB == IndexOf("vector b", "vectorSearch", FALSE, {"b"})
VectorAB == IndexOf("vector ab", "vectorSearch", FALSE, {"a", "b"})

\* An index for vectors comes behind one that covers both fields, see the README.
MCIndexList ==
  {<<>>, <<A>>, <<AB>>, <<A, B, AB>>, <<B, Dynamic, A>>, <<A, B>>,
   <<AB, VectorB, VectorAB>>, <<Dynamic, VectorAB>>}

-----------------------------------------------------------------------------
Single(cls, paths, values, given) == Search(cls, paths, values, given @@ NoOptions)
Leaf(cls, path, value, given) == Single(cls, {path}, {value}, given)

TextA == Leaf("SearchText", "a", 1, <<>>)
TextB == Leaf("SearchText", "b", 0, <<>>)
Boosted == Leaf("SearchEquals", "a", 0, [score |-> 5])
RangeB == Leaf("SearchRange", "b", 0, [gte |-> -1, lt |-> 1])

And(e, f) == Compose("AND", <<e, f>>)
Or(e, f) == Compose("OR", <<e, f>>)
Not(e) == Compose("NOT", <<e>>)

\* The options a class takes, next to a score.
GivenTo(cls) ==
  {<<>>, [score |-> 5]} \cup
  CASE cls = "SearchAutocomplete" -> {[fuzzy |-> 1], [fuzzy |-> 0, tokenOrder |-> 1]}
    [] cls = "SearchText" -> {[fuzzy |-> 1, score |-> 5], [matchCriteria |-> 1, synonyms |-> 1]}
    [] cls = "SearchPhrase" -> {[slop |-> 1, synonyms |-> 1], [slop |-> 0]}
    [] cls \in {"SearchRegex", "SearchWildcard"} -> {[allowAnalyzedField |-> 0, score |-> 5]}
    [] OTHER -> {}
SomeBounds == {[gt |-> -1], [gte |-> 1], [lt |-> 1], [lte |-> -1], [gt |-> -2, lte |-> 1]}

Leaves ==
  UNION {{Leaf(cls, "a", 1, o) : o \in GivenTo(cls)} : cls \in LeafClass \ {"SearchRange"}}
    \cup {Single("SearchIn", {"a"}, {-1, 1}, <<>>),
          Single("SearchMoreLikeThis", {"a", "b"}, {0, 1}, <<>>)}
    \cup {Leaf("SearchRange", path, 0, o) : path \in {"a", "b"}, o \in SomeBounds}

Some == {TextA, TextB, Boosted, RangeB}

\* An expression made by hand, clauses in the order must, mustNot, should, filter.
ByHand ==
  {Compound(<<TextA>>, <<TextB>>, <<Boosted>>, <<>>, 0),
   Compound(<<>>, <<TextB>>, <<TextA, Boosted, RangeB>>, <<>>, 2),
   Compound(<<>>, <<>>, <<TextA, Boosted>>, <<RangeB>>, 0),
   Compound(<<>>, <<TextA>>, <<>>, <<>>, 0),
   Compound(<<Compound(<<>>, <<>>, <<TextA, RangeB>>, <<>>, 0)>>, <<>>, <<>>, <<TextB>>, 0)}

Must(e) == Compound(<<e>>, <<>>, <<>>, <<>>, 0)

Once(es) == {Not(e) : e \in es} \cup {And(e, f) : e, f \in es} \cup {Or(e, f) : e, f \in es}

Composed ==
  LET small == Some \cup {Not(TextA), Not(TextB)} \cup ByHand
      inner == Once({TextA, RangeB}) \cup {Or(TextB, Not(Boosted))}
  IN {And(e, f) : e \in Some, f \in small} \cup {Or(e, f) : e \in small, f \in Some}
       \cup {Not(e) : e \in small \cup inner} \cup {Not(Not(e)) : e \in inner}
       \cup {And(Not(e), f) : e \in inner, f \in inner \cup {TextB}}
       \cup {Or(e, Not(f)) : e \in {TextB, Boosted}, f \in inner}

\* `filter` must be a field of the index that has the path, see the README.
Nearest ==
  {Single("SearchVector", {"a"}, {v}, o) :
     v \in {-1, 1}, o \in {[limit |-> 2], [limit |-> 3, filter |-> 1, exact |-> 1],
                           [limit |-> 20, numCandidates |-> 20]}}
Vector == Single("SearchVector", {"a"}, {1}, [limit |-> 2])

Everything == {MCMissing, -1, 0, 1}
Select(annotations, lookups, keep) ==
  [annotations |-> annotations, lookups |-> lookups, keep |-> keep]

Lookup == [paths |-> {"a"}, value |-> {1}]

MCQuery ==
  {Select(<<e>>, <<>>, Everything) : e \in Leaves \cup ByHand \cup Composed \cup Nearest}
    \cup {Select(<<e>>, <<>>, {1}) : e \in Some \cup ByHand \cup {Vector}}
    \cup {Select(<<>>, <<Lookup>>, keep) : keep \in {Everything, {0}}}
    \cup {Select(<<>>, <<>>, {0})}
    \* Two searches, equal or not, and vectors where they cannot be.
    \cup {Select(<<e, f>>, <<>>, Everything) : e, f \in {TextA, TextB, Not(TextA), Vector}}
    \cup {Select(<<e>>, <<Lookup>>, Everything) : e \in {TextA, TextB}}
    \* Written in two ways, and equal once they are built.
    \cup {Select(<<And(TextA, TextB), And(Must(TextA), Must(TextB))>>, <<>>, Everything)}
    \cup {Select(<<e>>, <<>>, Everything) :
            e \in Once({TextA, Vector}) \cup
                  {Must(Vector), And(Must(And(TextA, TextB)), TextB), Must(Must(Or(TextA, TextB))),
                   Compound(<<>>, <<>>, <<TextB, Or(TextA, TextB)>>, <<>>, 0)}}

ASSUME MCSearchPipelineAssumption ==
  (\A q \in MCQuery : AsksNoZeros(q)) /\ (\A list \in MCIndexList : VectorIndexesLast(list))

\* Bounds that are zero.
ZeroBounds ==
  {Select(<<Leaf("SearchRange", path, 0, o)>>, <<>>, Everything) :
     path \in {"a", "b"}, o \in {[gte |-> 0], [gt |-> 0], [gte |-> -1, lt |-> 0]}}
=============================================================================
