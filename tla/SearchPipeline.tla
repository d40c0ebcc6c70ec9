---------------------------- MODULE SearchPipeline ----------------------------
(***************************************************************************)
(* Searching with an index of MongoDB Search: expressions/search.py, and   *)
(* what the compiler makes of the search expressions of a query.  An       *)
(* application composes expressions with &, | and ~, or by hand with       *)
(* CompoundExpression; they become one $search stage, the first one of the *)
(* pipeline, whose result and score the WHERE clause goes on with.  The    *)
(* index is chosen by the fields that the expression names.                *)
(*                                                                         *)
(* What an operator finds in a text is abstracted to numbers that lie near *)
(* each other; scores are whole numbers, one for each operator that        *)
(* matches, times its boost.                                               *)
(***************************************************************************)
EXTENDS Integers, Sequences, FiniteSets, TLC

CONSTANTS
  Field,                \* fields of documents; "b" is the one that a query may filter by
  Missing,              \* stands for a field that a document lacks
  Document,             \* the collection
  IndexList,            \* what list_search_indexes() may return
  Query,
  None,                 \* an option that is not given
  Height                \* how high an expression may be; a single search has height 1

Doc == [Field -> Int]

Index == [name : STRING, type : {"search", "vectorSearch"}, dynamic : BOOLEAN,
          fields : SUBSET Field]

VARIABLES
  query,
  indexes,
  stage,                \* what comes next, or how it ended
  error,                \* the exception, or ""
  pipeline,             \* the search stage, or << >>, and the condition on the score
  rows                  \* [doc, score] that leave the last stage

vars == <<query, indexes, stage, error, pipeline, rows>>

-----------------------------------------------------------------------------
(* What an application writes.                                             *)

OptionName ==
  {"score", "fuzzy", "tokenOrder", "slop", "synonyms", "matchCriteria", "allowAnalyzedField",
   "lt", "lte", "gt", "gte", "minimum", "limit", "exact", "numCandidates", "filter"}
NoOptions == [n \in OptionName |-> None]

\* A search: an instance of a class.  Several paths are those of the examples of
\* SearchMoreLikeThis.
Search(cls, paths, value, options) ==
  [py |-> cls, paths |-> paths, value |-> value, options |-> options, args |-> <<>>]

\* Operands of an operator of Python.
Compose(connector, operands) ==
  [py |-> connector, paths |-> {}, value |-> {}, options |-> NoOptions, args |-> <<operands>>]

\* Clauses in the order must, mustNot, should, filter.
Compound(must, mustNot, should, filter, minimum) ==
  [py |-> "CompoundExpression", paths |-> {}, value |-> {},
   options |-> [NoOptions EXCEPT !["minimum"] = minimum],
   args |-> <<must, mustNot, should, filter>>]

LeafClass ==
  {"SearchAutocomplete", "SearchEquals", "SearchExists", "SearchIn", "SearchPhrase",
   "SearchQueryString", "SearchRange", "SearchRegex", "SearchText", "SearchWildcard",
   "SearchGeoShape", "SearchGeoWithin", "SearchMoreLikeThis"}
CombinedClass == {"AND", "OR", "NOT"}

IsVector(e) == e.py = "SearchVector"
IsCompound(e) == e.py = "CompoundExpression"
IsCombined(e) == e.py \in CombinedClass

Parts(e) == UNION {{e.args[c][i] : i \in DOMAIN e.args[c]} : c \in DOMAIN e.args}

Bounds == {"lt", "lte", "gt", "gte"}

OptionsOf(cls) ==
  CASE cls = "SearchAutocomplete" -> {"score", "fuzzy", "tokenOrder"}
    [] cls = "SearchPhrase" -> {"score", "slop", "synonyms"}
    [] cls = "SearchRange" -> {"score"} \cup Bounds
    [] cls = "SearchText" -> {"score", "fuzzy", "matchCriteria", "synonyms"}
    [] cls \in {"SearchRegex", "SearchWildcard"} -> {"score", "allowAnalyzedField"}
    [] cls = "SearchVector" -> {"limit", "exact", "numCandidates", "filter"}
    [] OTHER -> {"score"}

Options == [OptionName -> Int \cup {None}]

\* A score, which is a boost here, and a filter are objects and thus not falsy.
Singles ==
  {e \in [py : LeafClass \cup {"SearchVector"}, paths : SUBSET Field, value : SUBSET Int,
          options : Options, args : {<<>>}] :
     /\ \A n \in OptionName \ OptionsOf(e.py) : e.options[n] = None
     /\ e.options["score"] # None => e.options["score"] > 0
     /\ e.options["filter"] # 0
     /\ IsVector(e) => e.options["limit"] \in Nat}

Compounds(es) ==
  {e \in [py : {"CompoundExpression"}, paths : {{}}, value : {{}}, options : Options,
          args : [1 .. 4 -> Seq(es)]] : e.options["minimum"] \in Nat}

Combinations(es) ==
  [py : {"AND", "OR"}, paths : {{}}, value : {{}}, options : {NoOptions},
   args : [1 .. 1 -> [1 .. 2 -> es]]]
  \cup
  [py : {"NOT"}, paths : {{}}, value : {{}}, options : {NoOptions},
   args : [1 .. 1 -> [1 .. 1 -> es]]]

ExpressionsUpTo[h \in 0 .. Height + 2] ==
  IF h = 0 THEN {}
  ELSE Singles \cup Compounds(ExpressionsUpTo[h - 1]) \cup Combinations(ExpressionsUpTo[h - 1])

\* What an application writes, and what becomes of it: Python puts a search into a
\* compound, and resolve() that into another one.
Written == ExpressionsUpTo[Height]
Expression == ExpressionsUpTo[Height + 2]

ASSUME SearchPipelineAssumption ==
  /\ Height \in Nat \ {0}
  /\ "b" \in Field
  /\ Missing \in Int
  /\ None \notin Int
  /\ IsFiniteSet(Document) /\ Document \subseteq Doc
  /\ \A q \in Query :
       /\ q.annotations \in Seq(Written)
       /\ q.lookups \in Seq([paths : SUBSET Field, value : SUBSET Int])
  /\ \A list \in IndexList :
       /\ list \in Seq(Index)
       /\ \A i \in DOMAIN list : list[i].type = "vectorSearch" => ~list[i].dynamic

\* `a & b`, `a | b`, `~a`: only two classes combine without being wrapped.
Wrap(e) ==
  IF IsCompound(e) \/ IsCombined(e) THEN e ELSE Compound(<<e>>, <<>>, <<>>, <<>>, 0)

Build[e \in Expression] ==
  [e EXCEPT !.args = [c \in DOMAIN e.args |-> [i \in DOMAIN e.args[c] |->
     IF IsCombined(e) THEN Wrap(Build[e.args[c][i]]) ELSE Build[e.args[c][i]]]]]

\* All that an expression is made of.
Inside[e \in Expression] == Parts(e) \cup UNION {Inside[x] : x \in Parts(e)}

\* The operand whose method Python calls is the left one.
RefusesToCombine(e) == IsCombined(e) /\ IsVector(e.args[1][1])

BuildRaises(e) == \E x \in {e} \cup Inside[e] : RefusesToCombine(x)

-----------------------------------------------------------------------------
(* The operators.                                                          *)

\* `if self.x is not None` and `if self.x`.
NotNone(e, names) == {n \in names : e.options[n] # None}
Truthy(e, names) == {n \in names : e.options[n] \notin {None, 0}}

Params(e, names) == [n \in OptionName |-> IF n \in names THEN e.options[n] ELSE None]

Operator(name, e, names) ==
  [op |-> name, paths |-> e.paths, value |-> e.value, params |-> Params(e, names),
   args |-> <<>>]

SearchAutocomplete(e) ==
  Operator("autocomplete", e, NotNone(e, {"fuzzy"}) \cup Truthy(e, {"score", "tokenOrder"}))
SearchEquals(e) == Operator("equals", e, Truthy(e, {"score"}))
SearchExists(e) == Operator("exists", e, Truthy(e, {"score"}))
SearchIn(e) == Operator("in", e, Truthy(e, {"score"}))
SearchPhrase(e) == Operator("phrase", e, Truthy(e, {"score", "slop", "synonyms"}))
SearchQueryString(e) == Operator("queryString", e, Truthy(e, {"score"}))
SearchRange(e) == Operator("range", e, Truthy(e, {"score", "lt", "lte", "gt", "gte"}))
SearchRegex(e) ==
  Operator("regex", e, NotNone(e, {"allowAnalyzedField"}) \cup Truthy(e, {"score"}))
SearchText(e) ==
  Operator("text", e,
           NotNone(e, {"fuzzy"}) \cup Truthy(e, {"score", "matchCriteria", "synonyms"}))
SearchWildcard(e) ==
  Operator("wildcard", e, NotNone(e, {"allowAnalyzedField"}) \cup Truthy(e, {"score"}))
SearchGeoShape(e) == Operator("geoShape", e, Truthy(e, {"score"}))
SearchGeoWithin(e) == Operator("geoWithin", e, Truthy(e, {"score"}))
SearchMoreLikeThis(e) == Operator("moreLikeThis", e, Truthy(e, {"score"}))

LeafOperator(e) ==
  CASE e.py = "SearchAutocomplete" -> SearchAutocomplete(e)
    [] e.py = "SearchEquals" -> SearchEquals(e)
    [] e.py = "SearchExists" -> SearchExists(e)
    [] e.py = "SearchIn" -> SearchIn(e)
    [] e.py = "SearchPhrase" -> SearchPhrase(e)
    [] e.py = "SearchQueryString" -> SearchQueryString(e)
    [] e.py = "SearchRange" -> SearchRange(e)
    [] e.py = "SearchRegex" -> SearchRegex(e)
    [] e.py = "SearchText" -> SearchText(e)
    [] e.py = "SearchWildcard" -> SearchWildcard(e)
    [] e.py = "SearchGeoShape" -> SearchGeoShape(e)
    [] e.py = "SearchGeoWithin" -> SearchGeoWithin(e)
    [] e.py = "SearchMoreLikeThis" -> SearchMoreLikeThis(e)

SearchOperator[e \in Expression] ==
  IF ~IsCompound(e) THEN LeafOperator(e)
  ELSE [op |-> "compound", paths |-> {}, value |-> {}, params |-> Params(e, Truthy(e, {"minimum"})),
        args |-> [c \in 1 .. 4 |-> [i \in DOMAIN e.args[c] |-> SearchOperator[e.args[c][i]]]]]

-----------------------------------------------------------------------------
(* Combined expressions become compound ones.                              *)

\* Mutant: a negated conjunction stays one.
NegateNothing(operator) == operator

Negate(operator) ==
  CASE operator = "AND" -> "OR" [] operator = "OR" -> "AND" [] OTHER -> operator

NegateCompound(e) == Compound(<<>>, <<e>>, <<>>, <<>>, 0)

\* CombinedSearchExpression.resolve().
Resolve[e \in Expression] ==
  [negated \in BOOLEAN |->
     IF ~IsCombined(e) THEN IF negated THEN NegateCompound(e) ELSE e
     ELSE LET operator == IF negated THEN Negate(e.py) ELSE e.py
              both == [i \in DOMAIN e.args[1] |-> Resolve[e.args[1][i]][negated]]
          IN IF operator = "NOT" THEN Resolve[e.args[1][1]][~negated]
             ELSE IF operator = "AND" THEN Compound(both, <<>>, <<>>, <<>>, 0)
             ELSE Compound(<<>>, <<>>, both, <<>>, 1)]

\* The classes without the method that a clause of a compound needs.
HasClause(e, classes) == \E x \in Inside[e] : x.py \in classes

SearchFields(e) == UNION {x.paths : x \in {e} \cup Inside[e]}

-----------------------------------------------------------------------------
(* The index.                                                              *)

Raises(exception) == [raises |-> exception, name |-> "", stage |-> <<>>]
Uses(name) == [raises |-> "", name |-> name, stage |-> <<>>]

Covers(index, fields) == index.dynamic \/ fields \subseteq index.fields

First(positions) == CHOOSE i \in positions : \A j \in positions : i <= j

\* The definition of an index for vectors has no mappings.
SearchIndex(fields) ==
  LET last == {i \in DOMAIN indexes :
                 indexes[i].type = "vectorSearch" \/ Covers(indexes[i], fields)}
  IN IF last = {} THEN Uses("default")
     ELSE LET index == indexes[First(last)]
          IN IF index.type = "vectorSearch" THEN Raises("KeyError") ELSE Uses(index.name)

\* Mutant: the first index for vectors, whatever its fields.
VectorIndexAny(fields) ==
  LET usable == {i \in DOMAIN indexes : indexes[i].type = "vectorSearch"}
  IN Uses(IF usable = {} THEN "default" ELSE indexes[First(usable)].name)

VectorIndex(fields) ==
  LET usable == {i \in DOMAIN indexes :
                   indexes[i].type = "vectorSearch" /\ fields \subseteq indexes[i].fields}
  IN Uses(IF usable = {} THEN "default" ELSE indexes[First(usable)].name)

-----------------------------------------------------------------------------
(* Compiling a query.                                                      *)

\* A query has annotations, `search` lookups and ranges for scores and fields:
\* rows with [doc, score] in query.keep stay.
SearchTextLookup(lookup) == Search("SearchText", lookup.paths, lookup.value, NoOptions)

\* Equal expressions share a stage, wherever the query names them.
SearchExpressions ==
  {Build[query.annotations[i]] : i \in DOMAIN query.annotations} \cup
  {SearchTextLookup(query.lookups[i]) : i \in DOMAIN query.lookups}

CompoundStage(e) ==
  LET index == SearchIndex(SearchFields(e))
  IN IF HasClause(e, CombinedClass) THEN Raises("AttributeError")
     ELSE IF index.raises # "" THEN index
     ELSE IF IsVector(e) \/ HasClause(e, {"SearchVector"}) THEN Raises("NotImplementedError")
     ELSE [index EXCEPT !.stage = <<SearchOperator[e]>>]

SearchVector(e) ==
  LET options == {"exact", "numCandidates", "filter"}
  IN [VectorIndex(e.paths) EXCEPT
        !.stage = <<Operator("vectorSearch", e, NotNone(e, {"limit"}) \cup Truthy(e, options))>>]

SearchMql(e) ==
  IF IsVector(e) THEN SearchVector(e)
  ELSE CompoundStage(IF IsCombined(e) THEN Resolve[e][FALSE] ELSE e)

\* Mutant: one of several searches becomes the stage.
CompoundSearchesOne(searches) ==
  IF searches = {} THEN Uses("") ELSE SearchMql(CHOOSE e \in searches : TRUE)

\* _compound_searches_queries().
CompoundSearches(searches) ==
  IF searches = {} THEN Uses("")
  ELSE IF Cardinality(searches) > 1
  THEN Raises(IF \E e \in searches : IsVector(e)
              THEN "ValueError: vector" ELSE "ValueError: search")
  ELSE SearchMql(CHOOSE e \in searches : TRUE)

\* The replaced WHERE clause: a `search` lookup compares the score with zero.
MinimumScore == IF query.lookups = <<>> THEN {} ELSE {0}

Init ==
  /\ query \in Query
  /\ indexes \in IndexList
  /\ stage = "compile"
  /\ error = ""
  /\ pipeline = Uses("")
  /\ rows = {[doc |-> d, score |-> 0] : d \in Document}

\* Composing expressions raises before there is a query.
Compiled ==
  IF \E i \in DOMAIN query.annotations : BuildRaises(query.annotations[i])
  THEN Raises("NotSupportedError") ELSE CompoundSearches(SearchExpressions)

Compile ==
  /\ stage = "compile"
  /\ pipeline' = Compiled
  /\ error' = Compiled.raises
  /\ stage' = IF Compiled.raises = "" THEN "search" ELSE "raised"
  /\ UNCHANGED <<query, indexes, rows>>

-----------------------------------------------------------------------------
(* The server.                                                             *)

Sum(numbers) ==
  LET upTo[n \in 0 .. Len(numbers)] == IF n = 0 THEN 0 ELSE upTo[n - 1] + numbers[n]
  IN upTo[Len(numbers)]

Option(m, name, default) == IF m.params[name] = None THEN default ELSE m.params[name]

Within(options, v) ==
  /\ options["lt"] # None => v < options["lt"]
  /\ options["lte"] # None => v <= options["lte"]
  /\ options["gt"] # None => v > options["gt"]
  /\ options["gte"] # None => v >= options["gte"]

Near(x, y, slack) == x - y <= slack /\ y - x <= slack

\* What an operator says of the value of a field.
Says(m, v) ==
  CASE m.op = "exists" -> TRUE
    [] m.op = "range" -> Within(m.params, v)
    [] OTHER -> \E w \in m.value : Near(v, w, Option(m, "fuzzy", 0) + Option(m, "slop", 0))

LeafOperatorName ==
  {"autocomplete", "equals", "exists", "in", "phrase", "queryString", "range", "regex",
   "text", "wildcard", "geoShape", "geoWithin", "moreLikeThis"}

LeafOperators ==
  [op : LeafOperatorName, paths : SUBSET Field, value : SUBSET Int, params : Options,
   args : {<<>>}]
CompoundOperators(ms) ==
  [op : {"compound"}, paths : {{}}, value : {{}}, params : Options,
   args : [1 .. 4 -> Seq(ms)]]

OperatorsUpTo[h \in 0 .. Height + 2] ==
  IF h = 0 THEN {} ELSE LeafOperators \cup CompoundOperators(OperatorsUpTo[h - 1])
AnyOperator == OperatorsUpTo[Height + 2]

\* With no clause that must match, one that should match has to.
EnoughShould(minimum, must, filter, should, matching) ==
  matching >= IF minimum = 0 /\ must = <<>> /\ filter = <<>> /\ should # <<>> THEN 1 ELSE minimum

Matches[m \in AnyOperator] ==
  {doc \in Doc :
     IF m.op # "compound" THEN \E f \in m.paths : doc[f] # Missing /\ Says(m, doc[f])
     ELSE LET Matching(c) == {i \in DOMAIN m.args[c] : doc \in Matches[m.args[c][i]]}
          IN /\ Matching(1) = DOMAIN m.args[1] /\ Matching(4) = DOMAIN m.args[4]
             /\ Matching(2) = {}
             /\ EnoughShould(Option(m, "minimum", 0), m.args[1], m.args[4],
                             m.args[3], Cardinality(Matching(3)))}

Score[m \in AnyOperator] ==
  [doc \in Doc |->
     LET Scores(c) == Sum([i \in DOMAIN m.args[c] |-> Score[m.args[c][i]][doc]])
     IN IF doc \notin Matches[m] THEN 0
        ELSE IF m.op # "compound" THEN Option(m, "score", 1)
        ELSE Scores(1) + Scores(3)]

Searchable(name, field) ==
  \E i \in DOMAIN indexes : indexes[i].name = name /\ Covers(indexes[i], {field})

\* A field that the index does not cover has no values.
Seen(name, doc) == [f \in Field |-> IF Searchable(name, f) THEN doc[f] ELSE Missing]

SearchStage(m) ==
  LET name == pipeline.name
  IN rows' = {[doc |-> r.doc, score |-> Score[m][Seen(name, r.doc)]] :
                r \in {s \in rows : Seen(name, s.doc) \in Matches[m]}}

\* The nearest ones, whichever of those equally near; nearer ones score higher.
Distance(m, doc) ==
  LET v == doc[CHOOSE f \in m.paths : TRUE]  w == CHOOSE w \in m.value : TRUE
  IN IF v < w THEN w - v ELSE v - w

VectorStage(m) ==
  LET here == \A f \in m.paths : Searchable(pipeline.name, f)
      candidates == {r.doc : r \in {s \in rows :
                       /\ here
                       /\ \A f \in m.paths : s.doc[f] # Missing
                       /\ m.params["filter"] # None => s.doc["b"] = m.params["filter"]}}
      size == IF Cardinality(candidates) < m.params["limit"]
              THEN Cardinality(candidates) ELSE m.params["limit"]
  IN \E docs \in {k \in SUBSET candidates :
                    /\ Cardinality(k) = size
                    /\ \A d \in k, e \in candidates \ k : Distance(m, d) <= Distance(m, e)} :
       rows' = {[doc |-> d, score |-> 0 - Distance(m, d)] : d \in docs}

RunSearch ==
  /\ stage = "search"
  /\ IF pipeline.stage = <<>> THEN UNCHANGED rows
     ELSE IF pipeline.stage[1].op = "vectorSearch" THEN VectorStage(pipeline.stage[1])
     ELSE SearchStage(pipeline.stage[1])
  /\ stage' = "match"
  /\ UNCHANGED <<query, indexes, error, pipeline>>

RunMatch ==
  /\ stage = "match"
  /\ rows' = {r \in rows : /\ r.doc["b"] \in query.keep
                           /\ \A s \in MinimumScore : r.score >= s}
  /\ stage' = "done"
  /\ UNCHANGED <<query, indexes, error, pipeline>>

Next == Compile \/ RunSearch \/ RunMatch

Spec == Init /\ [][Next]_vars

-----------------------------------------------------------------------------
(* What the documentation promises of an expression, before it is rewritten. *)

Slack(e) ==
  LET given(o) == IF e.options[o] = None THEN 0 ELSE e.options[o]
  IN given("fuzzy") + given("slop")

Finds(e, v) ==
  CASE e.py = "SearchExists" -> TRUE
    [] e.py = "SearchRange" -> Within(e.options, v)
    [] OTHER -> \E w \in e.value : Near(v, w, Slack(e))

Means[e \in Expression] ==
  {doc \in Doc :
     LET Meant(c) == {i \in DOMAIN e.args[c] : doc \in Means[e.args[c][i]]}
     IN CASE e.py = "AND" -> Meant(1) = {1, 2}
          [] e.py = "OR" -> Meant(1) # {}
          [] e.py = "NOT" -> Meant(1) = {}
          [] IsCompound(e) ->
               /\ Meant(1) = DOMAIN e.args[1] /\ Meant(4) = DOMAIN e.args[4] /\ Meant(2) = {}
               /\ EnoughShould(e.options["minimum"], e.args[1], e.args[4], e.args[3],
                               Cardinality(Meant(3)))
          [] OTHER -> \E f \in e.paths : doc[f] # Missing /\ Finds(e, doc[f])}

\* What is under an even number of negations scores, where its operands match.
Worth[e \in Expression] ==
  [positive \in BOOLEAN |->
     [doc \in Doc |->
        LET Worths(c) == Sum([i \in DOMAIN e.args[c] |-> Worth[e.args[c][i]][positive][doc]])
        IN IF e.py = "NOT" THEN Worth[e.args[1][1]][~positive][doc]
           ELSE IF (doc \in Means[e]) # positive THEN 0
           ELSE IF IsCombined(e) THEN Worths(1)
           ELSE IF ~positive THEN 0
           ELSE IF IsCompound(e) THEN Worths(1) + Worths(3)
           ELSE IF e.options["score"] = None THEN 1 ELSE e.options["score"]]]

Searches ==
  {query.annotations[i] : i \in DOMAIN query.annotations} \cup
  {SearchTextLookup(query.lookups[i]) : i \in DOMAIN query.lookups}

Kept(doc) == doc["b"] \in query.keep

\* Some index covers all that the search names.
Indexed(e, type) ==
  \E i \in DOMAIN indexes : indexes[i].type = type /\ Covers(indexes[i], SearchFields(e))

-----------------------------------------------------------------------------
(* Properties.                                                             *)

\* A query returns the documents that satisfy its search expression, as the
\* application wrote it, with the scores of what matched in them: whatever is
\* negated, nested or composed by hand, and whichever index the compiler found
\* among those that cover it.
SearchesMatch ==
  stage = "done" =>
    \A e \in Searches :
      ~IsVector(e) /\ Indexed(e, "search") =>
        rows = {[doc |-> d, score |-> Worth[e][TRUE][d]] :
                  d \in {x \in Document : x \in Means[e] /\ Kept(x)}}

\* A vector search returns the nearest of the documents that pass its filter, as
\* many as it was asked for, before the WHERE clause takes some away.
NearestAreFound ==
  stage = "match" =>
    \A e \in Searches :
      IsVector(e) /\ Indexed(e, "vectorSearch") =>
        LET near == {r.doc : r \in rows}
            passing == {d \in Document :
                          /\ \A f \in e.paths : d[f] # Missing
                          /\ e.options["filter"] # None => d["b"] = e.options["filter"]}
        IN /\ near \subseteq passing
           /\ Cardinality(near) <= e.options["limit"]
           /\ near # passing => Cardinality(near) = e.options["limit"]
           /\ \A d \in near, o \in passing \ near : Distance(e, d) <= Distance(e, o)

\* A query is refused exactly if one stage cannot say what it asks: it has two
\* searches that are not equal, composes a vector search with something, or puts an
\* expression made by an operator of Python into a CompoundExpression by hand.  No
\* search is dropped without a word.
RefusedIfNotOneStage ==
  stage \in {"done", "raised"} =>
    (stage = "raised") =
      \/ Cardinality(SearchExpressions) > 1
      \/ \E e \in Searches : \E x \in {e} \cup Inside[e] : \E y \in Inside[x] :
           IsVector(y) \/ (IsCompound(x) /\ IsCombined(y))

\* A SearchRange finds the documents whose value lies within its bounds.
RangesMatch ==
  stage = "done" =>
    \A e \in Searches :
      e.py = "SearchRange" /\ Indexed(e, "search") =>
        {r.doc : r \in rows} = {d \in Document : d \in Means[e] /\ Kept(d)}

-----------------------------------------------------------------------------
(* What the properties need of a query and of the indexes.  The README     *)
(* says where the code departs from them without.                          *)

\* No range in an expression has a bound that is zero: SearchRange drops those.
NoZeroBounds(e) == e.py = "SearchRange" => \A n \in Bounds : e.options[n] # 0
NoZeros(e) == \A x \in {e} \cup Inside[e] : NoZeroBounds(x)
AsksNoZeros(q) == \A i \in DOMAIN q.annotations : NoZeros(q.annotations[i])

\* Before the first index for vectors comes one that covers all fields.
VectorIndexesLast(list) ==
  \A i \in DOMAIN list :
    list[i].type = "vectorSearch" =>
      \E j \in 1 .. i - 1 : list[j].type = "search" /\ Covers(list[j], Field)
=============================================================================
