-------------------------- MODULE SearchPipelineProofs --------------------------
(***************************************************************************)
(* Searches for expressions of any height, any documents and indexes: what *)
(* the stage that is sent finds and scores is what the expression says.    *)
(*                                                                         *)
(* Induction is by the height of an expression (ExpressionInduction), as   *)
(* the library's theorems about operators are out of the provers' reach.   *)
(* By the same induction there is a function that solves the equation of   *)
(* a recursive definition (Solution); CHOOSE takes one (lemmas whose names *)
(* end in Def).                                                            *)
(***************************************************************************)
EXTENDS SearchPipeline, FiniteSetTheorems, WellFoundedInduction, TLAPS

-----------------------------------------------------------------------------
(* Induction.                                                              *)

LEMMA LeastNumber ==
  ASSUME NEW S \in SUBSET Nat, S # {}
  PROVE  \E m \in S : \A k \in S : m <= k
<1> DEFINE R == {ss \in Nat \X Nat : ss[1] < ss[2]}
<1>1. IsWellFoundedOn(R, Nat)
  BY NatLessThanWellFounded DEF OpToRel
<1>2. \E x \in S : \A y \in S : ~(<<y, x>> \in R)
  <2> HIDE DEF R
  <2> QED BY <1>1, WFMin
<1>3. PICK x \in S : \A y \in S : ~(<<y, x>> \in R)
  BY <1>2
<1>4. ASSUME NEW y \in S PROVE x <= y
  <2>1. <<y, x>> \in Nat \X Nat /\ <<y, x>>[1] = y /\ <<y, x>>[2] = x
    OBVIOUS
  <2>2. ~(y < x)
    BY <1>3, <2>1
  <2> QED BY <2>2
<1> QED BY <1>4

\* A set with 0 and the successors of its numbers has all of them.
LEMMA Upwards ==
  ASSUME NEW S, 0 \in S, \A n \in Nat : n \in S => n + 1 \in S
  PROVE  Nat \subseteq S
<1> SUFFICES ASSUME Nat \ S # {} PROVE FALSE
  OBVIOUS
<1>1. PICK m \in Nat \ S : \A k \in Nat \ S : m <= k
  BY LeastNumber
<1>2. m # 0
  OBVIOUS
<1>3. m - 1 \in Nat /\ m - 1 \notin Nat \ S
  BY <1>1, <1>2
<1> QED BY <1>3

-----------------------------------------------------------------------------
(* Levels: expressions of a height are made of lower ones, and so are the  *)
(* operators of the server.                                                *)

\* What can be made of the members of S.
Made(kind, S) ==
  CASE kind = "expression" -> Singles \cup Compounds(S) \cup Combinations(S)
    [] kind = "operator" -> LeafOperators \cup CompoundOperators(S)

Level(kind) == IF kind = "expression" THEN ExpressionsUpTo ELSE OperatorsUpTo

Kinds == {"expression", "operator"}

LEMMA LevelsExist ==
  ASSUME NEW kind, NEW N \in Nat
  PROVE  \E f : f = [h \in 0 .. N |-> IF h = 0 THEN {} ELSE Made(kind, f[h - 1])]
<1> DEFINE Up(f, h) == IF h = 0 THEN {} ELSE Made(kind, f[h - 1])
           Solves(f, n) == f = [h \in 0 .. n |-> Up(f, h)]
           S == {n \in Nat : \E f : Solves(f, n)}
<1> HIDE DEF Made
<1>1. 0 \in S
  <2> DEFINE f == [h \in 0 .. 0 |-> {}]
  <2>1. Solves(f, 0)
    OBVIOUS
  <2> HIDE DEF f, Solves
  <2> QED BY <2>1
<1>2. ASSUME NEW n \in Nat, n \in S PROVE n + 1 \in S
  <2>1. PICK f : Solves(f, n)
    BY <1>2
  <2> DEFINE g == [h \in 0 .. n + 1 |-> IF h = n + 1 THEN Made(kind, f[n]) ELSE f[h]]
  <2>2. ASSUME NEW h \in 0 .. n + 1
        PROVE g[h] = Up(g, h)
    <3>1. CASE h = 0
      BY <2>1, <3>1
    <3>2. CASE h = n + 1
      <4>1. h # 0 /\ h - 1 = n /\ n \in 0 .. n + 1 /\ n # n + 1
        BY <3>2
      <4> QED BY <2>1, <3>2, <4>1
    <3>3. CASE h # 0 /\ h # n + 1
      <4>1. h \in 0 .. n /\ h - 1 \in 0 .. n + 1 /\ h - 1 # n + 1
        BY <3>3
      <4> QED BY <2>1, <3>3, <4>1
    <3> QED BY <3>1, <3>2, <3>3
  <2>3. g = [h \in 0 .. n + 1 |-> g[h]]
    OBVIOUS
  <2> HIDE DEF g
  <2>4. Solves(g, n + 1)
    BY <2>2, <2>3
  <2> HIDE DEF Solves
  <2> QED BY <2>4
<1> HIDE DEF S
<1>3. Nat \subseteq S
  BY <1>1, <1>2, Upwards
<1> QED BY <1>3 DEF S

LEMMA LevelDef ==
  ASSUME NEW kind \in Kinds, NEW h \in 0 .. Height + 2
  PROVE  Level(kind)[h] = IF h = 0 THEN {} ELSE Made(kind, Level(kind)[h - 1])
<1>1. PICK N \in Nat : N = Height + 2
  BY SearchPipelineAssumption
<1>2. CASE kind = "expression"
  <2>1. \A S : Made(kind, S) = Singles \cup Compounds(S) \cup Combinations(S)
    BY <1>2 DEF Made
  <2> HIDE DEF Singles, Compounds, Combinations
  <2>2. \E f : f = [k \in 0 .. Height + 2 |->
                 IF k = 0 THEN {}
                 ELSE Singles \cup Compounds(f[k - 1]) \cup Combinations(f[k - 1])]
    <3>0. \E f : f = [k \in 0 .. N |-> IF k = 0 THEN {} ELSE Made(kind, f[k - 1])]
      BY LevelsExist
    <3>1. PICK f : f = [k \in 0 .. Height + 2 |-> IF k = 0 THEN {} ELSE Made(kind, f[k - 1])]
      BY <1>1, <3>0
    <3>2. \A k \in 0 .. Height + 2 :
            (IF k = 0 THEN {} ELSE Made(kind, f[k - 1]))
            = IF k = 0 THEN {} ELSE Singles \cup Compounds(f[k - 1]) \cup Combinations(f[k - 1])
      BY <2>1
    <3>3. f = [k \in 0 .. Height + 2 |->
                 IF k = 0 THEN {}
                 ELSE Singles \cup Compounds(f[k - 1]) \cup Combinations(f[k - 1])]
      BY <3>1, <3>2
    <3> QED BY <3>3
  <2>3. ExpressionsUpTo = [k \in 0 .. Height + 2 |->
                 IF k = 0 THEN {}
                 ELSE Singles \cup Compounds(ExpressionsUpTo[k - 1])
                        \cup Combinations(ExpressionsUpTo[k - 1])]
    BY <2>2 DEF ExpressionsUpTo
  <2>4. Level(kind) = ExpressionsUpTo
    BY <1>2 DEF Level
  <2>5. ExpressionsUpTo[h] = IF h = 0 THEN {} ELSE Made(kind, ExpressionsUpTo[h - 1])
    BY <2>1, <2>3
  <2> HIDE DEF Made
  <2> QED BY <2>4, <2>5
<1>3. CASE kind = "operator"
  <2>1. \A S : Made(kind, S) = LeafOperators \cup CompoundOperators(S)
    BY <1>3 DEF Made
  <2> HIDE DEF LeafOperators, CompoundOperators
  <2>2. \E f : f = [k \in 0 .. Height + 2 |->
                 IF k = 0 THEN {} ELSE LeafOperators \cup CompoundOperators(f[k - 1])]
    <3>0. \E f : f = [k \in 0 .. N |-> IF k = 0 THEN {} ELSE Made(kind, f[k - 1])]
      BY LevelsExist
    <3>1. PICK f : f = [k \in 0 .. Height + 2 |-> IF k = 0 THEN {} ELSE Made(kind, f[k - 1])]
      BY <1>1, <3>0
    <3>2. \A k \in 0 .. Height + 2 :
            (IF k = 0 THEN {} ELSE Made(kind, f[k - 1]))
            = IF k = 0 THEN {} ELSE LeafOperators \cup CompoundOperators(f[k - 1])
      BY <2>1
    <3>3. f = [k \in 0 .. Height + 2 |->
                 IF k = 0 THEN {} ELSE LeafOperators \cup CompoundOperators(f[k - 1])]
      BY <3>1, <3>2
    <3> QED BY <3>3
  <2>3. OperatorsUpTo = [k \in 0 .. Height + 2 |->
                 IF k = 0 THEN {} ELSE LeafOperators \cup CompoundOperators(OperatorsUpTo[k - 1])]
    BY <2>2 DEF OperatorsUpTo
  <2>4. Level(kind) = OperatorsUpTo
    BY <1>3 DEF Level
  <2>5. OperatorsUpTo[h] = IF h = 0 THEN {} ELSE Made(kind, OperatorsUpTo[h - 1])
    BY <2>1, <2>3
  <2> HIDE DEF Made
  <2> QED BY <2>4, <2>5
<1> QED BY <1>2, <1>3 DEF Kinds

LEMMA LevelNext ==
  ASSUME NEW kind \in Kinds, NEW h \in Nat, h + 1 <= Height + 2
  PROVE  Level(kind)[h + 1] = Made(kind, Level(kind)[h])
<1>1. PICK k \in 0 .. Height + 2 : k = h + 1
  BY SearchPipelineAssumption
<1>2. k # 0 /\ k - 1 = h
  BY <1>1
<1> QED BY <1>1, <1>2, LevelDef

LEMMA LevelZero ==
  ASSUME NEW kind \in Kinds
  PROVE  Level(kind)[0] = {}
<1>1. 0 \in 0 .. Height + 2
  BY SearchPipelineAssumption
<1> QED BY <1>1, LevelDef

LEMMA SequencesGrow ==
  ASSUME NEW S, NEW T, S \subseteq T
  PROVE  Seq(S) \subseteq Seq(T)
OBVIOUS

LEMMA MadeGrows ==
  ASSUME NEW kind \in Kinds, NEW S, NEW T, S \subseteq T
  PROVE  Made(kind, S) \subseteq Made(kind, T)
<1>1. Compounds(S) \subseteq Compounds(T)
  BY SequencesGrow DEF Compounds
<1>2. Combinations(S) \subseteq Combinations(T)
  BY DEF Combinations
<1>3. CompoundOperators(S) \subseteq CompoundOperators(T)
  BY SequencesGrow DEF CompoundOperators
<1> HIDE DEF Singles, Compounds, Combinations, LeafOperators, CompoundOperators
<1> QED BY <1>1, <1>2, <1>3 DEF Made, Kinds

LEMMA LevelGrows ==
  ASSUME NEW kind \in Kinds, NEW h \in Nat, h + 1 <= Height + 2
  PROVE  Level(kind)[h] \subseteq Level(kind)[h + 1]
<1> DEFINE S == {n \in Nat : n + 1 <= Height + 2 => Level(kind)[n] \subseteq Level(kind)[n + 1]}
<1>1. 0 \in S
  BY LevelZero
<1>2. ASSUME NEW n \in Nat, n \in S PROVE n + 1 \in S
  <2>1. PICK k \in Nat : k = n + 1
    OBVIOUS
  <2> SUFFICES ASSUME k + 1 <= Height + 2 PROVE Level(kind)[k] \subseteq Level(kind)[k + 1]
    BY <2>1
  <2>2. n + 1 <= Height + 2
    BY <2>1, SearchPipelineAssumption
  <2>3. Level(kind)[n] \subseteq Level(kind)[k]
    BY <1>2, <2>1, <2>2
  <2>4. Level(kind)[k] = Made(kind, Level(kind)[n])
    BY <2>1, <2>2, LevelNext
  <2>5. Level(kind)[k + 1] = Made(kind, Level(kind)[k])
    BY LevelNext
  <2> QED BY <2>3, <2>4, <2>5, MadeGrows
<1> HIDE DEF S
<1>3. h \in S
  BY <1>1, <1>2, Upwards
<1> QED BY <1>3 DEF S

LEMMA LevelWithin ==
  ASSUME NEW kind \in Kinds, NEW h \in Nat, NEW k \in Nat, h <= k, k <= Height + 2
  PROVE  Level(kind)[h] \subseteq Level(kind)[k]
<1> DEFINE S == {n \in Nat : h + n <= Height + 2 => Level(kind)[h] \subseteq Level(kind)[h + n]}
<1>1. 0 \in S
  OBVIOUS
<1>2. ASSUME NEW n \in Nat, n \in S PROVE n + 1 \in S
  <2>1. PICK m \in Nat : m = h + n
    OBVIOUS
  <2> SUFFICES ASSUME m + 1 <= Height + 2 PROVE Level(kind)[h] \subseteq Level(kind)[m + 1]
    BY <2>1
  <2>2. Level(kind)[h] \subseteq Level(kind)[m]
    BY <1>2, <2>1, SearchPipelineAssumption
  <2> QED BY <2>2, LevelGrows
<1> HIDE DEF S
<1>3. k - h \in S
  BY <1>1, <1>2, Upwards
<1> QED BY <1>3 DEF S

-----------------------------------------------------------------------------
(* What expressions and operators are made of.                             *)

LEMMA PartIs ==
  ASSUME NEW e, NEW c \in DOMAIN e.args, NEW i \in DOMAIN e.args[c]
  PROVE  e.args[c][i] \in Parts(e)
BY DEF Parts

LEMMA PartOf ==
  ASSUME NEW e, NEW x \in Parts(e)
  PROVE  \E c \in DOMAIN e.args : \E i \in DOMAIN e.args[c] : x = e.args[c][i]
BY DEF Parts

LEMMA ElementsOf ==
  ASSUME NEW S, NEW s \in Seq(S)
  PROVE  /\ DOMAIN s = 1 .. Len(s) /\ Len(s) \in Nat
         /\ \A i \in DOMAIN s : s[i] \in S
OBVIOUS

LEMMA SingleShape ==
  ASSUME NEW e \in Singles
  PROVE  /\ e.py \in LeafClass \cup {"SearchVector"}
         /\ e.paths \in SUBSET Field /\ e.value \in SUBSET Int /\ e.options \in Options
         /\ e.args = <<>> /\ Parts(e) = {}
         /\ ~IsCompound(e) /\ ~IsCombined(e)
         /\ \A n \in OptionName \ OptionsOf(e.py) : e.options[n] = None
         /\ e.options["score"] # None => e.options["score"] > 0
         /\ e.options["filter"] # 0
         /\ IsVector(e) => e.options["limit"] \in Nat
<1>1. e \in [py : LeafClass \cup {"SearchVector"}, paths : SUBSET Field, value : SUBSET Int,
             options : Options, args : {<<>>}]
  BY DEF Singles
<1>2. /\ e.py \in LeafClass \cup {"SearchVector"}
      /\ e.paths \in SUBSET Field /\ e.value \in SUBSET Int /\ e.options \in Options
      /\ e.args = <<>>
  <2> HIDE DEF LeafClass, Options
  <2> QED BY <1>1
<1>3. ~IsCompound(e) /\ ~IsCombined(e)
  BY <1>2 DEF LeafClass, IsCompound, IsCombined, CombinedClass
<1>4. Parts(e) = {}
  BY <1>2 DEF Parts
<1>5. /\ \A n \in OptionName \ OptionsOf(e.py) : e.options[n] = None
      /\ e.options["score"] # None => e.options["score"] > 0
      /\ e.options["filter"] # 0
      /\ IsVector(e) => e.options["limit"] \in Nat
  <2> HIDE DEF LeafClass, Options, OptionsOf, OptionName, IsVector
  <2> QED BY DEF Singles
<1> QED BY <1>2, <1>3, <1>4, <1>5

LEMMA CompoundShape ==
  ASSUME NEW S, NEW e \in Compounds(S)
  PROVE  /\ e.py = "CompoundExpression" /\ IsCompound(e) /\ ~IsCombined(e) /\ ~IsVector(e)
         /\ e.paths = {} /\ e.value = {} /\ e.options \in Options
         /\ e.options["minimum"] \in Nat
         /\ DOMAIN e.args = 1 .. 4
         /\ \A c \in 1 .. 4 : e.args[c] \in Seq(S)
         /\ Parts(e) \subseteq S
<1>1. e \in [py : {"CompoundExpression"}, paths : {{}}, value : {{}}, options : Options,
             args : [1 .. 4 -> Seq(S)]]
  BY DEF Compounds
<1>2. /\ e.py = "CompoundExpression" /\ e.paths = {} /\ e.value = {} /\ e.options \in Options
      /\ e.args \in [1 .. 4 -> Seq(S)]
  <2> HIDE DEF Options
  <2> QED BY <1>1
<1>3. /\ DOMAIN e.args = 1 .. 4 /\ \A c \in 1 .. 4 : e.args[c] \in Seq(S)
  BY <1>2
<1>4. Parts(e) \subseteq S
  <2> SUFFICES ASSUME NEW x \in Parts(e) PROVE x \in S
    OBVIOUS
  <2>1. PICK c \in DOMAIN e.args : \E i \in DOMAIN e.args[c] : x = e.args[c][i]
    BY PartOf
  <2>2. e.args[c] \in Seq(S)
    BY <1>3
  <2> QED BY <2>1, <2>2, ElementsOf
<1>5. e.options["minimum"] \in Nat
  <2> HIDE DEF Options
  <2> QED BY DEF Compounds
<1>6. IsCompound(e) /\ ~IsCombined(e) /\ ~IsVector(e)
  BY <1>2 DEF IsCompound, IsCombined, CombinedClass, IsVector
<1> QED BY <1>2, <1>3, <1>4, <1>5, <1>6

LEMMA CombinedShape ==
  ASSUME NEW S, NEW e \in Combinations(S)
  PROVE  /\ e.py \in {"AND", "OR", "NOT"} /\ IsCombined(e) /\ ~IsCompound(e) /\ ~IsVector(e)
         /\ e.paths = {} /\ e.value = {} /\ e.options = NoOptions
         /\ DOMAIN e.args = {1}
         /\ DOMAIN e.args[1] = IF e.py = "NOT" THEN {1} ELSE {1, 2}
         /\ e.args[1][1] \in S
         /\ e.py # "NOT" => e.args[1][2] \in S
         /\ Parts(e) = IF e.py = "NOT" THEN {e.args[1][1]} ELSE {e.args[1][1], e.args[1][2]}
<1>1. /\ e.paths = {} /\ e.value = {} /\ e.options = NoOptions
      /\ \/ e.py \in {"AND", "OR"} /\ e.args \in [1 .. 1 -> [1 .. 2 -> S]]
         \/ e.py = "NOT" /\ e.args \in [1 .. 1 -> [1 .. 1 -> S]]
  <2> HIDE DEF NoOptions
  <2> QED BY DEF Combinations
<1>2. /\ e.py \in {"AND", "OR", "NOT"} /\ IsCombined(e) /\ ~IsCompound(e) /\ ~IsVector(e)
  BY <1>1 DEF IsCompound, IsCombined, CombinedClass, IsVector
<1>3. /\ 1 .. 1 = {1} /\ 1 .. 2 = {1, 2}
  OBVIOUS
<1>4. /\ DOMAIN e.args = {1}
      /\ DOMAIN e.args[1] = IF e.py = "NOT" THEN {1} ELSE {1, 2}
      /\ e.args[1][1] \in S
      /\ e.py # "NOT" => e.args[1][2] \in S
  <2>1. CASE e.py \in {"AND", "OR"} /\ e.args \in [1 .. 1 -> [1 .. 2 -> S]]
    <3>1. e.args \in [{1} -> [{1, 2} -> S]]
      BY <2>1, <1>3
    <3>2. PICK a : a = e.args[1]
      OBVIOUS
    <3>3. a \in [{1, 2} -> S]
      BY <3>1, <3>2
    <3>4. DOMAIN a = {1, 2} /\ a[1] \in S /\ a[2] \in S
      BY <3>3
    <3> QED BY <2>1, <3>1, <3>2, <3>4
  <2>2. CASE e.py = "NOT" /\ e.args \in [1 .. 1 -> [1 .. 1 -> S]]
    <3>1. e.args \in [{1} -> [{1} -> S]]
      BY <2>2, <1>3
    <3>2. PICK a : a = e.args[1]
      OBVIOUS
    <3>3. a \in [{1} -> S]
      BY <3>1, <3>2
    <3>4. DOMAIN a = {1} /\ a[1] \in S
      BY <3>3
    <3> QED BY <2>2, <3>1, <3>2, <3>4
  <2> QED BY <1>1, <2>1, <2>2
<1>5. Parts(e) = IF e.py = "NOT" THEN {e.args[1][1]} ELSE {e.args[1][1], e.args[1][2]}
  <2>1. Parts(e) = {e.args[1][i] : i \in DOMAIN e.args[1]}
    BY <1>4 DEF Parts
  <2> QED BY <2>1, <1>4
<1> QED BY <1>1, <1>2, <1>4, <1>5

LEMMA LeafOperatorShape ==
  ASSUME NEW m \in LeafOperators
  PROVE  /\ m.op # "compound" /\ m.paths \in SUBSET Field /\ m.value \in SUBSET Int
         /\ m.params \in Options /\ m.args = <<>> /\ Parts(m) = {}
<1>1. /\ m.op # "compound" /\ m.paths \in SUBSET Field /\ m.value \in SUBSET Int
      /\ m.params \in Options /\ m.args = <<>>
  <2>1. m.op \in LeafOperatorName
    <3> HIDE DEF Options, LeafOperatorName
    <3> QED BY DEF LeafOperators
  <2>2. m.op # "compound"
    BY <2>1 DEF LeafOperatorName
  <2> HIDE DEF Options, LeafOperatorName
  <2> QED BY <2>2 DEF LeafOperators
<1> QED BY <1>1 DEF Parts

LEMMA CompoundOperatorShape ==
  ASSUME NEW S, NEW m \in CompoundOperators(S)
  PROVE  /\ m.op = "compound" /\ m.params \in Options
         /\ DOMAIN m.args = 1 .. 4
         /\ \A c \in 1 .. 4 : m.args[c] \in Seq(S)
         /\ Parts(m) \subseteq S
<1>1. /\ m.op = "compound" /\ m.params \in Options /\ m.args \in [1 .. 4 -> Seq(S)]
  <2> HIDE DEF Options
  <2> QED BY DEF CompoundOperators
<1>2. /\ DOMAIN m.args = 1 .. 4 /\ \A c \in 1 .. 4 : m.args[c] \in Seq(S)
  BY <1>1
<1>3. Parts(m) \subseteq S
  <2> SUFFICES ASSUME NEW x \in Parts(m) PROVE x \in S
    OBVIOUS
  <2>1. PICK c \in DOMAIN m.args : \E i \in DOMAIN m.args[c] : x = m.args[c][i]
    BY PartOf
  <2>2. m.args[c] \in Seq(S)
    BY <1>2
  <2> QED BY <2>1, <2>2, ElementsOf
<1> QED BY <1>1, <1>2, <1>3

LEMMA PartsAreLower ==
  ASSUME NEW kind \in Kinds, NEW S, NEW x \in Made(kind, S)
  PROVE  Parts(x) \subseteq S
<1>1. CASE kind = "expression"
  <2>1. x \in Singles \/ x \in Compounds(S) \/ x \in Combinations(S)
    <3> HIDE DEF Singles, Compounds, Combinations
    <3> QED BY <1>1 DEF Made
  <2>2. x \in Combinations(S) => Parts(x) \subseteq S
    BY CombinedShape
  <2> QED BY <2>1, <2>2, SingleShape, CompoundShape
<1>2. CASE kind = "operator"
  <2>1. x \in LeafOperators \/ x \in CompoundOperators(S)
    <3> HIDE DEF LeafOperators, CompoundOperators
    <3> QED BY <1>2 DEF Made
  <2> QED BY <2>1, LeafOperatorShape, CompoundOperatorShape
<1> QED BY <1>1, <1>2 DEF Kinds

\* What holds of an expression if it holds of its parts, holds of all expressions.
LEMMA LevelInduction ==
  ASSUME NEW kind \in Kinds, NEW S, NEW k \in Nat, k <= Height + 2,
         \A x \in Level(kind)[k] : Parts(x) \subseteq S => x \in S
  PROVE  Level(kind)[k] \subseteq S
<1> DEFINE Good == {h \in Nat : h <= k => Level(kind)[h] \subseteq S}
<1>1. 0 \in Good
  BY LevelZero
<1>2. ASSUME NEW h \in Nat, h \in Good PROVE h + 1 \in Good
  <2> SUFFICES ASSUME h + 1 <= k, NEW x \in Level(kind)[h + 1] PROVE x \in S
    OBVIOUS
  <2>1. h + 1 \in Nat /\ h + 1 <= Height + 2 /\ h <= k
    BY SearchPipelineAssumption
  <2>2. Level(kind)[h] \subseteq S
    BY <1>2, <2>1
  <2>3. x \in Level(kind)[k]
    BY <2>1, LevelWithin
  <2>4. x \in Made(kind, Level(kind)[h])
    BY <2>1, LevelNext
  <2>5. Parts(x) \subseteq Level(kind)[h]
    BY <2>4, PartsAreLower
  <2> QED BY <2>2, <2>3, <2>5
<1> HIDE DEF Good
<1>3. k \in Good
  BY <1>1, <1>2, Upwards
<1> QED BY <1>3 DEF Good

LEMMA ExpressionShape ==
  ASSUME NEW h \in Nat, h + 1 <= Height + 2, NEW e \in ExpressionsUpTo[h + 1]
  PROVE  \/ e \in Singles
         \/ e \in Compounds(ExpressionsUpTo[h])
         \/ e \in Combinations(ExpressionsUpTo[h])
<1>1. ExpressionsUpTo[h + 1] = Made("expression", ExpressionsUpTo[h])
  BY LevelNext DEF Level, Kinds
<1> HIDE DEF Singles, Compounds, Combinations
<1> QED BY <1>1 DEF Made

LEMMA ExpressionKinds ==
  ASSUME NEW e \in Expression
  PROVE  e \in Singles \/ e \in Compounds(Expression) \/ e \in Combinations(Expression)
<1>1. PICK h \in Nat : h + 1 = Height + 2 /\ h + 1 <= Height + 2
  <2>1. Height + 1 \in Nat /\ (Height + 1) + 1 = Height + 2 /\ (Height + 1) + 1 <= Height + 2
    BY SearchPipelineAssumption
  <2> QED BY <2>1
<1>2. e \in Made("expression", ExpressionsUpTo[h])
  BY <1>1, LevelNext DEF Level, Kinds, Expression
<1>3. ExpressionsUpTo[h] \subseteq Expression
  BY <1>1, LevelGrows DEF Level, Kinds, Expression
<1>4. e \in Made("expression", Expression)
  BY <1>2, <1>3, MadeGrows DEF Kinds
<1> HIDE DEF Singles, Compounds, Combinations
<1> QED BY <1>4 DEF Made

LEMMA WrittenIsExpression == Written \subseteq Expression
<1>1. Height \in Nat /\ Height <= Height + 2 /\ Height + 2 \in Nat /\ Height + 2 <= Height + 2
  BY SearchPipelineAssumption
<1> QED BY <1>1, LevelWithin DEF Level, Kinds, Written, Expression

LEMMA ExpressionParts ==
  ASSUME NEW e \in Expression
  PROVE  Parts(e) \subseteq Expression
<1>1. e \in Combinations(Expression) => Parts(e) \subseteq Expression
  BY CombinedShape
<1> QED BY <1>1, ExpressionKinds, SingleShape, CompoundShape

LEMMA WrittenParts ==
  ASSUME NEW e \in Written
  PROVE  Parts(e) \subseteq Written
<1>1. Height - 1 \in Nat /\ (Height - 1) + 1 = Height
  BY SearchPipelineAssumption
<1> DEFINE h == Height - 1
<1>2. h \in Nat /\ h + 1 = Height /\ h + 1 <= Height + 2
  BY <1>1
<1> HIDE DEF h
<1>3. e \in Made("expression", ExpressionsUpTo[h])
  BY <1>2, LevelNext DEF Level, Kinds, Written
<1>4. ExpressionsUpTo[h] \subseteq Written
  BY <1>2, LevelGrows DEF Level, Kinds, Written
<1> QED BY <1>3, <1>4, PartsAreLower DEF Kinds

LEMMA ExpressionInduction ==
  ASSUME NEW S, \A e \in Expression : Parts(e) \subseteq S => e \in S
  PROVE  Expression \subseteq S
<1>1. PICK k \in Nat : k = Height + 2
  BY SearchPipelineAssumption
<1> QED BY <1>1, LevelInduction DEF Level, Kinds, Expression

LEMMA WrittenInduction ==
  ASSUME NEW S, \A e \in Written : Parts(e) \subseteq S => e \in S
  PROVE  Written \subseteq S
<1>1. Height \in Nat /\ Height <= Height + 2
  BY SearchPipelineAssumption
<1> QED BY <1>1, LevelInduction DEF Level, Kinds, Written

LEMMA OperatorInduction ==
  ASSUME NEW S, \A m \in AnyOperator : Parts(m) \subseteq S => m \in S
  PROVE  AnyOperator \subseteq S
<1>1. PICK k \in Nat : k = Height + 2
  BY SearchPipelineAssumption
<1> QED BY <1>1, LevelInduction DEF Level, Kinds, AnyOperator

LEMMA OperatorKinds ==
  ASSUME NEW m \in AnyOperator
  PROVE  m \in LeafOperators \/ m \in CompoundOperators(AnyOperator)
<1>1. PICK h \in Nat : h + 1 = Height + 2 /\ h + 1 <= Height + 2
  <2>1. Height + 1 \in Nat /\ (Height + 1) + 1 = Height + 2 /\ (Height + 1) + 1 <= Height + 2
    BY SearchPipelineAssumption
  <2> QED BY <2>1
<1>2. m \in Made("operator", OperatorsUpTo[h])
  BY <1>1, LevelNext DEF Level, Kinds, AnyOperator
<1>3. OperatorsUpTo[h] \subseteq AnyOperator
  BY <1>1, LevelGrows DEF Level, Kinds, AnyOperator
<1>4. m \in Made("operator", AnyOperator)
  BY <1>2, <1>3, MadeGrows DEF Kinds
<1> HIDE DEF LeafOperators, CompoundOperators
<1> QED BY <1>4 DEF Made

-----------------------------------------------------------------------------
(* The equations of the recursive functions.                               *)

InsideRule(f, e) == Parts(e) \cup UNION {f[x] : x \in Parts(e)}

BuildRule(f, e) ==
  [e EXCEPT !.args = [c \in DOMAIN e.args |-> [i \in DOMAIN e.args[c] |->
     IF IsCombined(e) THEN Wrap(f[e.args[c][i]]) ELSE f[e.args[c][i]]]]]

SearchOperatorRule(f, e) ==
  IF ~IsCompound(e) THEN LeafOperator(e)
  ELSE [op |-> "compound", paths |-> {}, value |-> {}, params |-> Params(e, Truthy(e, {"minimum"})),
        args |-> [c \in 1 .. 4 |-> [i \in DOMAIN e.args[c] |-> f[e.args[c][i]]]]]

ResolveRule(f, e) ==
  [negated \in BOOLEAN |->
     IF ~IsCombined(e) THEN IF negated THEN NegateCompound(e) ELSE e
     ELSE LET operator == IF negated THEN Negate(e.py) ELSE e.py
              both == [i \in DOMAIN e.args[1] |-> f[e.args[1][i]][negated]]
          IN IF operator = "NOT" THEN f[e.args[1][1]][~negated]
             ELSE IF operator = "AND" THEN Compound(both, <<>>, <<>>, <<>>, 0)
             ELSE Compound(<<>>, <<>>, both, <<>>, 1)]

MeansRule(f, e) ==
  {doc \in Doc :
     LET Meant(c) == {i \in DOMAIN e.args[c] : doc \in f[e.args[c][i]]}
     IN CASE e.py = "AND" -> Meant(1) = {1, 2}
          [] e.py = "OR" -> Meant(1) # {}
          [] e.py = "NOT" -> Meant(1) = {}
          [] IsCompound(e) ->
               /\ Meant(1) = DOMAIN e.args[1] /\ Meant(4) = DOMAIN e.args[4] /\ Meant(2) = {}
               /\ EnoughShould(e.options["minimum"], e.args[1], e.args[4], e.args[3],
                               Cardinality(Meant(3)))
          [] OTHER -> \E x \in e.paths : doc[x] # Missing /\ Finds(e, doc[x])}

WorthRule(f, e) ==
  [positive \in BOOLEAN |->
     [doc \in Doc |->
        LET Worths(c) == Sum([i \in DOMAIN e.args[c] |-> f[e.args[c][i]][positive][doc]])
        IN IF e.py = "NOT" THEN f[e.args[1][1]][~positive][doc]
           ELSE IF (doc \in Means[e]) # positive THEN 0
           ELSE IF IsCombined(e) THEN Worths(1)
           ELSE IF ~positive THEN 0
           ELSE IF IsCompound(e) THEN Worths(1) + Worths(3)
           ELSE IF e.options["score"] = None THEN 1 ELSE e.options["score"]]]

MatchesRule(f, m) ==
  {doc \in Doc :
     IF m.op # "compound" THEN \E x \in m.paths : doc[x] # Missing /\ Says(m, doc[x])
     ELSE LET Matching(c) == {i \in DOMAIN m.args[c] : doc \in f[m.args[c][i]]}
          IN /\ Matching(1) = DOMAIN m.args[1] /\ Matching(4) = DOMAIN m.args[4]
             /\ Matching(2) = {}
             /\ EnoughShould(Option(m, "minimum", 0), m.args[1], m.args[4],
                             m.args[3], Cardinality(Matching(3)))}

ScoreRule(f, m) ==
  [doc \in Doc |->
     LET Scores(c) == Sum([i \in DOMAIN m.args[c] |-> f[m.args[c][i]][doc]])
     IN IF doc \notin Matches[m] THEN 0
        ELSE IF m.op # "compound" THEN Option(m, "score", 1)
        ELSE Scores(1) + Scores(3)]

Rules(kind) ==
  IF kind = "expression"
  THEN {"Inside", "Build", "SearchOperator", "Resolve", "Means", "Worth"}
  ELSE {"Matches", "Score"}

Rule(name, f, x) ==
  CASE name = "Inside" -> InsideRule(f, x)
    [] name = "Build" -> BuildRule(f, x)
    [] name = "SearchOperator" -> SearchOperatorRule(f, x)
    [] name = "Resolve" -> ResolveRule(f, x)
    [] name = "Means" -> MeansRule(f, x)
    [] name = "Worth" -> WorthRule(f, x)
    [] name = "Matches" -> MatchesRule(f, x)
    [] name = "Score" -> ScoreRule(f, x)

\* A rule depends on the parts of an expression only.
LEMMA RulesAreLocal ==
  ASSUME NEW kind \in Kinds, NEW name \in Rules(kind), NEW S, NEW x \in Made(kind, S),
         NEW f, NEW g, \A y \in Parts(x) : f[y] = g[y]
  PROVE  Rule(name, f, x) = Rule(name, g, x)
<1>1. \A c \in DOMAIN x.args : \A i \in DOMAIN x.args[c] : f[x.args[c][i]] = g[x.args[c][i]]
  BY PartIs
<1>2. ASSUME kind = "expression"
      PROVE  /\ IsCompound(x) => DOMAIN x.args = 1 .. 4
             /\ x.py = "CompoundExpression" => DOMAIN x.args = 1 .. 4
             /\ IsCombined(x) => 1 \in DOMAIN x.args /\ 1 \in DOMAIN x.args[1]
             /\ x.py \in {"AND", "OR", "NOT"} => IsCombined(x)
  <2>1. x \in Singles \/ x \in Compounds(S) \/ x \in Combinations(S)
    <3> HIDE DEF Singles, Compounds, Combinations
    <3> QED BY <1>2 DEF Made
  <2>2. CASE x \in Combinations(S)
    <3>1. 1 \in DOMAIN x.args /\ 1 \in DOMAIN x.args[1] /\ ~IsCompound(x) /\ IsCombined(x)
      BY <2>2, CombinedShape
    <3> QED BY <3>1 DEF IsCompound
  <2>3. CASE x \in Singles
    BY <2>3, SingleShape DEF IsCombined, CombinedClass, IsCompound
  <2>4. CASE x \in Compounds(S)
    BY <2>4, CompoundShape DEF IsCombined, CombinedClass
  <2> QED BY <2>1, <2>2, <2>3, <2>4
<1>3. ASSUME kind = "operator", x.op = "compound" PROVE DOMAIN x.args = 1 .. 4
  <2>1. x \in LeafOperators \/ x \in CompoundOperators(S)
    <3> HIDE DEF LeafOperators, CompoundOperators
    <3> QED BY <1>3 DEF Made
  <2> QED BY <2>1, <1>3, LeafOperatorShape, CompoundOperatorShape
<1>4. CASE name = "Inside"
  <2>1. {f[y] : y \in Parts(x)} = {g[y] : y \in Parts(x)}
    OBVIOUS
  <2> QED BY <1>4, <2>1 DEF Rule, InsideRule
<1>5. CASE name = "Build"
  <2> DEFINE A(h) == [c \in DOMAIN x.args |-> [i \in DOMAIN x.args[c] |->
                        IF IsCombined(x) THEN Wrap(h[x.args[c][i]]) ELSE h[x.args[c][i]]]]
  <2>1. A(f) = A(g)
    BY <1>1
  <2>2. BuildRule(f, x) = [x EXCEPT !.args = A(f)] /\ BuildRule(g, x) = [x EXCEPT !.args = A(g)]
    BY DEF BuildRule
  <2> HIDE DEF A
  <2> QED BY <1>5, <2>1, <2>2 DEF Rule
<1>6. CASE name = "SearchOperator"
  <2>1. CASE ~IsCompound(x)
    BY <1>6, <2>1 DEF Rule, SearchOperatorRule
  <2>2. CASE IsCompound(x)
    <3> DEFINE A(h) == [c \in 1 .. 4 |-> [i \in DOMAIN x.args[c] |-> h[x.args[c][i]]]]
    <3>1. A(f) = A(g)
      BY <1>1, <1>2, <1>6, <2>2 DEF Rules, Kinds
    <3>2. \A h : SearchOperatorRule(h, x)
              = [op |-> "compound", paths |-> {}, value |-> {},
                 params |-> Params(x, Truthy(x, {"minimum"})), args |-> A(h)]
      BY <2>2 DEF SearchOperatorRule
    <3> HIDE DEF A
    <3> QED BY <1>6, <3>1, <3>2 DEF Rule
  <2> QED BY <2>1, <2>2
<1>7. CASE name = "Resolve"
  <2>1. kind = "expression"
    BY <1>7 DEF Rules, Kinds
  <2>2. CASE ~IsCombined(x)
    BY <1>7, <2>2 DEF Rule, ResolveRule
  <2>3. CASE IsCombined(x)
    <3>1. \A n : [i \in DOMAIN x.args[1] |-> f[x.args[1][i]][n]]
                 = [i \in DOMAIN x.args[1] |-> g[x.args[1][i]][n]]
      BY <1>1, <1>2, <2>1, <2>3
    <3>2. f[x.args[1][1]] = g[x.args[1][1]]
      BY <1>1, <1>2, <2>1, <2>3
    <3> QED BY <1>7, <3>1, <3>2, <2>3 DEF Rule, ResolveRule
  <2> QED BY <2>2, <2>3
<1>8. CASE name = "Means"
  <2>1. kind = "expression"
    BY <1>8 DEF Rules, Kinds
  <2>2. \A doc : \A c \in DOMAIN x.args :
          {i \in DOMAIN x.args[c] : doc \in f[x.args[c][i]]}
          = {i \in DOMAIN x.args[c] : doc \in g[x.args[c][i]]}
    BY <1>1
  <2>3. CASE IsCombined(x)
    <3>1. x.py \in {"AND", "OR", "NOT"}
      BY <2>3 DEF IsCombined, CombinedClass
    <3>2. \A doc : {i \in DOMAIN x.args[1] : doc \in f[x.args[1][i]]}
                   = {i \in DOMAIN x.args[1] : doc \in g[x.args[1][i]]}
      BY <2>2, <1>2, <2>1, <2>3
    <3>3. ASSUME NEW doc \in Doc PROVE (doc \in MeansRule(f, x)) <=> (doc \in MeansRule(g, x))
      <4>1. {i \in DOMAIN x.args[1] : doc \in f[x.args[1][i]]}
            = {i \in DOMAIN x.args[1] : doc \in g[x.args[1][i]]}
        BY <3>2
      <4>2. ~IsCompound(x)
        BY <3>1 DEF IsCompound
      <4> QED BY <3>1, <4>1, <4>2 DEF MeansRule
    <3>4. MeansRule(f, x) \subseteq Doc /\ MeansRule(g, x) \subseteq Doc
      BY DEF MeansRule
    <3> QED BY <1>8, <3>3, <3>4 DEF Rule
  <2>4. CASE IsCompound(x)
    <3>1. x.py = "CompoundExpression"
      BY <2>4 DEF IsCompound
    <3>2. \A doc : \A c \in 1 .. 4 :
            {i \in DOMAIN x.args[c] : doc \in f[x.args[c][i]]}
            = {i \in DOMAIN x.args[c] : doc \in g[x.args[c][i]]}
      BY <2>2, <1>2, <2>1, <2>4
    <3>3. 1 \in 1 .. 4 /\ 2 \in 1 .. 4 /\ 3 \in 1 .. 4 /\ 4 \in 1 .. 4
      OBVIOUS
    <3>4. ASSUME NEW doc \in Doc PROVE (doc \in MeansRule(f, x)) <=> (doc \in MeansRule(g, x))
      <4> DEFINE M(h, c) == {i \in DOMAIN x.args[c] : doc \in h[x.args[c][i]]}
      <4>1. M(f, 1) = M(g, 1) /\ M(f, 2) = M(g, 2) /\ M(f, 3) = M(g, 3) /\ M(f, 4) = M(g, 4)
        BY <3>2, <3>3
      <4>2. \A h : (doc \in MeansRule(h, x)) <=>
                   /\ M(h, 1) = DOMAIN x.args[1] /\ M(h, 4) = DOMAIN x.args[4] /\ M(h, 2) = {}
                   /\ EnoughShould(x.options["minimum"], x.args[1], x.args[4], x.args[3],
                                   Cardinality(M(h, 3)))
        BY <3>1, <2>4 DEF MeansRule
      <4> HIDE DEF M
      <4> QED BY <4>1, <4>2
    <3>5. MeansRule(f, x) \subseteq Doc /\ MeansRule(g, x) \subseteq Doc
      BY DEF MeansRule
    <3> QED BY <1>8, <3>4, <3>5 DEF Rule
  <2>5. CASE ~IsCombined(x) /\ ~IsCompound(x)
    <3>1. x.py \notin {"AND", "OR", "NOT"}
      BY <2>5 DEF IsCombined, CombinedClass
    <3> QED BY <1>8, <2>5, <3>1 DEF Rule, MeansRule
  <2> QED BY <2>3, <2>4, <2>5
<1>9. CASE name = "Worth"
  <2>1. kind = "expression"
    BY <1>9 DEF Rules, Kinds
  <2>3. CASE IsCombined(x)
    <3>1. f[x.args[1][1]] = g[x.args[1][1]]
      BY <1>1, <1>2, <2>1, <2>3
    <3>2. \A positive, doc : [i \in DOMAIN x.args[1] |-> f[x.args[1][i]][positive][doc]]
                            = [i \in DOMAIN x.args[1] |-> g[x.args[1][i]][positive][doc]]
      BY <1>1, <1>2, <2>1, <2>3
    <3> DEFINE W(h, positive, doc) ==
                 IF x.py = "NOT" THEN h[x.args[1][1]][~positive][doc]
                 ELSE IF (doc \in Means[x]) # positive THEN 0
                 ELSE Sum([i \in DOMAIN x.args[1] |-> h[x.args[1][i]][positive][doc]])
    <3>3. ASSUME NEW positive \in BOOLEAN, NEW doc \in Doc
          PROVE  W(f, positive, doc) = W(g, positive, doc)
      <4>1. [i \in DOMAIN x.args[1] |-> f[x.args[1][i]][positive][doc]]
            = [i \in DOMAIN x.args[1] |-> g[x.args[1][i]][positive][doc]]
        BY <3>2
      <4> QED BY <3>1, <4>1
    <3>4. \A h : WorthRule(h, x) = [positive \in BOOLEAN |-> [doc \in Doc |-> W(h, positive, doc)]]
      BY <2>3 DEF WorthRule
    <3> HIDE DEF W
    <3> QED BY <1>9, <3>3, <3>4 DEF Rule
  <2>4. CASE IsCompound(x)
    <3>1. x.py = "CompoundExpression" /\ ~IsCombined(x)
      BY <2>4 DEF IsCompound, IsCombined, CombinedClass
    <3>2. 1 \in DOMAIN x.args /\ 3 \in DOMAIN x.args
      BY <1>2, <2>1, <2>4
    <3> DEFINE W(h, positive, doc) ==
                 IF (doc \in Means[x]) # positive THEN 0
                 ELSE IF ~positive THEN 0
                 ELSE Sum([i \in DOMAIN x.args[1] |-> h[x.args[1][i]][positive][doc]])
                      + Sum([i \in DOMAIN x.args[3] |-> h[x.args[3][i]][positive][doc]])
    <3>3. ASSUME NEW positive \in BOOLEAN, NEW doc \in Doc
          PROVE  W(f, positive, doc) = W(g, positive, doc)
      <4>1. [i \in DOMAIN x.args[1] |-> f[x.args[1][i]][positive][doc]]
            = [i \in DOMAIN x.args[1] |-> g[x.args[1][i]][positive][doc]]
        BY <1>1, <3>2
      <4>2. [i \in DOMAIN x.args[3] |-> f[x.args[3][i]][positive][doc]]
            = [i \in DOMAIN x.args[3] |-> g[x.args[3][i]][positive][doc]]
        BY <1>1, <3>2
      <4> QED BY <4>1, <4>2
    <3>4. \A h : WorthRule(h, x) = [positive \in BOOLEAN |-> [doc \in Doc |-> W(h, positive, doc)]]
      BY <2>4, <3>1 DEF WorthRule
    <3> HIDE DEF W
    <3> QED BY <1>9, <3>3, <3>4 DEF Rule
  <2>5. CASE ~IsCombined(x) /\ ~IsCompound(x)
    <3>1. x.py # "NOT"
      BY <2>5 DEF IsCombined, CombinedClass
    <3> QED BY <1>9, <2>5, <3>1 DEF Rule, WorthRule
  <2> QED BY <2>3, <2>4, <2>5
<1>10. CASE name = "Matches"
  <2>1. kind = "operator"
    BY <1>10 DEF Rules, Kinds
  <2>2. CASE x.op # "compound"
    BY <1>10, <2>2 DEF Rule, MatchesRule
  <2>3. CASE x.op = "compound"
    <3>1. \A doc : \A c \in 1 .. 4 :
            {i \in DOMAIN x.args[c] : doc \in f[x.args[c][i]]}
            = {i \in DOMAIN x.args[c] : doc \in g[x.args[c][i]]}
      BY <1>1, <1>3, <2>1, <2>3
    <3>2. 1 \in 1 .. 4 /\ 2 \in 1 .. 4 /\ 3 \in 1 .. 4 /\ 4 \in 1 .. 4
      OBVIOUS
    <3>3. ASSUME NEW doc \in Doc PROVE (doc \in MatchesRule(f, x)) <=> (doc \in MatchesRule(g, x))
      <4> DEFINE M(h, c) == {i \in DOMAIN x.args[c] : doc \in h[x.args[c][i]]}
      <4>1. M(f, 1) = M(g, 1) /\ M(f, 2) = M(g, 2) /\ M(f, 3) = M(g, 3) /\ M(f, 4) = M(g, 4)
        BY <3>1, <3>2
      <4>2. \A h : (doc \in MatchesRule(h, x)) <=>
                   /\ M(h, 1) = DOMAIN x.args[1] /\ M(h, 4) = DOMAIN x.args[4] /\ M(h, 2) = {}
                   /\ EnoughShould(Option(x, "minimum", 0), x.args[1], x.args[4], x.args[3],
                                   Cardinality(M(h, 3)))
        BY <2>3 DEF MatchesRule
      <4> HIDE DEF M
      <4> QED BY <4>1, <4>2
    <3>4. MatchesRule(f, x) \subseteq Doc /\ MatchesRule(g, x) \subseteq Doc
      BY DEF MatchesRule
    <3> QED BY <1>10, <3>3, <3>4 DEF Rule
  <2> QED BY <2>2, <2>3
<1>11. CASE name = "Score"
  <2>1. kind = "operator"
    BY <1>11 DEF Rules, Kinds
  <2>2. CASE x.op # "compound"
    BY <1>11, <2>2 DEF Rule, ScoreRule
  <2>3. CASE x.op = "compound"
    <3>1. 1 \in DOMAIN x.args /\ 3 \in DOMAIN x.args
      BY <1>3, <2>1, <2>3
    <3> DEFINE W(h, doc) ==
                 IF doc \notin Matches[x] THEN 0
                 ELSE Sum([i \in DOMAIN x.args[1] |-> h[x.args[1][i]][doc]])
                      + Sum([i \in DOMAIN x.args[3] |-> h[x.args[3][i]][doc]])
    <3>2. ASSUME NEW doc \in Doc PROVE W(f, doc) = W(g, doc)
      <4>1. [i \in DOMAIN x.args[1] |-> f[x.args[1][i]][doc]]
            = [i \in DOMAIN x.args[1] |-> g[x.args[1][i]][doc]]
        BY <1>1, <3>1
      <4>2. [i \in DOMAIN x.args[3] |-> f[x.args[3][i]][doc]]
            = [i \in DOMAIN x.args[3] |-> g[x.args[3][i]][doc]]
        BY <1>1, <3>1
      <4> QED BY <4>1, <4>2
    <3>3. \A h : ScoreRule(h, x) = [doc \in Doc |-> W(h, doc)]
      BY <2>3 DEF ScoreRule
    <3> HIDE DEF W
    <3> QED BY <1>11, <3>2, <3>3 DEF Rule
  <2> QED BY <2>2, <2>3
<1> QED BY <1>4, <1>5, <1>6, <1>7, <1>8, <1>9, <1>10, <1>11 DEF Rules

LEMMA Solution ==
  ASSUME NEW kind \in Kinds, NEW name \in Rules(kind), NEW k \in Nat, k <= Height + 2
  PROVE  \E f : f = [x \in Level(kind)[k] |-> Rule(name, f, x)]
<1> DEFINE Is(f, S) == f = [x \in S |-> Rule(name, f, x)]
           Good == {h \in Nat : h <= Height + 2 => \E f : Is(f, Level(kind)[h])}
<1>1. 0 \in Good
  <2>1. Level(kind)[0] = {}
    BY LevelZero
  <2> DEFINE f == [x \in {} |-> 0]
  <2>2. Is(f, {})
    OBVIOUS
  <2> HIDE DEF f, Is
  <2> QED BY <2>1, <2>2
<1>2. ASSUME NEW h \in Nat, h \in Good PROVE h + 1 \in Good
  <2> SUFFICES ASSUME h + 1 <= Height + 2 PROVE \E f : Is(f, Level(kind)[h + 1])
    OBVIOUS
  <2>1. PICK f : Is(f, Level(kind)[h])
    <3>1. h <= Height + 2
      BY SearchPipelineAssumption
    <3> HIDE DEF Is
    <3> QED BY <1>2, <3>1
  <2> DEFINE g == [x \in Level(kind)[h + 1] |-> Rule(name, f, x)]
  <2>2. Level(kind)[h] \subseteq Level(kind)[h + 1]
    BY LevelGrows
  <2>3. ASSUME NEW x \in Level(kind)[h] PROVE g[x] = f[x]
    <3>1. f[x] = Rule(name, f, x)
      BY <2>1
    <3> HIDE DEF Is
    <3> QED BY <3>1, <2>2
  <2>4. ASSUME NEW x \in Level(kind)[h + 1] PROVE Rule(name, g, x) = Rule(name, f, x)
    <3> HIDE DEF g, Is
    <3>1. x \in Made(kind, Level(kind)[h])
      BY LevelNext
    <3>2. \A y \in Parts(x) : g[y] = f[y]
      BY <3>1, <2>3, PartsAreLower
    <3> QED BY <3>1, <3>2, RulesAreLocal
  <2>5. Is(g, Level(kind)[h + 1])
    BY <2>4
  <2> HIDE DEF g, Is
  <2> QED BY <2>5
<1> HIDE DEF Good
<1>3. k \in Good
  BY <1>1, <1>2, Upwards
<1> HIDE DEF Is
<1>4. \E f : Is(f, Level(kind)[k])
  BY <1>3 DEF Good
<1> QED BY <1>4 DEF Is

LEMMA InsideDef ==
  ASSUME NEW x \in Expression
  PROVE  Inside[x] = InsideRule(Inside, x)
<1>1. \A f : \A y : Rule("Inside", f, y) = InsideRule(f, y)
  BY DEF Rule
<1>2. PICK k \in Nat : k = Height + 2
  BY SearchPipelineAssumption
<1>3. Expression = Level("expression")[k]
  BY <1>2 DEF Level, Expression
<1>4. PICK g : g = [y \in Expression |-> Rule("Inside", g, y)]
  BY <1>2, <1>3, Solution DEF Kinds, Rules
<1>5. g = [y \in Expression |-> InsideRule(g, y)]
  BY <1>1, <1>4
<1>6. \E f : f = [y \in Expression |-> InsideRule(f, y)]
  BY <1>5
<1>7. Inside = [y \in Expression |-> InsideRule(Inside, y)]
  BY <1>6 DEF Inside, InsideRule
<1> QED BY <1>7

LEMMA BuildDef ==
  ASSUME NEW x \in Expression
  PROVE  Build[x] = BuildRule(Build, x)
<1>1. \A f : \A y : Rule("Build", f, y) = BuildRule(f, y)
  BY DEF Rule
<1>2. PICK k \in Nat : k = Height + 2
  BY SearchPipelineAssumption
<1>3. Expression = Level("expression")[k]
  BY <1>2 DEF Level, Expression
<1>4. PICK g : g = [y \in Expression |-> Rule("Build", g, y)]
  BY <1>2, <1>3, Solution DEF Kinds, Rules
<1>5. g = [y \in Expression |-> BuildRule(g, y)]
  BY <1>1, <1>4
<1>6. \E f : f = [y \in Expression |-> BuildRule(f, y)]
  BY <1>5
<1>7. Build = [y \in Expression |-> BuildRule(Build, y)]
  BY <1>6 DEF Build, BuildRule
<1> QED BY <1>7

LEMMA SearchOperatorDef ==
  ASSUME NEW x \in Expression
  PROVE  SearchOperator[x] = SearchOperatorRule(SearchOperator, x)
<1>1. \A f : \A y : Rule("SearchOperator", f, y) = SearchOperatorRule(f, y)
  BY DEF Rule
<1>2. PICK k \in Nat : k = Height + 2
  BY SearchPipelineAssumption
<1>3. Expression = Level("expression")[k]
  BY <1>2 DEF Level, Expression
<1>4. PICK g : g = [y \in Expression |-> Rule("SearchOperator", g, y)]
  BY <1>2, <1>3, Solution DEF Kinds, Rules
<1>5. g = [y \in Expression |-> SearchOperatorRule(g, y)]
  BY <1>1, <1>4
<1>6. \E f : f = [y \in Expression |-> SearchOperatorRule(f, y)]
  BY <1>5
<1>7. SearchOperator = [y \in Expression |-> SearchOperatorRule(SearchOperator, y)]
  BY <1>6 DEF SearchOperator, SearchOperatorRule
<1> QED BY <1>7

LEMMA ResolveDef ==
  ASSUME NEW x \in Expression
  PROVE  Resolve[x] = ResolveRule(Resolve, x)
<1>1. \A f : \A y : Rule("Resolve", f, y) = ResolveRule(f, y)
  BY DEF Rule
<1>2. PICK k \in Nat : k = Height + 2
  BY SearchPipelineAssumption
<1>3. Expression = Level("expression")[k]
  BY <1>2 DEF Level, Expression
<1>4. PICK g : g = [y \in Expression |-> Rule("Resolve", g, y)]
  BY <1>2, <1>3, Solution DEF Kinds, Rules
<1>5. g = [y \in Expression |-> ResolveRule(g, y)]
  BY <1>1, <1>4
<1>6. \E f : f = [y \in Expression |-> ResolveRule(f, y)]
  BY <1>5
<1>7. Resolve = [y \in Expression |-> ResolveRule(Resolve, y)]
  BY <1>6 DEF Resolve, ResolveRule
<1> QED BY <1>7

LEMMA MeansDef ==
  ASSUME NEW x \in Expression
  PROVE  Means[x] = MeansRule(Means, x)
<1>1. \A f : \A y : Rule("Means", f, y) = MeansRule(f, y)
  BY DEF Rule
<1>2. PICK k \in Nat : k = Height + 2
  BY SearchPipelineAssumption
<1>3. Expression = Level("expression")[k]
  BY <1>2 DEF Level, Expression
<1>4. PICK g : g = [y \in Expression |-> Rule("Means", g, y)]
  BY <1>2, <1>3, Solution DEF Kinds, Rules
<1>5. g = [y \in Expression |-> MeansRule(g, y)]
  BY <1>1, <1>4
<1>6. \E f : f = [y \in Expression |-> MeansRule(f, y)]
  BY <1>5
<1>7. Means = [y \in Expression |-> MeansRule(Means, y)]
  BY <1>6 DEF Means, MeansRule
<1> QED BY <1>7

LEMMA WorthDef ==
  ASSUME NEW x \in Expression
  PROVE  Worth[x] = WorthRule(Worth, x)
<1>1. \A f : \A y : Rule("Worth", f, y) = WorthRule(f, y)
  BY DEF Rule
<1>2. PICK k \in Nat : k = Height + 2
  BY SearchPipelineAssumption
<1>3. Expression = Level("expression")[k]
  BY <1>2 DEF Level, Expression
<1>4. PICK g : g = [y \in Expression |-> Rule("Worth", g, y)]
  BY <1>2, <1>3, Solution DEF Kinds, Rules
<1>5. g = [y \in Expression |-> WorthRule(g, y)]
  BY <1>1, <1>4
<1>6. \E f : f = [y \in Expression |-> WorthRule(f, y)]
  BY <1>5
<1>7. Worth = [y \in Expression |-> WorthRule(Worth, y)]
  BY <1>6 DEF Worth, WorthRule
<1> QED BY <1>7

LEMMA MatchesDef ==
  ASSUME NEW x \in AnyOperator
  PROVE  Matches[x] = MatchesRule(Matches, x)
<1>1. \A f : \A y : Rule("Matches", f, y) = MatchesRule(f, y)
  BY DEF Rule
<1>2. PICK k \in Nat : k = Height + 2
  BY SearchPipelineAssumption
<1>3. AnyOperator = Level("operator")[k]
  BY <1>2 DEF Level, AnyOperator
<1>4. PICK g : g = [y \in AnyOperator |-> Rule("Matches", g, y)]
  BY <1>2, <1>3, Solution DEF Kinds, Rules
<1>5. g = [y \in AnyOperator |-> MatchesRule(g, y)]
  BY <1>1, <1>4
<1>6. \E f : f = [y \in AnyOperator |-> MatchesRule(f, y)]
  BY <1>5
<1>7. Matches = [y \in AnyOperator |-> MatchesRule(Matches, y)]
  BY <1>6 DEF Matches, MatchesRule
<1> QED BY <1>7

LEMMA ScoreDef ==
  ASSUME NEW x \in AnyOperator
  PROVE  Score[x] = ScoreRule(Score, x)
<1>1. \A f : \A y : Rule("Score", f, y) = ScoreRule(f, y)
  BY DEF Rule
<1>2. PICK k \in Nat : k = Height + 2
  BY SearchPipelineAssumption
<1>3. AnyOperator = Level("operator")[k]
  BY <1>2 DEF Level, AnyOperator
<1>4. PICK g : g = [y \in AnyOperator |-> Rule("Score", g, y)]
  BY <1>2, <1>3, Solution DEF Kinds, Rules
<1>5. g = [y \in AnyOperator |-> ScoreRule(g, y)]
  BY <1>1, <1>4
<1>6. \E f : f = [y \in AnyOperator |-> ScoreRule(f, y)]
  BY <1>5
<1>7. Score = [y \in AnyOperator |-> ScoreRule(Score, y)]
  BY <1>6 DEF Score, ScoreRule
<1> QED BY <1>7

-----------------------------------------------------------------------------
(* Sums of scores.                                                         *)

LEMMA SumsExist ==
  ASSUME NEW s, NEW N \in Nat
  PROVE  \E f : f = [n \in 0 .. N |-> IF n = 0 THEN 0 ELSE f[n - 1] + s[n]]
<1> DEFINE Up(f, n) == IF n = 0 THEN 0 ELSE f[n - 1] + s[n]
           Solves(f, k) == f = [n \in 0 .. k |-> Up(f, n)]
           S == {k \in Nat : \E f : Solves(f, k)}
<1>1. 0 \in S
  <2> DEFINE f == [n \in 0 .. 0 |-> 0]
  <2>1. Solves(f, 0)
    OBVIOUS
  <2> HIDE DEF f, Solves
  <2> QED BY <2>1
<1>2. ASSUME NEW k \in Nat, k \in S PROVE k + 1 \in S
  <2>1. PICK f : Solves(f, k)
    BY <1>2
  <2> DEFINE g == [n \in 0 .. k + 1 |-> IF n = k + 1 THEN f[k] + s[k + 1] ELSE f[n]]
  <2>2. ASSUME NEW n \in 0 .. k + 1
        PROVE g[n] = Up(g, n)
    <3>1. CASE n = 0
      BY <2>1, <3>1
    <3>2. CASE n = k + 1
      <4>1. n # 0 /\ n - 1 = k /\ k \in 0 .. k + 1 /\ k # k + 1
        BY <3>2
      <4> QED BY <2>1, <3>2, <4>1
    <3>3. CASE n # 0 /\ n # k + 1
      <4>1. n \in 0 .. k /\ n - 1 \in 0 .. k + 1 /\ n - 1 # k + 1
        BY <3>3
      <4> QED BY <2>1, <3>3, <4>1
    <3> QED BY <3>1, <3>2, <3>3
  <2>3. g = [n \in 0 .. k + 1 |-> g[n]]
    OBVIOUS
  <2> HIDE DEF g
  <2>4. Solves(g, k + 1)
    BY <2>2, <2>3
  <2> HIDE DEF Solves
  <2> QED BY <2>4
<1> HIDE DEF S
<1>3. Nat \subseteq S
  BY <1>1, <1>2, Upwards
<1> QED BY <1>3 DEF S

LEMMA SumDef ==
  ASSUME NEW s, Len(s) \in Nat
  PROVE  \E f : /\ f = [n \in 0 .. Len(s) |-> IF n = 0 THEN 0 ELSE f[n - 1] + s[n]]
                /\ Sum(s) = f[Len(s)]
<1> DEFINE Solves(f) == f = [n \in 0 .. Len(s) |-> IF n = 0 THEN 0 ELSE f[n - 1] + s[n]]
<1>1. \E f : Solves(f)
  BY SumsExist
<1>2. Solves(CHOOSE f : Solves(f))
  <2> HIDE DEF Solves
  <2> QED BY <1>1
<1>3. Sum(s) = (CHOOSE f : Solves(f))[Len(s)]
  BY DEF Sum
<1> QED BY <1>2, <1>3

LEMMA SumIsNat ==
  ASSUME NEW s \in Seq(Nat)
  PROVE  Sum(s) \in Nat
<1>1. PICK f : /\ f = [n \in 0 .. Len(s) |-> IF n = 0 THEN 0 ELSE f[n - 1] + s[n]]
               /\ Sum(s) = f[Len(s)]
  BY SumDef
<1> DEFINE Good == {n \in Nat : n <= Len(s) => f[n] \in Nat}
<1>2. 0 \in Good
  <2>1. 0 \in 0 .. Len(s)
    OBVIOUS
  <2> QED BY <1>1, <2>1
<1>3. ASSUME NEW n \in Nat, n \in Good PROVE n + 1 \in Good
  <2> SUFFICES ASSUME n + 1 <= Len(s) PROVE f[n + 1] \in Nat
    OBVIOUS
  <2>1. n + 1 \in 0 .. Len(s) /\ n + 1 # 0 /\ (n + 1) - 1 = n /\ n + 1 \in 1 .. Len(s)
    OBVIOUS
  <2>2. f[n + 1] = f[n] + s[n + 1]
    BY <1>1, <2>1
  <2>3. f[n] \in Nat
    BY <1>3
  <2>4. s[n + 1] \in Nat
    BY <2>1
  <2> QED BY <2>2, <2>3, <2>4
<1> HIDE DEF Good
<1>4. Nat \subseteq Good
  BY <1>2, <1>3, Upwards
<1>5. Len(s) \in Nat /\ Len(s) \in Good
  BY <1>4
<1> QED BY <1>1, <1>5 DEF Good

LEMMA SumOfNone ==
  ASSUME NEW s, s \in Seq(Nat), DOMAIN s = {}
  PROVE  Sum(s) = 0
<1>1. Len(s) = 0
  OBVIOUS
<1>2. PICK f : /\ f = [n \in 0 .. Len(s) |-> IF n = 0 THEN 0 ELSE f[n - 1] + s[n]]
               /\ Sum(s) = f[Len(s)]
  BY SumDef
<1> QED BY <1>1, <1>2

LEMMA SumOfOne ==
  ASSUME NEW s, s \in Seq(Nat), DOMAIN s = {1}
  PROVE  Sum(s) = s[1]
<1>1. Len(s) = 1
  <2>1. Len(s) \in Nat /\ DOMAIN s = 1 .. Len(s)
    BY ElementsOf
  <2> QED BY <2>1
<1>2. PICK f : /\ f = [n \in 0 .. Len(s) |-> IF n = 0 THEN 0 ELSE f[n - 1] + s[n]]
               /\ Sum(s) = f[Len(s)]
  BY SumDef, <1>1
<1>3. 0 \in 0 .. Len(s) /\ 1 \in 0 .. Len(s)
  BY <1>1
<1>4. f[0] = 0
  BY <1>2, <1>3
<1>5. f[1] = f[0] + s[1]
  BY <1>2, <1>3
<1>6. s[1] \in Nat
  BY ElementsOf
<1> QED BY <1>1, <1>2, <1>4, <1>5, <1>6

-----------------------------------------------------------------------------
(* What an expression holds.                                               *)

HoldsVector(e) == \E y \in Inside[e] : IsVector(y)
HoldsCombined(e) == \E y \in Inside[e] : IsCombined(y)

\* Some compound in it, or the expression itself, holds a combined expression.
IsMixed(e) == \E x \in {e} \cup Inside[e] : IsCompound(x) /\ HoldsCombined(x)

LEMMA InsideIs ==
  ASSUME NEW e \in Expression
  PROVE  Inside[e] = Parts(e) \cup UNION {Inside[x] : x \in Parts(e)}
BY InsideDef DEF InsideRule

LEMMA InsideIsExpression ==
  ASSUME NEW e \in Expression
  PROVE  Inside[e] \subseteq Expression
<1> DEFINE S == {x \in Expression : Inside[x] \subseteq Expression}
<1>1. ASSUME NEW x \in Expression, Parts(x) \subseteq S PROVE x \in S
  BY <1>1, InsideIs
<1> HIDE DEF S
<1>2. Expression \subseteq S
  BY <1>1, ExpressionInduction
<1> QED BY <1>2 DEF S

LEMMA InsideOfInside ==
  ASSUME NEW e \in Expression, NEW x \in Inside[e]
  PROVE  Inside[x] \subseteq Inside[e]
<1> DEFINE S == {z \in Expression : \A y \in Inside[z] : Inside[y] \subseteq Inside[z]}
<1>1. ASSUME NEW z \in Expression, Parts(z) \subseteq S PROVE z \in S
  <2> SUFFICES ASSUME NEW y \in Inside[z] PROVE Inside[y] \subseteq Inside[z]
    OBVIOUS
  <2>1. Inside[z] = Parts(z) \cup UNION {Inside[w] : w \in Parts(z)}
    BY InsideIs
  <2>2. CASE y \in Parts(z)
    BY <2>1, <2>2
  <2>3. CASE y \notin Parts(z)
    <3>1. PICK w \in Parts(z) : y \in Inside[w]
      BY <2>1, <2>3
    <3>2. Inside[y] \subseteq Inside[w]
      BY <1>1, <3>1
    <3> QED BY <2>1, <3>2
  <2> QED BY <2>2, <2>3
<1> HIDE DEF S
<1>2. Expression \subseteq S
  BY <1>1, ExpressionInduction
<1> QED BY <1>2 DEF S

LEMMA HoldsVectorIs ==
  ASSUME NEW e \in Expression
  PROVE  HoldsVector(e) <=> \E x \in Parts(e) : IsVector(x) \/ HoldsVector(x)
BY InsideIs DEF HoldsVector

LEMMA HoldsCombinedIs ==
  ASSUME NEW e \in Expression
  PROVE  HoldsCombined(e) <=> \E x \in Parts(e) : IsCombined(x) \/ HoldsCombined(x)
BY InsideIs DEF HoldsCombined

LEMMA IsMixedIs ==
  ASSUME NEW e \in Expression
  PROVE  IsMixed(e) <=> \/ IsCompound(e) /\ HoldsCombined(e)
                        \/ \E x \in Parts(e) : IsMixed(x)
BY InsideIs DEF IsMixed

LEMMA MixedCompound ==
  ASSUME NEW e \in Expression, IsCompound(e)
  PROVE  IsMixed(e) <=> HoldsCombined(e)
<1>1. ASSUME NEW x \in Inside[e], HoldsCombined(x) PROVE HoldsCombined(e)
  BY <1>1, InsideOfInside DEF HoldsCombined
<1> QED BY <1>1 DEF IsMixed

\* What the property RefusedIfNotOneStage says of an expression.
LEMMA RefusedIs ==
  ASSUME NEW e \in Expression
  PROVE  (\E x \in {e} \cup Inside[e] : \E y \in Inside[x] :
            IsVector(y) \/ (IsCompound(x) /\ IsCombined(y)))
         <=> HoldsVector(e) \/ IsMixed(e)
<1>1. ASSUME NEW x \in {e} \cup Inside[e], NEW y \in Inside[x] PROVE y \in Inside[e]
  BY <1>1, InsideOfInside
<1> QED BY <1>1 DEF HoldsVector, IsMixed, HoldsCombined

LEMMA RaisesHoldsVector ==
  ASSUME NEW e \in Expression, BuildRaises(e)
  PROVE  HoldsVector(e)
<1>1. PICK x \in {e} \cup Inside[e] : IsCombined(x) /\ IsVector(x.args[1][1])
  BY DEF BuildRaises, RefusesToCombine
<1>2. x \in Expression
  BY InsideIsExpression
<1>3. x \in Combinations(Expression)
  BY <1>1, <1>2, ExpressionKinds, SingleShape, CompoundShape
<1>4. x.args[1][1] \in Parts(x)
  BY <1>3, CombinedShape
<1>5. x.args[1][1] \in Inside[x]
  BY <1>2, <1>4, InsideIs
<1>6. x.args[1][1] \in Inside[e]
  BY <1>5, InsideOfInside
<1> QED BY <1>1, <1>6 DEF HoldsVector

-----------------------------------------------------------------------------
(* Compounds.                                                              *)

Elements(s) == {s[i] : i \in DOMAIN s}

IsMadeOf(e, S, must, mustNot, should, filter, minimum) ==
  /\ e \in Compounds(S)
  /\ e.args[1] = must /\ e.args[2] = mustNot /\ e.args[3] = should /\ e.args[4] = filter
  /\ e.options["minimum"] = minimum
  /\ Parts(e) = Elements(must) \cup Elements(mustNot) \cup Elements(should) \cup Elements(filter)

LEMMA CompoundIs ==
  ASSUME NEW S, NEW must \in Seq(S), NEW mustNot \in Seq(S), NEW should \in Seq(S),
         NEW filter \in Seq(S), NEW minimum \in Nat
  PROVE  IsMadeOf(Compound(must, mustNot, should, filter, minimum),
                  S, must, mustNot, should, filter, minimum)
<1> DEFINE e == Compound(must, mustNot, should, filter, minimum)
<1> DEFINE args == <<must, mustNot, should, filter>>
           options == [NoOptions EXCEPT !["minimum"] = minimum]
<1>1. e = [py |-> "CompoundExpression", paths |-> {}, value |-> {}, options |-> options, args |-> args]
  BY DEF Compound
<1>2. /\ args[1] = must /\ args[2] = mustNot /\ args[3] = should /\ args[4] = filter
      /\ DOMAIN args = 1 .. 4 /\ args = [c \in 1 .. 4 |-> args[c]]
  OBVIOUS
<1>3. \A c \in 1 .. 4 : c = 1 \/ c = 2 \/ c = 3 \/ c = 4
  OBVIOUS
<1>4. args \in [1 .. 4 -> Seq(S)]
  <2> HIDE DEF args
  <2>1. \A c \in 1 .. 4 : args[c] \in Seq(S)
    BY <1>2, <1>3
  <2> QED BY <1>2, <2>1
<1>5. options \in Options /\ options["minimum"] = minimum
  BY DEF NoOptions, Options, OptionName
<1> HIDE DEF args, options, e
<1>6. e \in Compounds(S)
  <2> HIDE DEF Options
  <2> QED BY <1>1, <1>4, <1>5 DEF Compounds
<1>7. Parts(e) = UNION {{args[c][i] : i \in DOMAIN args[c]} : c \in 1 .. 4}
  BY <1>1, <1>2 DEF Parts
<1>8. Parts(e) = Elements(must) \cup Elements(mustNot)
              \cup Elements(should) \cup Elements(filter)
  <2>1. 1 \in 1 .. 4 /\ 2 \in 1 .. 4 /\ 3 \in 1 .. 4 /\ 4 \in 1 .. 4
    OBVIOUS
  <2> QED BY <1>7, <1>2, <1>3, <2>1 DEF Elements
<1>9. e.args = args /\ e.options = options
  BY <1>1
<1>10. IsMadeOf(e, S, must, mustNot, should, filter, minimum)
  BY <1>2, <1>5, <1>6, <1>8, <1>9 DEF IsMadeOf
<1> QED BY <1>10 DEF e

LEMMA NoneIsSequence ==
  ASSUME NEW S
  PROVE  <<>> \in Seq(S) /\ DOMAIN <<>> = {}
OBVIOUS

LEMMA OneIsSequence ==
  ASSUME NEW S, NEW x \in S
  PROVE  <<x>> \in Seq(S) /\ DOMAIN <<x>> = {1} /\ <<x>>[1] = x
OBVIOUS

\* The compound that Python makes of a search.
LEMMA MustIs ==
  ASSUME NEW S, NEW x \in S, NEW e, e = Compound(<<x>>, <<>>, <<>>, <<>>, 0)
  PROVE  /\ e \in Compounds(S) /\ Parts(e) = {x}
         /\ e.args[1] = <<x>> /\ e.args[2] = <<>> /\ e.args[3] = <<>> /\ e.args[4] = <<>>
         /\ e.options["minimum"] = 0
<1>1. PICK one \in Seq(S) : one = <<x>> /\ DOMAIN one = {1} /\ one[1] = x
  BY OneIsSequence
<1>2. PICK none \in Seq(S) : none = <<>> /\ DOMAIN none = {}
  BY NoneIsSequence
<1>3. 0 \in Nat /\ e = Compound(one, none, none, none, 0)
  BY <1>1, <1>2
<1>4. IsMadeOf(e, S, one, none, none, none, 0)
  BY <1>3, CompoundIs
<1>5. Elements(one) = {x} /\ Elements(none) = {}
  BY <1>1, <1>2 DEF Elements
<1> QED BY <1>1, <1>2, <1>4, <1>5 DEF IsMadeOf

LEMMA NegateCompoundIs ==
  ASSUME NEW S, NEW x \in S, NEW e, e = NegateCompound(x)
  PROVE  /\ e \in Compounds(S) /\ Parts(e) = {x}
         /\ e.args[1] = <<>> /\ e.args[2] = <<x>> /\ e.args[3] = <<>> /\ e.args[4] = <<>>
         /\ e.options["minimum"] = 0
<1>1. PICK one \in Seq(S) : one = <<x>> /\ DOMAIN one = {1} /\ one[1] = x
  BY OneIsSequence
<1>2. PICK none \in Seq(S) : none = <<>> /\ DOMAIN none = {}
  BY NoneIsSequence
<1>3. 0 \in Nat /\ e = Compound(none, one, none, none, 0)
  BY <1>1, <1>2 DEF NegateCompound
<1>4. IsMadeOf(e, S, none, one, none, none, 0)
  BY <1>3, CompoundIs
<1>5. Elements(one) = {x} /\ Elements(none) = {}
  BY <1>1, <1>2 DEF Elements
<1> QED BY <1>1, <1>2, <1>4, <1>5 DEF IsMadeOf

-----------------------------------------------------------------------------
(* What Python and resolve() make of an expression.                        *)

LEMMA NothingIsEmpty ==
  ASSUME NEW f, f = [c \in {} |-> f[c]]
  PROVE  f = <<>>
OBVIOUS

LEMMA BuildIs ==
  ASSUME NEW e \in Expression
  PROVE  /\ Build[e].py = e.py /\ Build[e].paths = e.paths /\ Build[e].value = e.value
         /\ Build[e].options = e.options
         /\ Build[e].args = [c \in DOMAIN e.args |-> [i \in DOMAIN e.args[c] |->
              IF IsCombined(e) THEN Wrap(Build[e.args[c][i]]) ELSE Build[e.args[c][i]]]]
         /\ Build[e] = [py |-> e.py, paths |-> e.paths, value |-> e.value,
                        options |-> e.options, args |-> Build[e].args]
<1> DEFINE args == [c \in DOMAIN e.args |-> [i \in DOMAIN e.args[c] |->
              IF IsCombined(e) THEN Wrap(Build[e.args[c][i]]) ELSE Build[e.args[c][i]]]]
<1>1. Build[e] = [e EXCEPT !.args = args]
  BY BuildDef DEF BuildRule
<1> HIDE DEF args
<1>2. e = [py |-> e.py, paths |-> e.paths, value |-> e.value, options |-> e.options, args |-> e.args]
  <2>1. CASE e \in Singles
    BY <2>1 DEF Singles
  <2>2. CASE e \in Compounds(Expression)
    BY <2>2 DEF Compounds
  <2>3. CASE e \in Combinations(Expression)
    BY <2>3 DEF Combinations
  <2> QED BY <2>1, <2>2, <2>3, ExpressionKinds
<1>3. Build[e] = [py |-> e.py, paths |-> e.paths, value |-> e.value, options |-> e.options,
                  args |-> args]
  BY <1>1, <1>2
<1>4. /\ Build[e].py = e.py /\ Build[e].paths = e.paths /\ Build[e].value = e.value
      /\ Build[e].options = e.options /\ Build[e].args = args
  BY <1>3
<1> QED BY <1>3, <1>4 DEF args

LEMMA BuildSingle ==
  ASSUME NEW e \in Singles, e \in Expression
  PROVE  Build[e] = e
<1>1. /\ Build[e].args = [c \in DOMAIN e.args |-> [i \in DOMAIN e.args[c] |->
              IF IsCombined(e) THEN Wrap(Build[e.args[c][i]]) ELSE Build[e.args[c][i]]]]
      /\ Build[e] = [py |-> e.py, paths |-> e.paths, value |-> e.value,
                     options |-> e.options, args |-> Build[e].args]
  BY BuildIs
<1>2. e.args = <<>>
  BY SingleShape
<1>3. Build[e].args = [c \in {} |-> Build[e].args[c]]
  BY <1>1, <1>2, NoneIsSequence
<1>4. Build[e].args = <<>>
  BY <1>3, NothingIsEmpty
<1>5. e = [py |-> e.py, paths |-> e.paths, value |-> e.value, options |-> e.options, args |-> <<>>]
  BY DEF Singles
<1> QED BY <1>1, <1>4, <1>5

LEMMA BuildParts ==
  ASSUME NEW e \in Expression
  PROVE  Parts(Build[e]) = {IF IsCombined(e) THEN Wrap(Build[x]) ELSE Build[x] : x \in Parts(e)}
<1>1. /\ DOMAIN Build[e].args = DOMAIN e.args
      /\ \A c \in DOMAIN e.args :
           /\ DOMAIN Build[e].args[c] = DOMAIN e.args[c]
           /\ \A i \in DOMAIN e.args[c] :
                Build[e].args[c][i] = IF IsCombined(e) THEN Wrap(Build[e.args[c][i]])
                                      ELSE Build[e.args[c][i]]
  <2>1. Build[e].args = [c \in DOMAIN e.args |-> [i \in DOMAIN e.args[c] |->
              IF IsCombined(e) THEN Wrap(Build[e.args[c][i]]) ELSE Build[e.args[c][i]]]]
    BY BuildIs
  <2> QED BY <2>1
<1>2. ASSUME NEW y \in Parts(Build[e])
      PROVE  y \in {IF IsCombined(e) THEN Wrap(Build[x]) ELSE Build[x] : x \in Parts(e)}
  <2>1. PICK c \in DOMAIN e.args : \E k \in DOMAIN e.args[c] : y = Build[e].args[c][k]
    BY <1>1, PartOf
  <2>0. PICK i \in DOMAIN e.args[c] : y = Build[e].args[c][i]
    BY <2>1
  <2>2. e.args[c][i] \in Parts(e)
    BY PartIs
  <2> QED BY <1>1, <2>0, <2>2
<1>3. ASSUME NEW x \in Parts(e)
      PROVE  (IF IsCombined(e) THEN Wrap(Build[x]) ELSE Build[x]) \in Parts(Build[e])
  <2>1. PICK c \in DOMAIN e.args : \E k \in DOMAIN e.args[c] : x = e.args[c][k]
    BY PartOf
  <2>0. PICK i \in DOMAIN e.args[c] : x = e.args[c][i]
    BY <2>1
  <2>2. Build[e].args[c][i] \in Parts(Build[e])
    BY <1>1, PartIs
  <2> QED BY <1>1, <2>0, <2>2
<1> QED BY <1>2, <1>3

\* A sequence of parts, each of them rewritten.
LEMMA Rewritten ==
  ASSUME NEW S, NEW T, NEW s \in Seq(S), NEW f, \A x \in S : f[x] \in T
  PROVE  [i \in DOMAIN s |-> f[s[i]]] \in Seq(T)
<1>1. DOMAIN s = 1 .. Len(s) /\ Len(s) \in Nat /\ \A i \in DOMAIN s : s[i] \in S
  BY ElementsOf
<1>2. [i \in DOMAIN s |-> f[s[i]]] \in [1 .. Len(s) -> T]
  BY <1>1
<1> QED BY <1>1, <1>2

LEMMA BuildCompound ==
  ASSUME NEW S, NEW T, NEW e \in Compounds(S), e \in Expression, \A x \in S : Build[x] \in T
  PROVE  Build[e] \in Compounds(T)
<1>1. /\ e.py = "CompoundExpression" /\ ~IsCombined(e) /\ e.paths = {} /\ e.value = {}
      /\ e.options \in Options /\ e.options["minimum"] \in Nat
      /\ DOMAIN e.args = 1 .. 4
      /\ \A c \in 1 .. 4 : e.args[c] \in Seq(S)
  BY CompoundShape
<1>2. Build[e].args = [c \in 1 .. 4 |-> [i \in DOMAIN e.args[c] |-> Build[e.args[c][i]]]]
  <2>1. Build[e].args = [c \in DOMAIN e.args |-> [i \in DOMAIN e.args[c] |->
              IF IsCombined(e) THEN Wrap(Build[e.args[c][i]]) ELSE Build[e.args[c][i]]]]
    BY BuildIs
  <2> QED BY <1>1, <2>1
<1>3. ASSUME NEW c \in 1 .. 4
      PROVE  [i \in DOMAIN e.args[c] |-> Build[e.args[c][i]]] \in Seq(T)
  <2>1. PICK s \in Seq(S) : s = e.args[c]
    BY <1>1
  <2>2. [i \in DOMAIN s |-> Build[s[i]]] \in Seq(T)
    BY Rewritten
  <2> QED BY <2>1, <2>2
<1>4. Build[e].args \in [1 .. 4 -> Seq(T)]
  BY <1>2, <1>3
<1>5. Build[e] = [py |-> e.py, paths |-> e.paths, value |-> e.value,
                  options |-> e.options, args |-> Build[e].args]
  BY BuildIs
<1> HIDE DEF Options
<1> QED BY <1>1, <1>4, <1>5 DEF Compounds

IsBuiltOf(b, e, T) ==
  /\ b \in Combinations(T)
  /\ b.py = e.py
  /\ b.args[1][1] = Wrap(Build[e.args[1][1]])
  /\ e.py # "NOT" => b.args[1][2] = Wrap(Build[e.args[1][2]])

LEMMA BuildCombined ==
  ASSUME NEW S, NEW T, NEW e \in Combinations(S), e \in Expression,
         \A x \in S : Wrap(Build[x]) \in T
  PROVE  IsBuiltOf(Build[e], e, T)
<1>1. /\ e.py \in {"AND", "OR", "NOT"} /\ IsCombined(e)
      /\ e.paths = {} /\ e.value = {} /\ e.options = NoOptions
      /\ DOMAIN e.args = {1}
      /\ DOMAIN e.args[1] = IF e.py = "NOT" THEN {1} ELSE {1, 2}
      /\ e.args[1][1] \in S
      /\ e.py # "NOT" => e.args[1][2] \in S
  BY CombinedShape
<1>2. Build[e].args = [c \in {1} |-> [i \in DOMAIN e.args[1] |-> Wrap(Build[e.args[1][i]])]]
  <2>1. Build[e].args = [c \in {1} |-> [i \in DOMAIN e.args[c] |-> Wrap(Build[e.args[c][i]])]]
    <3>1. Build[e].args = [c \in DOMAIN e.args |-> [i \in DOMAIN e.args[c] |->
              IF IsCombined(e) THEN Wrap(Build[e.args[c][i]]) ELSE Build[e.args[c][i]]]]
      BY BuildIs
    <3> QED BY <1>1, <3>1
  <2> QED BY <2>1
<1>3. Build[e] = [py |-> e.py, paths |-> e.paths, value |-> e.value,
                  options |-> e.options, args |-> Build[e].args]
  BY BuildIs
<1> DEFINE built == [i \in DOMAIN e.args[1] |-> Wrap(Build[e.args[1][i]])]
<1>4. /\ built[1] = Wrap(Build[e.args[1][1]])
      /\ e.py # "NOT" => built[2] = Wrap(Build[e.args[1][2]])
      /\ e.py = "NOT" => built \in [{1} -> T]
      /\ e.py # "NOT" => built \in [{1, 2} -> T]
  BY <1>1
<1>5. Build[e].args = [c \in {1} |-> built]
  BY <1>2
<1> HIDE DEF built
<1>6. Build[e].args[1] = built /\ Build[e].py = e.py
  BY <1>5, <1>3
<1>7. 1 .. 1 = {1} /\ 1 .. 2 = {1, 2}
  OBVIOUS
<1>8. Build[e] \in Combinations(T)
  <2>1. CASE e.py = "NOT"
    <3>1. Build[e].args \in [1 .. 1 -> [1 .. 1 -> T]]
      BY <1>4, <1>5, <1>7, <2>1
    <3> HIDE DEF NoOptions
    <3> QED BY <1>1, <1>3, <2>1, <3>1 DEF Combinations
  <2>2. CASE e.py # "NOT"
    <3>1. Build[e].args \in [1 .. 1 -> [1 .. 2 -> T]]
      BY <1>4, <1>5, <1>7, <2>2
    <3> HIDE DEF NoOptions
    <3> QED BY <1>1, <1>3, <2>2, <3>1 DEF Combinations
  <2> QED BY <2>1, <2>2
<1> HIDE DEF Combinations
<1> QED BY <1>4, <1>6, <1>8 DEF IsBuiltOf

LEMMA WrapIs ==
  ASSUME NEW e, NEW S
  PROVE  /\ IsCompound(e) \/ IsCombined(e) => Wrap(e) = e
         /\ ~IsCompound(e) /\ ~IsCombined(e) => Wrap(e) = Compound(<<e>>, <<>>, <<>>, <<>>, 0)
BY DEF Wrap

LEMMA ResolveCompound ==
  ASSUME NEW e \in Expression, ~IsCombined(e), NEW negated \in BOOLEAN
  PROVE  Resolve[e][negated] = IF negated THEN NegateCompound(e) ELSE e
<1>1. Resolve[e] = ResolveRule(Resolve, e)
  BY ResolveDef
<1> QED BY <1>1 DEF ResolveRule

\* De Morgan's laws.
LEMMA ResolveNot ==
  ASSUME NEW e \in Expression, e.py = "NOT", NEW negated \in BOOLEAN
  PROVE  Resolve[e][negated] = Resolve[e.args[1][1]][~negated]
<1>1. Resolve[e] = ResolveRule(Resolve, e)
  BY ResolveDef
<1>2. IsCombined(e) /\ Negate(e.py) = "NOT"
  BY DEF IsCombined, CombinedClass, Negate
<1> QED BY <1>1, <1>2 DEF ResolveRule

LEMMA ResolveBoth ==
  ASSUME NEW e \in Expression, e.py \in {"AND", "OR"}, NEW negated \in BOOLEAN, NEW both,
         both = [i \in DOMAIN e.args[1] |-> Resolve[e.args[1][i]][negated]]
  PROVE  Resolve[e][negated] = IF (e.py = "AND") # negated
                               THEN Compound(both, <<>>, <<>>, <<>>, 0)
                               ELSE Compound(<<>>, <<>>, both, <<>>, 1)
<1>1. Resolve[e] = ResolveRule(Resolve, e)
  BY ResolveDef
<1>2. IsCombined(e)
  BY DEF IsCombined, CombinedClass
<1> DEFINE operator == IF negated THEN Negate(e.py) ELSE e.py
<1>3. Resolve[e][negated] =
        IF operator = "NOT" THEN Resolve[e.args[1][1]][~negated]
        ELSE IF operator = "AND" THEN Compound(both, <<>>, <<>>, <<>>, 0)
        ELSE Compound(<<>>, <<>>, both, <<>>, 1)
  BY <1>1, <1>2 DEF ResolveRule
<1>4. operator = IF (e.py = "AND") # negated THEN "AND" ELSE "OR"
  BY DEF Negate
<1> HIDE DEF operator
<1> QED BY <1>3, <1>4

LEMMA TupleIsSequence ==
  ASSUME NEW S, NEW n \in Nat, NEW s \in [1 .. n -> S]
  PROVE  s \in Seq(S)
OBVIOUS

\* The clauses of what a conjunction or a disjunction becomes.
IsPair(e, S, negated) ==
  \E both \in Seq(S) :
    /\ DOMAIN both = {1, 2}
    /\ both[1] = Resolve[e.args[1][1]][negated] /\ both[2] = Resolve[e.args[1][2]][negated]
    /\ (e.py = "AND") # negated => IsMadeOf(Resolve[e][negated], S, both, <<>>, <<>>, <<>>, 0)
    /\ (e.py = "AND") = negated => IsMadeOf(Resolve[e][negated], S, <<>>, <<>>, both, <<>>, 1)

LEMMA ResolvePair ==
  ASSUME NEW S, NEW e \in Combinations(Expression), e \in Expression, e.py # "NOT",
         NEW negated \in BOOLEAN,
         Resolve[e.args[1][1]][negated] \in S, Resolve[e.args[1][2]][negated] \in S
  PROVE  IsPair(e, S, negated)
<1>1. e.py \in {"AND", "OR"} /\ DOMAIN e.args[1] = {1, 2}
  BY CombinedShape
<1> DEFINE both == [i \in DOMAIN e.args[1] |-> Resolve[e.args[1][i]][negated]]
<1>2. /\ DOMAIN both = {1, 2}
      /\ both[1] = Resolve[e.args[1][1]][negated] /\ both[2] = Resolve[e.args[1][2]][negated]
  BY <1>1
<1>3. both \in Seq(S)
  <2>1. both \in [1 .. 2 -> S]
    <3>1. 1 .. 2 = {1, 2}
      OBVIOUS
    <3> QED BY <1>1, <3>1
  <2> HIDE DEF both
  <2> QED BY <2>1, TupleIsSequence
<1>4. PICK none \in Seq(S) : none = <<>>
  BY NoneIsSequence
<1>5. Resolve[e][negated] = IF (e.py = "AND") # negated
                            THEN Compound(both, <<>>, <<>>, <<>>, 0)
                            ELSE Compound(<<>>, <<>>, both, <<>>, 1)
  BY <1>1, ResolveBoth
<1> HIDE DEF both
<1>6. IsMadeOf(Compound(both, none, none, none, 0), S, both, none, none, none, 0)
  BY <1>3, CompoundIs
<1>7. IsMadeOf(Compound(none, none, both, none, 1), S, none, none, both, none, 1)
  BY <1>3, CompoundIs
<1> QED BY <1>2, <1>3, <1>4, <1>5, <1>6, <1>7 DEF IsPair

LEMMA CompoundsGrow ==
  ASSUME NEW S, NEW T, S \subseteq T
  PROVE  Compounds(S) \subseteq Compounds(T)
BY SequencesGrow DEF Compounds

LEMMA CompoundInLevel ==
  ASSUME NEW h \in Nat, h + 1 <= Height + 2
  PROVE  /\ ExpressionsUpTo[h] \subseteq ExpressionsUpTo[h + 1]
         /\ Singles \subseteq ExpressionsUpTo[h + 1]
         /\ Compounds(ExpressionsUpTo[h]) \subseteq ExpressionsUpTo[h + 1]
         /\ Combinations(ExpressionsUpTo[h]) \subseteq ExpressionsUpTo[h + 1]
<1>1. ExpressionsUpTo[h + 1] = Made("expression", ExpressionsUpTo[h])
  BY LevelNext DEF Level, Kinds
<1>2. ExpressionsUpTo[h] \subseteq ExpressionsUpTo[h + 1]
  BY LevelGrows DEF Level, Kinds
<1> HIDE DEF Singles, Compounds, Combinations
<1> QED BY <1>1, <1>2 DEF Made

LEMMA LevelIsExpression ==
  ASSUME NEW h \in Nat, h <= Height + 2
  PROVE  ExpressionsUpTo[h] \subseteq Expression
<1>1. Height + 2 \in Nat /\ Height + 2 <= Height + 2
  BY SearchPipelineAssumption
<1> QED BY <1>1, LevelWithin DEF Level, Kinds, Expression

\* Neither Python nor resolve() makes an expression much higher.
IsReady(h) ==
  \A e \in ExpressionsUpTo[h] :
    /\ Build[e] \in ExpressionsUpTo[h + 1]
    /\ Wrap(Build[e]) \in ExpressionsUpTo[h + 1]
    /\ \A negated \in BOOLEAN :
         Resolve[Wrap(Build[e])][negated] \in Compounds(ExpressionsUpTo[h + 1])

LEMMA ReadyStep ==
  ASSUME NEW h \in Nat, h + 1 <= Height, IsReady(h)
  PROVE  IsReady(h + 1)
<1> DEFINE k == h + 1
<1>1. /\ k \in Nat /\ k <= Height + 2 /\ h + 1 = k /\ k + 1 <= Height + 2 /\ k + 1 \in Nat
      /\ h \in Nat /\ h + 1 <= Height + 2 /\ h <= Height + 2
  BY SearchPipelineAssumption
<1> HIDE DEF k
<1> SUFFICES ASSUME NEW e \in ExpressionsUpTo[k]
             PROVE  /\ Build[e] \in ExpressionsUpTo[k + 1]
                    /\ Wrap(Build[e]) \in ExpressionsUpTo[k + 1]
                    /\ \A negated \in BOOLEAN :
                         Resolve[Wrap(Build[e])][negated] \in Compounds(ExpressionsUpTo[k + 1])
  BY <1>1 DEF IsReady
<1>2. e \in Expression /\ ExpressionsUpTo[k + 1] \subseteq Expression
      /\ ExpressionsUpTo[k] \subseteq Expression /\ ExpressionsUpTo[h] \subseteq Expression
  BY <1>1, LevelIsExpression
<1>3. /\ ExpressionsUpTo[k] \subseteq ExpressionsUpTo[k + 1]
      /\ Compounds(ExpressionsUpTo[k]) \subseteq ExpressionsUpTo[k + 1]
      /\ Combinations(ExpressionsUpTo[k]) \subseteq ExpressionsUpTo[k + 1]
  BY <1>1, CompoundInLevel
<1>4. Compounds(ExpressionsUpTo[k]) \subseteq Compounds(ExpressionsUpTo[k + 1])
  BY <1>3, CompoundsGrow
<1>5. ASSUME NEW x \in ExpressionsUpTo[h]
      PROVE  /\ Build[x] \in ExpressionsUpTo[k] /\ Wrap(Build[x]) \in ExpressionsUpTo[k]
             /\ \A negated \in BOOLEAN :
                  Resolve[Wrap(Build[x])][negated] \in Compounds(ExpressionsUpTo[k])
  BY <1>1 DEF IsReady
\* A compound is left alone, or negated as a whole.
<1>6. ASSUME NEW m \in Compounds(ExpressionsUpTo[k]), Wrap(Build[e]) = m
      PROVE  /\ Wrap(Build[e]) \in ExpressionsUpTo[k + 1]
             /\ \A negated \in BOOLEAN :
                  Resolve[Wrap(Build[e])][negated] \in Compounds(ExpressionsUpTo[k + 1])
  <2>1. m \in ExpressionsUpTo[k + 1] /\ m \in Expression
    BY <1>2, <1>3
  <2>2. ~IsCombined(m)
    BY CompoundShape
  <2>3. NegateCompound(m) \in Compounds(ExpressionsUpTo[k + 1])
    BY <2>1, NegateCompoundIs
  <2>4. \A negated \in BOOLEAN : Resolve[m][negated] = IF negated THEN NegateCompound(m) ELSE m
    BY <2>1, <2>2, ResolveCompound
  <2> QED BY <1>4, <1>6, <2>1, <2>3, <2>4
<1>7. CASE e \in Singles
  <2>1. Build[e] = e /\ ~IsCompound(e) /\ ~IsCombined(e)
    BY <1>2, <1>7, BuildSingle, SingleShape
  <2>2. PICK m : m = Compound(<<e>>, <<>>, <<>>, <<>>, 0)
    OBVIOUS
  <2>3. Wrap(Build[e]) = m
    BY <2>1, <2>2, WrapIs
  <2>4. m \in Compounds(ExpressionsUpTo[k])
    BY <2>2, MustIs
  <2> QED BY <1>3, <1>6, <2>1, <2>3, <2>4
<1>8. CASE e \in Compounds(ExpressionsUpTo[h])
  <2>1. Build[e] \in Compounds(ExpressionsUpTo[k])
    BY <1>2, <1>5, <1>8, BuildCompound
  <2>2. Wrap(Build[e]) = Build[e]
    <3>1. IsCompound(Build[e])
      BY <2>1, CompoundShape
    <3> QED BY <3>1, WrapIs
  <2> QED BY <1>3, <1>6, <2>1, <2>2
<1>9. CASE e \in Combinations(ExpressionsUpTo[h])
  <2>1. /\ Build[e] \in Combinations(ExpressionsUpTo[k]) /\ Build[e].py = e.py
        /\ Build[e].args[1][1] = Wrap(Build[e.args[1][1]])
        /\ e.py # "NOT" => Build[e].args[1][2] = Wrap(Build[e.args[1][2]])
    <3>1. \A x \in ExpressionsUpTo[h] : Wrap(Build[x]) \in ExpressionsUpTo[k]
      BY <1>5
    <3>2. IsBuiltOf(Build[e], e, ExpressionsUpTo[k])
      BY <1>2, <1>9, <3>1, BuildCombined
    <3> QED BY <3>2 DEF IsBuiltOf
  <2>2. e.args[1][1] \in ExpressionsUpTo[h] /\ (e.py # "NOT" => e.args[1][2] \in ExpressionsUpTo[h])
    BY <1>9, CombinedShape
  <2>3. Wrap(Build[e]) = Build[e]
    <3>1. IsCombined(Build[e])
      BY <2>1, CombinedShape
    <3> QED BY <3>1, WrapIs
  <2>4. Build[e] \in ExpressionsUpTo[k + 1] /\ Build[e] \in Expression
    BY <1>2, <1>3, <2>1
  <2>5. ASSUME NEW negated \in BOOLEAN
        PROVE  Resolve[Build[e]][negated] \in Compounds(ExpressionsUpTo[k + 1])
    <3>1. (~negated) \in BOOLEAN
      OBVIOUS
    <3>2. CASE e.py = "NOT"
      <4>1. Resolve[Build[e]][negated] = Resolve[Wrap(Build[e.args[1][1]])][~negated]
        BY <2>1, <2>4, <3>2, ResolveNot
      <4> QED BY <1>4, <1>5, <2>2, <3>1, <4>1
    <3>3. CASE e.py # "NOT"
      <4>1. /\ Resolve[Build[e].args[1][1]][negated] \in Compounds(ExpressionsUpTo[k])
            /\ Resolve[Build[e].args[1][2]][negated] \in Compounds(ExpressionsUpTo[k])
        BY <1>5, <2>1, <2>2, <3>3
      <4>2. /\ Resolve[Build[e].args[1][1]][negated] \in ExpressionsUpTo[k + 1]
            /\ Resolve[Build[e].args[1][2]][negated] \in ExpressionsUpTo[k + 1]
        BY <1>3, <4>1
      <4>3. Build[e] \in Combinations(Expression)
        <5>1. ~IsCompound(Build[e]) /\ IsCombined(Build[e])
          BY <2>1, CombinedShape
        <5> QED BY <2>4, <5>1, ExpressionKinds, SingleShape, CompoundShape
      <4>4. Build[e].py # "NOT"
        BY <2>1, <3>3
      <4>5. \E both : \/ IsMadeOf(Resolve[Build[e]][negated], ExpressionsUpTo[k + 1],
                                  both, <<>>, <<>>, <<>>, 0)
                      \/ IsMadeOf(Resolve[Build[e]][negated], ExpressionsUpTo[k + 1],
                                  <<>>, <<>>, both, <<>>, 1)
        <5>1. IsPair(Build[e], ExpressionsUpTo[k + 1], negated)
          BY <2>4, <4>2, <4>3, <4>4, ResolvePair
        <5> QED BY <5>1 DEF IsPair
      <4> QED BY <4>5 DEF IsMadeOf
    <3> QED BY <3>2, <3>3
  <2> QED BY <2>3, <2>4, <2>5
<1>10. e \in Singles \/ e \in Compounds(ExpressionsUpTo[h]) \/ e \in Combinations(ExpressionsUpTo[h])
  BY <1>1, ExpressionShape
<1> QED BY <1>7, <1>8, <1>9, <1>10

LEMMA WrittenIsReady ==
  ASSUME NEW e \in Written
  PROVE  /\ e \in Expression /\ Build[e] \in Expression /\ Wrap(Build[e]) \in Expression
         /\ \A negated \in BOOLEAN :
              /\ Resolve[Wrap(Build[e])][negated] \in Compounds(Expression)
              /\ Resolve[Wrap(Build[e])][negated] \in Expression
<1> DEFINE Good == {h \in Nat : h <= Height => IsReady(h)}
<1>1. 0 \in Good
  <2>1. ExpressionsUpTo[0] = {}
    BY LevelZero DEF Level, Kinds
  <2> QED BY <2>1 DEF IsReady
<1>2. ASSUME NEW h \in Nat, h \in Good PROVE h + 1 \in Good
  <2> SUFFICES ASSUME h + 1 <= Height PROVE IsReady(h + 1)
    OBVIOUS
  <2>1. h <= Height
    BY SearchPipelineAssumption
  <2> QED BY <1>2, <2>1, ReadyStep
<1> HIDE DEF Good
<1>3. PICK h \in Nat : h = Height /\ h \in Good
  BY <1>1, <1>2, Upwards, SearchPipelineAssumption
<1>4. IsReady(h)
  BY <1>3 DEF Good
<1>5. e \in ExpressionsUpTo[h]
  BY <1>3 DEF Written
<1>6. h + 1 \in Nat /\ h + 1 <= Height + 2 /\ h <= Height + 2 /\ (h + 1) + 1 <= Height + 2
      /\ (h + 1) + 1 \in Nat
  BY <1>3
<1>7. ExpressionsUpTo[h + 1] \subseteq Expression /\ ExpressionsUpTo[h] \subseteq Expression
      /\ ExpressionsUpTo[(h + 1) + 1] \subseteq Expression
  BY <1>6, LevelIsExpression
<1>8. Compounds(ExpressionsUpTo[h + 1]) \subseteq ExpressionsUpTo[(h + 1) + 1]
  BY <1>6, CompoundInLevel
<1>9. Compounds(ExpressionsUpTo[h + 1]) \subseteq Compounds(Expression)
  BY <1>7, CompoundsGrow
<1> QED BY <1>4, <1>5, <1>7, <1>8, <1>9 DEF IsReady

LEMMA WrittenKinds ==
  ASSUME NEW e \in Written
  PROVE  e \in Singles \/ e \in Compounds(Written) \/ e \in Combinations(Written)
<1>1. Height - 1 \in Nat /\ (Height - 1) + 1 = Height
  BY SearchPipelineAssumption
<1> DEFINE h == Height - 1
<1>2. h \in Nat /\ h + 1 = Height /\ h + 1 <= Height + 2
  BY <1>1
<1> HIDE DEF h
<1>3. e \in Made("expression", ExpressionsUpTo[h])
  BY <1>2, LevelNext DEF Level, Kinds, Written
<1>4. ExpressionsUpTo[h] \subseteq Written
  BY <1>2, LevelGrows DEF Level, Kinds, Written
<1>5. e \in Made("expression", Written)
  BY <1>3, <1>4, MadeGrows DEF Kinds
<1> HIDE DEF Singles, Compounds, Combinations
<1> QED BY <1>5 DEF Made

Ready(e) == Wrap(Build[e])
Final(e, negated) == Resolve[Ready(e)][negated]

LEMMA FinalIsCompound ==
  ASSUME NEW e \in Written, NEW negated \in BOOLEAN
  PROVE  /\ Final(e, negated) \in Compounds(Expression) /\ Final(e, negated) \in Expression
         /\ IsCompound(Final(e, negated)) /\ ~IsCombined(Final(e, negated))
         /\ ~IsVector(Final(e, negated))
<1>1. Final(e, negated) \in Compounds(Expression) /\ Final(e, negated) \in Expression
  BY WrittenIsReady DEF Final, Ready
<1> QED BY <1>1, CompoundShape

LEMMA ReadySingle ==
  ASSUME NEW e \in Written, e \in Singles
  PROVE  /\ Ready(e) \in Compounds(Expression) /\ Parts(Ready(e)) = {e}
         /\ Ready(e).args[1] = <<e>> /\ Ready(e).args[2] = <<>>
         /\ Ready(e).args[3] = <<>> /\ Ready(e).args[4] = <<>>
         /\ Ready(e).options["minimum"] = 0
<1>1. e \in Expression
  BY WrittenIsReady
<1>2. Build[e] = e /\ ~IsCompound(e) /\ ~IsCombined(e)
  BY <1>1, BuildSingle, SingleShape
<1>3. Ready(e) = Compound(<<e>>, <<>>, <<>>, <<>>, 0)
  BY <1>2, WrapIs DEF Ready
<1> QED BY <1>1, <1>3, MustIs

LEMMA ReadyCompound ==
  ASSUME NEW e \in Written, e \in Compounds(Written)
  PROVE  Ready(e) = Build[e] /\ Ready(e) \in Compounds(Expression)
<1>1. e \in Expression /\ \A x \in Written : Build[x] \in Expression
  BY WrittenIsReady
<1>2. Build[e] \in Compounds(Expression)
  BY <1>1, BuildCompound
<1>3. IsCompound(Build[e])
  BY <1>2, CompoundShape
<1> QED BY <1>2, <1>3, WrapIs DEF Ready

LEMMA FinalOfCompound ==
  ASSUME NEW e \in Written, Ready(e) \in Compounds(Expression)
  PROVE  /\ Final(e, FALSE) = Ready(e)
         /\ Final(e, TRUE) = NegateCompound(Ready(e))
<1>1. Ready(e) \in Expression
  BY WrittenIsReady DEF Ready
<1>2. ~IsCombined(Ready(e))
  BY CompoundShape
<1> QED BY <1>1, <1>2, ResolveCompound DEF Final

LEMMA ReadyCombined ==
  ASSUME NEW e \in Written, e \in Combinations(Written)
  PROVE  /\ Ready(e) = Build[e] /\ Ready(e) \in Combinations(Expression) /\ Ready(e).py = e.py
         /\ Ready(e).args[1][1] = Ready(e.args[1][1])
         /\ e.py # "NOT" => Ready(e).args[1][2] = Ready(e.args[1][2])
         /\ e.args[1][1] \in Written
         /\ e.py # "NOT" => e.args[1][2] \in Written
<1>1. e \in Expression /\ \A x \in Written : Wrap(Build[x]) \in Expression
  BY WrittenIsReady
<1>2. /\ Build[e] \in Combinations(Expression) /\ Build[e].py = e.py
      /\ Build[e].args[1][1] = Wrap(Build[e.args[1][1]])
      /\ e.py # "NOT" => Build[e].args[1][2] = Wrap(Build[e.args[1][2]])
  <2>1. \A x \in Written : Wrap(Build[x]) \in Expression
    BY <1>1
  <2>2. IsBuiltOf(Build[e], e, Expression)
    BY <1>1, <2>1, BuildCombined
  <2> QED BY <2>2 DEF IsBuiltOf
<1>3. IsCombined(Build[e])
  BY <1>2, CombinedShape
<1>4. e.args[1][1] \in Written /\ (e.py # "NOT" => e.args[1][2] \in Written)
  BY CombinedShape
<1> QED BY <1>2, <1>3, <1>4, WrapIs DEF Ready

LEMMA FinalOfNot ==
  ASSUME NEW e \in Written, e \in Combinations(Written), e.py = "NOT", NEW negated \in BOOLEAN
  PROVE  /\ e.args[1][1] \in Written
         /\ Final(e, negated) = Final(e.args[1][1], ~negated)
<1>1. Ready(e).py = "NOT" /\ Ready(e).args[1][1] = Ready(e.args[1][1]) /\ e.args[1][1] \in Written
  BY ReadyCombined
<1>2. Ready(e) \in Expression
  BY WrittenIsReady DEF Ready
<1> QED BY <1>1, <1>2, ResolveNot DEF Final

IsFinalPair(e, negated) ==
  \E both \in Seq(Expression) :
    /\ DOMAIN both = {1, 2}
    /\ both[1] = Final(e.args[1][1], negated) /\ both[2] = Final(e.args[1][2], negated)
    /\ (e.py = "AND") # negated =>
         IsMadeOf(Final(e, negated), Expression, both, <<>>, <<>>, <<>>, 0)
    /\ (e.py = "AND") = negated =>
         IsMadeOf(Final(e, negated), Expression, <<>>, <<>>, both, <<>>, 1)

LEMMA FinalOfPair ==
  ASSUME NEW e \in Written, e \in Combinations(Written), e.py # "NOT", NEW negated \in BOOLEAN
  PROVE  /\ e.args[1][1] \in Written /\ e.args[1][2] \in Written
         /\ IsFinalPair(e, negated)
<1>1. /\ Ready(e) \in Combinations(Expression) /\ Ready(e).py = e.py
      /\ Ready(e).args[1][1] = Ready(e.args[1][1]) /\ Ready(e).args[1][2] = Ready(e.args[1][2])
      /\ e.args[1][1] \in Written /\ e.args[1][2] \in Written
  BY ReadyCombined
<1>2. Ready(e) \in Expression
  BY WrittenIsReady DEF Ready
<1>3. Final(e.args[1][1], negated) \in Expression /\ Final(e.args[1][2], negated) \in Expression
  BY <1>1, FinalIsCompound
<1>4. /\ Resolve[Ready(e).args[1][1]][negated] \in Expression
      /\ Resolve[Ready(e).args[1][2]][negated] \in Expression
  BY <1>1, <1>3 DEF Final
<1>5. IsPair(Ready(e), Expression, negated)
  BY <1>1, <1>2, <1>4, ResolvePair
<1>6. IsFinalPair(e, negated)
  BY <1>1, <1>5 DEF IsPair, IsFinalPair, Final
<1> QED BY <1>1, <1>6

-----------------------------------------------------------------------------
(* What is refused stays recognisable.                                     *)

LEMMA SingleHoldsNothing ==
  ASSUME NEW e \in Expression, e \in Singles
  PROVE  ~HoldsVector(e) /\ ~HoldsCombined(e) /\ ~IsMixed(e)
<1>1. Parts(e) = {} /\ ~IsCompound(e)
  BY SingleShape
<1> QED BY <1>1, HoldsVectorIs, HoldsCombinedIs, IsMixedIs

LEMMA WrapHolds ==
  ASSUME NEW b \in Expression, Wrap(b) \in Expression
  PROVE  /\ IsVector(Wrap(b)) \/ HoldsVector(Wrap(b)) <=> IsVector(b) \/ HoldsVector(b)
         /\ IsCombined(Wrap(b)) \/ HoldsCombined(Wrap(b)) <=> IsCombined(b) \/ HoldsCombined(b)
         /\ IsMixed(Wrap(b)) <=> IsMixed(b)
<1>1. CASE IsCompound(b) \/ IsCombined(b)
  BY <1>1, WrapIs
<1>2. CASE ~IsCompound(b) /\ ~IsCombined(b)
  <2>1. PICK m : m = Compound(<<b>>, <<>>, <<>>, <<>>, 0) /\ m = Wrap(b)
    BY <1>2, WrapIs
  <2>2. m \in Compounds(Expression) /\ Parts(m) = {b} /\ m \in Expression
    BY <2>1, MustIs
  <2>3. ~IsVector(m) /\ ~IsCombined(m) /\ IsCompound(m)
    BY <2>2, CompoundShape
  <2>4. b \in Singles
    BY <1>2, ExpressionKinds, CompoundShape, CombinedShape
  <2>5. ~HoldsVector(b) /\ ~HoldsCombined(b) /\ ~IsMixed(b)
    BY <2>4, SingleHoldsNothing
  <2>6. /\ HoldsVector(m) <=> IsVector(b) \/ HoldsVector(b)
        /\ HoldsCombined(m) <=> IsCombined(b) \/ HoldsCombined(b)
        /\ IsMixed(m) <=> HoldsCombined(m) \/ IsMixed(b)
    BY <2>2, <2>3, HoldsVectorIs, HoldsCombinedIs, IsMixedIs
  <2> QED BY <1>2, <2>1, <2>3, <2>5, <2>6
<1> QED BY <1>1, <1>2

LEMMA BuildHolds ==
  ASSUME NEW e \in Written
  PROVE  /\ HoldsVector(Build[e]) <=> HoldsVector(e)
         /\ HoldsCombined(Build[e]) <=> HoldsCombined(e)
         /\ IsMixed(Build[e]) <=> IsMixed(e)
<1> DEFINE Good == {x \in Written : /\ HoldsVector(Build[x]) <=> HoldsVector(x)
                                    /\ HoldsCombined(Build[x]) <=> HoldsCombined(x)
                                    /\ IsMixed(Build[x]) <=> IsMixed(x)}
<1>1. ASSUME NEW x \in Written, Parts(x) \subseteq Good PROVE x \in Good
  <2>1. x \in Expression /\ Build[x] \in Expression
    BY WrittenIsReady
  <2>2. Build[x].py = x.py
    BY <2>1, BuildIs
  <2>3. IsCompound(Build[x]) <=> IsCompound(x)
    BY <2>2 DEF IsCompound
  <2>4. Parts(x) \subseteq Written
    BY WrittenParts
  <2> DEFINE Made1(y) == IF IsCombined(x) THEN Wrap(Build[y]) ELSE Build[y]
  <2>5. Parts(Build[x]) = {Made1(y) : y \in Parts(x)}
    BY <2>1, BuildParts
  <2>6. ASSUME NEW y \in Parts(x)
        PROVE  /\ IsVector(Made1(y)) \/ HoldsVector(Made1(y)) <=> IsVector(y) \/ HoldsVector(y)
               /\ IsCombined(Made1(y)) \/ HoldsCombined(Made1(y))
                    <=> IsCombined(y) \/ HoldsCombined(y)
               /\ IsMixed(Made1(y)) <=> IsMixed(y)
    <3>1. y \in Expression /\ Build[y] \in Expression /\ Wrap(Build[y]) \in Expression
      BY <2>4, WrittenIsReady
    <3>2. Build[y].py = y.py
      BY <3>1, BuildIs
    <3>3. /\ IsVector(Build[y]) <=> IsVector(y)
          /\ IsCombined(Build[y]) <=> IsCombined(y)
      BY <3>2 DEF IsVector, IsCombined
    <3>4. /\ HoldsVector(Build[y]) <=> HoldsVector(y)
          /\ HoldsCombined(Build[y]) <=> HoldsCombined(y)
          /\ IsMixed(Build[y]) <=> IsMixed(y)
      BY <1>1
    <3> QED BY <3>1, <3>3, <3>4, WrapHolds
  <2> HIDE DEF Made1
  <2>7. /\ HoldsVector(Build[x]) <=> \E z \in Parts(Build[x]) : IsVector(z) \/ HoldsVector(z)
        /\ HoldsCombined(Build[x]) <=> \E z \in Parts(Build[x]) : IsCombined(z) \/ HoldsCombined(z)
        /\ IsMixed(Build[x]) <=> \/ IsCompound(Build[x]) /\ HoldsCombined(Build[x])
                                 \/ \E z \in Parts(Build[x]) : IsMixed(z)
    BY <2>1, HoldsVectorIs, HoldsCombinedIs, IsMixedIs
  <2>8. /\ HoldsVector(x) <=> \E y \in Parts(x) : IsVector(y) \/ HoldsVector(y)
        /\ HoldsCombined(x) <=> \E y \in Parts(x) : IsCombined(y) \/ HoldsCombined(y)
        /\ IsMixed(x) <=> (IsCompound(x) /\ HoldsCombined(x)) \/ \E y \in Parts(x) : IsMixed(y)
    BY <2>1, HoldsVectorIs, HoldsCombinedIs, IsMixedIs
  <2>9. HoldsVector(Build[x]) <=> HoldsVector(x)
    BY <2>5, <2>6, <2>7, <2>8
  <2>10. HoldsCombined(Build[x]) <=> HoldsCombined(x)
    BY <2>5, <2>6, <2>7, <2>8
  <2>11. IsMixed(Build[x]) <=> IsMixed(x)
    BY <2>3, <2>5, <2>6, <2>7, <2>8, <2>10
  <2> QED BY <2>9, <2>10, <2>11
<1> HIDE DEF Good
<1>2. Written \subseteq Good
  BY <1>1, WrittenInduction
<1> QED BY <1>2 DEF Good

LEMMA FinalHolds ==
  ASSUME NEW e \in Written, NEW negated \in BOOLEAN
  PROVE  /\ HoldsVector(Final(e, negated)) <=> IsVector(e) \/ HoldsVector(e)
         /\ HoldsCombined(Final(e, negated)) <=> IsMixed(e)
<1> DEFINE Good == {x \in Written : \A n \in BOOLEAN :
                      /\ HoldsVector(Final(x, n)) <=> IsVector(x) \/ HoldsVector(x)
                      /\ HoldsCombined(Final(x, n)) <=> IsMixed(x)}
<1>1. ASSUME NEW x \in Written, Parts(x) \subseteq Good PROVE x \in Good
  <2> SUFFICES ASSUME NEW n \in BOOLEAN
               PROVE  /\ HoldsVector(Final(x, n)) <=> IsVector(x) \/ HoldsVector(x)
                      /\ HoldsCombined(Final(x, n)) <=> IsMixed(x)
    OBVIOUS
  <2>1. x \in Expression /\ Build[x] \in Expression /\ Ready(x) \in Expression
    BY WrittenIsReady DEF Ready
  <2>2. Final(x, n) \in Expression
    BY FinalIsCompound
  \* A compound is left alone, or negated as a whole.
  <2>3. ASSUME Ready(x) \in Compounds(Expression),
               HoldsVector(Ready(x)) <=> IsVector(x) \/ HoldsVector(x),
               HoldsCombined(Ready(x)) <=> IsMixed(x)
        PROVE  /\ HoldsVector(Final(x, n)) <=> IsVector(x) \/ HoldsVector(x)
               /\ HoldsCombined(Final(x, n)) <=> IsMixed(x)
    <3>1. CASE ~n
      BY <2>3, <3>1, FinalOfCompound
    <3>2. CASE n
      <4>1. Final(x, n) = NegateCompound(Ready(x))
        BY <2>3, <3>2, FinalOfCompound
      <4>2. Parts(Final(x, n)) = {Ready(x)}
        BY <2>1, <4>1, NegateCompoundIs
      <4>3. ~IsVector(Ready(x)) /\ ~IsCombined(Ready(x))
        BY <2>3, CompoundShape
      <4> QED BY <2>2, <2>3, <4>2, <4>3, HoldsVectorIs, HoldsCombinedIs
    <3> QED BY <3>1, <3>2
  <2>4. CASE x \in Singles
    <3>1. Ready(x) \in Compounds(Expression) /\ Parts(Ready(x)) = {x}
      BY <2>4, ReadySingle
    <3>2. ~HoldsVector(x) /\ ~HoldsCombined(x) /\ ~IsMixed(x) /\ ~IsCombined(x)
      BY <2>1, <2>4, SingleHoldsNothing, SingleShape
    <3>3. /\ HoldsVector(Ready(x)) <=> IsVector(x) \/ HoldsVector(x)
          /\ HoldsCombined(Ready(x)) <=> IsMixed(x)
      BY <2>1, <3>1, <3>2, HoldsVectorIs, HoldsCombinedIs
    <3> QED BY <2>3, <3>1, <3>3
  <2>5. CASE x \in Compounds(Written)
    <3>1. Ready(x) = Build[x] /\ Ready(x) \in Compounds(Expression)
      BY <2>5, ReadyCompound
    <3>2. ~IsVector(x) /\ IsCompound(x)
      BY <2>5, CompoundShape
    <3>3. /\ HoldsVector(Ready(x)) <=> IsVector(x) \/ HoldsVector(x)
          /\ HoldsCombined(Ready(x)) <=> IsMixed(x)
      BY <2>1, <3>1, <3>2, BuildHolds, MixedCompound
    <3> QED BY <2>3, <3>1, <3>3
  <2>6. CASE x \in Combinations(Written) /\ x.py = "NOT"
    <3>1. x.args[1][1] \in Written /\ Final(x, n) = Final(x.args[1][1], ~n)
      BY <2>6, FinalOfNot
    <3>2. Parts(x) = {x.args[1][1]} /\ ~IsVector(x) /\ ~IsCompound(x)
      BY <2>6, CombinedShape
    <3>3. (~n) \in BOOLEAN /\ x.args[1][1] \in Good
      BY <1>1, <3>2
    <3>4. /\ HoldsVector(Final(x, n)) <=> IsVector(x.args[1][1]) \/ HoldsVector(x.args[1][1])
          /\ HoldsCombined(Final(x, n)) <=> IsMixed(x.args[1][1])
      BY <3>1, <3>3
    <3> QED BY <2>1, <3>2, <3>4, HoldsVectorIs, IsMixedIs
  <2>7. CASE x \in Combinations(Written) /\ x.py # "NOT"
    <3>1. /\ x.args[1][1] \in Written /\ x.args[1][2] \in Written
          /\ IsFinalPair(x, n)
      BY <2>7, FinalOfPair
    <3>2. Parts(x) = {x.args[1][1], x.args[1][2]} /\ ~IsVector(x) /\ ~IsCompound(x)
      BY <2>7, CombinedShape
    <3>3. Parts(Final(x, n)) = {Final(x.args[1][1], n), Final(x.args[1][2], n)}
      <4>1. PICK both : /\ DOMAIN both = {1, 2}
                        /\ both[1] = Final(x.args[1][1], n) /\ both[2] = Final(x.args[1][2], n)
                        /\ \/ IsMadeOf(Final(x, n), Expression, both, <<>>, <<>>, <<>>, 0)
                           \/ IsMadeOf(Final(x, n), Expression, <<>>, <<>>, both, <<>>, 1)
        BY <3>1 DEF IsFinalPair
      <4>2. Elements(both) = {Final(x.args[1][1], n), Final(x.args[1][2], n)}
        BY <4>1 DEF Elements
      <4>3. Elements(<<>>) = {}
        BY NoneIsSequence DEF Elements
      <4> QED BY <4>1, <4>2, <4>3 DEF IsMadeOf
    <3>4. /\ ~IsVector(Final(x.args[1][1], n)) /\ ~IsCombined(Final(x.args[1][1], n))
          /\ ~IsVector(Final(x.args[1][2], n)) /\ ~IsCombined(Final(x.args[1][2], n))
      BY <3>1, FinalIsCompound
    <3>5. x.args[1][1] \in Good /\ x.args[1][2] \in Good
      BY <1>1, <3>2
    <3>6. HoldsVector(Final(x, n)) <=> IsVector(x) \/ HoldsVector(x)
      BY <2>1, <2>2, <3>2, <3>3, <3>4, <3>5, HoldsVectorIs
    <3>7. HoldsCombined(Final(x, n)) <=> IsMixed(x)
      BY <2>1, <2>2, <3>2, <3>3, <3>4, <3>5, HoldsCombinedIs, IsMixedIs
    <3> QED BY <3>6, <3>7
  <2> QED BY <2>4, <2>5, <2>6, <2>7, WrittenKinds
<1> HIDE DEF Good
<1>2. Written \subseteq Good
  BY <1>1, WrittenInduction
<1> QED BY <1>2 DEF Good

-----------------------------------------------------------------------------
(* Refused queries.                                                        *)

LEMMA SinglesAreWritten == Singles \subseteq Written
<1>1. Height - 1 \in Nat /\ (Height - 1) + 1 = Height
  BY SearchPipelineAssumption
<1> DEFINE h == Height - 1
<1>2. h \in Nat /\ h + 1 = Height /\ h + 1 <= Height + 2
  BY <1>1
<1> HIDE DEF h
<1>3. Singles \subseteq ExpressionsUpTo[h + 1]
  BY <1>2, CompoundInLevel
<1> QED BY <1>2, <1>3 DEF Written

LEMMA LookupIsSingle ==
  ASSUME NEW l \in [paths : SUBSET Field, value : SUBSET Int]
  PROVE  /\ SearchTextLookup(l) \in Singles /\ ~IsVector(SearchTextLookup(l))
         /\ SearchTextLookup(l) \in Written
<1> DEFINE e == SearchTextLookup(l)
<1>1. e = [py |-> "SearchText", paths |-> l.paths, value |-> l.value,
           options |-> NoOptions, args |-> <<>>]
  BY DEF SearchTextLookup, Search
<1>2. /\ NoOptions \in Options /\ \A n \in OptionName : NoOptions[n] = None
      /\ "score" \in OptionName /\ "filter" \in OptionName
  BY DEF NoOptions, Options, OptionName
<1> HIDE DEF e
<1>3. ~IsVector(e)
  BY <1>1 DEF IsVector
<1>4. e \in Singles
  <2>1. "SearchText" \in LeafClass
    BY DEF LeafClass
  <2> HIDE DEF NoOptions, OptionName, Options, OptionsOf, LeafClass, IsVector
  <2>2. e \in [py : LeafClass \cup {"SearchVector"}, paths : SUBSET Field, value : SUBSET Int,
               options : Options, args : {<<>>}]
    BY <1>1, <1>2, <2>1
  <2>3. e.options = NoOptions
    BY <1>1
  <2>4. /\ \A n \in OptionName \ OptionsOf(e.py) : e.options[n] = None
        /\ e.options["score"] # None => e.options["score"] > 0
        /\ e.options["filter"] # 0
    BY <1>2, <2>3, SearchPipelineAssumption
  <2> QED BY <1>3, <2>2, <2>4 DEF Singles
<1>5. e \in Singles /\ ~IsVector(e) /\ e \in Written
  BY <1>3, <1>4, SinglesAreWritten
<1> QED BY <1>5 DEF e

LEMMA QueryParts ==
  ASSUME query \in Query
  PROVE  /\ query.annotations \in Seq(Written)
         /\ query.lookups \in Seq([paths : SUBSET Field, value : SUBSET Int])
         /\ Searches \subseteq Written
         /\ SearchExpressions = {Build[e] : e \in Searches}
         /\ IsFiniteSet(SearchExpressions)
<1>1. /\ query.annotations \in Seq(Written)
      /\ query.lookups \in Seq([paths : SUBSET Field, value : SUBSET Int])
  BY SearchPipelineAssumption
<1>2. PICK a \in Seq(Written), l \in Seq([paths : SUBSET Field, value : SUBSET Int]) :
        a = query.annotations /\ l = query.lookups
  BY <1>1
<1>3. /\ DOMAIN a = 1 .. Len(a) /\ Len(a) \in Nat /\ \A i \in DOMAIN a : a[i] \in Written
      /\ DOMAIN l = 1 .. Len(l) /\ Len(l) \in Nat
      /\ \A i \in DOMAIN l : l[i] \in [paths : SUBSET Field, value : SUBSET Int]
  <2>1. DOMAIN a = 1 .. Len(a) /\ Len(a) \in Nat /\ \A i \in DOMAIN a : a[i] \in Written
    BY ElementsOf
  <2>2. /\ DOMAIN l = 1 .. Len(l) /\ Len(l) \in Nat
        /\ \A i \in DOMAIN l : l[i] \in [paths : SUBSET Field, value : SUBSET Int]
    BY ElementsOf
  <2> QED BY <2>1, <2>2
<1>4. /\ Searches = {a[i] : i \in DOMAIN a} \cup {SearchTextLookup(l[i]) : i \in DOMAIN l}
      /\ SearchExpressions = {Build[a[i]] : i \in DOMAIN a}
                               \cup {SearchTextLookup(l[i]) : i \in DOMAIN l}
  BY <1>2 DEF Searches, SearchExpressions
<1>5. ASSUME NEW i \in DOMAIN l
      PROVE  SearchTextLookup(l[i]) \in Written
             /\ Build[SearchTextLookup(l[i])] = SearchTextLookup(l[i])
  <2>1. SearchTextLookup(l[i]) \in Singles /\ SearchTextLookup(l[i]) \in Written
    BY <1>3, LookupIsSingle
  <2>2. SearchTextLookup(l[i]) \in Expression
    BY <2>1, WrittenIsReady
  <2> QED BY <2>1, <2>2, BuildSingle
<1>6. Searches \subseteq Written
  BY <1>3, <1>4, <1>5
<1>7. SearchExpressions = {Build[e] : e \in Searches}
  BY <1>4, <1>5
<1>8. IsFiniteSet(SearchExpressions)
  <2>1. IsFiniteSet(1 .. Len(a)) /\ IsFiniteSet(1 .. Len(l))
    BY <1>3, FS_Interval
  <2>2. IsFiniteSet(DOMAIN a) /\ IsFiniteSet(DOMAIN l)
    BY <1>3, <2>1
  <2>3. IsFiniteSet({Build[a[i]] : i \in DOMAIN a})
    <3> DEFINE f == [i \in DOMAIN a |-> Build[a[i]]]
    <3>1. f \in Surjection(DOMAIN a, {Build[a[i]] : i \in DOMAIN a})
      BY DEF Surjection
    <3> HIDE DEF f
    <3> QED BY <2>2, <3>1, FS_Surjection
  <2>4. IsFiniteSet({SearchTextLookup(l[i]) : i \in DOMAIN l})
    <3> DEFINE f == [i \in DOMAIN l |-> SearchTextLookup(l[i])]
    <3>1. f \in Surjection(DOMAIN l, {SearchTextLookup(l[i]) : i \in DOMAIN l})
      BY DEF Surjection
    <3> HIDE DEF f
    <3> QED BY <2>2, <3>1, FS_Surjection
  <2> QED BY <1>4, <2>3, <2>4, FS_Union
<1> QED BY <1>1, <1>6, <1>7, <1>8

\* The expression of which the stage is made.
Sent(e) == IF IsCombined(e) THEN Final(e, FALSE) ELSE Build[e]

LEMMA SentHolds ==
  ASSUME NEW e \in Written, ~IsVector(e)
  PROVE  /\ Sent(e) \in Expression /\ ~IsCombined(Sent(e)) /\ ~IsVector(Sent(e))
         /\ HoldsVector(Sent(e)) <=> HoldsVector(e)
         /\ HoldsCombined(Sent(e)) <=> IsMixed(e)
<1>1. e \in Expression /\ Build[e] \in Expression
  BY WrittenIsReady
<1>2. CASE IsCombined(e)
  BY <1>2, FinalIsCompound, FinalHolds DEF Sent
<1>3. CASE ~IsCombined(e)
  <2>1. Sent(e) = Build[e] /\ Build[e].py = e.py
    BY <1>1, <1>3, BuildIs DEF Sent
  <2>2. ~IsCombined(Sent(e)) /\ ~IsVector(Sent(e))
    BY <1>3, <2>1 DEF IsCombined, IsVector
  <2>3. HoldsVector(Sent(e)) <=> HoldsVector(e)
    BY <2>1, BuildHolds
  <2>4. HoldsCombined(e) <=> IsMixed(e)
    <3>1. CASE IsCompound(e)
      BY <1>1, <3>1, MixedCompound
    <3>2. CASE ~IsCompound(e)
      <4>1. e \in Singles
        BY <1>1, <1>3, <3>2, ExpressionKinds, CompoundShape, CombinedShape
      <4> QED BY <1>1, <4>1, SingleHoldsNothing
    <3> QED BY <3>1, <3>2
  <2>5. HoldsCombined(Sent(e)) <=> HoldsCombined(e)
    BY <2>1, BuildHolds
  <2> QED BY <1>1, <2>1, <2>2, <2>3, <2>4, <2>5
<1> QED BY <1>2, <1>3

\* What is compiled is the stage of the expression, or an exception.
LEMMA SearchMqlIs ==
  ASSUME NEW e \in Written
  PROVE  /\ IsVector(e) => SearchMql(Build[e]) = SearchVector(e) /\ Build[e] = e
         /\ ~IsVector(e) => SearchMql(Build[e]) = CompoundStage(Sent(e))
<1>1. e \in Expression /\ Build[e] \in Expression /\ Build[e].py = e.py
  BY WrittenIsReady, BuildIs
<1>2. (IsVector(Build[e]) <=> IsVector(e)) /\ (IsCombined(Build[e]) <=> IsCombined(e))
  BY <1>1 DEF IsVector, IsCombined
<1>3. CASE IsVector(e)
  <2>1. e \in Singles
    BY <1>1, <1>3, ExpressionKinds, CompoundShape, CombinedShape
  <2>2. Build[e] = e
    BY <1>1, <2>1, BuildSingle
  <2> QED BY <1>3, <2>2 DEF SearchMql
<1>4. CASE ~IsVector(e) /\ IsCombined(e)
  <2>1. Final(e, FALSE) = Resolve[Build[e]][FALSE]
    BY <1>2, <1>4, WrapIs DEF Final, Ready
  <2> QED BY <1>2, <1>4, <2>1 DEF SearchMql, Sent
<1>5. CASE ~IsVector(e) /\ ~IsCombined(e)
  BY <1>2, <1>5 DEF SearchMql, Sent
<1> QED BY <1>3, <1>4, <1>5

VectorOperator(e) ==
  Operator("vectorSearch", e, {"limit"} \cup Truthy(e, {"exact", "numCandidates", "filter"}))

LEMMA SearchVectorIs ==
  ASSUME NEW e \in Singles, IsVector(e)
  PROVE  /\ SearchVector(e).raises = "" /\ SearchVector(e).name = VectorIndex(e.paths).name
         /\ SearchVector(e).stage = <<VectorOperator(e)>>
<1>1. PICK x : VectorIndex(e.paths) = Uses(x)
  BY DEF VectorIndex
<1>2. SearchVector(e) = [Uses(x) EXCEPT !.stage = <<VectorOperator(e)>>]
  <2>1. e.options["limit"] \in Int
    BY SingleShape
  <2>2. NotNone(e, {"limit"}) = {"limit"}
    BY <2>1, SearchPipelineAssumption DEF NotNone
  <2> QED BY <1>1, <2>2 DEF SearchVector, VectorOperator
<1> HIDE DEF VectorOperator
<1>3. \A s : [Uses(x) EXCEPT !.stage = s].raises = "" /\ [Uses(x) EXCEPT !.stage = s].stage = s
           /\ [Uses(x) EXCEPT !.stage = s].name = x /\ Uses(x).name = x
  BY DEF Uses
<1> QED BY <1>1, <1>2, <1>3

LEMMA StageRaises ==
  ASSUME NEW e \in Written
  PROVE  /\ HoldsVector(e) \/ IsMixed(e) => SearchMql(Build[e]).raises # ""
         /\ ~HoldsVector(e) /\ ~IsMixed(e) => SearchMql(Build[e]).raises \in {"", "KeyError"}
<1>1. e \in Expression
  BY WrittenIsReady
<1>2. CASE IsVector(e)
  <2>1. e \in Singles
    BY <1>1, <1>2, ExpressionKinds, CompoundShape, CombinedShape
  <2>2. ~HoldsVector(e) /\ ~IsMixed(e)
    BY <1>1, <2>1, SingleHoldsNothing
  <2> QED BY <1>2, <2>1, <2>2, SearchMqlIs, SearchVectorIs
<1>3. CASE ~IsVector(e)
  <2>1. SearchMql(Build[e]) = CompoundStage(Sent(e))
    BY <1>3, SearchMqlIs
  <2>2. /\ ~IsVector(Sent(e))
        /\ HoldsVector(Sent(e)) <=> HoldsVector(e)
        /\ HoldsCombined(Sent(e)) <=> IsMixed(e)
    BY <1>3, SentHolds
  <2>3. /\ HasClause(Sent(e), CombinedClass) <=> HoldsCombined(Sent(e))
        /\ HasClause(Sent(e), {"SearchVector"}) <=> HoldsVector(Sent(e))
    BY DEF HasClause, HoldsCombined, HoldsVector, IsCombined, IsVector
  <2> DEFINE index == SearchIndex(SearchFields(Sent(e)))
  <2>4. \E x : (index = Raises(x) /\ x = "KeyError") \/ index = Uses(x)
    BY DEF SearchIndex
  <2>5. index.raises \in {"", "KeyError"}
    <3> HIDE DEF index
    <3>1. \A x : Raises(x).raises = x /\ Uses(x).raises = ""
      BY DEF Raises, Uses
    <3> QED BY <2>4, <3>1
  <2>6. \A s : index.raises = "" => [index EXCEPT !.stage = s].raises = ""
    <3> HIDE DEF index
    <3>1. Raises("KeyError").raises = "KeyError"
      BY DEF Raises
    <3>2. \A x, s : [Uses(x) EXCEPT !.stage = s].raises = ""
      BY DEF Uses
    <3>3. PICK x : (index = Raises(x) /\ x = "KeyError") \/ index = Uses(x)
      BY <2>4
    <3>4. CASE index = Raises("KeyError")
      BY <3>1, <3>4
    <3>5. CASE index = Uses(x)
      BY <3>2, <3>5
    <3> QED BY <3>3, <3>4, <3>5
  <2>7. CompoundStage(Sent(e)) =
          IF HasClause(Sent(e), CombinedClass) THEN Raises("AttributeError")
          ELSE IF index.raises # "" THEN index
          ELSE IF IsVector(Sent(e)) \/ HasClause(Sent(e), {"SearchVector"})
          THEN Raises("NotImplementedError")
          ELSE [index EXCEPT !.stage = <<SearchOperator[Sent(e)]>>]
    BY DEF CompoundStage
  <2>8. \A x : Raises(x).raises = x
    BY DEF Raises
  <2> HIDE DEF index
  <2>9. CASE HoldsVector(e) \/ IsMixed(e)
    BY <2>1, <2>2, <2>3, <2>5, <2>7, <2>8, <2>9
  <2>10. CASE ~HoldsVector(e) /\ ~IsMixed(e)
    BY <2>1, <2>2, <2>3, <2>5, <2>6, <2>7, <2>10
  <2> QED BY <2>9, <2>10
<1> QED BY <1>2, <1>3

NotOneStage ==
  Cardinality(SearchExpressions) > 1 \/ \E e \in Searches : HoldsVector(e) \/ IsMixed(e)

LEMMA NotOneStageIs ==
  ASSUME query \in Query
  PROVE  NotOneStage <=>
           \/ Cardinality(SearchExpressions) > 1
           \/ \E e \in Searches : \E x \in {e} \cup Inside[e] : \E y \in Inside[x] :
                IsVector(y) \/ (IsCompound(x) /\ IsCombined(y))
<1>1. \A e \in Searches : e \in Expression
  BY QueryParts, WrittenIsReady
<1>2. \A e \in Searches :
        (\E x \in {e} \cup Inside[e] : \E y \in Inside[x] :
           IsVector(y) \/ (IsCompound(x) /\ IsCombined(y)))
        <=> HoldsVector(e) \/ IsMixed(e)
  BY <1>1, RefusedIs
<1> QED BY <1>2 DEF NotOneStage

\* Searches that are equal once they are built share the stage of one.
LEMMA OneStage ==
  ASSUME query \in Query, SearchExpressions # {}, ~(Cardinality(SearchExpressions) > 1)
  PROVE  /\ Searches # {}
         /\ \A e \in Searches : CompoundSearches(SearchExpressions) = SearchMql(Build[e])
<1>1. /\ SearchExpressions = {Build[e] : e \in Searches}
      /\ IsFiniteSet(SearchExpressions)
  BY QueryParts
<1>2. PICK X : X = SearchExpressions
  OBVIOUS
<1>3. PICK b : X = {b}
  <2>1. Cardinality(X) \in Nat /\ Cardinality(X) # 0
    <3>1. IsFiniteSet(X) /\ X # {}
      BY <1>1, <1>2
    <3> QED BY <3>1, FS_CardinalityType, FS_EmptySet
  <2>2. Cardinality(X) = 1
    BY <1>2, <2>1
  <2> QED BY <1>1, <1>2, <2>2, FS_Singleton
<1>4. (CHOOSE x \in X : TRUE) = b
  BY <1>3
<1>5. CompoundSearches(SearchExpressions) = SearchMql(b)
  BY <1>2, <1>4 DEF CompoundSearches
<1>6. \A e \in Searches : Build[e] = b
  BY <1>1, <1>2, <1>3
<1> QED BY <1>1, <1>5, <1>6

LEMMA Refusal ==
  ASSUME query \in Query
  PROVE  /\ NotOneStage => Compiled.raises # ""
         /\ ~NotOneStage => Compiled.raises \in {"", "KeyError"}
<1>1. /\ Searches \subseteq Written
      /\ SearchExpressions = {Build[e] : e \in Searches}
  BY QueryParts
<1>2. (\A x : Raises(x).raises = x) /\ Uses("").raises = ""
  BY DEF Raises, Uses
<1>3. CASE \E i \in DOMAIN query.annotations : BuildRaises(query.annotations[i])
  <2>1. PICK i \in DOMAIN query.annotations : BuildRaises(query.annotations[i])
    BY <1>3
  <2>2. query.annotations[i] \in Searches
    BY DEF Searches
  <2>3. query.annotations[i] \in Expression
    BY <1>1, <2>2, WrittenIsReady
  <2>4. HoldsVector(query.annotations[i])
    BY <2>1, <2>3, RaisesHoldsVector
  <2>5. Compiled.raises = "NotSupportedError"
    BY <1>2, <1>3 DEF Compiled
  <2> QED BY <2>2, <2>4, <2>5 DEF NotOneStage
<1>4. CASE ~\E i \in DOMAIN query.annotations : BuildRaises(query.annotations[i])
  <2>1. Compiled = CompoundSearches(SearchExpressions)
    BY <1>4 DEF Compiled
  <2>2. CASE SearchExpressions = {}
    <3>1. Searches = {} /\ Cardinality(SearchExpressions) = 0
      BY <1>1, <2>2, FS_EmptySet
    <3>2. Compiled.raises = ""
      BY <1>2, <2>1, <2>2 DEF CompoundSearches
    <3>3. ~(0 > 1)
      OBVIOUS
    <3>4. ~NotOneStage
      BY <3>1, <3>3 DEF NotOneStage
    <3> QED BY <3>2, <3>4
  <2>3. CASE SearchExpressions # {} /\ Cardinality(SearchExpressions) > 1
    <3>1. \/ Compiled.raises = "ValueError: vector"
          \/ Compiled.raises = "ValueError: search"
      BY <1>2, <2>1, <2>3 DEF CompoundSearches
    <3> QED BY <2>3, <3>1 DEF NotOneStage
  <2>4. CASE SearchExpressions # {} /\ ~(Cardinality(SearchExpressions) > 1)
    <3>1. Searches # {} /\ \A e \in Searches : Compiled = SearchMql(Build[e])
      BY <2>1, <2>4, OneStage
    <3>2. \A e \in Searches :
            /\ HoldsVector(e) \/ IsMixed(e) => Compiled.raises # ""
            /\ ~HoldsVector(e) /\ ~IsMixed(e) => Compiled.raises \in {"", "KeyError"}
      BY <1>1, <3>1, StageRaises
    <3> QED BY <2>4, <3>1, <3>2 DEF NotOneStage
  <2> QED BY <2>2, <2>3, <2>4
<1> QED BY <1>3, <1>4

-----------------------------------------------------------------------------
(* A query is compiled once, for the indexes that there are.               *)

AllRows == {[doc |-> d, score |-> 0] : d \in Document}

CompiledOnce ==
  /\ query \in Query /\ indexes \in IndexList
  /\ stage \in {"compile", "search", "match", "done", "raised"}
  /\ stage = "compile" => error = ""
  /\ stage # "compile" => pipeline = Compiled /\ error = Compiled.raises
  /\ stage \in {"search", "match", "done"} => Compiled.raises = ""
  /\ stage = "raised" => Compiled.raises # ""
  /\ stage \in {"compile", "search"} => rows = AllRows

LEMMA CompiledStays ==
  ASSUME UNCHANGED <<query, indexes>>
  PROVE  Compiled' = Compiled
<1>1. query' = query /\ indexes' = indexes
  OBVIOUS
<1>2. SearchExpressions' = SearchExpressions
  BY <1>1 DEF SearchExpressions
<1>3. \A e : SearchMql(e)' = SearchMql(e)
  <2>1. \A fields : SearchIndex(fields)' = SearchIndex(fields)
    BY <1>1 DEF SearchIndex
  <2>2. \A fields : VectorIndex(fields)' = VectorIndex(fields)
    BY <1>1 DEF VectorIndex
  <2>3. \A e : SearchVector(e)' = SearchVector(e)
    BY <2>2 DEF SearchVector
  <2>4. \A x : CompoundStage(x)' = CompoundStage(x)
    BY <2>1 DEF CompoundStage
  <2> QED BY <2>3, <2>4 DEF SearchMql
<1>4. \A searches : CompoundSearches(searches)' = CompoundSearches(searches)
  <2> TAKE searches
  <2>1. SearchMql(CHOOSE e \in searches : TRUE)' = SearchMql(CHOOSE e \in searches : TRUE)
    BY <1>3
  <2> QED BY <2>1 DEF CompoundSearches
<1> QED BY <1>1, <1>2, <1>4 DEF Compiled

LEMMA CompiledOnceInit ==
  ASSUME Init
  PROVE  CompiledOnce
BY DEF Init, CompiledOnce, AllRows

LEMMA CompiledOnceNext ==
  ASSUME CompiledOnce, [Next]_vars
  PROVE  CompiledOnce'
<1>1. query' = query /\ indexes' = indexes
  BY DEF Next, Compile, RunSearch, RunMatch, vars
<1>2. Compiled' = Compiled /\ AllRows' = AllRows
  BY <1>1, CompiledStays DEF AllRows
<1>3. CASE Compile
  BY <1>1, <1>2, <1>3 DEF Compile, CompiledOnce
<1>4. CASE RunSearch
  BY <1>1, <1>2, <1>4 DEF RunSearch, CompiledOnce
<1>5. CASE RunMatch
  BY <1>1, <1>2, <1>5 DEF RunMatch, CompiledOnce
<1>6. CASE UNCHANGED vars
  BY <1>1, <1>2, <1>6 DEF vars, CompiledOnce
<1> QED BY <1>3, <1>4, <1>5, <1>6 DEF Next

\* A query is compiled once: what _compound_searches_queries() returned, and whether it
\* raised, stays what the query and the indexes say, until the last stage.
THEOREM AlwaysCompiledOnce == Spec => []CompiledOnce
<1>1. Init => CompiledOnce
  BY CompiledOnceInit
<1>2. CompiledOnce /\ [Next]_vars => CompiledOnce'
  BY CompiledOnceNext
<1> QED BY <1>1, <1>2, PTL DEF Spec

LEMMA RefusedOrKeyError ==
  ASSUME CompiledOnce, error # "KeyError"
  PROVE  RefusedIfNotOneStage
<1>1. query \in Query
  BY DEF CompiledOnce
<1>2. CASE stage = "done"
  <2>1. Compiled.raises = ""
    BY <1>2 DEF CompiledOnce
  <2>2. ~NotOneStage
    BY <1>1, <2>1, Refusal
  <2> QED BY <1>1, <1>2, <2>2, NotOneStageIs DEF RefusedIfNotOneStage
<1>3. CASE stage = "raised"
  <2>1. Compiled.raises # "" /\ Compiled.raises # "KeyError"
    BY <1>3 DEF CompiledOnce
  <2>2. NotOneStage
    BY <1>1, <2>1, Refusal
  <2> QED BY <1>1, <1>3, <2>2, NotOneStageIs DEF RefusedIfNotOneStage
<1>4. CASE stage \notin {"done", "raised"}
  BY <1>4 DEF RefusedIfNotOneStage
<1> QED BY <1>2, <1>3, <1>4

\* A query is refused exactly if one stage cannot say what it asks, or if
\* get_search_index() comes to an index for vectors, which has no mappings.
THEOREM RefusedUnlessKeyError == Spec => [](error # "KeyError" => RefusedIfNotOneStage)
<1>1. CompiledOnce => (error # "KeyError" => RefusedIfNotOneStage)
  BY RefusedOrKeyError
<1> QED BY <1>1, AlwaysCompiledOnce, PTL

LEMMA FieldsOf ==
  ASSUME NEW e \in Expression
  PROVE  SearchFields(e) \subseteq Field
<1>1. \A x \in Expression : x.paths \subseteq Field
  BY ExpressionKinds, SingleShape, CompoundShape, CombinedShape
<1>2. \A x \in {e} \cup Inside[e] : x.paths \subseteq Field
  BY <1>1, InsideIsExpression
<1> QED BY <1>2 DEF SearchFields

LEMMA FirstIs ==
  ASSUME NEW P, P \subseteq Nat, P # {}
  PROVE  First(P) \in P /\ \A j \in P : First(P) <= j
<1>1. \E i \in P : \A j \in P : i <= j
  BY LeastNumber
<1> QED BY <1>1 DEF First

LEMMA IndexesAre ==
  ASSUME indexes \in IndexList
  PROVE  /\ indexes \in Seq(Index) /\ DOMAIN indexes = 1 .. Len(indexes) /\ Len(indexes) \in Nat
         /\ DOMAIN indexes \subseteq Nat
         /\ \A i \in DOMAIN indexes : /\ indexes[i] \in Index
                                      /\ indexes[i].type = "vectorSearch" => ~indexes[i].dynamic
<1>1. /\ indexes \in Seq(Index)
      /\ \A i \in DOMAIN indexes : indexes[i].type = "vectorSearch" => ~indexes[i].dynamic
  BY SearchPipelineAssumption
<1>2. PICK list \in Seq(Index) : list = indexes
  BY <1>1
<1> HIDE DEF Index
<1>3. DOMAIN list = 1 .. Len(list) /\ Len(list) \in Nat /\ \A i \in DOMAIN list : list[i] \in Index
  BY ElementsOf
<1>4. DOMAIN list \subseteq Nat
  BY <1>3
<1> QED BY <1>1, <1>2, <1>3, <1>4

LEMMA NoKeyErrorOf ==
  ASSUME indexes \in IndexList, VectorIndexesLast(indexes), NEW fields \in SUBSET Field
  PROVE  \E x : SearchIndex(fields) = Uses(x)
<1> DEFINE last == {i \in DOMAIN indexes :
                      indexes[i].type = "vectorSearch" \/ Covers(indexes[i], fields)}
<1>1. DOMAIN indexes = 1 .. Len(indexes) /\ Len(indexes) \in Nat /\ DOMAIN indexes \subseteq Nat
  BY IndexesAre
<1>3. CASE last = {}
  BY <1>3 DEF SearchIndex
<1>4. CASE last # {}
  <2>1. last \subseteq Nat
    BY <1>1
  <2> DEFINE i == First(last)
  <2>2. i \in last /\ \A j \in last : i <= j
    <3> HIDE DEF last
    <3> QED BY <1>4, <2>1, FirstIs
  <2>3. i \in DOMAIN indexes
    BY <2>2
  <2>4. indexes[i].type # "vectorSearch"
    <3> HIDE DEF i
    <3> SUFFICES ASSUME indexes[i].type = "vectorSearch" PROVE FALSE
      OBVIOUS
    <3>1. PICK j \in 1 .. i - 1 : Covers(indexes[j], Field)
      BY <2>3 DEF VectorIndexesLast
    <3>2. j \in DOMAIN indexes /\ ~(i <= j)
      BY <1>1, <2>3
    <3>3. Covers(indexes[j], fields)
      BY <3>1 DEF Covers
    <3>4. j \in last
      BY <3>2, <3>3
    <3> QED BY <2>2, <3>2, <3>4
  <2>5. SearchIndex(fields) = Uses(indexes[i].name)
    BY <1>4, <2>4 DEF SearchIndex
  <2> QED BY <2>5
<1> QED BY <1>3, <1>4

LEMMA NoKeyError ==
  ASSUME query \in Query, indexes \in IndexList, VectorIndexesLast(indexes)
  PROVE  Compiled.raises # "KeyError"
<1>1. (\A x : Raises(x).raises = x) /\ (\A x : Uses(x).raises = "")
  BY DEF Raises, Uses
<1>2. \A x, s : [Uses(x) EXCEPT !.stage = s].raises = ""
  BY DEF Uses
<1>3. CASE \E i \in DOMAIN query.annotations : BuildRaises(query.annotations[i])
  BY <1>1, <1>3 DEF Compiled
<1>4. CASE ~\E i \in DOMAIN query.annotations : BuildRaises(query.annotations[i])
  <2>1. Compiled = CompoundSearches(SearchExpressions)
    BY <1>4 DEF Compiled
  <2>2. CASE SearchExpressions = {}
    BY <1>1, <2>1, <2>2 DEF CompoundSearches
  <2>3. CASE SearchExpressions # {} /\ Cardinality(SearchExpressions) > 1
    <3>1. \/ Compiled.raises = "ValueError: vector"
          \/ Compiled.raises = "ValueError: search"
      BY <1>1, <2>1, <2>3 DEF CompoundSearches
    <3> QED BY <3>1
  <2>4. CASE SearchExpressions # {} /\ ~(Cardinality(SearchExpressions) > 1)
    <3>1. PICK e \in Searches : Compiled = SearchMql(Build[e])
      BY <2>1, <2>4, OneStage
    <3>2. e \in Written
      BY QueryParts
    <3>3. CASE IsVector(e)
      <4>1. e \in Singles
        BY <3>2, <3>3, WrittenKinds, CompoundShape, CombinedShape
      <4>2. Compiled.raises = ""
        BY <3>1, <3>2, <3>3, <4>1, SearchMqlIs, SearchVectorIs
      <4> QED BY <4>2
    <3>4. CASE ~IsVector(e)
      <4>1. Compiled = CompoundStage(Sent(e)) /\ Sent(e) \in Expression
        BY <3>1, <3>2, <3>4, SearchMqlIs, SentHolds
      <4>2. SearchFields(Sent(e)) \in SUBSET Field
        BY <4>1, FieldsOf
      <4>3. PICK x : SearchIndex(SearchFields(Sent(e))) = Uses(x)
        BY <4>2, NoKeyErrorOf
      <4>4. Uses(x).raises = ""
        BY <1>1
      <4>5. \/ Compiled = Raises("AttributeError") \/ Compiled = Raises("NotImplementedError")
            \/ Compiled = [Uses(x) EXCEPT !.stage = <<SearchOperator[Sent(e)]>>]
        BY <4>1, <4>3, <4>4 DEF CompoundStage
      <4> QED BY <1>1, <1>2, <4>5
    <3> QED BY <3>3, <3>4
  <2> QED BY <2>2, <2>3, <2>4
<1> QED BY <1>3, <1>4

\* A query is refused exactly if one stage cannot say what it asks.
THEOREM RefusedIfNotOneStageCorrect ==
  Spec => [](VectorIndexesLast(indexes) => RefusedIfNotOneStage)
<1>1. CompiledOnce => (VectorIndexesLast(indexes) => RefusedIfNotOneStage)
  <2> SUFFICES ASSUME CompiledOnce, VectorIndexesLast(indexes) PROVE RefusedIfNotOneStage
    OBVIOUS
  <2>1. error # "KeyError"
    BY NoKeyError DEF CompiledOnce
  <2> QED BY <2>1, RefusedOrKeyError
<1> QED BY <1>1, AlwaysCompiledOnce, PTL

-----------------------------------------------------------------------------
(* Vector searches.                                                        *)

Passing(e) ==
  {d \in Document :
     /\ \A f \in e.paths : d[f] # Missing
     /\ e.options["filter"] # None => d["b"] = e.options["filter"]}

AreNearest(e, near) ==
  /\ near \subseteq Passing(e)
  /\ Cardinality(near) <= e.options["limit"]
  /\ near # Passing(e) => Cardinality(near) = e.options["limit"]
  /\ \A d \in near, o \in Passing(e) \ near : Distance(e, d) <= Distance(e, o)

\* What is compiled for the only search that there is.
LEMMA OnlySearch ==
  ASSUME query \in Query, Compiled.raises = "", NEW e \in Searches
  PROVE  Compiled = SearchMql(Build[e])
<1>1. ~NotOneStage
  BY Refusal
<1>2. ~(Cardinality(SearchExpressions) > 1)
  BY <1>1 DEF NotOneStage
<1>3. SearchExpressions # {}
  BY QueryParts
<1>4. CompoundSearches(SearchExpressions) = SearchMql(Build[e])
  BY <1>2, <1>3, OneStage
<1>5. Raises("NotSupportedError").raises # ""
  BY DEF Raises
<1>6. Compiled = CompoundSearches(SearchExpressions)
  BY <1>5 DEF Compiled
<1> QED BY <1>4, <1>6

LEMMA VectorOperatorIs ==
  ASSUME NEW e \in Singles, IsVector(e)
  PROVE  /\ VectorOperator(e).op = "vectorSearch"
         /\ VectorOperator(e).paths = e.paths /\ VectorOperator(e).value = e.value
         /\ VectorOperator(e).params["limit"] = e.options["limit"]
         /\ VectorOperator(e).params["filter"] = e.options["filter"]
         /\ e.options["limit"] \in Nat
<1> DEFINE names == {"limit"} \cup Truthy(e, {"exact", "numCandidates", "filter"})
<1>1. e.options["limit"] \in Nat /\ e.options["filter"] # 0
  BY SingleShape
<1>2. "limit" \in names /\ ("filter" \in names <=> e.options["filter"] # None)
  BY <1>1 DEF Truthy
<1>3. "limit" \in OptionName /\ "filter" \in OptionName
  BY DEF OptionName
<1>4. VectorOperator(e) = [op |-> "vectorSearch", paths |-> e.paths, value |-> e.value,
                           params |-> Params(e, names), args |-> <<>>]
  BY DEF VectorOperator, Operator
<1> HIDE DEF names
<1>5. /\ Params(e, names)["limit"] = e.options["limit"]
      /\ Params(e, names)["filter"] = e.options["filter"]
  BY <1>2, <1>3 DEF Params
<1> QED BY <1>1, <1>4, <1>5

\* get_search_index() of SearchVector finds an index that covers the paths.
LEMMA VectorIndexSearchable ==
  ASSUME indexes \in IndexList, NEW e \in Expression, e \in Singles, Indexed(e, "vectorSearch"),
         NEW f \in e.paths
  PROVE  Searchable(VectorIndex(e.paths).name, f)
<1> DEFINE usable == {i \in DOMAIN indexes :
                        indexes[i].type = "vectorSearch" /\ e.paths \subseteq indexes[i].fields}
<1>1. /\ DOMAIN indexes \subseteq Nat
      /\ \A i \in DOMAIN indexes : indexes[i].type = "vectorSearch" => ~indexes[i].dynamic
  BY IndexesAre
<1>2. SearchFields(e) = e.paths
  <2>1. Inside[e] = {}
    BY InsideIs, SingleShape
  <2> QED BY <2>1 DEF SearchFields
<1>3. usable # {} /\ usable \subseteq Nat
  BY <1>1, <1>2 DEF Indexed, Covers
<1>4. First(usable) \in usable
  <2> HIDE DEF usable
  <2> QED BY <1>3, FirstIs
<1>5. VectorIndex(e.paths).name = indexes[First(usable)].name
  BY <1>3 DEF VectorIndex, Uses
<1> QED BY <1>4, <1>5 DEF Searchable, Covers

AreRows(R, D, g) == R = {[doc |-> d, score |-> g[d]] : d \in D}

LEMMA DocumentsOf ==
  ASSUME NEW D, NEW g, NEW R, AreRows(R, D, g)
  PROVE  {r.doc : r \in R} = D
<1>1. ASSUME NEW r \in R PROVE r.doc \in D
  <2>1. PICK d \in D : r = [doc |-> d, score |-> g[d]]
    BY DEF AreRows
  <2>2. r.doc = d
    BY <2>1
  <2> QED BY <2>2
<1>2. ASSUME NEW d \in D PROVE \E r \in R : r.doc = d
  <2>1. PICK r : r = [doc |-> d, score |-> g[d]]
    OBVIOUS
  <2>2. r \in R
    BY <2>1 DEF AreRows
  <2>3. r.doc = d
    BY <2>1
  <2> QED BY <2>2, <2>3
<1> QED BY <1>1, <1>2

LEMMA AreNearestIf ==
  ASSUME NEW e \in Singles, IsVector(e), NEW k \in SUBSET Passing(e),
         Cardinality(k) = IF Cardinality(Passing(e)) < e.options["limit"]
                          THEN Cardinality(Passing(e)) ELSE e.options["limit"],
         \A d \in k, o \in Passing(e) \ k : Distance(e, d) <= Distance(e, o)
  PROVE  AreNearest(e, k)
<1>1. IsFiniteSet(Passing(e))
  BY SearchPipelineAssumption, FS_Subset DEF Passing
<1>2. Cardinality(Passing(e)) \in Nat /\ e.options["limit"] \in Nat
  BY <1>1, FS_CardinalityType, SingleShape
<1>3. Cardinality(Passing(e)) = Cardinality(k) => k = Passing(e)
  BY <1>1, FS_Subset
<1> QED BY <1>2, <1>3 DEF AreNearest

LEMMA VectorStageFinds ==
  ASSUME CompiledOnce, RunSearch, NEW e \in Searches, IsVector(e), Indexed(e, "vectorSearch")
  PROVE  AreNearest(e, {r.doc : r \in rows'})
<1>1. /\ query \in Query /\ indexes \in IndexList /\ Compiled.raises = "" /\ pipeline = Compiled
      /\ rows = AllRows
  BY DEF CompiledOnce, RunSearch
<1>2. e \in Written /\ e \in Expression /\ e \in Singles
  <2>1. e \in Written
    BY <1>1, QueryParts
  <2> QED BY <2>1, WrittenIsExpression, WrittenKinds, CompoundShape, CombinedShape
<1> DEFINE m == VectorOperator(e)
<1>3. pipeline.stage = <<m>> /\ pipeline.name = VectorIndex(e.paths).name
  <2>1. pipeline = SearchVector(e)
    BY <1>1, <1>2, OnlySearch, SearchMqlIs
  <2> QED BY <1>2, <2>1, SearchVectorIs
<1>4. /\ m.op = "vectorSearch" /\ m.paths = e.paths /\ m.value = e.value
      /\ m.params["limit"] = e.options["limit"] /\ m.params["filter"] = e.options["filter"]
  BY <1>2, VectorOperatorIs
<1> HIDE DEF m
<1>5. \A f \in e.paths : Searchable(pipeline.name, f)
  BY <1>1, <1>2, <1>3, VectorIndexSearchable
<1>6. VectorStage(m)
  <2>1. pipeline.stage # <<>> /\ pipeline.stage[1] = m
    BY <1>3
  <2> QED BY <1>4, <2>1 DEF RunSearch
<1>7. \A d : Distance(m, d) = Distance(e, d)
  BY <1>4 DEF Distance
<1>8. {r.doc : r \in {s \in rows :
                       /\ \A f \in m.paths : Searchable(pipeline.name, f)
                       /\ \A f \in m.paths : s.doc[f] # Missing
                       /\ m.params["filter"] # None => s.doc["b"] = m.params["filter"]}}
      = Passing(e)
  <2>1. {s \in rows : /\ \A f \in m.paths : Searchable(pipeline.name, f)
                      /\ \A f \in m.paths : s.doc[f] # Missing
                      /\ m.params["filter"] # None => s.doc["b"] = m.params["filter"]}
        = {[doc |-> d, score |-> 0] : d \in Passing(e)}
    <3> DEFINE Passes(d) == /\ \A f \in m.paths : Searchable(pipeline.name, f)
                            /\ \A f \in m.paths : d[f] # Missing
                            /\ m.params["filter"] # None => d["b"] = m.params["filter"]
    <3>1. Passing(e) = {d \in Document : Passes(d)}
      BY <1>4, <1>5 DEF Passing
    <3>2. rows = {[doc |-> d, score |-> 0] : d \in Document}
      BY <1>1 DEF AllRows
    <3> HIDE DEF Passes, Passing
    <3>3. {s \in rows : Passes(s.doc)} = {[doc |-> d, score |-> 0] : d \in Passing(e)}
      BY <3>1, <3>2
    <3> QED BY <3>3 DEF Passes
  <2> HIDE DEF Passing
  <2>2. {r.doc : r \in {[doc |-> d, score |-> 0] : d \in Passing(e)}} = Passing(e)
    <3> DEFINE g == [d \in Passing(e) |-> 0]
    <3>1. {[doc |-> d, score |-> 0] : d \in Passing(e)}
          = {[doc |-> d, score |-> g[d]] : d \in Passing(e)}
      OBVIOUS
    <3> HIDE DEF g
    <3>2. AreRows({[doc |-> d, score |-> 0] : d \in Passing(e)}, Passing(e), g)
      BY <3>1 DEF AreRows
    <3> QED BY <3>2, DocumentsOf
  <2> QED BY <2>1, <2>2
<1>9. PICK k \in SUBSET Passing(e) :
        /\ Cardinality(k) = IF Cardinality(Passing(e)) < m.params["limit"]
                            THEN Cardinality(Passing(e)) ELSE m.params["limit"]
        /\ \A d \in k, o \in Passing(e) \ k : Distance(m, d) <= Distance(m, o)
        /\ rows' = {[doc |-> d, score |-> 0 - Distance(m, d)] : d \in k}
  <2> HIDE DEF Passing
  <2> QED BY <1>6, <1>8 DEF VectorStage
<1>10. {r.doc : r \in rows'} = k
  <2>1. rows' = {[doc |-> d, score |-> 0 - Distance(m, d)] : d \in k}
    BY <1>9
  <2> DEFINE g == [d \in k |-> 0 - Distance(m, d)]
  <2>2. rows' = {[doc |-> d, score |-> g[d]] : d \in k}
    BY <2>1
  <2> HIDE DEF g
  <2>3. AreRows(rows', k, g)
    BY <2>2 DEF AreRows
  <2> QED BY <2>3, DocumentsOf
<1>11. AreNearest(e, k)
  BY <1>2, <1>4, <1>7, <1>9, AreNearestIf
<1> QED BY <1>10, <1>11

LEMMA NearestNext ==
  ASSUME CompiledOnce, NearestAreFound, [Next]_vars
  PROVE  NearestAreFound'
<1>1. query' = query /\ indexes' = indexes
  BY DEF Next, Compile, RunSearch, RunMatch, vars
<1>2. Searches' = Searches /\ \A e, t : Indexed(e, t)' = Indexed(e, t)
  BY <1>1 DEF Searches, Indexed
<1>3. CASE RunSearch
  <2>1. \A e \in Searches : IsVector(e) /\ Indexed(e, "vectorSearch") =>
          AreNearest(e, {r.doc : r \in rows'})
    BY <1>3, VectorStageFinds
  <2> QED BY <1>2, <2>1 DEF NearestAreFound, AreNearest, Passing
<1>4. CASE Compile \/ RunMatch
  <2>1. stage' # "match"
    BY <1>4 DEF Compile, RunMatch
  <2> QED BY <2>1 DEF NearestAreFound
<1>5. CASE UNCHANGED vars
  <2>1. stage' = stage /\ rows' = rows
    BY <1>5 DEF vars
  <2> QED BY <1>2, <2>1 DEF NearestAreFound
<1> QED BY <1>3, <1>4, <1>5 DEF Next

\* A vector search returns the nearest of the documents that pass its filter.
THEOREM NearestAreFoundCorrect == Spec => []NearestAreFound
<1>1. Init => NearestAreFound
  BY DEF Init, NearestAreFound
<1>2. CompiledOnce /\ NearestAreFound /\ [Next]_vars => NearestAreFound'
  BY NearestNext
<1> QED BY <1>1, <1>2, AlwaysCompiledOnce, PTL DEF Spec

-----------------------------------------------------------------------------
(* What an expression means, and what it is worth.                         *)

Holding(s, doc) == {i \in DOMAIN s : doc \in Means[s[i]]}
Worths(s, positive, doc) == [i \in DOMAIN s |-> Worth[s[i]][positive][doc]]

Meets(e, doc) ==
  /\ Holding(e.args[1], doc) = DOMAIN e.args[1] /\ Holding(e.args[4], doc) = DOMAIN e.args[4]
  /\ Holding(e.args[2], doc) = {}
  /\ EnoughShould(e.options["minimum"], e.args[1], e.args[4], e.args[3],
                  Cardinality(Holding(e.args[3], doc)))

LEMMA MeansIsDoc ==
  ASSUME NEW e \in Expression
  PROVE  Means[e] \subseteq Doc
BY MeansDef DEF MeansRule

MeansAt(e, doc) ==
  CASE e.py = "AND" -> Holding(e.args[1], doc) = {1, 2}
    [] e.py = "OR" -> Holding(e.args[1], doc) # {}
    [] e.py = "NOT" -> Holding(e.args[1], doc) = {}
    [] IsCompound(e) -> Meets(e, doc)
    [] OTHER -> \E f \in e.paths : doc[f] # Missing /\ Finds(e, doc[f])

LEMMA MeansIs ==
  ASSUME NEW e \in Expression, NEW doc \in Doc
  PROVE  doc \in Means[e] <=> MeansAt(e, doc)
<1>1. Means[e] = MeansRule(Means, e)
  BY MeansDef
<1>2. \A c : Holding(e.args[c], doc) = {i \in DOMAIN e.args[c] : doc \in Means[e.args[c][i]]}
  BY DEF Holding
<1>3. doc \in MeansRule(Means, e) <=> MeansAt(e, doc)
  BY <1>2 DEF MeansRule, MeansAt, Meets
<1> QED BY <1>1, <1>3

LEMMA MeansSingle ==
  ASSUME NEW e \in Expression, e \in Singles, NEW doc \in Doc
  PROVE  doc \in Means[e] <=> \E f \in e.paths : doc[f] # Missing /\ Finds(e, doc[f])
<1>1. e.py # "AND" /\ e.py # "OR" /\ e.py # "NOT" /\ ~IsCompound(e)
  BY SingleShape DEF IsCombined, CombinedClass
<1> QED BY <1>1, MeansIs DEF MeansAt

LEMMA MeansCompound ==
  ASSUME NEW e \in Expression, NEW S, e \in Compounds(S), NEW doc \in Doc
  PROVE  doc \in Means[e] <=> Meets(e, doc)
<1>1. e.py # "AND" /\ e.py # "OR" /\ e.py # "NOT" /\ IsCompound(e)
  BY CompoundShape
<1> QED BY <1>1, MeansIs DEF MeansAt

LEMMA MeansCombined ==
  ASSUME NEW e \in Expression, NEW S, e \in Combinations(S), NEW doc \in Doc
  PROVE  /\ e.py = "NOT" => (doc \in Means[e] <=> doc \notin Means[e.args[1][1]])
         /\ e.py = "AND" =>
              (doc \in Means[e] <=> doc \in Means[e.args[1][1]] /\ doc \in Means[e.args[1][2]])
         /\ e.py = "OR" =>
              (doc \in Means[e] <=> doc \in Means[e.args[1][1]] \/ doc \in Means[e.args[1][2]])
<1>1. DOMAIN e.args[1] = IF e.py = "NOT" THEN {1} ELSE {1, 2}
  BY CombinedShape
<1> DEFINE H == Holding(e.args[1], doc)
<1>2. /\ e.py = "AND" => (doc \in Means[e] <=> H = {1, 2})
      /\ e.py = "OR" => (doc \in Means[e] <=> H # {})
      /\ e.py = "NOT" => (doc \in Means[e] <=> H = {})
  <2>1. ~IsCompound(e)
    BY CombinedShape
  <2> QED BY <2>1, MeansIs DEF MeansAt
<1>3. \A i : i \in H <=> i \in DOMAIN e.args[1] /\ doc \in Means[e.args[1][i]]
  BY DEF Holding
<1> HIDE DEF H
<1>4. CASE e.py = "NOT"
  <2>1. \A i : i \in H <=> i = 1 /\ doc \in Means[e.args[1][1]]
    BY <1>1, <1>3, <1>4
  <2> QED BY <1>2, <1>4, <2>1
<1>5. CASE e.py = "AND"
  <2>1. \A i : i \in H <=> \/ i = 1 /\ doc \in Means[e.args[1][1]]
                           \/ i = 2 /\ doc \in Means[e.args[1][2]]
    BY <1>1, <1>3, <1>5
  <2> QED BY <1>2, <1>5, <2>1
<1>6. CASE e.py = "OR"
  <2>1. \A i : i \in H <=> \/ i = 1 /\ doc \in Means[e.args[1][1]]
                           \/ i = 2 /\ doc \in Means[e.args[1][2]]
    BY <1>1, <1>3, <1>6
  <2> QED BY <1>2, <1>6, <2>1
<1> QED BY <1>4, <1>5, <1>6

WorthAt(e, positive, doc) ==
  IF e.py = "NOT" THEN Worth[e.args[1][1]][~positive][doc]
  ELSE IF (doc \in Means[e]) # positive THEN 0
  ELSE IF IsCombined(e) THEN Sum(Worths(e.args[1], positive, doc))
  ELSE IF ~positive THEN 0
  ELSE IF IsCompound(e)
  THEN Sum(Worths(e.args[1], positive, doc)) + Sum(Worths(e.args[3], positive, doc))
  ELSE IF e.options["score"] = None THEN 1 ELSE e.options["score"]

LEMMA WorthIs ==
  ASSUME NEW e \in Expression, NEW positive \in BOOLEAN, NEW doc \in Doc
  PROVE  Worth[e][positive][doc] = WorthAt(e, positive, doc)
<1>1. Worth[e] = WorthRule(Worth, e)
  BY WorthDef
<1>2. \A c : Worths(e.args[c], positive, doc)
             = [i \in DOMAIN e.args[c] |-> Worth[e.args[c][i]][positive][doc]]
  BY DEF Worths
<1>3. WorthRule(Worth, e)[positive][doc] = WorthAt(e, positive, doc)
  BY <1>2 DEF WorthRule, WorthAt
<1> QED BY <1>1, <1>3

LEMMA WorthSingle ==
  ASSUME NEW e \in Expression, e \in Singles, NEW positive \in BOOLEAN, NEW doc \in Doc
  PROVE  Worth[e][positive][doc] =
           IF (doc \in Means[e]) # positive \/ ~positive THEN 0
           ELSE IF e.options["score"] = None THEN 1 ELSE e.options["score"]
<1>1. e.py # "NOT" /\ ~IsCompound(e) /\ ~IsCombined(e)
  BY SingleShape DEF IsCombined, CombinedClass
<1> QED BY <1>1, WorthIs DEF WorthAt

LEMMA WorthCompound ==
  ASSUME NEW e \in Expression, NEW S, e \in Compounds(S), NEW positive \in BOOLEAN,
         NEW doc \in Doc
  PROVE  Worth[e][positive][doc] =
           IF (doc \in Means[e]) # positive \/ ~positive THEN 0
           ELSE Sum(Worths(e.args[1], positive, doc)) + Sum(Worths(e.args[3], positive, doc))
<1>1. e.py # "NOT" /\ IsCompound(e) /\ ~IsCombined(e)
  BY CompoundShape
<1> QED BY <1>1, WorthIs DEF WorthAt

LEMMA WorthCombined ==
  ASSUME NEW e \in Expression, NEW S, e \in Combinations(S), NEW positive \in BOOLEAN,
         NEW doc \in Doc
  PROVE  /\ e.py = "NOT" => Worth[e][positive][doc] = Worth[e.args[1][1]][~positive][doc]
         /\ e.py # "NOT" => Worth[e][positive][doc] =
              IF (doc \in Means[e]) # positive THEN 0
              ELSE Sum(Worths(e.args[1], positive, doc))
<1>1. IsCombined(e)
  BY CombinedShape
<1> QED BY <1>1, WorthIs DEF WorthAt

LEMMA WorthsAre ==
  ASSUME NEW S, NEW s \in Seq(S), NEW positive \in BOOLEAN, NEW doc \in Doc,
         \A x \in S : Worth[x][positive][doc] \in Nat
  PROVE  /\ Worths(s, positive, doc) \in Seq(Nat) /\ DOMAIN Worths(s, positive, doc) = DOMAIN s
         /\ Sum(Worths(s, positive, doc)) \in Nat
<1>1. DOMAIN s = 1 .. Len(s) /\ Len(s) \in Nat /\ \A i \in DOMAIN s : s[i] \in S
  BY ElementsOf
<1>2. Worths(s, positive, doc) \in [1 .. Len(s) -> Nat]
  BY <1>1 DEF Worths
<1>3. Worths(s, positive, doc) \in Seq(Nat)
  BY <1>1, <1>2, TupleIsSequence
<1>4. Sum(Worths(s, positive, doc)) \in Nat
  BY <1>3, SumIsNat
<1> QED BY <1>3, <1>4 DEF Worths

LEMMA ClausesAreParts ==
  ASSUME NEW S, NEW e \in Compounds(S)
  PROVE  \A c \in 1 .. 4 : e.args[c] \in Seq(Parts(e))
<1>1. DOMAIN e.args = 1 .. 4 /\ \A c \in 1 .. 4 : e.args[c] \in Seq(S)
  BY CompoundShape
<1> SUFFICES ASSUME NEW c \in 1 .. 4 PROVE e.args[c] \in Seq(Parts(e))
  OBVIOUS
<1>2. PICK s \in Seq(S) : s = e.args[c]
  BY <1>1
<1>3. /\ DOMAIN s = 1 .. Len(s) /\ Len(s) \in Nat /\ s = [i \in DOMAIN s |-> s[i]]
  BY ElementsOf
<1>4. \A i \in DOMAIN s : s[i] \in Parts(e)
  BY <1>1, <1>2, PartIs
<1>5. s \in [1 .. Len(s) -> Parts(e)]
  BY <1>3, <1>4
<1>6. s \in Seq(Parts(e))
  BY <1>3, <1>5, TupleIsSequence
<1> QED BY <1>2, <1>6

LEMMA OperandsAreParts ==
  ASSUME NEW S, NEW e \in Combinations(S)
  PROVE  /\ e.args[1] \in Seq(Parts(e)) /\ e.args[1][1] \in Parts(e)
         /\ e.py # "NOT" => e.args[1][2] \in Parts(e)
<1>1. /\ DOMAIN e.args = {1} /\ DOMAIN e.args[1] = IF e.py = "NOT" THEN {1} ELSE {1, 2}
      /\ e.py \in {"AND", "OR", "NOT"}
  BY CombinedShape
<1>2. \A i \in DOMAIN e.args[1] : e.args[1][i] \in Parts(e)
  BY <1>1, PartIs
<1>3. \/ e.args \in [1 .. 1 -> [1 .. 2 -> S]]
      \/ e.args \in [1 .. 1 -> [1 .. 1 -> S]]
  <2> HIDE DEF NoOptions
  <2> QED BY DEF Combinations
<1>4. PICK a : a = e.args[1]
  OBVIOUS
<1>5. a \in [1 .. 2 -> S] \/ a \in [1 .. 1 -> S]
  BY <1>3, <1>4
<1>6. a \in [1 .. 2 -> Parts(e)] \/ a \in [1 .. 1 -> Parts(e)]
  BY <1>2, <1>4, <1>5
<1>7. a \in Seq(Parts(e))
  BY <1>6, TupleIsSequence
<1> QED BY <1>1, <1>2, <1>4, <1>7

LEMMA WorthIsNat ==
  ASSUME NEW e \in Expression, NEW positive \in BOOLEAN, NEW doc \in Doc
  PROVE  Worth[e][positive][doc] \in Nat
<1> DEFINE S == {x \in Expression : \A b \in BOOLEAN : Worth[x][b][doc] \in Nat}
<1>1. ASSUME NEW x \in Expression, Parts(x) \subseteq S PROVE x \in S
  <2> SUFFICES ASSUME NEW b \in BOOLEAN PROVE Worth[x][b][doc] \in Nat
    OBVIOUS
  <2>1. \A y \in Parts(x) : \A a \in BOOLEAN : Worth[y][a][doc] \in Nat
    BY <1>1
  <2> HIDE DEF S
  <2>2. CASE x \in Singles
    <3>1. /\ x.options \in Options /\ "score" \in OptionName
          /\ x.options["score"] # None => x.options["score"] > 0
      BY <2>2, SingleShape DEF OptionName
    <3>2. x.options["score"] # None => x.options["score"] \in Nat
      BY <3>1 DEF Options
    <3> QED BY <2>2, <3>2, WorthSingle
  <2>3. CASE x \in Compounds(Expression)
    <3>1. \A c \in 1 .. 4 : x.args[c] \in Seq(Parts(x))
      BY <2>3, ClausesAreParts
    <3>2. \A c \in 1 .. 4 : Sum(Worths(x.args[c], b, doc)) \in Nat
      BY <2>1, <3>1, WorthsAre
    <3>3. Sum(Worths(x.args[1], b, doc)) + Sum(Worths(x.args[3], b, doc)) \in Nat
      BY <3>2
    <3> QED BY <2>3, <3>3, WorthCompound
  <2>4. CASE x \in Combinations(Expression)
    <3>1. x.args[1] \in Seq(Parts(x)) /\ x.args[1][1] \in Parts(x)
      BY <2>4, OperandsAreParts
    <3>2. Sum(Worths(x.args[1], b, doc)) \in Nat
      BY <2>1, <3>1, WorthsAre
    <3>3. (~b) \in BOOLEAN /\ Worth[x.args[1][1]][~b][doc] \in Nat
      BY <2>1, <3>1
    <3> QED BY <2>4, <3>2, <3>3, WorthCombined
  <2> QED BY <2>2, <2>3, <2>4, ExpressionKinds
<1> HIDE DEF S
<1>2. Expression \subseteq S
  BY <1>1, ExpressionInduction
<1> QED BY <1>2 DEF S

LEMMA WorthOfNone ==
  ASSUME NEW e \in Expression, NEW positive \in BOOLEAN, NEW doc \in Doc,
         (doc \in Means[e]) # positive
  PROVE  Worth[e][positive][doc] = 0
<1> DEFINE S == {x \in Expression :
                   \A b \in BOOLEAN : (doc \in Means[x]) # b => Worth[x][b][doc] = 0}
<1>1. ASSUME NEW x \in Expression, Parts(x) \subseteq S PROVE x \in S
  <2> SUFFICES ASSUME NEW b \in BOOLEAN, (doc \in Means[x]) # b PROVE Worth[x][b][doc] = 0
    OBVIOUS
  <2>1. \A y \in Parts(x) :
          \A a \in BOOLEAN : (doc \in Means[y]) # a => Worth[y][a][doc] = 0
    BY <1>1
  <2> HIDE DEF S
  <2>2. CASE x \in Singles
    BY <2>2, WorthSingle
  <2>3. CASE x \in Compounds(Expression)
    BY <2>3, WorthCompound
  <2>4. CASE x \in Combinations(Expression) /\ x.py = "NOT"
    <3>1. x.args[1][1] \in Parts(x) /\ (~b) \in BOOLEAN
      BY <2>4, OperandsAreParts
    <3>2. doc \in Means[x] <=> doc \notin Means[x.args[1][1]]
      BY <2>4, MeansCombined
    <3>3. (doc \in Means[x.args[1][1]]) # (~b)
      BY <3>2
    <3>4. Worth[x.args[1][1]][~b][doc] = 0
      BY <2>1, <3>1, <3>3
    <3> QED BY <2>4, <3>4, WorthCombined
  <2>5. CASE x \in Combinations(Expression) /\ x.py # "NOT"
    BY <2>5, WorthCombined
  <2> QED BY <2>2, <2>3, <2>4, <2>5, ExpressionKinds
<1> HIDE DEF S
<1>2. Expression \subseteq S
  BY <1>1, ExpressionInduction
<1> QED BY <1>2 DEF S

LEMMA WorthsOf ==
  ASSUME NEW s \in Seq(Expression), NEW positive \in BOOLEAN, NEW doc \in Doc
  PROVE  /\ Worths(s, positive, doc) \in Seq(Nat) /\ DOMAIN Worths(s, positive, doc) = DOMAIN s
         /\ Sum(Worths(s, positive, doc)) \in Nat
<1>1. \A x \in Expression : Worth[x][positive][doc] \in Nat
  BY WorthIsNat
<1> QED BY <1>1, WorthsAre

\* What clauses add to the score.
Gain(s, doc) == Sum(Worths(s, TRUE, doc))
Value(e, doc) == Worth[e][TRUE][doc]

LEMMA WorthAdds ==
  ASSUME NEW e \in Expression, e \in Compounds(Expression), NEW doc \in Doc
  PROVE  Value(e, doc) = IF doc \in Means[e] THEN Gain(e.args[1], doc) + Gain(e.args[3], doc)
                         ELSE 0
<1>1. PICK w : w = Sum(Worths(e.args[1], TRUE, doc)) + Sum(Worths(e.args[3], TRUE, doc))
  OBVIOUS
<1>2. Worth[e][TRUE][doc] = IF (doc \in Means[e]) # TRUE \/ ~TRUE THEN 0 ELSE w
  BY <1>1, WorthCompound
<1>3. w = Gain(e.args[1], doc) + Gain(e.args[3], doc)
  BY <1>1 DEF Gain
<1> QED BY <1>2, <1>3 DEF Value

LEMMA HoldingNone ==
  ASSUME NEW doc \in Doc
  PROVE  /\ Holding(<<>>, doc) = {} /\ DOMAIN <<>> = {}
         /\ Cardinality(Holding(<<>>, doc)) = 0
<1>1. DOMAIN <<>> = {}
  BY NoneIsSequence
<1>2. Holding(<<>>, doc) = {}
  BY <1>1 DEF Holding
<1> QED BY <1>1, <1>2, FS_EmptySet

LEMMA HoldingOne ==
  ASSUME NEW x \in Expression, NEW doc \in Doc
  PROVE  /\ Holding(<<x>>, doc) = DOMAIN <<x>> <=> doc \in Means[x]
         /\ Holding(<<x>>, doc) = {} <=> doc \notin Means[x]
         /\ <<x>> # <<>>
<1>1. PICK s : s = <<x>> /\ s \in Seq(Expression) /\ DOMAIN s = {1} /\ s[1] = x
  BY OneIsSequence
<1>2. \A i : i \in Holding(s, doc) <=> i = 1 /\ doc \in Means[x]
  BY <1>1 DEF Holding
<1>3. /\ Holding(s, doc) = DOMAIN s <=> doc \in Means[x]
      /\ Holding(s, doc) = {} <=> doc \notin Means[x]
  BY <1>1, <1>2
<1>4. s # <<>>
  BY <1>1, NoneIsSequence
<1> QED BY <1>1, <1>3, <1>4

LEMMA GainOfNone ==
  ASSUME NEW doc \in Doc
  PROVE  Gain(<<>>, doc) = 0
<1>1. PICK s \in Seq(Expression) : s = <<>> /\ DOMAIN s = {}
  BY NoneIsSequence
<1>2. Worths(s, TRUE, doc) \in Seq(Nat) /\ DOMAIN Worths(s, TRUE, doc) = {}
  BY <1>1, WorthsOf
<1>3. Gain(s, doc) = 0
  BY <1>2, SumOfNone DEF Gain
<1> QED BY <1>1, <1>3

LEMMA GainOfOne ==
  ASSUME NEW x \in Expression, NEW doc \in Doc
  PROVE  Gain(<<x>>, doc) = Value(x, doc) /\ Value(x, doc) \in Nat
<1>1. PICK s \in Seq(Expression) : s = <<x>> /\ DOMAIN s = {1} /\ s[1] = x
  BY OneIsSequence
<1>2. Worths(s, TRUE, doc) \in Seq(Nat) /\ DOMAIN Worths(s, TRUE, doc) = {1}
  BY <1>1, WorthsOf
<1>3. Worths(s, TRUE, doc)[1] = Value(x, doc)
  BY <1>1 DEF Worths, Value
<1>4. Gain(s, doc) = Value(x, doc)
  BY <1>2, <1>3, SumOfOne DEF Gain
<1>5. Value(x, doc) \in Nat
  BY WorthIsNat DEF Value
<1> QED BY <1>1, <1>4, <1>5

LEMMA ValueOfNone ==
  ASSUME NEW x \in Expression, NEW doc \in Doc, doc \notin Means[x]
  PROVE  Value(x, doc) = 0
BY WorthOfNone DEF Value

\* A compound with one search that must match, and one with one that must not.
LEMMA MeansMust ==
  ASSUME NEW x \in Expression, NEW e \in Expression, e \in Compounds(Expression),
         e.args[1] = <<x>>, e.args[2] = <<>>, e.args[3] = <<>>, e.args[4] = <<>>,
         e.options["minimum"] = 0, NEW doc \in Doc
  PROVE  /\ doc \in Means[e] <=> doc \in Means[x]
         /\ Value(e, doc) = Value(x, doc)
<1>1. doc \in Means[e] <=> doc \in Means[x]
  <2>1. EnoughShould(0, <<x>>, <<>>, <<>>, 0)
    BY HoldingOne DEF EnoughShould
  <2>2. Meets(e, doc) <=> doc \in Means[x]
    BY <2>1, HoldingOne, HoldingNone DEF Meets
  <2> QED BY <2>2, MeansCompound
<1>2. Gain(e.args[1], doc) = Value(x, doc) /\ Gain(e.args[3], doc) = 0 /\ Value(x, doc) \in Nat
  BY GainOfOne, GainOfNone
<1>3. Value(e, doc) = IF doc \in Means[e] THEN Gain(e.args[1], doc) + Gain(e.args[3], doc) ELSE 0
  BY WorthAdds
<1>4. doc \notin Means[x] => Value(x, doc) = 0
  BY ValueOfNone
<1> QED BY <1>1, <1>2, <1>3, <1>4

LEMMA MeansMustNot ==
  ASSUME NEW x \in Expression, NEW e \in Expression, e \in Compounds(Expression),
         e.args[1] = <<>>, e.args[2] = <<x>>, e.args[3] = <<>>, e.args[4] = <<>>,
         e.options["minimum"] = 0, NEW doc \in Doc
  PROVE  /\ doc \in Means[e] <=> doc \notin Means[x]
         /\ Value(e, doc) = 0
<1>1. doc \in Means[e] <=> doc \notin Means[x]
  <2>1. EnoughShould(0, <<>>, <<>>, <<>>, 0)
    BY DEF EnoughShould
  <2>2. Meets(e, doc) <=> doc \notin Means[x]
    BY <2>1, HoldingOne, HoldingNone DEF Meets
  <2> QED BY <2>2, MeansCompound
<1>2. Gain(e.args[1], doc) = 0 /\ Gain(e.args[3], doc) = 0
  BY GainOfNone
<1>3. Value(e, doc) = IF doc \in Means[e] THEN Gain(e.args[1], doc) + Gain(e.args[3], doc) ELSE 0
  BY WorthAdds
<1> QED BY <1>1, <1>2, <1>3

\* Python changes nothing in an expression that it did not combine.
LEMMA BuildPlain ==
  ASSUME NEW e \in Expression, ~IsCombined(e), ~HoldsCombined(e)
  PROVE  Build[e] = e
<1> DEFINE S == {x \in Expression : ~IsCombined(x) /\ ~HoldsCombined(x) => Build[x] = x}
<1>1. ASSUME NEW x \in Expression, Parts(x) \subseteq S PROVE x \in S
  <2> SUFFICES ASSUME ~IsCombined(x), ~HoldsCombined(x) PROVE Build[x] = x
    OBVIOUS
  <2>1. \A y \in Parts(x) : Build[y] = y
    BY <1>1, HoldsCombinedIs
  <2> HIDE DEF S
  <2>2. CASE x \in Singles
    BY <2>2, BuildSingle
  <2>3. CASE x \in Compounds(Expression)
    <3>1. DOMAIN x.args = 1 .. 4 /\ \A c \in 1 .. 4 : x.args[c] \in Seq(Expression)
      BY <2>3, CompoundShape
    <3>2. /\ Build[x].args = [c \in DOMAIN x.args |-> [i \in DOMAIN x.args[c] |->
              IF IsCombined(x) THEN Wrap(Build[x.args[c][i]]) ELSE Build[x.args[c][i]]]]
          /\ Build[x] = [py |-> x.py, paths |-> x.paths, value |-> x.value,
                         options |-> x.options, args |-> Build[x].args]
      BY BuildIs
    <3>3. \A c \in 1 .. 4 : [i \in DOMAIN x.args[c] |-> Build[x.args[c][i]]] = x.args[c]
      <4> TAKE c \in 1 .. 4
      <4>1. \A i \in DOMAIN x.args[c] : Build[x.args[c][i]] = x.args[c][i]
        BY <2>1, <3>1, PartIs
      <4>2. x.args[c] = [i \in DOMAIN x.args[c] |-> x.args[c][i]]
        BY <3>1
      <4> QED BY <4>1, <4>2
    <3>4. x = [py |-> x.py, paths |-> x.paths, value |-> x.value,
               options |-> x.options, args |-> x.args]
          /\ x.args = [c \in 1 .. 4 |-> x.args[c]]
      <4> HIDE DEF Options
      <4> QED BY <2>3 DEF Compounds
    <3>5. Build[x].args = [c \in 1 .. 4 |-> [i \in DOMAIN x.args[c] |-> Build[x.args[c][i]]]]
      BY <3>1, <3>2
    <3>6. Build[x].args = [c \in 1 .. 4 |-> x.args[c]]
      BY <3>3, <3>5
    <3> QED BY <3>2, <3>4, <3>6
  <2>4. CASE x \in Combinations(Expression)
    BY <2>4, CombinedShape
  <2> QED BY <2>2, <2>3, <2>4, ExpressionKinds
<1> HIDE DEF S
<1>2. Expression \subseteq S
  BY <1>1, ExpressionInduction
<1> QED BY <1>2 DEF S

-----------------------------------------------------------------------------
(* Rewriting keeps what an expression means and what it is worth.          *)

IsFaithful(e, negated, positive, doc) ==
  /\ doc \in Means[Final(e, negated)] <=> (doc \in Means[e]) = positive
  /\ Value(Final(e, negated), doc) = Worth[e][positive][doc]

LEMMA NegatedIs ==
  ASSUME NEW x \in Expression, NEW e \in Expression, e = NegateCompound(x), NEW doc \in Doc
  PROVE  /\ doc \in Means[e] <=> doc \notin Means[x]
         /\ Value(e, doc) = 0
<1>1. /\ e \in Compounds(Expression)
      /\ e.args[1] = <<>> /\ e.args[2] = <<x>> /\ e.args[3] = <<>> /\ e.args[4] = <<>>
      /\ e.options["minimum"] = 0
  BY NegateCompoundIs
<1> QED BY <1>1, MeansMustNot

LEMMA FaithfulSingle ==
  ASSUME NEW e \in Written, e \in Singles, NEW negated \in BOOLEAN, NEW positive \in BOOLEAN,
         positive # negated, NEW doc \in Doc
  PROVE  IsFaithful(e, negated, positive, doc)
<1>1. e \in Expression /\ Ready(e) \in Expression
  BY WrittenIsReady DEF Ready
<1>2. /\ Ready(e) \in Compounds(Expression)
      /\ Ready(e).args[1] = <<e>> /\ Ready(e).args[2] = <<>>
      /\ Ready(e).args[3] = <<>> /\ Ready(e).args[4] = <<>>
      /\ Ready(e).options["minimum"] = 0
  BY ReadySingle
<1>3. (doc \in Means[Ready(e)] <=> doc \in Means[e]) /\ Value(Ready(e), doc) = Value(e, doc)
  BY <1>1, <1>2, MeansMust
<1>4. CASE negated = FALSE /\ positive = TRUE
  <2>1. Final(e, FALSE) = Ready(e)
    BY <1>2, FinalOfCompound
  <2>2. IsFaithful(e, FALSE, TRUE, doc)
    BY <1>3, <2>1 DEF IsFaithful, Value
  <2> QED BY <1>4, <2>2
<1>5. CASE negated = TRUE /\ positive = FALSE
  <2>1. Final(e, TRUE) = NegateCompound(Ready(e)) /\ Final(e, TRUE) \in Expression
    BY <1>2, FinalOfCompound, FinalIsCompound
  <2>2. (doc \in Means[Final(e, TRUE)] <=> doc \notin Means[e]) /\ Value(Final(e, TRUE), doc) = 0
    BY <1>1, <1>3, <2>1, NegatedIs
  <2>3. Worth[e][FALSE][doc] = 0
    BY <1>1, WorthSingle
  <2>4. IsFaithful(e, TRUE, FALSE, doc)
    <3>1. PICK f : f = Final(e, TRUE)
      OBVIOUS
    <3>2. (doc \in Means[f] <=> doc \notin Means[e]) /\ Value(f, doc) = Worth[e][FALSE][doc]
      BY <2>2, <2>3, <3>1
    <3>3. doc \in Means[f] <=> (doc \in Means[e]) = FALSE
      BY <3>2
    <3> QED BY <3>1, <3>2, <3>3 DEF IsFaithful
  <2> QED BY <1>5, <2>4
<1>6. (negated = FALSE /\ positive = TRUE) \/ (negated = TRUE /\ positive = FALSE)
  OBVIOUS
<1> QED BY <1>4, <1>5, <1>6

LEMMA FaithfulCompound ==
  ASSUME NEW e \in Written, e \in Compounds(Written), ~HoldsCombined(e),
         NEW negated \in BOOLEAN, NEW positive \in BOOLEAN, positive # negated, NEW doc \in Doc
  PROVE  IsFaithful(e, negated, positive, doc)
<1>1. e \in Expression /\ ~IsCombined(e)
  BY WrittenIsReady, CompoundShape
<1>2. Ready(e) = e /\ Ready(e) \in Compounds(Expression)
  BY <1>1, ReadyCompound, BuildPlain
<1>3. CASE negated = FALSE /\ positive = TRUE
  <2>1. Final(e, FALSE) = e
    BY <1>2, FinalOfCompound
  <2>2. IsFaithful(e, FALSE, TRUE, doc)
    BY <2>1 DEF IsFaithful, Value
  <2> QED BY <1>3, <2>2
<1>4. CASE negated = TRUE /\ positive = FALSE
  <2>1. Final(e, TRUE) = NegateCompound(e) /\ Final(e, TRUE) \in Expression
    BY <1>2, FinalOfCompound, FinalIsCompound
  <2>2. (doc \in Means[Final(e, TRUE)] <=> doc \notin Means[e]) /\ Value(Final(e, TRUE), doc) = 0
    BY <1>1, <2>1, NegatedIs
  <2>3. Worth[e][FALSE][doc] = 0
    BY <1>1, WorthCompound
  <2>4. IsFaithful(e, TRUE, FALSE, doc)
    <3>1. PICK f : f = Final(e, TRUE)
      OBVIOUS
    <3>2. (doc \in Means[f] <=> doc \notin Means[e]) /\ Value(f, doc) = Worth[e][FALSE][doc]
      BY <2>2, <2>3, <3>1
    <3>3. doc \in Means[f] <=> (doc \in Means[e]) = FALSE
      BY <3>2
    <3> QED BY <3>1, <3>2, <3>3 DEF IsFaithful
  <2> QED BY <1>4, <2>4
<1>5. (negated = FALSE /\ positive = TRUE) \/ (negated = TRUE /\ positive = FALSE)
  OBVIOUS
<1> QED BY <1>3, <1>4, <1>5

LEMMA FaithfulNot ==
  ASSUME NEW e \in Written, e \in Combinations(Written), e.py = "NOT",
         NEW negated \in BOOLEAN, NEW positive \in BOOLEAN, positive # negated, NEW doc \in Doc,
         IsFaithful(e.args[1][1], positive, negated, doc)
  PROVE  IsFaithful(e, negated, positive, doc)
<1>1. positive = ~negated /\ negated = ~positive
  OBVIOUS
<1>2. Final(e, negated) = Final(e.args[1][1], positive)
  BY <1>1, FinalOfNot
<1>3. e \in Expression
  BY WrittenIsReady
<1>4. doc \in Means[e] <=> doc \notin Means[e.args[1][1]]
  BY <1>3, MeansCombined
<1>5. Worth[e][positive][doc] = Worth[e.args[1][1]][~positive][doc]
  BY <1>3, WorthCombined
<1> QED BY <1>1, <1>2, <1>4, <1>5 DEF IsFaithful

\* All of two clauses that must match, or one of two that should.
LEMMA HoldingPair ==
  ASSUME NEW s \in Seq(Expression), DOMAIN s = {1, 2}, NEW doc \in Doc
  PROVE  /\ Holding(s, doc) = DOMAIN s <=> doc \in Means[s[1]] /\ doc \in Means[s[2]]
         /\ Cardinality(Holding(s, doc)) >= 1 <=> doc \in Means[s[1]] \/ doc \in Means[s[2]]
         /\ s # <<>>
<1>1. \A i : i \in Holding(s, doc) <=> \/ i = 1 /\ doc \in Means[s[1]]
                                       \/ i = 2 /\ doc \in Means[s[2]]
  BY DEF Holding
<1>2. Holding(s, doc) = DOMAIN s <=> doc \in Means[s[1]] /\ doc \in Means[s[2]]
  BY <1>1
<1>3. Holding(s, doc) = {} <=> ~(doc \in Means[s[1]] \/ doc \in Means[s[2]])
  BY <1>1
<1>4. IsFiniteSet(Holding(s, doc))
  <2>1. IsFiniteSet(1 .. 2) /\ Holding(s, doc) \subseteq 1 .. 2
    BY <1>1, FS_Interval
  <2> QED BY <2>1, FS_Subset
<1>5. /\ Cardinality(Holding(s, doc)) \in Nat
      /\ Cardinality(Holding(s, doc)) = 0 <=> Holding(s, doc) = {}
  BY <1>4, FS_CardinalityType, FS_EmptySet
<1>6. s # <<>>
  BY NoneIsSequence
<1> QED BY <1>2, <1>3, <1>5, <1>6

LEMMA MeansBoth ==
  ASSUME NEW e \in Expression, NEW both \in Seq(Expression), DOMAIN both = {1, 2},
         IsMadeOf(e, Expression, both, <<>>, <<>>, <<>>, 0), NEW doc \in Doc
  PROVE  /\ doc \in Means[e] <=> doc \in Means[both[1]] /\ doc \in Means[both[2]]
         /\ Value(e, doc) = IF doc \in Means[e] THEN Gain(both, doc) ELSE 0
<1>1. /\ e \in Compounds(Expression) /\ e.args[1] = both /\ e.args[2] = <<>>
      /\ e.args[3] = <<>> /\ e.args[4] = <<>> /\ e.options["minimum"] = 0
  BY DEF IsMadeOf
<1>2. EnoughShould(0, both, <<>>, <<>>, 0)
  BY DEF EnoughShould
<1>3. Meets(e, doc) <=> doc \in Means[both[1]] /\ doc \in Means[both[2]]
  BY <1>1, <1>2, HoldingPair, HoldingNone DEF Meets
<1>4. Gain(e.args[1], doc) = Gain(both, doc) /\ Gain(e.args[3], doc) = 0 /\ Gain(both, doc) \in Nat
  BY <1>1, GainOfNone, WorthsOf DEF Gain
<1>5. Value(e, doc) = IF doc \in Means[e] THEN Gain(e.args[1], doc) + Gain(e.args[3], doc) ELSE 0
  BY <1>1, WorthAdds
<1>6. Value(e, doc) = IF doc \in Means[e] THEN Gain(both, doc) ELSE 0
  BY <1>4, <1>5
<1>7. doc \in Means[e] <=> Meets(e, doc)
  BY <1>1, MeansCompound
<1> QED BY <1>3, <1>6, <1>7

LEMMA MeansEither ==
  ASSUME NEW e \in Expression, NEW both \in Seq(Expression), DOMAIN both = {1, 2},
         IsMadeOf(e, Expression, <<>>, <<>>, both, <<>>, 1), NEW doc \in Doc
  PROVE  /\ doc \in Means[e] <=> doc \in Means[both[1]] \/ doc \in Means[both[2]]
         /\ Value(e, doc) = IF doc \in Means[e] THEN Gain(both, doc) ELSE 0
<1>1. /\ e \in Compounds(Expression) /\ e.args[1] = <<>> /\ e.args[2] = <<>>
      /\ e.args[3] = both /\ e.args[4] = <<>> /\ e.options["minimum"] = 1
  BY DEF IsMadeOf
<1>2. \A k : EnoughShould(1, <<>>, <<>>, both, k) <=> k >= 1
  BY DEF EnoughShould
<1>3. Meets(e, doc) <=> doc \in Means[both[1]] \/ doc \in Means[both[2]]
  BY <1>1, <1>2, HoldingPair, HoldingNone DEF Meets
<1>4. Gain(e.args[3], doc) = Gain(both, doc) /\ Gain(e.args[1], doc) = 0 /\ Gain(both, doc) \in Nat
  BY <1>1, GainOfNone, WorthsOf DEF Gain
<1>5. Value(e, doc) = IF doc \in Means[e] THEN Gain(e.args[1], doc) + Gain(e.args[3], doc) ELSE 0
  BY <1>1, WorthAdds
<1>6. Value(e, doc) = IF doc \in Means[e] THEN Gain(both, doc) ELSE 0
  BY <1>4, <1>5
<1>7. doc \in Means[e] <=> Meets(e, doc)
  BY <1>1, MeansCompound
<1> QED BY <1>3, <1>6, <1>7

LEMMA FaithfulPair ==
  ASSUME NEW e \in Written, e \in Combinations(Written), e.py # "NOT",
         NEW negated \in BOOLEAN, NEW positive \in BOOLEAN, positive # negated, NEW doc \in Doc,
         IsFaithful(e.args[1][1], negated, positive, doc),
         IsFaithful(e.args[1][2], negated, positive, doc)
  PROVE  IsFaithful(e, negated, positive, doc)
<1>1. e \in Expression /\ Final(e, negated) \in Expression
  BY WrittenIsReady, FinalIsCompound
<1>2. e.py \in {"AND", "OR"} /\ DOMAIN e.args[1] = {1, 2}
  BY CombinedShape
<1>3. IsFinalPair(e, negated)
  BY FinalOfPair
<1>4. PICK both \in Seq(Expression) :
        /\ DOMAIN both = {1, 2}
        /\ both[1] = Final(e.args[1][1], negated) /\ both[2] = Final(e.args[1][2], negated)
        /\ (e.py = "AND") # negated =>
             IsMadeOf(Final(e, negated), Expression, both, <<>>, <<>>, <<>>, 0)
        /\ (e.py = "AND") = negated =>
             IsMadeOf(Final(e, negated), Expression, <<>>, <<>>, both, <<>>, 1)
  BY <1>3 DEF IsFinalPair
<1>5. /\ doc \in Means[both[1]] <=> (doc \in Means[e.args[1][1]]) = positive
      /\ doc \in Means[both[2]] <=> (doc \in Means[e.args[1][2]]) = positive
      /\ Value(both[1], doc) = Worth[e.args[1][1]][positive][doc]
      /\ Value(both[2], doc) = Worth[e.args[1][2]][positive][doc]
  BY <1>4 DEF IsFaithful
<1>6. Gain(both, doc) = Sum(Worths(e.args[1], positive, doc))
  <2>1. Worths(both, TRUE, doc) = [i \in {1, 2} |-> Value(both[i], doc)]
    BY <1>4 DEF Worths, Value
  <2>2. Worths(e.args[1], positive, doc) = [i \in {1, 2} |-> Worth[e.args[1][i]][positive][doc]]
    BY <1>2 DEF Worths
  <2>3. \A i \in {1, 2} : Value(both[i], doc) = Worth[e.args[1][i]][positive][doc]
    BY <1>5
  <2>4. Worths(both, TRUE, doc) = Worths(e.args[1], positive, doc)
    BY <2>1, <2>2, <2>3
  <2> QED BY <2>4 DEF Gain
<1>7. Worth[e][positive][doc] = IF (doc \in Means[e]) # positive THEN 0
                                ELSE Sum(Worths(e.args[1], positive, doc))
  BY <1>1, WorthCombined
<1>8. /\ e.py = "AND" =>
           (doc \in Means[e] <=> doc \in Means[e.args[1][1]] /\ doc \in Means[e.args[1][2]])
      /\ e.py = "OR" =>
           (doc \in Means[e] <=> doc \in Means[e.args[1][1]] \/ doc \in Means[e.args[1][2]])
  BY <1>1, MeansCombined
<1>9. /\ doc \in Means[Final(e, negated)] <=> (doc \in Means[e]) = positive
      /\ Value(Final(e, negated), doc)
           = IF doc \in Means[Final(e, negated)] THEN Gain(both, doc) ELSE 0
  <2>1. CASE (e.py = "AND") # negated
    <3>1. /\ doc \in Means[Final(e, negated)] <=>
               doc \in Means[both[1]] /\ doc \in Means[both[2]]
          /\ Value(Final(e, negated), doc)
               = IF doc \in Means[Final(e, negated)] THEN Gain(both, doc) ELSE 0
      BY <1>1, <1>4, <2>1, MeansBoth
    <3> QED BY <1>2, <1>5, <1>8, <2>1, <3>1
  <2>2. CASE (e.py = "AND") = negated
    <3>1. /\ doc \in Means[Final(e, negated)] <=>
               doc \in Means[both[1]] \/ doc \in Means[both[2]]
          /\ Value(Final(e, negated), doc)
               = IF doc \in Means[Final(e, negated)] THEN Gain(both, doc) ELSE 0
      BY <1>1, <1>4, <2>2, MeansEither
    <3> QED BY <1>2, <1>5, <1>8, <2>2, <3>1
  <2> QED BY <2>1, <2>2
<1> QED BY <1>6, <1>7, <1>9 DEF IsFaithful

\* De Morgan's laws lose nothing, at whatever depth.
LEMMA Faithful ==
  ASSUME NEW e \in Written, ~IsMixed(e), NEW negated \in BOOLEAN, NEW positive \in BOOLEAN,
         positive # negated, NEW doc \in Doc
  PROVE  IsFaithful(e, negated, positive, doc)
<1> DEFINE S == {x \in Written : ~IsMixed(x) =>
                   \A n \in BOOLEAN, p \in BOOLEAN : p # n => IsFaithful(x, n, p, doc)}
<1>1. ASSUME NEW x \in Written, Parts(x) \subseteq S PROVE x \in S
  <2> SUFFICES ASSUME ~IsMixed(x), NEW n \in BOOLEAN, NEW p \in BOOLEAN, p # n
               PROVE  IsFaithful(x, n, p, doc)
    OBVIOUS
  <2>1. x \in Expression
    BY WrittenIsExpression
  <2>2. \A y \in Parts(x) : ~IsMixed(y)
    BY <2>1, IsMixedIs
  <2>3. \A y \in Parts(x) : IsFaithful(y, n, p, doc) /\ IsFaithful(y, p, n, doc)
    BY <1>1, <2>2
  <2> HIDE DEF S
  <2>4. CASE x \in Singles
    BY <2>4, FaithfulSingle
  <2>5. CASE x \in Compounds(Written)
    <3>1. ~HoldsCombined(x)
      BY <2>1, <2>5, IsMixedIs, CompoundShape
    <3> QED BY <2>5, <3>1, FaithfulCompound
  <2>6. CASE x \in Combinations(Written) /\ x.py = "NOT"
    <3>1. x.args[1][1] \in Parts(x)
      BY <2>6, OperandsAreParts
    <3> QED BY <2>3, <2>6, <3>1, FaithfulNot
  <2>7. CASE x \in Combinations(Written) /\ x.py # "NOT"
    <3>1. x.args[1][1] \in Parts(x) /\ x.args[1][2] \in Parts(x)
      BY <2>7, OperandsAreParts
    <3> QED BY <2>3, <2>7, <3>1, FaithfulPair
  <2> QED BY <2>4, <2>5, <2>6, <2>7, WrittenKinds
<1> HIDE DEF S
<1>2. Written \subseteq S
  BY <1>1, WrittenInduction
<1> QED BY <1>2 DEF S

-----------------------------------------------------------------------------
(* The operator of a search.                                               *)

IsMadeWith(m, e, name, names) ==
  /\ m = Operator(name, e, names) /\ Truthy(e, OptionsOf(e.py)) \subseteq names
  /\ name \in LeafOperatorName
  /\ name = "exists" <=> e.py = "SearchExists"
  /\ name = "range" <=> e.py = "SearchRange"

IsOperatorOf(m, e) == \E names \in SUBSET OptionName : \E name : IsMadeWith(m, e, name, names)

LEMMA IsOperatorIf ==
  ASSUME NEW m, NEW e, NEW name, NEW names, names \subseteq OptionName,
         m = Operator(name, e, names), Truthy(e, OptionsOf(e.py)) \subseteq names,
         name \in LeafOperatorName,
         name = "exists" <=> e.py = "SearchExists",
         name = "range" <=> e.py = "SearchRange"
  PROVE  IsOperatorOf(m, e)
<1>1. IsMadeWith(m, e, name, names)
  BY DEF IsMadeWith
<1> HIDE DEF IsMadeWith
<1> QED BY <1>1 DEF IsOperatorOf

LEMMA LeafOperatorIs ==
  ASSUME NEW e \in Singles, ~IsVector(e)
  PROVE  IsOperatorOf(LeafOperator(e), e)
<1>1. e.py \in LeafClass
  BY SingleShape DEF IsVector
<1>2. CASE e.py = "SearchAutocomplete"
  <2> DEFINE names == NotNone(e, {"fuzzy"}) \cup Truthy(e, {"score", "tokenOrder"})
  <2>1. LeafOperator(e) = Operator("autocomplete", e, names)
    BY <1>2 DEF LeafOperator, SearchAutocomplete
  <2>2. Truthy(e, OptionsOf(e.py)) \subseteq names
    BY <1>2 DEF OptionsOf, Truthy, NotNone
  <2>3. names \subseteq OptionName
    BY DEF OptionName, Truthy, NotNone
  <2> HIDE DEF names
  <2>4. "autocomplete" \in LeafOperatorName
    BY DEF LeafOperatorName
  <2>5. "autocomplete" = "exists" <=> e.py = "SearchExists"
    BY <1>2
  <2>6. "autocomplete" = "range" <=> e.py = "SearchRange"
    BY <1>2
  <2> QED BY <2>1, <2>2, <2>3, <2>4, <2>5, <2>6, IsOperatorIf
<1>3. CASE e.py = "SearchEquals"
  <2> DEFINE names == Truthy(e, {"score"})
  <2>1. LeafOperator(e) = Operator("equals", e, names)
    BY <1>3 DEF LeafOperator, SearchEquals
  <2>2. Truthy(e, OptionsOf(e.py)) \subseteq names
    BY <1>3 DEF OptionsOf, Truthy
  <2>3. names \subseteq OptionName
    BY DEF OptionName, Truthy
  <2> HIDE DEF names
  <2>4. "equals" \in LeafOperatorName
    BY DEF LeafOperatorName
  <2>5. "equals" = "exists" <=> e.py = "SearchExists"
    BY <1>3
  <2>6. "equals" = "range" <=> e.py = "SearchRange"
    BY <1>3
  <2> QED BY <2>1, <2>2, <2>3, <2>4, <2>5, <2>6, IsOperatorIf
<1>4. CASE e.py = "SearchExists"
  <2> DEFINE names == Truthy(e, {"score"})
  <2>1. LeafOperator(e) = Operator("exists", e, names)
    BY <1>4 DEF LeafOperator, SearchExists
  <2>2. Truthy(e, OptionsOf(e.py)) \subseteq names
    BY <1>4 DEF OptionsOf, Truthy
  <2>3. names \subseteq OptionName
    BY DEF OptionName, Truthy
  <2> HIDE DEF names
  <2>4. "exists" \in LeafOperatorName
    BY DEF LeafOperatorName
  <2>5. "exists" = "exists" <=> e.py = "SearchExists"
    BY <1>4
  <2>6. "exists" = "range" <=> e.py = "SearchRange"
    BY <1>4
  <2> QED BY <2>1, <2>2, <2>3, <2>4, <2>5, <2>6, IsOperatorIf
<1>5. CASE e.py = "SearchIn"
  <2> DEFINE names == Truthy(e, {"score"})
  <2>1. LeafOperator(e) = Operator("in", e, names)
    BY <1>5 DEF LeafOperator, SearchIn
  <2>2. Truthy(e, OptionsOf(e.py)) \subseteq names
    BY <1>5 DEF OptionsOf, Truthy
  <2>3. names \subseteq OptionName
    BY DEF OptionName, Truthy
  <2> HIDE DEF names
  <2>4. "in" \in LeafOperatorName
    BY DEF LeafOperatorName
  <2>5. "in" = "exists" <=> e.py = "SearchExists"
    BY <1>5
  <2>6. "in" = "range" <=> e.py = "SearchRange"
    BY <1>5
  <2> QED BY <2>1, <2>2, <2>3, <2>4, <2>5, <2>6, IsOperatorIf
<1>6. CASE e.py = "SearchPhrase"
  <2> DEFINE names == Truthy(e, {"score", "slop", "synonyms"})
  <2>1. LeafOperator(e) = Operator("phrase", e, names)
    BY <1>6 DEF LeafOperator, SearchPhrase
  <2>2. Truthy(e, OptionsOf(e.py)) \subseteq names
    BY <1>6 DEF OptionsOf, Truthy
  <2>3. names \subseteq OptionName
    BY DEF OptionName, Truthy
  <2> HIDE DEF names
  <2>4. "phrase" \in LeafOperatorName
    BY DEF LeafOperatorName
  <2>5. "phrase" = "exists" <=> e.py = "SearchExists"
    BY <1>6
  <2>6. "phrase" = "range" <=> e.py = "SearchRange"
    BY <1>6
  <2> QED BY <2>1, <2>2, <2>3, <2>4, <2>5, <2>6, IsOperatorIf
<1>7. CASE e.py = "SearchQueryString"
  <2> DEFINE names == Truthy(e, {"score"})
  <2>1. LeafOperator(e) = Operator("queryString", e, names)
    BY <1>7 DEF LeafOperator, SearchQueryString
  <2>2. Truthy(e, OptionsOf(e.py)) \subseteq names
    BY <1>7 DEF OptionsOf, Truthy
  <2>3. names \subseteq OptionName
    BY DEF OptionName, Truthy
  <2> HIDE DEF names
  <2>4. "queryString" \in LeafOperatorName
    BY DEF LeafOperatorName
  <2>5. "queryString" = "exists" <=> e.py = "SearchExists"
    BY <1>7
  <2>6. "queryString" = "range" <=> e.py = "SearchRange"
    BY <1>7
  <2> QED BY <2>1, <2>2, <2>3, <2>4, <2>5, <2>6, IsOperatorIf
<1>8. CASE e.py = "SearchRange"
  <2> DEFINE names == Truthy(e, {"score", "lt", "lte", "gt", "gte"})
  <2>1. LeafOperator(e) = Operator("range", e, names)
    BY <1>8 DEF LeafOperator, SearchRange
  <2>2. Truthy(e, OptionsOf(e.py)) \subseteq names
    BY <1>8 DEF OptionsOf, Truthy, Bounds
  <2>3. names \subseteq OptionName
    BY DEF OptionName, Truthy
  <2> HIDE DEF names
  <2>4. "range" \in LeafOperatorName
    BY DEF LeafOperatorName
  <2>5. "range" = "exists" <=> e.py = "SearchExists"
    BY <1>8
  <2>6. "range" = "range" <=> e.py = "SearchRange"
    BY <1>8
  <2> QED BY <2>1, <2>2, <2>3, <2>4, <2>5, <2>6, IsOperatorIf
<1>9. CASE e.py = "SearchRegex"
  <2> DEFINE names == NotNone(e, {"allowAnalyzedField"}) \cup Truthy(e, {"score"})
  <2>1. LeafOperator(e) = Operator("regex", e, names)
    BY <1>9 DEF LeafOperator, SearchRegex
  <2>2. Truthy(e, OptionsOf(e.py)) \subseteq names
    BY <1>9 DEF OptionsOf, Truthy, NotNone
  <2>3. names \subseteq OptionName
    BY DEF OptionName, Truthy, NotNone
  <2> HIDE DEF names
  <2>4. "regex" \in LeafOperatorName
    BY DEF LeafOperatorName
  <2>5. "regex" = "exists" <=> e.py = "SearchExists"
    BY <1>9
  <2>6. "regex" = "range" <=> e.py = "SearchRange"
    BY <1>9
  <2> QED BY <2>1, <2>2, <2>3, <2>4, <2>5, <2>6, IsOperatorIf
<1>10. CASE e.py = "SearchText"
  <2> DEFINE names == NotNone(e, {"fuzzy"}) \cup Truthy(e, {"score", "matchCriteria", "synonyms"})
  <2>1. LeafOperator(e) = Operator("text", e, names)
    BY <1>10 DEF LeafOperator, SearchText
  <2>2. Truthy(e, OptionsOf(e.py)) \subseteq names
    BY <1>10 DEF OptionsOf, Truthy, NotNone
  <2>3. names \subseteq OptionName
    BY DEF OptionName, Truthy, NotNone
  <2> HIDE DEF names
  <2>4. "text" \in LeafOperatorName
    BY DEF LeafOperatorName
  <2>5. "text" = "exists" <=> e.py = "SearchExists"
    BY <1>10
  <2>6. "text" = "range" <=> e.py = "SearchRange"
    BY <1>10
  <2> QED BY <2>1, <2>2, <2>3, <2>4, <2>5, <2>6, IsOperatorIf
<1>11. CASE e.py = "SearchWildcard"
  <2> DEFINE names == NotNone(e, {"allowAnalyzedField"}) \cup Truthy(e, {"score"})
  <2>1. LeafOperator(e) = Operator("wildcard", e, names)
    BY <1>11 DEF LeafOperator, SearchWildcard
  <2>2. Truthy(e, OptionsOf(e.py)) \subseteq names
    BY <1>11 DEF OptionsOf, Truthy, NotNone
  <2>3. names \subseteq OptionName
    BY DEF OptionName, Truthy, NotNone
  <2> HIDE DEF names
  <2>4. "wildcard" \in LeafOperatorName
    BY DEF LeafOperatorName
  <2>5. "wildcard" = "exists" <=> e.py = "SearchExists"
    BY <1>11
  <2>6. "wildcard" = "range" <=> e.py = "SearchRange"
    BY <1>11
  <2> QED BY <2>1, <2>2, <2>3, <2>4, <2>5, <2>6, IsOperatorIf
<1>12. CASE e.py = "SearchGeoShape"
  <2> DEFINE names == Truthy(e, {"score"})
  <2>1. LeafOperator(e) = Operator("geoShape", e, names)
    BY <1>12 DEF LeafOperator, SearchGeoShape
  <2>2. Truthy(e, OptionsOf(e.py)) \subseteq names
    BY <1>12 DEF OptionsOf, Truthy
  <2>3. names \subseteq OptionName
    BY DEF OptionName, Truthy
  <2> HIDE DEF names
  <2>4. "geoShape" \in LeafOperatorName
    BY DEF LeafOperatorName
  <2>5. "geoShape" = "exists" <=> e.py = "SearchExists"
    BY <1>12
  <2>6. "geoShape" = "range" <=> e.py = "SearchRange"
    BY <1>12
  <2> QED BY <2>1, <2>2, <2>3, <2>4, <2>5, <2>6, IsOperatorIf
<1>13. CASE e.py = "SearchGeoWithin"
  <2> DEFINE names == Truthy(e, {"score"})
  <2>1. LeafOperator(e) = Operator("geoWithin", e, names)
    BY <1>13 DEF LeafOperator, SearchGeoWithin
  <2>2. Truthy(e, OptionsOf(e.py)) \subseteq names
    BY <1>13 DEF OptionsOf, Truthy
  <2>3. names \subseteq OptionName
    BY DEF OptionName, Truthy
  <2> HIDE DEF names
  <2>4. "geoWithin" \in LeafOperatorName
    BY DEF LeafOperatorName
  <2>5. "geoWithin" = "exists" <=> e.py = "SearchExists"
    BY <1>13
  <2>6. "geoWithin" = "range" <=> e.py = "SearchRange"
    BY <1>13
  <2> QED BY <2>1, <2>2, <2>3, <2>4, <2>5, <2>6, IsOperatorIf
<1>14. CASE e.py = "SearchMoreLikeThis"
  <2> DEFINE names == Truthy(e, {"score"})
  <2>1. LeafOperator(e) = Operator("moreLikeThis", e, names)
    BY <1>14 DEF LeafOperator, SearchMoreLikeThis
  <2>2. Truthy(e, OptionsOf(e.py)) \subseteq names
    BY <1>14 DEF OptionsOf, Truthy
  <2>3. names \subseteq OptionName
    BY DEF OptionName, Truthy
  <2> HIDE DEF names
  <2>4. "moreLikeThis" \in LeafOperatorName
    BY DEF LeafOperatorName
  <2>5. "moreLikeThis" = "exists" <=> e.py = "SearchExists"
    BY <1>14
  <2>6. "moreLikeThis" = "range" <=> e.py = "SearchRange"
    BY <1>14
  <2> QED BY <2>1, <2>2, <2>3, <2>4, <2>5, <2>6, IsOperatorIf
<1> QED BY <1>1, <1>2, <1>3, <1>4, <1>5, <1>6, <1>7, <1>8, <1>9,
          <1>10, <1>11, <1>12, <1>13, <1>14 DEF LeafClass

\* Only a zero is dropped on the way.
LEMMA OptionsArrive ==
  ASSUME NEW e \in Singles, ~IsVector(e), NEW m, m = LeafOperator(e)
  PROVE  /\ m \in LeafOperators /\ m.op # "compound"
         /\ m.op = "exists" <=> e.py = "SearchExists"
         /\ m.op = "range" <=> e.py = "SearchRange"
         /\ m.paths = e.paths /\ m.value = e.value
         /\ \A n \in OptionName :
              m.params[n] = e.options[n] \/ (e.options[n] = 0 /\ m.params[n] = None)
<1>1. IsOperatorOf(m, e)
  BY LeafOperatorIs
<1>0. PICK names \in SUBSET OptionName : \E name : IsMadeWith(m, e, name, names)
  BY <1>1 DEF IsOperatorOf
<1>0a. PICK name : IsMadeWith(m, e, name, names)
  BY <1>0
<1>2. /\ m = Operator(name, e, names) /\ Truthy(e, OptionsOf(e.py)) \subseteq names
      /\ name \in LeafOperatorName
      /\ name = "exists" <=> e.py = "SearchExists"
      /\ name = "range" <=> e.py = "SearchRange"
  BY <1>0a DEF IsMadeWith
<1>3. /\ e.paths \in SUBSET Field /\ e.value \in SUBSET Int /\ e.options \in Options
      /\ \A n \in OptionName \ OptionsOf(e.py) : e.options[n] = None
  BY SingleShape
<1>4. m = [op |-> name, paths |-> e.paths, value |-> e.value, params |-> Params(e, names),
           args |-> <<>>]
  BY <1>2 DEF Operator
<1>5. Params(e, names) \in Options
  BY <1>3 DEF Params, Options
<1>6. \A n \in OptionName :
        \/ Params(e, names)[n] = e.options[n]
        \/ e.options[n] = 0 /\ Params(e, names)[n] = None
  <2> TAKE n \in OptionName
  <2>1. Params(e, names)[n] = IF n \in names THEN e.options[n] ELSE None
    BY DEF Params
  <2>2. CASE n \in OptionsOf(e.py)
    <3>1. n \notin names => e.options[n] \in {None, 0}
      BY <1>2, <2>2 DEF Truthy
    <3> QED BY <2>1, <3>1
  <2>3. CASE n \notin OptionsOf(e.py)
    <3>1. e.options[n] = None
      BY <1>3, <2>3
    <3> QED BY <2>1, <3>1
  <2> QED BY <2>2, <2>3
<1>7. m.params = Params(e, names) /\ m.op = name /\ m.paths = e.paths /\ m.value = e.value
  BY <1>4
<1>8. m \in LeafOperators
  <2> HIDE DEF Options, Params, LeafOperatorName
  <2> QED BY <1>2, <1>3, <1>4, <1>5 DEF LeafOperators
<1>9. m.op # "compound"
  BY <1>8, LeafOperatorShape
<1> QED BY <1>2, <1>6, <1>7, <1>8, <1>9

LEMMA OptionIs ==
  ASSUME NEW m, NEW e, NEW n, e.options[n] \in Int \cup {None},
         m.params[n] = e.options[n] \/ (e.options[n] = 0 /\ m.params[n] = None)
  PROVE  Option(m, n, 0) = IF e.options[n] = None THEN 0 ELSE e.options[n]
BY SearchPipelineAssumption DEF Option

LEMMA SaysIs ==
  ASSUME NEW e \in Singles, ~IsVector(e), NoZeroBounds(e), NEW m, m = LeafOperator(e), NEW v \in Int
  PROVE  Says(m, v) <=> Finds(e, v)
<1>1. /\ m.op = "exists" <=> e.py = "SearchExists"
      /\ m.op = "range" <=> e.py = "SearchRange"
      /\ m.value = e.value
      /\ \A n \in OptionName :
           m.params[n] = e.options[n] \/ (e.options[n] = 0 /\ m.params[n] = None)
  BY OptionsArrive
<1>2. CASE e.py = "SearchExists"
  BY <1>1, <1>2 DEF Says, Finds
<1>3. CASE e.py = "SearchRange"
  <2>1. \A n \in Bounds : n \in OptionName /\ e.options[n] # 0
    BY <1>3 DEF NoZeroBounds, Bounds, OptionName
  <2>2. \A n \in Bounds : m.params[n] = e.options[n]
    BY <1>1, <2>1
  <2>3. Within(m.params, v) <=> Within(e.options, v)
    BY <2>2 DEF Within, Bounds
  <2>4. m.op = "range" /\ m.op # "exists"
    BY <1>1, <1>3
  <2> QED BY <1>3, <2>3, <2>4 DEF Says, Finds
<1>4. CASE e.py \notin {"SearchExists", "SearchRange"}
  <2>1. "fuzzy" \in OptionName /\ "slop" \in OptionName
    BY DEF OptionName
  <2>2. e.options["fuzzy"] \in Int \cup {None} /\ e.options["slop"] \in Int \cup {None}
    BY <2>1, SingleShape DEF Options
  <2>3. /\ Option(m, "fuzzy", 0) = IF e.options["fuzzy"] = None THEN 0 ELSE e.options["fuzzy"]
        /\ Option(m, "slop", 0) = IF e.options["slop"] = None THEN 0 ELSE e.options["slop"]
    BY <1>1, <2>1, <2>2, OptionIs
  <2>5. Option(m, "fuzzy", 0) + Option(m, "slop", 0) = Slack(e)
    BY <2>3 DEF Slack
  <2>4. m.op # "exists" /\ m.op # "range"
    BY <1>1, <1>4
  <2> QED BY <1>1, <1>4, <2>5, <2>4 DEF Says, Finds
<1> QED BY <1>2, <1>3, <1>4

-----------------------------------------------------------------------------
(* What an operator matches, and how it scores.                            *)

Finding(s, doc) == {i \in DOMAIN s : doc \in Matches[s[i]]}
Scores(s, doc) == [i \in DOMAIN s |-> Score[s[i]][doc]]

Meeting(m, doc) ==
  /\ Finding(m.args[1], doc) = DOMAIN m.args[1] /\ Finding(m.args[4], doc) = DOMAIN m.args[4]
  /\ Finding(m.args[2], doc) = {}
  /\ EnoughShould(Option(m, "minimum", 0), m.args[1], m.args[4], m.args[3],
                  Cardinality(Finding(m.args[3], doc)))

LEMMA MatchesIs ==
  ASSUME NEW m \in AnyOperator, NEW doc \in Doc
  PROVE  doc \in Matches[m] <=>
           IF m.op # "compound" THEN \E f \in m.paths : doc[f] # Missing /\ Says(m, doc[f])
           ELSE Meeting(m, doc)
<1>1. Matches[m] = MatchesRule(Matches, m)
  BY MatchesDef
<1>2. \A c : Finding(m.args[c], doc) = {i \in DOMAIN m.args[c] : doc \in Matches[m.args[c][i]]}
  BY DEF Finding
<1>3. doc \in MatchesRule(Matches, m) <=>
        IF m.op # "compound" THEN \E f \in m.paths : doc[f] # Missing /\ Says(m, doc[f])
        ELSE Meeting(m, doc)
  BY <1>2 DEF MatchesRule, Meeting
<1> QED BY <1>1, <1>3

LEMMA ScoreIs ==
  ASSUME NEW m \in AnyOperator, NEW doc \in Doc
  PROVE  Score[m][doc] =
           IF doc \notin Matches[m] THEN 0
           ELSE IF m.op # "compound" THEN Option(m, "score", 1)
           ELSE Sum(Scores(m.args[1], doc)) + Sum(Scores(m.args[3], doc))
<1>1. Score[m] = ScoreRule(Score, m)
  BY ScoreDef
<1>2. \A c : Scores(m.args[c], doc) = [i \in DOMAIN m.args[c] |-> Score[m.args[c][i]][doc]]
  BY DEF Scores
<1>3. ScoreRule(Score, m)[doc] =
        IF doc \notin Matches[m] THEN 0
        ELSE IF m.op # "compound" THEN Option(m, "score", 1)
        ELSE Sum(Scores(m.args[1], doc)) + Sum(Scores(m.args[3], doc))
  BY <1>2 DEF ScoreRule
<1> QED BY <1>1, <1>3

\* The operator says and scores what the expression means.
IsSaid(e, doc) ==
  /\ doc \in Matches[SearchOperator[e]] <=> doc \in Means[e]
  /\ Score[SearchOperator[e]][doc] = Value(e, doc)

LEMMA SingleIsSaid ==
  ASSUME NEW e \in Expression, e \in Singles, ~IsVector(e), NoZeroBounds(e),
         SearchOperator[e] \in AnyOperator, NEW doc \in Doc
  PROVE  IsSaid(e, doc)
<1>1. PICK m : m = LeafOperator(e)
  OBVIOUS
<1>2. SearchOperator[e] = m
  <2>1. ~IsCompound(e)
    BY SingleShape
  <2> QED BY <1>1, <2>1, SearchOperatorDef DEF SearchOperatorRule
<1>3. /\ m.op # "compound" /\ m.paths = e.paths /\ e.paths \in SUBSET Field
      /\ \A n \in OptionName :
           m.params[n] = e.options[n] \/ (e.options[n] = 0 /\ m.params[n] = None)
  BY <1>1, OptionsArrive, SingleShape
<1>4. \A f \in Field : doc[f] \in Int
  BY DEF Doc
<1>5. \A f \in e.paths : Says(m, doc[f]) <=> Finds(e, doc[f])
  BY <1>1, <1>3, <1>4, SaysIs
<1>6. doc \in Matches[m] <=> doc \in Means[e]
  <2>1. doc \in Means[e] <=> \E f \in e.paths : doc[f] # Missing /\ Finds(e, doc[f])
    BY MeansSingle
  <2>2. doc \in Matches[m] <=> \E f \in m.paths : doc[f] # Missing /\ Says(m, doc[f])
    BY <1>2, <1>3, MatchesIs
  <2> QED BY <1>3, <1>5, <2>1, <2>2
<1>7. m.params["score"] = e.options["score"]
  <2>1. "score" \in OptionName
    BY DEF OptionName
  <2>2. e.options["score"] # 0
    <3>1. e.options["score"] # None => e.options["score"] > 0
      BY SingleShape
    <3>2. e.options["score"] \in Int \cup {None}
      BY <2>1, SingleShape DEF Options
    <3> QED BY <3>1, <3>2, SearchPipelineAssumption
  <2> QED BY <1>3, <2>1, <2>2
<1>8. Value(e, doc) = IF doc \notin Means[e] THEN 0
                      ELSE IF e.options["score"] = None THEN 1 ELSE e.options["score"]
  BY WorthSingle DEF Value
<1>9. Score[m][doc] = IF doc \notin Matches[m] THEN 0
                      ELSE IF m.params["score"] = None THEN 1 ELSE m.params["score"]
  BY <1>2, <1>3, ScoreIs DEF Option
<1> QED BY <1>2, <1>6, <1>7, <1>8, <1>9 DEF IsSaid

-----------------------------------------------------------------------------
(* The operator of a compound.                                             *)

\* Nothing is left in it that has no operator.
IsPlain(e) == ~IsCombined(e) /\ ~HoldsCombined(e) /\ ~IsVector(e) /\ ~HoldsVector(e)

LEMMA PlainParts ==
  ASSUME NEW e \in Expression, IsPlain(e)
  PROVE  /\ e \in Singles \/ e \in Compounds(Expression)
         /\ \A x \in Parts(e) : x \in Expression /\ IsPlain(x)
<1>1. e \notin Combinations(Expression)
  BY CombinedShape DEF IsPlain
<1>2. \A x \in Parts(e) : x \in Expression /\ IsPlain(x)
  BY ExpressionParts, HoldsVectorIs, HoldsCombinedIs DEF IsPlain
<1> QED BY <1>1, <1>2, ExpressionKinds

Operators(s) == [i \in DOMAIN s |-> SearchOperator[s[i]]]

LEMMA OperatorsAre ==
  ASSUME NEW S, NEW T, NEW s \in Seq(S), \A x \in S : SearchOperator[x] \in T
  PROVE  /\ Operators(s) \in Seq(T) /\ DOMAIN Operators(s) = DOMAIN s
         /\ \A i \in DOMAIN s : Operators(s)[i] = SearchOperator[s[i]]
         /\ Operators(s) = <<>> <=> s = <<>>
<1>1. Operators(s) \in Seq(T)
  BY Rewritten DEF Operators
<1>2. DOMAIN Operators(s) = DOMAIN s /\ \A i \in DOMAIN s : Operators(s)[i] = SearchOperator[s[i]]
  BY DEF Operators
<1>3. \A t \in Seq(S) \cup Seq(T) : t = <<>> <=> DOMAIN t = {}
  OBVIOUS
<1> QED BY <1>1, <1>2, <1>3

IsCompoundOf(m, e, T) ==
  /\ m \in CompoundOperators(T) /\ Option(m, "minimum", 0) = e.options["minimum"]
  /\ \A c \in 1 .. 4 : m.args[c] = Operators(e.args[c])

LEMMA CompoundOperatorIs ==
  ASSUME NEW e \in Expression, e \in Compounds(Expression), NEW T,
         \A x \in Parts(e) : SearchOperator[x] \in T
  PROVE  IsCompoundOf(SearchOperator[e], e, T)
<1> DEFINE params == Params(e, Truthy(e, {"minimum"}))
           args == [c \in 1 .. 4 |-> [i \in DOMAIN e.args[c] |-> SearchOperator[e.args[c][i]]]]
<1>1. SearchOperator[e] =
        [op |-> "compound", paths |-> {}, value |-> {}, params |-> params, args |-> args]
  <2>1. IsCompound(e)
    BY CompoundShape
  <2> QED BY <2>1, SearchOperatorDef DEF SearchOperatorRule
<1>2. e.options \in Options /\ e.options["minimum"] \in Nat
  BY CompoundShape
<1>3. params \in Options
  BY <1>2 DEF Params, Options
<1>4. \A c \in 1 .. 4 : args[c] = Operators(e.args[c])
  BY DEF Operators
<1>5. \A c \in 1 .. 4 : Operators(e.args[c]) \in Seq(T)
  BY ClausesAreParts, OperatorsAre
<1>6. args \in [1 .. 4 -> Seq(T)]
  BY <1>4, <1>5
<1>7. params["minimum"] = IF e.options["minimum"] \in {None, 0} THEN None ELSE e.options["minimum"]
  BY DEF Params, Truthy, OptionName
<1> HIDE DEF params, args
<1>8. PICK m : m = SearchOperator[e]
  OBVIOUS
<1>9. m.params = params /\ m.args = args
  BY <1>1, <1>8
<1>10. m \in CompoundOperators(T)
  <2> HIDE DEF Options
  <2> QED BY <1>1, <1>8, <1>3, <1>6 DEF CompoundOperators
<1>11. Option(m, "minimum", 0) = e.options["minimum"]
  BY <1>2, <1>7, <1>9, SearchPipelineAssumption DEF Option
<1>12. \A c \in 1 .. 4 : m.args[c] = Operators(e.args[c])
  BY <1>4, <1>9
<1> HIDE DEF IsCompoundOf
<1>13. IsCompoundOf(m, e, T)
  BY <1>10, <1>11, <1>12 DEF IsCompoundOf
<1> QED BY <1>8, <1>13

LEMMA OperatorsInLevel ==
  ASSUME NEW h \in Nat, h <= Height + 2, NEW e \in ExpressionsUpTo[h], IsPlain(e)
  PROVE  SearchOperator[e] \in OperatorsUpTo[h]
<1> DEFINE Ok(n) == \A x \in ExpressionsUpTo[n] : IsPlain(x) => SearchOperator[x] \in OperatorsUpTo[n]
           S == {n \in Nat : n <= Height + 2 => Ok(n)}
<1>1. 0 \in S
  <2>1. ExpressionsUpTo[0] = {}
    BY LevelZero DEF Level, Kinds
  <2> QED BY <2>1
<1>2. ASSUME NEW n \in Nat, n \in S PROVE n + 1 \in S
  <2> SUFFICES ASSUME n + 1 <= Height + 2, NEW x \in ExpressionsUpTo[n + 1], IsPlain(x)
               PROVE  SearchOperator[x] \in OperatorsUpTo[n + 1]
    BY <1>2
  <2>1. n <= Height + 2
    BY SearchPipelineAssumption
  <2>2. ExpressionsUpTo[n + 1] = Made("expression", ExpressionsUpTo[n])
    BY LevelNext DEF Level, Kinds
  <2>3. OperatorsUpTo[n + 1] = Made("operator", OperatorsUpTo[n])
    BY LevelNext DEF Level, Kinds
  <2>4. x \in Expression
    <3>1. n + 1 \in Nat
      OBVIOUS
    <3> QED BY <3>1, LevelIsExpression
  <2>5. Parts(x) \subseteq ExpressionsUpTo[n]
    BY <2>2, PartsAreLower DEF Kinds
  <2>6. \A y \in Parts(x) : SearchOperator[y] \in OperatorsUpTo[n]
    BY <1>2, <2>1, <2>4, <2>5, PlainParts
  <2>7. CASE x \in Singles
    <3>1. ~IsCompound(x) /\ ~IsVector(x)
      BY <2>7, SingleShape DEF IsPlain
    <3>2. SearchOperator[x] = LeafOperator(x)
      BY <2>4, <3>1, SearchOperatorDef DEF SearchOperatorRule
    <3>3. SearchOperator[x] \in LeafOperators
      BY <2>7, <3>1, <3>2, OptionsArrive
    <3> HIDE DEF LeafOperators, CompoundOperators
    <3> QED BY <2>3, <3>3 DEF Made
  <2>8. CASE x \in Compounds(Expression)
    <3>1. SearchOperator[x] \in CompoundOperators(OperatorsUpTo[n])
      BY <2>4, <2>6, <2>8, CompoundOperatorIs DEF IsCompoundOf
    <3> HIDE DEF LeafOperators, CompoundOperators
    <3> QED BY <2>3, <3>1 DEF Made
  <2> QED BY <2>4, <2>7, <2>8, PlainParts
<1> HIDE DEF S
<1>3. h \in S
  BY <1>1, <1>2, Upwards
<1> QED BY <1>3 DEF S

LEMMA OperatorIsOne ==
  ASSUME NEW e \in Expression, IsPlain(e)
  PROVE  SearchOperator[e] \in AnyOperator
<1>1. PICK k \in Nat : k = Height + 2
  BY SearchPipelineAssumption
<1> QED BY <1>1, OperatorsInLevel DEF AnyOperator, Expression

-----------------------------------------------------------------------------
(* The operator of an expression says what the expression means.           *)

LEMMA NoZerosParts ==
  ASSUME NEW e \in Expression, NoZeros(e)
  PROVE  NoZeroBounds(e) /\ \A x \in Parts(e) : NoZeros(x)
<1>1. Inside[e] = Parts(e) \cup UNION {Inside[x] : x \in Parts(e)}
  BY InsideIs
<1>2. \A x \in Parts(e) : {x} \cup Inside[x] \subseteq Inside[e]
  BY <1>1
<1> QED BY <1>2 DEF NoZeros

LEMMA ClauseIsSaid ==
  ASSUME NEW S, NEW s \in Seq(S), S \subseteq Expression, NEW doc \in Doc, NEW T,
         \A x \in S : SearchOperator[x] \in T /\ IsSaid(x, doc)
  PROVE  /\ Finding(Operators(s), doc) = Holding(s, doc) /\ DOMAIN Operators(s) = DOMAIN s
         /\ Operators(s) = <<>> <=> s = <<>>
         /\ Sum(Scores(Operators(s), doc)) = Gain(s, doc)
<1>0. \A x \in S : SearchOperator[x] \in T
  OBVIOUS
<1>1. /\ DOMAIN Operators(s) = DOMAIN s
      /\ Operators(s) = <<>> <=> s = <<>>
      /\ \A i \in DOMAIN s : Operators(s)[i] = SearchOperator[s[i]]
  <2>1. Operators(s) \in Seq(T) /\ DOMAIN Operators(s) = DOMAIN s
    BY <1>0, OperatorsAre
  <2>2. Operators(s) = <<>> <=> s = <<>>
    <3>1. \A t \in Seq(S) \cup Seq(T) : t = <<>> <=> DOMAIN t = {}
      OBVIOUS
    <3> QED BY <2>1, <3>1
  <2>3. \A i \in DOMAIN s : Operators(s)[i] = SearchOperator[s[i]]
    BY DEF Operators
  <2> QED BY <2>1, <2>2, <2>3
<1>2. \A i \in DOMAIN s : IsSaid(s[i], doc)
  BY ElementsOf
<1>3. Finding(Operators(s), doc) = Holding(s, doc)
  BY <1>1, <1>2 DEF Finding, Holding, IsSaid
<1>4. \A i \in DOMAIN s : Score[Operators(s)[i]][doc] = Value(s[i], doc)
  BY <1>1, <1>2 DEF IsSaid
<1>5. Scores(Operators(s), doc) = [i \in DOMAIN s |-> Value(s[i], doc)]
  BY <1>1, <1>4 DEF Scores
<1>6. PICK t \in BOOLEAN : t = TRUE
  OBVIOUS
<1>7. \A x : Worth[x][t][doc] = Value(x, doc)
  BY <1>6 DEF Value
<1>8. Worths(s, t, doc) = [i \in DOMAIN s |-> Value(s[i], doc)]
  BY <1>7 DEF Worths
<1>9. Gain(s, doc) = Sum(Worths(s, t, doc))
  BY <1>6 DEF Gain
<1> QED BY <1>1, <1>3, <1>5, <1>8, <1>9

LEMMA CompoundIsSaid ==
  ASSUME NEW e \in Expression, e \in Compounds(Expression), IsPlain(e), NEW doc \in Doc,
         \A x \in Parts(e) : IsSaid(x, doc)
  PROVE  IsSaid(e, doc)
<1>1. \A x \in Parts(e) : SearchOperator[x] \in AnyOperator
  BY PlainParts, OperatorIsOne
<1>2. PICK m : m = SearchOperator[e]
  OBVIOUS
<1>3. /\ m \in CompoundOperators(AnyOperator) /\ Option(m, "minimum", 0) = e.options["minimum"]
      /\ \A c \in 1 .. 4 : m.args[c] = Operators(e.args[c])
  BY <1>1, <1>2, CompoundOperatorIs DEF IsCompoundOf
<1>4. m.op = "compound" /\ m \in AnyOperator
  BY <1>2, <1>3, CompoundOperatorShape, OperatorIsOne
<1>5. \A c \in 1 .. 4 : e.args[c] \in Seq(Parts(e))
  BY ClausesAreParts
<1>6. \A c \in 1 .. 4 :
        /\ Finding(m.args[c], doc) = Holding(e.args[c], doc) /\ DOMAIN m.args[c] = DOMAIN e.args[c]
        /\ m.args[c] = <<>> <=> e.args[c] = <<>>
        /\ Sum(Scores(m.args[c], doc)) = Gain(e.args[c], doc)
  <2> TAKE c \in 1 .. 4
  <2>1. PICK s \in Seq(Parts(e)) : s = e.args[c]
    BY <1>5
  <2>2. m.args[c] = Operators(s)
    BY <1>3, <2>1
  <2>3. Parts(e) \subseteq Expression
    BY ExpressionParts
  <2> QED BY <1>1, <2>1, <2>2, <2>3, ClauseIsSaid
<1>7. Meeting(m, doc) <=> Meets(e, doc)
  BY <1>3, <1>6 DEF Meeting, Meets, EnoughShould
<1>8. doc \in Matches[m] <=> doc \in Means[e]
  BY <1>4, <1>7, MatchesIs, MeansCompound
<1>9. Score[m][doc] = Value(e, doc)
  <2>1. Score[m][doc] = IF doc \notin Matches[m] THEN 0
                        ELSE Sum(Scores(m.args[1], doc)) + Sum(Scores(m.args[3], doc))
    BY <1>4, ScoreIs
  <2>2. Value(e, doc) = IF doc \in Means[e] THEN Gain(e.args[1], doc) + Gain(e.args[3], doc) ELSE 0
    BY WorthAdds
  <2> QED BY <1>6, <1>8, <2>1, <2>2
<1> QED BY <1>2, <1>8, <1>9 DEF IsSaid

\* Python's operators are gone from a plain expression; what becomes of it says, and
\* scores, what it means.
LEMMA PlainIsSaid ==
  ASSUME NEW e \in Expression, IsPlain(e), NoZeros(e), NEW doc \in Doc
  PROVE  IsSaid(e, doc)
<1> DEFINE S == {x \in Expression : IsPlain(x) /\ NoZeros(x) => IsSaid(x, doc)}
<1>1. ASSUME NEW x \in Expression, Parts(x) \subseteq S PROVE x \in S
  <2> SUFFICES ASSUME IsPlain(x), NoZeros(x) PROVE IsSaid(x, doc)
    OBVIOUS
  <2>1. \A y \in Parts(x) : IsPlain(y) /\ NoZeros(y) => IsSaid(y, doc)
    BY <1>1
  <2>2. \A y \in Parts(x) : IsSaid(y, doc)
    BY <2>1, PlainParts, NoZerosParts
  <2>3. NoZeroBounds(x) /\ SearchOperator[x] \in AnyOperator /\ ~IsVector(x)
    BY NoZerosParts, OperatorIsOne DEF IsPlain
  <2>4. x \in Singles => IsSaid(x, doc)
    BY <2>3, SingleIsSaid
  <2>5. x \in Compounds(Expression) => IsSaid(x, doc)
    BY <2>2, CompoundIsSaid
  <2> QED BY <2>4, <2>5, PlainParts
<1> HIDE DEF S
<1>2. Expression \subseteq S
  BY <1>1, ExpressionInduction
<1> QED BY <1>2 DEF S

-----------------------------------------------------------------------------
(* The searches in an expression stay what they are, whatever it becomes.  *)

Leaves(e) == ({e} \cup Inside[e]) \cap Singles

LEMMA LeavesIs ==
  ASSUME NEW e \in Expression, NEW y
  PROVE  y \in Leaves(e) <=> (y = e /\ e \in Singles) \/ \E x \in Parts(e) : y \in Leaves(x)
<1>1. Inside[e] = Parts(e) \cup UNION {Inside[x] : x \in Parts(e)}
  BY InsideIs
<1>2. y \in {e} \cup Inside[e] <=> y = e \/ \E x \in Parts(e) : y \in {x} \cup Inside[x]
  BY <1>1
<1> HIDE DEF Singles
<1> QED BY <1>2 DEF Leaves

LEMMA LeavesOfCompound ==
  ASSUME NEW S, NEW e \in Compounds(S), e \in Expression, NEW y
  PROVE  y \in Leaves(e) <=> \E x \in Parts(e) : y \in Leaves(x)
<1>1. e \notin Singles
  BY CompoundShape, SingleShape
<1> QED BY <1>1, LeavesIs

LEMMA LeavesOfCombined ==
  ASSUME NEW S, NEW e \in Combinations(S), e \in Expression, NEW y
  PROVE  y \in Leaves(e) <=> \E x \in Parts(e) : y \in Leaves(x)
<1>1. e \notin Singles
  BY CombinedShape, SingleShape
<1> QED BY <1>1, LeavesIs

LEMMA FinalLeaves ==
  ASSUME NEW e \in Written, ~IsMixed(e), NEW negated \in BOOLEAN
  PROVE  Leaves(Final(e, negated)) \subseteq Leaves(e)
<1> DEFINE Good == {x \in Written : ~IsMixed(x) => \A n \in BOOLEAN :
                      Leaves(Final(x, n)) \subseteq Leaves(x)}
<1>1. ASSUME NEW x \in Written, Parts(x) \subseteq Good PROVE x \in Good
  <2> SUFFICES ASSUME ~IsMixed(x), NEW n \in BOOLEAN, NEW y \in Leaves(Final(x, n))
               PROVE  y \in Leaves(x)
    OBVIOUS
  <2>1. x \in Expression /\ Ready(x) \in Expression
    BY WrittenIsReady DEF Ready
  <2>2. Final(x, n) \in Expression /\ Final(x, n) \in Compounds(Expression)
    BY FinalIsCompound
  <2>a. \A z \in Parts(x) : ~IsMixed(z)
    BY <2>1, IsMixedIs
  <2>b. \A z \in Parts(x) : \A m \in BOOLEAN : Leaves(Final(z, m)) \subseteq Leaves(z)
    BY <1>1, <2>a
  <2> HIDE DEF Good
  \* A compound is left alone, or negated as a whole.
  <2>3. ASSUME Ready(x) \in Compounds(Expression)
        PROVE  y \in Leaves(Ready(x))
    <3>1. CASE ~n
      BY <2>3, <3>1, FinalOfCompound
    <3>2. CASE n
      <4>1. Final(x, n) = NegateCompound(Ready(x))
        BY <2>3, <3>2, FinalOfCompound
      <4>2. Parts(Final(x, n)) = {Ready(x)}
        BY <2>1, <4>1, NegateCompoundIs
      <4> QED BY <2>2, <4>2, LeavesOfCompound
    <3> QED BY <3>1, <3>2
  <2>4. CASE x \in Singles
    <3>1. Ready(x) \in Compounds(Expression) /\ Parts(Ready(x)) = {x}
      BY <2>4, ReadySingle
    <3> QED BY <2>1, <2>3, <3>1, LeavesOfCompound
  <2>5. CASE x \in Compounds(Written)
    <3>1. Ready(x) = Build[x] /\ Ready(x) \in Compounds(Expression)
      BY <2>5, ReadyCompound
    <3>2. IsCompound(x) /\ ~IsCombined(x)
      BY <2>5, CompoundShape
    <3>3. Build[x] = x
      BY <2>1, <3>2, MixedCompound, BuildPlain
    <3> QED BY <2>3, <3>1, <3>3
  <2>6. CASE x \in Combinations(Written) /\ x.py = "NOT"
    <3>1. Final(x, n) = Final(x.args[1][1], ~n)
      BY <2>6, FinalOfNot
    <3>2. Parts(x) = {x.args[1][1]} /\ (~n) \in BOOLEAN
      BY <2>6, CombinedShape
    <3>3. y \in Leaves(x.args[1][1])
      BY <2>b, <3>1, <3>2
    <3> QED BY <2>1, <2>6, <3>2, <3>3, LeavesOfCombined
  <2>7. CASE x \in Combinations(Written) /\ x.py # "NOT"
    <3>1. IsFinalPair(x, n)
      BY <2>7, FinalOfPair
    <3>2. Parts(x) = {x.args[1][1], x.args[1][2]}
      BY <2>7, CombinedShape
    <3>3. Parts(Final(x, n)) = {Final(x.args[1][1], n), Final(x.args[1][2], n)}
      <4>1. PICK both : /\ DOMAIN both = {1, 2}
                        /\ both[1] = Final(x.args[1][1], n) /\ both[2] = Final(x.args[1][2], n)
                        /\ \/ IsMadeOf(Final(x, n), Expression, both, <<>>, <<>>, <<>>, 0)
                           \/ IsMadeOf(Final(x, n), Expression, <<>>, <<>>, both, <<>>, 1)
        BY <3>1 DEF IsFinalPair
      <4>2. Elements(both) = {Final(x.args[1][1], n), Final(x.args[1][2], n)}
        BY <4>1 DEF Elements
      <4>3. Elements(<<>>) = {}
        BY DEF Elements
      <4> QED BY <4>1, <4>2, <4>3 DEF IsMadeOf
    <3>4. y \in Leaves(Final(x.args[1][1], n)) \/ y \in Leaves(Final(x.args[1][2], n))
      BY <2>2, <3>3, LeavesOfCompound
    <3>5. y \in Leaves(x.args[1][1]) \/ y \in Leaves(x.args[1][2])
      BY <2>b, <3>2, <3>4
    <3> QED BY <2>1, <2>7, <3>2, <3>5, LeavesOfCombined
  <2> QED BY <2>4, <2>5, <2>6, <2>7, WrittenKinds
<1> HIDE DEF Good
<1>2. Written \subseteq Good
  BY <1>1, WrittenInduction
<1> QED BY <1>2 DEF Good

LEMMA SentIsPlain ==
  ASSUME NEW e \in Written, ~IsVector(e), ~HoldsVector(e), ~IsMixed(e)
  PROVE  /\ Sent(e) \in Expression /\ IsPlain(Sent(e))
         /\ Leaves(Sent(e)) \subseteq Leaves(e)
         /\ \A doc \in Doc : /\ doc \in Means[Sent(e)] <=> doc \in Means[e]
                             /\ Value(Sent(e), doc) = Value(e, doc)
<1>1. Sent(e) \in Expression /\ IsPlain(Sent(e))
  BY SentHolds DEF IsPlain
<1>2. CASE IsCombined(e)
  <2>1. PICK n \in BOOLEAN : n = FALSE
    OBVIOUS
  <2>2. PICK p \in BOOLEAN : p = TRUE
    OBVIOUS
  <2>3. Sent(e) = Final(e, n)
    BY <1>2, <2>1 DEF Sent
  <2>4. \A doc \in Doc : IsFaithful(e, n, p, doc)
    BY <2>1, <2>2, Faithful
  <2>5. \A doc \in Doc : doc \in Means[Sent(e)] <=> (doc \in Means[e]) = p
    BY <2>3, <2>4 DEF IsFaithful
  <2>6. \A doc \in Doc : Value(Sent(e), doc) = Worth[e][p][doc]
    BY <2>3, <2>4 DEF IsFaithful
  <2>7. \A doc \in Doc : Worth[e][p][doc] = Value(e, doc)
    BY <2>2 DEF Value
  <2>8. Leaves(Sent(e)) \subseteq Leaves(e)
    BY <2>3, FinalLeaves
  <2> QED BY <1>1, <2>2, <2>5, <2>6, <2>7, <2>8
<1>3. CASE ~IsCombined(e)
  <2>1. e \in Expression
    BY WrittenIsReady
  <2>2. ~HoldsCombined(e)
    <3>1. e \in Singles \/ e \in Compounds(Expression)
      BY <1>3, <2>1, ExpressionKinds, CombinedShape
    <3> QED BY <2>1, <3>1, SingleHoldsNothing, CompoundShape, MixedCompound
  <2>3. Sent(e) = e
    BY <1>3, <2>1, <2>2, BuildPlain DEF Sent
  <2> QED BY <1>1, <2>3
<1> QED BY <1>2, <1>3

-----------------------------------------------------------------------------
(* An expression looks at its fields only.                                 *)

LEMMA FieldsOfParts ==
  ASSUME NEW e \in Expression
  PROVE  /\ e.paths \subseteq SearchFields(e)
         /\ \A x \in Parts(e) : SearchFields(x) \subseteq SearchFields(e)
<1>1. Inside[e] = Parts(e) \cup UNION {Inside[x] : x \in Parts(e)}
  BY InsideIs
<1>2. \A x \in Parts(e) : {x} \cup Inside[x] \subseteq Inside[e]
  BY <1>1
<1> QED BY <1>2 DEF SearchFields

LEMMA FieldsOfLeaves ==
  ASSUME NEW e \in Expression, NEW f
  PROVE  f \in SearchFields(e) <=> \E x \in Leaves(e) : f \in x.paths
<1>1. \A x \in {e} \cup Inside[e] : x \in Expression
  BY InsideIsExpression
<1>2. \A x \in Expression : x \in Singles \/ x.paths = {}
  BY ExpressionKinds, CompoundShape, CombinedShape
<1> HIDE DEF Singles
<1> QED BY <1>1, <1>2 DEF SearchFields, Leaves

\* Two documents that an expression cannot tell apart.
Agree(e, c, d) == /\ c \in Means[e] <=> d \in Means[e]
                  /\ Value(e, c) = Value(e, d)

LEMMA ClausesAgree ==
  ASSUME NEW S, NEW s \in Seq(S), NEW c \in Doc, NEW d \in Doc, \A x \in S : Agree(x, c, d)
  PROVE  Holding(s, c) = Holding(s, d) /\ Gain(s, c) = Gain(s, d)
<1>1. \A i \in DOMAIN s : Agree(s[i], c, d)
  BY ElementsOf
<1>2. Holding(s, c) = Holding(s, d)
  BY <1>1 DEF Agree, Holding
<1>3. PICK t \in BOOLEAN : t = TRUE
  OBVIOUS
<1>4. \A x, doc : Worth[x][t][doc] = Value(x, doc)
  BY <1>3 DEF Value
<1>5. Worths(s, t, c) = Worths(s, t, d)
  BY <1>1, <1>4 DEF Agree, Worths
<1>6. Gain(s, c) = Sum(Worths(s, t, c)) /\ Gain(s, d) = Sum(Worths(s, t, d))
  BY <1>3 DEF Gain
<1> QED BY <1>2, <1>5, <1>6

LEMMA FieldsDecide ==
  ASSUME NEW e \in Expression, IsPlain(e), NEW c \in Doc, NEW d \in Doc,
         \A f \in SearchFields(e) : c[f] = d[f]
  PROVE  Agree(e, c, d)
<1> DEFINE S == {x \in Expression : IsPlain(x) /\ (\A f \in SearchFields(x) : c[f] = d[f]) =>
                                      Agree(x, c, d)}
<1>1. ASSUME NEW x \in Expression, Parts(x) \subseteq S PROVE x \in S
  <2> SUFFICES ASSUME IsPlain(x), \A f \in SearchFields(x) : c[f] = d[f]
               PROVE  Agree(x, c, d)
    OBVIOUS
  <2>1. \A y \in Parts(x) : Agree(y, c, d)
    BY <1>1, PlainParts, FieldsOfParts
  <2> HIDE DEF S
  <2>2. CASE x \in Singles
    <3>1. \A f \in x.paths : c[f] = d[f]
      BY FieldsOfParts
    <3>2. c \in Means[x] <=> d \in Means[x]
      BY <2>2, <3>1, MeansSingle
    <3>3. \A doc \in Doc : Value(x, doc) =
            IF doc \notin Means[x] THEN 0
            ELSE IF x.options["score"] = None THEN 1 ELSE x.options["score"]
      BY <2>2, WorthSingle DEF Value
    <3> QED BY <3>2, <3>3 DEF Agree
  <2>3. CASE x \in Compounds(Expression)
    <3>1. \A k \in 1 .. 4 : Holding(x.args[k], c) = Holding(x.args[k], d)
                            /\ Gain(x.args[k], c) = Gain(x.args[k], d)
      BY <2>1, <2>3, ClausesAreParts, ClausesAgree
    <3>2. Meets(x, c) <=> Meets(x, d)
      BY <3>1 DEF Meets
    <3>3. c \in Means[x] <=> d \in Means[x]
      BY <2>3, <3>2, MeansCompound
    <3>4. Value(x, c) = Value(x, d)
      BY <2>3, <3>1, <3>3, WorthAdds
    <3> QED BY <3>3, <3>4 DEF Agree
  <2> QED BY <2>2, <2>3, PlainParts
<1> HIDE DEF S
<1>2. Expression \subseteq S
  BY <1>1, ExpressionInduction
<1> QED BY <1>2 DEF S

-----------------------------------------------------------------------------
(* The index is one that covers what the search asks for.                  *)

LEMMA SearchIndexSearchable ==
  ASSUME indexes \in IndexList, NEW fields, SearchIndex(fields).raises = "",
         NEW j \in DOMAIN indexes, Covers(indexes[j], fields), NEW f \in fields
  PROVE  Searchable(SearchIndex(fields).name, f)
<1> DEFINE last == {i \in DOMAIN indexes :
                      indexes[i].type = "vectorSearch" \/ Covers(indexes[i], fields)}
<1>1. DOMAIN indexes \subseteq Nat
  BY IndexesAre
<1>2. j \in last /\ last \subseteq Nat
  BY <1>1
<1>3. First(last) \in last
  <2> HIDE DEF last
  <2> QED BY <1>2, FirstIs
<1>4. (\A x : Raises(x).raises = x) /\ (\A x : Uses(x).name = x)
  BY DEF Raises, Uses
<1>5. SearchIndex(fields) = IF indexes[First(last)].type = "vectorSearch" THEN Raises("KeyError")
                            ELSE Uses(indexes[First(last)].name)
  BY <1>2 DEF SearchIndex
<1>6. indexes[First(last)].type # "vectorSearch"
  BY <1>4, <1>5
<1>7. SearchIndex(fields).name = indexes[First(last)].name
  BY <1>4, <1>5, <1>6
<1>8. First(last) \in DOMAIN indexes /\ Covers(indexes[First(last)], fields)
  BY <1>3, <1>6
<1>9. Covers(indexes[First(last)], {f})
  BY <1>8 DEF Covers
<1> HIDE DEF last
<1> QED BY <1>7, <1>8, <1>9 DEF Searchable

LEMMA SeenIsDoc ==
  ASSUME NEW name, NEW doc \in Doc
  PROVE  /\ Seen(name, doc) \in Doc
         /\ \A f \in Field : Searchable(name, f) => Seen(name, doc)[f] = doc[f]
BY SearchPipelineAssumption DEF Seen, Doc

LEMMA StageIs ==
  ASSUME NEW e \in Expression, CompoundStage(e).raises = ""
  PROVE  /\ SearchIndex(SearchFields(e)).raises = ""
         /\ CompoundStage(e).name = SearchIndex(SearchFields(e)).name
         /\ CompoundStage(e).stage = <<SearchOperator[e]>>
<1>1. \A x : Raises(x).raises = x
  BY DEF Raises
<1>2. PICK index : index = SearchIndex(SearchFields(e))
  OBVIOUS
<1>3. \/ \E x : index = Raises(x)
      \/ \E x : index = Uses(x)
  BY <1>2 DEF SearchIndex
<1>4. ASSUME NEW s
      PROVE  /\ [index EXCEPT !.stage = s].name = index.name
             /\ [index EXCEPT !.stage = s].stage = s
  <2>1. PICK r, x : index = [raises |-> r, name |-> x, stage |-> <<>>]
    BY <1>3 DEF Raises, Uses
  <2>2. /\ [[raises |-> r, name |-> x, stage |-> <<>>] EXCEPT !.stage = s].name = x
        /\ [[raises |-> r, name |-> x, stage |-> <<>>] EXCEPT !.stage = s].stage = s
        /\ [raises |-> r, name |-> x, stage |-> <<>>].name = x
    OBVIOUS
  <2> QED BY <2>1, <2>2
<1>5. CompoundStage(e) = [index EXCEPT !.stage = <<SearchOperator[e]>>] /\ index.raises = ""
  BY <1>1, <1>2 DEF CompoundStage
<1> QED BY <1>2, <1>4, <1>5

-----------------------------------------------------------------------------
(* The rows of a search.                                                   *)

Found(e, D) == {[doc |-> d, score |-> Value(e, d)] : d \in D}

\* What the stage that is sent for an expression finds, at its index.
LEMMA StageFinds ==
  ASSUME NEW e \in Written, ~IsVector(e), ~HoldsVector(e), ~IsMixed(e), NoZeros(e),
         NEW name, \A f \in SearchFields(Sent(e)) : Searchable(name, f), NEW doc \in Doc
  PROVE  /\ Seen(name, doc) \in Matches[SearchOperator[Sent(e)]] <=> doc \in Means[e]
         /\ Score[SearchOperator[Sent(e)]][Seen(name, doc)] = Value(e, doc)
<1>1. PICK s : s = Sent(e)
  OBVIOUS
<1>2. /\ s \in Expression /\ IsPlain(s) /\ Leaves(s) \subseteq Leaves(e)
      /\ doc \in Means[s] <=> doc \in Means[e]
      /\ Value(s, doc) = Value(e, doc)
  BY <1>1, SentIsPlain
<1>3. NoZeros(s)
  <2>1. \A x \in Leaves(e) : NoZeroBounds(x)
    BY DEF Leaves, NoZeros
  <2>2. ASSUME NEW x \in {s} \cup Inside[s] PROVE NoZeroBounds(x)
    <3>1. x \in Expression
      BY <1>2, InsideIsExpression
    <3>2. CASE x \in Singles
      <4>1. x \in Leaves(s)
        BY <3>2 DEF Leaves
      <4> QED BY <1>2, <2>1, <4>1
    <3>3. CASE x \notin Singles
      <4>1. x.py # "SearchRange"
        BY <3>1, <3>3, ExpressionKinds, CompoundShape, CombinedShape
      <4> QED BY <4>1 DEF NoZeroBounds
    <3> QED BY <3>2, <3>3
  <2> QED BY <2>2 DEF NoZeros
<1>4. PICK c \in Doc : c = Seen(name, doc)
  BY SeenIsDoc
<1>5. \A f \in SearchFields(s) : c[f] = doc[f]
  BY <1>1, <1>2, <1>4, SeenIsDoc, FieldsOf
<1>6. IsSaid(s, c)
  BY <1>2, <1>3, PlainIsSaid
<1>7. Agree(s, c, doc)
  BY <1>2, <1>5, FieldsDecide
<1>8. c \in Matches[SearchOperator[s]] <=> doc \in Means[e]
  BY <1>2, <1>6, <1>7 DEF IsSaid, Agree
<1>9. Score[SearchOperator[s]][c] = Value(e, doc)
  BY <1>2, <1>6, <1>7 DEF IsSaid, Agree
<1> QED BY <1>1, <1>4, <1>8, <1>9

\* What the index chosen for an expression covers.
LEMMA SentIsSearchable ==
  ASSUME indexes \in IndexList, NEW e \in Written, ~IsVector(e), ~HoldsVector(e), ~IsMixed(e),
         Indexed(e, "search"), SearchIndex(SearchFields(Sent(e))).raises = "",
         NEW f \in SearchFields(Sent(e))
  PROVE  Searchable(SearchIndex(SearchFields(Sent(e))).name, f)
<1>1. PICK j \in DOMAIN indexes : Covers(indexes[j], SearchFields(e))
  BY DEF Indexed
<1>2. e \in Expression /\ Sent(e) \in Expression /\ Leaves(Sent(e)) \subseteq Leaves(e)
  BY SentIsPlain, WrittenIsReady
<1>3. SearchFields(Sent(e)) \subseteq SearchFields(e)
  BY <1>2, FieldsOfLeaves
<1>4. Covers(indexes[j], SearchFields(Sent(e)))
  BY <1>1, <1>3 DEF Covers
<1> QED BY <1>4, SearchIndexSearchable

LEMMA SearchStageFinds ==
  ASSUME CompiledOnce, RunSearch, NEW e \in Searches, ~IsVector(e), Indexed(e, "search"),
         NoZeros(e)
  PROVE  rows' = Found(e, Document \cap Means[e])
<1>1. /\ query \in Query /\ indexes \in IndexList /\ Compiled.raises = "" /\ pipeline = Compiled
      /\ rows = AllRows
  BY DEF CompiledOnce, RunSearch
<1>2. e \in Written /\ ~HoldsVector(e) /\ ~IsMixed(e)
  <2>1. ~NotOneStage
    BY <1>1, Refusal
  <2> QED BY <1>1, <2>1, QueryParts DEF NotOneStage
<1>3. Sent(e) \in Expression /\ IsPlain(Sent(e))
  BY <1>2, SentIsPlain
<1>4. pipeline = CompoundStage(Sent(e)) /\ pipeline.raises = ""
  BY <1>1, <1>2, OnlySearch, SearchMqlIs
<1>5. PICK m : m = SearchOperator[Sent(e)]
  OBVIOUS
<1>6. /\ SearchIndex(SearchFields(Sent(e))).raises = ""
      /\ pipeline.name = SearchIndex(SearchFields(Sent(e))).name
      /\ pipeline.stage = <<m>>
  BY <1>3, <1>4, <1>5, StageIs
<1>7. \A f \in SearchFields(Sent(e)) : Searchable(pipeline.name, f)
  BY <1>1, <1>2, <1>6, SentIsSearchable
<1>8. m.op # "vectorSearch"
  <2>1. m \in AnyOperator
    BY <1>3, <1>5, OperatorIsOne
  <2>2. m \in LeafOperators => m.op \in LeafOperatorName
    <3> HIDE DEF Options, LeafOperatorName
    <3> QED BY DEF LeafOperators
  <2> QED BY <2>1, <2>2, OperatorKinds, CompoundOperatorShape DEF LeafOperatorName
<1>9. SearchStage(m)
  <2>0. PICK s : s = pipeline.stage
    OBVIOUS
  <2>a. s = <<m>>
    BY <1>6, <2>0
  <2>b. s # <<>> /\ s[1] = m
    BY <2>a
  <2>1. pipeline.stage # <<>> /\ pipeline.stage[1] = m
    BY <2>0, <2>b
  <2>2. \/ pipeline.stage = <<>>
        \/ pipeline.stage[1].op = "vectorSearch"
        \/ SearchStage(pipeline.stage[1])
    <3> HIDE DEF SearchStage, VectorStage
    <3> QED BY DEF RunSearch
  <2> QED BY <1>8, <2>1, <2>2
<1>10. PICK name : name = pipeline.name
  OBVIOUS
<1>11. \A d \in Document : /\ Seen(name, d) \in Matches[m] <=> d \in Means[e]
                           /\ Score[m][Seen(name, d)] = Value(e, d)
  BY <1>2, <1>5, <1>7, <1>10, StageFinds, SearchPipelineAssumption
<1> DEFINE g == [d \in Document |-> Score[m][Seen(name, d)]]
           K == {d \in Document : Seen(name, d) \in Matches[m]}
<1>12. rows' = {[doc |-> r.doc, score |-> Score[m][Seen(name, r.doc)]] :
                  r \in {s \in rows : Seen(name, s.doc) \in Matches[m]}}
  BY <1>9, <1>10 DEF SearchStage
<1>13. {s \in rows : Seen(name, s.doc) \in Matches[m]} = {[doc |-> d, score |-> 0] : d \in K}
  <2> DEFINE Passes(d) == Seen(name, d) \in Matches[m]
  <2>1. rows = {[doc |-> d, score |-> 0] : d \in Document}
    BY <1>1 DEF AllRows
  <2>2. K = {d \in Document : Passes(d)}
    OBVIOUS
  <2> HIDE DEF Passes, K
  <2>3. {s \in rows : Passes(s.doc)} = {[doc |-> d, score |-> 0] : d \in K}
    BY <2>1, <2>2
  <2> QED BY <2>3 DEF Passes
<1>14. K = Document \cap Means[e]
  BY <1>11
<1> HIDE DEF K
<1>15. rows' = {[doc |-> d, score |-> Score[m][Seen(name, d)]] : d \in K}
  <2> DEFINE Row(d) == [doc |-> d, score |-> Score[m][Seen(name, d)]]
  <2>1. rows' = {Row(r.doc) : r \in {[doc |-> d, score |-> 0] : d \in K}}
    BY <1>12, <1>13
  <2> HIDE DEF Row
  <2>2. {Row(r.doc) : r \in {[doc |-> d, score |-> 0] : d \in K}} = {Row(d) : d \in K}
    <3> DEFINE R == {[doc |-> d, score |-> 0] : d \in K}
    <3>1. ASSUME NEW r \in R PROVE r.doc \in K
      OBVIOUS
    <3>2. ASSUME NEW d \in K PROVE \E r \in R : r.doc = d
      <4>1. PICK r \in R : r = [doc |-> d, score |-> 0]
        OBVIOUS
      <4>2. r.doc = d
        BY <4>1
      <4> QED BY <4>2
    <3> HIDE DEF R
    <3>3. {Row(r.doc) : r \in R} = {Row(d) : d \in K}
      BY <3>1, <3>2
    <3> QED BY <3>3 DEF R
  <2> QED BY <2>1, <2>2 DEF Row
<1>16. \A d \in K : Score[m][Seen(name, d)] = Value(e, d)
  BY <1>11, <1>14
<1>17. {[doc |-> d, score |-> Score[m][Seen(name, d)]] : d \in K} = Found(e, K)
  BY <1>16 DEF Found
<1> QED BY <1>14, <1>15, <1>17

LEMMA NoZerosInSearches ==
  ASSUME query \in Query, AsksNoZeros(query), NEW e \in Searches
  PROVE  NoZeros(e)
<1>1. CASE \E i \in DOMAIN query.annotations : e = query.annotations[i]
  BY <1>1 DEF AsksNoZeros
<1>2. CASE \E i \in DOMAIN query.lookups : e = SearchTextLookup(query.lookups[i])
  <2>1. PICK l \in [paths : SUBSET Field, value : SUBSET Int] : e = SearchTextLookup(l)
    BY <1>2, QueryParts, ElementsOf
  <2>2. e \in Singles /\ e \in Expression
    BY <2>1, LookupIsSingle, WrittenIsReady
  <2>3. Inside[e] = {}
    BY <2>2, InsideIs, SingleShape
  <2>4. e.py = "SearchText"
    BY <2>1 DEF SearchTextLookup, Search
  <2> QED BY <2>3, <2>4 DEF NoZeros, NoZeroBounds
<1> QED BY <1>1, <1>2 DEF Searches

\* The rows before, and after, the WHERE clause.
SearchesFind ==
  /\ stage = "match" =>
       \A e \in Searches : ~IsVector(e) /\ Indexed(e, "search") =>
         rows = Found(e, Document \cap Means[e])
  /\ stage = "done" =>
       \A e \in Searches : ~IsVector(e) /\ Indexed(e, "search") =>
         rows = Found(e, {x \in Document : x \in Means[e] /\ Kept(x)})

LEMMA MatchKeeps ==
  ASSUME CompiledOnce, RunMatch, NEW e \in Searches, rows = Found(e, Document \cap Means[e])
  PROVE  rows' = Found(e, {x \in Document : x \in Means[e] /\ Kept(x)})
<1>1. e \in Expression
  BY QueryParts, WrittenIsReady DEF CompiledOnce
<1>2. PICK t \in BOOLEAN : t = TRUE
  OBVIOUS
<1>3. \A d \in Document : Value(e, d) \in Nat
  <2>1. \A d \in Document : Worth[e][t][d] \in Nat
    BY <1>1, WorthIsNat, SearchPipelineAssumption
  <2> QED BY <1>2, <2>1 DEF Value
<1> DEFINE D == Document \cap Means[e]
           K == {x \in Document : x \in Means[e] /\ Kept(x)}
           Stays(r) == r.doc["b"] \in query.keep /\ \A s \in MinimumScore : r.score >= s
           Row(d) == [doc |-> d, score |-> Value(e, d)]
<1>4. rows' = {r \in rows : Stays(r)}
  BY DEF RunMatch
<1>5. rows = {Row(d) : d \in D}
  BY DEF Found
<1>6. \A d \in D : Stays(Row(d)) <=> Kept(d)
  <2> TAKE d \in D
  <2>1. Row(d).doc = d /\ Row(d).score = Value(e, d)
    OBVIOUS
  <2>2. Value(e, d) \in Nat
    BY <1>3
  <2>3. \A s \in MinimumScore : Value(e, d) >= s
    BY <2>2 DEF MinimumScore
  <2> HIDE DEF Row
  <2> QED BY <2>1, <2>3 DEF Kept
<1>7. K = {d \in D : Kept(d)}
  OBVIOUS
<1> HIDE DEF Stays, Row, D, K
<1>8. rows' = {Row(d) : d \in K}
  BY <1>4, <1>5, <1>6, <1>7
<1> QED BY <1>8 DEF Row, K, Found

LEMMA SearchesFindNext ==
  ASSUME AsksNoZeros(query), CompiledOnce, SearchesFind, [Next]_vars
  PROVE  SearchesFind'
<1>1. query' = query /\ indexes' = indexes
  BY DEF Next, Compile, RunSearch, RunMatch, vars
<1>2. /\ Searches' = Searches /\ \A e, t : Indexed(e, t)' = Indexed(e, t)
      /\ \A x : Kept(x)' = Kept(x)
  BY <1>1 DEF Searches, Indexed, Kept
<1>3. CASE Compile
  <2>1. stage' # "match" /\ stage' # "done"
    BY <1>3 DEF Compile
  <2> QED BY <2>1 DEF SearchesFind
<1>4. CASE RunSearch
  <2>1. stage' # "done"
    BY <1>4 DEF RunSearch
  <2>2. \A e \in Searches : ~IsVector(e) /\ Indexed(e, "search") =>
          rows' = Found(e, Document \cap Means[e])
    BY <1>4, SearchStageFinds, NoZerosInSearches DEF CompiledOnce
  <2> QED BY <1>2, <2>1, <2>2 DEF SearchesFind
<1>5. CASE RunMatch
  <2>1. stage = "match" /\ stage' = "done"
    BY <1>5 DEF RunMatch
  <2>2. \A e \in Searches : ~IsVector(e) /\ Indexed(e, "search") =>
          rows' = Found(e, {x \in Document : x \in Means[e] /\ Kept(x)})
    BY <1>5, <2>1, MatchKeeps DEF SearchesFind
  <2> QED BY <1>2, <2>1, <2>2 DEF SearchesFind
<1>6. CASE UNCHANGED vars
  <2>1. stage' = stage /\ rows' = rows
    BY <1>6 DEF vars
  <2> QED BY <1>2, <2>1 DEF SearchesFind
<1> QED BY <1>3, <1>4, <1>5, <1>6 DEF Next

\* A query returns the documents that satisfy its search expression as the
\* application wrote it, with the scores of what matched in them, if no range in it
\* has a bound that is zero.
THEOREM SearchesMatchCorrect == Spec => [](AsksNoZeros(query) => SearchesMatch)
<1>1. Init => (AsksNoZeros(query) => SearchesFind)
  BY DEF Init, SearchesFind
<1>2. CompiledOnce /\ (AsksNoZeros(query) => SearchesFind) /\ [Next]_vars
      => (AsksNoZeros(query) => SearchesFind)'
  <2> SUFFICES ASSUME CompiledOnce, AsksNoZeros(query) => SearchesFind, [Next]_vars,
                      AsksNoZeros(query)'
               PROVE  SearchesFind'
    OBVIOUS
  <2>1. query' = query
    BY DEF Next, Compile, RunSearch, RunMatch, vars
  <2>2. AsksNoZeros(query)
    BY <2>1
  <2> QED BY <2>2, SearchesFindNext
<1>3. (AsksNoZeros(query) => SearchesFind) => (AsksNoZeros(query) => SearchesMatch)
  BY DEF SearchesFind, SearchesMatch, Found, Value
<1> QED BY <1>1, <1>2, <1>3, AlwaysCompiledOnce, PTL DEF Spec
================================================================================
