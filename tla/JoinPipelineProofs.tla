--------------------------- MODULE JoinPipelineProofs ---------------------------
(***************************************************************************)
(* A query with joins returns what SQL returns, with and without the       *)
(* conditions that are pushed into its joins; and what the translation of  *)
(* conditions does, for trees of any height: the two forms of a condition  *)
(* select the same rows, and the rows that SQL selects.                    *)
(*                                                                         *)
(* The library's induction theorems are about operators, which no prover   *)
(* here can instantiate.  TreeInduction says it of sets: WFMin gives the   *)
(* least counterexample.  By the same induction on the height, there is a  *)
(* function that solves the equation of a recursive definition; CHOOSE     *)
(* takes one (lemmas whose names end in Exists and Def).                   *)
(***************************************************************************)
EXTENDS JoinPipeline, FiniteSetTheorems, WellFoundedInduction, SequenceTheorems, TLAPS

-----------------------------------------------------------------------------
(* Induction.                                                              *)

LEMMA LeastNumber ==
  ASSUME NEW S \in SUBSET Nat, S # {}
  PROVE  \E m \in S : \A k \in S : m <= k
<1> DEFINE R == {ss \in Nat \X Nat : ss[1] < ss[2]}
<1>1. IsWellFoundedOn(R, Nat)
  BY NatLessThanWellFounded DEF OpToRel
<1>2. \E x \in S : \A y \in S : ~(<<y, x>> \in R)
  <2> HIDE DEF R
  <2> QED BY <1>1, WFMin
<1>3. PICK x \in S : \A y \in S : ~(<<y, x>> \in R)
  BY <1>2
<1>4. ASSUME NEW y \in S PROVE x <= y
  <2>1. <<y, x>> \in Nat \X Nat /\ <<y, x>>[1] = y /\ <<y, x>>[2] = x
    OBVIOUS
  <2>2. ~(y < x)
    BY <1>3, <2>1
  <2> QED BY <2>2
<1> QED BY <1>4

\* A set with 0 and the successors of its numbers has all of them.
LEMMA Upwards ==
  ASSUME NEW S, 0 \in S, \A n \in Nat : n \in S => n + 1 \in S
  PROVE  Nat \subseteq S
<1> SUFFICES ASSUME Nat \ S # {} PROVE FALSE
  OBVIOUS
<1>1. PICK m \in Nat \ S : \A k \in Nat \ S : m <= k
  BY LeastNumber
<1>2. m # 0
  OBVIOUS
<1>3. m - 1 \in Nat /\ m - 1 \notin Nat \ S
  BY <1>1, <1>2
<1> QED BY <1>3

-----------------------------------------------------------------------------
(* Trees.                                                                  *)

LEMMA TreesExist ==
  ASSUME NEW N \in Nat
  PROVE  \E f : f = [h \in 0 .. N |->
                     IF h = 0 THEN {} ELSE Lookups \cup Nodes(f[h - 1])]
<1> DEFINE Up(f, h) == IF h = 0 THEN {} ELSE Lookups \cup Nodes(f[h - 1])
           Solves(f, n) == f = [h \in 0 .. n |-> Up(f, h)]
           S == {n \in Nat : \E f : Solves(f, n)}
<1> HIDE DEF Nodes, Lookups
<1>1. 0 \in S
  <2> DEFINE f == [h \in 0 .. 0 |-> {}]
  <2>1. Solves(f, 0)
    OBVIOUS
  <2> HIDE DEF f, Solves
  <2> QED BY <2>1
<1>2. ASSUME NEW n \in Nat, n \in S PROVE n + 1 \in S
  <2>1. PICK f : Solves(f, n)
    BY <1>2
  <2> DEFINE g == [h \in 0 .. n + 1 |-> IF h = n + 1 THEN Lookups \cup Nodes(f[n]) ELSE f[h]]
  <2>2. ASSUME NEW h \in 0 .. n + 1
        PROVE g[h] = Up(g, h)
    <3>1. CASE h = 0
      BY <2>1, <3>1
    <3>2. CASE h = n + 1
      <4>1. h # 0 /\ h - 1 = n /\ n \in 0 .. n + 1 /\ n # n + 1
        BY <3>2
      <4> QED BY <2>1, <3>2, <4>1
    <3>3. CASE h # 0 /\ h # n + 1
      <4>1. h \in 0 .. n /\ h - 1 \in 0 .. n + 1 /\ h - 1 # n + 1
        BY <3>3
      <4> QED BY <2>1, <3>3, <4>1
    <3> QED BY <3>1, <3>2, <3>3
  <2>3. g = [h \in 0 .. n + 1 |-> g[h]]
    OBVIOUS
  <2> HIDE DEF g
  <2>4. Solves(g, n + 1)
    BY <2>2, <2>3
  <2> HIDE DEF Solves
  <2> QED BY <2>4
<1> HIDE DEF S
<1>3. Nat \subseteq S
  BY <1>1, <1>2, Upwards
<1> QED BY <1>3 DEF S

\* Trees of a height are lookups, and nodes with lower trees below them.
LEMMA TreesDef ==
  \A h \in 0 .. Height + 1 :
    TreesUpTo[h] = IF h = 0 THEN {} ELSE Lookups \cup Nodes(TreesUpTo[h - 1])
<1> HIDE DEF Nodes, Lookups
<1>1. \E f : f = [h \in 0 .. Height + 1 |->
                  IF h = 0 THEN {} ELSE Lookups \cup Nodes(f[h - 1])]
  <2>1. PICK N \in Nat : N = Height + 1
    BY WhereNodeAssumption
  <2> QED BY <2>1, TreesExist
<1>2. TreesUpTo = [h \in 0 .. Height + 1 |->
                  IF h = 0 THEN {} ELSE Lookups \cup Nodes(TreesUpTo[h - 1])]
  BY <1>1 DEF TreesUpTo
<1> QED BY <1>2

LEMMA TreesNext ==
  ASSUME NEW h \in Nat, h + 1 <= Height + 1
  PROVE  TreesUpTo[h + 1] = Lookups \cup Nodes(TreesUpTo[h])
<1>1. PICK k \in 0 .. Height + 1 : k = h + 1
  BY WhereNodeAssumption
<1>2. k # 0 /\ k - 1 = h
  BY <1>1
<1> HIDE DEF Nodes, Lookups
<1> QED BY <1>1, <1>2, TreesDef

LEMMA TreesZero == TreesUpTo[0] = {}
<1>1. 0 \in 0 .. Height + 1
  BY WhereNodeAssumption
<1> HIDE DEF Nodes, Lookups
<1> QED BY <1>1, TreesDef

LEMMA TreesGrow ==
  ASSUME NEW h \in Nat, h + 1 <= Height + 1
  PROVE  TreesUpTo[h] \subseteq TreesUpTo[h + 1]
<1> DEFINE S == {n \in Nat : n + 1 <= Height + 1 => TreesUpTo[n] \subseteq TreesUpTo[n + 1]}
<1>1. 0 \in S
  BY TreesZero
<1>2. ASSUME NEW n \in Nat, n \in S PROVE n + 1 \in S
  <2>1. PICK k \in Nat : k = n + 1
    OBVIOUS
  <2> SUFFICES ASSUME k + 1 <= Height + 1 PROVE TreesUpTo[k] \subseteq TreesUpTo[k + 1]
    BY <2>1
  <2>2. n + 1 <= Height + 1
    BY <2>1, WhereNodeAssumption
  <2>3. TreesUpTo[n] \subseteq TreesUpTo[k]
    BY <1>2, <2>1, <2>2
  <2>4. TreesUpTo[k] = Lookups \cup Nodes(TreesUpTo[n])
    BY <2>1, <2>2, TreesNext
  <2>5. TreesUpTo[k + 1] = Lookups \cup Nodes(TreesUpTo[k])
    BY TreesNext
  <2>6. Nodes(TreesUpTo[n]) \subseteq Nodes(TreesUpTo[k])
    BY <2>3 DEF Nodes
  <2> HIDE DEF Nodes, Lookups
  <2> QED BY <2>4, <2>5, <2>6
<1> HIDE DEF S
<1>3. h \in S
  BY <1>1, <1>2, Upwards
<1> QED BY <1>3 DEF S

LEMMA TreesWithin ==
  ASSUME NEW h \in Nat, NEW k \in Nat, h <= k, k <= Height + 1
  PROVE  TreesUpTo[h] \subseteq TreesUpTo[k]
<1> DEFINE S == {n \in Nat : h + n <= Height + 1 => TreesUpTo[h] \subseteq TreesUpTo[h + n]}
<1>1. 0 \in S
  OBVIOUS
<1>2. ASSUME NEW n \in Nat, n \in S PROVE n + 1 \in S
  <2>1. PICK m \in Nat : m = h + n
    OBVIOUS
  <2> SUFFICES ASSUME m + 1 <= Height + 1 PROVE TreesUpTo[h] \subseteq TreesUpTo[m + 1]
    BY <2>1
  <2>2. TreesUpTo[h] \subseteq TreesUpTo[m]
    BY <1>2, <2>1, WhereNodeAssumption
  <2> QED BY <2>2, TreesGrow
<1> HIDE DEF S
<1>3. k - h \in S
  BY <1>1, <1>2, Upwards
<1> QED BY <1>3 DEF S

LEMMA LookupParts ==
  ASSUME NEW n \in Lookups
  PROVE  /\ IsLookup(n)
         /\ n.lookup \in LookupName /\ n.lhs \in Column /\ n.column \in Column
         /\ n.args \in Seq(Int)
         /\ n.lookup \in Comparison => Len(n.args) <= 1
         /\ n.lookup \in {"isnull", "filled"} => Len(n.args) = 1
         /\ n.lookup = "range" => Len(n.args) = 2
<1>1. n \in [lookup : LookupName, lhs : Column, args : Seq(Int), column : Column]
  BY DEF Lookups
<1>2. /\ n.lookup \in LookupName /\ n.lhs \in Column /\ n.column \in Column
      /\ n.args \in Seq(Int)
      /\ IsLookup(n)
  <2> HIDE DEF LookupName, Column
  <2> QED BY <1>1 DEF IsLookup
<1>3. CASE n.lookup \in Comparison
  BY <1>2, <1>3 DEF Lookups, Comparison
<1>4. CASE n.lookup \notin Comparison
  BY <1>2, <1>4 DEF Lookups, Comparison
<1> QED BY <1>2, <1>3, <1>4

LEMMA NodeParts ==
  ASSUME NEW S, NEW n \in Nodes(S)
  PROVE  /\ n.children \in Seq(S) /\ n.negated \in BOOLEAN
         /\ n.connector \in {"AND", "OR", "XOR"}
         /\ ~IsLookup(n)
         /\ \A i \in DOMAIN n.children : n.children[i] \in S
<1>1. n.children \in Seq(S) /\ n.negated \in BOOLEAN /\ n.connector \in {"AND", "OR", "XOR"}
  BY DEF Nodes
<1>2. DOMAIN n = {"connector", "negated", "children"}
  BY DEF Nodes
<1>3. PICK s : s = n.children
  OBVIOUS
<1>4. \A i \in DOMAIN s : s[i] \in S
  BY <1>1, <1>3
<1> QED BY <1>1, <1>2, <1>3, <1>4 DEF IsLookup

LEMMA TreeParts ==
  ASSUME NEW n \in Tree
  PROVE  /\ IsLookup(n) => n \in Lookups
         /\ ~IsLookup(n) => /\ n.children \in Seq(Tree) /\ n.negated \in BOOLEAN
                            /\ n.connector \in {"AND", "OR", "XOR"}
                            /\ \A i \in DOMAIN n.children : n.children[i] \in Tree
<1>1. PICK h \in Nat : h = Height
  BY WhereNodeAssumption
<1>2. TreesUpTo[h] \subseteq Tree /\ Tree = Lookups \cup Nodes(TreesUpTo[h])
  BY <1>1, TreesGrow, TreesNext DEF Tree
<1>3. CASE n \in Lookups
  BY <1>3, LookupParts
<1>4. CASE n \in Nodes(TreesUpTo[h])
  <2>1. /\ n.children \in Seq(TreesUpTo[h]) /\ n.negated \in BOOLEAN
        /\ n.connector \in {"AND", "OR", "XOR"} /\ ~IsLookup(n)
        /\ \A i \in DOMAIN n.children : n.children[i] \in TreesUpTo[h]
    BY <1>4, NodeParts
  <2> QED BY <2>1, <1>2
<1> QED BY <1>2, <1>3, <1>4

\* What holds of lookups, and of a node if it holds of its children, holds of trees.
LEMMA TreeInduction ==
  ASSUME NEW S,
         \A n \in Tree : IsLookup(n) => n \in S,
         \A n \in Tree : ~IsLookup(n) /\ (\A i \in DOMAIN n.children : n.children[i] \in S)
                           => n \in S
  PROVE  Tree \subseteq S
<1> DEFINE Good == {h \in Nat : h <= Height + 1 => TreesUpTo[h] \subseteq S}
<1>1. 0 \in Good
  BY TreesZero
<1>2. ASSUME NEW h \in Nat, h \in Good PROVE h + 1 \in Good
  <2> SUFFICES ASSUME h + 1 <= Height + 1, NEW n \in TreesUpTo[h + 1] PROVE n \in S
    OBVIOUS
  <2>1. TreesUpTo[h] \subseteq S
    BY <1>2, WhereNodeAssumption
  <2>2. n \in Tree
    <3>1. PICK k \in Nat, m \in Nat : k = h + 1 /\ m = Height + 1
      BY WhereNodeAssumption
    <3> QED BY <3>1, TreesWithin DEF Tree
  <2>3. TreesUpTo[h + 1] = Lookups \cup Nodes(TreesUpTo[h])
    BY TreesNext
  <2>4. CASE n \in Lookups
    BY <2>2, <2>4, LookupParts
  <2>5. CASE n \in Nodes(TreesUpTo[h])
    <3>1. ~IsLookup(n) /\ \A i \in DOMAIN n.children : n.children[i] \in TreesUpTo[h]
      BY <2>5, NodeParts
    <3> QED BY <2>1, <2>2, <3>1
  <2> QED BY <2>3, <2>4, <2>5
<1> HIDE DEF Good
<1>3. PICK h \in Nat : h = Height + 1 /\ h \in Good
  BY <1>1, <1>2, Upwards, WhereNodeAssumption
<1> QED BY <1>3 DEF Good, Tree

-----------------------------------------------------------------------------
(* The equations of the recursive functions.                               *)

AsMqlStep(f, n) ==
  [asExpr \in BOOLEAN |->
     LET results(as) == [i \in DOMAIN n.children |-> f[n.children[i]][as]]
     IN IF IsLookup(n) THEN LookupMql(n, asExpr)
        ELSE IF n.connector = "XOR" THEN Xor(n.negated, results(asExpr), results(TRUE))
        ELSE Combine(n.connector, n.negated, results(asExpr))]

LEMMA AsMqlLocal ==
  ASSUME NEW f, NEW g, NEW n,
         ~IsLookup(n) => \A i \in DOMAIN n.children : f[n.children[i]] = g[n.children[i]]
  PROVE  AsMqlStep(f, n) = AsMqlStep(g, n)
<1>1. CASE IsLookup(n)
  BY <1>1 DEF AsMqlStep
<1>2. CASE ~IsLookup(n)
  <2>1. \A as : [i \in DOMAIN n.children |-> f[n.children[i]][as]]
               = [i \in DOMAIN n.children |-> g[n.children[i]][as]]
    BY <1>2
  <2> QED BY <2>1 DEF AsMqlStep
<1> QED BY <1>1, <1>2

LEMMA AsMqlExists ==
  ASSUME NEW h \in Nat, h <= Height + 1
  PROVE  \E f : f = [n \in TreesUpTo[h] |-> AsMqlStep(f, n)]
<1> DEFINE Is(f, S) == f = [n \in S |-> AsMqlStep(f, n)]
           Good == {m \in Nat : m <= Height + 1 => \E f : Is(f, TreesUpTo[m])}
<1>1. 0 \in Good
  <2>1. TreesUpTo[0] = {}
    BY TreesZero
  <2> DEFINE f == [n \in {} |-> 0]
  <2>2. Is(f, {})
    OBVIOUS
  <2> HIDE DEF f, Is
  <2> QED BY <2>1, <2>2
<1>2. ASSUME NEW m \in Nat, m \in Good PROVE m + 1 \in Good
  <2> SUFFICES ASSUME m + 1 <= Height + 1 PROVE \E f : Is(f, TreesUpTo[m + 1])
    OBVIOUS
  <2>1. PICK f : Is(f, TreesUpTo[m])
    <3>1. m <= Height + 1
      BY WhereNodeAssumption
    <3> HIDE DEF Is
    <3> QED BY <1>2, <3>1
  <2> DEFINE g == [n \in TreesUpTo[m + 1] |-> AsMqlStep(f, n)]
  <2>2. TreesUpTo[m + 1] = Lookups \cup Nodes(TreesUpTo[m])
    BY TreesNext
  <2>3. TreesUpTo[m] \subseteq TreesUpTo[m + 1]
    BY TreesGrow
  <2>4. ASSUME NEW n \in TreesUpTo[m] PROVE g[n] = f[n]
    <3>1. f[n] = AsMqlStep(f, n)
      BY <2>1
    <3> HIDE DEF AsMqlStep, Is
    <3> QED BY <3>1, <2>3
  <2>5. ASSUME NEW n \in TreesUpTo[m + 1] PROVE AsMqlStep(g, n) = AsMqlStep(f, n)
    <3> HIDE DEF g, Is
    <3>1. CASE n \in Lookups
      BY <3>1, LookupParts, AsMqlLocal
    <3>2. CASE n \in Nodes(TreesUpTo[m])
      <4>1. \A i \in DOMAIN n.children : g[n.children[i]] = f[n.children[i]]
        BY <3>2, <2>4, NodeParts
      <4> QED BY <4>1, AsMqlLocal
    <3> HIDE DEF Lookups, Nodes
    <3> QED BY <3>1, <3>2, <2>2
  <2>6. Is(g, TreesUpTo[m + 1])
    <3> HIDE DEF AsMqlStep
    <3> QED BY <2>5
  <2> HIDE DEF g, Is
  <2> QED BY <2>6
<1> HIDE DEF Good
<1>3. h \in Good
  BY <1>1, <1>2, Upwards
<1> HIDE DEF Is
<1>4. \E f : Is(f, TreesUpTo[h])
  BY <1>3 DEF Good
<1> QED BY <1>4 DEF Is

LEMMA AsMqlDef ==
  ASSUME NEW n \in Tree
  PROVE  AsMql[n] = AsMqlStep(AsMql, n)
<1>1. \E f : f = [m \in Tree |-> AsMqlStep(f, m)]
  <2>1. PICK h \in Nat : h = Height + 1
    BY WhereNodeAssumption
  <2> QED BY <2>1, AsMqlExists DEF Tree
<1>2. AsMql = [m \in Tree |-> AsMqlStep(AsMql, m)]
  BY <1>1 DEF AsMql, AsMqlStep
<1> QED BY <1>2

SqlNode(n, values, true) ==
  LET plain == CASE n.connector = "AND" -> And(values)
                 [] n.connector = "OR" -> Or(values)
                 [] n.connector = "XOR" -> Truth(Cardinality(true) % 2 = 1)
  IN IF n.negated THEN Not(plain) ELSE plain

SqlStep(f, n) ==
  [row \in Row |->
     IF IsLookup(n) THEN SqlLookup(n, row)
     ELSE SqlNode(n, {f[n.children[i]][row] : i \in DOMAIN n.children},
                     {i \in DOMAIN n.children : f[n.children[i]][row] = "T"})]

LEMMA SqlLocal ==
  ASSUME NEW f, NEW g, NEW n,
         ~IsLookup(n) => \A i \in DOMAIN n.children : f[n.children[i]] = g[n.children[i]]
  PROVE  SqlStep(f, n) = SqlStep(g, n)
<1>1. CASE IsLookup(n)
  BY <1>1 DEF SqlStep
<1>2. CASE ~IsLookup(n)
  <2>1. \A row : {f[n.children[i]][row] : i \in DOMAIN n.children}
                = {g[n.children[i]][row] : i \in DOMAIN n.children}
    BY <1>2
  <2>2. \A row : {i \in DOMAIN n.children : f[n.children[i]][row] = "T"}
                = {i \in DOMAIN n.children : g[n.children[i]][row] = "T"}
    BY <1>2
  <2> QED BY <1>2, <2>1, <2>2 DEF SqlStep
<1> QED BY <1>1, <1>2

LEMMA SqlExists ==
  ASSUME NEW h \in Nat, h <= Height + 1
  PROVE  \E f : f = [n \in TreesUpTo[h] |-> SqlStep(f, n)]
<1> DEFINE Is(f, S) == f = [n \in S |-> SqlStep(f, n)]
           Good == {m \in Nat : m <= Height + 1 => \E f : Is(f, TreesUpTo[m])}
<1>1. 0 \in Good
  <2>1. TreesUpTo[0] = {}
    BY TreesZero
  <2> DEFINE f == [n \in {} |-> 0]
  <2>2. Is(f, {})
    OBVIOUS
  <2> HIDE DEF f, Is
  <2> QED BY <2>1, <2>2
<1>2. ASSUME NEW m \in Nat, m \in Good PROVE m + 1 \in Good
  <2> SUFFICES ASSUME m + 1 <= Height + 1 PROVE \E f : Is(f, TreesUpTo[m + 1])
    OBVIOUS
  <2>1. PICK f : Is(f, TreesUpTo[m])
    <3>1. m <= Height + 1
      BY WhereNodeAssumption
    <3> HIDE DEF Is
    <3> QED BY <1>2, <3>1
  <2> DEFINE g == [n \in TreesUpTo[m + 1] |-> SqlStep(f, n)]
  <2>2. TreesUpTo[m + 1] = Lookups \cup Nodes(TreesUpTo[m])
    BY TreesNext
  <2>3. TreesUpTo[m] \subseteq TreesUpTo[m + 1]
    BY TreesGrow
  <2>4. ASSUME NEW n \in TreesUpTo[m] PROVE g[n] = f[n]
    <3>1. f[n] = SqlStep(f, n)
      BY <2>1
    <3> HIDE DEF SqlStep, Is
    <3> QED BY <3>1, <2>3
  <2>5. ASSUME NEW n \in TreesUpTo[m + 1] PROVE SqlStep(g, n) = SqlStep(f, n)
    <3> HIDE DEF g, Is
    <3>1. CASE n \in Lookups
      BY <3>1, LookupParts, SqlLocal
    <3>2. CASE n \in Nodes(TreesUpTo[m])
      <4>1. \A i \in DOMAIN n.children : g[n.children[i]] = f[n.children[i]]
        BY <3>2, <2>4, NodeParts
      <4> QED BY <4>1, SqlLocal
    <3> HIDE DEF Lookups, Nodes
    <3> QED BY <3>1, <3>2, <2>2
  <2>6. Is(g, TreesUpTo[m + 1])
    <3> HIDE DEF SqlStep
    <3> QED BY <2>5
  <2> HIDE DEF g, Is
  <2> QED BY <2>6
<1> HIDE DEF Good
<1>3. h \in Good
  BY <1>1, <1>2, Upwards
<1> HIDE DEF Is
<1>4. \E f : Is(f, TreesUpTo[h])
  BY <1>3 DEF Good
<1> QED BY <1>4 DEF Is

LEMMA SqlDef ==
  ASSUME NEW n \in Tree
  PROVE  Sql[n] = SqlStep(Sql, n)
<1>1. \E f : f = [m \in Tree |-> SqlStep(f, m)]
  <2>1. PICK h \in Nat : h = Height + 1
    BY WhereNodeAssumption
  <2> QED BY <2>1, SqlExists DEF Tree
<1>2. Sql = [m \in Tree |-> SqlStep(Sql, m)]
  BY <1>1 DEF Sql, SqlStep, SqlNode
<1> QED BY <1>2

LookupsInStep(f, n) ==
  IF IsLookup(n) THEN {n} ELSE UNION {f[n.children[i]] : i \in DOMAIN n.children}

LEMMA LookupsInLocal ==
  ASSUME NEW f, NEW g, NEW n,
         ~IsLookup(n) => \A i \in DOMAIN n.children : f[n.children[i]] = g[n.children[i]]
  PROVE  LookupsInStep(f, n) = LookupsInStep(g, n)
<1>1. CASE IsLookup(n)
  BY <1>1 DEF LookupsInStep
<1>2. CASE ~IsLookup(n)
  <2>1. {f[n.children[i]] : i \in DOMAIN n.children}
        = {g[n.children[i]] : i \in DOMAIN n.children}
    BY <1>2
  <2> QED BY <1>2, <2>1 DEF LookupsInStep
<1> QED BY <1>1, <1>2

LEMMA LookupsInExists ==
  ASSUME NEW h \in Nat, h <= Height + 1
  PROVE  \E f : f = [n \in TreesUpTo[h] |-> LookupsInStep(f, n)]
<1> DEFINE Is(f, S) == f = [n \in S |-> LookupsInStep(f, n)]
           Good == {m \in Nat : m <= Height + 1 => \E f : Is(f, TreesUpTo[m])}
<1>1. 0 \in Good
  <2>1. TreesUpTo[0] = {}
    BY TreesZero
  <2> DEFINE f == [n \in {} |-> 0]
  <2>2. Is(f, {})
    OBVIOUS
  <2> HIDE DEF f, Is
  <2> QED BY <2>1, <2>2
<1>2. ASSUME NEW m \in Nat, m \in Good PROVE m + 1 \in Good
  <2> SUFFICES ASSUME m + 1 <= Height + 1 PROVE \E f : Is(f, TreesUpTo[m + 1])
    OBVIOUS
  <2>1. PICK f : Is(f, TreesUpTo[m])
    <3>1. m <= Height + 1
      BY WhereNodeAssumption
    <3> HIDE DEF Is
    <3> QED BY <1>2, <3>1
  <2> DEFINE g == [n \in TreesUpTo[m + 1] |-> LookupsInStep(f, n)]
  <2>2. TreesUpTo[m + 1] = Lookups \cup Nodes(TreesUpTo[m])
    BY TreesNext
  <2>3. TreesUpTo[m] \subseteq TreesUpTo[m + 1]
    BY TreesGrow
  <2>4. ASSUME NEW n \in TreesUpTo[m] PROVE g[n] = f[n]
    <3>1. f[n] = LookupsInStep(f, n)
      BY <2>1
    <3> HIDE DEF LookupsInStep, Is
    <3> QED BY <3>1, <2>3
  <2>5. ASSUME NEW n \in TreesUpTo[m + 1] PROVE LookupsInStep(g, n) = LookupsInStep(f, n)
    <3> HIDE DEF g, Is
    <3>1. CASE n \in Lookups
      BY <3>1, LookupParts, LookupsInLocal
    <3>2. CASE n \in Nodes(TreesUpTo[m])
      <4>1. \A i \in DOMAIN n.children : g[n.children[i]] = f[n.children[i]]
        BY <3>2, <2>4, NodeParts
      <4> QED BY <4>1, LookupsInLocal
    <3> HIDE DEF Lookups, Nodes
    <3> QED BY <3>1, <3>2, <2>2
  <2>6. Is(g, TreesUpTo[m + 1])
    <3> HIDE DEF LookupsInStep
    <3> QED BY <2>5
  <2> HIDE DEF g, Is
  <2> QED BY <2>6
<1> HIDE DEF Good
<1>3. h \in Good
  BY <1>1, <1>2, Upwards
<1> HIDE DEF Is
<1>4. \E f : Is(f, TreesUpTo[h])
  BY <1>3 DEF Good
<1> QED BY <1>4 DEF Is

LEMMA LookupsInDef ==
  ASSUME NEW n \in Tree
  PROVE  LookupsIn[n] = LookupsInStep(LookupsIn, n)
<1>1. \E f : f = [m \in Tree |-> LookupsInStep(f, m)]
  <2>1. PICK h \in Nat : h = Height + 1
    BY WhereNodeAssumption
  <2> QED BY <2>1, LookupsInExists DEF Tree
<1>2. LookupsIn = [m \in Tree |-> LookupsInStep(LookupsIn, m)]
  BY <1>1 DEF LookupsIn, LookupsInStep
<1> QED BY <1>2

NullsHiddenStep(f, n) ==
  {odd \in BOOLEAN :
     IF IsLookup(n) THEN odd => NeverUnknown(n)
     ELSE \/ Guarded(n)
          \/ /\ n.connector = "XOR"
             /\ \A i \in DOMAIN n.children : FALSE \in f[n.children[i]]
             /\ \A l \in LookupsIn[n] : ~OpenStart(l)
          \/ /\ n.connector # "XOR"
             /\ n.children # <<>>
             /\ \A i \in DOMAIN n.children : (odd # n.negated) \in f[n.children[i]]}

LEMMA NullsHiddenLocal ==
  ASSUME NEW f, NEW g, NEW n,
         ~IsLookup(n) => \A i \in DOMAIN n.children : f[n.children[i]] = g[n.children[i]]
  PROVE  NullsHiddenStep(f, n) = NullsHiddenStep(g, n)
<1>1. CASE IsLookup(n)
  BY <1>1 DEF NullsHiddenStep
<1>2. CASE ~IsLookup(n)
  <2>1. \A odd : (\A i \in DOMAIN n.children : odd \in f[n.children[i]])
                <=> \A i \in DOMAIN n.children : odd \in g[n.children[i]]
    BY <1>2
  <2> QED BY <1>2, <2>1 DEF NullsHiddenStep
<1> QED BY <1>1, <1>2

LEMMA NullsHiddenExists ==
  ASSUME NEW h \in Nat, h <= Height + 1
  PROVE  \E f : f = [n \in TreesUpTo[h] |-> NullsHiddenStep(f, n)]
<1> DEFINE Is(f, S) == f = [n \in S |-> NullsHiddenStep(f, n)]
           Good == {m \in Nat : m <= Height + 1 => \E f : Is(f, TreesUpTo[m])}
<1>1. 0 \in Good
  <2>1. TreesUpTo[0] = {}
    BY TreesZero
  <2> DEFINE f == [n \in {} |-> 0]
  <2>2. Is(f, {})
    OBVIOUS
  <2> HIDE DEF f, Is
  <2> QED BY <2>1, <2>2
<1>2. ASSUME NEW m \in Nat, m \in Good PROVE m + 1 \in Good
  <2> SUFFICES ASSUME m + 1 <= Height + 1 PROVE \E f : Is(f, TreesUpTo[m + 1])
    OBVIOUS
  <2>1. PICK f : Is(f, TreesUpTo[m])
    <3>1. m <= Height + 1
      BY WhereNodeAssumption
    <3> HIDE DEF Is
    <3> QED BY <1>2, <3>1
  <2> DEFINE g == [n \in TreesUpTo[m + 1] |-> NullsHiddenStep(f, n)]
  <2>2. TreesUpTo[m + 1] = Lookups \cup Nodes(TreesUpTo[m])
    BY TreesNext
  <2>3. TreesUpTo[m] \subseteq TreesUpTo[m + 1]
    BY TreesGrow
  <2>4. ASSUME NEW n \in TreesUpTo[m] PROVE g[n] = f[n]
    <3>1. f[n] = NullsHiddenStep(f, n)
      BY <2>1
    <3> HIDE DEF NullsHiddenStep, Is
    <3> QED BY <3>1, <2>3
  <2>5. ASSUME NEW n \in TreesUpTo[m + 1] PROVE NullsHiddenStep(g, n) = NullsHiddenStep(f, n)
    <3> HIDE DEF g, Is
    <3>1. CASE n \in Lookups
      BY <3>1, LookupParts, NullsHiddenLocal
    <3>2. CASE n \in Nodes(TreesUpTo[m])
      <4>1. \A i \in DOMAIN n.children : g[n.children[i]] = f[n.children[i]]
        BY <3>2, <2>4, NodeParts
      <4> QED BY <4>1, NullsHiddenLocal
    <3> HIDE DEF Lookups, Nodes
    <3> QED BY <3>1, <3>2, <2>2
  <2>6. Is(g, TreesUpTo[m + 1])
    <3> HIDE DEF NullsHiddenStep
    <3> QED BY <2>5
  <2> HIDE DEF g, Is
  <2> QED BY <2>6
<1> HIDE DEF Good
<1>3. h \in Good
  BY <1>1, <1>2, Upwards
<1> HIDE DEF Is
<1>4. \E f : Is(f, TreesUpTo[h])
  BY <1>3 DEF Good
<1> QED BY <1>4 DEF Is

LEMMA NullsHiddenDef ==
  ASSUME NEW n \in Tree
  PROVE  NullsHidden[n] = NullsHiddenStep(NullsHidden, n)
<1>1. \E f : f = [m \in Tree |-> NullsHiddenStep(f, m)]
  <2>1. PICK h \in Nat : h = Height + 1
    BY WhereNodeAssumption
  <2> QED BY <2>1, NullsHiddenExists DEF Tree
<1>2. NullsHidden = [m \in Tree |-> NullsHiddenStep(NullsHidden, m)]
  BY <1>1 DEF NullsHidden, NullsHiddenStep
<1> QED BY <1>2

-----------------------------------------------------------------------------
(* MQL.                                                                    *)

LEMMA MqlExist ==
  ASSUME NEW N \in Nat
  PROVE  \E f : f = [h \in 0 .. N |->
                     IF h = 0 THEN {} ELSE Forms \cup Clauses(f[h - 1])]
<1> DEFINE Up(f, h) == IF h = 0 THEN {} ELSE Forms \cup Clauses(f[h - 1])
           Solves(f, n) == f = [h \in 0 .. n |-> Up(f, h)]
           S == {n \in Nat : \E f : Solves(f, n)}
<1> HIDE DEF Clauses, Forms
<1>1. 0 \in S
  <2> DEFINE f == [h \in 0 .. 0 |-> {}]
  <2>1. Solves(f, 0)
    OBVIOUS
  <2> HIDE DEF f, Solves
  <2> QED BY <2>1
<1>2. ASSUME NEW n \in Nat, n \in S PROVE n + 1 \in S
  <2>1. PICK f : Solves(f, n)
    BY <1>2
  <2> DEFINE g == [h \in 0 .. n + 1 |-> IF h = n + 1 THEN Forms \cup Clauses(f[n]) ELSE f[h]]
  <2>2. ASSUME NEW h \in 0 .. n + 1
        PROVE g[h] = Up(g, h)
    <3>1. CASE h = 0
      BY <2>1, <3>1
    <3>2. CASE h = n + 1
      <4>1. h # 0 /\ h - 1 = n /\ n \in 0 .. n + 1 /\ n # n + 1
        BY <3>2
      <4> QED BY <2>1, <3>2, <4>1
    <3>3. CASE h # 0 /\ h # n + 1
      <4>1. h \in 0 .. n /\ h - 1 \in 0 .. n + 1 /\ h - 1 # n + 1
        BY <3>3
      <4> QED BY <2>1, <3>3, <4>1
    <3> QED BY <3>1, <3>2, <3>3
  <2>3. g = [h \in 0 .. n + 1 |-> g[h]]
    OBVIOUS
  <2> HIDE DEF g
  <2>4. Solves(g, n + 1)
    BY <2>2, <2>3
  <2> HIDE DEF Solves
  <2> QED BY <2>4
<1> HIDE DEF S
<1>3. Nat \subseteq S
  BY <1>1, <1>2, Upwards
<1> QED BY <1>3 DEF S


LEMMA MqlDef ==
  \A h \in 0 .. 3 * (Height + 1) :
    MqlUpTo[h] = IF h = 0 THEN {} ELSE Forms \cup Clauses(MqlUpTo[h - 1])
<1> HIDE DEF Clauses, Forms
<1>1. \E f : f = [h \in 0 .. 3 * (Height + 1) |->
                  IF h = 0 THEN {} ELSE Forms \cup Clauses(f[h - 1])]
  <2>1. PICK N \in Nat : N = 3 * (Height + 1)
    BY WhereNodeAssumption
  <2> QED BY <2>1, MqlExist
<1>2. MqlUpTo = [h \in 0 .. 3 * (Height + 1) |->
                  IF h = 0 THEN {} ELSE Forms \cup Clauses(MqlUpTo[h - 1])]
  BY <1>1 DEF MqlUpTo
<1> QED BY <1>2

LEMMA MqlNext ==
  ASSUME NEW h \in Nat, h + 1 <= 3 * (Height + 1)
  PROVE  MqlUpTo[h + 1] = Forms \cup Clauses(MqlUpTo[h])
<1>1. PICK k \in 0 .. 3 * (Height + 1) : k = h + 1
  BY WhereNodeAssumption
<1>2. k # 0 /\ k - 1 = h
  BY <1>1
<1> HIDE DEF Clauses, Forms
<1> QED BY <1>1, <1>2, MqlDef

LEMMA MqlZero == MqlUpTo[0] = {}
<1>1. 0 \in 0 .. 3 * (Height + 1)
  BY WhereNodeAssumption
<1> HIDE DEF Clauses, Forms
<1> QED BY <1>1, MqlDef

LEMMA MqlGrow ==
  ASSUME NEW h \in Nat, h + 1 <= 3 * (Height + 1)
  PROVE  MqlUpTo[h] \subseteq MqlUpTo[h + 1]
<1> DEFINE S == {n \in Nat : n + 1 <= 3 * (Height + 1) => MqlUpTo[n] \subseteq MqlUpTo[n + 1]}
<1>1. 0 \in S
  BY MqlZero
<1>2. ASSUME NEW n \in Nat, n \in S PROVE n + 1 \in S
  <2>1. PICK k \in Nat : k = n + 1
    OBVIOUS
  <2> SUFFICES ASSUME k + 1 <= 3 * (Height + 1) PROVE MqlUpTo[k] \subseteq MqlUpTo[k + 1]
    BY <2>1
  <2>2. n + 1 <= 3 * (Height + 1)
    BY <2>1, WhereNodeAssumption
  <2>3. MqlUpTo[n] \subseteq MqlUpTo[k]
    BY <1>2, <2>1, <2>2
  <2>4. MqlUpTo[k] = Forms \cup Clauses(MqlUpTo[n])
    BY <2>1, <2>2, MqlNext
  <2>5. MqlUpTo[k + 1] = Forms \cup Clauses(MqlUpTo[k])
    BY MqlNext
  <2>6. Clauses(MqlUpTo[n]) \subseteq Clauses(MqlUpTo[k])
    BY <2>3 DEF Clauses
  <2> HIDE DEF Clauses, Forms
  <2> QED BY <2>4, <2>5, <2>6
<1> HIDE DEF S
<1>3. h \in S
  BY <1>1, <1>2, Upwards
<1> QED BY <1>3 DEF S

LEMMA MqlWithin ==
  ASSUME NEW h \in Nat, NEW k \in Nat, h <= k, k <= 3 * (Height + 1)
  PROVE  MqlUpTo[h] \subseteq MqlUpTo[k]
<1> DEFINE S == {n \in Nat : h + n <= 3 * (Height + 1) => MqlUpTo[h] \subseteq MqlUpTo[h + n]}
<1>1. 0 \in S
  OBVIOUS
<1>2. ASSUME NEW n \in Nat, n \in S PROVE n + 1 \in S
  <2>1. PICK m \in Nat : m = h + n
    OBVIOUS
  <2> SUFFICES ASSUME m + 1 <= 3 * (Height + 1) PROVE MqlUpTo[h] \subseteq MqlUpTo[m + 1]
    BY <2>1
  <2>2. MqlUpTo[h] \subseteq MqlUpTo[m]
    BY <1>2, <2>1, WhereNodeAssumption
  <2> QED BY <2>2, MqlGrow
<1> HIDE DEF S
<1>3. k - h \in S
  BY <1>1, <1>2, Upwards
<1> QED BY <1>3 DEF S

LEMMA FormParts ==
  ASSUME NEW n \in Forms
  PROVE  n.op \in {"path", "expr"} /\ n.lookup \in Lookups
<1> HIDE DEF Lookups
<1> QED BY DEF Forms

LEMMA ClauseParts ==
  ASSUME NEW S, NEW n \in Clauses(S)
  PROVE  /\ n.op \in {"AND", "OR", "NOT", "ONE", "ODD"}
         /\ n.args \in Seq(S)
         /\ \A i \in DOMAIN n.args : n.args[i] \in S
<1>1. n.op \in {"AND", "OR", "NOT", "ONE", "ODD"} /\ n.args \in Seq(S)
  BY DEF Clauses
<1>2. PICK s : s = n.args
  OBVIOUS
<1>3. \A i \in DOMAIN s : s[i] \in S
  BY <1>1, <1>2
<1> QED BY <1>1, <1>2, <1>3

MatchesStep(f, n) ==
  {row \in Row :
     LET true == {i \in DOMAIN n.args : row \in f[n.args[i]]}
     IN CASE n.op = "path" -> PathHolds(n.lookup, row)
          [] n.op = "expr" -> ExprHolds(n.lookup, row)
          [] n.op = "AND" -> true = DOMAIN n.args
          [] n.op = "OR" -> true # {}
          [] n.op = "NOT" -> true = {}
          [] n.op = "ONE" -> Cardinality(true) = 1
          [] n.op = "ODD" -> Cardinality(true) % 2 = 1}

LEMMA MatchesLocal ==
  ASSUME NEW f, NEW g, NEW n,
         n.op \notin {"path", "expr"} => \A i \in DOMAIN n.args : f[n.args[i]] = g[n.args[i]]
  PROVE  MatchesStep(f, n) = MatchesStep(g, n)
<1>1. CASE n.op \in {"path", "expr"}
  BY <1>1 DEF MatchesStep
<1>2. CASE n.op \notin {"path", "expr"}
  <2>1. \A row : {i \in DOMAIN n.args : row \in f[n.args[i]]}
                = {i \in DOMAIN n.args : row \in g[n.args[i]]}
    BY <1>2
  <2> QED BY <1>2, <2>1 DEF MatchesStep
<1> QED BY <1>1, <1>2

LEMMA MatchesExists ==
  ASSUME NEW h \in Nat, h <= 3 * (Height + 1)
  PROVE  \E f : f = [n \in MqlUpTo[h] |-> MatchesStep(f, n)]
<1> DEFINE Is(f, S) == f = [n \in S |-> MatchesStep(f, n)]
           Good == {m \in Nat : m <= 3 * (Height + 1) => \E f : Is(f, MqlUpTo[m])}
<1>1. 0 \in Good
  <2>1. MqlUpTo[0] = {}
    BY MqlZero
  <2> DEFINE f == [n \in {} |-> 0]
  <2>2. Is(f, {})
    OBVIOUS
  <2> HIDE DEF f, Is
  <2> QED BY <2>1, <2>2
<1>2. ASSUME NEW m \in Nat, m \in Good PROVE m + 1 \in Good
  <2> SUFFICES ASSUME m + 1 <= 3 * (Height + 1) PROVE \E f : Is(f, MqlUpTo[m + 1])
    OBVIOUS
  <2>1. PICK f : Is(f, MqlUpTo[m])
    <3>1. m <= 3 * (Height + 1)
      BY WhereNodeAssumption
    <3> HIDE DEF Is
    <3> QED BY <1>2, <3>1
  <2> DEFINE g == [n \in MqlUpTo[m + 1] |-> MatchesStep(f, n)]
  <2>2. MqlUpTo[m + 1] = Forms \cup Clauses(MqlUpTo[m])
    BY MqlNext
  <2>3. MqlUpTo[m] \subseteq MqlUpTo[m + 1]
    BY MqlGrow
  <2>4. ASSUME NEW n \in MqlUpTo[m] PROVE g[n] = f[n]
    <3>1. f[n] = MatchesStep(f, n)
      BY <2>1
    <3> HIDE DEF MatchesStep, Is
    <3> QED BY <3>1, <2>3
  <2>5. ASSUME NEW n \in MqlUpTo[m + 1] PROVE MatchesStep(g, n) = MatchesStep(f, n)
    <3> HIDE DEF g, Is
    <3>1. CASE n \in Forms
      BY <3>1, FormParts, MatchesLocal
    <3>2. CASE n \in Clauses(MqlUpTo[m])
      <4>1. \A i \in DOMAIN n.args : g[n.args[i]] = f[n.args[i]]
        BY <3>2, <2>4, ClauseParts
      <4> QED BY <4>1, MatchesLocal
    <3> HIDE DEF Forms, Clauses
    <3> QED BY <3>1, <3>2, <2>2
  <2>6. Is(g, MqlUpTo[m + 1])
    <3> HIDE DEF MatchesStep
    <3> QED BY <2>5
  <2> HIDE DEF g, Is
  <2> QED BY <2>6
<1> HIDE DEF Good
<1>3. h \in Good
  BY <1>1, <1>2, Upwards
<1> HIDE DEF Is
<1>4. \E f : Is(f, MqlUpTo[h])
  BY <1>3 DEF Good
<1> QED BY <1>4 DEF Is

LEMMA MatchesDef ==
  ASSUME NEW n \in Translated
  PROVE  Matches[n] = MatchesStep(Matches, n)
<1>1. \E f : f = [m \in Translated |-> MatchesStep(f, m)]
  <2>1. PICK h \in Nat : h = 3 * (Height + 1)
    BY WhereNodeAssumption
  <2> QED BY <2>1, MatchesExists DEF Translated
<1>2. Matches = [m \in Translated |-> MatchesStep(Matches, m)]
  BY <1>1 DEF Matches, MatchesStep
<1> QED BY <1>2

\* The levels of the trees that as_mql() may return.
Fits(h) == h \in Nat /\ h <= 3 * (Height + 1)

LEMMA MqlWithinTop ==
  ASSUME NEW h, Fits(h)
  PROVE  MqlUpTo[h] \subseteq Translated
<1>1. PICK k \in Nat : k = 3 * (Height + 1)
  BY WhereNodeAssumption
<1> QED BY <1>1, MqlWithin DEF Fits, Translated

\* The arguments of a clause that a row meets.
Among(args, row) == {i \in DOMAIN args : row \in Matches[args[i]]}

\* The rows that meet a clause, and those that meet a lookup.
MeetsClause(row, op, args) ==
  CASE op = "AND" -> \A i \in DOMAIN args : row \in Matches[args[i]]
    [] op = "OR" -> \E i \in DOMAIN args : row \in Matches[args[i]]
    [] op = "NOT" -> \A i \in DOMAIN args : row \notin Matches[args[i]]
    [] op = "ONE" -> Cardinality(Among(args, row)) = 1
    [] op = "ODD" -> Cardinality(Among(args, row)) % 2 = 1

LEMMA ClauseMatches ==
  ASSUME NEW h, Fits(h), Fits(h + 1),
         NEW op \in {"AND", "OR", "NOT", "ONE", "ODD"}, NEW args \in Seq(MqlUpTo[h]),
         NEW m, m = [op |-> op, args |-> args]
  PROVE  /\ m \in MqlUpTo[h + 1]
         /\ \A row \in Row : row \in Matches[m] <=> MeetsClause(row, op, args)
<1>1. m.op = op /\ m.args = args
  OBVIOUS
<1>2. m \in Clauses(MqlUpTo[h])
  BY DEF Clauses
<1>3. m \in MqlUpTo[h + 1]
  BY <1>2, MqlNext DEF Fits
<1>4. m \in Translated
  BY <1>3, MqlWithinTop
<1>5. Matches[m] = MatchesStep(Matches, m)
  BY <1>4, MatchesDef DEF Translated
<1>6. ASSUME NEW row \in Row
      PROVE  row \in Matches[m] <=>
               CASE op = "AND" -> Among(args, row) = DOMAIN args
                 [] op = "OR" -> Among(args, row) # {}
                 [] op = "NOT" -> Among(args, row) = {}
                 [] op = "ONE" -> Cardinality(Among(args, row)) = 1
                 [] op = "ODD" -> Cardinality(Among(args, row)) % 2 = 1
  BY <1>1, <1>5 DEF MatchesStep, Among
<1>7. ASSUME NEW row
      PROVE  /\ Among(args, row) = DOMAIN args
                <=> \A i \in DOMAIN args : row \in Matches[args[i]]
             /\ Among(args, row) = {} <=> \A i \in DOMAIN args : row \notin Matches[args[i]]
  BY DEF Among
<1> QED BY <1>3, <1>6, <1>7 DEF MeetsClause

LEMMA FormMatches ==
  ASSUME NEW l \in Lookups, NEW form \in {"path", "expr"}, NEW h, Fits(h), h # 0,
         NEW m, m = Form(l, form)
  PROVE  /\ m \in MqlUpTo[h]
         /\ \A row \in Row :
              row \in Matches[m] <=> IF form = "path" THEN PathHolds(l, row) ELSE ExprHolds(l, row)
<1>1. m.op = form /\ m.lookup = l
  BY DEF Form
<1>2. m \in Forms
  <2> HIDE DEF Lookups
  <2> QED BY DEF Forms, Form
<1>3. m \in MqlUpTo[h]
  <2>1. PICK k \in Nat : k + 1 = h
    BY DEF Fits
  <2> QED BY <1>2, <2>1, MqlNext DEF Fits
<1>4. m \in Translated
  BY <1>3, MqlWithinTop
<1>5. Matches[m] = MatchesStep(Matches, m)
  BY <1>4, MatchesDef DEF Translated
<1>6. ASSUME NEW row \in Row
      PROVE  row \in Matches[m]
               <=> IF form = "path" THEN PathHolds(l, row) ELSE ExprHolds(l, row)
  BY <1>1, <1>5 DEF MatchesStep
<1> QED BY <1>3, <1>6

-----------------------------------------------------------------------------
(* Results.                                                                *)

Results(trees) == {Full, Empty} \cup {Mql(m) : m \in trees}

LEMMA ResultKinds ==
  ASSUME NEW S, NEW r \in Results(S)
  PROVE  /\ r.is = "mql" <=> r \notin {Full, Empty}
         /\ r.is = "mql" => r.mql \in S /\ r = Mql(r.mql)
BY DEF Results, Full, Empty, Mql

LEMMA MqlParts ==
  ASSUME NEW m
  PROVE  /\ Mql(m).is = "mql" /\ Mql(m).mql = m /\ Mql(m) \notin {Full, Empty}
         /\ Full # Empty
BY DEF Full, Empty, Mql

LEMMA SelectedIs ==
  ASSUME NEW row
  PROVE  /\ Selected(Full, row)
         /\ ~Selected(Empty, row)
         /\ \A m : Selected(Mql(m), row) <=> row \in Matches[m]
BY MqlParts DEF Selected

\* SetToSeq() lists each member of a finite set once.
LEMMA SetToSeqIs ==
  ASSUME NEW S, IsFiniteSet(S)
  PROVE  /\ SetToSeq(S) \in Seq(S)
         /\ Range(SetToSeq(S)) = S
<1> DEFINE n == Cardinality(S)
           s == SetToSeq(S)
<1>1. n \in Nat /\ ExistsBijection(1..n, S)
  BY FS_CardinalityType
<1>2. \E f \in [1..n -> S] : IsInjective(f)
  BY <1>1 DEF ExistsBijection, Bijection, Injection, IsInjective
<1>3. s \in [1..n -> S] /\ IsInjective(s)
  BY <1>2 DEF SetToSeq
<1>4. s \in Seq(S) /\ DOMAIN s = 1..n
  BY <1>1, <1>3
<1>5. s \in Injection(1..n, S)
  BY <1>3 DEF Injection, IsInjective
<1>6. Cardinality(1..n) = n
  BY <1>1, FS_Interval
<1>7. s \in Surjection(1..n, S)
  BY <1>5, <1>6, FS_Injection
<1>8. Range(s) = S
  BY <1>4, <1>7 DEF Surjection, Range
<1> QED BY <1>4, <1>8

\* The MQL among results.
Args(results) ==
  LET parts == SetToSeq({i \in DOMAIN results : results[i].is = "mql"})
  IN [k \in DOMAIN parts |-> results[parts[k]].mql]

LEMMA ArgsAre ==
  ASSUME NEW S, NEW results \in Seq(Results(S))
  PROVE  /\ Args(results) \in Seq(S)
         /\ \A k \in DOMAIN Args(results) :
              \E i \in DOMAIN results : results[i] = Mql(Args(results)[k])
         /\ \A i \in DOMAIN results :
              results[i].is = "mql" =>
                \E k \in DOMAIN Args(results) : Args(results)[k] = results[i].mql
<1> DEFINE I == {i \in DOMAIN results : results[i].is = "mql"}
           parts == SetToSeq(I)
           args == [k \in DOMAIN parts |-> results[parts[k]].mql]
<1>1. IsFiniteSet(I)
  <2>1. IsFiniteSet(1 .. Len(results))
    BY FS_Interval
  <2> QED BY <2>1, FS_Subset
<1>2. parts \in Seq(I) /\ Range(parts) = I
  <2> HIDE DEF I
  <2> QED BY <1>1, SetToSeqIs
<1>3. \A k \in DOMAIN parts : parts[k] \in I
  <2> HIDE DEF I
  <2> QED BY <1>2
<1>4. \A i \in I : \E k \in DOMAIN parts : parts[k] = i
  <2> HIDE DEF I
  <2> QED BY <1>2 DEF Range
<1> HIDE DEF parts
<1>5. \A i \in I : results[i] \in Results(S) /\ results[i].mql \in S
                   /\ results[i] = Mql(results[i].mql)
  BY ResultKinds
<1>6. args \in Seq(S)
  <2>1. DOMAIN parts = 1 .. Len(parts) /\ Len(parts) \in Nat
    <3> HIDE DEF I
    <3> QED BY <1>2
  <2> HIDE DEF I
  <2> QED BY <1>3, <1>5, <2>1
<1>7. \A k \in DOMAIN args : \E i \in DOMAIN results : results[i] = Mql(args[k])
  BY <1>3, <1>5
<1>8. \A i \in DOMAIN results :
        results[i].is = "mql" => \E k \in DOMAIN args : args[k] = results[i].mql
  BY <1>4
<1>9. Args(results) = args
  BY DEF Args, parts
<1> HIDE DEF args
<1> QED BY <1>6, <1>7, <1>8, <1>9

LEMMA CombineOf ==
  ASSUME NEW connector \in {"AND", "OR"}, NEW negated \in BOOLEAN, NEW results
  PROVE  Combine(connector, negated, results) =
           LET decides == IF connector = "AND" THEN Empty ELSE Full
               neutral == IF connector = "AND" THEN Full ELSE Empty
               args == Args(results)
               operand == IF Len(args) = 1 THEN args[1] ELSE [op |-> connector, args |-> args]
           IN IF results = <<>> THEN Full
              ELSE IF \E i \in DOMAIN results : results[i] = decides
                   THEN Raised(negated, decides)
              ELSE IF args = <<>> THEN Raised(negated, neutral)
              ELSE Mql(IF negated THEN [op |-> "NOT", args |-> <<operand>>] ELSE operand)
BY DEF Combine, Args

\* What joins the parts of a node.
LEMMA JoinedMatches ==
  ASSUME NEW h, Fits(h), Fits(h + 1), NEW connector \in {"AND", "OR"},
         NEW args \in Seq(MqlUpTo[h]), args # <<>>,
         NEW m, m = IF Len(args) = 1 THEN args[1] ELSE [op |-> connector, args |-> args]
  PROVE  /\ m \in MqlUpTo[h + 1]
         /\ \A row \in Row :
              row \in Matches[m] <=>
                IF connector = "AND" THEN \A k \in DOMAIN args : row \in Matches[args[k]]
                ELSE \E k \in DOMAIN args : row \in Matches[args[k]]
<1>1. CASE Len(args) = 1
  <2>1. DOMAIN args = {1} /\ m = args[1] /\ m \in MqlUpTo[h]
    BY <1>1
  <2>2. MqlUpTo[h] \subseteq MqlUpTo[h + 1]
    BY MqlGrow DEF Fits
  <2> QED BY <2>1, <2>2
<1>2. CASE Len(args) # 1
  <2>1. m = [op |-> connector, args |-> args]
    BY <1>2
  <2> QED BY <2>1, ClauseMatches DEF MeetsClause
<1> QED BY <1>1, <1>2

LEMMA OneIsSeq ==
  ASSUME NEW S, NEW x \in S
  PROVE  <<x>> \in Seq(S) /\ Len(<<x>>) = 1 /\ DOMAIN <<x>> = {1} /\ <<x>>[1] = x
OBVIOUS

LEMMA TwoAreSeq ==
  ASSUME NEW S, NEW x \in S, NEW y \in S
  PROVE  /\ <<x, y>> \in Seq(S) /\ <<x, y>> # <<>>
         /\ DOMAIN <<x, y>> = {1, 2} /\ <<x, y>>[1] = x /\ <<x, y>>[2] = y
OBVIOUS

LEMMA NotMatches ==
  ASSUME NEW h, Fits(h), Fits(h + 1), NEW m \in MqlUpTo[h],
         NEW n, n = [op |-> "NOT", args |-> <<m>>]
  PROVE  /\ n \in MqlUpTo[h + 1]
         /\ \A row \in Row : row \in Matches[n] <=> row \notin Matches[m]
<1>1. PICK args : args = <<m>>
  OBVIOUS
<1>2. args \in Seq(MqlUpTo[h]) /\ DOMAIN args = {1} /\ args[1] = m
  BY <1>1, OneIsSeq
<1>3. n = [op |-> "NOT", args |-> args]
  BY <1>1
<1> QED BY <1>2, <1>3, ClauseMatches DEF MeetsClause

\* where_node() combines the children of a node as its connector says.
LEMMA CombineSelects ==
  ASSUME NEW h, Fits(h), Fits(h + 1), Fits(h + 2),
         NEW connector \in {"AND", "OR"}, NEW negated \in BOOLEAN,
         NEW results \in Seq(Results(MqlUpTo[h])),
         NEW r, r = Combine(connector, negated, results)
  PROVE  /\ r \in Results(MqlUpTo[h + 2])
         /\ ~negated => r \in Results(MqlUpTo[h + 1])
         /\ results = <<>> => r = Full
         /\ results # <<>> =>
              \A row \in Row :
                LET sum == IF connector = "AND"
                           THEN \A i \in DOMAIN results : Selected(results[i], row)
                           ELSE \E i \in DOMAIN results : Selected(results[i], row)
                IN Selected(r, row) <=> IF negated THEN ~sum ELSE sum
<1> DEFINE All(row) == \A i \in DOMAIN results : Selected(results[i], row)
           Some(row) == \E i \in DOMAIN results : Selected(results[i], row)
           Sum(row) == IF connector = "AND" THEN All(row) ELSE Some(row)
           decides == IF connector = "AND" THEN Empty ELSE Full
           neutral == IF connector = "AND" THEN Full ELSE Empty
<1>1. PICK args : args = Args(results)
  OBVIOUS
<1>2. PICK m : m = IF Len(args) = 1 THEN args[1] ELSE [op |-> connector, args |-> args]
  OBVIOUS
<1>3. PICK n : n = [op |-> "NOT", args |-> <<m>>]
  OBVIOUS
<1>4. r = IF results = <<>> THEN Full
          ELSE IF \E i \in DOMAIN results : results[i] = decides THEN Raised(negated, decides)
          ELSE IF args = <<>> THEN Raised(negated, neutral)
          ELSE Mql(IF negated THEN n ELSE m)
  BY <1>1, <1>2, <1>3, CombineOf
<1>5. /\ args \in Seq(MqlUpTo[h])
      /\ \A k \in DOMAIN args : \E i \in DOMAIN results : results[i] = Mql(args[k])
      /\ \A i \in DOMAIN results :
           results[i].is = "mql" => \E k \in DOMAIN args : args[k] = results[i].mql
  BY <1>1, ArgsAre
<1>6. \A i \in DOMAIN results : results[i] \in Results(MqlUpTo[h])
  OBVIOUS
<1>7. \A e \in {Full, Empty} : Raised(negated, e) = IF ~negated THEN e
                                                  ELSE IF e = Full THEN Empty ELSE Full
  BY DEF Raised
<1>8. CASE results = <<>>
  BY <1>4, <1>8 DEF Results
<1>9. CASE results # <<>> /\ \E i \in DOMAIN results : results[i] = decides
  <2>1. /\ r = Raised(negated, decides)
        /\ r \in Results(MqlUpTo[h + 1]) /\ r \in Results(MqlUpTo[h + 2])
    BY <1>4, <1>7, <1>9 DEF Results
  <2>2. ASSUME NEW row \in Row PROVE Sum(row) <=> connector # "AND"
    BY <1>9, SelectedIs
  <2> HIDE DEF Sum
  <2>3. ASSUME NEW row \in Row PROVE Selected(r, row) <=> IF negated THEN ~Sum(row) ELSE Sum(row)
    <3>1. CASE connector = "AND"
      BY <2>1, <2>2, <1>7, <3>1, SelectedIs, MqlParts
    <3>2. CASE connector # "AND"
      BY <2>1, <2>2, <1>7, <3>2, SelectedIs, MqlParts
    <3> QED BY <3>1, <3>2
  <2> QED BY <1>9, <2>1, <2>3 DEF Sum
<1>10. CASE results # <<>> /\ ~(\E i \in DOMAIN results : results[i] = decides)
  <2>1. \A i \in DOMAIN results : results[i] = neutral \/ results[i].is = "mql"
    BY <1>6, <1>10, ResultKinds
  <2>2. ASSUME NEW row \in Row
        PROVE  Sum(row) <=> IF connector = "AND"
                            THEN \A k \in DOMAIN args : row \in Matches[args[k]]
                            ELSE \E k \in DOMAIN args : row \in Matches[args[k]]
    <3>1. \A i \in DOMAIN results :
            \/ results[i] = neutral
            \/ \E k \in DOMAIN args : /\ results[i] = Mql(args[k])
                                      /\ Selected(results[i], row) <=> row \in Matches[args[k]]
      <4> SUFFICES ASSUME NEW i \in DOMAIN results, results[i].is = "mql"
                   PROVE  \E k \in DOMAIN args :
                            /\ results[i] = Mql(args[k])
                            /\ Selected(results[i], row) <=> row \in Matches[args[k]]
        BY <2>1
      <4>1. PICK k \in DOMAIN args : args[k] = results[i].mql
        BY <1>5
      <4>2. results[i] = Mql(args[k])
        BY <1>6, <4>1, ResultKinds
      <4>3. Selected(results[i], row) <=> row \in Matches[args[k]]
        BY <4>2, SelectedIs
      <4> QED BY <4>2, <4>3
    <3>2. \A k \in DOMAIN args : \E i \in DOMAIN results :
            Selected(results[i], row) <=> row \in Matches[args[k]]
      BY <1>5, SelectedIs
    <3>3. CASE connector = "AND"
      BY <3>1, <3>2, <3>3, SelectedIs
    <3>4. CASE connector # "AND"
      BY <3>1, <3>2, <3>4, SelectedIs
    <3> QED BY <3>3, <3>4
  <2>3. CASE args = <<>>
    <3>1. /\ r = Raised(negated, neutral)
          /\ r \in Results(MqlUpTo[h + 1]) /\ r \in Results(MqlUpTo[h + 2])
      BY <1>4, <1>7, <1>10, <2>3 DEF Results
    <3>2. ASSUME NEW row \in Row PROVE Sum(row) <=> connector = "AND"
      BY <2>2, <2>3
    <3> HIDE DEF Sum
    <3>3. ASSUME NEW row \in Row PROVE Selected(r, row) <=> IF negated THEN ~Sum(row) ELSE Sum(row)
      <4>1. CASE connector = "AND"
        BY <3>1, <3>2, <1>7, <4>1, SelectedIs, MqlParts
      <4>2. CASE connector # "AND"
        BY <3>1, <3>2, <1>7, <4>2, SelectedIs, MqlParts
      <4> QED BY <4>1, <4>2
    <3> QED BY <1>10, <3>1, <3>3 DEF Sum
  <2>4. CASE args # <<>>
    <3>1. /\ m \in MqlUpTo[h + 1]
          /\ \A row \in Row :
               row \in Matches[m] <=>
                 IF connector = "AND" THEN \A k \in DOMAIN args : row \in Matches[args[k]]
                 ELSE \E k \in DOMAIN args : row \in Matches[args[k]]
      BY <1>2, <1>5, <2>4, JoinedMatches
    <3>2. /\ n \in MqlUpTo[h + 2]
          /\ \A row \in Row : row \in Matches[n] <=> row \notin Matches[m]
      <4>1. PICK k : k = h + 1 /\ k + 1 = h + 2
        BY DEF Fits
      <4>2. Fits(k) /\ Fits(k + 1) /\ m \in MqlUpTo[k]
        BY <3>1, <4>1
      <4> QED BY <1>3, <4>1, <4>2, NotMatches
    <3>3. MqlUpTo[h + 1] \subseteq MqlUpTo[h + 2]
      <4>1. PICK k \in Nat : k = h + 1 /\ k + 1 = h + 2
        BY DEF Fits
      <4> QED BY <4>1, MqlGrow DEF Fits
    <3>4. r = Mql(IF negated THEN n ELSE m)
      BY <1>4, <1>10, <2>4
    <3>5. /\ r \in Results(MqlUpTo[h + 2])
          /\ ~negated => r \in Results(MqlUpTo[h + 1])
      BY <3>1, <3>2, <3>3, <3>4 DEF Results
    <3> HIDE DEF Sum
    <3>6. ASSUME NEW row \in Row PROVE Selected(r, row) <=> IF negated THEN ~Sum(row) ELSE Sum(row)
      <4>1. Sum(row) <=> row \in Matches[m]
        BY <2>2, <3>1
      <4>2. Selected(r, row) <=> row \in Matches[IF negated THEN n ELSE m]
        BY <3>4, SelectedIs
      <4>3. CASE negated
        BY <3>2, <4>1, <4>2, <4>3
      <4>4. CASE ~negated
        BY <3>2, <4>1, <4>2, <4>4
      <4> QED BY <4>3, <4>4
    <3> QED BY <1>10, <3>5, <3>6 DEF Sum
  <2> QED BY <2>3, <2>4
<1> QED BY <1>8, <1>9, <1>10

LEMMA CaseMatches ==
  ASSUME NEW h, Fits(h), h # 0, NEW r \in Results(MqlUpTo[h])
  PROVE  /\ CaseOf(r) \in MqlUpTo[h]
         /\ \A row \in Row : row \in Matches[CaseOf(r)] <=> Selected(r, row)
<1>1. PICK k \in Nat : k + 1 = h /\ Fits(k) /\ Fits(k + 1)
  <2>1. h - 1 \in Nat /\ h - 1 + 1 = h /\ Fits(h - 1)
    BY WhereNodeAssumption DEF Fits
  <2> QED BY <2>1
<1>2. Fits(k) /\ Fits(k + 1)
  BY <1>1
<1>3. PICK none : none = <<>> /\ none \in Seq(MqlUpTo[k]) /\ DOMAIN none = {}
  <2>1. <<>> \in Seq(MqlUpTo[k]) /\ DOMAIN <<>> = {}
    OBVIOUS
  <2> QED BY <2>1
<1>4. none \in Seq(MqlUpTo[k])
  BY <1>3
<1>5. CASE r = Full
  <2>1. PICK m : m = [op |-> "AND", args |-> none]
    OBVIOUS
  <2>2. CaseOf(r) = m
    BY <1>3, <1>5, <2>1, MqlParts DEF CaseOf
  <2>3. /\ m \in MqlUpTo[k + 1]
        /\ \A row \in Row : row \in Matches[m]
    <3>1. /\ m \in MqlUpTo[k + 1]
          /\ \A row \in Row : row \in Matches[m] <=> MeetsClause(row, "AND", none)
      BY <1>2, <1>4, <2>1, ClauseMatches
    <3> QED BY <1>3, <3>1 DEF MeetsClause
  <2> QED BY <1>1, <1>5, <2>2, <2>3, SelectedIs
<1>6. CASE r = Empty
  <2>1. PICK m : m = [op |-> "OR", args |-> none]
    OBVIOUS
  <2>2. CaseOf(r) = m
    BY <1>3, <1>6, <2>1, MqlParts DEF CaseOf
  <2>3. /\ m \in MqlUpTo[k + 1]
        /\ \A row \in Row : ~(row \in Matches[m])
    <3>1. /\ m \in MqlUpTo[k + 1]
          /\ \A row \in Row : row \in Matches[m] <=> MeetsClause(row, "OR", none)
      BY <1>2, <1>4, <2>1, ClauseMatches
    <3> QED BY <1>3, <3>1 DEF MeetsClause
  <2> QED BY <1>1, <1>6, <2>2, <2>3, SelectedIs
<1>7. CASE r \notin {Full, Empty}
  <2>1. CaseOf(r) = r.mql /\ r = Mql(r.mql) /\ r.mql \in MqlUpTo[h]
    BY <1>7, ResultKinds DEF CaseOf
  <2> QED BY <2>1, SelectedIs
<1> QED BY <1>5, <1>6, <1>7

\* The results of a sequence that select a row.
Selecting(results, row) == {i \in DOMAIN results : Selected(results[i], row)}

LEMMA SelectingIsFinite ==
  ASSUME NEW S, NEW results \in Seq(S), NEW row
  PROVE  /\ Cardinality(Selecting(results, row)) \in 0 .. Len(results)
         /\ Selecting(results, row) = {} <=> Cardinality(Selecting(results, row)) = 0
<1>1. IsFiniteSet(1 .. Len(results)) /\ Cardinality(1 .. Len(results)) = Len(results)
  <2>1. PICK n \in Nat : n = Len(results)
    OBVIOUS
  <2>2. IsFiniteSet(1 .. n) /\ Cardinality(1 .. n) = n
    BY FS_Interval
  <2> QED BY <2>1, <2>2
<1>2. Selecting(results, row) \subseteq 1 .. Len(results)
  BY DEF Selecting
<1>3. /\ IsFiniteSet(Selecting(results, row))
      /\ Cardinality(Selecting(results, row)) <= Cardinality(1 .. Len(results))
  BY <1>1, <1>2, FS_Subset
<1> QED BY <1>1, <1>3, FS_CardinalityType, FS_EmptySet

\* The sum is 1 for up to two cases, which is the same as odd.
LEMMA OddMatches ==
  ASSUME NEW h, Fits(h), Fits(h + 1), NEW results \in Seq(Results(MqlUpTo[h])),
         h # 0 \/ results = <<>>,
         NEW m, m = SumIsOdd([i \in DOMAIN results |-> CaseOf(results[i])])
  PROVE  /\ m \in MqlUpTo[h + 1]
         /\ \A row \in Row :
              row \in Matches[m] <=> Cardinality(Selecting(results, row)) % 2 = 1
<1>1. PICK cases : cases = [i \in DOMAIN results |-> CaseOf(results[i])]
  OBVIOUS
<1>2. \A i \in DOMAIN results :
        /\ CaseOf(results[i]) \in MqlUpTo[h]
        /\ \A row \in Row : row \in Matches[CaseOf(results[i])] <=> Selected(results[i], row)
  BY CaseMatches
<1>3. cases \in Seq(MqlUpTo[h]) /\ DOMAIN cases = DOMAIN results /\ Len(cases) = Len(results)
  <2>1. DOMAIN results = 1 .. Len(results) /\ Len(results) \in Nat
    OBVIOUS
  <2>2. PICK S : S = MqlUpTo[h]
    OBVIOUS
  <2>3. cases \in [1 .. Len(results) -> S]
    BY <1>1, <1>2, <2>1, <2>2
  <2>4. cases \in Seq(S)
    BY <2>1, <2>3
  <2> QED BY <2>1, <2>2, <2>3, <2>4
<1>4. ASSUME NEW row \in Row PROVE Among(cases, row) = Selecting(results, row)
  BY <1>1, <1>2, <1>3 DEF Among, Selecting
<1>5. CASE Len(cases) > 2
  <2>1. m = [op |-> "ODD", args |-> cases]
    BY <1>1, <1>5 DEF SumIsOdd
  <2>2. /\ m \in MqlUpTo[h + 1]
        /\ \A row \in Row : row \in Matches[m] <=> Cardinality(Among(cases, row)) % 2 = 1
    <3>1. /\ m \in MqlUpTo[h + 1]
          /\ \A row \in Row : row \in Matches[m] <=> MeetsClause(row, "ODD", cases)
      BY <1>3, <2>1, ClauseMatches
    <3> QED BY <3>1 DEF MeetsClause
  <2> QED BY <1>4, <2>2
<1>6. CASE ~(Len(cases) > 2)
  <2>1. m = [op |-> "ONE", args |-> cases]
    BY <1>1, <1>6 DEF SumIsOdd, SumIsOne
  <2>2. /\ m \in MqlUpTo[h + 1]
        /\ \A row \in Row : row \in Matches[m] <=> Cardinality(Among(cases, row)) = 1
    <3>1. /\ m \in MqlUpTo[h + 1]
          /\ \A row \in Row : row \in Matches[m] <=> MeetsClause(row, "ONE", cases)
      BY <1>3, <2>1, ClauseMatches
    <3> QED BY <3>1 DEF MeetsClause
  <2>3. ASSUME NEW row \in Row
        PROVE  Cardinality(Selecting(results, row)) = 1
                 <=> Cardinality(Selecting(results, row)) % 2 = 1
    <3>1. PICK c : c = Cardinality(Selecting(results, row))
      OBVIOUS
    <3>2. c \in 0 .. Len(results) /\ Len(results) \in Nat /\ Len(results) <= 2
      BY <1>3, <1>6, <3>1, SelectingIsFinite
    <3>3. c \in {0, 1, 2}
      BY <3>2
    <3> QED BY <3>1, <3>3
  <2> QED BY <1>4, <2>2, <2>3
<1> QED BY <1>5, <1>6

\* XOR counts the expressions, and asks that one of the results holds.
LEMMA XorSelects ==
  ASSUME NEW h, Fits(h), Fits(h + 3), NEW negated \in BOOLEAN,
         NEW results \in Seq(Results(MqlUpTo[h])),
         NEW expressions \in Seq(Results(MqlUpTo[h])), Len(results) = Len(expressions),
         h # 0 \/ results = <<>>,
         NEW r, r = Xor(negated, results, expressions)
  PROVE  /\ r \in Results(MqlUpTo[h + 3])
         /\ \A row \in Row :
              LET xor == /\ Selecting(results, row) # {}
                         /\ Cardinality(Selecting(expressions, row)) % 2 = 1
              IN Selected(r, row) <=> IF negated THEN ~xor ELSE xor
<1>1. PICK anyOf, m, odd :
        /\ anyOf = Combine("OR", FALSE, results)
        /\ m = SumIsOdd([i \in DOMAIN expressions |-> CaseOf(expressions[i])])
        /\ odd = Mql(m)
  OBVIOUS
<1>2. PICK k \in Nat : k = h + 1 /\ Fits(k) /\ Fits(k + 1) /\ k + 1 = h + 2 /\ Fits(k + 2)
                       /\ k + 2 = h + 3
  BY WhereNodeAssumption DEF Fits
<1>3. PICK both : both = <<anyOf, odd>>
  OBVIOUS
<1>4. r = Combine("AND", negated, both)
  BY <1>1, <1>3 DEF Xor
<1>5. m \in MqlUpTo[k]
      /\ \A row \in Row :
           row \in Matches[m] <=> Cardinality(Selecting(expressions, row)) % 2 = 1
  <2>1. h # 0 \/ expressions = <<>>
    OBVIOUS
  <2> QED BY <1>1, <1>2, <2>1, OddMatches
<1>6. /\ anyOf \in Results(MqlUpTo[k])
      /\ results # <<>> =>
           \A row \in Row : Selected(anyOf, row) <=> Selecting(results, row) # {}
  <2>1. /\ anyOf \in Results(MqlUpTo[h + 1])
        /\ results # <<>> =>
             \A row \in Row :
               Selected(anyOf, row) <=> \E i \in DOMAIN results : Selected(results[i], row)
    <3>1. Fits(h) /\ Fits(h + 1) /\ Fits(h + 2)
      BY <1>2
    <3> QED BY <1>1, <3>1, CombineSelects
  <2> QED BY <1>2, <2>1 DEF Selecting
<1>7. odd \in Results(MqlUpTo[k])
  BY <1>1, <1>5 DEF Results
<1>8. /\ both \in Seq(Results(MqlUpTo[k])) /\ both # <<>>
      /\ DOMAIN both = {1, 2} /\ both[1] = anyOf /\ both[2] = odd
  BY <1>3, <1>6, <1>7, TwoAreSeq
<1>9. /\ r \in Results(MqlUpTo[k + 2])
      /\ \A row \in Row :
           LET sum == \A i \in DOMAIN both : Selected(both[i], row)
           IN Selected(r, row) <=> IF negated THEN ~sum ELSE sum
  <2>1. Fits(k) /\ Fits(k + 1) /\ Fits(k + 2) /\ "AND" \in {"AND", "OR"}
    BY <1>2
  <2>2. /\ r \in Results(MqlUpTo[k + 2])
        /\ both # <<>> =>
             \A row \in Row :
               LET sum == \A i \in DOMAIN both : Selected(both[i], row)
               IN Selected(r, row) <=> IF negated THEN ~sum ELSE sum
    <3>1. PICK p : p = k /\ Fits(p) /\ Fits(p + 1) /\ Fits(p + 2)
      BY <2>1
    <3>2. both \in Seq(Results(MqlUpTo[p]))
      BY <1>8, <3>1
    <3>3. /\ r \in Results(MqlUpTo[p + 2])
          /\ both # <<>> =>
               \A row \in Row :
                 LET sum == \A i \in DOMAIN both : Selected(both[i], row)
                 IN Selected(r, row) <=> IF negated THEN ~sum ELSE sum
      BY <1>4, <3>1, <3>2, CombineSelects
    <3> QED BY <3>1, <3>3
  <2> QED BY <1>8, <2>2
<1>10. ASSUME NEW row \in Row
       PROVE  LET xor == /\ Selecting(results, row) # {}
                         /\ Cardinality(Selecting(expressions, row)) % 2 = 1
              IN Selected(r, row) <=> IF negated THEN ~xor ELSE xor
  <2>1. (\A i \in DOMAIN both : Selected(both[i], row))
          <=> Selected(anyOf, row) /\ row \in Matches[m]
    BY <1>1, <1>8, SelectedIs
  <2>2. row \in Matches[m] <=> Cardinality(Selecting(expressions, row)) % 2 = 1
    BY <1>5
  <2>3. CASE results # <<>>
    BY <1>6, <1>9, <2>1, <2>2, <2>3
  <2>4. CASE results = <<>>
    <3>1. expressions = <<>>
      BY <2>4
    <3>2. Cardinality(Selecting(expressions, row)) = 0 /\ Selecting(results, row) = {}
      BY <2>4, <3>1, FS_EmptySet DEF Selecting
    <3> QED BY <1>9, <2>1, <2>2, <3>2
  <2> QED BY <2>3, <2>4
<1> QED BY <1>2, <1>9, <1>10

-----------------------------------------------------------------------------
(* What a condition selects.                                               *)

Meets(n, asExpr, row) == Selected(AsMql[n][asExpr], row)

LEMMA ValueIs ==
  ASSUME NEW row \in Row, NEW column \in Column
  PROVE  ValueOf(row, column) \in Int /\ ValueOf(row, column) >= Missing
<1>1. column[1] \in Alias /\ column[2] \in Col
  BY DEF Column
<1>2. row[column[1]] \in Doc
  BY <1>1 DEF Row
<1>3. row[column[1]][column[2]] \in {v \in Int : v >= Missing}
  BY <1>1, <1>2 DEF Doc
<1> QED BY <1>3 DEF ValueOf

\* A lookup that raises has the meaning of its path.
LEMMA LookupMqlSelects ==
  ASSUME NEW l \in Lookups, NEW asExpr \in BOOLEAN, NEW h, Fits(h), h # 0
  PROVE  /\ LookupMql(l, asExpr) \in Results(MqlUpTo[h])
         /\ \A row \in Row :
              Selected(LookupMql(l, asExpr), row)
                <=> IF CanUsePath(l) /\ ~asExpr THEN PathHolds(l, row) ELSE ExprHolds(l, row)
<1> DEFINE asPath == CanUsePath(l) /\ ~asExpr
           openRange == l.lookup = "range" /\ l.args[1] = Null /\ l.args[2] = Null
           upsideDown == l.lookup = "range" /\ l.args[2] # Null /\ l.args[1] > l.args[2]
<1>1. PICK form \in {"path", "expr"} : form = IF asPath THEN "path" ELSE "expr"
  OBVIOUS
<1>2. PICK m : m = Form(l, form)
  OBVIOUS
<1>3. /\ m \in MqlUpTo[h]
      /\ \A row \in Row :
           row \in Matches[m] <=> IF form = "path" THEN PathHolds(l, row) ELSE ExprHolds(l, row)
  BY <1>2, FormMatches
<1>4. LookupMql(l, asExpr) = CASE l.lookup = "in" /\ l.args = <<>> -> Empty
                               [] asPath /\ openRange -> Full
                               [] asPath /\ upsideDown -> Empty
                               [] OTHER -> Mql(m)
  BY <1>1, <1>2 DEF LookupMql
<1>5. /\ l.lookup \in LookupName /\ l.args \in Seq(Int) /\ l.lhs \in Column
      /\ l.lookup = "range" => l.args[1] \in Int /\ l.args[2] \in Int
  BY LookupParts
<1>6. CASE l.lookup = "in" /\ l.args = <<>>
  <2>1. LookupMql(l, asExpr) = Empty
    BY <1>4, <1>6
  <2>2. ASSUME NEW row \in Row PROVE ~PathHolds(l, row) /\ ~ExprHolds(l, row)
    BY <1>6 DEF PathHolds, ExprHolds, Range
  <2> QED BY <2>1, <2>2, SelectedIs DEF Results
<1>7. CASE asPath /\ openRange
  <2>1. LookupMql(l, asExpr) = Full
    BY <1>4, <1>7
  <2>2. ASSUME NEW row \in Row PROVE PathHolds(l, row)
    BY <1>7 DEF PathHolds
  <2> QED BY <1>7, <2>1, <2>2, SelectedIs DEF Results
<1>8. CASE asPath /\ upsideDown
  <2>1. LookupMql(l, asExpr) = Empty
    BY <1>4, <1>8
  <2>2. ASSUME NEW row \in Row PROVE ~PathHolds(l, row)
    <3>1. PICK v \in Int, s \in Int, e \in Int :
            v = ValueOf(row, l.lhs) /\ s = l.args[1] /\ e = l.args[2] /\ v >= Missing
      BY <1>5, <1>8, ValueIs
    <3>2. PathHolds(l, row) <=> /\ s # Null => v \notin {Missing, Null} /\ v >= s
                                /\ e # Null => v \notin {Missing, Null} /\ v <= e
      BY <1>8, <3>1 DEF PathHolds, IsNull
    <3> QED BY <1>8, <3>1, <3>2 DEF Missing, Null
  <2> QED BY <1>8, <2>1, <2>2, SelectedIs DEF Results
<1>9. CASE /\ ~(l.lookup = "in" /\ l.args = <<>>)
           /\ ~(asPath /\ openRange) /\ ~(asPath /\ upsideDown)
  <2>1. LookupMql(l, asExpr) = Mql(m)
    BY <1>4, <1>9
  <2>2. form = "path" <=> asPath
    BY <1>1
  <2> QED BY <1>3, <2>1, <2>2, SelectedIs DEF Results
<1> QED BY <1>6, <1>7, <1>8, <1>9

\* The results of the children of a node.
ResultsOf(n, asExpr) == [i \in DOMAIN n.children |-> AsMql[n.children[i]][asExpr]]

LEMMA AsMqlIs ==
  ASSUME NEW n \in Tree, NEW asExpr \in BOOLEAN
  PROVE  AsMql[n][asExpr] =
           IF IsLookup(n) THEN LookupMql(n, asExpr)
           ELSE IF n.connector = "XOR"
                THEN Xor(n.negated, ResultsOf(n, asExpr), ResultsOf(n, TRUE))
           ELSE Combine(n.connector, n.negated, ResultsOf(n, asExpr))
<1>1. AsMql[n] = AsMqlStep(AsMql, n)
  BY AsMqlDef
<1> QED BY <1>1 DEF AsMqlStep, ResultsOf

ResultsIn(n, asExpr, S) == \A i \in DOMAIN n.children : AsMql[n.children[i]][asExpr] \in S

AreResults(r, n, asExpr, S) ==
  /\ r \in Seq(S)
  /\ Len(r) = Len(n.children) /\ DOMAIN r = DOMAIN n.children
  /\ n.children = <<>> <=> r = <<>>
  /\ \A i \in DOMAIN n.children : r[i] = AsMql[n.children[i]][asExpr]

LEMMA ResultsAre ==
  ASSUME NEW S, NEW n, n.children \in Seq(Tree), NEW asExpr \in BOOLEAN,
         ResultsIn(n, asExpr, S)
  PROVE  AreResults(ResultsOf(n, asExpr), n, asExpr, S)
<1>1. PICK s, k : s = n.children /\ s \in Seq(Tree) /\ k \in Nat /\ k = Len(s) /\ DOMAIN s = 1 .. k
  OBVIOUS
<1>2. PICK r : r = ResultsOf(n, asExpr)
  OBVIOUS
<1>3. r \in [1 .. k -> S]
  BY <1>1, <1>2 DEF ResultsOf, ResultsIn
<1>4. r \in Seq(S) /\ DOMAIN r = 1 .. k /\ Len(r) = k
  BY <1>1, <1>3
<1>5. s = <<>> <=> r = <<>>
  BY <1>1, <1>4
<1>6. \A i \in DOMAIN s : r[i] = AsMql[s[i]][asExpr]
  BY <1>1, <1>2 DEF ResultsOf
<1> QED BY <1>1, <1>2, <1>4, <1>5, <1>6 DEF AreResults

\* The children of a node that a row meets, and what the connector makes of them.
Meeting(n, asExpr, row) == {i \in DOMAIN n.children : Meets(n.children[i], asExpr, row)}

MeetsPlain(n, asExpr, row) ==
  CASE n.connector = "AND" -> Meeting(n, asExpr, row) = DOMAIN n.children
    [] n.connector = "OR" -> Meeting(n, asExpr, row) # {}
    [] n.connector = "XOR" -> /\ Meeting(n, asExpr, row) # {}
                              /\ Cardinality(Meeting(n, TRUE, row)) % 2 = 1

LEMMA NodeSelects ==
  ASSUME NEW h, Fits(h), Fits(h + 3),
         NEW n \in Tree, ~IsLookup(n), h # 0 \/ n.children = <<>>,
         \A i \in DOMAIN n.children : \A e \in BOOLEAN :
           AsMql[n.children[i]][e] \in Results(MqlUpTo[h]),
         NEW asExpr \in BOOLEAN
  PROVE  /\ AsMql[n][asExpr] \in Results(MqlUpTo[h + 3])
         /\ \A row \in Row : Meets(n, asExpr, row) <=>
              IF n.connector # "XOR" /\ n.children = <<>> THEN TRUE
              ELSE IF n.negated THEN ~MeetsPlain(n, asExpr, row)
              ELSE MeetsPlain(n, asExpr, row)
<1>1. PICK results, expressions, connector, negated :
        /\ results = ResultsOf(n, asExpr) /\ expressions = ResultsOf(n, TRUE)
        /\ connector = n.connector /\ negated = n.negated
  OBVIOUS
<1>2. /\ negated \in BOOLEAN /\ connector \in {"AND", "OR", "XOR"}
      /\ n.children \in Seq(Tree)
  BY <1>1, TreeParts
<1>3. ASSUME NEW as \in BOOLEAN, NEW r, r = ResultsOf(n, as)
      PROVE  /\ r \in Seq(Results(MqlUpTo[h]))
             /\ Len(r) = Len(n.children) /\ DOMAIN r = DOMAIN n.children
             /\ n.children = <<>> <=> r = <<>>
             /\ \A i \in DOMAIN n.children : r[i] = AsMql[n.children[i]][as]
  <2>1. ResultsIn(n, as, Results(MqlUpTo[h]))
    BY DEF ResultsIn
  <2>2. AreResults(ResultsOf(n, as), n, as, Results(MqlUpTo[h]))
    BY <1>2, <2>1, ResultsAre
  <2> QED BY <1>3, <2>2 DEF AreResults
<1>4. /\ results \in Seq(Results(MqlUpTo[h]))
      /\ Len(results) = Len(n.children) /\ DOMAIN results = DOMAIN n.children
      /\ n.children = <<>> <=> results = <<>>
      /\ \A i \in DOMAIN n.children : results[i] = AsMql[n.children[i]][asExpr]
      /\ expressions \in Seq(Results(MqlUpTo[h]))
      /\ Len(expressions) = Len(n.children) /\ DOMAIN expressions = DOMAIN n.children
      /\ \A i \in DOMAIN n.children : expressions[i] = AsMql[n.children[i]][TRUE]
  BY <1>1, <1>3
<1>5. ASSUME NEW row
      PROVE  /\ Selecting(results, row) = Meeting(n, asExpr, row)
             /\ Selecting(expressions, row) = Meeting(n, TRUE, row)
  BY <1>4 DEF Selecting, Meeting, Meets
<1>6. Len(results) = Len(expressions) /\ (h # 0 \/ results = <<>>)
  BY <1>4
<1>7. PICK r : r = AsMql[n][asExpr]
  OBVIOUS
<1>8. CASE connector = "XOR"
  <2>1. r = Xor(negated, results, expressions)
    BY <1>1, <1>7, <1>8, AsMqlIs
  <2>2. results \in Seq(Results(MqlUpTo[h])) /\ expressions \in Seq(Results(MqlUpTo[h]))
    BY <1>4
  <2>3. /\ r \in Results(MqlUpTo[h + 3])
        /\ \A row \in Row :
             LET xor == /\ Selecting(results, row) # {}
                        /\ Cardinality(Selecting(expressions, row)) % 2 = 1
             IN Selected(r, row) <=> IF negated THEN ~xor ELSE xor
    BY <1>2, <1>6, <2>1, <2>2, XorSelects
  <2>4. ASSUME NEW row \in Row
        PROVE  Selected(r, row) <=> IF negated THEN ~MeetsPlain(n, asExpr, row)
                                    ELSE MeetsPlain(n, asExpr, row)
    BY <1>1, <1>5, <1>8, <2>3 DEF MeetsPlain
  <2> QED BY <1>1, <1>7, <1>8, <2>3, <2>4 DEF Meets
<1>9. CASE connector # "XOR"
  <2>1. r = Combine(connector, negated, results)
    BY <1>1, <1>7, <1>9, AsMqlIs
  <2>2. connector \in {"AND", "OR"} /\ results \in Seq(Results(MqlUpTo[h]))
    BY <1>2, <1>4, <1>9
  <2>3. Fits(h + 1) /\ Fits(h + 2)
    BY WhereNodeAssumption DEF Fits
  <2>4. /\ r \in Results(MqlUpTo[h + 2])
        /\ results = <<>> => r = Full
        /\ results # <<>> =>
             \A row \in Row :
               LET sum == IF connector = "AND"
                          THEN \A i \in DOMAIN results : Selected(results[i], row)
                          ELSE \E i \in DOMAIN results : Selected(results[i], row)
               IN Selected(r, row) <=> IF negated THEN ~sum ELSE sum
    BY <1>2, <2>1, <2>2, <2>3, CombineSelects
  <2>5. r \in Results(MqlUpTo[h + 3])
    <3>1. PICK i \in Nat : i = h + 2 /\ i + 1 = h + 3
      BY DEF Fits
    <3>2. MqlUpTo[h + 2] \subseteq MqlUpTo[h + 3]
      BY <3>1, MqlGrow DEF Fits
    <3> QED BY <2>4, <3>2 DEF Results
  <2>6. CASE results = <<>>
    <3>1. r = Full /\ n.children = <<>> /\ n.connector # "XOR"
      BY <1>1, <1>4, <1>9, <2>4, <2>6
    <3> QED BY <1>7, <2>5, <3>1, SelectedIs DEF Meets
  <2>7. CASE results # <<>>
    <3>1. ASSUME NEW row \in Row
          PROVE  /\ (\A i \in DOMAIN results : Selected(results[i], row))
                      <=> Meeting(n, asExpr, row) = DOMAIN n.children
                 /\ (\E i \in DOMAIN results : Selected(results[i], row))
                      <=> Meeting(n, asExpr, row) # {}
      BY <1>4 DEF Meeting, Meets
    <3>2. ASSUME NEW row \in Row
          PROVE  Selected(r, row) <=> IF negated THEN ~MeetsPlain(n, asExpr, row)
                                      ELSE MeetsPlain(n, asExpr, row)
      <4>1. CASE connector = "AND"
        BY <1>1, <2>4, <2>7, <3>1, <4>1 DEF MeetsPlain
      <4>2. CASE connector = "OR"
        BY <1>1, <2>4, <2>7, <3>1, <4>2 DEF MeetsPlain
      <4> QED BY <2>2, <4>1, <4>2
    <3> QED BY <1>1, <1>4, <1>7, <2>5, <2>7, <3>2 DEF Meets
  <2> QED BY <2>6, <2>7
<1> QED BY <1>8, <1>9

\* as_mql() returns MQL of at most three levels for each of the tree.
LEMMA AsMqlTyped ==
  ASSUME NEW h \in Nat, h <= Height + 1, NEW n \in TreesUpTo[h], NEW asExpr \in BOOLEAN
  PROVE  AsMql[n][asExpr] \in Results(MqlUpTo[3 * h])
<1> DEFINE Typed(k) == \A t \in TreesUpTo[k] : \A as \in BOOLEAN :
                         AsMql[t][as] \in Results(MqlUpTo[3 * k])
           Good == {k \in Nat : k <= Height + 1 => Typed(k)}
<1>1. 0 \in Good
  BY TreesZero
<1>2. ASSUME NEW k \in Nat, k \in Good PROVE k + 1 \in Good
  <2> SUFFICES ASSUME k + 1 <= Height + 1, NEW t \in TreesUpTo[k + 1], NEW as \in BOOLEAN
               PROVE  AsMql[t][as] \in Results(MqlUpTo[3 * (k + 1)])
    OBVIOUS
  <2>1. Typed(k)
    <3> HIDE DEF Typed
    <3> QED BY <1>2, WhereNodeAssumption
  <2>2. PICK j \in Nat : j = 3 * k
    OBVIOUS
  <2>3. Fits(j) /\ Fits(j + 3) /\ j + 3 = 3 * (k + 1) /\ j + 3 # 0
    BY <2>2, WhereNodeAssumption DEF Fits
  <2>4. t \in Tree
    <3>1. PICK i \in Nat, m \in Nat : i = k + 1 /\ m = Height + 1
      BY WhereNodeAssumption
    <3> QED BY <3>1, TreesWithin DEF Tree
  <2>5. TreesUpTo[k + 1] = Lookups \cup Nodes(TreesUpTo[k])
    BY TreesNext
  <2>6. CASE t \in Lookups
    <3>1. AsMql[t][as] = LookupMql(t, as)
      BY <2>4, <2>6, AsMqlIs, LookupParts
    <3> QED BY <2>3, <2>6, <3>1, LookupMqlSelects
  <2>7. CASE t \in Nodes(TreesUpTo[k])
    <3>1. /\ ~IsLookup(t) /\ t.children \in Seq(Tree)
          /\ \A i \in DOMAIN t.children : t.children[i] \in TreesUpTo[k]
      BY <2>4, <2>7, NodeParts, TreeParts
    <3>2. \A i \in DOMAIN t.children : \A e \in BOOLEAN :
            AsMql[t.children[i]][e] \in Results(MqlUpTo[j])
      BY <2>1, <2>2, <3>1
    <3>3. j # 0 \/ t.children = <<>>
      BY <2>2, <3>1, TreesZero
    <3> HIDE DEF Good
    <3>4. AsMql[t][as] \in Results(MqlUpTo[j + 3])
      BY <2>3, <2>4, <3>1, <3>2, <3>3, NodeSelects
    <3> QED BY <2>3, <3>4
  <2> QED BY <2>5, <2>6, <2>7
<1> HIDE DEF Good
<1>3. h \in Good
  BY <1>1, <1>2, Upwards
<1> QED BY <1>3 DEF Good

\* The rows that a condition selects, without its MQL.
LEMMA LookupMeets ==
  ASSUME NEW n \in Tree, IsLookup(n), NEW asExpr \in BOOLEAN, NEW row \in Row
  PROVE  Meets(n, asExpr, row)
           <=> IF CanUsePath(n) /\ ~asExpr THEN PathHolds(n, row) ELSE ExprHolds(n, row)
<1>1. AsMql[n][asExpr] = LookupMql(n, asExpr)
  BY AsMqlIs
<1>2. PICK h : h = 3 * (Height + 1) /\ Fits(h) /\ h # 0
  BY WhereNodeAssumption DEF Fits
<1> QED BY <1>1, <1>2, LookupMqlSelects, TreeParts DEF Meets

LEMMA NodeMeets ==
  ASSUME NEW n \in Tree, ~IsLookup(n), NEW asExpr \in BOOLEAN, NEW row \in Row
  PROVE  Meets(n, asExpr, row) <=>
           IF n.connector # "XOR" /\ n.children = <<>> THEN TRUE
           ELSE IF n.negated THEN ~MeetsPlain(n, asExpr, row) ELSE MeetsPlain(n, asExpr, row)
<1>1. PICK h, j : /\ h \in Nat /\ h = Height
                  /\ j \in Nat /\ j = 3 * h /\ Fits(j) /\ Fits(j + 3)
  BY WhereNodeAssumption DEF Fits
<1>2. \A i \in DOMAIN n.children : n.children[i] \in TreesUpTo[h]
  <2>1. Tree = Lookups \cup Nodes(TreesUpTo[h])
    BY <1>1, TreesNext DEF Tree
  <2>2. n \in Nodes(TreesUpTo[h])
    BY <2>1, LookupParts
  <2> QED BY <2>2, NodeParts
<1>3. \A i \in DOMAIN n.children : \A e \in BOOLEAN :
        AsMql[n.children[i]][e] \in Results(MqlUpTo[j])
  <2>1. h <= Height + 1
    BY <1>1
  <2> QED BY <1>1, <1>2, <2>1, AsMqlTyped
<1>4. j # 0 \/ n.children = <<>>
  <2> SUFFICES ASSUME j = 0 PROVE n.children = <<>>
    OBVIOUS
  <2>1. PICK s : s = n.children /\ s \in Seq(Tree)
    BY TreeParts
  <2>2. h = 0
    BY <1>1
  <2>3. DOMAIN s = {}
    BY <1>2, <2>1, <2>2, TreesZero
  <2>4. DOMAIN s = 1 .. Len(s) /\ Len(s) \in Nat
    BY <2>1
  <2>5. Len(s) = 0
    <3> SUFFICES ASSUME Len(s) # 0 PROVE FALSE
      OBVIOUS
    <3>1. 1 \in 1 .. Len(s)
      BY <2>4
    <3> QED BY <2>3, <2>4, <3>1
  <2>6. s = <<>>
    BY <2>1, <2>5
  <2> QED BY <2>1, <2>6
<1>5. Fits(j) /\ Fits(j + 3)
  BY <1>1
<1> QED BY <1>3, <1>4, <1>5, NodeSelects

LEMMA LookupsInIs ==
  ASSUME NEW n \in Tree
  PROVE  /\ IsLookup(n) => LookupsIn[n] = {n}
         /\ ~IsLookup(n) => \A i \in DOMAIN n.children : LookupsIn[n.children[i]] \subseteq LookupsIn[n]
<1>1. LookupsIn[n] = LookupsInStep(LookupsIn, n)
  BY LookupsInDef
<1> QED BY <1>1 DEF LookupsInStep

-----------------------------------------------------------------------------
(* The two forms of a condition.                                           *)

LEMMA LookupFormsAgree ==
  ASSUME NEW l \in Lookups, HasConstants(l), ~OpenStart(l), CanUsePath(l), NEW row \in Row
  PROVE  PathHolds(l, row) <=> ExprHolds(l, row)
<1>1. PICK v, a, b : v = ValueOf(row, l.lhs) /\ v \in Int /\ v >= Missing
                     /\ a = l.args[1] /\ b = l.args[2]
  BY LookupParts, ValueIs
<1>2. /\ l.lookup \in LookupName /\ l.args \in Seq(Int)
      /\ l.lookup \in Comparison => Len(l.args) <= 1
      /\ l.lookup \in {"isnull", "filled"} => Len(l.args) = 1
      /\ l.lookup = "range" => Len(l.args) = 2
  BY LookupParts
<1>3. CASE l.lookup \in Comparison
  <2>1. ~ComparesColumns(l) /\ l.args # <<>>
    BY <1>3 DEF CanUsePath, ComparesColumns
  <2>2. a \in Int /\ a >= 0
    <3>1. 1 \in DOMAIN l.args
      BY <1>2, <2>1
    <3>2. l.lookup \notin {"isnull", "range"}
      BY <1>3 DEF Comparison
    <3>3. \A i \in DOMAIN l.args : l.args[i] >= 0
      BY <3>2 DEF HasConstants
    <3> QED BY <1>1, <1>2, <3>1, <3>3
  <2>3. CASE l.lookup = "exact"
    BY <1>1, <2>1, <2>2, <2>3 DEF PathHolds, ExprHolds, LtExpr, IsNull, Missing, Null
  <2>4. CASE l.lookup = "gt"
    BY <1>1, <2>1, <2>2, <2>4 DEF PathHolds, ExprHolds, LtExpr, IsNull, Missing, Null
  <2>5. CASE l.lookup = "gte"
    BY <1>1, <2>1, <2>2, <2>5 DEF PathHolds, ExprHolds, LtExpr, IsNull, Missing, Null
  <2>6. CASE l.lookup = "lt"
    BY <1>1, <2>1, <2>2, <2>6 DEF PathHolds, ExprHolds, LtExpr, IsNull, Missing, Null
  <2>7. CASE l.lookup = "lte"
    BY <1>1, <2>1, <2>2, <2>7 DEF PathHolds, ExprHolds, LtExpr, IsNull, Missing, Null
  <2> QED BY <1>3, <2>3, <2>4, <2>5, <2>6, <2>7 DEF Comparison
<1>4. CASE l.lookup \in {"isnull", "in"}
  BY <1>1, <1>4 DEF PathHolds, ExprHolds, ComparesColumns, Comparison
<1>5. CASE l.lookup = "range"
  <2>1. a \in Int /\ b \in Int /\ (a = Null \/ a >= 0) /\ (b = Null \/ b >= 0)
    <3>1. 1 \in DOMAIN l.args /\ 2 \in DOMAIN l.args
      BY <1>2, <1>5
    <3>2. \A i \in DOMAIN l.args : l.args[i] = Null \/ l.args[i] >= 0
      BY <1>5 DEF HasConstants
    <3> QED BY <1>1, <1>2, <3>1, <3>2
  <2>2. a = Null => b = Null
    BY <1>1, <1>5 DEF OpenStart
  <2>3. PathHolds(l, row) <=> /\ a # Null => ~IsNull(v) /\ v >= a
                              /\ b # Null => ~IsNull(v) /\ v <= b
    BY <1>1, <1>5 DEF PathHolds
  <2>4. ExprHolds(l, row) <=> /\ a # Null => v >= a
                              /\ b # Null => v <= b
    BY <1>1, <1>5 DEF ExprHolds
  <2> QED BY <1>1, <2>1, <2>2, <2>3, <2>4 DEF IsNull, Missing, Null
<1> QED BY <1>2, <1>3, <1>4, <1>5 DEF LookupName, CanUsePath, OnColumn

\* A condition selects the same as a path and as an expression.
LEMMA FormsMeet ==
  ASSUME NEW n \in Tree, \A l \in LookupsIn[n] : HasConstants(l) /\ ~OpenStart(l),
         NEW row \in Row
  PROVE  Meets(n, FALSE, row) <=> Meets(n, TRUE, row)
<1> DEFINE Plain(t) == \A l \in LookupsIn[t] : HasConstants(l) /\ ~OpenStart(l)
           Agrees(t) == Meets(t, FALSE, row) <=> Meets(t, TRUE, row)
           S == {t \in Tree : Plain(t) => Agrees(t)}
<1>1. ASSUME NEW t \in Tree, IsLookup(t) PROVE t \in S
  <2> SUFFICES ASSUME Plain(t) PROVE Agrees(t)
    OBVIOUS
  <2>1. t \in Lookups /\ HasConstants(t) /\ ~OpenStart(t)
    BY <1>1, TreeParts, LookupsInIs
  <2>2. Meets(t, TRUE, row) <=> ExprHolds(t, row)
    BY <1>1, LookupMeets
  <2>3. Meets(t, FALSE, row) <=> IF CanUsePath(t) THEN PathHolds(t, row) ELSE ExprHolds(t, row)
    BY <1>1, LookupMeets
  <2> QED BY <2>1, <2>2, <2>3, LookupFormsAgree
<1>2. ASSUME NEW t \in Tree, ~IsLookup(t), \A i \in DOMAIN t.children : t.children[i] \in S
      PROVE  t \in S
  <2> SUFFICES ASSUME Plain(t) PROVE Agrees(t)
    OBVIOUS
  <2>1. \A i \in DOMAIN t.children : Agrees(t.children[i])
    <3>1. \A i \in DOMAIN t.children : Plain(t.children[i])
      BY <1>2, LookupsInIs
    <3> HIDE DEF Plain, Agrees
    <3> QED BY <1>2, <3>1
  <2>2. Meeting(t, FALSE, row) = Meeting(t, TRUE, row)
    BY <2>1 DEF Meeting
  <2>3. MeetsPlain(t, FALSE, row) <=> MeetsPlain(t, TRUE, row)
    BY <2>2 DEF MeetsPlain
  <2>4. /\ Meets(t, FALSE, row) <=>
             IF t.connector # "XOR" /\ t.children = <<>> THEN TRUE
             ELSE IF t.negated THEN ~MeetsPlain(t, FALSE, row) ELSE MeetsPlain(t, FALSE, row)
        /\ Meets(t, TRUE, row) <=>
             IF t.connector # "XOR" /\ t.children = <<>> THEN TRUE
             ELSE IF t.negated THEN ~MeetsPlain(t, TRUE, row) ELSE MeetsPlain(t, TRUE, row)
    BY <1>2, NodeMeets
  <2> QED BY <2>3, <2>4
<1> HIDE DEF S
<1>3. n \in S
  BY <1>1, <1>2, TreeInduction
<1> QED BY <1>3 DEF S

-----------------------------------------------------------------------------
(* Conditions in SQL.                                                      *)

\* Whether a lookup compares with a value: null = null is true in MQL, and so is
\* 1 > null.
ComparesNumbers(l, row) ==
  ComparesColumns(l) /\ l.lookup \in {"exact", "gt", "gte"} =>
    \/ ~IsNull(ValueOf(row, l.column))
    \/ l.lookup = "exact" /\ ~IsNull(ValueOf(row, l.lhs))

\* What SQL makes of a lookup.
LookupMeans(l, row) ==
  /\ SqlLookup(l, row) \in {"T", "F", "U"}
  /\ SqlLookup(l, row) = "T" <=> IF CanUsePath(l) THEN PathHolds(l, row) ELSE ExprHolds(l, row)
  /\ SqlLookup(l, row) = "U" => /\ ~NeverUnknown(l)
                                /\ \E column \in Compared(l) : IsNull(ValueOf(row, column))

LEMMA ConstantIs ==
  ASSUME NEW l \in Lookups, HasConstants(l), ~ComparesColumns(l),
         l.lookup \in Comparison \cup {"filled"}
  PROVE  l.args[1] \in Int /\ l.args[1] >= 0
<1>1. /\ l.args \in Seq(Int)
      /\ l.lookup \in Comparison => Len(l.args) <= 1
      /\ l.lookup \in {"isnull", "filled"} => Len(l.args) = 1
  BY LookupParts
<1>2. 1 \in DOMAIN l.args
  BY <1>1 DEF ComparesColumns
<1>3. l.lookup \notin {"isnull", "range"}
  BY DEF Comparison
<1> QED BY <1>1, <1>2, <1>3 DEF HasConstants

LEMMA ComparisonMeans ==
  ASSUME NEW l \in Lookups, l.lookup \in Comparison, HasConstants(l),
         NEW row \in Row, ComparesNumbers(l, row)
  PROVE  LookupMeans(l, row)
<1>1. PICK v \in Int : v = ValueOf(row, l.lhs) /\ v >= Missing
  BY LookupParts, ValueIs
<1>2. PICK w \in Int : /\ w = IF ComparesColumns(l) THEN ValueOf(row, l.column) ELSE l.args[1]
                       /\ w >= Missing
  <2>1. CASE ComparesColumns(l)
    BY <2>1, LookupParts, ValueIs
  <2>2. CASE ~ComparesColumns(l)
    BY <2>2, ConstantIs DEF Missing
  <2> QED BY <2>1, <2>2
<1>3. /\ ~ComparesColumns(l) => w >= 0 /\ w = l.args[1]
      /\ CanUsePath(l) <=> ~ComparesColumns(l)
      /\ IsNull(w) => ComparesColumns(l)
  BY <1>2, ConstantIs DEF CanUsePath, OnColumn, Comparison, IsNull, Missing, Null
<1>4. l.lookup \in {"exact", "gt", "gte"} /\ IsNull(w) => l.lookup = "exact" /\ ~IsNull(v)
  BY <1>1, <1>2, <1>3 DEF ComparesNumbers
<1>5. /\ l.lhs \in Compared(l)
      /\ ComparesColumns(l) => l.column \in Compared(l)
      /\ ~NeverUnknown(l)
  BY DEF Compared, NeverUnknown, Comparison
<1>6. IsNull(v) \/ IsNull(w) => \E column \in Compared(l) : IsNull(ValueOf(row, column))
  BY <1>1, <1>2, <1>3, <1>5
<1> DEFINE compared(p) == IF IsNull(v) \/ IsNull(w) THEN "U" ELSE IF p THEN "T" ELSE "F"
           MeansThat(p) == /\ SqlLookup(l, row) = compared(p)
                           /\ IF CanUsePath(l) THEN PathHolds(l, row) <=> p /\ ~IsNull(v)
                              ELSE ExprHolds(l, row) <=> p /\ ~IsNull(v) /\ ~IsNull(w)
<1>7. ASSUME NEW p \in BOOLEAN, MeansThat(p) PROVE LookupMeans(l, row)
  BY <1>3, <1>5, <1>6, <1>7 DEF LookupMeans
<1> HIDE DEF compared
<1>8. CASE l.lookup = "exact"
  <2>1. PICK p \in BOOLEAN : p <=> v = w
    OBVIOUS
  <2>2. SqlLookup(l, row) = compared(p)
    BY <2>1, <1>1, <1>2, <1>8 DEF SqlLookup, Truth, compared
  <2>3. CanUsePath(l) => (PathHolds(l, row) <=> p /\ ~IsNull(v))
    BY <2>1, <1>1, <1>2, <1>3, <1>8 DEF PathHolds, IsNull, Missing, Null
  <2>4. ~CanUsePath(l) => (ExprHolds(l, row) <=> p /\ ~IsNull(v) /\ ~IsNull(w))
    BY <2>1, <1>1, <1>2, <1>3, <1>4, <1>8 DEF ExprHolds
  <2>5. MeansThat(p)
    BY <2>2, <2>3, <2>4
  <2> QED BY <1>7, <2>5
<1>9. CASE l.lookup = "gt"
  <2>1. PICK p \in BOOLEAN : p <=> v > w
    OBVIOUS
  <2>2. SqlLookup(l, row) = compared(p)
    BY <2>1, <1>1, <1>2, <1>9 DEF SqlLookup, Truth, compared
  <2>3. CanUsePath(l) => (PathHolds(l, row) <=> p /\ ~IsNull(v))
    BY <2>1, <1>1, <1>2, <1>3, <1>9 DEF PathHolds
  <2>4. ~CanUsePath(l) => (ExprHolds(l, row) <=> p /\ ~IsNull(v) /\ ~IsNull(w))
    BY <2>1, <1>1, <1>2, <1>3, <1>4, <1>9 DEF ExprHolds, IsNull, Missing, Null
  <2>5. MeansThat(p)
    BY <2>2, <2>3, <2>4
  <2> QED BY <1>7, <2>5
<1>10. CASE l.lookup = "gte"
  <2>1. PICK p \in BOOLEAN : p <=> v >= w
    OBVIOUS
  <2>2. SqlLookup(l, row) = compared(p)
    BY <2>1, <1>1, <1>2, <1>10 DEF SqlLookup, Truth, compared
  <2>3. CanUsePath(l) => (PathHolds(l, row) <=> p /\ ~IsNull(v))
    BY <2>1, <1>1, <1>2, <1>3, <1>10 DEF PathHolds
  <2>4. ~CanUsePath(l) => (ExprHolds(l, row) <=> p /\ ~IsNull(v) /\ ~IsNull(w))
    BY <2>1, <1>1, <1>2, <1>3, <1>4, <1>10 DEF ExprHolds, IsNull, Missing, Null
  <2>5. MeansThat(p)
    BY <2>2, <2>3, <2>4
  <2> QED BY <1>7, <2>5
<1>11. CASE l.lookup = "lt"
  <2>1. PICK p \in BOOLEAN : p <=> v < w
    OBVIOUS
  <2>2. SqlLookup(l, row) = compared(p)
    BY <2>1, <1>1, <1>2, <1>11 DEF SqlLookup, Truth, compared
  <2>3. CanUsePath(l) => (PathHolds(l, row) <=> p /\ ~IsNull(v))
    BY <2>1, <1>1, <1>2, <1>3, <1>11 DEF PathHolds
  <2>4. ~CanUsePath(l) => (ExprHolds(l, row) <=> p /\ ~IsNull(v) /\ ~IsNull(w))
    BY <2>1, <1>1, <1>2, <1>3, <1>11 DEF ExprHolds, LtExpr, IsNull, Missing, Null
  <2>5. MeansThat(p)
    BY <2>2, <2>3, <2>4
  <2> QED BY <1>7, <2>5
<1>12. CASE l.lookup = "lte"
  <2>1. PICK p \in BOOLEAN : p <=> v <= w
    OBVIOUS
  <2>2. SqlLookup(l, row) = compared(p)
    BY <2>1, <1>1, <1>2, <1>12 DEF SqlLookup, Truth, compared
  <2>3. CanUsePath(l) => (PathHolds(l, row) <=> p /\ ~IsNull(v))
    BY <2>1, <1>1, <1>2, <1>3, <1>12 DEF PathHolds
  <2>4. ~CanUsePath(l) => (ExprHolds(l, row) <=> p /\ ~IsNull(v) /\ ~IsNull(w))
    BY <2>1, <1>1, <1>2, <1>3, <1>12 DEF ExprHolds, IsNull, Missing, Null
  <2>5. MeansThat(p)
    BY <2>2, <2>3, <2>4
  <2> QED BY <1>7, <2>5
<1> QED BY <1>8, <1>9, <1>10, <1>11, <1>12 DEF Comparison

LEMMA RangeMeans ==
  ASSUME NEW l \in Lookups, l.lookup = "range", HasConstants(l), NEW row \in Row
  PROVE  LookupMeans(l, row)
<1>1. PICK v \in Int : v = ValueOf(row, l.lhs) /\ v >= Missing
  BY LookupParts, ValueIs
<1>2. PICK a \in Int, b \in Int : /\ a = l.args[1] /\ b = l.args[2]
                                  /\ a = Null \/ a >= 0
                                  /\ b = Null \/ b >= 0
  <2>1. l.args \in Seq(Int) /\ Len(l.args) = 2
    BY LookupParts
  <2>2. 1 \in DOMAIN l.args /\ 2 \in DOMAIN l.args /\ l.args[1] \in Int /\ l.args[2] \in Int
    <3>1. PICK s \in Seq(Int) : s = l.args /\ Len(s) = 2
      BY <2>1
    <3>2. DOMAIN s = 1 .. 2
      BY <3>1
    <3>3. 1 \in DOMAIN s /\ 2 \in DOMAIN s
      BY <3>2
    <3>4. s[1] \in Int /\ s[2] \in Int
      BY <3>3
    <3> QED BY <3>1, <3>3, <3>4
  <2>3. \A i \in DOMAIN l.args : l.args[i] = Null \/ l.args[i] >= 0
    BY DEF HasConstants
  <2>4. l.args[1] = Null \/ l.args[1] >= 0
    BY <2>2, <2>3
  <2>5. l.args[2] = Null \/ l.args[2] >= 0
    BY <2>2, <2>3
  <2> QED BY <2>2, <2>4, <2>5
<1>3. CanUsePath(l) /\ ~NeverUnknown(l) /\ l.lhs \in Compared(l)
  BY DEF CanUsePath, OnColumn, ComparesColumns, Comparison, NeverUnknown, Compared
<1> DEFINE bounded(bound, p) == IF bound = Null THEN "T" ELSE IF IsNull(v) THEN "U" ELSE Truth(p)
<1>4. PICK s, t : s = bounded(a, v >= a) /\ t = bounded(b, v <= b)
  OBVIOUS
<1>5. SqlLookup(l, row) = And({s, t})
  BY <1>1, <1>2, <1>4 DEF SqlLookup
<1>6. PathHolds(l, row) <=> /\ a # Null => ~IsNull(v) /\ v >= a
                            /\ b # Null => ~IsNull(v) /\ v <= b
  BY <1>1, <1>2 DEF PathHolds
<1>7. /\ s \in {"T", "F", "U"} /\ t \in {"T", "F", "U"}
      /\ s = "T" <=> a = Null \/ (~IsNull(v) /\ v >= a)
      /\ t = "T" <=> b = Null \/ (~IsNull(v) /\ v <= b)
      /\ s = "U" \/ t = "U" => IsNull(v)
  BY <1>4 DEF Truth
<1>8. /\ And({s, t}) \in {"T", "F", "U"}
      /\ And({s, t}) = "T" <=> s = "T" /\ t = "T"
      /\ And({s, t}) = "U" => s = "U" \/ t = "U"
  BY <1>7 DEF And
<1> QED BY <1>1, <1>3, <1>5, <1>6, <1>7, <1>8 DEF LookupMeans

LEMMA LookupsMean ==
  ASSUME NEW l \in Lookups, HasConstants(l), NEW row \in Row, ComparesNumbers(l, row)
  PROVE  LookupMeans(l, row)
<1>1. PICK v \in Int : v = ValueOf(row, l.lhs) /\ v >= Missing
  BY LookupParts, ValueIs
<1>2. CASE l.lookup = "isnull"
  BY <1>1, <1>2 DEF LookupMeans, SqlLookup, PathHolds, CanUsePath, OnColumn, ComparesColumns,
                    Comparison, Truth
<1>3. CASE l.lookup = "in"
  <2>1. CanUsePath(l) /\ ~NeverUnknown(l) /\ l.lhs \in Compared(l)
    BY <1>3 DEF CanUsePath, OnColumn, ComparesColumns, Comparison, NeverUnknown, Compared
  <2>2. PathHolds(l, row) <=> v \in Range(l.args)
    BY <1>1, <1>3 DEF PathHolds
  <2>3. SqlLookup(l, row) = IF l.args = <<>> THEN "F"
                            ELSE IF IsNull(v) THEN "U" ELSE Truth(v \in Range(l.args))
    BY <1>1, <1>3 DEF SqlLookup
  <2>4. v \in Range(l.args) => ~IsNull(v) /\ l.args # <<>>
    BY <1>1, <1>3 DEF HasConstants, IsNull, Missing, Null, Range
  <2> QED BY <1>1, <2>1, <2>2, <2>3, <2>4 DEF LookupMeans, Truth
<1>4. CASE l.lookup = "filled"
  <2>1. ~CanUsePath(l) /\ ~ComparesColumns(l)
    BY <1>4 DEF CanUsePath, OnColumn, ComparesColumns, Comparison
  <2> QED BY <1>1, <1>4, <2>1 DEF LookupMeans, SqlLookup, ExprHolds, Truth
<1> QED BY <1>2, <1>3, <1>4, ComparisonMeans, RangeMeans, LookupParts DEF LookupName

LEMMA SqlIs ==
  ASSUME NEW n \in Tree, NEW row \in Row
  PROVE  /\ IsLookup(n) => Sql[n][row] = SqlLookup(n, row)
         /\ ~IsLookup(n) =>
              Sql[n][row] = SqlNode(n, {Sql[n.children[i]][row] : i \in DOMAIN n.children},
                                       {i \in DOMAIN n.children : Sql[n.children[i]][row] = "T"})
<1>1. Sql[n] = SqlStep(Sql, n)
  BY SqlDef
<1> QED BY <1>1 DEF SqlStep

LEMMA ThreeValues ==
  /\ \A a : And(a) = "T" <=> "F" \notin a /\ "U" \notin a
  /\ \A a : And(a) = "F" <=> "F" \in a
  /\ \A a : Or(a) = "T" <=> "T" \in a
  /\ \A a : Or(a) = "F" <=> "T" \notin a /\ "U" \notin a
  /\ \A a : And(a) \in {"T", "F", "U"} /\ Or(a) \in {"T", "F", "U"}
  /\ \A a \in {"T", "F", "U"} : /\ Not(a) \in {"T", "F", "U"}
                                /\ Not(a) = "T" <=> a = "F"
                                /\ Not(a) = "F" <=> a = "T"
BY DEF And, Or, Not

\* What a node makes of its children.
SqlPlain(n, row) ==
  LET values == {Sql[n.children[i]][row] : i \in DOMAIN n.children}
      true == {i \in DOMAIN n.children : Sql[n.children[i]][row] = "T"}
  IN CASE n.connector = "AND" -> And(values)
       [] n.connector = "OR" -> Or(values)
       [] n.connector = "XOR" -> Truth(Cardinality(true) % 2 = 1)

LEMMA SqlOfNode ==
  ASSUME NEW n \in Tree, ~IsLookup(n), NEW row \in Row
  PROVE  /\ Sql[n][row] = IF n.negated THEN Not(SqlPlain(n, row)) ELSE SqlPlain(n, row)
         /\ SqlPlain(n, row) \in {"T", "F", "U"}
         /\ Sql[n][row] \in {"T", "F", "U"}
<1>1. Sql[n][row] = IF n.negated THEN Not(SqlPlain(n, row)) ELSE SqlPlain(n, row)
  BY SqlIs DEF SqlNode, SqlPlain
<1>2. n.connector \in {"AND", "OR", "XOR"}
  BY TreeParts
<1>3. SqlPlain(n, row) \in {"T", "F", "U"}
  BY <1>2, ThreeValues DEF SqlPlain, Truth
<1> QED BY <1>1, <1>3, ThreeValues

LEMMA NullsHiddenIs ==
  ASSUME NEW n \in Tree, NEW odd \in NullsHidden[n]
  PROVE  /\ odd \in BOOLEAN
         /\ IsLookup(n) => (odd => NeverUnknown(n))
         /\ ~IsLookup(n) =>
              \/ Guarded(n)
              \/ /\ n.connector = "XOR"
                 /\ \A i \in DOMAIN n.children : FALSE \in NullsHidden[n.children[i]]
                 /\ \A l \in LookupsIn[n] : ~OpenStart(l)
              \/ /\ n.connector # "XOR"
                 /\ n.children # <<>>
                 /\ \A i \in DOMAIN n.children : (odd # n.negated) \in NullsHidden[n.children[i]]
<1>1. NullsHidden[n] = NullsHiddenStep(NullsHidden, n)
  BY NullsHiddenDef
<1> QED BY <1>1 DEF NullsHiddenStep

\* A lookup is UNKNOWN only where IS NOT NULL next to it is false.
LEMMA GuardedMeets ==
  ASSUME NEW n \in Tree, ~IsLookup(n), Guarded(n), NEW row \in Row,
         \A l \in LookupsIn[n] : HasConstants(l) /\ ComparesNumbers(l, row)
  PROVE  /\ Meets(n, FALSE, row) <=> Sql[n][row] = "T"
         /\ Sql[n][row] # "U"
<1> DEFINE values == {Sql[n.children[i]][row] : i \in DOMAIN n.children}
<1>1. /\ n.connector = "AND" /\ ~n.negated /\ n.children \in Seq(Tree)
      /\ \A i \in DOMAIN n.children : IsLookup(n.children[i])
  BY TreeParts DEF Guarded
<1>2. Sql[n][row] = And(values)
  BY <1>1, SqlOfNode DEF SqlPlain
<1>3. ASSUME NEW i \in DOMAIN n.children
      PROVE  /\ n.children[i] \in Lookups /\ n.children[i] \in Tree
             /\ LookupMeans(n.children[i], row)
             /\ Sql[n.children[i]][row] = SqlLookup(n.children[i], row)
             /\ Meets(n.children[i], FALSE, row) <=> Sql[n.children[i]][row] = "T"
  <2>1. PICK l : l = n.children[i] /\ IsLookup(l) /\ l \in Tree /\ l \in Lookups
    BY <1>1, TreeParts
  <2>2. l \in LookupsIn[n]
    BY <2>1, LookupsInIs
  <2>3. LookupMeans(l, row)
    BY <2>1, <2>2, LookupsMean
  <2>4. Sql[l][row] = SqlLookup(l, row)
    BY <2>1, SqlIs
  <2>5. Meets(l, FALSE, row) <=> IF CanUsePath(l) THEN PathHolds(l, row) ELSE ExprHolds(l, row)
    BY <2>1, LookupMeets
  <2> QED BY <2>1, <2>3, <2>4, <2>5 DEF LookupMeans
<1>4. "U" \in values => "F" \in values
  <2> SUFFICES ASSUME NEW i \in DOMAIN n.children, Sql[n.children[i]][row] = "U"
               PROVE  \E k \in DOMAIN n.children : Sql[n.children[k]][row] = "F"
    OBVIOUS
  <2>1. PICK column \in Compared(n.children[i]) :
          ~NeverUnknown(n.children[i]) /\ IsNull(ValueOf(row, column))
    BY <1>3 DEF LookupMeans
  <2>2. PICK k \in DOMAIN n.children : IsNotNull(n.children[k], column)
    BY <2>1 DEF Guarded
  <2>3. SqlLookup(n.children[k], row) = "F"
    <3>1. PICK l : l = n.children[k] /\ l.lookup = "isnull" /\ l.args = <<0>> /\ l.lhs = column
      BY <2>2 DEF IsNotNull
    <3>2. l.args[1] = 0 /\ ~ComparesColumns(l)
      BY <3>1 DEF ComparesColumns, Comparison
    <3>3. SqlLookup(l, row) = Truth(IsNull(ValueOf(row, column)) = (0 = 1))
      BY <3>1, <3>2 DEF SqlLookup
    <3> QED BY <2>1, <3>1, <3>3 DEF Truth, IsNull
  <2> QED BY <1>3, <2>3
<1>5. Sql[n][row] # "U"
  BY <1>2, <1>4 DEF And
<1>6. Meeting(n, FALSE, row) = DOMAIN n.children <=> \A i \in DOMAIN n.children :
                                                    Sql[n.children[i]][row] = "T"
  BY <1>3 DEF Meeting
<1>7. (\A i \in DOMAIN n.children : Sql[n.children[i]][row] = "T") <=> And(values) = "T"
  <2>1. \A i \in DOMAIN n.children : Sql[n.children[i]][row] \in {"T", "F", "U"}
    BY <1>3 DEF LookupMeans
  <2>2. (\A i \in DOMAIN n.children : Sql[n.children[i]][row] = "T")
          <=> "F" \notin values /\ "U" \notin values
    BY <2>1
  <2> QED BY <2>2, ThreeValues
<1>8. Meets(n, FALSE, row) <=> \A i \in DOMAIN n.children : Sql[n.children[i]][row] = "T"
  <2>1. Meets(n, FALSE, row) <=>
          IF n.children = <<>> THEN TRUE ELSE Meeting(n, FALSE, row) = DOMAIN n.children
    BY <1>1, NodeMeets DEF MeetsPlain
  <2>2. CASE n.children = <<>>
    <3>1. Meets(n, FALSE, row)
      BY <2>1, <2>2
    <3>2. DOMAIN n.children = {}
      BY <2>2
    <3> QED BY <3>1, <3>2
  <2>3. CASE n.children # <<>>
    <3>1. Meets(n, FALSE, row) <=> Meeting(n, FALSE, row) = DOMAIN n.children
      BY <2>1, <2>3
    <3> QED BY <1>6, <3>1
  <2> QED BY <2>2, <2>3
<1> QED BY <1>2, <1>5, <1>7, <1>8

\* What is not negated is compared with TRUE, what is negated with FALSE.
Hides(n, odd, row) == Meets(n, FALSE, row) <=> IF odd THEN Sql[n][row] # "F" ELSE Sql[n][row] = "T"

MeansTheSame(n, row) ==
  /\ Sql[n][row] \in {"T", "F", "U"}
  /\ \A odd \in NullsHidden[n] : Hides(n, odd, row)

LEMMA LookupMeansTheSame ==
  ASSUME NEW n \in Tree, IsLookup(n), NEW row \in Row, HasConstants(n), ComparesNumbers(n, row)
  PROVE  MeansTheSame(n, row)
<1>1. LookupMeans(n, row) /\ Sql[n][row] = SqlLookup(n, row)
  BY LookupsMean, TreeParts, SqlIs
<1>2. Meets(n, FALSE, row) <=> IF CanUsePath(n) THEN PathHolds(n, row) ELSE ExprHolds(n, row)
  BY LookupMeets
<1>3. Meets(n, FALSE, row) <=> Sql[n][row] = "T"
  BY <1>1, <1>2 DEF LookupMeans
<1>4. ASSUME NEW odd \in NullsHidden[n] PROVE Hides(n, odd, row)
  <2>1. odd \in BOOLEAN /\ (odd => NeverUnknown(n))
    BY NullsHiddenIs
  <2>2. CASE odd
    <3>1. Sql[n][row] # "U"
      BY <1>1, <2>1, <2>2 DEF LookupMeans
    <3>2. Sql[n][row] # "F" <=> Sql[n][row] = "T"
      BY <1>1, <3>1 DEF LookupMeans
    <3> QED BY <1>3, <2>2, <3>2 DEF Hides
  <2>3. CASE ~odd
    BY <1>3, <2>3 DEF Hides
  <2> QED BY <2>1, <2>2, <2>3
<1> QED BY <1>1, <1>4 DEF MeansTheSame, LookupMeans

\* A XOR of conditions that are compared with TRUE is never UNKNOWN.
LEMMA XorMeansTheSame ==
  ASSUME NEW n \in Tree, ~IsLookup(n), n.connector = "XOR", NEW row \in Row,
         \A i \in DOMAIN n.children : Hides(n.children[i], FALSE, row),
         \A l \in LookupsIn[n] : HasConstants(l) /\ ~OpenStart(l)
  PROVE  Hides(n, TRUE, row) /\ Hides(n, FALSE, row)
<1> DEFINE true == {i \in DOMAIN n.children : Sql[n.children[i]][row] = "T"}
<1>1. n.children \in Seq(Tree) /\ n.negated \in BOOLEAN
  BY TreeParts
<1>2. Meeting(n, FALSE, row) = true
  BY DEF Meeting, Hides
<1>3. Meeting(n, TRUE, row) = true
  <2>1. \A i \in DOMAIN n.children :
          Meets(n.children[i], FALSE, row) <=> Meets(n.children[i], TRUE, row)
    BY <1>1, LookupsInIs, FormsMeet, TreeParts
  <2> QED BY <1>2, <2>1 DEF Meeting
<1>4. Cardinality(true) % 2 = 1 => true # {}
  <2>1. CASE true = {}
    <3>1. Cardinality(true) = 0
      BY <2>1, FS_EmptySet
    <3> QED BY <3>1
  <2> QED BY <2>1
<1> HIDE DEF true
<1>5. MeetsPlain(n, FALSE, row) <=> Cardinality(true) % 2 = 1
  BY <1>2, <1>3, <1>4 DEF MeetsPlain
<1>6. SqlPlain(n, row) = Truth(Cardinality(true) % 2 = 1)
  BY DEF SqlPlain, true
<1>7. PICK odd \in BOOLEAN : odd <=> Cardinality(true) % 2 = 1
  OBVIOUS
<1>8. SqlPlain(n, row) = IF odd THEN "T" ELSE "F"
  BY <1>6, <1>7 DEF Truth
<1>9. Sql[n][row] = IF odd THEN IF n.negated THEN "F" ELSE "T"
                    ELSE IF n.negated THEN "T" ELSE "F"
  BY <1>8, SqlOfNode DEF Not
<1>10. Meets(n, FALSE, row) <=> IF n.negated THEN ~odd ELSE odd
  BY <1>5, <1>7, NodeMeets
<1> QED BY <1>1, <1>9, <1>10 DEF Hides

\* AND and OR of conditions that are all compared with TRUE, or all with FALSE.
LEMMA PlainMeansTheSame ==
  ASSUME NEW n \in Tree, ~IsLookup(n), n.connector # "XOR", n.children # <<>>,
         NEW row \in Row, NEW odd \in BOOLEAN,
         \A i \in DOMAIN n.children : /\ Sql[n.children[i]][row] \in {"T", "F", "U"}
                                      /\ Hides(n.children[i], odd, row)
  PROVE  MeetsPlain(n, FALSE, row)
           <=> IF odd THEN SqlPlain(n, row) # "F" ELSE SqlPlain(n, row) = "T"
<1> DEFINE values == {Sql[n.children[i]][row] : i \in DOMAIN n.children}
<1>1. n.connector \in {"AND", "OR"}
  BY TreeParts
<1>2. /\ "T" \in values <=> \E i \in DOMAIN n.children : Sql[n.children[i]][row] = "T"
      /\ "F" \in values <=> \E i \in DOMAIN n.children : Sql[n.children[i]][row] = "F"
      /\ "U" \in values <=> \E i \in DOMAIN n.children : Sql[n.children[i]][row] = "U"
  OBVIOUS
<1>3. SqlPlain(n, row) = IF n.connector = "AND" THEN And(values) ELSE Or(values)
  BY <1>1 DEF SqlPlain
<1> HIDE DEF values
<1>4. MeetsPlain(n, FALSE, row) <=>
        IF n.connector = "AND" THEN \A i \in DOMAIN n.children : Meets(n.children[i], FALSE, row)
        ELSE \E i \in DOMAIN n.children : Meets(n.children[i], FALSE, row)
  BY <1>1 DEF MeetsPlain, Meeting
<1>5. CASE odd
  <2>1. \A i \in DOMAIN n.children :
          Meets(n.children[i], FALSE, row) <=> Sql[n.children[i]][row] # "F"
    BY <1>5 DEF Hides
  <2>2. CASE n.connector = "AND"
    BY <1>2, <1>3, <1>4, <1>5, <2>1, <2>2, ThreeValues
  <2>3. CASE n.connector # "AND"
    BY <1>2, <1>3, <1>4, <1>5, <2>1, <2>3, ThreeValues
  <2> QED BY <2>2, <2>3
<1>6. CASE ~odd
  <2>1. \A i \in DOMAIN n.children :
          Meets(n.children[i], FALSE, row) <=> Sql[n.children[i]][row] = "T"
    BY <1>6 DEF Hides
  <2>2. CASE n.connector = "AND"
    BY <1>2, <1>3, <1>4, <1>6, <2>1, <2>2, ThreeValues
  <2>3. CASE n.connector # "AND"
    BY <1>2, <1>3, <1>4, <1>6, <2>1, <2>3, ThreeValues
  <2> QED BY <2>2, <2>3
<1> QED BY <1>5, <1>6

\* Where nulls are hidden, a condition selects in MQL what it selects in SQL.
LEMMA SqlMeets ==
  ASSUME NEW n \in Tree, NEW row \in Row,
         \A l \in LookupsIn[n] : HasConstants(l) /\ ComparesNumbers(l, row)
  PROVE  MeansTheSame(n, row)
<1> DEFINE Plain(t) == \A l \in LookupsIn[t] : HasConstants(l) /\ ComparesNumbers(l, row)
           S == {t \in Tree : Plain(t) => MeansTheSame(t, row)}
<1>1. ASSUME NEW t \in Tree, IsLookup(t) PROVE t \in S
  BY <1>1, LookupMeansTheSame, LookupsInIs
<1>2. ASSUME NEW t \in Tree, ~IsLookup(t), \A i \in DOMAIN t.children : t.children[i] \in S
      PROVE  t \in S
  <2> SUFFICES ASSUME Plain(t) PROVE MeansTheSame(t, row)
    OBVIOUS
  <2>1. \A i \in DOMAIN t.children : MeansTheSame(t.children[i], row)
    <3>1. \A i \in DOMAIN t.children : Plain(t.children[i])
      BY <1>2, LookupsInIs
    <3> HIDE DEF Plain
    <3> QED BY <1>2, <3>1
  <2>2. t.negated \in BOOLEAN /\ t.connector \in {"AND", "OR", "XOR"}
    BY <1>2, TreeParts
  <2>3. /\ Sql[t][row] \in {"T", "F", "U"} /\ SqlPlain(t, row) \in {"T", "F", "U"}
        /\ Sql[t][row] = IF t.negated THEN Not(SqlPlain(t, row)) ELSE SqlPlain(t, row)
    BY <1>2, SqlOfNode
  <2>4. ASSUME NEW odd \in NullsHidden[t] PROVE Hides(t, odd, row)
    <3>1. /\ odd \in BOOLEAN
          /\ \/ Guarded(t)
             \/ /\ t.connector = "XOR"
                /\ \A i \in DOMAIN t.children : FALSE \in NullsHidden[t.children[i]]
                /\ \A l \in LookupsIn[t] : ~OpenStart(l)
             \/ /\ t.connector # "XOR"
                /\ t.children # <<>>
                /\ \A i \in DOMAIN t.children : (odd # t.negated) \in NullsHidden[t.children[i]]
      BY <1>2, NullsHiddenIs
    <3>2. CASE Guarded(t)
      BY <1>2, <2>3, <3>1, <3>2, GuardedMeets DEF Hides
    <3>3. CASE /\ t.connector = "XOR"
               /\ \A i \in DOMAIN t.children : FALSE \in NullsHidden[t.children[i]]
               /\ \A l \in LookupsIn[t] : ~OpenStart(l)
      <4>1. \A i \in DOMAIN t.children : Hides(t.children[i], FALSE, row)
        BY <2>1, <3>3 DEF MeansTheSame
      <4>2. Hides(t, TRUE, row) /\ Hides(t, FALSE, row)
        BY <1>2, <3>3, <4>1, XorMeansTheSame
      <4> QED BY <3>1, <4>2
    <3>4. CASE /\ t.connector # "XOR"
               /\ t.children # <<>>
               /\ \A i \in DOMAIN t.children : (odd # t.negated) \in NullsHidden[t.children[i]]
      <4>1. PICK below \in BOOLEAN : below <=> (odd # t.negated)
        OBVIOUS
      <4>2. \A i \in DOMAIN t.children : /\ Sql[t.children[i]][row] \in {"T", "F", "U"}
                                         /\ Hides(t.children[i], below, row)
        BY <2>1, <2>2, <3>1, <3>4, <4>1 DEF MeansTheSame
      <4>3. MeetsPlain(t, FALSE, row)
              <=> IF below THEN SqlPlain(t, row) # "F" ELSE SqlPlain(t, row) = "T"
        BY <1>2, <3>4, <4>2, PlainMeansTheSame
      <4>4. Meets(t, FALSE, row)
              <=> IF t.negated THEN ~MeetsPlain(t, FALSE, row) ELSE MeetsPlain(t, FALSE, row)
        BY <1>2, <3>4, NodeMeets
      <4>5. CASE t.negated
        BY <2>2, <2>3, <3>1, <4>1, <4>3, <4>4, <4>5, ThreeValues DEF Hides
      <4>6. CASE ~t.negated
        BY <2>2, <2>3, <3>1, <4>1, <4>3, <4>4, <4>6 DEF Hides
      <4> QED BY <4>5, <4>6
    <3> QED BY <3>1, <3>2, <3>3, <3>4
  <2> QED BY <2>3, <2>4 DEF MeansTheSame
<1> HIDE DEF S
<1>3. n \in S
  BY <1>1, <1>2, TreeInduction
<1> QED BY <1>3 DEF S

-----------------------------------------------------------------------------
(* What is pushed.                                                         *)

CollectPushableStep(f, n) ==
  [negated \in BOOLEAN |->
     IF IsLookup(n)
     THEN IF OnColumn(n) THEN [a \in {n.lhs[1]} |-> Where("AND", negated, <<n>>)]
          ELSE NothingPushed
     ELSE IF n.connector = "XOR" THEN NothingPushed
     ELSE LET neg == negated # n.negated
              connector == IF neg THEN Flipped(n.connector) ELSE n.connector
              pushables == [i \in DOMAIN n.children |-> f[n.children[i]][neg]]
          IN [a \in PushableAliases(connector, pushables) |->
                AliasNode(a, pushables, connector)]]

LEMMA CollectPushableLocal ==
  ASSUME NEW f, NEW g, NEW n,
         ~IsLookup(n) => \A i \in DOMAIN n.children : f[n.children[i]] = g[n.children[i]]
  PROVE  CollectPushableStep(f, n) = CollectPushableStep(g, n)
<1>1. CASE IsLookup(n)
  BY <1>1 DEF CollectPushableStep
<1>2. CASE ~IsLookup(n)
  <2>1. \A neg : [i \in DOMAIN n.children |-> f[n.children[i]][neg]]
                = [i \in DOMAIN n.children |-> g[n.children[i]][neg]]
    BY <1>2
  <2> QED BY <1>2, <2>1 DEF CollectPushableStep
<1> QED BY <1>1, <1>2

LEMMA CollectPushableExists ==
  ASSUME NEW h \in Nat, h <= Height + 1
  PROVE  \E f : f = [n \in TreesUpTo[h] |-> CollectPushableStep(f, n)]
<1> DEFINE Is(f, S) == f = [n \in S |-> CollectPushableStep(f, n)]
           Good == {m \in Nat : m <= Height + 1 => \E f : Is(f, TreesUpTo[m])}
<1>1. 0 \in Good
  <2>1. TreesUpTo[0] = {}
    BY TreesZero
  <2> DEFINE f == [n \in {} |-> 0]
  <2>2. Is(f, {})
    OBVIOUS
  <2> HIDE DEF f, Is
  <2> QED BY <2>1, <2>2
<1>2. ASSUME NEW m \in Nat, m \in Good PROVE m + 1 \in Good
  <2> SUFFICES ASSUME m + 1 <= Height + 1 PROVE \E f : Is(f, TreesUpTo[m + 1])
    OBVIOUS
  <2>1. PICK f : Is(f, TreesUpTo[m])
    <3>1. m <= Height + 1
      BY WhereNodeAssumption
    <3> HIDE DEF Is
    <3> QED BY <1>2, <3>1
  <2> DEFINE g == [n \in TreesUpTo[m + 1] |-> CollectPushableStep(f, n)]
  <2>2. TreesUpTo[m + 1] = Lookups \cup Nodes(TreesUpTo[m])
    BY TreesNext
  <2>3. TreesUpTo[m] \subseteq TreesUpTo[m + 1]
    BY TreesGrow
  <2>4. ASSUME NEW n \in TreesUpTo[m] PROVE g[n] = f[n]
    <3>1. f[n] = CollectPushableStep(f, n)
      BY <2>1
    <3> HIDE DEF CollectPushableStep, Is
    <3> QED BY <3>1, <2>3
  <2>5. ASSUME NEW n \in TreesUpTo[m + 1] PROVE CollectPushableStep(g, n) = CollectPushableStep(f, n)
    <3> HIDE DEF g, Is
    <3>1. CASE n \in Lookups
      BY <3>1, LookupParts, CollectPushableLocal
    <3>2. CASE n \in Nodes(TreesUpTo[m])
      <4>1. \A i \in DOMAIN n.children : g[n.children[i]] = f[n.children[i]]
        BY <3>2, <2>4, NodeParts
      <4> QED BY <4>1, CollectPushableLocal
    <3> HIDE DEF Lookups, Nodes
    <3> QED BY <3>1, <3>2, <2>2
  <2>6. Is(g, TreesUpTo[m + 1])
    <3> HIDE DEF CollectPushableStep
    <3> QED BY <2>5
  <2> HIDE DEF g, Is
  <2> QED BY <2>6
<1> HIDE DEF Good
<1>3. h \in Good
  BY <1>1, <1>2, Upwards
<1> HIDE DEF Is
<1>4. \E f : Is(f, TreesUpTo[h])
  BY <1>3 DEF Good
<1> QED BY <1>4 DEF Is

LEMMA CollectPushableDef ==
  ASSUME NEW n \in Tree
  PROVE  CollectPushable[n] = CollectPushableStep(CollectPushable, n)
<1>1. \E f : f = [m \in Tree |-> CollectPushableStep(f, m)]
  <2>1. PICK h \in Nat : h = Height + 1
    BY WhereNodeAssumption
  <2> QED BY <2>1, CollectPushableExists DEF Tree
<1>2. CollectPushable = [m \in Tree |-> CollectPushableStep(CollectPushable, m)]
  BY <1>1 DEF CollectPushable, CollectPushableStep
<1> QED BY <1>2

\* What a tree asks of a row where its negation is wanted, or the tree itself.
Asks(n, negated, row) == IF negated THEN ~Meets(n, FALSE, row) ELSE Meets(n, FALSE, row)

\* p is a tree about the alias a alone that n asks for.
IsPart(p, a, n, negated, h) ==
  /\ p \in TreesUpTo[h + 1]
  /\ \A l \in LookupsIn[p] : l \in LookupsIn[n] /\ l.lhs[1] = a
  /\ \A row \in Row : Asks(n, negated, row) => Meets(p, FALSE, row)

\* What is collected are such trees.
AreParts(n, negated, h) ==
  /\ DOMAIN CollectPushable[n][negated] \subseteq Alias
  /\ \A a \in DOMAIN CollectPushable[n][negated] :
       IsPart(CollectPushable[n][negated][a], a, n, negated, h)

LEMMA WhereIs ==
  ASSUME NEW S, NEW connector \in {"AND", "OR", "XOR"}, NEW negated \in BOOLEAN,
         NEW children \in Seq(S), NEW t, t = Where(connector, negated, children)
  PROVE  /\ t \in Nodes(S) /\ ~IsLookup(t)
         /\ t.connector = connector /\ t.negated = negated /\ t.children = children
<1>1. t \in Nodes(S)
  BY DEF Nodes, Where
<1> QED BY <1>1, NodeParts DEF Where

LEMMA LookupsInNode ==
  ASSUME NEW n \in Tree, ~IsLookup(n), NEW l \in LookupsIn[n]
  PROVE  \E i \in DOMAIN n.children : l \in LookupsIn[n.children[i]]
<1>1. LookupsIn[n] = UNION {LookupsIn[n.children[i]] : i \in DOMAIN n.children}
  BY LookupsInDef DEF LookupsInStep
<1> QED BY <1>1

\* The tree for one alias.
HavePartsIn(S, N, pushables, a) ==
  /\ DOMAIN pushables = 1 .. N
  /\ \A i \in 1 .. N : a \in DOMAIN pushables[i] => pushables[i][a] \in S

IsAliasNode(t, N, pushables, a, connector) ==
  /\ ~IsLookup(t) /\ t.connector = connector /\ ~t.negated
  /\ \A k \in DOMAIN t.children :
       \E i \in 1 .. N : a \in DOMAIN pushables[i] /\ t.children[k] = pushables[i][a]
  /\ \A i \in 1 .. N : a \in DOMAIN pushables[i] =>
       \E k \in DOMAIN t.children : t.children[k] = pushables[i][a]

LEMMA AliasNodeIs ==
  ASSUME NEW S, NEW N \in Nat, NEW pushables, NEW a, HavePartsIn(S, N, pushables, a),
         NEW connector \in {"AND", "OR"}, NEW t, t = AliasNode(a, pushables, connector)
  PROVE  t \in Nodes(S) /\ IsAliasNode(t, N, pushables, a, connector)
<1> USE DEF HavePartsIn
<1> DEFINE those == {i \in 1 .. N : a \in DOMAIN pushables[i]}
           having == SetToSeq(those)
           children == [k \in DOMAIN having |-> pushables[having[k]][a]]
<1>1. IsFiniteSet(those)
  BY FS_Interval, FS_Subset
<1>2. having \in Seq(those) /\ Range(having) = those
  BY <1>1, SetToSeqIs
<1> HIDE DEF having
<1>3. DOMAIN having = 1 .. Len(having) /\ Len(having) \in Nat
  BY <1>2
<1>4. \A k \in DOMAIN having : having[k] \in those
  BY <1>2
<1>5. \A i \in those : \E k \in DOMAIN having : having[k] = i
  BY <1>2 DEF Range
<1>6. children \in Seq(S)
  BY <1>3, <1>4
<1>7. t = Where(connector, FALSE, children)
  BY DEF AliasNode, having
<1> HIDE DEF children
<1>8. /\ t \in Nodes(S) /\ ~IsLookup(t)
      /\ t.connector = connector /\ ~t.negated /\ t.children = children
  <2>1. PICK no \in BOOLEAN : ~no
    OBVIOUS
  <2>2. t = Where(connector, no, children)
    BY <1>7, <2>1
  <2> QED BY <1>6, <2>1, <2>2, WhereIs
<1>9. DOMAIN children = DOMAIN having
      /\ \A k \in DOMAIN having : children[k] = pushables[having[k]][a]
  BY DEF children
<1> QED BY <1>4, <1>5, <1>8, <1>9 DEF IsAliasNode

LEMMA LookupAreParts ==
  ASSUME NEW h \in Nat, h + 1 <= Height + 1, NEW n \in Lookups, n \in TreesUpTo[h],
         NEW negated \in BOOLEAN
  PROVE  AreParts(n, negated, h)
<1> DEFINE t == Where("AND", negated, <<n>>)
<1>1. IsLookup(n) /\ n.lhs[1] \in Alias
  BY LookupParts DEF Column
<1>2. n \in Tree
  <2>1. PICK j \in Nat, k \in Nat : j = h /\ k = Height + 1 /\ j <= k
    BY WhereNodeAssumption
  <2> QED BY <2>1, TreesWithin DEF Tree
<1>3. CollectPushable[n][negated] =
        IF OnColumn(n) THEN [a \in {n.lhs[1]} |-> t] ELSE NothingPushed
  <2>1. CollectPushable[n] = CollectPushableStep(CollectPushable, n)
    BY <1>2, CollectPushableDef
  <2> QED BY <1>1, <2>1 DEF CollectPushableStep
<1>4. /\ t \in Nodes(TreesUpTo[h]) /\ ~IsLookup(t)
      /\ t.connector = "AND" /\ t.negated = negated /\ t.children = <<n>>
  <2>1. <<n>> \in Seq(TreesUpTo[h])
    BY OneIsSeq
  <2> QED BY <2>1, WhereIs
<1> HIDE DEF t
<1>5. t \in TreesUpTo[h + 1] /\ t \in Tree
  <2>1. t \in TreesUpTo[h + 1]
    BY <1>4, TreesNext
  <2>2. PICK j \in Nat, k \in Nat : j = h + 1 /\ k = Height + 1 /\ j <= k
    BY WhereNodeAssumption
  <2> QED BY <2>1, <2>2, TreesWithin DEF Tree
<1>6. DOMAIN t.children = {1} /\ t.children[1] = n /\ t.children # <<>>
  BY <1>4, OneIsSeq
<1>7. ASSUME NEW l \in LookupsIn[t] PROVE l \in LookupsIn[n] /\ l = n
  BY <1>1, <1>2, <1>4, <1>5, <1>6, LookupsInNode, LookupsInIs
<1>8. ASSUME NEW row \in Row PROVE Asks(n, negated, row) => Meets(t, FALSE, row)
  <2>1. Meets(t, FALSE, row) <=> IF t.negated THEN ~MeetsPlain(t, FALSE, row)
                                 ELSE MeetsPlain(t, FALSE, row)
    BY <1>4, <1>5, <1>6, NodeMeets
  <2>2. MeetsPlain(t, FALSE, row) <=> Meeting(t, FALSE, row) = {1}
    BY <1>4, <1>6 DEF MeetsPlain
  <2>3. Meeting(t, FALSE, row) = {1} <=> Meets(n, FALSE, row)
    BY <1>6 DEF Meeting
  <2> QED BY <1>4, <2>1, <2>2, <2>3 DEF Asks
<1>9. CASE OnColumn(n)
  <2>1. /\ DOMAIN CollectPushable[n][negated] = {n.lhs[1]}
        /\ CollectPushable[n][negated][n.lhs[1]] = t
    BY <1>3, <1>9
  <2> QED BY <1>1, <1>5, <1>7, <1>8, <2>1 DEF AreParts, IsPart
<1>10. CASE ~OnColumn(n)
  <2>1. DOMAIN CollectPushable[n][negated] = {}
    BY <1>3, <1>10 DEF NothingPushed
  <2> QED BY <2>1 DEF AreParts
<1> QED BY <1>9, <1>10

\* Below AND all are asked, below OR one of them is.
LEMMA ChildrenAsk ==
  ASSUME NEW n \in Tree, ~IsLookup(n), n.connector \in {"AND", "OR"}, n.children # <<>>,
         NEW negated \in BOOLEAN, NEW neg \in BOOLEAN, neg <=> (negated # n.negated),
         NEW row \in Row, Asks(n, negated, row)
  PROVE  LET connector == IF neg THEN Flipped(n.connector) ELSE n.connector
         IN IF connector = "AND"
            THEN \A i \in DOMAIN n.children : Asks(n.children[i], neg, row)
            ELSE \E i \in DOMAIN n.children : Asks(n.children[i], neg, row)
<1>1. Meets(n, FALSE, row) <=> IF n.negated THEN ~MeetsPlain(n, FALSE, row)
                               ELSE MeetsPlain(n, FALSE, row)
  BY NodeMeets
<1>2. n.negated \in BOOLEAN
  BY TreeParts
<1>3. IF neg THEN ~MeetsPlain(n, FALSE, row) ELSE MeetsPlain(n, FALSE, row)
  BY <1>1, <1>2 DEF Asks
<1>4. MeetsPlain(n, FALSE, row) <=> IF n.connector = "AND"
                                     THEN Meeting(n, FALSE, row) = DOMAIN n.children
                                     ELSE Meeting(n, FALSE, row) # {}
  <2>1. CASE n.connector = "AND"
    BY <2>1 DEF MeetsPlain
  <2>2. CASE n.connector = "OR"
    BY <2>2 DEF MeetsPlain
  <2> QED BY <2>1, <2>2
<1>5. Meeting(n, FALSE, row) = {i \in DOMAIN n.children : Meets(n.children[i], FALSE, row)}
  BY DEF Meeting
<1>6. CASE neg
  BY <1>3, <1>4, <1>5, <1>6 DEF Asks, Flipped
<1>7. CASE ~neg
  BY <1>3, <1>4, <1>5, <1>7 DEF Asks
<1> QED BY <1>6, <1>7

LEMMA NodeAreParts ==
  ASSUME NEW h \in Nat, h + 2 <= Height + 1, NEW n \in Nodes(TreesUpTo[h]),
         NEW negated \in BOOLEAN,
         \A i \in DOMAIN n.children : \A neg \in BOOLEAN : AreParts(n.children[i], neg, h)
  PROVE  AreParts(n, negated, h + 1)
<1>1. /\ ~IsLookup(n) /\ n.children \in Seq(TreesUpTo[h]) /\ n.negated \in BOOLEAN
      /\ n.connector \in {"AND", "OR", "XOR"}
  BY NodeParts
<1>2. n \in Tree
  <2>1. n \in TreesUpTo[h + 1]
    BY TreesNext, WhereNodeAssumption
  <2>2. PICK j \in Nat, k \in Nat : j = h + 1 /\ k = Height + 1 /\ j <= k
    BY WhereNodeAssumption
  <2> QED BY <2>1, <2>2, TreesWithin DEF Tree
<1>3. CASE n.connector = "XOR"
  <2>1. CollectPushable[n][negated] = NothingPushed
    <3>1. CollectPushable[n] = CollectPushableStep(CollectPushable, n)
      BY <1>2, CollectPushableDef
    <3> QED BY <1>1, <1>3, <3>1 DEF CollectPushableStep
  <2>2. DOMAIN CollectPushable[n][negated] = {}
    BY <2>1 DEF NothingPushed
  <2> QED BY <2>2 DEF AreParts
<1>4. CASE n.connector # "XOR"
  <2> DEFINE neg == negated # n.negated
             connector == IF neg THEN Flipped(n.connector) ELSE n.connector
             pushables == [i \in DOMAIN n.children |-> CollectPushable[n.children[i]][neg]]
  <2>2. CollectPushable[n][negated] = [a \in PushableAliases(connector, pushables) |->
                                         AliasNode(a, pushables, connector)]
    <3>1. CollectPushable[n] = CollectPushableStep(CollectPushable, n)
      BY <1>2, CollectPushableDef
    <3> QED BY <1>1, <1>4, <3>1 DEF CollectPushableStep
  <2>1. neg \in BOOLEAN /\ (neg <=> (negated # n.negated))
    OBVIOUS
  <2> HIDE DEF neg
  <2>3. connector \in {"AND", "OR"}
    BY <1>1, <1>4 DEF Flipped
  <2>4. PICK N \in Nat : DOMAIN n.children = 1 .. N
    BY <1>1
  <2>5. DOMAIN pushables = 1 .. N
    BY <2>4
  <2>6. \A i \in 1 .. N : pushables[i] = CollectPushable[n.children[i]][neg]
    BY <2>4
  <2>7. \A i \in 1 .. N : /\ DOMAIN pushables[i] \subseteq Alias
                          /\ \A a \in DOMAIN pushables[i] :
                               IsPart(pushables[i][a], a, n.children[i], neg, h)
    BY <2>1, <2>4, <2>6 DEF AreParts
  <2> HIDE DEF pushables
  <2>8. ASSUME NEW row \in Row, Asks(n, negated, row), n.children # <<>>
        PROVE  IF connector = "AND" THEN \A i \in 1 .. N : Asks(n.children[i], neg, row)
               ELSE \E i \in 1 .. N : Asks(n.children[i], neg, row)
    BY <1>1, <1>2, <1>4, <2>1, <2>4, <2>8, ChildrenAsk
  <2> HIDE DEF connector
  <2>9. ASSUME NEW a \in PushableAliases(connector, pushables)
        PROVE  a \in Alias /\ IsPart(AliasNode(a, pushables, connector), a, n, negated, h + 1)
    <3> DEFINE t == AliasNode(a, pushables, connector)
    <3>1. /\ \E i \in 1 .. N : a \in DOMAIN pushables[i]
          /\ connector # "AND" => \A i \in 1 .. N : a \in DOMAIN pushables[i]
      BY <2>5 DEF PushableAliases
    <3>2. a \in Alias /\ n.children # <<>>
      BY <1>1, <2>4, <2>7, <3>1
    <3>3. \A i \in 1 .. N : a \in DOMAIN pushables[i] =>
            IsPart(pushables[i][a], a, n.children[i], neg, h)
      BY <2>7
    <3>4. \A i \in 1 .. N : a \in DOMAIN pushables[i] => pushables[i][a] \in TreesUpTo[h + 1]
      BY <3>3 DEF IsPart
    <3>5. /\ t \in Nodes(TreesUpTo[h + 1]) /\ ~IsLookup(t)
          /\ t.connector = connector /\ ~t.negated
          /\ \A k \in DOMAIN t.children :
               \E i \in 1 .. N : a \in DOMAIN pushables[i] /\ t.children[k] = pushables[i][a]
          /\ \A i \in 1 .. N : a \in DOMAIN pushables[i] =>
               \E k \in DOMAIN t.children : t.children[k] = pushables[i][a]
      <4>1. PICK S : S = TreesUpTo[h + 1]
        OBVIOUS
      <4>2. t = AliasNode(a, pushables, connector)
        OBVIOUS
      <4>3. HavePartsIn(S, N, pushables, a)
        BY <2>5, <3>4, <4>1 DEF HavePartsIn
      <4> HIDE DEF t
      <4>4. t \in Nodes(S) /\ IsAliasNode(t, N, pushables, a, connector)
        BY <2>3, <4>2, <4>3, AliasNodeIs
      <4> QED BY <4>1, <4>4 DEF IsAliasNode
    <3> HIDE DEF t
    <3>6. PICK j \in Nat : j = h + 1 /\ j + 1 = (h + 1) + 1 /\ j + 1 <= Height + 1
      BY WhereNodeAssumption
    <3>7. t \in TreesUpTo[(h + 1) + 1] /\ t \in Tree
      <4>1. t \in TreesUpTo[j + 1]
        BY <3>5, <3>6, TreesNext
      <4>2. PICK k \in Nat, m \in Nat : k = j + 1 /\ m = Height + 1 /\ k <= m
        BY <3>6, WhereNodeAssumption
      <4> QED BY <3>6, <4>1, <4>2, TreesWithin DEF Tree
    <3>8. ASSUME NEW l \in LookupsIn[t] PROVE l \in LookupsIn[n] /\ l.lhs[1] = a
      <4>1. PICK k \in DOMAIN t.children : l \in LookupsIn[t.children[k]]
        BY <3>5, <3>7, LookupsInNode
      <4>2. PICK i \in 1 .. N : a \in DOMAIN pushables[i] /\ t.children[k] = pushables[i][a]
        BY <3>5
      <4>3. l \in LookupsIn[n.children[i]] /\ l.lhs[1] = a
        BY <3>3, <4>1, <4>2 DEF IsPart
      <4> QED BY <1>1, <1>2, <2>4, <4>3, LookupsInIs
    <3>9. ASSUME NEW row \in Row, Asks(n, negated, row) PROVE Meets(t, FALSE, row)
      <4>1. IF connector = "AND" THEN \A i \in 1 .. N : Asks(n.children[i], neg, row)
            ELSE \E i \in 1 .. N : Asks(n.children[i], neg, row)
        BY <2>8, <3>2, <3>9
      <4>2. \A i \in 1 .. N : a \in DOMAIN pushables[i] /\ Asks(n.children[i], neg, row)
              => Meets(pushables[i][a], FALSE, row)
        BY <3>3 DEF IsPart
      <4>3. Meeting(t, FALSE, row) = {k \in DOMAIN t.children : Meets(t.children[k], FALSE, row)}
        BY DEF Meeting
      <4>4. Meets(t, FALSE, row) <=> IF t.children = <<>> THEN TRUE ELSE MeetsPlain(t, FALSE, row)
        <5>1. t.connector # "XOR"
          BY <2>3, <3>5
        <5> QED BY <3>5, <3>7, <5>1, NodeMeets
      <4>5. CASE connector = "AND"
        <5>1. Meeting(t, FALSE, row) = DOMAIN t.children
          BY <3>5, <4>1, <4>2, <4>3, <4>5
        <5>2. MeetsPlain(t, FALSE, row)
          BY <3>5, <4>5, <5>1 DEF MeetsPlain
        <5> QED BY <4>4, <5>2
      <4>6. CASE connector = "OR"
        <5>1. Meeting(t, FALSE, row) # {}
          <6>1. PICK i \in 1 .. N : Asks(n.children[i], neg, row)
            BY <4>1, <4>6
          <6>2. a \in DOMAIN pushables[i] /\ Meets(pushables[i][a], FALSE, row)
            BY <3>1, <4>2, <4>6, <6>1
          <6>3. PICK k \in DOMAIN t.children : t.children[k] = pushables[i][a]
            BY <3>5, <6>2
          <6> QED BY <4>3, <6>2, <6>3
        <5>2. MeetsPlain(t, FALSE, row)
          BY <3>5, <4>6, <5>1 DEF MeetsPlain
        <5> QED BY <4>4, <5>2
      <4> QED BY <2>3, <4>5, <4>6
    <3>10. IsPart(t, a, n, negated, h + 1)
      BY <3>7, <3>8, <3>9 DEF IsPart
    <3> QED BY <3>2, <3>10 DEF t
  <2> HIDE DEF connector
  <2>10. /\ DOMAIN CollectPushable[n][negated] = PushableAliases(connector, pushables)
         /\ \A a \in PushableAliases(connector, pushables) :
              CollectPushable[n][negated][a] = AliasNode(a, pushables, connector)
    BY <2>2 DEF pushables
  <2> QED BY <2>9, <2>10 DEF AreParts
<1> QED BY <1>3, <1>4

\* A row that meets a condition meets all that is pushed for it.
LEMMA PushablesAreParts ==
  ASSUME NEW n \in Condition, NEW negated \in BOOLEAN
  PROVE  AreParts(n, negated, Height)
<1> DEFINE Parts(k) == \A t \in TreesUpTo[k] : \A neg \in BOOLEAN : AreParts(t, neg, k)
           Good == {k \in Nat : k <= Height => Parts(k)}
<1>1. 0 \in Good
  BY TreesZero
<1>2. ASSUME NEW k \in Nat, k \in Good PROVE k + 1 \in Good
  <2> SUFFICES ASSUME k + 1 <= Height, NEW t \in TreesUpTo[k + 1], NEW neg \in BOOLEAN
               PROVE  AreParts(t, neg, k + 1)
    OBVIOUS
  <2>1. Parts(k)
    <3> HIDE DEF Parts
    <3> QED BY <1>2, WhereNodeAssumption
  <2>2. PICK j \in Nat : j = k + 1 /\ j + 1 <= Height + 1
    BY WhereNodeAssumption
  <2>3. TreesUpTo[k + 1] = Lookups \cup Nodes(TreesUpTo[k])
    BY TreesNext, WhereNodeAssumption
  <2>4. CASE t \in Lookups
    <3> HIDE DEF Good
    <3>1. AreParts(t, neg, j)
      BY <2>2, <2>4, LookupAreParts
    <3> QED BY <2>2, <3>1
  <2>5. CASE t \in Nodes(TreesUpTo[k])
    <3>1. \A i \in DOMAIN t.children : \A e \in BOOLEAN : AreParts(t.children[i], e, k)
      BY <2>1, <2>5, NodeParts
    <3>2. k + 2 <= Height + 1
      BY WhereNodeAssumption
    <3> HIDE DEF Good
    <3> QED BY <2>5, <3>1, <3>2, NodeAreParts
  <2> QED BY <2>3, <2>4, <2>5
<1> HIDE DEF Good
<1>3. Height \in Good
  BY <1>1, <1>2, Upwards, WhereNodeAssumption
<1>4. Height \in Nat
  BY WhereNodeAssumption
<1> QED BY <1>3, <1>4 DEF Good, Condition

-----------------------------------------------------------------------------
(* A condition depends on the columns it names.                            *)

SameValues(l, row, other) ==
  /\ ValueOf(row, l.lhs) = ValueOf(other, l.lhs)
  /\ ComparesColumns(l) => ValueOf(row, l.column) = ValueOf(other, l.column)

LEMMA LookupDependsOnColumns ==
  ASSUME NEW l, NEW row, NEW other, SameValues(l, row, other)
  PROVE  /\ PathHolds(l, row) <=> PathHolds(l, other)
         /\ ExprHolds(l, row) <=> ExprHolds(l, other)
<1>1. PathHolds(l, row) <=> PathHolds(l, other)
  BY DEF PathHolds, SameValues
<1>2. ExprHolds(l, row) <=> ExprHolds(l, other)
  <2>1. CASE ComparesColumns(l)
    BY <2>1 DEF ExprHolds, SameValues
  <2>2. CASE ~ComparesColumns(l)
    BY <2>2 DEF ExprHolds, SameValues
  <2> QED BY <2>1, <2>2
<1> QED BY <1>1, <1>2

LEMMA MeetsDependsOnColumns ==
  ASSUME NEW n \in Tree, NEW row \in Row, NEW other \in Row,
         \A l \in LookupsIn[n] : SameValues(l, row, other)
  PROVE  Meets(n, FALSE, row) <=> Meets(n, FALSE, other)
<1> DEFINE Same(t) == \A l \in LookupsIn[t] : SameValues(l, row, other)
           Agrees(t) == \A e \in BOOLEAN : Meets(t, e, row) <=> Meets(t, e, other)
           S == {t \in Tree : Same(t) => Agrees(t)}
<1>1. ASSUME NEW t \in Tree, IsLookup(t) PROVE t \in S
  <2> SUFFICES ASSUME Same(t), NEW e \in BOOLEAN PROVE Meets(t, e, row) <=> Meets(t, e, other)
    OBVIOUS
  <2>1. SameValues(t, row, other)
    BY <1>1, LookupsInIs
  <2>2. Meets(t, e, row) <=> IF CanUsePath(t) /\ ~e THEN PathHolds(t, row) ELSE ExprHolds(t, row)
    BY <1>1, LookupMeets
  <2>3. Meets(t, e, other)
          <=> IF CanUsePath(t) /\ ~e THEN PathHolds(t, other) ELSE ExprHolds(t, other)
    BY <1>1, LookupMeets
  <2> QED BY <2>1, <2>2, <2>3, LookupDependsOnColumns
<1>2. ASSUME NEW t \in Tree, ~IsLookup(t), \A i \in DOMAIN t.children : t.children[i] \in S
      PROVE  t \in S
  <2> SUFFICES ASSUME Same(t), NEW e \in BOOLEAN PROVE Meets(t, e, row) <=> Meets(t, e, other)
    OBVIOUS
  <2>1. \A i \in DOMAIN t.children : Agrees(t.children[i])
    <3>1. \A i \in DOMAIN t.children : Same(t.children[i])
      BY <1>2, LookupsInIs
    <3> HIDE DEF Same, Agrees
    <3> QED BY <1>2, <3>1
  <2>2. \A as \in BOOLEAN : Meeting(t, as, row) = Meeting(t, as, other)
    BY <2>1 DEF Meeting
  <2>3. PICK yes \in BOOLEAN : yes
    OBVIOUS
  <2>4. MeetsPlain(t, e, row) <=> MeetsPlain(t, e, other)
    <3>1. Meeting(t, e, row) = Meeting(t, e, other)
      BY <2>2
    <3>2. Meeting(t, TRUE, row) = Meeting(t, TRUE, other)
      BY <2>2
    <3> QED BY <3>1, <3>2 DEF MeetsPlain
  <2>5. /\ Meets(t, e, row) <=>
             IF t.connector # "XOR" /\ t.children = <<>> THEN TRUE
             ELSE IF t.negated THEN ~MeetsPlain(t, e, row) ELSE MeetsPlain(t, e, row)
        /\ Meets(t, e, other) <=>
             IF t.connector # "XOR" /\ t.children = <<>> THEN TRUE
             ELSE IF t.negated THEN ~MeetsPlain(t, e, other) ELSE MeetsPlain(t, e, other)
    BY <1>2, NodeMeets
  <2> QED BY <2>4, <2>5
<1> HIDE DEF S
<1>3. n \in S
  BY <1>1, <1>2, TreeInduction
<1> QED BY <1>3 DEF S

-----------------------------------------------------------------------------
(* Queries and their joins.  The operators of JoinPipeline for given        *)
(* contents of the tables.                                                 *)

PushedOf(q) == CollectPushable[q.where][FALSE]

FoundIn(contents, j, row, pushed) ==
  {doc \in contents[j.alias] :
     /\ KeysMatch(j, row, doc)
     /\ \A r \in Range(Nested(j, pushed)) : Selected(r, [row EXCEPT ![j.alias] = doc])}

JoinedIn(contents, rows, j, pushed) ==
  UNION {{[row EXCEPT ![j.alias] = doc] : doc \in Default(j, FoundIn(contents, j, row, pushed))} :
           row \in rows}

BaseRowsIn(contents) == {BaseRow(doc) : doc \in contents[Base]}

SqlMatchesIn(contents, j, row) ==
  {doc \in contents[j.alias] :
     /\ ~IsNull(row[j.parent][j.on])
     /\ doc[j.to] = row[j.parent][j.on]
     /\ Sql[j.condition][[row EXCEPT ![j.alias] = doc]] = "T"}

SqlJoinedIn(contents, rows, j) ==
  UNION {{[row EXCEPT ![j.alias] = doc] : doc \in
            IF SqlMatchesIn(contents, j, row) = {} /\ j.type = "LOUTER"
            THEN {AbsentDoc} ELSE SqlMatchesIn(contents, j, row)} : row \in rows}

LEMMA ConditionsAreTrees == Condition \subseteq Tree
<1>1. PICK h \in Nat, k \in Nat : h = Height /\ k = Height + 1 /\ h <= k
  BY WhereNodeAssumption
<1> QED BY <1>1, TreesWithin DEF Condition, Tree

LEMMA QueryParts ==
  ASSUME NEW q \in Query
  PROVE  /\ q.where \in Condition /\ q.where \in Tree
         /\ q.joins \in Seq(Join) /\ Len(q.joins) \in Nat /\ DOMAIN q.joins = 1 .. Len(q.joins)
         /\ \A i \in 1 .. Len(q.joins) :
              /\ q.joins[i] \in Join
              /\ q.joins[i].alias \notin Before(q, i) /\ q.joins[i].parent \in Before(q, i)
         /\ \A contents \in Database(q) : \A a \in Alias : contents[a] \subseteq Doc
BY JoinPipelineAssumption, ConditionsAreTrees

LEMMA JoinParts ==
  ASSUME NEW j \in Join
  PROVE  /\ j.alias \in Alias /\ j.parent \in Alias /\ j.on \in Col /\ j.to \in Col
         /\ j.type \in {"INNER", "LOUTER"} /\ j.foreignKey \in BOOLEAN
         /\ j.condition \in Condition /\ j.condition \in Tree
BY ConditionsAreTrees DEF Join, JoinType

LEMMA Appended ==
  ASSUME NEW S, NEW s \in Seq(S), NEW t \in Seq(S), Len(t) = 1, NEW u, u = s \o t,
         NEW f \in Nat, f = Len(s)
  PROVE  u[f + 1] = t[1]
<1>1. u[f + 1] = IF f + 1 <= Len(s) THEN s[f + 1] ELSE t[(f + 1) - Len(s)]
  <2>1. f + 1 \in 1 .. (Len(s) + Len(t))
    OBVIOUS
  <2> QED BY <2>1, ConcatProperties
<1>2. ~(f + 1 <= Len(s)) /\ (f + 1) - Len(s) = 1
  OBVIOUS
<1> QED BY <1>1, <1>2

\* The filters that are nested in a $lookup.
IsNested(r, j, pushed) ==
  \/ r = FilterOf(j) /\ r # Full
  \/ j.type = "INNER" /\ j.alias \in DOMAIN pushed /\ r = AsMql[pushed[j.alias]][FALSE]

LEMMA NestedIs ==
  ASSUME NEW j, NEW pushed
  PROVE  /\ DOMAIN Nested(j, pushed) \subseteq {1, 2}
         /\ \A r : (\E i \in DOMAIN Nested(j, pushed) : Nested(j, pushed)[i] = r)
                     <=> IsNested(r, j, pushed)
<1> DEFINE Pushes == j.type = "INNER" /\ j.alias \in DOMAIN pushed
           x == FilterOf(j)
           y == AsMql[pushed[j.alias]][FALSE]
           F == IF x = Full THEN <<>> ELSE <<x>>
           G == [i \in DOMAIN PushedInto(j, pushed) |-> AsMql[PushedInto(j, pushed)[i]][FALSE]]
           S == {x, y}
           N == Nested(j, pushed)
<1>1. N = F \o G
  BY DEF Nested
<1>2. F \in Seq(S) /\ IF x = Full THEN Len(F) = 0 ELSE Len(F) = 1 /\ F[1] = x
  <2> HIDE DEF x, y
  <2>1. CASE x = Full
    BY <2>1
  <2>2. CASE x # Full
    BY <2>2, OneIsSeq
  <2> QED BY <2>1, <2>2
<1>3. G \in Seq(S) /\ IF Pushes THEN Len(G) = 1 /\ G[1] = y ELSE Len(G) = 0
  <2>1. CASE ~Pushes
    <3>1. DOMAIN PushedInto(j, pushed) = 1 .. 0
      BY <2>1 DEF PushedInto
    <3>2. DOMAIN G = 1 .. 0
      BY <3>1
    <3>3. G \in [1 .. 0 -> S]
      BY <3>1
    <3> HIDE DEF G, S
    <3>4. G \in Seq(S) /\ Len(G) = 0
      BY <3>2, <3>3
    <3> QED BY <2>1, <3>4
  <2>2. CASE Pushes
    <3>1. PushedInto(j, pushed) = <<pushed[j.alias]>>
      BY <2>2 DEF PushedInto
    <3>2. DOMAIN PushedInto(j, pushed) = 1 .. 1 /\ PushedInto(j, pushed)[1] = pushed[j.alias]
      BY <3>1, OneIsSeq
    <3>3. G = [i \in 1 .. 1 |-> AsMql[PushedInto(j, pushed)[i]][FALSE]]
      BY <3>2
    <3>4. ASSUME NEW i \in 1 .. 1 PROVE AsMql[PushedInto(j, pushed)[i]][FALSE] = y
      <4>1. i = 1
        OBVIOUS
      <4>2. PushedInto(j, pushed)[i] = pushed[j.alias]
        BY <3>2, <4>1
      <4> QED BY <4>2
    <3> HIDE DEF y, G
    <3>5. DOMAIN G = 1 .. 1 /\ G[1] = y /\ G \in [1 .. 1 -> S]
      <4>1. PICK g : g = [i \in 1 .. 1 |-> AsMql[PushedInto(j, pushed)[i]][FALSE]] /\ g = G
        BY <3>3
      <4>5. g = G
        BY <4>1
      <4>2. DOMAIN g = 1 .. 1 /\ \A i \in 1 .. 1 : g[i] = y
        BY <3>4, <4>1
      <4>3. g = [i \in 1 .. 1 |-> g[i]]
        BY <4>1
      <4>4. g \in [1 .. 1 -> S]
        BY <4>2, <4>3
      <4>6. g[1] = y
        BY <4>2
      <4>7. DOMAIN g = 1 .. 1
        BY <4>2
      <4> HIDE DEF S
      <4> QED BY <4>4, <4>5, <4>6, <4>7
    <3> HIDE DEF S
    <3>6. G \in Seq(S) /\ Len(G) = 1
      BY <3>5
    <3> QED BY <2>2, <3>5, <3>6
  <2> QED BY <2>1, <2>2
<1> HIDE DEF F, G
<1>4. /\ DOMAIN N = 1 .. (Len(F) + Len(G))
      /\ \A i \in 1 .. Len(F) : N[i] = F[i]
      /\ \A i \in (Len(F) + 1) .. (Len(F) + Len(G)) : N[i] = G[i - Len(F)]
  BY <1>1, <1>2, <1>3
<1>5. PICK f \in Nat, g \in Nat : f = Len(F) /\ g = Len(G)
  BY <1>2, <1>3
<1> HIDE DEF S, N
<1>12. ASSUME g = 1 PROVE N[f + 1] = G[1]
  <2>1. F \in Seq(S) /\ G \in Seq(S) /\ Len(G) = 1 /\ f = Len(F)
    BY <1>2, <1>3, <1>5, <1>12
  <2> QED BY <1>1, <2>1, Appended
<1>6. \A r : IsNested(r, j, pushed) <=> (r = x /\ x # Full) \/ (Pushes /\ r = y)
  BY DEF IsNested
<1> HIDE DEF x, y, Pushes
<1>7. CASE f = 0 /\ g = 0
  <2>1. DOMAIN N = {} /\ x = Full /\ ~Pushes
    BY <1>2, <1>3, <1>4, <1>5, <1>7
  <2> QED BY <1>6, <2>1 DEF N
<1>8. CASE f = 1 /\ g = 0
  <2>1. DOMAIN N = {1} /\ N[1] = x /\ x # Full /\ ~Pushes
    <3>1. N[1] = F[1]
      BY <1>4, <1>5, <1>8
    <3>2. DOMAIN N = 1 .. 1
      BY <1>4, <1>5, <1>8
    <3> QED BY <1>2, <1>3, <1>5, <1>8, <3>1, <3>2
  <2> QED BY <1>6, <2>1 DEF N
<1>9. CASE f = 0 /\ g = 1
  <2>1. DOMAIN N = {1} /\ N[1] = y /\ x = Full /\ Pushes
    <3>1. N[1] = G[1]
      <4>1. N[f + 1] = G[1]
        BY <1>9, <1>12
      <4>2. f + 1 = 1
        BY <1>9
      <4> QED BY <4>1, <4>2
    <3>2. DOMAIN N = 1 .. 1
      BY <1>4, <1>5, <1>9
    <3> QED BY <1>2, <1>3, <1>5, <1>9, <3>1, <3>2
  <2> QED BY <1>6, <2>1 DEF N
<1>10. CASE f = 1 /\ g = 1
  <2>1. DOMAIN N = {1, 2} /\ N[1] = x /\ N[2] = y /\ x # Full /\ Pushes
    <3>1. N[1] = F[1]
      BY <1>4, <1>5, <1>10
    <3>2. N[2] = G[1]
      <4>1. 2 \in (f + 1) .. (f + g) /\ 2 - f = 1
        BY <1>10
      <4> QED BY <1>4, <1>5, <4>1
    <3>3. DOMAIN N = 1 .. 2
      BY <1>4, <1>5, <1>10
    <3> QED BY <1>2, <1>3, <1>5, <1>10, <3>1, <3>2, <3>3
  <2> QED BY <1>6, <2>1 DEF N
<1>11. f \in {0, 1} /\ g \in {0, 1}
  BY <1>2, <1>3, <1>5
<1> QED BY <1>7, <1>8, <1>9, <1>10, <1>11

\* A document that is found meets the condition of the join and what is pushed.
MeetsPushed(j, pushed, row) ==
  j.type = "INNER" /\ j.alias \in DOMAIN pushed => Meets(pushed[j.alias], FALSE, row)

LEMMA FoundIs ==
  ASSUME NEW contents, NEW j, NEW row, NEW pushed, NEW doc
  PROVE  doc \in FoundIn(contents, j, row, pushed)
           <=> /\ doc \in contents[j.alias]
               /\ KeysMatch(j, row, doc)
               /\ Meets(j.condition, FALSE, [row EXCEPT ![j.alias] = doc])
               /\ MeetsPushed(j, pushed, [row EXCEPT ![j.alias] = doc])
<1> DEFINE row2 == [row EXCEPT ![j.alias] = doc]
<1> HIDE DEF row2
<1>1. (\A r \in Range(Nested(j, pushed)) : Selected(r, row2))
        <=> Meets(j.condition, FALSE, row2) /\ MeetsPushed(j, pushed, row2)
  <2>1. Meets(j.condition, FALSE, row2) <=> Selected(FilterOf(j), row2)
    BY DEF FilterOf, Meets
  <2>2. MeetsPushed(j, pushed, row2)
          <=> (j.type = "INNER" /\ j.alias \in DOMAIN pushed =>
                 Selected(AsMql[pushed[j.alias]][FALSE], row2))
    BY DEF MeetsPushed, Meets
  <2>3. Selected(Full, row2)
    BY SelectedIs
  <2>4. \A r : r \in Range(Nested(j, pushed))
                 <=> \E i \in DOMAIN Nested(j, pushed) : Nested(j, pushed)[i] = r
    BY DEF Range
  <2>5. \A r : r \in Range(Nested(j, pushed)) <=> IsNested(r, j, pushed)
    BY <2>4, NestedIs
  <2>6. PICK x, y : x = FilterOf(j) /\ y = AsMql[pushed[j.alias]][FALSE]
    OBVIOUS
  <2>7. \A r : r \in Range(Nested(j, pushed))
                 <=> \/ r = x /\ r # Full
                     \/ j.type = "INNER" /\ j.alias \in DOMAIN pushed /\ r = y
    <3>1. ASSUME NEW r
          PROVE  IsNested(r, j, pushed) <=> \/ r = x /\ r # Full
                                            \/ j.type = "INNER" /\ j.alias \in DOMAIN pushed /\ r = y
      BY <2>6 DEF IsNested
    <3> QED BY <2>5, <3>1
  <2>8. (\A r \in Range(Nested(j, pushed)) : Selected(r, row2))
          <=> Selected(x, row2) /\ (j.type = "INNER" /\ j.alias \in DOMAIN pushed =>
                                      Selected(y, row2))
    BY <2>3, <2>7
  <2> QED BY <2>1, <2>2, <2>6, <2>8
<1> QED BY <1>1 DEF FoundIn, row2

-----------------------------------------------------------------------------
(* The rows after each join.                                               *)

StepsStayIn(G, N, V) == \A k \in 1 .. N : \A v \in V : G[k][v] \in V

AreSteps(f, base, G, N, V) ==
  /\ f \in [0 .. N -> V]
  /\ f = [k \in 0 .. N |-> IF k = 0 THEN base ELSE G[k][f[k - 1]]]

\* A sequence of values, each computed from the one before, exists.
LEMMA StepsExist ==
  ASSUME NEW N \in Nat, NEW V, NEW base \in V, NEW G, StepsStayIn(G, N, V)
  PROVE  \E f : AreSteps(f, base, G, N, V)
<1> USE DEF StepsStayIn
<1> DEFINE Is(f, m) == /\ f \in [0 .. m -> V]
                       /\ f[0] = base
                       /\ \A k \in 1 .. m : f[k] = G[k][f[k - 1]]
           Good == {m \in Nat : m <= N => \E f : Is(f, m)}
<1>1. 0 \in Good
  <2>1. Is([k \in 0 .. 0 |-> base], 0)
    OBVIOUS
  <2> HIDE DEF Is
  <2> QED BY <2>1
<1>2. ASSUME NEW m \in Nat, m \in Good PROVE m + 1 \in Good
  <2> SUFFICES ASSUME m + 1 <= N PROVE \E f : Is(f, m + 1)
    OBVIOUS
  <2>1. PICK f : Is(f, m)
    <3> HIDE DEF Is
    <3> QED BY <1>2
  <2> DEFINE g == [k \in 0 .. (m + 1) |-> IF k = m + 1 THEN G[m + 1][f[m]] ELSE f[k]]
  <2>2. G[m + 1][f[m]] \in V
    <3>1. m + 1 \in 1 .. N /\ m \in 0 .. m
      OBVIOUS
    <3> QED BY <2>1, <3>1
  <2>3. ASSUME NEW k \in 0 .. (m + 1) PROVE g[k] \in V
    <3>1. CASE k = m + 1
      BY <2>2, <3>1
    <3>2. CASE k # m + 1
      <4>1. k \in 0 .. m /\ g[k] = f[k]
        BY <3>2
      <4> QED BY <2>1, <4>1
    <3> QED BY <3>1, <3>2
  <2>4. g \in [0 .. (m + 1) -> V]
    BY <2>3
  <2>5. g[0] = base
    BY <2>1
  <2>6. ASSUME NEW k \in 1 .. (m + 1) PROVE g[k] = G[k][g[k - 1]]
    <3>1. k - 1 \in 0 .. m /\ g[k - 1] = f[k - 1]
      OBVIOUS
    <3>2. CASE k = m + 1
      <4>1. k - 1 = m /\ g[k] = G[m + 1][f[m]]
        BY <3>2
      <4> HIDE DEF g
      <4> QED BY <3>1, <3>2, <4>1
    <3>3. CASE k # m + 1
      <4>1. k \in 1 .. m /\ g[k] = f[k]
        BY <3>3
      <4> HIDE DEF g
      <4> QED BY <2>1, <3>1, <4>1
    <3> QED BY <3>2, <3>3
  <2> HIDE DEF g
  <2>7. Is(g, m + 1)
    BY <2>4, <2>5, <2>6
  <2> HIDE DEF Is
  <2> QED BY <2>7
<1> HIDE DEF Good
<1>3. N \in Good
  BY <1>1, <1>2, Upwards
<1>4. PICK f : Is(f, N)
  <2> HIDE DEF Is
  <2> QED BY <1>3 DEF Good
<1>5. f = [k \in 0 .. N |-> f[k]] /\ f \in [0 .. N -> V]
  BY <1>4
<1>6. \A k \in 0 .. N : f[k] = IF k = 0 THEN base ELSE G[k][f[k - 1]]
  <2>1. \A k \in 0 .. N : k = 0 \/ k \in 1 .. N
    OBVIOUS
  <2> QED BY <1>4, <2>1
<1>7. f = [k \in 0 .. N |-> IF k = 0 THEN base ELSE G[k][f[k - 1]]]
  BY <1>5, <1>6
<1> QED BY <1>5, <1>7 DEF AreSteps

LEMMA JoinedIs ==
  ASSUME NEW contents, NEW rows, NEW j, NEW pushed, NEW r
  PROVE  r \in JoinedIn(contents, rows, j, pushed)
           <=> \E row \in rows : \E doc \in Default(j, FoundIn(contents, j, row, pushed)) :
                 r = [row EXCEPT ![j.alias] = doc]
BY DEF JoinedIn

LEMMA AbsentIsDoc == AbsentDoc \in Doc
BY DEF AbsentDoc, Doc, Missing

LEMMA BaseRowsAreRows ==
  ASSUME NEW q \in Query, NEW contents \in Database(q)
  PROVE  BaseRowsIn(contents) \subseteq Row
<1>1. Base \in Alias /\ contents[Base] \subseteq Doc
  BY JoinPipelineAssumption, QueryParts
<1> QED BY <1>1, AbsentIsDoc DEF BaseRowsIn, BaseRow, Row

\* A row with a document in the place of alias.
LEMMA RowWith ==
  ASSUME NEW row \in Row, NEW alias \in Alias, NEW doc \in Doc
  PROVE  /\ [row EXCEPT ![alias] = doc] \in Row
         /\ [row EXCEPT ![alias] = doc][alias] = doc
         /\ \A a \in Alias : a # alias => [row EXCEPT ![alias] = doc][a] = row[a]
BY DEF Row

LEMMA DefaultIs ==
  ASSUME NEW j \in Join, NEW contents, contents[j.alias] \subseteq Doc, NEW row, NEW pushed
  PROVE  /\ Default(j, FoundIn(contents, j, row, pushed)) \subseteq Doc
         /\ j.type = "INNER" =>
              Default(j, FoundIn(contents, j, row, pushed)) = FoundIn(contents, j, row, pushed)
<1>1. FoundIn(contents, j, row, pushed) \subseteq Doc
  BY FoundIs
<1> QED BY <1>1, AbsentIsDoc DEF Default

LEMMA JoinedAreRows ==
  ASSUME NEW q \in Query, NEW contents \in Database(q), NEW i \in 1 .. Len(q.joins),
         NEW rows \in SUBSET Row, NEW pushed
  PROVE  JoinedIn(contents, rows, q.joins[i], pushed) \subseteq Row
<1> DEFINE j == q.joins[i]
<1>1. j \in Join /\ j.alias \in Alias /\ contents[j.alias] \subseteq Doc
  BY QueryParts, JoinParts
<1> HIDE DEF j
<1>2. ASSUME NEW r \in JoinedIn(contents, rows, j, pushed) PROVE r \in Row
  <2>10. PICK row \in rows :
           \E doc \in Default(j, FoundIn(contents, j, row, pushed)) : r = [row EXCEPT ![j.alias] = doc]
    BY JoinedIs
  <2>1. PICK doc \in Default(j, FoundIn(contents, j, row, pushed)) : r = [row EXCEPT ![j.alias] = doc]
    BY <2>10
  <2>2. doc \in Doc
    BY <1>1, DefaultIs
  <2> QED BY <1>1, <2>1, <2>2, RowWith
<1> QED BY <1>2 DEF j

\* The rows of the joins alone.
IsPlain(rows, q, contents) ==
  /\ rows[0] = BaseRowsIn(contents)
  /\ \A k \in 1 .. Len(q.joins) :
       rows[k] = JoinedIn(contents, rows[k - 1], q.joins[k], NothingPushed)

LEMMA PlainAreRows ==
  ASSUME NEW q \in Query, NEW contents \in Database(q), NEW rows, IsPlain(rows, q, contents),
         NEW k \in 0 .. Len(q.joins)
  PROVE  rows[k] \in SUBSET Row
<1> DEFINE Good == {m \in Nat : m <= Len(q.joins) => rows[m] \in SUBSET Row}
<1>1. 0 \in Good
  BY BaseRowsAreRows DEF IsPlain
<1>2. ASSUME NEW m \in Nat, m \in Good PROVE m + 1 \in Good
  <2> SUFFICES ASSUME m + 1 <= Len(q.joins) PROVE rows[m + 1] \in SUBSET Row
    OBVIOUS
  <2>1. Len(q.joins) \in Nat
    BY QueryParts
  <2>2. m + 1 \in 1 .. Len(q.joins) /\ (m + 1) - 1 = m /\ m <= Len(q.joins)
    BY <2>1
  <2>3. rows[m + 1] = JoinedIn(contents, rows[m], q.joins[m + 1], NothingPushed)
    BY <2>2 DEF IsPlain
  <2>4. rows[m] \in SUBSET Row
    BY <1>2, <2>2
  <2>5. PICK i \in 1 .. Len(q.joins) : i = m + 1
    BY <2>2
  <2>6. JoinedIn(contents, rows[m], q.joins[i], NothingPushed) \subseteq Row
    BY <2>4, JoinedAreRows
  <2> QED BY <2>3, <2>5, <2>6
<1> HIDE DEF Good
<1>3. k \in Good
  <2>1. k \in Nat
    BY QueryParts
  <2> QED BY <1>1, <1>2, <2>1, Upwards
<1> QED BY <1>3 DEF Good

-----------------------------------------------------------------------------
(* Pushed conditions leave out only what the WHERE clause leaves out.      *)

\* The row meets what is pushed into the first k joins.
Kept(q, k, row) == \A i \in 1 .. k : MeetsPushed(q.joins[i], PushedOf(q), row)

\* The joins with pushed conditions lose only rows that do not meet them.
Loses(stream_, plain, q, k) ==
  /\ stream_ \subseteq plain
  /\ \A row \in plain : Kept(q, k, row) => row \in stream_

LEMMA PushedParts ==
  ASSUME NEW q \in Query, NEW a \in DOMAIN PushedOf(q)
  PROVE  /\ a \in Alias /\ PushedOf(q)[a] \in Tree
         /\ \A l \in LookupsIn[PushedOf(q)[a]] : l \in LookupsIn[q.where] /\ l.lhs[1] = a
         /\ \A row \in Row : Meets(q.where, FALSE, row) => Meets(PushedOf(q)[a], FALSE, row)
<1>1. PICK no \in BOOLEAN : no = FALSE
  OBVIOUS
<1>2. AreParts(q.where, no, Height)
  BY QueryParts, PushablesAreParts
<1>3. DOMAIN PushedOf(q) \subseteq Alias /\ IsPart(PushedOf(q)[a], a, q.where, FALSE, Height)
  BY <1>1, <1>2 DEF AreParts, PushedOf
<1> QED BY <1>3 DEF IsPart, Asks, Tree

LEMMA MeetingIsKept ==
  ASSUME NEW q \in Query, NEW row \in Row, Meets(q.where, FALSE, row), NEW k
  PROVE  Kept(q, k, row)
BY PushedParts DEF Kept, MeetsPushed

LEMMA BeforeIs ==
  ASSUME NEW q \in Query, NEW k \in 1 .. Len(q.joins)
  PROVE  /\ Before(q, k) \subseteq Alias
         /\ \A i \in 1 .. (k - 1) : Before(q, i) \subseteq Before(q, k)
                                     /\ q.joins[i].alias \in Before(q, k)
<1>1. Base \in Alias /\ \A i \in 1 .. Len(q.joins) : q.joins[i].alias \in Alias
  BY QueryParts, JoinParts, JoinPipelineAssumption
<1>2. Len(q.joins) \in Nat
  BY QueryParts
<1> QED BY <1>1, <1>2 DEF Before

\* A condition that was pushed into an earlier join does not see a later one.
LEMMA KeptBefore ==
  ASSUME NEW q \in Query, ComparesEarlier(q), NEW k \in Nat, k + 1 \in 1 .. Len(q.joins),
         NEW row \in Row, NEW doc \in Doc
  PROVE  Kept(q, k, row) <=> Kept(q, k, [row EXCEPT ![q.joins[k + 1].alias] = doc])
<1> DEFINE alias == q.joins[k + 1].alias
           row2 == [row EXCEPT ![alias] = doc]
<1>1. alias \in Alias /\ alias \notin Before(q, k + 1)
  BY QueryParts, JoinParts
<1>2. row2 \in Row /\ \A a \in Alias : a # alias => row2[a] = row[a]
  BY <1>1, RowWith
<1> HIDE DEF alias, row2
<1>3. ASSUME NEW i \in 1 .. k
      PROVE  MeetsPushed(q.joins[i], PushedOf(q), row) <=> MeetsPushed(q.joins[i], PushedOf(q), row2)
  <2> DEFINE a == q.joins[i].alias
             p == PushedOf(q)[a]
  <2> SUFFICES ASSUME a \in DOMAIN PushedOf(q)
               PROVE  Meets(p, FALSE, row) <=> Meets(p, FALSE, row2)
    BY DEF MeetsPushed
  <2>1. /\ p \in Tree
        /\ \A l \in LookupsIn[p] : l \in LookupsIn[q.where] /\ l.lhs[1] = a
    <3>1. PICK b \in DOMAIN PushedOf(q) : b = a /\ PushedOf(q)[b] = p
      OBVIOUS
    <3> HIDE DEF a, p
    <3> QED BY <3>1, PushedParts
  <2>2. i \in 1 .. Len(q.joins) /\ i \in 1 .. ((k + 1) - 1)
    BY QueryParts
  <2>3. Before(q, i) \subseteq Before(q, k + 1) /\ a \in Before(q, k + 1)
        /\ Before(q, k + 1) \subseteq Alias
    BY <2>2, BeforeIs
  <2>4. \A l \in LookupsIn[q.where] :
          l.lhs[1] = a /\ ComparesColumns(l) => l.column[1] \in Before(q, i) \cup {a}
    BY <2>2, QueryParts DEF ComparesEarlier
  <2> HIDE DEF a, p
  <2>5. \A b \in Before(q, k + 1) : row2[b] = row[b]
    BY <1>1, <1>2, <2>3
  <2>6. ASSUME NEW l \in LookupsIn[p] PROVE SameValues(l, row, row2)
    <3>1. l.lhs[1] \in Before(q, k + 1)
      BY <2>1, <2>3
    <3>2. ComparesColumns(l) => l.column[1] \in Before(q, k + 1)
      BY <2>1, <2>3, <2>4
    <3> QED BY <2>5, <3>1, <3>2 DEF SameValues, ValueOf
  <2> QED BY <1>2, <2>1, <2>6, MeetsDependsOnColumns
<1>4. Kept(q, k, row) <=> Kept(q, k, row2)
  BY <1>3 DEF Kept
<1> QED BY <1>4 DEF row2, alias

LEMMA JoinLoses ==
  ASSUME NEW q \in Query, ComparesEarlier(q), NEW contents \in Database(q),
         NEW k \in Nat, k + 1 \in 1 .. Len(q.joins),
         NEW plain \in SUBSET Row, NEW some, Loses(some, plain, q, k)
  PROVE  Loses(JoinedIn(contents, some, q.joins[k + 1], PushedOf(q)),
               JoinedIn(contents, plain, q.joins[k + 1], NothingPushed), q, k + 1)
<1> DEFINE j == q.joins[k + 1]
           P == PushedOf(q)
           With(row, doc) == [row EXCEPT ![j.alias] = doc]
<1>1. /\ j \in Join /\ j.alias \in Alias /\ contents[j.alias] \subseteq Doc
      /\ j.type \in {"INNER", "LOUTER"}
  BY QueryParts, JoinParts
<1>2. ASSUME NEW row, NEW doc
      PROVE  /\ doc \in FoundIn(contents, j, row, P)
                  <=> /\ doc \in FoundIn(contents, j, row, NothingPushed)
                      /\ MeetsPushed(j, P, With(row, doc))
  <2>1. MeetsPushed(j, NothingPushed, With(row, doc))
    BY DEF MeetsPushed, NothingPushed
  <2> HIDE DEF j, P
  <2> QED BY <2>1, FoundIs
<1>3. ASSUME NEW row, j.type = "LOUTER"
      PROVE  FoundIn(contents, j, row, P) = FoundIn(contents, j, row, NothingPushed)
  <2>1. \A r : MeetsPushed(j, P, r)
    BY <1>3 DEF MeetsPushed
  <2>2. /\ FoundIn(contents, j, row, P) \subseteq contents[j.alias]
        /\ FoundIn(contents, j, row, NothingPushed) \subseteq contents[j.alias]
    BY DEF FoundIn
  <2> HIDE DEF j, P, With
  <2>3. ASSUME NEW doc
        PROVE  doc \in FoundIn(contents, j, row, P)
                 <=> doc \in FoundIn(contents, j, row, NothingPushed)
    BY <1>2, <2>1
  <2> QED BY <2>2, <2>3
<1>4. ASSUME NEW row \in Row, NEW doc \in Doc
      PROVE  Kept(q, k + 1, With(row, doc)) => Kept(q, k, row) /\ MeetsPushed(j, P, With(row, doc))
  <2>1. Kept(q, k, row) <=> Kept(q, k, With(row, doc))
    BY KeptBefore
  <2>2. k + 1 \in 1 .. (k + 1) /\ 1 .. k \subseteq 1 .. (k + 1)
    OBVIOUS
  <2> QED BY <2>1, <2>2 DEF Kept
<1> HIDE DEF j, P, With
<1>5. ASSUME NEW r \in JoinedIn(contents, some, j, P)
      PROVE  r \in JoinedIn(contents, plain, j, NothingPushed)
  <2>10. PICK row \in some :
           \E doc \in Default(j, FoundIn(contents, j, row, P)) : r = With(row, doc)
    BY JoinedIs DEF With
  <2>1. PICK doc \in Default(j, FoundIn(contents, j, row, P)) : r = With(row, doc)
    BY <2>10
  <2>2. doc \in Default(j, FoundIn(contents, j, row, NothingPushed))
    <3>1. CASE j.type = "INNER"
      <4>1. doc \in FoundIn(contents, j, row, P)
        BY <1>1, <2>1, <3>1, DefaultIs
      <4>2. doc \in FoundIn(contents, j, row, NothingPushed)
        BY <1>2, <4>1
      <4> QED BY <1>1, <3>1, <4>2, DefaultIs
    <3>2. CASE j.type = "LOUTER"
      BY <1>3, <2>1, <3>2
    <3> QED BY <1>1, <3>1, <3>2
  <2>3. row \in plain
    BY <2>1 DEF Loses
  <2> QED BY <2>1, <2>2, <2>3, JoinedIs DEF With
<1>6. ASSUME NEW r \in JoinedIn(contents, plain, j, NothingPushed), Kept(q, k + 1, r)
      PROVE  r \in JoinedIn(contents, some, j, P)
  <2>10. PICK row \in plain :
           \E doc \in Default(j, FoundIn(contents, j, row, NothingPushed)) : r = With(row, doc)
    BY JoinedIs DEF With
  <2>1. PICK doc \in Default(j, FoundIn(contents, j, row, NothingPushed)) : r = With(row, doc)
    BY <2>10
  <2>2. doc \in Doc /\ row \in Row
    BY <1>1, <2>1, DefaultIs
  <2>3. Kept(q, k, row) /\ MeetsPushed(j, P, With(row, doc))
    BY <1>4, <1>6, <2>1, <2>2
  <2>4. row \in some
    BY <2>1, <2>3 DEF Loses
  <2>5. doc \in Default(j, FoundIn(contents, j, row, P))
    <3>1. CASE j.type = "INNER"
      <4>1. doc \in FoundIn(contents, j, row, NothingPushed)
        BY <1>1, <2>1, <3>1, DefaultIs
      <4>2. doc \in FoundIn(contents, j, row, P)
        BY <1>2, <2>3, <4>1
      <4> QED BY <1>1, <3>1, <4>2, DefaultIs
    <3>2. CASE j.type = "LOUTER"
      BY <1>3, <2>1, <3>2
    <3> QED BY <1>1, <3>1, <3>2
  <2> QED BY <2>1, <2>4, <2>5, JoinedIs DEF With
<1>7. Loses(JoinedIn(contents, some, j, P), JoinedIn(contents, plain, j, NothingPushed), q, k + 1)
  BY <1>5, <1>6 DEF Loses
<1> QED BY <1>7 DEF j, P

-----------------------------------------------------------------------------
(* Translations that raise.                                                *)

\* A translation raises EmptyResultSet only for a query that has no result.
LEMMA EmptyMeetsNothing ==
  ASSUME NEW q \in Query, NEW i \in 1 .. Len(q.joins), NEW k,
         k \in DOMAIN Nested(q.joins[i], PushedOf(q)),
         Nested(q.joins[i], PushedOf(q))[k] = Empty
  PROVE  \/ FilterOf(q.joins[i]) = Empty
         \/ \A row \in Row : ~Meets(q.where, FALSE, row)
<1> DEFINE j == q.joins[i]
           P == PushedOf(q)
<1> HIDE DEF j
<1>1. IsNested(Empty, j, P)
  <2> HIDE DEF P
  <2>1. Nested(j, P)[k] = Empty /\ k \in DOMAIN Nested(j, P)
    BY DEF j, P
  <2> QED BY <2>1, NestedIs
<1>2. CASE FilterOf(j) = Empty
  BY <1>2 DEF j
<1>3. CASE j.alias \in DOMAIN P /\ AsMql[P[j.alias]][FALSE] = Empty
  <2>1. \A row : ~Meets(P[j.alias], FALSE, row)
    BY <1>3, SelectedIs DEF Meets
  <2>2. \A row \in Row : Meets(q.where, FALSE, row) => Meets(P[j.alias], FALSE, row)
    BY <1>3, PushedParts
  <2> QED BY <2>1, <2>2
<1> QED BY <1>1, <1>2, <1>3 DEF IsNested

LEMMA EmptyIsNested ==
  ASSUME NEW j, NEW pushed, FilterOf(j) = Empty
  PROVE  \E k \in {1, 2} : k \in DOMAIN Nested(j, pushed) /\ Nested(j, pushed)[k] = Empty
<1>1. Empty # Full
  BY MqlParts
<1>2. IsNested(Empty, j, pushed)
  BY <1>1 DEF IsNested
<1> QED BY <1>2, NestedIs

-----------------------------------------------------------------------------
(* Type correctness.                                                       *)

\* Where a query stands and what it has read so far.
TypeInv ==
  /\ query \in Query /\ tables \in Database(query)
  /\ stage \in Stage /\ joined \in 0 .. Len(Joins) /\ stream \subseteq Row
  /\ stage = "compile" => joined = 0 /\ stream = {}
  /\ stage = "join" => joined < Len(Joins)
  /\ stage = "match" => joined = Len(Joins)

LEMMA JoinedHere ==
  ASSUME NEW rows, NEW j, NEW pushed
  PROVE  Joined(rows, j, pushed) = JoinedIn(tables, rows, j, pushed)
BY DEF Joined, JoinedIn, Found, FoundIn

LEMMA RunJoinIs ==
  ASSUME TypeInv, RunJoin
  PROVE  /\ joined + 1 \in 1 .. Len(query.joins) /\ joined' = joined + 1
         /\ stream' = JoinedIn(tables, stream, query.joins[joined + 1], PushedOf(query))
         /\ query' = query /\ tables' = tables
         /\ stage' = IF joined + 1 = Len(query.joins) THEN "match" ELSE "join"
<1>1. Len(query.joins) \in Nat
  BY QueryParts DEF TypeInv
<1>2. joined + 1 \in 1 .. Len(query.joins)
  BY <1>1 DEF TypeInv, RunJoin, Joins
<1>3. stream' = Joined(stream, query.joins[joined + 1], PushedOf(query))
  BY DEF RunJoin, Joins, Pushed, PushedOf
<1>4. stream' = JoinedIn(tables, stream, query.joins[joined + 1], PushedOf(query))
  BY <1>3, JoinedHere
<1> QED BY <1>2, <1>4 DEF RunJoin, Joins

LEMMA TypeStep ==
  ASSUME TypeInv, [Next]_vars
  PROVE  TypeInv'
<1>1. Len(query.joins) \in Nat /\ query \in Query /\ tables \in Database(query)
  BY QueryParts DEF TypeInv
<1>2. CASE Compile
  <2>1. BaseRowsIn(tables) \subseteq Row
    BY <1>1, BaseRowsAreRows
  <2>2. query' = query /\ tables' = tables /\ joined' = joined /\ joined = 0
    BY <1>2 DEF Compile, TypeInv
  <2>3. stream' \subseteq Row
    BY <1>2, <2>1 DEF Compile, TypeInv, BaseRowsIn
  <2>4. \/ stage' \in {"raised", "done"}
        \/ stage' = "match" /\ Len(query.joins) = 0
        \/ stage' = "join" /\ 0 < Len(query.joins)
    <3>1. query.joins \in Seq(Join)
      BY <1>1, QueryParts
    <3> QED BY <1>1, <1>2, <3>1 DEF Compile, Joins
  <2> QED BY <1>1, <2>2, <2>3, <2>4 DEF TypeInv, Joins, Stage
<1>3. CASE RunJoin
  <2>1. /\ joined + 1 \in 1 .. Len(query.joins) /\ joined' = joined + 1
        /\ stream' = JoinedIn(tables, stream, query.joins[joined + 1], PushedOf(query))
        /\ query' = query /\ tables' = tables
        /\ stage' = IF joined + 1 = Len(query.joins) THEN "match" ELSE "join"
    BY <1>3, RunJoinIs
  <2>2. stream' \subseteq Row
    <3>1. PICK i \in 1 .. Len(query.joins) : i = joined + 1
      BY <2>1
    <3>2. stream \in SUBSET Row
      BY DEF TypeInv
    <3>3. JoinedIn(tables, stream, query.joins[i], PushedOf(query)) \subseteq Row
      BY <1>1, <3>2, JoinedAreRows
    <3> QED BY <2>1, <3>1, <3>3
  <2> QED BY <1>1, <2>1, <2>2 DEF TypeInv, Joins, Stage
<1>4. CASE RunMatch
  <2>1. stream' \subseteq stream /\ stage' = "done"
        /\ query' = query /\ tables' = tables /\ joined' = joined
    BY <1>4 DEF RunMatch
  <2> QED BY <2>1 DEF TypeInv, Joins, Stage
<1>5. CASE UNCHANGED vars
  BY <1>5 DEF vars, TypeInv, Joins
<1> QED BY <1>2, <1>3, <1>4, <1>5 DEF Next

LEMMA TypeInit == Init => TypeInv
<1> SUFFICES ASSUME Init PROVE TypeInv
  OBVIOUS
<1>1. Len(query.joins) \in Nat
  BY QueryParts DEF Init
<1> QED BY <1>1 DEF Init, TypeInv, Joins, Stage

\* In every run the stages follow one another and every document of the stream binds
\* the aliases of the query to documents: get_lookup_pipeline() adds one stage per join.
THEOREM TypeCorrect == Spec => []TypeInv
<1>1. TypeInv /\ [Next]_vars => TypeInv'
  BY TypeStep
<1> QED BY <1>1, TypeInit, PTL DEF Spec

-----------------------------------------------------------------------------
(* The two translations.                                                   *)

LEMMA FormsAgreeHere ==
  ASSUME TypeInv, FormsAgree(query)
  PROVE  PathAndExprAgree
<1> SUFFICES ASSUME NEW row \in stream
             PROVE  Selected(AsMql[query.where][FALSE], row)
                      <=> Selected(AsMql[query.where][TRUE], row)
  BY DEF PathAndExprAgree
<1>1. query.where \in Tree /\ row \in Row
  BY QueryParts DEF TypeInv
<1>2. Meets(query.where, FALSE, row) <=> Meets(query.where, TRUE, row)
  BY <1>1, FormsMeet DEF FormsAgree
<1> QED BY <1>2 DEF Meets

\* As a path and as an expression, a WHERE clause of any height selects the same rows:
\* where_node() gives the same result whichever operators its lookups use, for queries
\* with constants that are numbers and without ranges that lack a start.
THEOREM PathAndExprAgreeCorrect == Spec => [](FormsAgree(query) => PathAndExprAgree)
<1>1. TypeInv => (FormsAgree(query) => PathAndExprAgree)
  BY FormsAgreeHere
<1> QED BY <1>1, TypeCorrect, PTL

-----------------------------------------------------------------------------
(* Pushing conditions is safe.                                             *)

NoneIsEmpty(q) == \A i \in 1 .. Len(q.joins) : FilterOf(q.joins[i]) # Empty

\* What the query returns without pushed conditions.
PlainResult(rows, q) ==
  {row \in rows[Len(q.joins)] : NoneIsEmpty(q) /\ Meets(q.where, FALSE, row)}

\* The stream lacks only rows that do not meet what is pushed into the joins that were
\* run, and in the end none that the WHERE clause selects.
RunInv ==
  /\ stage \in {"join", "match"} => NoneIsEmpty(query)
  /\ stage \in {"join", "match"} /\ ComparesEarlier(query) =>
       \A rows : IsPlain(rows, query, tables) => Loses(stream, rows[joined], query, joined)
  /\ stage = "done" /\ ComparesEarlier(query) =>
       \A rows : IsPlain(rows, query, tables) => stream = PlainResult(rows, query)

LEMMA CompileRuns ==
  ASSUME TypeInv, Compile
  PROVE  RunInv'
<1>1. query \in Query /\ tables \in Database(query) /\ joined = 0 /\ stream = {}
      /\ Len(query.joins) \in Nat /\ DOMAIN query.joins = 1 .. Len(query.joins)
  BY QueryParts DEF TypeInv, Compile
<1>2. query' = query /\ tables' = tables /\ joined' = 0
  BY <1>1 DEF Compile
<1>3. CASE Raises = {}
  <2>1. stage' \in {"join", "match"} /\ stream' = BaseRowsIn(tables)
    BY <1>3 DEF Compile, BaseRowsIn
  <2>2. NoneIsEmpty(query)
    <3> SUFFICES ASSUME NEW i \in 1 .. Len(query.joins), FilterOf(query.joins[i]) = Empty
                 PROVE  FALSE
      BY DEF NoneIsEmpty
    <3>1. PICK k \in {1, 2} : /\ k \in DOMAIN Nested(query.joins[i], PushedOf(query))
                              /\ Nested(query.joins[i], PushedOf(query))[k] = Empty
      BY EmptyIsNested
    <3>2. <<i, k>> \in Raises
      BY <1>1, <3>1 DEF Raises, Joins, Pushed, PushedOf
    <3> QED BY <1>3, <3>2
  <2>3. ASSUME NEW rows, IsPlain(rows, query, tables) PROVE Loses(stream', rows[0], query, 0)
    BY <2>1, <2>3 DEF IsPlain, Loses
  <2>4. stage' # "done"
    BY <2>1
  <2> QED BY <1>2, <2>2, <2>3, <2>4 DEF RunInv
<1>4. CASE Raises # {}
  <2>1. PICK at \in Raises :
          stage' = IF Nested(Joins[at[1]], Pushed)[at[2]] = Full THEN "raised" ELSE "done"
    BY <1>4 DEF Compile
  <2>2. stream' = {}
    BY <1>1, <1>4 DEF Compile
  <2>3. ASSUME stage' = "done", NEW rows, IsPlain(rows, query, tables)
        PROVE  PlainResult(rows, query) = {}
    <3>1. PICK i, k : i = at[1] /\ k = at[2]
      OBVIOUS
    <3>2. /\ i \in 1 .. Len(query.joins)
          /\ k \in DOMAIN Nested(query.joins[i], PushedOf(query))
          /\ Nested(query.joins[i], PushedOf(query))[k] = Empty
      BY <1>1, <2>1, <2>3, <3>1 DEF Raises, Joins, Pushed, PushedOf
    <3>3. \/ FilterOf(query.joins[i]) = Empty
          \/ \A row \in Row : ~Meets(query.where, FALSE, row)
      BY <1>1, <3>2, EmptyMeetsNothing
    <3>4. CASE FilterOf(query.joins[i]) = Empty
      BY <3>2, <3>4 DEF PlainResult, NoneIsEmpty
    <3>5. CASE \A row \in Row : ~Meets(query.where, FALSE, row)
      <4>1. Len(query.joins) \in 0 .. Len(query.joins)
        BY <1>1
      <4>2. rows[Len(query.joins)] \in SUBSET Row
        BY <1>1, <2>3, <4>1, PlainAreRows
      <4> QED BY <3>5, <4>2 DEF PlainResult
    <3> QED BY <3>3, <3>4, <3>5
  <2>4. stage' \notin {"join", "match"}
    BY <2>1
  <2> QED BY <1>2, <2>2, <2>3, <2>4 DEF RunInv
<1> QED BY <1>3, <1>4

LEMMA JoinRuns ==
  ASSUME TypeInv, RunInv, RunJoin
  PROVE  RunInv'
<1>1. /\ joined + 1 \in 1 .. Len(query.joins) /\ joined' = joined + 1
      /\ stream' = JoinedIn(tables, stream, query.joins[joined + 1], PushedOf(query))
      /\ query' = query /\ tables' = tables
      /\ stage' = IF joined + 1 = Len(query.joins) THEN "match" ELSE "join"
  BY RunJoinIs
<1>2. stage = "join" /\ query \in Query /\ tables \in Database(query) /\ joined \in Nat
  <2>1. Len(query.joins) \in Nat
    BY QueryParts DEF TypeInv
  <2> QED BY <2>1 DEF RunJoin, TypeInv, Joins
<1>3. NoneIsEmpty(query)
  BY <1>2 DEF RunInv
<1>4. ASSUME ComparesEarlier(query), NEW rows, IsPlain(rows, query, tables)
      PROVE  Loses(stream', rows[joined + 1], query, joined + 1)
  <2>1. Loses(stream, rows[joined], query, joined)
    BY <1>2, <1>4 DEF RunInv
  <2>2. rows[joined] \in SUBSET Row
    <3>1. joined \in 0 .. Len(query.joins)
      BY DEF TypeInv, Joins
    <3> QED BY <1>2, <1>4, <3>1, PlainAreRows
  <2>3. rows[joined + 1] =
          JoinedIn(tables, rows[joined], query.joins[joined + 1], NothingPushed)
    <3>1. (joined + 1) - 1 = joined
      BY <1>2
    <3> QED BY <1>1, <1>4, <3>1 DEF IsPlain
  <2> QED BY <1>1, <1>2, <1>4, <2>1, <2>2, <2>3, JoinLoses
<1>5. stage' # "done"
  BY <1>1
<1> QED BY <1>1, <1>3, <1>4, <1>5 DEF RunInv

LEMMA MatchRuns ==
  ASSUME TypeInv, RunInv, RunMatch
  PROVE  RunInv'
<1>1. /\ query' = query /\ tables' = tables /\ stage' = "done"
      /\ stream' = {row \in stream : Meets(query.where, FALSE, row)}
      /\ stage = "match" /\ joined = Len(query.joins)
  BY DEF RunMatch, TypeInv, Joins, Meets
<1>2. query \in Query /\ tables \in Database(query) /\ Len(query.joins) \in Nat
  BY QueryParts DEF TypeInv
<1>3. ASSUME ComparesEarlier(query), NEW rows, IsPlain(rows, query, tables)
      PROVE  stream' = PlainResult(rows, query)
  <2>1. NoneIsEmpty(query) /\ Loses(stream, rows[joined], query, joined)
    BY <1>1, <1>3 DEF RunInv
  <2>2. rows[joined] \in SUBSET Row
    <3>1. joined \in 0 .. Len(query.joins)
      BY <1>1, <1>2
    <3> QED BY <1>2, <1>3, <3>1, PlainAreRows
  <2>3. \A row \in rows[joined] : Meets(query.where, FALSE, row) => row \in stream
    BY <1>2, <2>1, <2>2, MeetingIsKept DEF Loses
  <2>4. stream \subseteq rows[joined]
    BY <2>1 DEF Loses
  <2> QED BY <1>1, <2>1, <2>3, <2>4 DEF PlainResult
<1>4. stage' \notin {"join", "match"}
  BY <1>1
<1> QED BY <1>1, <1>3, <1>4 DEF RunInv

LEMMA RunCorrect == Spec => []RunInv
<1>1. Init => RunInv
  BY DEF Init, RunInv
<1>2. ASSUME TypeInv, RunInv, [Next]_vars PROVE RunInv'
  <2>1. CASE UNCHANGED vars
    BY <1>2, <2>1 DEF vars, RunInv
  <2> QED BY <1>2, <2>1, CompileRuns, JoinRuns, MatchRuns DEF Next
<1> QED BY <1>1, <1>2, TypeCorrect, PTL DEF Spec

LEMMA PlainRowsIs ==
  ASSUME TypeInv
  PROVE  IsPlain(PlainRows, query, tables)
<1>1. query \in Query /\ tables \in Database(query) /\ Len(query.joins) \in Nat
      /\ BaseRows \in SUBSET Row /\ BaseRows = BaseRowsIn(tables)
  BY QueryParts, BaseRowsAreRows DEF TypeInv, BaseRows, BaseRowsIn
<1> DEFINE N == Len(query.joins)
           V == SUBSET Row
           G == [k \in 1 .. N |-> [rows \in V |-> Joined(rows, query.joins[k], NothingPushed)]]
<1>2. ASSUME NEW k \in 1 .. N, NEW v \in V
      PROVE  G[k][v] \in V /\ G[k][v] = Joined(v, query.joins[k], NothingPushed)
  <2>1. Joined(v, query.joins[k], NothingPushed) \subseteq Row
    BY <1>1, JoinedAreRows, JoinedHere
  <2> QED BY <2>1
<1> HIDE DEF G, V
<1>3. PICK f \in [0 .. N -> V] :
        f = [k \in 0 .. N |-> IF k = 0 THEN BaseRows ELSE G[k][f[k - 1]]]
  <2>1. BaseRows \in V
    BY <1>1 DEF V
  <2> HIDE DEF N
  <2>2. N \in Nat
    BY <1>1 DEF N
  <2>3. StepsStayIn(G, N, V)
    BY <1>2 DEF N, StepsStayIn
  <2>4. PICK base \in V : base = BaseRows
    BY <2>1
  <2>5. PICK f : AreSteps(f, base, G, N, V)
    BY <2>2, <2>3, StepsExist
  <2> QED BY <2>4, <2>5 DEF AreSteps
<1>4. \A k \in 0 .. N : k # 0 => G[k][f[k - 1]] = Joined(f[k - 1], query.joins[k], NothingPushed)
  <2>1. \A k \in 0 .. N : k # 0 => k \in 1 .. N /\ f[k - 1] \in V
    <3>1. \A k \in 0 .. N : k # 0 => k \in 1 .. N /\ k - 1 \in 0 .. N
      BY <1>1
    <3> HIDE DEF N
    <3> QED BY <3>1
  <2> QED BY <1>2, <2>1
<1>5. f = [k \in 0 .. N |-> IF k = 0 THEN BaseRows
                             ELSE Joined(f[k - 1], query.joins[k], NothingPushed)]
  BY <1>3, <1>4
<1>6. PlainRows = [k \in 0 .. N |-> IF k = 0 THEN BaseRows
                                    ELSE Joined(PlainRows[k - 1], query.joins[k], NothingPushed)]
  BY <1>5 DEF PlainRows, Joins
<1>9. N \in Nat /\ 0 \in 0 .. N /\ \A k \in 1 .. N : k \in 0 .. N /\ k # 0
  BY <1>1
<1> HIDE DEF N
<1>7. PlainRows[0] = BaseRows
  BY <1>6, <1>9
<1>8. \A k \in 1 .. N : PlainRows[k] = Joined(PlainRows[k - 1], query.joins[k], NothingPushed)
  BY <1>6, <1>9
<1> QED BY <1>1, <1>7, <1>8, JoinedHere DEF IsPlain, N

LEMMA PushdownHere ==
  ASSUME TypeInv, RunInv, ComparesEarlier(query)
  PROVE  PushdownIsSafe
<1>1. IsPlain(PlainRows, query, tables)
  BY PlainRowsIs
<1>2. stage = "done" => stream = PlainResult(PlainRows, query)
  BY <1>1 DEF RunInv
<1>3. DOMAIN query.joins = 1 .. Len(query.joins)
  BY QueryParts DEF TypeInv
<1> QED BY <1>2, <1>3 DEF PushdownIsSafe, PlainResult, NoneIsEmpty, Joins, Meets

\* Whatever the WHERE clause, the joins and the data: a query whose lookups compare no
\* column with one that is joined later returns with pushed conditions what it returns
\* without, which _collect_pushable() and join() rely on (query.py:276).
THEOREM PushdownIsSafeCorrect == Spec => [](ComparesEarlier(query) => PushdownIsSafe)
<1>1. TypeInv /\ RunInv => (ComparesEarlier(query) => PushdownIsSafe)
  BY PushdownHere
<1> QED BY <1>1, TypeCorrect, RunCorrect, PTL

-----------------------------------------------------------------------------
(* The result is that of SQL.                                              *)

\* The aliases are bound to documents of their tables.
BoundIn(row, contents, aliases) == \A a \in aliases : row[a] \in contents[a]

LEMMA ValuesAreCompared ==
  ASSUME NEW n, NEW contents, NEW aliases, NEW row,
         HasConstantsAndValues(n, contents, aliases), BoundIn(row, contents, aliases)
  PROVE  \A l \in LookupsIn[n] : HasConstants(l) /\ ComparesNumbers(l, row)
<1>1. ASSUME NEW column, HasValue(contents, aliases, column) PROVE ~IsNull(ValueOf(row, column))
  BY <1>1 DEF HasValue, BoundIn, ValueOf
<1> QED BY <1>1 DEF HasConstantsAndValues, ComparesNumbers

LEMMA ConditionMeansTheSame ==
  ASSUME NEW n \in Tree, FALSE \in NullsHidden[n], NEW row \in Row,
         NEW contents, NEW aliases,
         HasConstantsAndValues(n, contents, aliases), BoundIn(row, contents, aliases)
  PROVE  Meets(n, FALSE, row) <=> Sql[n][row] = "T"
<1>1. MeansTheSame(n, row)
  BY ValuesAreCompared, SqlMeets
<1> QED BY <1>1 DEF MeansTheSame, Hides

LEMMA PresentIs ==
  ASSUME NEW q \in Query, NEW k \in Nat, k + 1 \in 1 .. Len(q.joins)
  PROVE  /\ Present(q, k + 1) \subseteq Before(q, k + 1)
         /\ q.joins[k + 1].alias \notin Present(q, k + 1)
         /\ \A a \in Present(q, k + 2) :
              \/ a \in Present(q, k + 1)
              \/ a = q.joins[k + 1].alias /\ q.joins[k + 1].type = "INNER"
<1>1. Present(q, k + 1) \subseteq Before(q, k + 1)
  BY DEF Present, Before
<1>2. q.joins[k + 1].alias \notin Before(q, k + 1)
  BY QueryParts
<1>3. ASSUME NEW a \in Present(q, k + 2)
      PROVE  \/ a \in Present(q, k + 1)
             \/ a = q.joins[k + 1].alias /\ q.joins[k + 1].type = "INNER"
  <2>1. CASE a = Base
    BY <2>1 DEF Present
  <2>2. CASE a # Base
    <3>1. PICK m \in 1 .. ((k + 2) - 1) : a = q.joins[m].alias /\ q.joins[m].type = "INNER"
      BY <2>2 DEF Present
    <3>2. CASE m = k + 1
      BY <3>1, <3>2
    <3>3. CASE m # k + 1
      <4>1. m \in 1 .. ((k + 1) - 1)
        BY <3>3
      <4> QED BY <3>1, <4>1 DEF Present
    <3> QED BY <3>2, <3>3
  <2> QED BY <2>1, <2>2
<1> QED BY <1>1, <1>2, <1>3

\* The join with number k + 1 finds what SQL finds.
LEMMA FoundMatches ==
  ASSUME NEW q \in Query, NEW contents \in Database(q), NEW k \in Nat,
         k + 1 \in 1 .. Len(q.joins), JoinsByValue(q, contents, k + 1),
         FALSE \in NullsHidden[q.joins[k + 1].condition],
         NEW row \in Row, BoundIn(row, contents, Present(q, k + 1))
  PROVE  FoundIn(contents, q.joins[k + 1], row, NothingPushed)
           = SqlMatchesIn(contents, q.joins[k + 1], row)
<1> DEFINE j == q.joins[k + 1]
           aliases == Present(q, k + 1)
<1>1. /\ j \in Join /\ j.alias \in Alias /\ contents[j.alias] \subseteq Doc
      /\ j.condition \in Tree /\ j.alias \notin aliases /\ aliases \subseteq Alias
  <2>1. PICK i \in 1 .. Len(q.joins) : i = k + 1
    OBVIOUS
  <2>2. Before(q, i) \subseteq Alias
    BY BeforeIs
  <2>3. aliases \subseteq Before(q, k + 1) /\ j.alias \notin aliases
    BY PresentIs
  <2> QED BY <2>1, <2>2, <2>3, QueryParts, JoinParts
<1>2. /\ HasConstantsAndValues(j.condition, contents, aliases \cup {j.alias})
      /\ \/ \A doc \in contents[j.alias] : ~IsNull(doc[j.to])
         \/ HasValue(contents, aliases, <<j.parent, j.on>>)
      /\ FALSE \in NullsHidden[j.condition]
      /\ BoundIn(row, contents, aliases)
  BY DEF JoinsByValue
<1> HIDE DEF j, aliases
<1>3. ASSUME NEW doc \in contents[j.alias]
      PROVE  KeysMatch(j, row, doc) <=> ~IsNull(row[j.parent][j.on]) /\ doc[j.to] = row[j.parent][j.on]
  <2>1. ~IsNull(doc[j.to]) \/ ~IsNull(row[j.parent][j.on])
    BY <1>2 DEF HasValue, BoundIn
  <2> QED BY <2>1 DEF KeysMatch
<1>4. ASSUME NEW doc \in contents[j.alias]
      PROVE  Meets(j.condition, FALSE, [row EXCEPT ![j.alias] = doc])
               <=> Sql[j.condition][[row EXCEPT ![j.alias] = doc]] = "T"
  <2>1. PICK row2 : row2 = [row EXCEPT ![j.alias] = doc]
    OBVIOUS
  <2>2. /\ row2 \in Row /\ row2[j.alias] = doc
        /\ \A a \in Alias : a # j.alias => row2[a] = row[a]
    <3>1. doc \in Doc
      BY <1>1
    <3>2. PICK b \in Alias, d \in Doc : b = j.alias /\ d = doc
      BY <1>1, <3>1
    <3>3. /\ [row EXCEPT ![b] = d] \in Row
          /\ [row EXCEPT ![b] = d][b] = d
          /\ \A a \in Alias : a # b => [row EXCEPT ![b] = d][a] = row[a]
      BY RowWith
    <3> QED BY <2>1, <3>2, <3>3
  <2>3. BoundIn(row2, contents, aliases \cup {j.alias})
    BY <1>1, <1>2, <2>2 DEF BoundIn
  <2>4. Meets(j.condition, FALSE, row2) <=> Sql[j.condition][row2] = "T"
    BY <1>1, <1>2, <2>2, <2>3, ConditionMeansTheSame
  <2> QED BY <2>1, <2>4
<1>5. ASSUME NEW doc
      PROVE  doc \in FoundIn(contents, j, row, NothingPushed) <=> doc \in SqlMatchesIn(contents, j, row)
  <2>1. \A r : MeetsPushed(j, NothingPushed, r)
    BY DEF MeetsPushed, NothingPushed
  <2>2. doc \in FoundIn(contents, j, row, NothingPushed)
           <=> /\ doc \in contents[j.alias]
               /\ KeysMatch(j, row, doc)
               /\ Meets(j.condition, FALSE, [row EXCEPT ![j.alias] = doc])
    BY <2>1, FoundIs
  <2>3. doc \in SqlMatchesIn(contents, j, row)
           <=> /\ doc \in contents[j.alias]
               /\ ~IsNull(row[j.parent][j.on]) /\ doc[j.to] = row[j.parent][j.on]
               /\ Sql[j.condition][[row EXCEPT ![j.alias] = doc]] = "T"
    BY DEF SqlMatchesIn
  <2> QED BY <1>3, <1>4, <2>2, <2>3
<1>6. FoundIn(contents, j, row, NothingPushed) = SqlMatchesIn(contents, j, row)
  <2>1. /\ FoundIn(contents, j, row, NothingPushed) \subseteq contents[j.alias]
        /\ SqlMatchesIn(contents, j, row) \subseteq contents[j.alias]
    BY DEF FoundIn, SqlMatchesIn
  <2> QED BY <1>5, <2>1
<1> QED BY <1>6 DEF j

LEMMA JoinedMeansTheSame ==
  ASSUME NEW q \in Query, NEW contents \in Database(q), NEW k \in Nat,
         k + 1 \in 1 .. Len(q.joins), JoinsByValue(q, contents, k + 1),
         FALSE \in NullsHidden[q.joins[k + 1].condition],
         NEW rows \in SUBSET Row, \A row \in rows : BoundIn(row, contents, Present(q, k + 1))
  PROVE  /\ JoinedIn(contents, rows, q.joins[k + 1], NothingPushed)
              = SqlJoinedIn(contents, rows, q.joins[k + 1])
         /\ \A row \in JoinedIn(contents, rows, q.joins[k + 1], NothingPushed) :
              BoundIn(row, contents, Present(q, k + 2))
<1> DEFINE j == q.joins[k + 1]
           SqlDefault(row) == IF SqlMatchesIn(contents, j, row) = {} /\ j.type = "LOUTER"
                              THEN {AbsentDoc} ELSE SqlMatchesIn(contents, j, row)
<1>1. /\ j \in Join /\ j.alias \in Alias /\ contents[j.alias] \subseteq Doc
      /\ j.type \in {"INNER", "LOUTER"}
  BY QueryParts, JoinParts
<1>2. \A row \in rows : FoundIn(contents, j, row, NothingPushed) = SqlMatchesIn(contents, j, row)
  BY FoundMatches
<1>3. ASSUME NEW a \in Present(q, k + 2)
      PROVE  \/ a \in Present(q, k + 1) /\ a # j.alias /\ a \in Alias
             \/ a = j.alias /\ j.type = "INNER"
  <2>1. PICK i \in 1 .. Len(q.joins) : i = k + 1
    OBVIOUS
  <2>2. Before(q, i) \subseteq Alias
    BY BeforeIs
  <2> QED BY <2>1, <2>2, PresentIs
<1> HIDE DEF j
<1>4. \A row \in rows : Default(j, FoundIn(contents, j, row, NothingPushed)) = SqlDefault(row)
  BY <1>1, <1>2 DEF Default
<1> HIDE DEF SqlDefault
<1>5. JoinedIn(contents, rows, j, NothingPushed)
        = UNION {{[row EXCEPT ![j.alias] = doc] : doc \in SqlDefault(row)} : row \in rows}
  BY <1>4 DEF JoinedIn
<1>6. JoinedIn(contents, rows, j, NothingPushed) = SqlJoinedIn(contents, rows, j)
  BY <1>5 DEF SqlJoinedIn, SqlDefault
<1>7. ASSUME NEW r \in JoinedIn(contents, rows, j, NothingPushed)
      PROVE  BoundIn(r, contents, Present(q, k + 2))
  <2>1. PICK row \in rows :
          \E doc \in Default(j, FoundIn(contents, j, row, NothingPushed)) :
            r = [row EXCEPT ![j.alias] = doc]
    BY JoinedIs
  <2>2. PICK doc \in Default(j, FoundIn(contents, j, row, NothingPushed)) :
          r = [row EXCEPT ![j.alias] = doc]
    BY <2>1
  <2>3. doc \in Doc /\ row \in Row
    BY <1>1, DefaultIs
  <2>4. r[j.alias] = doc /\ \A a \in Alias : a # j.alias => r[a] = row[a]
    BY <1>1, <2>2, <2>3, RowWith
  <2>5. j.type = "INNER" => doc \in contents[j.alias]
    <3>1. FoundIn(contents, j, row, NothingPushed) \subseteq contents[j.alias]
      BY DEF FoundIn
    <3> QED BY <1>1, <3>1, DefaultIs
  <2> QED BY <1>3, <2>4, <2>5 DEF BoundIn
<1> QED BY <1>6, <1>7 DEF j

IsSql(rows, q, contents) ==
  /\ rows[0] = BaseRowsIn(contents)
  /\ \A k \in 1 .. Len(q.joins) : rows[k] = SqlJoinedIn(contents, rows[k - 1], q.joins[k])

\* All conditions of a query mean in MQL what they mean in SQL.
MeansSql(q, contents) == NullsAreHidden(q) /\ ComparesValues(q, contents)

LEMMA PlainIsSql ==
  ASSUME NEW q \in Query, NEW contents \in Database(q), MeansSql(q, contents),
         NEW plain, IsPlain(plain, q, contents), NEW sql, IsSql(sql, q, contents),
         NEW k \in 0 .. Len(q.joins)
  PROVE  /\ plain[k] = sql[k]
         /\ \A row \in plain[k] : BoundIn(row, contents, Present(q, k + 1))
<1> DEFINE Same(m) == /\ plain[m] = sql[m]
                      /\ \A row \in plain[m] : BoundIn(row, contents, Present(q, m + 1))
           Good == {m \in Nat : m <= Len(q.joins) => Same(m)}
<1>1. 0 \in Good
  <2>1. plain[0] = sql[0] /\ plain[0] = BaseRowsIn(contents)
    BY DEF IsPlain, IsSql
  <2>2. Present(q, 0 + 1) = {Base}
    BY DEF Present
  <2>3. Base \in Alias
    BY JoinPipelineAssumption
  <2>4. \A row \in BaseRowsIn(contents) : row[Base] \in contents[Base]
    BY <2>3 DEF BaseRowsIn, BaseRow
  <2> QED BY <2>1, <2>2, <2>4 DEF BoundIn
<1>2. ASSUME NEW m \in Nat, m \in Good PROVE m + 1 \in Good
  <2> SUFFICES ASSUME m + 1 <= Len(q.joins) PROVE Same(m + 1)
    OBVIOUS
  <2>1. Len(q.joins) \in Nat /\ DOMAIN q.joins = 1 .. Len(q.joins)
    BY QueryParts
  <2>2. m + 1 \in 1 .. Len(q.joins) /\ (m + 1) - 1 = m /\ m \in 0 .. Len(q.joins)
        /\ (m + 1) + 1 = m + 2
    BY <2>1
  <2>3. plain[m] = sql[m] /\ \A row \in plain[m] : BoundIn(row, contents, Present(q, m + 1))
    BY <1>2, <2>2
  <2>4. plain[m + 1] = JoinedIn(contents, plain[m], q.joins[m + 1], NothingPushed)
    BY <2>2 DEF IsPlain
  <2>5. sql[m + 1] = SqlJoinedIn(contents, sql[m], q.joins[m + 1])
    BY <2>2 DEF IsSql
  <2>6. plain[m] \in SUBSET Row
    BY <2>2, PlainAreRows
  <2>7. JoinsByValue(q, contents, m + 1) /\ FALSE \in NullsHidden[q.joins[m + 1].condition]
    BY <2>1, <2>2 DEF MeansSql, NullsAreHidden, ComparesValues
  <2> HIDE DEF Good
  <2>8. /\ JoinedIn(contents, plain[m], q.joins[m + 1], NothingPushed)
             = SqlJoinedIn(contents, plain[m], q.joins[m + 1])
        /\ \A row \in JoinedIn(contents, plain[m], q.joins[m + 1], NothingPushed) :
             BoundIn(row, contents, Present(q, m + 2))
    BY <2>2, <2>3, <2>6, <2>7, JoinedMeansTheSame
  <2> QED BY <2>2, <2>3, <2>4, <2>5, <2>8
<1> HIDE DEF Good
<1>3. k \in Nat
  BY QueryParts
<1>4. k \in Good
  BY <1>1, <1>2, <1>3, Upwards
<1> QED BY <1>4 DEF Good

\* An inner join whose condition no row meets leaves no rows.
LEMMA EmptyJoinsNothing ==
  ASSUME NEW q \in Query, NEW contents \in Database(q),
         NEW rows, IsPlain(rows, q, contents),
         NEW i \in 1 .. Len(q.joins), FilterOf(q.joins[i]) = Empty, q.joins[i].type = "INNER"
  PROVE  rows[Len(q.joins)] = {}
<1> DEFINE Good == {m \in Nat : i <= m /\ m <= Len(q.joins) => rows[m] = {}}
<1>1. Len(q.joins) \in Nat
  BY QueryParts
<1>2. 0 \in Good
  OBVIOUS
<1>3. ASSUME NEW m \in Nat, m \in Good PROVE m + 1 \in Good
  <2> SUFFICES ASSUME i <= m + 1, m + 1 <= Len(q.joins) PROVE rows[m + 1] = {}
    OBVIOUS
  <2>1. m + 1 \in 1 .. Len(q.joins) /\ (m + 1) - 1 = m
    BY <1>1
  <2>2. rows[m + 1] = JoinedIn(contents, rows[m], q.joins[m + 1], NothingPushed)
    BY <2>1 DEF IsPlain
  <2>3. CASE i = m + 1
    <3>1. q.joins[m + 1] \in Join /\ contents[q.joins[m + 1].alias] \subseteq Doc
      BY <2>1, QueryParts, JoinParts
    <3>2. FilterOf(q.joins[m + 1]) = Empty /\ q.joins[m + 1].type = "INNER"
      BY <2>3
    <3> DEFINE j == q.joins[m + 1]
    <3> HIDE DEF j
    <3>3. \A row : ~Meets(j.condition, FALSE, row)
      BY <3>2, SelectedIs DEF FilterOf, Meets, j
    <3>4. \A row : FoundIn(contents, j, row, NothingPushed) = {}
      <4>1. \A row : \A doc : doc \notin FoundIn(contents, j, row, NothingPushed)
        BY <3>3, FoundIs
      <4> QED BY <4>1
    <3>5. \A row : Default(j, FoundIn(contents, j, row, NothingPushed)) = {}
      BY <3>2, <3>4 DEF Default, j
    <3>6. \A r : r \notin JoinedIn(contents, rows[m], j, NothingPushed)
      BY <3>5, JoinedIs
    <3> QED BY <2>2, <3>6 DEF j
  <2>4. CASE i # m + 1
    <3>1. rows[m] = {}
      BY <1>1, <1>3, <2>4
    <3>2. \A r : r \notin JoinedIn(contents, rows[m], q.joins[m + 1], NothingPushed)
      BY <3>1, JoinedIs
    <3> QED BY <2>2, <3>2
  <2> QED BY <2>3, <2>4
<1> HIDE DEF Good
<1>4. Len(q.joins) \in Good
  BY <1>1, <1>2, <1>3, Upwards
<1> QED BY <1>1, <1>4 DEF Good

\* What the query returns without pushed conditions is the result in SQL.
LEMMA PlainResultIsSql ==
  ASSUME NEW q \in Query, NEW contents \in Database(q), MeansSql(q, contents),
         NEW plain, IsPlain(plain, q, contents), NEW sql, IsSql(sql, q, contents)
  PROVE  PlainResult(plain, q) = {row \in sql[Len(q.joins)] : Sql[q.where][row] = "T"}
<1> DEFINE N == Len(q.joins)
<1>1. N \in Nat /\ N \in 0 .. N /\ DOMAIN q.joins = 1 .. N /\ q.where \in Tree
  BY QueryParts
<1>2. plain[N] = sql[N] /\ plain[N] \in SUBSET Row
      /\ \A row \in plain[N] : BoundIn(row, contents, Present(q, N + 1))
  BY <1>1, PlainIsSql, PlainAreRows
<1>3. \A row \in plain[N] : Meets(q.where, FALSE, row) <=> Sql[q.where][row] = "T"
  <2>1. FALSE \in NullsHidden[q.where] /\ HasConstantsAndValues(q.where, contents, Present(q, N + 1))
    BY DEF MeansSql, NullsAreHidden, ComparesValues
  <2> HIDE DEF N
  <2> QED BY <1>1, <1>2, <2>1, ConditionMeansTheSame
<1>4. CASE NoneIsEmpty(q)
  BY <1>2, <1>3, <1>4 DEF PlainResult
<1>5. CASE ~NoneIsEmpty(q)
  <2>1. PICK i \in 1 .. N : FilterOf(q.joins[i]) = Empty
    BY <1>5 DEF NoneIsEmpty
  <2>2. q.joins[i].type = "INNER"
    BY <1>1, <2>1 DEF MeansSql, ComparesValues, JoinsByValue
  <2>3. plain[N] = {}
    BY <2>1, <2>2, EmptyJoinsNothing
  <2> QED BY <1>2, <1>5, <2>3 DEF PlainResult
<1> QED BY <1>4, <1>5

LEMMA SqlJoinedAreRows ==
  ASSUME NEW q \in Query, NEW contents \in Database(q), NEW i \in 1 .. Len(q.joins),
         NEW rows \in SUBSET Row
  PROVE  SqlJoinedIn(contents, rows, q.joins[i]) \subseteq Row
<1> DEFINE j == q.joins[i]
           Docs(row) == IF SqlMatchesIn(contents, j, row) = {} /\ j.type = "LOUTER"
                        THEN {AbsentDoc} ELSE SqlMatchesIn(contents, j, row)
<1>1. j \in Join /\ j.alias \in Alias /\ contents[j.alias] \subseteq Doc
  BY QueryParts, JoinParts
<1> HIDE DEF j
<1>2. ASSUME NEW row \in rows, NEW doc \in Docs(row) PROVE [row EXCEPT ![j.alias] = doc] \in Row
  <2>1. doc \in Doc
    BY <1>1, AbsentIsDoc DEF SqlMatchesIn
  <2> QED BY <1>1, <2>1, RowWith
<1>3. SqlJoinedIn(contents, rows, j)
        = UNION {{[row EXCEPT ![j.alias] = doc] : doc \in Docs(row)} : row \in rows}
  BY DEF SqlJoinedIn
<1> HIDE DEF Docs
<1>4. SqlJoinedIn(contents, rows, j) \subseteq Row
  BY <1>2, <1>3
<1> QED BY <1>4 DEF j

LEMMA SqlJoinedHere ==
  ASSUME NEW rows, NEW j
  PROVE  SqlJoined(rows, j) = SqlJoinedIn(tables, rows, j)
BY DEF SqlJoined, SqlJoinedIn, SqlMatches, SqlMatchesIn

LEMMA SqlRowsIs ==
  ASSUME TypeInv
  PROVE  IsSql(SqlRows, query, tables)
<1>1. query \in Query /\ tables \in Database(query) /\ Len(query.joins) \in Nat
      /\ BaseRows \in SUBSET Row /\ BaseRows = BaseRowsIn(tables)
  BY QueryParts, BaseRowsAreRows DEF TypeInv, BaseRows, BaseRowsIn
<1> DEFINE N == Len(query.joins)
           V == SUBSET Row
           G == [k \in 1 .. N |-> [rows \in V |-> SqlJoined(rows, query.joins[k])]]
<1>2. ASSUME NEW k \in 1 .. N, NEW v \in V
      PROVE  G[k][v] \in V /\ G[k][v] = SqlJoined(v, query.joins[k])
  <2>1. SqlJoined(v, query.joins[k]) \subseteq Row
    BY <1>1, SqlJoinedAreRows, SqlJoinedHere
  <2> QED BY <2>1
<1> HIDE DEF G, V
<1>3. PICK f \in [0 .. N -> V] :
        f = [k \in 0 .. N |-> IF k = 0 THEN BaseRows ELSE G[k][f[k - 1]]]
  <2>1. BaseRows \in V
    BY <1>1 DEF V
  <2> HIDE DEF N
  <2>2. N \in Nat
    BY <1>1 DEF N
  <2>3. StepsStayIn(G, N, V)
    BY <1>2 DEF N, StepsStayIn
  <2>4. PICK base \in V : base = BaseRows
    BY <2>1
  <2>5. PICK f : AreSteps(f, base, G, N, V)
    BY <2>2, <2>3, StepsExist
  <2> QED BY <2>4, <2>5 DEF AreSteps
<1>4. \A k \in 0 .. N : k # 0 => G[k][f[k - 1]] = SqlJoined(f[k - 1], query.joins[k])
  <2>1. \A k \in 0 .. N : k # 0 => k \in 1 .. N /\ f[k - 1] \in V
    <3>1. \A k \in 0 .. N : k # 0 => k \in 1 .. N /\ k - 1 \in 0 .. N
      BY <1>1
    <3> HIDE DEF N
    <3> QED BY <3>1
  <2> QED BY <1>2, <2>1
<1>5. f = [k \in 0 .. N |-> IF k = 0 THEN BaseRows ELSE SqlJoined(f[k - 1], query.joins[k])]
  BY <1>3, <1>4
<1>6. SqlRows = [k \in 0 .. N |-> IF k = 0 THEN BaseRows
                                  ELSE SqlJoined(SqlRows[k - 1], query.joins[k])]
  BY <1>5 DEF SqlRows, Joins
<1>9. N \in Nat /\ 0 \in 0 .. N /\ \A k \in 1 .. N : k \in 0 .. N /\ k # 0
  BY <1>1
<1> HIDE DEF N
<1>7. SqlRows[0] = BaseRows
  BY <1>6, <1>9
<1>8. \A k \in 1 .. N : SqlRows[k] = SqlJoined(SqlRows[k - 1], query.joins[k])
  BY <1>6, <1>9
<1> QED BY <1>1, <1>7, <1>8, SqlJoinedHere DEF IsSql, N

LEMMA ResultHere ==
  ASSUME TypeInv, RunInv, ComparesEarlier(query), MeansSql(query, tables)
  PROVE  ResultMatchesSQL
<1>1. IsPlain(PlainRows, query, tables) /\ IsSql(SqlRows, query, tables)
  BY PlainRowsIs, SqlRowsIs
<1>2. stage = "done" => stream = PlainResult(PlainRows, query)
  BY <1>1 DEF RunInv
<1>3. query \in Query /\ tables \in Database(query)
  BY DEF TypeInv
<1>4. PlainResult(PlainRows, query) =
        {row \in SqlRows[Len(query.joins)] : Sql[query.where][row] = "T"}
  BY <1>1, <1>3, PlainResultIsSql
<1> QED BY <1>2, <1>4 DEF ResultMatchesSQL, Joins

\* Whatever the WHERE clause, the joins and the data, a query returns the rows that SQL
\* returns: get_lookup_pipeline(), join() and as_mql() agree with the SQL they stand for,
\* where no comparison with NULL decides.
THEOREM ResultMatchesSQLCorrect ==
  Spec => [](/\ ComparesEarlier(query) /\ NullsAreHidden(query)
             /\ ComparesValues(query, tables)
             => ResultMatchesSQL)
<1>1. TypeInv /\ RunInv =>
        (/\ ComparesEarlier(query) /\ NullsAreHidden(query)
         /\ ComparesValues(query, tables)
         => ResultMatchesSQL)
  BY ResultHere DEF MeansSql
<1> QED BY <1>1, TypeCorrect, RunCorrect, PTL
================================================================================
