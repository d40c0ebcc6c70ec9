-------------------------- MODULE SchemaEditorProofs --------------------------
(***************************************************************************)
(* The migration operations of SchemaEditor, for any fields, columns and   *)
(* projects: what they do to the document and to the indexes, wherever     *)
(* they are interrupted and however often they are run again.              *)
(***************************************************************************)
EXTENDS SchemaEditor, FiniteSetTheorems, SequenceTheorems, TLAPS

Has(s, do, arg) == \E c \in Range(s) : c.do = do /\ c.arg = arg

FieldCommands == {"set", "unset", "rename_column", "replace_null"}
IndexCommands == {"create_index"} \cup Drops
Commands ==
  {"create_collection", "drop_collection", "rename_collection"}
    \cup FieldCommands \cup IndexCommands

-----------------------------------------------------------------------------
(* What the plan of an operation is for, by what it changes in the model.  *)

Names(m) == IF m = None THEN {} ELSE FieldNames(m)
Kept(from, to) == Names(from) \cap Names(to)
Added(from, to) == Names(to) \ Names(from)
Removed(from, to) == Names(from) \ Names(to)

Renaming(from, to, n) == [from |-> from.fields[n].col, to |-> to.fields[n].col]
Initially(to, n) == [col |-> to.fields[n].col, value |-> InitialValue(to.fields[n])]
Moves(from, to, n) == from.fields[n].col # to.fields[n].col
Fills(from, to, n) ==
  from.fields[n].null /\ ~to.fields[n].null /\ to.fields[n].default = "given"

\* Each command on the document is about a field that changes.
OnFields(from, to, plan) ==
  \A c \in Range(plan) :
    /\ c.do \in Commands
    /\ c.do = "set" => \E n \in Added(from, to) : c.arg = Initially(to, n)
    /\ c.do = "unset" => \E n \in Removed(from, to) : c.arg = from.fields[n].col
    /\ c.do = "rename_column" =>
         \E n \in Kept(from, to) : c.arg = Renaming(from, to, n) /\ Moves(from, to, n)
    /\ c.do = "replace_null" =>
         \E n \in Kept(from, to) : c.arg = to.fields[n].col /\ Fills(from, to, n)
    /\ IF to = None THEN c.do = "drop_collection" ELSE c.do # "drop_collection"

\* Each change of a field has its command.
ForFields(from, to, plan) ==
  /\ \A n \in Added(from, to) : Has(plan, "set", Initially(to, n))
  /\ \A n \in Removed(from, to) : to # None => Has(plan, "unset", from.fields[n].col)
  /\ \A n \in Kept(from, to) :
       /\ Moves(from, to, n) => Has(plan, "rename_column", Renaming(from, to, n))
       /\ Fills(from, to, n) => Has(plan, "replace_null", to.fields[n].col)
  /\ to = None => Has(plan, "drop_collection", from.table)

\* NULL is replaced in a column after the renaming.
RenamesFirst(plan) ==
  \A i, j \in DOMAIN plan :
    i < j /\ plan[j].do = "rename_column" => plan[i].do # "replace_null"

\* No field takes the column of another one.
ColumnsApart(m, k) ==
  \A n \in Names(m), l \in Names(k) : m.fields[n].col = k.fields[l].col => n = l

IsSeq(s) == s \in Seq(Range(s))

Planned(from, to, plan) ==
  /\ IsSeq(plan)
  /\ from = None => to # None
  /\ OnFields(from, to, plan)
  /\ from # None => ForFields(from, to, plan)
  /\ RenamesFirst(plan)
  /\ ColumnsApart(from, from) /\ ColumnsApart(from, to) /\ ColumnsApart(to, to)

-----------------------------------------------------------------------------
(* The document.                                                           *)

TypeInv ==
  /\ project \in Projects
  /\ model \in Model \cup {None}
  /\ doc \in [Column -> Value] \cup {None}
  /\ held \in [Name -> Value]
  /\ phase \in {"idle", "running", "failed"}
  /\ phase = "idle" => op = None
  /\ phase # "idle" =>
       /\ op = [kind |-> op.kind, from |-> model, to |-> op.to, plan |-> op.plan,
                again |-> op.again]
       /\ op.to \in Model \cup {None}

\* The commands that are left are the last ones of the plan.
Rest(plan, s) ==
  /\ s \in Seq(Range(plan))
  /\ Len(s) <= Len(plan)
  /\ \A i \in 1..Len(s) : s[i] = plan[Len(plan) - Len(s) + i]

PlanInv ==
  /\ phase # "idle" => Planned(model, op.to, op.plan)
  /\ phase = "running" => Rest(op.plan, todo)

HeldFits ==
  /\ \A n \in Name \ FieldNames(model) : held[n] = Missing
  /\ \A n \in FieldNames(model) : held[n] \in {n, Null, Default}

AsModel ==
  /\ \A n \in FieldNames(model) : doc[model.fields[n].col] = held[n]
  /\ \A c \in Column \ Columns(model) : doc[c] = Missing

Left(do, arg) == phase # "running" \/ Has(todo, do, arg)

\* Where the value of a field may be while it is renamed and replaced.
KeptIs(n) ==
  LET a == model.fields[n].col
      b == op.to.fields[n].col
      v == held[n]
      w == HeldAfter(op.to, n)
  IN /\ \/ a = b /\ doc[b] \in {v, w}
        \/ a # b /\ doc[a] = v /\ doc[b] = Missing
        \/ a # b /\ doc[a] = Missing /\ doc[b] \in {v, w}
     /\ a # b => doc[a] = Missing \/ Left("rename_column", Renaming(model, op.to, n))
     /\ v # w => doc[b] = w \/ Left("replace_null", b)

RemovedIs(n) ==
  LET a == model.fields[n].col
  IN /\ doc[a] \in {held[n], Missing}
     /\ doc[a] = Missing \/ Left("unset", a)

AddedIs(n) ==
  LET f == op.to.fields[n]
  IN /\ doc[f.col] \in {Missing, InitialValue(f)}
     /\ doc[f.col] = InitialValue(f) \/ Left("set", Initially(op.to, n))

Changing ==
  /\ \A n \in Kept(model, op.to) : KeptIs(n)
  /\ \A n \in Removed(model, op.to) : RemovedIs(n)
  /\ \A n \in Added(model, op.to) : AddedIs(n)
  /\ \A c \in Column \ (Columns(model) \cup Columns(op.to)) : doc[c] = Missing

DocInv ==
  /\ ColumnsApart(model, model)
  /\ doc # None => model # None /\ HeldFits
  /\ phase = "idle" /\ doc # None => AsModel
  /\ phase # "idle" /\ doc # None =>
       IF op.to = None THEN AsModel /\ Left("drop_collection", model.table)
                       ELSE Changing

\* The models are those of the project.
Legal(p, m) ==
  m # None =>
    /\ Sound(m)
    /\ m.table \in p.table
    /\ m.unique_together \subseteq p.together /\ m.index_together \subseteq p.together
    /\ m.constraints \subseteq p.meta /\ m.indexes \subseteq p.meta

LegalInv ==
  /\ Legal(project, model)
  /\ phase # "idle" => Legal(project, op.to)

EditInv == TypeInv /\ LegalInv /\ PlanInv /\ DocInv

-----------------------------------------------------------------------------
(* Sequences.                                                              *)

\* SetToSeq() lists each member of a finite set once.
LEMMA SetToSeqIs ==
  ASSUME NEW S, IsFiniteSet(S)
  PROVE  /\ SetToSeq(S) \in Seq(S)
         /\ Range(SetToSeq(S)) = S
         /\ IsSeq(SetToSeq(S))
         /\ \A i, j \in DOMAIN SetToSeq(S) : SetToSeq(S)[i] = SetToSeq(S)[j] => i = j
<1> DEFINE n == Cardinality(S)
           s == SetToSeq(S)
<1>1. n \in Nat /\ ExistsBijection(1..n, S)
  BY FS_CardinalityType
<1>2. \E f \in [1..n -> S] : IsInjective(f)
  BY <1>1 DEF ExistsBijection, Bijection, Injection, IsInjective
<1>3. s \in [1..n -> S] /\ IsInjective(s)
  BY <1>2 DEF SetToSeq
<1>4. s \in Seq(S) /\ DOMAIN s = 1..n
  BY <1>1, <1>3
<1>5. s \in Injection(1..n, S)
  BY <1>3 DEF Injection, IsInjective
<1>6. Cardinality(1..n) = n
  BY <1>1, FS_Interval
<1>7. s \in Surjection(1..n, S)
  BY <1>5, <1>6, FS_Injection
<1>8. Range(s) = S
  BY <1>4, <1>7 DEF Surjection, Range
<1> QED
  BY <1>3, <1>4, <1>8 DEF IsSeq, IsInjective

LEMMA ConcatIs ==
  ASSUME NEW s, NEW t, IsSeq(s), IsSeq(t)
  PROVE  /\ IsSeq(s \o t)
         /\ Range(s \o t) = Range(s) \cup Range(t)
         /\ Len(s \o t) = Len(s) + Len(t)
         /\ DOMAIN s = 1..Len(s) /\ DOMAIN t = 1..Len(t)
         /\ DOMAIN (s \o t) = 1..(Len(s) + Len(t))
         /\ \A i \in 1..Len(s) : (s \o t)[i] = s[i]
         /\ \A i \in 1..Len(t) : (s \o t)[Len(s) + i] = t[i]
<1> DEFINE S == Range(s) \cup Range(t)
           u == s \o t
<1>1. s \in Seq(S) /\ t \in Seq(S)
  BY DEF IsSeq
<1>2. Len(s) \in Nat /\ Len(t) \in Nat /\ DOMAIN s = 1..Len(s) /\ DOMAIN t = 1..Len(t)
  BY <1>1
<1> HIDE DEF S
<1>3. /\ u \in Seq(S) /\ Len(u) = Len(s) + Len(t)
      /\ \A i \in 1..Len(s) + Len(t) :
           u[i] = IF i <= Len(s) THEN s[i] ELSE t[i - Len(s)]
  BY <1>1, ConcatProperties
<1> HIDE DEF u
<1>4. DOMAIN u = 1..(Len(s) + Len(t))
  BY <1>3
<1>5. \A i \in 1..Len(s) : u[i] = s[i]
  BY <1>2, <1>3
<1>6. \A i \in 1..Len(t) : u[Len(s) + i] = t[i]
  BY <1>2, <1>3
<1>7. Range(u) = S
  <2>1. Range(u) \subseteq S
    BY <1>3 DEF Range
  <2>2. ASSUME NEW x \in Range(s) PROVE x \in Range(u)
    <3>1. PICK i \in 1..Len(s) : x = s[i]
      BY <1>2 DEF Range
    <3>2. i \in DOMAIN u /\ u[i] = x
      BY <3>1, <1>2, <1>4, <1>5
    <3> QED
      BY <3>2 DEF Range
  <2>3. ASSUME NEW x \in Range(t) PROVE x \in Range(u)
    <3>1. PICK i \in 1..Len(t) : x = t[i]
      BY <1>2 DEF Range
    <3>2. Len(s) + i \in DOMAIN u /\ u[Len(s) + i] = x
      BY <3>1, <1>2, <1>4, <1>6
    <3> QED
      BY <3>2 DEF Range
  <2> QED
    BY <2>1, <2>2, <2>3 DEF S
<1> QED
  BY <1>2, <1>3, <1>4, <1>5, <1>6, <1>7 DEF u, S, IsSeq

LEMMA NothingIs == IsSeq(<<>>) /\ Range(<<>>) = {} /\ DOMAIN <<>> = {}
BY DEF IsSeq, Range

LEMMA OneIs ==
  ASSUME NEW x
  PROVE  IsSeq(<<x>>) /\ Range(<<x>>) = {x} /\ DOMAIN <<x>> = {1} /\ <<x>>[1] = x
<1>1. DOMAIN <<x>> = {1} /\ <<x>>[1] = x
  OBVIOUS
<1>2. Range(<<x>>) = {x}
  BY <1>1 DEF Range
<1> QED
  BY <1>1, <1>2 DEF IsSeq

LEMMA WhenIs ==
  ASSUME NEW P \in BOOLEAN, NEW s, IsSeq(s)
  PROVE  IsSeq(When(P, s)) /\ Range(When(P, s)) = IF P THEN Range(s) ELSE {}
BY NothingIs DEF When

\* What is left after a command has run.
LEMMA TailRest ==
  ASSUME NEW plan, NEW s, Rest(plan, s), IsSeq(plan), s # <<>>
  PROVE  /\ Rest(plan, Tail(s))
         /\ Head(s) \in Range(plan)
         /\ Range(s) = {Head(s)} \cup Range(Tail(s))
         /\ Range(s) \subseteq Range(plan)
         /\ Len(plan) - Len(s) + 1 \in DOMAIN plan
         /\ Head(s) = plan[Len(plan) - Len(s) + 1]
         /\ \A i \in DOMAIN plan :
              i > Len(plan) - Len(s) + 1 => plan[i] \in Range(Tail(s))
<1> DEFINE t == Tail(s)
<1>1. /\ s \in Seq(Range(plan)) /\ Len(s) \in Nat \ {0} /\ DOMAIN s = 1..Len(s)
      /\ Head(s) = s[1]
  BY DEF Rest
<1>2. t \in Seq(Range(plan)) /\ Len(t) = Len(s) - 1 /\ DOMAIN t = 1..Len(t)
  BY <1>1
<1>3. \A i \in 1..Len(t) : t[i] = s[i + 1]
  BY <1>1, <1>2, HeadTailProperties
<1>4. Len(plan) \in Nat /\ DOMAIN plan = 1..Len(plan) /\ Len(s) <= Len(plan)
  BY DEF IsSeq, Rest
<1>5. \A i \in 1..Len(s) : s[i] = plan[Len(plan) - Len(s) + i]
  BY DEF Rest
<1> HIDE DEF t
<1>6. ASSUME NEW i \in 1..Len(t) PROVE t[i] = plan[Len(plan) - Len(t) + i]
  <2>1. i + 1 \in 1..Len(s) /\ Len(plan) - Len(s) + (i + 1) = Len(plan) - Len(t) + i
    BY <1>1, <1>2, <1>4
  <2>2. t[i] = s[i + 1]
    BY <1>3
  <2>3. s[i + 1] = plan[Len(plan) - Len(s) + (i + 1)]
    BY <1>5, <2>1
  <2> QED
    BY <2>1, <2>2, <2>3
<1>7. Rest(plan, t)
  BY <1>1, <1>2, <1>4, <1>6 DEF Rest
<1>8. Range(s) = {Head(s)} \cup Range(t)
  <2>1. ASSUME NEW x \in Range(s), x # Head(s) PROVE x \in Range(t)
    <3>1. PICK i \in 1..Len(s) : x = s[i]
      BY <1>1 DEF Range
    <3>2. i # 1
      BY <1>1, <2>1, <3>1
    <3>3. i - 1 \in 1..Len(t) /\ (i - 1) + 1 = i
      BY <1>1, <1>2, <3>2
    <3>4. t[i - 1] = x
      BY <1>3, <3>1, <3>3
    <3> QED
      BY <1>2, <3>3, <3>4 DEF Range
  <2>2. ASSUME NEW x \in Range(t) PROVE x \in Range(s)
    <3>1. PICK i \in 1..Len(t) : x = t[i]
      BY <1>2 DEF Range
    <3>2. i + 1 \in 1..Len(s) /\ s[i + 1] = x
      BY <1>1, <1>2, <1>3, <3>1
    <3> QED
      BY <1>1, <3>2 DEF Range
  <2>3. Head(s) \in Range(s)
    BY <1>1 DEF Range
  <2> QED
    BY <2>1, <2>2, <2>3
<1>9. Range(s) \subseteq Range(plan)
  BY <1>1 DEF Range
<1>10. Len(plan) - Len(s) + 1 \in DOMAIN plan /\ Head(s) = plan[Len(plan) - Len(s) + 1]
  BY <1>1, <1>4, <1>5
<1>11. ASSUME NEW i \in DOMAIN plan, i > Len(plan) - Len(s) + 1 PROVE plan[i] \in Range(t)
  <2> DEFINE j == i - (Len(plan) - Len(t))
  <2>1. j \in 1..Len(t) /\ Len(plan) - Len(t) + j = i
    BY <1>1, <1>2, <1>4, <1>11
  <2>2. t[j] = plan[i]
    BY <2>1, <1>6
  <2> QED
    BY <1>2, <2>1, <2>2 DEF Range
<1> QED
  BY <1>7, <1>8, <1>9, <1>10, <1>11 DEF t

LEMMA WholeRest == ASSUME NEW plan, IsSeq(plan) PROVE Rest(plan, plan)
BY DEF IsSeq, Rest

LEMMA HasTail ==
  ASSUME NEW plan, NEW s, Rest(plan, s), IsSeq(plan), s # <<>>, NEW do, NEW arg,
         Has(s, do, arg), ~(Head(s).do = do /\ Head(s).arg = arg)
  PROVE  Has(Tail(s), do, arg)
<1>1. Range(s) = {Head(s)} \cup Range(Tail(s))
  BY TailRest
<1> QED
  BY <1>1 DEF Has

-----------------------------------------------------------------------------
(* A command and the document.                                             *)

\* The part of RunCommand that is the same for every command.
Runs ==
  /\ phase = "running" /\ phase' = "running"
  /\ todo # <<>> /\ todo' = Tail(todo)
  /\ UNCHANGED <<project, model, held, op>>

Alters == Runs /\ EditInv /\ doc # None /\ doc' # None /\ op.to # None

LEMMA AltersIs ==
  ASSUME Alters
  PROVE  /\ model \in Model /\ op.to \in Model
         /\ doc \in [Column -> Value]
         /\ held \in [Name -> Value]
         /\ Changing /\ HeldFits
         /\ Planned(model, op.to, op.plan) /\ Rest(op.plan, todo)
         /\ Head(todo) \in Range(op.plan)
         /\ \A n : HeldAfter(op.to, n)' = HeldAfter(op.to, n)
         /\ \A n \in Names(model) : model.fields[n] \in ModelField
         /\ \A n \in Names(op.to) : op.to.fields[n] \in ModelField
<1>1. model \in Model /\ op.to \in Model /\ doc \in [Column -> Value]
  BY DEF Alters, Runs, EditInv, TypeInv, DocInv
<1>2. Planned(model, op.to, op.plan) /\ Rest(op.plan, todo) /\ Changing /\ HeldFits
  BY DEF Alters, Runs, EditInv, PlanInv, DocInv
<1>3. Head(todo) \in Range(op.plan)
  BY <1>2, TailRest DEF Alters, Runs, Planned
<1>4. ASSUME NEW n PROVE HeldAfter(op.to, n)' = HeldAfter(op.to, n)
  BY DEF Alters, Runs, HeldAfter, InitialValue, FieldNames
<1>5. /\ \A n \in Names(model) : model.fields[n] \in ModelField
      /\ \A n \in Names(op.to) : op.to.fields[n] \in ModelField
  BY <1>1, SchemaEditorAssumption DEF Model, Names, FieldNames
<1> QED
  BY <1>1, <1>2, <1>3, <1>4, <1>5 DEF Alters, EditInv, TypeInv

LEMMA LeftStays ==
  ASSUME Alters, NEW do, NEW arg, Left(do, arg),
         ~(Head(todo).do = do /\ Head(todo).arg = arg)
  PROVE  Left(do, arg)'
<1>1. Has(Tail(todo), do, arg)
  BY AltersIs, HasTail DEF Alters, Runs, Left, Planned
<1> QED
  BY <1>1 DEF Alters, Runs, Left, Has

\* A command that is about another column leaves a field where it was.
LEMMA KeptStays ==
  ASSUME Alters, NEW n \in Kept(model, op.to),
         doc'[model.fields[n].col] = doc[model.fields[n].col],
         doc'[op.to.fields[n].col] = doc[op.to.fields[n].col],
         ~(Head(todo).do = "rename_column" /\ Head(todo).arg = Renaming(model, op.to, n)),
         ~(Head(todo).do = "replace_null" /\ Head(todo).arg = op.to.fields[n].col)
  PROVE  KeptIs(n)'
<1>1. KeptIs(n)
  BY AltersIs DEF Changing
<1>2. PICK a, b, v, w, r : /\ a = model.fields[n].col /\ b = op.to.fields[n].col
                           /\ v = held[n] /\ w = HeldAfter(op.to, n)
                           /\ r = Renaming(model, op.to, n)
  OBVIOUS
<1>3. /\ a = (model.fields[n].col)' /\ b = (op.to.fields[n].col)'
      /\ v = (held[n])' /\ w = HeldAfter(op.to, n)' /\ r = Renaming(model, op.to, n)'
  BY <1>2, AltersIs DEF Alters, Runs, Renaming
<1>4. Left("rename_column", r) => Left("rename_column", r)'
  BY <1>2, LeftStays
<1>5. Left("replace_null", b) => Left("replace_null", b)'
  BY <1>2, LeftStays
<1>6. /\ \/ a = b /\ doc[b] \in {v, w}
         \/ a # b /\ doc[a] = v /\ doc[b] = Missing
         \/ a # b /\ doc[a] = Missing /\ doc[b] \in {v, w}
      /\ a # b => doc[a] = Missing \/ Left("rename_column", r)
      /\ v # w => doc[b] = w \/ Left("replace_null", b)
  BY <1>1, <1>2 DEF KeptIs
<1>7. doc'[a] = doc[a] /\ doc'[b] = doc[b]
  BY <1>2
<1>8. /\ \/ a = b /\ doc'[b] \in {v, w}
         \/ a # b /\ doc'[a] = v /\ doc'[b] = Missing
         \/ a # b /\ doc'[a] = Missing /\ doc'[b] \in {v, w}
      /\ a # b => doc'[a] = Missing \/ Left("rename_column", r)'
      /\ v # w => doc'[b] = w \/ Left("replace_null", b)'
  BY <1>4, <1>5, <1>6, <1>7
<1> HIDE DEF KeptIs
<1> QED
  BY <1>3, <1>8 DEF KeptIs

LEMMA RemovedStays ==
  ASSUME Alters, NEW n \in Removed(model, op.to),
         doc'[model.fields[n].col] = doc[model.fields[n].col],
         ~(Head(todo).do = "unset" /\ Head(todo).arg = model.fields[n].col)
  PROVE  RemovedIs(n)'
<1>1. RemovedIs(n)
  BY AltersIs DEF Changing
<1>2. PICK a : a = model.fields[n].col
  OBVIOUS
<1>3. a = (model.fields[n].col)' /\ held[n]' = held[n]
  BY <1>2 DEF Alters, Runs
<1>4. Left("unset", a) => Left("unset", a)'
  BY <1>2, LeftStays
<1> QED
  BY <1>1, <1>2, <1>3, <1>4 DEF RemovedIs

LEMMA AddedStays ==
  ASSUME Alters, NEW n \in Added(model, op.to),
         doc'[op.to.fields[n].col] = doc[op.to.fields[n].col],
         ~(Head(todo).do = "set" /\ Head(todo).arg = Initially(op.to, n))
  PROVE  AddedIs(n)'
<1>1. AddedIs(n)
  BY AltersIs DEF Changing
<1>2. PICK f, r : f = op.to.fields[n] /\ r = Initially(op.to, n)
  OBVIOUS
<1>3. f = (op.to.fields[n])' /\ r = Initially(op.to, n)'
  BY <1>2 DEF Alters, Runs, Initially, InitialValue
<1>4. Left("set", r) => Left("set", r)'
  BY <1>2, LeftStays
<1>5. InitialValue(f)' = InitialValue(f)
  BY DEF InitialValue
<1> QED
  BY <1>1, <1>2, <1>3, <1>4, <1>5 DEF AddedIs

\* The columns of fields that change are apart.
LEMMA Apart ==
  ASSUME Alters, NEW n \in Names(model) \cup Names(op.to),
         NEW k \in Names(model) \cup Names(op.to), n # k
  PROVE  /\ n \in Names(model) /\ k \in Names(model) =>
              model.fields[n].col # model.fields[k].col
         /\ n \in Names(model) /\ k \in Names(op.to) =>
              model.fields[n].col # op.to.fields[k].col
         /\ n \in Names(op.to) /\ k \in Names(model) =>
              op.to.fields[n].col # model.fields[k].col
         /\ n \in Names(op.to) /\ k \in Names(op.to) =>
              op.to.fields[n].col # op.to.fields[k].col
BY AltersIs DEF Planned, ColumnsApart

\* A change of the columns of one field, which says it is right, is right.
LEMMA OneChanges ==
  ASSUME Alters, NEW c, c = Head(todo), NEW k \in Names(model) \cup Names(op.to),
         \A e \in Column :
           /\ k \in Names(model) => e # model.fields[k].col
           /\ k \in Names(op.to) => e # op.to.fields[k].col
           => doc'[e] = doc[e],
         c.do = "set" => c.arg = Initially(op.to, k) /\ k \in Names(op.to),
         c.do = "unset" => c.arg = model.fields[k].col /\ k \in Names(model),
         c.do = "rename_column" =>
           c.arg = Renaming(model, op.to, k) /\ k \in Kept(model, op.to),
         c.do = "replace_null" =>
           c.arg = op.to.fields[k].col /\ k \in Names(op.to),
         k \in Kept(model, op.to) => KeptIs(k)',
         k \in Removed(model, op.to) => RemovedIs(k)',
         k \in Added(model, op.to) => AddedIs(k)'
  PROVE  Changing'
<1>1. ASSUME NEW n \in Kept(model, op.to) PROVE KeptIs(n)'
  <2>1. CASE n = k
    BY <1>1, <2>1
  <2>2. CASE n # k
    <3>1. n \in Names(model) /\ n \in Names(op.to)
      BY <1>1 DEF Kept
    <3>2. /\ model.fields[n].col \in Column /\ op.to.fields[n].col \in Column
      BY <3>1, AltersIs DEF ModelField
    <3>3. /\ doc'[model.fields[n].col] = doc[model.fields[n].col]
          /\ doc'[op.to.fields[n].col] = doc[op.to.fields[n].col]
      BY <2>2, <3>1, <3>2, Apart
    <3>4. c.do = "rename_column" => c.arg # Renaming(model, op.to, n)
      <4>1. c.do = "rename_column" =>
              c.arg.to = op.to.fields[k].col /\ k \in Names(op.to)
        BY DEF Renaming, Kept
      <4>2. Renaming(model, op.to, n).to = op.to.fields[n].col
        BY DEF Renaming
      <4> QED
        BY <2>2, <3>1, <4>1, <4>2, Apart
    <3>5. c.do = "replace_null" => c.arg # op.to.fields[n].col
      BY <2>2, <3>1, Apart
    <3> QED
      BY <3>3, <3>4, <3>5, KeptStays
  <2> QED
    BY <2>1, <2>2
<1>2. ASSUME NEW n \in Removed(model, op.to) PROVE RemovedIs(n)'
  <2>1. CASE n = k
    BY <1>2, <2>1
  <2>2. CASE n # k
    <3>1. n \in Names(model)
      BY <1>2 DEF Removed
    <3>2. model.fields[n].col \in Column
      BY <3>1, AltersIs DEF ModelField
    <3>3. doc'[model.fields[n].col] = doc[model.fields[n].col]
      BY <2>2, <3>1, <3>2, Apart
    <3>4. c.do = "unset" => c.arg # model.fields[n].col
      BY <2>2, <3>1, Apart
    <3> QED
      BY <3>3, <3>4, RemovedStays
  <2> QED
    BY <2>1, <2>2
<1>3. ASSUME NEW n \in Added(model, op.to) PROVE AddedIs(n)'
  <2>1. CASE n = k
    BY <1>3, <2>1
  <2>2. CASE n # k
    <3>1. n \in Names(op.to)
      BY <1>3 DEF Added
    <3>2. op.to.fields[n].col \in Column
      BY <3>1, AltersIs DEF ModelField
    <3>3. doc'[op.to.fields[n].col] = doc[op.to.fields[n].col]
      BY <2>2, <3>1, <3>2, Apart
    <3>4. c.do = "set" => c.arg # Initially(op.to, n)
      <4>1. c.do = "set" =>
              c.arg.col = op.to.fields[k].col /\ k \in Names(op.to)
        BY DEF Initially
      <4>2. Initially(op.to, n).col = op.to.fields[n].col
        BY DEF Initially
      <4> QED
        BY <2>2, <3>1, <4>1, <4>2, Apart
    <3> QED
      BY <3>3, <3>4, AddedStays
  <2> QED
    BY <2>1, <2>2
<1>4. ASSUME NEW e \in Column, e \notin Columns(model), e \notin Columns(op.to)
      PROVE  doc'[e] = Missing
  <2>1. /\ k \in Names(model) => e # model.fields[k].col
        /\ k \in Names(op.to) => e # op.to.fields[k].col
    BY <1>4 DEF Columns, Fields, Names
  <2>2. doc[e] = Missing
    BY <1>4, AltersIs DEF Changing
  <2> QED
    BY <2>1, <2>2
<1>5. UNCHANGED <<model, op>>
  BY DEF Alters, Runs
<1>6. /\ (Kept(model, op.to))' = Kept(model, op.to)
      /\ (Removed(model, op.to))' = Removed(model, op.to)
      /\ (Added(model, op.to))' = Added(model, op.to)
      /\ (Columns(model))' = Columns(model) /\ (Columns(op.to))' = Columns(op.to)
  BY <1>5 DEF Kept, Removed, Added, Names, Columns, Fields, FieldNames
<1> HIDE DEF KeptIs, RemovedIs, AddedIs
<1>7. /\ \A n \in Kept(model, op.to)' : KeptIs(n)'
      /\ \A n \in Removed(model, op.to)' : RemovedIs(n)'
      /\ \A n \in Added(model, op.to)' : AddedIs(n)'
      /\ \A e \in Column \ (Columns(model)' \cup Columns(op.to)') : doc'[e] = Missing
  BY <1>1, <1>2, <1>3, <1>4, <1>6
<1> QED
  BY <1>7 DEF Changing

LEMMA HeadIs ==
  ASSUME Alters, NEW c, c = Head(todo)
  PROVE  /\ c.do = "set" =>
              \E n \in Added(model, op.to) : c.arg = Initially(op.to, n)
         /\ c.do = "unset" =>
              \E n \in Removed(model, op.to) : c.arg = model.fields[n].col
         /\ c.do = "rename_column" =>
              \E n \in Kept(model, op.to) : /\ c.arg = Renaming(model, op.to, n)
                                            /\ Moves(model, op.to, n)
         /\ c.do = "replace_null" =>
              \E n \in Kept(model, op.to) : /\ c.arg = op.to.fields[n].col
                                            /\ Fills(model, op.to, n)
BY AltersIs DEF Planned, OnFields

LEMMA SetChanges ==
  ASSUME Alters, NEW c, c = Head(todo), c.do = "set", Run(c)
  PROVE  Changing' /\ doc' \in [Column -> Value]
<1>1. PICK k \in Added(model, op.to) : c.arg = Initially(op.to, k)
  BY HeadIs
<1>2. PICK f : f = op.to.fields[k]
  OBVIOUS
<1>3. k \in Names(op.to) /\ k \notin Names(model) /\ f \in ModelField
  BY <1>1, <1>2, AltersIs DEF Added
<1>4. doc' = [doc EXCEPT ![f.col] = InitialValue(f)]
  <2>1. c.arg.col = f.col /\ c.arg.value = InitialValue(f)
    BY <1>1, <1>2 DEF Initially
  <2> QED
    BY <2>1 DEF Alters, Run, Drops, UpdateDoc
<1>5. f.col \in Column /\ InitialValue(f) \in Value /\ doc \in [Column -> Value]
  BY <1>3, AltersIs DEF ModelField, InitialValue, Value
<1>6. doc' \in [Column -> Value] /\ doc'[f.col] = InitialValue(f)
  BY <1>4, <1>5
<1>7. \A e \in Column : e # f.col => doc'[e] = doc[e]
  BY <1>4, <1>5
<1>8. AddedIs(k)'
  <2>1. f = (op.to.fields[k])' /\ InitialValue(f)' = InitialValue(f)
    BY <1>2 DEF Alters, Runs, InitialValue
  <2> QED
    BY <1>6, <2>1 DEF AddedIs
<1>9. k \notin Kept(model, op.to) /\ k \notin Removed(model, op.to)
  BY <1>3 DEF Kept, Removed
<1>10. \A e \in Column :
         /\ k \in Names(model) => e # model.fields[k].col
         /\ k \in Names(op.to) => e # op.to.fields[k].col
         => doc'[e] = doc[e]
  BY <1>2, <1>3, <1>7
<1> QED
  BY <1>1, <1>3, <1>6, <1>8, <1>9, <1>10, OneChanges

LEMMA UnsetChanges ==
  ASSUME Alters, NEW c, c = Head(todo), c.do = "unset", Run(c)
  PROVE  Changing' /\ doc' \in [Column -> Value]
<1>1. PICK k \in Removed(model, op.to) : c.arg = model.fields[k].col
  BY HeadIs
<1>2. PICK a : a = model.fields[k].col
  OBVIOUS
<1>3. k \in Names(model) /\ k \notin Names(op.to) /\ a \in Column
  BY <1>1, <1>2, AltersIs DEF Removed, ModelField
<1>4. doc' = [doc EXCEPT ![a] = Missing] /\ doc \in [Column -> Value] /\ Missing \in Value
  BY <1>1, <1>2, AltersIs DEF Alters, Run, Drops, UpdateDoc, Value
<1>6. doc' \in [Column -> Value] /\ doc'[a] = Missing
  BY <1>3, <1>4
<1>7. \A e \in Column : e # a => doc'[e] = doc[e]
  BY <1>3, <1>4
<1>8. RemovedIs(k)'
  <2>1. a = (model.fields[k].col)'
    BY <1>2 DEF Alters, Runs
  <2> QED
    BY <1>6, <2>1 DEF RemovedIs
<1>9. k \notin Kept(model, op.to) /\ k \notin Added(model, op.to)
  BY <1>3 DEF Kept, Added
<1>10. \A e \in Column :
         /\ k \in Names(model) => e # model.fields[k].col
         /\ k \in Names(op.to) => e # op.to.fields[k].col
         => doc'[e] = doc[e]
  BY <1>2, <1>3, <1>7
<1> QED
  BY <1>1, <1>3, <1>6, <1>8, <1>9, <1>10, OneChanges

LEMMA KeptValue ==
  ASSUME Alters, NEW k \in Kept(model, op.to)
  PROVE  /\ held[k] \in Value \ {Missing}
         /\ HeldAfter(op.to, k) \in Value \ {Missing}
         /\ HeldAfter(op.to, k) = IF held[k] = Null /\ Fills(model, op.to, k)
                                    THEN Default ELSE held[k]
<1>1. k \in FieldNames(model) /\ k \in FieldNames(op.to) /\ model \in Model
  BY AltersIs DEF Kept, Names
<1>2. FieldNames(model) \subseteq Name
  BY <1>1 DEF Model, FieldNames
<1>3. held[k] \in {k, Null, Default}
  BY <1>1, AltersIs DEF HeldFits
<1>4. held[k] \in Value \ {Missing} /\ Null # Missing /\ Default # Missing
  BY <1>1, <1>2, <1>3, SchemaEditorAssumption DEF Value, Null, Missing, Default
<1>5. HeldAfter(op.to, k) = IF held[k] = Null /\ Fills(model, op.to, k)
                             THEN Default ELSE held[k]
  BY <1>1, <1>4 DEF HeldAfter, Alters, Fills
<1> QED
  BY <1>4, <1>5 DEF Value

LEMMA RenameChanges ==
  ASSUME Alters, NEW c, c = Head(todo), c.do = "rename_column", Run(c)
  PROVE  Changing' /\ doc' \in [Column -> Value]
<1>1. PICK k \in Kept(model, op.to) : /\ c.arg = Renaming(model, op.to, k)
                                      /\ Moves(model, op.to, k)
  BY HeadIs
<1>2. PICK a, b, v, w, r : /\ a = model.fields[k].col /\ b = op.to.fields[k].col
                           /\ v = held[k] /\ w = HeldAfter(op.to, k)
                           /\ r = Renaming(model, op.to, k)
  OBVIOUS
<1>3. k \in Names(model) /\ k \in Names(op.to) /\ a \in Column /\ b \in Column /\ a # b
  BY <1>1, <1>2, AltersIs DEF Kept, ModelField, Moves
<1>4. doc' = (IF doc[a] = Missing THEN doc ELSE [doc EXCEPT ![b] = doc[a], ![a] = Missing])
  <2>1. c.arg.from = a /\ c.arg.to = b
    BY <1>1, <1>2 DEF Renaming
  <2> QED
    BY <2>1 DEF Alters, Run, Drops, UpdateDoc, Renamed
<1>5. doc \in [Column -> Value] /\ Missing \in Value
  BY AltersIs DEF Value
<1>6. /\ doc' \in [Column -> Value] /\ doc'[a] = Missing
      /\ doc'[b] = IF doc[a] = Missing THEN doc[b] ELSE doc[a]
      /\ \A e \in Column : e # a /\ e # b => doc'[e] = doc[e]
  BY <1>3, <1>4, <1>5
<1>7. /\ \/ doc[a] = v /\ doc[b] = Missing
         \/ doc[a] = Missing /\ doc[b] \in {v, w}
      /\ v # w => doc[b] = w \/ Left("replace_null", b)
  BY <1>1, <1>2, <1>3, AltersIs DEF Changing, KeptIs
<1>8. v # Missing /\ w # Missing
  BY <1>1, <1>2, KeptValue
<1>9. doc'[b] \in {v, w} /\ (v # w => doc'[b] = w \/ Left("replace_null", b))
  BY <1>6, <1>7, <1>8
<1>10. Left("replace_null", b) => Left("replace_null", b)'
  BY LeftStays
<1>11. /\ a = (model.fields[k].col)' /\ b = (op.to.fields[k].col)'
       /\ v = (held[k])' /\ w = HeldAfter(op.to, k)'
  BY <1>2, AltersIs DEF Alters, Runs
<1>12. KeptIs(k)'
  BY <1>3, <1>6, <1>9, <1>10, <1>11 DEF KeptIs
<1>13. k \notin Removed(model, op.to) /\ k \notin Added(model, op.to)
  BY <1>3 DEF Removed, Added
<1>14. \A e \in Column :
         /\ k \in Names(model) => e # model.fields[k].col
         /\ k \in Names(op.to) => e # op.to.fields[k].col
         => doc'[e] = doc[e]
  BY <1>2, <1>3, <1>6
<1> QED
  BY <1>1, <1>3, <1>6, <1>12, <1>13, <1>14, OneChanges

LEMMA RenamedBefore ==
  ASSUME NEW plan, NEW s, IsSeq(plan), Rest(plan, s), RenamesFirst(plan), s # <<>>,
         NEW h, h = Head(s), h.do = "replace_null"
  PROVE  \A c \in Range(s) : c.do # "rename_column"
<1>1. /\ s \in Seq(Range(plan)) /\ Len(s) \in Nat \ {0} /\ DOMAIN s = 1..Len(s)
      /\ h = s[1]
  BY DEF Rest
<1>2. Len(plan) \in Nat /\ DOMAIN plan = 1..Len(plan) /\ Len(s) <= Len(plan)
  BY DEF IsSeq, Rest
<1>3. SUFFICES ASSUME NEW i \in 1..Len(s), s[i].do = "rename_column" PROVE FALSE
  BY <1>1 DEF Range
<1>4. i # 1
  BY <1>1, <1>3
<1> DEFINE d == Len(plan) - Len(s)
<1>5. d + 1 \in DOMAIN plan /\ d + i \in DOMAIN plan /\ d + 1 < d + i
  BY <1>1, <1>2, <1>4
<1>6. s[1] = plan[d + 1] /\ s[i] = plan[d + i]
  BY <1>1 DEF Rest
<1> QED
  BY <1>1, <1>3, <1>5, <1>6 DEF RenamesFirst

LEMMA ReplaceChanges ==
  ASSUME Alters, NEW c, c = Head(todo), c.do = "replace_null", Run(c)
  PROVE  Changing' /\ doc' \in [Column -> Value]
<1>1. PICK k \in Kept(model, op.to) : /\ c.arg = op.to.fields[k].col
                                      /\ Fills(model, op.to, k)
  BY HeadIs
<1>2. PICK a, b, v, w, r : /\ a = model.fields[k].col /\ b = op.to.fields[k].col
                           /\ v = held[k] /\ w = HeldAfter(op.to, k)
                           /\ r = Renaming(model, op.to, k)
  OBVIOUS
<1>3. k \in Names(model) /\ k \in Names(op.to) /\ a \in Column /\ b \in Column
  BY <1>1, <1>2, AltersIs DEF Kept, ModelField
<1>4. doc' = (IF doc[b] \in {Null, Missing} THEN [doc EXCEPT ![b] = Default] ELSE doc)
  BY <1>1, <1>2 DEF Alters, Run, Drops, UpdateDoc
<1>5. doc \in [Column -> Value] /\ Default \in Value
  BY AltersIs DEF Value
<1>6. /\ doc' \in [Column -> Value]
      /\ doc'[b] = IF doc[b] \in {Null, Missing} THEN Default ELSE doc[b]
      /\ \A e \in Column : e # b => doc'[e] = doc[e]
  BY <1>3, <1>4, <1>5
<1>7. ~Left("rename_column", r)
  <2>1. \A d \in Range(todo) : d.do # "rename_column"
    BY AltersIs, RenamedBefore DEF Alters, Runs, Planned
  <2> QED
    BY <2>1 DEF Left, Has, Alters, Runs
<1>8. /\ a # b => doc[a] = Missing
      /\ \/ doc[b] \in {v, w}
         \/ a # b /\ doc[a] = v
  BY <1>1, <1>2, <1>7, AltersIs DEF Changing, KeptIs
<1>9. /\ v # Missing /\ w # Missing
      /\ w = IF v = Null THEN Default ELSE v
  BY <1>1, <1>2, KeptValue
<1>10. doc'[b] = w /\ (a # b => doc'[a] = Missing)
  BY <1>3, <1>6, <1>8, <1>9 DEF Null, Default, Missing
<1>11. /\ a = (model.fields[k].col)' /\ b = (op.to.fields[k].col)'
       /\ v = (held[k])' /\ w = HeldAfter(op.to, k)'
  BY <1>2, AltersIs DEF Alters, Runs
<1>12. KeptIs(k)'
  BY <1>3, <1>10, <1>11 DEF KeptIs
<1>13. k \notin Removed(model, op.to) /\ k \notin Added(model, op.to)
  BY <1>3 DEF Removed, Added
<1>14. \A e \in Column :
         /\ k \in Names(model) => e # model.fields[k].col
         /\ k \in Names(op.to) => e # op.to.fields[k].col
         => doc'[e] = doc[e]
  BY <1>2, <1>3, <1>6
<1> QED
  BY <1>1, <1>3, <1>6, <1>12, <1>13, <1>14, OneChanges

\* The other commands leave the document alone.
LEMMA OtherChanges ==
  ASSUME Alters, Head(todo).do \notin FieldCommands, doc' = doc
  PROVE  Changing' /\ doc' \in [Column -> Value]
<1>0. doc' \in [Column -> Value]
  BY AltersIs
<1>1. ASSUME NEW n \in Kept(model, op.to) PROVE KeptIs(n)'
  BY <1>1, KeptStays DEF FieldCommands
<1>2. ASSUME NEW n \in Removed(model, op.to) PROVE RemovedIs(n)'
  BY <1>2, RemovedStays DEF FieldCommands
<1>3. ASSUME NEW n \in Added(model, op.to) PROVE AddedIs(n)'
  BY <1>3, AddedStays DEF FieldCommands
<1>4. \A c \in Column \ (Columns(model) \cup Columns(op.to)) : doc'[c] = Missing
  BY AltersIs DEF Changing
<1>5. UNCHANGED <<model, op>>
  BY DEF Alters, Runs
<1>6. /\ (Kept(model, op.to))' = Kept(model, op.to)
      /\ (Removed(model, op.to))' = Removed(model, op.to)
      /\ (Added(model, op.to))' = Added(model, op.to)
      /\ (Columns(model))' = Columns(model) /\ (Columns(op.to))' = Columns(op.to)
  BY <1>5 DEF Kept, Removed, Added, Names, Columns, Fields, FieldNames
<1> HIDE DEF KeptIs, RemovedIs, AddedIs
<1>7. /\ \A n \in Kept(model, op.to)' : KeptIs(n)'
      /\ \A n \in Removed(model, op.to)' : RemovedIs(n)'
      /\ \A n \in Added(model, op.to)' : AddedIs(n)'
      /\ \A c \in Column \ (Columns(model)' \cup Columns(op.to)') : doc'[c] = Missing
  BY <1>1, <1>2, <1>3, <1>4, <1>6
<1> QED
  BY <1>0, <1>7 DEF Changing

LEMMA NoneStays ==
  ASSUME NEW c, c.do \in Commands, Run(c), doc = None
  PROVE  doc' = None
BY DEF Run, Commands, FieldCommands, IndexCommands, Drops, UpdateDoc

\* Only dropping the collection takes the document away.
LEMMA StillThere ==
  ASSUME Runs, EditInv, doc # None, op.to # None, NEW c, c = Head(todo), Run(c)
  PROVE  doc' # None /\ (c.do \notin FieldCommands => doc' = doc)
<1>1. doc \in [Column -> Value]
  BY DEF EditInv, TypeInv
<1>2. Planned(model, op.to, op.plan) /\ c \in Range(op.plan)
  BY TailRest DEF Runs, EditInv, PlanInv, Planned
<1>3. c.do \in Commands /\ c.do # "drop_collection"
  BY <1>2 DEF Planned, OnFields
<1>4. \A d \in [Column -> Value] : d # None
  BY SchemaEditorAssumption
<1>5. CASE c.do \notin FieldCommands
  <2>1. doc' = doc
    BY <1>3, <1>5 DEF Run, Commands, FieldCommands, IndexCommands, Drops
  <2> QED
    BY <2>1
<1>6. CASE c.do = "set"
  <2>1. PICK n : c.arg = Initially(op.to, n)
    BY <1>2, <1>6 DEF Planned, OnFields
  <2>2. c.arg.value \in Value
    BY <2>1 DEF Initially, InitialValue, Value
  <2>3. doc' = [doc EXCEPT ![c.arg.col] = c.arg.value]
    BY <1>6 DEF Run, Drops, UpdateDoc
  <2>4. doc' \in [Column -> Value]
    BY <1>1, <2>2, <2>3
  <2> QED
    BY <1>4, <1>6, <2>4 DEF FieldCommands
<1>7. CASE c.do = "unset"
  <2>1. doc' = [doc EXCEPT ![c.arg] = Missing]
    BY <1>7 DEF Run, Drops, UpdateDoc
  <2>2. doc' \in [Column -> Value]
    BY <1>1, <2>1 DEF Value
  <2> QED
    BY <1>4, <1>7, <2>2 DEF FieldCommands
<1>8. CASE c.do = "rename_column"
  <2>1. PICK n \in Kept(model, op.to) : c.arg = Renaming(model, op.to, n)
    BY <1>2, <1>8 DEF Planned, OnFields
  <2>2. c.arg.from \in Column
    BY <2>1 DEF EditInv, TypeInv, Kept, Names, FieldNames, Model, ModelField, Renaming, Runs
  <2>3. doc' = Renamed(c.arg.from, c.arg.to)
    BY <1>8 DEF Run, Drops, UpdateDoc
  <2>4. doc' \in [Column -> Value]
    BY <1>1, <2>2, <2>3 DEF Value, Renamed
  <2> QED
    BY <1>4, <1>8, <2>4 DEF FieldCommands
<1>9. CASE c.do = "replace_null"
  <2>1. doc' = IF doc[c.arg] \in {Null, Missing} THEN [doc EXCEPT ![c.arg] = Default] ELSE doc
    BY <1>9 DEF Run, Drops, UpdateDoc
  <2>2. doc' \in [Column -> Value]
    BY <1>1, <2>1 DEF Value
  <2> QED
    BY <1>4, <1>9, <2>2 DEF FieldCommands
<1> QED
  BY <1>5, <1>6, <1>7, <1>8, <1>9 DEF FieldCommands

LEMMA RunChanges ==
  ASSUME Alters, NEW c, c = Head(todo), Run(c)
  PROVE  Changing' /\ doc' \in [Column -> Value]
<1>1. CASE c.do \in FieldCommands
  BY <1>1, SetChanges, UnsetChanges, RenameChanges, ReplaceChanges DEF FieldCommands
<1>2. CASE c.do \notin FieldCommands
  <2>1. doc' = doc
    BY <1>2, StillThere DEF Alters
  <2> QED
    BY <1>2, <2>1, OtherChanges
<1> QED
  BY <1>1, <1>2

LEMMA RunCommandEdits ==
  ASSUME EditInv, RunCommand, UNCHANGED project
  PROVE  EditInv'
<1>1. PICK c : c = Head(todo)
  OBVIOUS
<1>2. Runs /\ Run(c)
  BY <1>1 DEF RunCommand, Runs
<1>3. Planned(model, op.to, op.plan) /\ Rest(op.plan, todo)
  BY <1>2 DEF EditInv, PlanInv, Runs
<1>4. c \in Range(op.plan) /\ Rest(op.plan, Tail(todo))
  BY <1>1, <1>2, <1>3, TailRest DEF Runs, Planned
<1>5. c.do \in Commands /\ (op.to = None => c.do = "drop_collection")
  BY <1>3, <1>4 DEF Planned, OnFields
<1>6. /\ doc' \in [Column -> Value] \cup {None}
      /\ doc' # None => doc # None /\ op.to # None /\ Changing'
  <2>1. CASE doc = None
    BY <1>2, <1>5, <2>1, NoneStays
  <2>2. CASE doc # None /\ op.to = None
    BY <1>2, <1>5, <2>2 DEF Run, Drops
  <2>3. CASE doc # None /\ op.to # None
    BY <1>1, <1>2, <2>3, StillThere, RunChanges DEF Alters
  <2> QED
    BY <2>1, <2>2, <2>3
<1>7. TypeInv'
  BY <1>2, <1>6 DEF EditInv, TypeInv, Runs
<1>8. PlanInv'
  <2>1. Planned(model, op.to, op.plan)'
    BY <1>2, <1>3 DEF Runs, Planned, OnFields, ForFields, RenamesFirst, ColumnsApart
  <2> QED
    BY <1>2, <1>4, <2>1 DEF PlanInv, Runs, Rest
<1>9. DocInv'
  <2>1. ColumnsApart(model, model)'
    BY <1>2 DEF EditInv, DocInv, Runs, ColumnsApart, Names
  <2>2. doc' # None => model' # None /\ HeldFits'
    BY <1>2, <1>6 DEF EditInv, DocInv, Runs, HeldFits
  <2>3. phase' # "idle" /\ doc' # None => op'.to # None /\ Changing'
    BY <1>2, <1>6 DEF Runs
  <2> QED
    BY <1>2, <2>1, <2>2, <2>3 DEF DocInv, Runs
<1>20. LegalInv'
  BY <1>2 DEF EditInv, LegalInv, Runs
<1> QED
  BY <1>7, <1>8, <1>9, <1>20 DEF EditInv

-----------------------------------------------------------------------------
(* The beginning and the end of an operation.                              *)

LEMMA StopEdits ==
  ASSUME EditInv, Stop, UNCHANGED project, phase # "idle"
  PROVE  EditInv'
<1>1. UNCHANGED <<project, model, doc, held, op>> /\ phase' = "failed"
  BY DEF Stop, database
<1>2. TypeInv'
  BY <1>1 DEF EditInv, TypeInv
<1>3. PlanInv'
  BY <1>1 DEF EditInv, PlanInv, Planned, OnFields, ForFields, RenamesFirst, ColumnsApart
<1>4. Changing => Changing'
  <2>1. \A do, arg : Left(do, arg)'
    BY <1>1 DEF Left
  <2>2. \A n : HeldAfter(op.to, n)' = HeldAfter(op.to, n)
    BY <1>1 DEF HeldAfter, FieldNames, InitialValue
  <2>3. \A n : KeptIs(n) => KeptIs(n)'
    BY <1>1, <2>1, <2>2 DEF KeptIs, Renaming
  <2>4. \A n : RemovedIs(n) => RemovedIs(n)'
    BY <1>1, <2>1 DEF RemovedIs
  <2>5. \A n : AddedIs(n) => AddedIs(n)'
    BY <1>1, <2>1 DEF AddedIs, InitialValue, Initially
  <2>6. /\ (Kept(model, op.to))' = Kept(model, op.to)
        /\ (Removed(model, op.to))' = Removed(model, op.to)
        /\ (Added(model, op.to))' = Added(model, op.to)
        /\ (Columns(model))' = Columns(model) /\ (Columns(op.to))' = Columns(op.to)
    BY <1>1 DEF Kept, Removed, Added, Names, Columns, Fields, FieldNames
  <2> HIDE DEF KeptIs, RemovedIs, AddedIs
  <2> QED
    BY <1>1, <2>3, <2>4, <2>5, <2>6 DEF Changing
<1>5. AsModel => AsModel'
  BY <1>1 DEF AsModel, FieldNames, Columns, Fields
<1>6. HeldFits => HeldFits'
  BY <1>1 DEF HeldFits, FieldNames
<1>7. DocInv'
  BY <1>1, <1>4, <1>5, <1>6 DEF EditInv, DocInv, ColumnsApart, Names, FieldNames, Left
<1>20. LegalInv'
  BY <1>1 DEF EditInv, LegalInv
<1> QED
  BY <1>2, <1>3, <1>7, <1>20 DEF EditInv

LEMMA RerunEdits ==
  ASSUME EditInv, Rerun, UNCHANGED project
  PROVE  EditInv'
<1>1. /\ UNCHANGED <<project, model, doc, held>>
      /\ phase = "failed" /\ phase' = "running" /\ todo' = op.plan
  BY DEF Rerun, database
<1>2. op' = [kind |-> op.kind, from |-> model, to |-> op.to, plan |-> op.plan, again |-> TRUE]
  <2>1. PICK k, t, p, a : /\ k = op.kind /\ t = op.to /\ p = op.plan /\ a = op.again
    OBVIOUS
  <2>2. op = [kind |-> k, from |-> model, to |-> t, plan |-> p, again |-> a]
    BY <1>1, <2>1 DEF EditInv, TypeInv
  <2>3. op' = [op EXCEPT !.again = TRUE]
    BY DEF Rerun
  <2>4. op' = [kind |-> k, from |-> model, to |-> t, plan |-> p, again |-> TRUE]
    BY <2>2, <2>3
  <2> QED
    BY <2>1, <2>4
<1>3. op'.to = op.to /\ op'.plan = op.plan
  BY <1>2
<1>4. Planned(model, op.to, op.plan)
  BY <1>1 DEF EditInv, PlanInv
<1>5. TypeInv'
  BY <1>1, <1>2, <1>3 DEF EditInv, TypeInv
<1>6. PlanInv'
  <2>1. Planned(model, op.to, op.plan)'
    BY <1>1, <1>3, <1>4 DEF Planned, OnFields, ForFields, RenamesFirst, ColumnsApart
  <2>2. Rest(op.plan, op.plan)
    BY <1>4, WholeRest DEF Planned
  <2> QED
    BY <1>1, <1>3, <2>1, <2>2 DEF PlanInv, Rest
<1>7. ASSUME doc # None, op.to # None PROVE Changing'
  <2>1. Changing /\ model # None /\ HeldFits /\ ForFields(model, op.to, op.plan)
    BY <1>1, <1>4, <1>7 DEF EditInv, DocInv, Planned
  <2>2. \A do, arg : Left(do, arg)' <=> Has(op.plan, do, arg)
    BY <1>1 DEF Left, Has
  <2>3. \A n : HeldAfter(op.to, n)' = HeldAfter(op.to, n)
    BY <1>1, <1>3 DEF HeldAfter, FieldNames, InitialValue
  <2>4. ASSUME NEW n \in Kept(model, op.to) PROVE KeptIs(n)'
    <3>1. PICK a, b, v, w, r : /\ a = model.fields[n].col /\ b = op.to.fields[n].col
                               /\ v = held[n] /\ w = HeldAfter(op.to, n)
                               /\ r = Renaming(model, op.to, n)
      OBVIOUS
    <3>2. KeptIs(n)
      BY <2>1 DEF Changing
    <3>3. \/ a = b /\ doc[b] \in {v, w}
          \/ a # b /\ doc[a] = v /\ doc[b] = Missing
          \/ a # b /\ doc[a] = Missing /\ doc[b] \in {v, w}
      BY <3>1, <3>2 DEF KeptIs
    <3>4. a # b => Has(op.plan, "rename_column", r)
      BY <2>1, <3>1 DEF ForFields, Moves
    <3>5. v # w => Has(op.plan, "replace_null", b)
      <4>1. n \in FieldNames(model) /\ n \in FieldNames(op.to)
        BY <1>7, <2>1 DEF Kept, Names
      <4>2. v # Missing
        BY <2>1, <3>1, <4>1, SchemaEditorAssumption, <1>1
          DEF HeldFits, EditInv, TypeInv, Model, FieldNames, Null, Missing, Default
      <4>3. v # w => Fills(model, op.to, n)
        BY <1>7, <3>1, <4>1, <4>2 DEF HeldAfter, Fills
      <4> QED
        BY <2>1, <3>1, <4>3 DEF ForFields
    <3>6. /\ a = (model.fields[n].col)' /\ b = (op.to.fields[n].col)'
          /\ v = (held[n])' /\ w = HeldAfter(op.to, n)' /\ r = Renaming(model, op.to, n)'
      BY <1>1, <1>3, <2>3, <3>1 DEF Renaming
    <3> QED
      BY <1>1, <2>2, <3>3, <3>4, <3>5, <3>6 DEF KeptIs
  <2>5. ASSUME NEW n \in Removed(model, op.to) PROVE RemovedIs(n)'
    <3>1. PICK a : a = model.fields[n].col
      OBVIOUS
    <3>2. doc[a] \in {held[n], Missing} /\ Has(op.plan, "unset", a)
      BY <1>7, <2>1, <3>1 DEF Changing, RemovedIs, ForFields
    <3>3. a = (model.fields[n].col)'
      BY <1>1, <3>1
    <3> QED
      BY <1>1, <2>2, <3>2, <3>3 DEF RemovedIs
  <2>6. ASSUME NEW n \in Added(model, op.to) PROVE AddedIs(n)'
    <3>1. PICK f, r : f = op.to.fields[n] /\ r = Initially(op.to, n)
      OBVIOUS
    <3>2. doc[f.col] \in {Missing, InitialValue(f)} /\ Has(op.plan, "set", r)
      BY <2>1, <3>1 DEF Changing, AddedIs, ForFields
    <3>3. f = (op.to.fields[n])' /\ r = Initially(op.to, n)'
      BY <1>1, <1>3, <3>1 DEF Initially, InitialValue
    <3>4. InitialValue(f)' = InitialValue(f)
      BY DEF InitialValue
    <3> QED
      BY <1>1, <2>2, <3>2, <3>3, <3>4 DEF AddedIs
  <2>7. /\ (Kept(model, op.to))' = Kept(model, op.to)
        /\ (Removed(model, op.to))' = Removed(model, op.to)
        /\ (Added(model, op.to))' = Added(model, op.to)
        /\ (Columns(model))' = Columns(model) /\ (Columns(op.to))' = Columns(op.to)
    BY <1>1, <1>3 DEF Kept, Removed, Added, Names, Columns, Fields, FieldNames
  <2>8. \A c \in Column \ (Columns(model) \cup Columns(op.to)) : doc'[c] = Missing
    BY <1>1, <2>1 DEF Changing
  <2> HIDE DEF KeptIs, RemovedIs, AddedIs
  <2> QED
    BY <2>4, <2>5, <2>6, <2>7, <2>8 DEF Changing
<1>8. ASSUME doc # None, op.to = None
      PROVE  AsModel' /\ Left("drop_collection", model.table)'
  <2>1. AsModel /\ model # None
    BY <1>1, <1>8 DEF EditInv, DocInv
  <2>2. Has(op.plan, "drop_collection", model.table)
    BY <1>4, <1>8, <2>1 DEF Planned, ForFields
  <2> QED
    BY <1>1, <2>1, <2>2 DEF AsModel, FieldNames, Columns, Fields, Left, Has
<1>9. DocInv'
  <2>1. HeldFits => HeldFits'
    BY <1>1 DEF HeldFits, FieldNames
  <2>2. ColumnsApart(model, model)'
    BY <1>1 DEF EditInv, DocInv, ColumnsApart, Names, FieldNames
  <2> QED
    BY <1>1, <1>3, <1>7, <1>8, <2>1, <2>2 DEF EditInv, DocInv
<1>20. LegalInv'
  BY <1>1, <1>3 DEF EditInv, LegalInv
<1> QED
  BY <1>5, <1>6, <1>9, <1>20 DEF EditInv

LEMMA FinishEdits ==
  ASSUME EditInv, Finish, UNCHANGED project
  PROVE  EditInv'
<1>1. /\ UNCHANGED <<project, doc>> /\ phase = "running" /\ phase' = "idle"
      /\ todo = <<>> /\ model' = op.to /\ op' = None
      /\ held' = [n \in Name |-> HeldAfter(op.to, n)]
  BY DEF Finish, database
<1>2. \A do, arg : ~Left(do, arg)
  BY <1>1, NothingIs DEF Left, Has
<1>3. Planned(model, op.to, op.plan) /\ op.to \in Model \cup {None}
  BY <1>1 DEF EditInv, PlanInv, TypeInv
<1>4. ASSUME NEW n \in Name PROVE HeldAfter(op.to, n) \in Value
  <2>1. held[n] \in Value
    BY DEF EditInv, TypeInv
  <2>2. \A f : InitialValue(f) \in Value
    BY DEF InitialValue, Value
  <2> QED
    BY <2>1, <2>2 DEF HeldAfter, Value
<1>5. TypeInv'
  BY <1>1, <1>3, <1>4 DEF EditInv, TypeInv
<1>6. PlanInv'
  BY <1>1 DEF PlanInv
<1>7. ASSUME doc # None
      PROVE  model' # None /\ HeldFits' /\ AsModel'
  <2>1. op.to # None /\ Changing /\ HeldFits /\ model # None
    BY <1>1, <1>2, <1>7 DEF EditInv, DocInv
  <2>2. model \in Model /\ op.to \in Model
    BY <2>1, <1>3 DEF EditInv, TypeInv
  <2>3. /\ Names(op.to) = FieldNames(op.to) /\ Names(model) = FieldNames(model)
        /\ FieldNames(op.to) \subseteq Name /\ FieldNames(model) \subseteq Name
    BY <2>1, <2>2 DEF Names, FieldNames, Model
  <2>4. \A n \in FieldNames(op.to) : op.to.fields[n].col \in Column
    BY <2>2 DEF Model, FieldNames, ModelField
  <2>5. ASSUME NEW n \in Kept(model, op.to)
        PROVE  /\ doc[op.to.fields[n].col] = HeldAfter(op.to, n)
               /\ HeldAfter(op.to, n) \in {n, Null, Default}
               /\ Moves(model, op.to, n) => doc[model.fields[n].col] = Missing
    <3>1. KeptIs(n)
      BY <2>1 DEF Changing
    <3>2. PICK a, b, v, w, r : /\ a = model.fields[n].col /\ b = op.to.fields[n].col
                               /\ v = held[n] /\ w = HeldAfter(op.to, n)
                               /\ r = Renaming(model, op.to, n)
      OBVIOUS
    <3>3. /\ \/ a = b /\ doc[b] \in {v, w}
             \/ a # b /\ doc[a] = v /\ doc[b] = Missing
             \/ a # b /\ doc[a] = Missing /\ doc[b] \in {v, w}
          /\ a # b => doc[a] = Missing
          /\ v # w => doc[b] = w
      BY <1>2, <3>1, <3>2 DEF KeptIs
    <3>4. v \in {n, Null, Default} /\ n \in Name /\ n \in FieldNames(op.to)
      BY <2>1, <2>3, <3>2 DEF HeldFits, Kept
    <3>5. v # Missing /\ Null # Default
      BY <3>4, SchemaEditorAssumption DEF Null, Missing, Default
    <3>6. w \in {v, Default}
      BY <1>7, <2>1, <3>2, <3>4, <3>5 DEF HeldAfter
    <3> QED
      BY <3>2, <3>3, <3>4, <3>5, <3>6 DEF Moves
  <2>6. ASSUME NEW n \in Added(model, op.to)
        PROVE  /\ doc[op.to.fields[n].col] = HeldAfter(op.to, n)
               /\ HeldAfter(op.to, n) \in {n, Null, Default}
    <3>1. n \in FieldNames(op.to) /\ n \notin FieldNames(model) /\ n \in Name
      BY <2>3 DEF Added
    <3>2. held[n] = Missing
      BY <2>1, <3>1 DEF HeldFits
    <3>3. HeldAfter(op.to, n) = InitialValue(op.to.fields[n])
      BY <1>7, <2>1, <3>1, <3>2 DEF HeldAfter, Missing, Null
    <3>4. doc[op.to.fields[n].col] = InitialValue(op.to.fields[n])
      BY <1>2, <2>1 DEF Changing, AddedIs
    <3> QED
      BY <3>3, <3>4 DEF InitialValue, Null, Default
  <2>7. \A n \in FieldNames(op.to) : n \in Kept(model, op.to) \/ n \in Added(model, op.to)
    BY <2>3 DEF Kept, Added
  <2>8. HeldFits'
    <3>1. ASSUME NEW n \in Name, n \notin FieldNames(op.to) PROVE HeldAfter(op.to, n) = Missing
      BY <2>1, <3>1 DEF HeldAfter
    <3> QED
      BY <1>1, <2>3, <2>5, <2>6, <2>7, <3>1 DEF HeldFits, FieldNames
  <2>9. ASSUME NEW c \in Column, c \notin Columns(op.to) PROVE doc[c] = Missing
    <3>1. CASE c \notin Columns(model)
      BY <2>1, <2>9, <3>1 DEF Changing
    <3>2. CASE c \in Columns(model)
      <4>1. PICK n \in FieldNames(model) : c = model.fields[n].col
        BY <3>2 DEF Columns, Fields
      <4>2. CASE n \in FieldNames(op.to)
        <5>1. n \in Kept(model, op.to) /\ Moves(model, op.to, n)
          BY <2>3, <2>9, <4>1, <4>2 DEF Kept, Moves, Columns, Fields
        <5> QED
          BY <2>5, <4>1, <5>1
      <4>3. CASE n \notin FieldNames(op.to)
        <5>1. n \in Removed(model, op.to)
          BY <2>3, <4>1, <4>3 DEF Removed
        <5> QED
          BY <1>2, <2>1, <4>1, <5>1 DEF Changing, RemovedIs
      <4> QED
        BY <4>2, <4>3
    <3> QED
      BY <3>1, <3>2
  <2>10. AsModel'
    <3>1. \A n \in FieldNames(op.to) : doc[op.to.fields[n].col] = HeldAfter(op.to, n)
      BY <2>5, <2>6, <2>7
    <3> QED
      BY <1>1, <2>3, <2>9, <3>1 DEF AsModel, FieldNames, Columns, Fields
  <2> QED
    BY <1>1, <2>1, <2>8, <2>10
<1>8. ColumnsApart(model, model)'
  BY <1>1, <1>3 DEF Planned, ColumnsApart, Names, FieldNames
<1>9. DocInv'
  BY <1>1, <1>7, <1>8 DEF DocInv
<1>20. LegalInv'
  BY <1>1 DEF EditInv, LegalInv
<1> QED
  BY <1>5, <1>6, <1>9, <1>20 DEF EditInv

LEMMA SaveEdits ==
  ASSUME EditInv, Save, UNCHANGED project
  PROVE  EditInv'
<1>1. /\ UNCHANGED <<project, model, phase, op, todo>>
      /\ phase = "idle" /\ model # None /\ model \in Model
  BY DEF Save, EditInv, TypeInv
<1>2. FieldNames(model) \subseteq Name
      /\ \A n \in FieldNames(model) : model.fields[n].col \in Column
  BY <1>1 DEF Model, FieldNames, ModelField
<1>3. PICK nulls \in SUBSET {n \in FieldNames(model) : model.fields[n].null} :
        held' = [n \in Name |-> IF n \notin FieldNames(model) THEN Missing
                                ELSE IF n \in nulls THEN Null ELSE n]
  BY DEF Save
<1>4. held' \in [Name -> Value]
  BY <1>3 DEF Value
<1> DEFINE Of(c) == CHOOSE n \in FieldNames(model) : model.fields[n].col = c
<1>5. doc' = [c \in Column |->
                IF \E n \in FieldNames(model) : model.fields[n].col = c
                THEN held'[Of(c)] ELSE Missing]
  BY DEF Save
<1>6. ASSUME NEW n \in FieldNames(model) PROVE Of(model.fields[n].col) = n
  <2>1. ColumnsApart(model, model)
    BY DEF EditInv, DocInv
  <2>2. /\ Of(model.fields[n].col) \in FieldNames(model)
        /\ model.fields[Of(model.fields[n].col)].col = model.fields[n].col
    OBVIOUS
  <2> HIDE DEF Of
  <2> QED
    BY <1>1, <2>1, <2>2 DEF ColumnsApart, Names
<1>7. \A c \in Column : (\E n \in FieldNames(model) : model.fields[n].col = c)
                          => Of(c) \in FieldNames(model)
  OBVIOUS
<1> HIDE DEF Of
<1>8. doc' \in [Column -> Value]
  BY <1>2, <1>4, <1>5, <1>7 DEF Value
<1>9. AsModel'
  <2>1. \A n \in FieldNames(model) : doc'[model.fields[n].col] = held'[n]
    BY <1>2, <1>5, <1>6
  <2>2. \A c \in Column \ Columns(model) : doc'[c] = Missing
    BY <1>5 DEF Columns, Fields
  <2> QED
    BY <1>1, <2>1, <2>2 DEF AsModel, FieldNames, Columns, Fields
<1>10. HeldFits'
  <2>1. \A n \in Name \ FieldNames(model) : held'[n] = Missing
    BY <1>3
  <2>2. \A n \in FieldNames(model) :
          held'[n] \in {n, Null, Default}
    BY <1>2, <1>3
  <2> QED
    BY <1>1, <2>1, <2>2 DEF HeldFits, FieldNames
<1>11. TypeInv'
  BY <1>1, <1>4, <1>8 DEF EditInv, TypeInv
<1>12. PlanInv'
  BY <1>1 DEF PlanInv
<1>13. DocInv'
  BY <1>1, <1>9, <1>10 DEF EditInv, DocInv, ColumnsApart, Names, FieldNames
<1>20. LegalInv'
  BY <1>1 DEF EditInv, LegalInv
<1> QED
  BY <1>11, <1>12, <1>13, <1>20 DEF EditInv

LEMMA StartEdits ==
  ASSUME EditInv, NEW kind, NEW to \in Model \cup {None}, NEW plan,
         Legal(project, to), Planned(model, to, plan), Start(kind, to, plan),
         UNCHANGED project
  PROVE  EditInv'
<1>1. /\ UNCHANGED <<project, model, doc, held>>
      /\ phase = "idle" /\ phase' = "running" /\ todo' = plan
      /\ op' = [kind |-> kind, from |-> model, to |-> to, plan |-> plan, again |-> FALSE]
  BY DEF Start, database
<1>2. op'.to = to /\ op'.plan = plan
  BY <1>1
<1>3. TypeInv'
  BY <1>1 DEF EditInv, TypeInv
<1>4. PlanInv'
  <2>1. Planned(model, op.to, op.plan)'
    BY <1>1, <1>2 DEF Planned, OnFields, ForFields, RenamesFirst, ColumnsApart
  <2>2. Rest(plan, plan)
    BY WholeRest DEF Planned
  <2> QED
    BY <1>1, <1>2, <2>1, <2>2 DEF PlanInv, Rest
<1>5. \A do, arg : Left(do, arg)' <=> Has(plan, do, arg)
  BY <1>1 DEF Left, Has
<1>6. doc # None => model # None /\ HeldFits /\ AsModel
  BY <1>1 DEF EditInv, DocInv
<1>7. model # None => ForFields(model, to, plan)
  BY DEF Planned
<1>8. ASSUME doc # None, to # None PROVE Changing'
  <2>1. model # None /\ HeldFits /\ AsModel /\ ForFields(model, to, plan)
    BY <1>6, <1>7, <1>8
  <2>2. model \in Model /\ to \in Model
    BY <2>1, <1>8 DEF EditInv, TypeInv
  <2>3. /\ Names(to) = FieldNames(to) /\ Names(model) = FieldNames(model)
        /\ FieldNames(to) \subseteq Name /\ FieldNames(model) \subseteq Name
        /\ \A n \in FieldNames(to) : to.fields[n].col \in Column
    BY <1>8, <2>1, <2>2 DEF Names, FieldNames, Model, ModelField
  <2>4. ASSUME NEW n \in FieldNames(to), ~\E l \in FieldNames(model) :
                 model.fields[l].col = to.fields[n].col
        PROVE  doc[to.fields[n].col] = Missing
    BY <2>1, <2>3, <2>4 DEF AsModel, Columns, Fields
  <2>5. ColumnsApart(model, to)
    BY DEF Planned
  <2>6. ASSUME NEW n \in Kept(model, to) PROVE KeptIs(n)'
    <3>1. PICK a, b, v, w, r : /\ a = model.fields[n].col /\ b = to.fields[n].col
                               /\ v = held[n] /\ w = HeldAfter(to, n)
                               /\ r = Renaming(model, to, n)
      OBVIOUS
    <3>2. n \in FieldNames(model) /\ n \in FieldNames(to)
      BY <2>3 DEF Kept
    <3>3. doc[a] = v
      BY <2>1, <3>1, <3>2 DEF AsModel
    <3>4. a # b => doc[b] = Missing
      <4>1. ASSUME a # b, NEW l \in FieldNames(model), model.fields[l].col = b PROVE FALSE
        BY <2>3, <2>5, <3>1, <3>2, <4>1 DEF ColumnsApart
      <4> QED
        BY <2>4, <3>1, <3>2, <4>1
    <3>5. a # b => Has(plan, "rename_column", r)
      BY <2>1, <3>1 DEF ForFields, Moves
    <3>6. v # w => Has(plan, "replace_null", b)
      <4>1. v # Missing
        BY <2>1, <2>3, <3>1, <3>2, SchemaEditorAssumption
          DEF HeldFits, Null, Missing, Default
      <4>2. v # w => Fills(model, to, n)
        BY <1>8, <3>1, <3>2, <4>1 DEF HeldAfter, Fills
      <4> QED
        BY <2>1, <3>1, <4>2 DEF ForFields
    <3>7. /\ a = (model.fields[n].col)' /\ b = (op.to.fields[n].col)'
          /\ v = (held[n])' /\ r = Renaming(model, op.to, n)'
      BY <1>1, <1>2, <3>1 DEF Renaming
    <3>8. w = HeldAfter(op.to, n)'
      BY <1>1, <1>2, <3>1 DEF HeldAfter, FieldNames, InitialValue
    <3> QED
      BY <1>1, <1>5, <3>3, <3>4, <3>5, <3>6, <3>7, <3>8 DEF KeptIs
  <2>7. ASSUME NEW n \in Removed(model, to) PROVE RemovedIs(n)'
    <3>1. PICK a : a = model.fields[n].col
      OBVIOUS
    <3>2. doc[a] = held[n] /\ Has(plan, "unset", a)
      BY <1>8, <2>1, <2>3, <3>1 DEF AsModel, Removed, ForFields
    <3>3. a = (model.fields[n].col)'
      BY <1>1, <3>1
    <3> QED
      BY <1>1, <1>5, <3>2, <3>3 DEF RemovedIs
  <2>8. ASSUME NEW n \in Added(model, to) PROVE AddedIs(n)'
    <3>1. PICK f, r : f = to.fields[n] /\ r = Initially(to, n)
      OBVIOUS
    <3>2. n \in FieldNames(to) /\ n \notin FieldNames(model)
      BY <2>3 DEF Added
    <3>3. doc[f.col] = Missing
      BY <2>3, <2>4, <2>5, <3>1, <3>2 DEF ColumnsApart
    <3>4. Has(plan, "set", r)
      BY <2>1, <3>1 DEF ForFields
    <3>5. f = (op.to.fields[n])' /\ r = Initially(op.to, n)'
      BY <1>1, <1>2, <3>1 DEF Initially, InitialValue
    <3> QED
      BY <1>1, <1>5, <3>3, <3>4, <3>5 DEF AddedIs
  <2>9. /\ (Kept(model, op.to))' = Kept(model, to)
        /\ (Removed(model, op.to))' = Removed(model, to)
        /\ (Added(model, op.to))' = Added(model, to)
        /\ (Columns(model))' = Columns(model) /\ (Columns(op.to))' = Columns(to)
    BY <1>1, <1>2 DEF Kept, Removed, Added, Names, Columns, Fields, FieldNames
  <2>10. \A c \in Column \ (Columns(model) \cup Columns(to)) : doc'[c] = Missing
    BY <1>1, <2>1 DEF AsModel
  <2> HIDE DEF KeptIs, RemovedIs, AddedIs
  <2> QED
    BY <2>6, <2>7, <2>8, <2>9, <2>10 DEF Changing
<1>9. ASSUME doc # None, to = None
      PROVE  AsModel' /\ Left("drop_collection", model.table)'
  <2>1. AsModel /\ Has(plan, "drop_collection", model.table)
    BY <1>6, <1>7, <1>9 DEF ForFields
  <2> QED
    BY <1>1, <1>5, <2>1 DEF AsModel, FieldNames, Columns, Fields, Left, Has
<1>10. DocInv'
  <2>1. HeldFits => HeldFits'
    BY <1>1 DEF HeldFits, FieldNames
  <2>2. ColumnsApart(model, model)'
    BY <1>1 DEF EditInv, DocInv, ColumnsApart, Names, FieldNames
  <2> QED
    BY <1>1, <1>2, <1>6, <1>8, <1>9, <2>1, <2>2 DEF DocInv
<1>20. LegalInv'
  BY <1>1, <1>2 DEF EditInv, LegalInv
<1> QED
  BY <1>3, <1>4, <1>10, <1>20 DEF EditInv

-----------------------------------------------------------------------------
(* The plans.                                                              *)

LEMMA FiniteImage ==
  ASSUME NEW S, IsFiniteSet(S), NEW f
  PROVE  IsFiniteSet({f[x] : x \in S})
<1> DEFINE g == [x \in S |-> f[x]]
<1>1. g \in Surjection(S, {f[x] : x \in S})
  BY DEF Surjection
<1> HIDE DEF g
<1> QED
  BY <1>1, FS_Surjection

LEMMA CommandIs ==
  ASSUME NEW do, NEW arg
  PROVE  /\ Command(do, arg).do = do /\ Command(do, arg).arg = arg
         /\ AddIndex(arg).do = "create_index" /\ AddIndex(arg).arg = arg
BY DEF Command, AddIndex

KeyIndexes(m, f) ==
  {x \in {FieldIndex(m, f)} : f.key = "index"} \cup {x \in {FieldUnique(m, f)} : f.key = "unique"}

SpatialIndexes(m, f) == {x \in {SpatialIndex(m, SpatialPath(f))} : Spatial(f)}

AddAll(S) == {AddIndex(x) : x \in S}

RemoveKeys(f) ==
  {c \in {Command("remove_field_index", f.col)} : f.key = "index"}
    \cup {c \in {Command("remove_field_unique", f.col)} : f.key = "unique"}

LEMMA AddAllUnion == \A S, T : AddAll(S \cup T) = AddAll(S) \cup AddAll(T)
BY DEF AddAll

LEMMA AddKeyIs ==
  ASSUME NEW m, NEW f
  PROVE  IsSeq(AddKey(m, f)) /\ Range(AddKey(m, f)) = AddAll(KeyIndexes(m, f))
<1> DEFINE s == When(f.key = "index", <<AddIndex(FieldIndex(m, f))>>)
           t == When(f.key = "unique", <<AddIndex(FieldUnique(m, f))>>)
<1>1. /\ IsSeq(s)
      /\ Range(s) = IF f.key = "index" THEN {AddIndex(FieldIndex(m, f))} ELSE {}
  BY OneIs, WhenIs
<1>2. /\ IsSeq(t)
      /\ Range(t) = IF f.key = "unique" THEN {AddIndex(FieldUnique(m, f))} ELSE {}
  BY OneIs, WhenIs
<1> HIDE DEF s, t
<1>3. IsSeq(s \o t) /\ Range(s \o t) = Range(s) \cup Range(t)
  BY <1>1, <1>2, ConcatIs
<1>4. Range(s) \cup Range(t) = AddAll(KeyIndexes(m, f))
  BY <1>1, <1>2 DEF AddAll, KeyIndexes
<1> QED
  BY <1>3, <1>4 DEF AddKey, s, t

LEMMA RemoveKeyIs ==
  ASSUME NEW f
  PROVE  IsSeq(RemoveKey(f)) /\ Range(RemoveKey(f)) = RemoveKeys(f)
<1> DEFINE s == When(f.key = "index", <<Command("remove_field_index", f.col)>>)
           t == When(f.key = "unique", <<Command("remove_field_unique", f.col)>>)
<1>1. /\ IsSeq(s)
      /\ Range(s) = IF f.key = "index" THEN {Command("remove_field_index", f.col)} ELSE {}
  BY OneIs, WhenIs
<1>2. /\ IsSeq(t)
      /\ Range(t) = IF f.key = "unique" THEN {Command("remove_field_unique", f.col)} ELSE {}
  BY OneIs, WhenIs
<1> HIDE DEF s, t
<1>3. IsSeq(s \o t) /\ Range(s \o t) = Range(s) \cup Range(t)
  BY <1>1, <1>2, ConcatIs
<1>4. Range(s) \cup Range(t) = RemoveKeys(f)
  BY <1>1, <1>2 DEF RemoveKeys
<1> QED
  BY <1>3, <1>4 DEF RemoveKey, s, t

LEMMA AddSpatialIs ==
  ASSUME NEW m, NEW f, Spatial(f) \in BOOLEAN
  PROVE  IsSeq(AddSpatial(m, f)) /\ Range(AddSpatial(m, f)) = AddAll(SpatialIndexes(m, f))
<1>1. /\ IsSeq(AddSpatial(m, f))
      /\ Range(AddSpatial(m, f)) =
           IF Spatial(f) THEN {AddIndex(SpatialIndex(m, SpatialPath(f)))} ELSE {}
  BY OneIs, WhenIs DEF AddSpatial
<1> QED
  BY <1>1 DEF AddAll, SpatialIndexes

LEMMA FieldsFinite ==
  ASSUME NEW m \in Model
  PROVE  IsFiniteSet(FieldNames(m)) /\ IsFiniteSet(Fields(m))
<1>1. IsFiniteSet(FieldNames(m))
  BY FiniteAssumption, FS_Subset DEF Model, FieldNames
<1> QED
  BY <1>1, FiniteImage DEF Fields

LEMMA EachKeyIs ==
  ASSUME NEW m \in Model
  PROVE  LET S == UNION {Range(AddKey(m, f)) : f \in Fields(m)}
         IN  IsFiniteSet(S) /\ S = AddAll(UNION {KeyIndexes(m, f) : f \in Fields(m)})
<1> DEFINE g == [f \in Fields(m) |-> Range(AddKey(m, f))]
           S == UNION {Range(AddKey(m, f)) : f \in Fields(m)}
<1>1. IsFiniteSet({g[f] : f \in Fields(m)})
  BY FieldsFinite, FiniteImage
<1>2. {g[f] : f \in Fields(m)} = {Range(AddKey(m, f)) : f \in Fields(m)}
  OBVIOUS
<1>3. ASSUME NEW f PROVE IsFiniteSet(Range(AddKey(m, f)))
  <2> DEFINE a == AddIndex(FieldIndex(m, f))
             b == AddIndex(FieldUnique(m, f))
  <2>1. IsFiniteSet({a}) /\ IsFiniteSet({b})
    BY FS_Singleton
  <2>2. IsFiniteSet({a} \cup {b})
    BY <2>1, FS_Union
  <2>3. Range(AddKey(m, f)) \subseteq {a} \cup {b}
    BY AddKeyIs DEF AddAll, KeyIndexes
  <2> QED
    BY <2>2, <2>3, FS_Subset
<1>4. IsFiniteSet(S)
  BY <1>1, <1>2, <1>3, FS_UNION
<1>5. S = AddAll(UNION {KeyIndexes(m, f) : f \in Fields(m)})
  BY AddKeyIs DEF AddAll
<1> QED
  BY <1>4, <1>5

LEMMA SpatialIs ==
  ASSUME NEW m \in Model, NEW f \in Fields(m)
  PROVE  Spatial(f) \in BOOLEAN
BY DEF Spatial, Model, Fields, FieldNames, ModelField

LEMMA EachSpatialIs ==
  ASSUME NEW m \in Model
  PROVE  LET S == UNION {Range(AddSpatial(m, f)) : f \in Fields(m)}
         IN  IsFiniteSet(S) /\ S = AddAll(UNION {SpatialIndexes(m, f) : f \in Fields(m)})
<1> DEFINE g == [f \in Fields(m) |-> Range(AddSpatial(m, f))]
           S == UNION {Range(AddSpatial(m, f)) : f \in Fields(m)}
<1>1. IsFiniteSet({g[f] : f \in Fields(m)})
  BY FieldsFinite, FiniteImage
<1>2. {g[f] : f \in Fields(m)} = {Range(AddSpatial(m, f)) : f \in Fields(m)}
  OBVIOUS
<1>3. ASSUME NEW f \in Fields(m) PROVE IsFiniteSet(Range(AddSpatial(m, f)))
  <2> DEFINE a == AddIndex(SpatialIndex(m, SpatialPath(f)))
  <2>1. IsFiniteSet({a})
    BY FS_Singleton
  <2>2. Range(AddSpatial(m, f)) \subseteq {a}
    BY SpatialIs, AddSpatialIs DEF AddAll, SpatialIndexes
  <2> QED
    BY <2>1, <2>2, FS_Subset
<1>4. IsFiniteSet(S)
  BY <1>1, <1>2, <1>3, FS_UNION
<1>5. S = AddAll(UNION {SpatialIndexes(m, f) : f \in Fields(m)})
  BY SpatialIs, AddSpatialIs DEF AddAll
<1> QED
  BY <1>4, <1>5

\* The loops of the editor.
LEMMA AddUniqueTogetherIs ==
  ASSUME NEW m, NEW S, IsFiniteSet(S)
  PROVE  /\ IsSeq(AddUniqueTogether(m, S))
         /\ Range(AddUniqueTogether(m, S)) = AddAll({TogetherUnique(m, names) : names \in S})
<1> DEFINE g == [names \in S |-> AddIndex(TogetherUnique(m, names))]
<1>1. IsFiniteSet({g[names] : names \in S})
  BY FiniteImage
<1>2. {g[names] : names \in S} = {AddIndex(TogetherUnique(m, names)) : names \in S}
  OBVIOUS
<1>3. {AddIndex(TogetherUnique(m, names)) : names \in S} =
        AddAll({TogetherUnique(m, names) : names \in S})
  BY DEF AddAll
<1> QED
  BY <1>1, <1>2, <1>3, SetToSeqIs DEF AddUniqueTogether, ForEach

LEMMA AddIndexTogetherIs ==
  ASSUME NEW m, NEW S, IsFiniteSet(S)
  PROVE  LET s == ForEach({AddIndex(TogetherIndex(m, names)) : names \in S})
         IN  IsSeq(s) /\ Range(s) = AddAll({TogetherIndex(m, names) : names \in S})
<1> DEFINE g == [names \in S |-> AddIndex(TogetherIndex(m, names))]
<1>1. IsFiniteSet({g[names] : names \in S})
  BY FiniteImage
<1>2. {g[names] : names \in S} = {AddIndex(TogetherIndex(m, names)) : names \in S}
  OBVIOUS
<1>3. {AddIndex(TogetherIndex(m, names)) : names \in S} =
        AddAll({TogetherIndex(m, names) : names \in S})
  BY DEF AddAll
<1> QED
  BY <1>1, <1>2, <1>3, SetToSeqIs DEF ForEach

LEMMA AddMetaUniqueIs ==
  ASSUME NEW m, NEW S, IsFiniteSet(S)
  PROVE  LET s == ForEach({AddIndex(MetaUnique(m, x)) : x \in S})
         IN  IsSeq(s) /\ Range(s) = AddAll({MetaUnique(m, x) : x \in S})
<1> DEFINE g == [x \in S |-> AddIndex(MetaUnique(m, x))]
<1>1. IsFiniteSet({g[x] : x \in S})
  BY FiniteImage
<1>2. {g[x] : x \in S} = {AddIndex(MetaUnique(m, x)) : x \in S}
  OBVIOUS
<1>3. {AddIndex(MetaUnique(m, x)) : x \in S} = AddAll({MetaUnique(m, x) : x \in S})
  BY DEF AddAll
<1> QED
  BY <1>1, <1>2, <1>3, SetToSeqIs DEF ForEach

LEMMA AddMetaIndexIs ==
  ASSUME NEW m, NEW S, IsFiniteSet(S)
  PROVE  LET s == ForEach({AddIndex(MetaIndex(m, x)) : x \in S})
         IN  IsSeq(s) /\ Range(s) = AddAll({MetaIndex(m, x) : x \in S})
<1> DEFINE g == [x \in S |-> AddIndex(MetaIndex(m, x))]
<1>1. IsFiniteSet({g[x] : x \in S})
  BY FiniteImage
<1>2. {g[x] : x \in S} = {AddIndex(MetaIndex(m, x)) : x \in S}
  OBVIOUS
<1>3. {AddIndex(MetaIndex(m, x)) : x \in S} = AddAll({MetaIndex(m, x) : x \in S})
  BY DEF AddAll
<1> QED
  BY <1>1, <1>2, <1>3, SetToSeqIs DEF ForEach

Removals(S, unique) ==
  {Command("remove_together", [names |-> names, unique |-> unique]) : names \in S}

LEMMA RemoveTogetherIs ==
  ASSUME NEW S, IsFiniteSet(S), NEW unique
  PROVE  /\ IsSeq(RemoveTogether(S, unique))
         /\ Range(RemoveTogether(S, unique)) = Removals(S, unique)
<1> DEFINE g == [names \in S |->
                   Command("remove_together", [names |-> names, unique |-> unique])]
<1>1. IsFiniteSet({g[names] : names \in S})
  BY FiniteImage
<1>2. {g[names] : names \in S} = Removals(S, unique)
  BY DEF Removals
<1> QED
  BY <1>1, <1>2, SetToSeqIs DEF RemoveTogether, ForEach, Removals

\* The indexes that creating a model makes.
Made(m) ==
  (UNION {KeyIndexes(m, f) : f \in Fields(m)})
    \cup {TogetherUnique(m, names) : names \in m.unique_together}
    \cup {MetaUnique(m, x) : x \in m.constraints}
    \cup {MetaIndex(m, x) : x \in m.indexes}
    \cup (UNION {SpatialIndexes(m, f) : f \in Fields(m)})

LEMMA CreateModelPlanIs ==
  ASSUME NEW m \in Model, IsFiniteSet(m.unique_together), IsFiniteSet(m.constraints),
         IsFiniteSet(m.indexes)
  PROVE  /\ IsSeq(CreateModelPlan(m))
         /\ Range(CreateModelPlan(m)) =
              {Command("create_collection", m.table)} \cup AddAll(Made(m))
<1> DEFINE a == <<Command("create_collection", m.table)>>
           b == ForEach(UNION {Range(AddKey(m, f)) : f \in Fields(m)})
           c == AddUniqueTogether(m, m.unique_together)
           d == ForEach({AddIndex(MetaUnique(m, x)) : x \in m.constraints})
           e == ForEach({AddIndex(MetaIndex(m, x)) : x \in m.indexes})
           g == ForEach(UNION {Range(AddSpatial(m, f)) : f \in Fields(m)})
<1>1. IsSeq(a) /\ Range(a) = {Command("create_collection", m.table)}
  BY OneIs
<1>2. IsSeq(b) /\ Range(b) = AddAll(UNION {KeyIndexes(m, f) : f \in Fields(m)})
  BY EachKeyIs, SetToSeqIs DEF ForEach
<1>3. IsSeq(c) /\ Range(c) = AddAll({TogetherUnique(m, names) : names \in m.unique_together})
  BY AddUniqueTogetherIs
<1>4. IsSeq(d) /\ Range(d) = AddAll({MetaUnique(m, x) : x \in m.constraints})
  BY AddMetaUniqueIs
<1>5. IsSeq(e) /\ Range(e) = AddAll({MetaIndex(m, x) : x \in m.indexes})
  BY AddMetaIndexIs
<1>6. IsSeq(g) /\ Range(g) = AddAll(UNION {SpatialIndexes(m, f) : f \in Fields(m)})
  BY EachSpatialIs, SetToSeqIs DEF ForEach
<1> HIDE DEF a, b, c, d, e, g
<1>7. IsSeq(a \o b) /\ Range(a \o b) = Range(a) \cup Range(b)
  BY <1>1, <1>2, ConcatIs
<1>8. IsSeq(a \o b \o c) /\ Range(a \o b \o c) = Range(a \o b) \cup Range(c)
  BY <1>3, <1>7, ConcatIs
<1>9. IsSeq(a \o b \o c \o d) /\ Range(a \o b \o c \o d) = Range(a \o b \o c) \cup Range(d)
  BY <1>4, <1>8, ConcatIs
<1>10. /\ IsSeq(a \o b \o c \o d \o e)
       /\ Range(a \o b \o c \o d \o e) = Range(a \o b \o c \o d) \cup Range(e)
  BY <1>5, <1>9, ConcatIs
<1>11. /\ IsSeq(a \o b \o c \o d \o e \o g)
       /\ Range(a \o b \o c \o d \o e \o g) = Range(a \o b \o c \o d \o e) \cup Range(g)
  BY <1>6, <1>10, ConcatIs
<1>12. CreateModelPlan(m) = a \o b \o c \o d \o e \o g
  BY DEF CreateModelPlan, a, b, c, d, e, g
<1>13. AddAll(Made(m)) = Range(b) \cup Range(c) \cup Range(d) \cup Range(e) \cup Range(g)
  <2> DEFINE B == UNION {KeyIndexes(m, f) : f \in Fields(m)}
             C == {TogetherUnique(m, names) : names \in m.unique_together}
             D == {MetaUnique(m, x) : x \in m.constraints}
             E == {MetaIndex(m, x) : x \in m.indexes}
             G == UNION {SpatialIndexes(m, f) : f \in Fields(m)}
  <2>1. Made(m) = B \cup C \cup D \cup E \cup G
    BY DEF Made
  <2>3. /\ Range(b) = AddAll(B) /\ Range(c) = AddAll(C) /\ Range(d) = AddAll(D)
        /\ Range(e) = AddAll(E) /\ Range(g) = AddAll(G)
    BY <1>2, <1>3, <1>4, <1>5, <1>6
  <2> HIDE DEF B, C, D, E, G
  <2>2. AddAll(B \cup C \cup D \cup E \cup G) =
          AddAll(B) \cup AddAll(C) \cup AddAll(D) \cup AddAll(E) \cup AddAll(G)
    <3>1. AddAll(B \cup C) = AddAll(B) \cup AddAll(C)
      BY AddAllUnion, Zenon
    <3>2. AddAll(B \cup C \cup D) = AddAll(B \cup C) \cup AddAll(D)
      BY AddAllUnion, Zenon
    <3>3. AddAll(B \cup C \cup D \cup E) = AddAll(B \cup C \cup D) \cup AddAll(E)
      BY AddAllUnion, Zenon
    <3>4. AddAll(B \cup C \cup D \cup E \cup G) =
            AddAll(B \cup C \cup D \cup E) \cup AddAll(G)
      BY AddAllUnion, Zenon
    <3> QED
      BY <3>1, <3>2, <3>3, <3>4, Zenon
  <2> QED
    BY <2>1, <2>2, <2>3, Zenon
<1> QED
  BY <1>1, <1>7, <1>8, <1>9, <1>10, <1>11, <1>12, <1>13

\* A plan that leaves the fields alone.
LEMMA FieldsAlone ==
  ASSUME NEW from \in Model, NEW to \in Model, to.fields = from.fields,
         ColumnsApart(from, from), NEW plan, IsSeq(plan),
         \A c \in Range(plan) : c.do \in IndexCommands \cup {"rename_collection"}
  PROVE  Planned(from, to, plan)
<1>1. from # None /\ to # None
  BY SchemaEditorAssumption
<1>2. Names(to) = Names(from)
  BY <1>1 DEF Names, FieldNames
<1>3. Added(from, to) = {} /\ Removed(from, to) = {}
  BY <1>2 DEF Added, Removed
<1>4. OnFields(from, to, plan)
  BY <1>1 DEF OnFields, Commands, IndexCommands, Drops
<1>5. ForFields(from, to, plan)
  <2>1. \A n \in Kept(from, to) : ~Moves(from, to, n) /\ ~Fills(from, to, n)
    BY DEF Moves, Fills
  <2> QED
    BY <1>1, <1>3, <2>1 DEF ForFields
<1>6. RenamesFirst(plan)
  <2>1. \A i \in DOMAIN plan : plan[i].do # "rename_column"
    BY DEF Range, IndexCommands, Drops
  <2> QED
    BY <2>1 DEF RenamesFirst
<1>7. ColumnsApart(from, to) /\ ColumnsApart(to, to)
  BY <1>2 DEF ColumnsApart
<1> QED
  BY <1>1, <1>4, <1>5, <1>6, <1>7 DEF Planned

LEMMA SoundApart ==
  ASSUME NEW m \in Model, Sound(m)
  PROVE  ColumnsApart(m, m)
BY SchemaEditorAssumption DEF Sound, ColumnsApart, Names

LEMMA CreateModelPlanned ==
  ASSUME NEW p \in Projects, NEW to \in Model, Legal(p, to)
  PROVE  Planned(None, to, CreateModelPlan(to))
<1>1. to # None /\ Sound(to)
  BY SchemaEditorAssumption DEF Legal
<1>2. /\ IsFiniteSet(to.unique_together) /\ IsFiniteSet(to.constraints)
      /\ IsFiniteSet(to.indexes)
  BY <1>1, FiniteAssumption, FS_Subset DEF Legal
<1> DEFINE plan == CreateModelPlan(to)
<1>3. /\ IsSeq(plan)
      /\ \A c \in Range(plan) : c.do \in {"create_collection", "create_index"}
  <2>1. /\ IsSeq(plan)
        /\ Range(plan) = {Command("create_collection", to.table)} \cup AddAll(Made(to))
    BY <1>2, CreateModelPlanIs
  <2>2. \A c \in AddAll(Made(to)) : c.do = "create_index"
    BY CommandIs DEF AddAll
  <2>3. Command("create_collection", to.table).do = "create_collection"
    BY CommandIs
  <2> QED
    BY <2>1, <2>2, <2>3
<1> HIDE DEF plan
<1>4. OnFields(None, to, plan)
  BY <1>1, <1>3 DEF OnFields, Commands, IndexCommands
<1>5. RenamesFirst(plan)
  <2>1. \A i \in DOMAIN plan : plan[i].do # "rename_column"
    BY <1>3 DEF Range
  <2> QED
    BY <2>1 DEF RenamesFirst
<1>6. ColumnsApart(None, None) /\ ColumnsApart(None, to) /\ ColumnsApart(to, to)
  BY <1>1, SoundApart DEF ColumnsApart, Names
<1> QED
  BY <1>1, <1>3, <1>4, <1>5, <1>6 DEF Planned, plan

LEMMA DeleteModelPlanned ==
  ASSUME NEW from \in Model, ColumnsApart(from, from)
  PROVE  Planned(from, None, DeleteModelPlan(from))
<1>1. from # None
  BY SchemaEditorAssumption
<1> DEFINE c == Command("drop_collection", from.table)
           plan == DeleteModelPlan(from)
<1>2. IsSeq(plan) /\ Range(plan) = {c} /\ DOMAIN plan = {1}
  BY OneIs DEF DeleteModelPlan
<1>3. c.do = "drop_collection" /\ c.arg = from.table
  BY CommandIs
<1> HIDE DEF c, plan
<1>4. Kept(from, None) = {} /\ Added(from, None) = {}
  BY DEF Kept, Added, Names
<1>5. OnFields(from, None, plan)
  BY <1>2, <1>3 DEF OnFields, Commands
<1>6. ForFields(from, None, plan)
  BY <1>2, <1>3, <1>4 DEF ForFields, Has
<1>7. RenamesFirst(plan)
  BY <1>2 DEF RenamesFirst
<1>8. ColumnsApart(from, None) /\ ColumnsApart(None, None)
  BY DEF ColumnsApart, Names
<1> QED
  BY <1>1, <1>2, <1>5, <1>6, <1>7, <1>8 DEF Planned, plan

LEMMA AddFieldPlanIs ==
  ASSUME NEW m, NEW f, Spatial(f) \in BOOLEAN
  PROVE  /\ IsSeq(AddFieldPlan(m, f))
         /\ Range(AddFieldPlan(m, f)) =
              {Command("set", [col |-> f.col, value |-> InitialValue(f)])}
                \cup AddAll(KeyIndexes(m, f) \cup SpatialIndexes(m, f))
<1> DEFINE a == <<Command("set", [col |-> f.col, value |-> InitialValue(f)])>>
<1>1. IsSeq(a) /\ Range(a) = {Command("set", [col |-> f.col, value |-> InitialValue(f)])}
  BY OneIs
<1> HIDE DEF a
<1>2. IsSeq(a \o AddKey(m, f)) /\ Range(a \o AddKey(m, f)) = Range(a) \cup Range(AddKey(m, f))
  BY <1>1, AddKeyIs, ConcatIs
<1>3. /\ IsSeq(a \o AddKey(m, f) \o AddSpatial(m, f))
      /\ Range(a \o AddKey(m, f) \o AddSpatial(m, f)) =
           Range(a \o AddKey(m, f)) \cup Range(AddSpatial(m, f))
  BY <1>2, AddSpatialIs, ConcatIs
<1>4. AddFieldPlan(m, f) = a \o AddKey(m, f) \o AddSpatial(m, f)
  BY DEF AddFieldPlan, a
<1> QED
  BY <1>1, <1>2, <1>3, <1>4, AddKeyIs, AddSpatialIs, AddAllUnion

LEMMA AddFieldPlanned ==
  ASSUME NEW from \in Model, ColumnsApart(from, from), NEW n \in Name, NEW f \in ModelField,
         n \notin FieldNames(from), f.col \notin Columns(from),
         NEW to \in Model, FieldNames(to) = FieldNames(from) \cup {n}, to.fields[n] = f,
         \A k \in FieldNames(from) : to.fields[k] = from.fields[k]
  PROVE  Planned(from, to, AddFieldPlan(from, f))
<1>1. from # None /\ to # None
  BY SchemaEditorAssumption
<1>2. Names(from) = FieldNames(from) /\ Names(to) = FieldNames(to)
  BY <1>1 DEF Names
<1>3. Added(from, to) = {n} /\ Removed(from, to) = {} /\ Kept(from, to) = FieldNames(from)
  BY <1>2 DEF Added, Removed, Kept
<1> DEFINE plan == AddFieldPlan(from, f)
           c == Command("set", [col |-> f.col, value |-> InitialValue(f)])
<1>4. Spatial(f) \in BOOLEAN
  BY DEF Spatial, ModelField
<1>5. /\ IsSeq(plan)
      /\ Range(plan) = {c} \cup AddAll(KeyIndexes(from, f) \cup SpatialIndexes(from, f))
  BY <1>4, AddFieldPlanIs
<1>6. c.do = "set" /\ c.arg = Initially(to, n)
  BY CommandIs DEF Initially
<1>7. \A e \in Range(plan) : e = c \/ e.do = "create_index"
  BY <1>5, CommandIs DEF AddAll
<1>8. c \in Range(plan)
  BY <1>5
<1> HIDE DEF plan, c
<1>9. OnFields(from, to, plan)
  BY <1>1, <1>3, <1>6, <1>7 DEF OnFields, Commands, FieldCommands, IndexCommands
<1>10. ForFields(from, to, plan)
  <2>1. \A k \in Kept(from, to) : ~Moves(from, to, k) /\ ~Fills(from, to, k)
    BY <1>3 DEF Moves, Fills
  <2> QED
    BY <1>1, <1>3, <1>6, <1>8, <2>1 DEF ForFields, Has
<1>11. RenamesFirst(plan)
  <2>1. \A i \in DOMAIN plan : plan[i].do # "rename_column"
    BY <1>6, <1>7 DEF Range
  <2> QED
    BY <2>1 DEF RenamesFirst
<1>12. ColumnsApart(from, to) /\ ColumnsApart(to, to)
  BY <1>2 DEF ColumnsApart, Columns, Fields
<1> QED
  BY <1>1, <1>5, <1>9, <1>10, <1>11, <1>12 DEF Planned, plan

LEMMA RemoveFieldPlanIs ==
  ASSUME NEW m, NEW f, f.spatial \in BOOLEAN
  PROVE  /\ IsSeq(RemoveFieldPlan(m, f))
         /\ Range(RemoveFieldPlan(m, f)) =
              {Command("unset", f.col)} \cup RemoveKeys(f)
                \cup {c \in {Command("drop_index", SpatialIndex(m, <<f.col>>).name)} : f.spatial}
<1> DEFINE a == <<Command("unset", f.col)>>
           d == Command("drop_index", SpatialIndex(m, <<f.col>>).name)
           b == When(f.spatial, <<d>>)
<1>1. IsSeq(a) /\ Range(a) = {Command("unset", f.col)}
  BY OneIs
<1>2. IsSeq(b) /\ Range(b) = {c \in {d} : f.spatial}
  BY OneIs, WhenIs
<1> HIDE DEF a, b
<1>3. IsSeq(a \o RemoveKey(f)) /\ Range(a \o RemoveKey(f)) = Range(a) \cup Range(RemoveKey(f))
  BY <1>1, RemoveKeyIs, ConcatIs
<1>4. /\ IsSeq(a \o RemoveKey(f) \o b)
      /\ Range(a \o RemoveKey(f) \o b) = Range(a \o RemoveKey(f)) \cup Range(b)
  BY <1>2, <1>3, ConcatIs
<1>5. RemoveFieldPlan(m, f) = a \o RemoveKey(f) \o b
  BY DEF RemoveFieldPlan, RemoveSpatial, a, b
<1> QED
  BY <1>1, <1>2, <1>3, <1>4, <1>5, RemoveKeyIs

LEMMA RemoveFieldPlanned ==
  ASSUME NEW from \in Model, ColumnsApart(from, from), NEW n \in FieldNames(from),
         NEW to \in Model, FieldNames(to) = FieldNames(from) \ {n},
         \A k \in FieldNames(to) : to.fields[k] = from.fields[k]
  PROVE  Planned(from, to, RemoveFieldPlan(from, from.fields[n]))
<1>1. from # None /\ to # None
  BY SchemaEditorAssumption
<1>2. Names(from) = FieldNames(from) /\ Names(to) = FieldNames(to)
  BY <1>1 DEF Names
<1>3. Added(from, to) = {} /\ Removed(from, to) = {n} /\ Kept(from, to) = FieldNames(to)
  BY <1>2 DEF Added, Removed, Kept
<1> DEFINE f == from.fields[n]
           plan == RemoveFieldPlan(from, f)
           c == Command("unset", f.col)
           d == Command("drop_index", SpatialIndex(from, <<f.col>>).name)
<1>4. f.spatial \in BOOLEAN
  BY DEF Model, FieldNames, ModelField
<1>5. /\ IsSeq(plan)
      /\ Range(plan) = {c} \cup RemoveKeys(f) \cup {e \in {d} : f.spatial}
  BY <1>4, RemoveFieldPlanIs
<1>6. c.do = "unset" /\ c.arg = f.col
  BY CommandIs
<1>7. \A e \in Range(plan) : e = c \/ e.do \in Drops
  BY <1>5, CommandIs DEF RemoveKeys, Drops
<1>8. c \in Range(plan)
  BY <1>5
<1> HIDE DEF plan, c
<1>9. OnFields(from, to, plan)
  BY <1>1, <1>3, <1>6, <1>7 DEF OnFields, Commands, FieldCommands, IndexCommands, Drops
<1>10. ForFields(from, to, plan)
  <2>1. \A k \in Kept(from, to) : ~Moves(from, to, k) /\ ~Fills(from, to, k)
    BY <1>3 DEF Moves, Fills
  <2> QED
    BY <1>1, <1>3, <1>6, <1>8, <2>1 DEF ForFields, Has
<1>11. RenamesFirst(plan)
  <2>1. \A i \in DOMAIN plan : plan[i].do # "rename_column"
    BY <1>6, <1>7 DEF Range, Drops
  <2> QED
    BY <2>1 DEF RenamesFirst
<1>12. ColumnsApart(from, to) /\ ColumnsApart(to, to)
  BY <1>2 DEF ColumnsApart
<1> QED
  BY <1>1, <1>5, <1>9, <1>10, <1>11, <1>12 DEF Planned, plan

\* No command of the kinds B comes after one of the kinds A.
Before(s, A, B) ==
  \A i, j \in DOMAIN s : i < j /\ s[i].do \in A => s[j].do \notin B

LEMMA ConcatBefore ==
  ASSUME NEW s, NEW t, IsSeq(s), IsSeq(t), NEW A, NEW B, Before(s, A, B), Before(t, A, B),
         (\A c \in Range(s) : c.do \notin A) \/ (\A c \in Range(t) : c.do \notin B)
  PROVE  Before(s \o t, A, B)
<1> DEFINE u == s \o t
<1>1. /\ Len(s) \in Nat /\ Len(t) \in Nat /\ DOMAIN s = 1..Len(s) /\ DOMAIN t = 1..Len(t)
      /\ DOMAIN u = 1..(Len(s) + Len(t))
      /\ \A i \in 1..Len(s) : u[i] = s[i]
      /\ \A i \in 1..Len(t) : u[Len(s) + i] = t[i]
  BY ConcatIs DEF IsSeq
<1> HIDE DEF u
<1>2. SUFFICES ASSUME NEW i \in DOMAIN u, NEW j \in DOMAIN u, i < j, u[i].do \in A,
                      u[j].do \in B
               PROVE  FALSE
  BY DEF Before, u
<1>3. CASE j <= Len(s)
  <2>1. i \in DOMAIN s /\ j \in DOMAIN s /\ u[i] = s[i] /\ u[j] = s[j]
    BY <1>1, <1>2, <1>3
  <2> QED
    BY <1>2, <2>1 DEF Before
<1>4. CASE i > Len(s)
  <2> DEFINE k == i - Len(s)
             l == j - Len(s)
  <2>1. k \in 1..Len(t) /\ l \in 1..Len(t) /\ k < l /\ i = Len(s) + k /\ j = Len(s) + l
    BY <1>1, <1>2, <1>4
  <2> HIDE DEF k, l
  <2>2. u[i] = t[k] /\ u[j] = t[l]
    BY <1>1, <2>1
  <2> QED
    BY <1>1, <1>2, <2>1, <2>2 DEF Before
<1>5. CASE i <= Len(s) /\ j > Len(s)
  <2> DEFINE l == j - Len(s)
  <2>1. i \in 1..Len(s) /\ l \in 1..Len(t) /\ j = Len(s) + l
    BY <1>1, <1>2, <1>5
  <2> HIDE DEF l
  <2>2. u[i] = s[i] /\ u[j] = t[l]
    BY <1>1, <2>1
  <2>3. u[i] \in Range(s) /\ u[j] \in Range(t)
    BY <1>1, <2>1, <2>2 DEF Range
  <2> QED
    BY <1>2, <2>3
<1> QED
  BY <1>1, <1>2, <1>3, <1>4, <1>5

LEMMA NoneBefore ==
  ASSUME NEW s, NEW A, NEW B,
         (\A c \in Range(s) : c.do \notin A) \/ (\A c \in Range(s) : c.do \notin B)
  PROVE  Before(s, A, B)
BY DEF Before, Range

Lookups == {"remove_field_index", "remove_field_unique", "remove_together"}

\* The plan of a field's alteration, and what comes before what in it.
AlterFieldCommands(m, old, new) ==
  LET changes == old.key # new.key \/ old.col # new.col
  IN {c \in RemoveKeys(old) : changes}
       \cup {c \in {Command("rename_column", [from |-> old.col, to |-> new.col])} :
               old.col # new.col}
       \cup {c \in {Command("replace_null", new.col)} : NullReplaced(old, new)}
       \cup {c \in AddAll(KeyIndexes(m, new)) : changes}
       \cup {c \in AddAll({SpatialIndex(m, <<new.col>>)}) : ~old.spatial /\ new.spatial}
       \cup {c \in {Command("drop_index", SpatialIndex(m, <<new.col>>).name)} :
               old.spatial /\ ~new.spatial}

LEMMA AlterFieldPlanIs ==
  ASSUME NEW m, NEW old \in ModelField, NEW new \in ModelField
  PROVE  LET plan == AlterFieldPlan(m, old, new)
         IN /\ IsSeq(plan)
            /\ Range(plan) = AlterFieldCommands(m, old, new)
            /\ Before(plan, {"replace_null"}, {"rename_column"})
            /\ Before(plan, {"create_index"}, Lookups)
<1> DEFINE X == {"replace_null"}
           Y == {"rename_column"}
           V == {"create_index"}
           r == Command("rename_column", [from |-> old.col, to |-> new.col])
           n == Command("replace_null", new.col)
           x == AddIndex(SpatialIndex(m, <<new.col>>))
           d == Command("drop_index", SpatialIndex(m, <<new.col>>).name)
           A == When(old.key # new.key, RemoveKey(old))
           M3 == Moved(m, old, new)
           M2 == When(old.key = new.key, M3)
           M1 == <<r>> \o M2
           M0 == When(old.col # new.col, M1)
           N == When(NullReplaced(old, new), <<n>>)
           K == When(old.key # new.key, AddKey(m, new))
           S == When(~old.spatial /\ new.spatial, <<x>>)
           T == When(old.spatial /\ ~new.spatial, <<d>>)
<1>0. /\ NullReplaced(old, new) \in BOOLEAN
      /\ old.spatial \in BOOLEAN /\ new.spatial \in BOOLEAN
  BY DEF ModelField, NullReplaced
<1>1. /\ \A c \in RemoveKeys(old) : c.do \in Lookups
      /\ \A c \in AddAll(KeyIndexes(m, new)) : c.do = "create_index"
      /\ r.do = "rename_column" /\ n.do = "replace_null" /\ x.do = "create_index"
      /\ d.do = "drop_index"
  <2>1. \A c \in RemoveKeys(old) : c.do \in Lookups
    BY CommandIs DEF RemoveKeys, Lookups
  <2>2. \A c \in AddAll(KeyIndexes(m, new)) : c.do = "create_index"
    BY CommandIs DEF AddAll
  <2> QED
    BY <2>1, <2>2, CommandIs
<1>2. IsSeq(A) /\ Range(A) = IF old.key # new.key THEN RemoveKeys(old) ELSE {}
  BY RemoveKeyIs, WhenIs
<1>3. /\ IsSeq(M3) /\ Range(M3) = RemoveKeys(old) \cup AddAll(KeyIndexes(m, new))
      /\ Before(M3, V, Lookups)
  <2>1. Before(RemoveKey(old), V, Lookups) /\ Before(AddKey(m, new), V, Lookups)
    BY <1>1, NoneBefore, RemoveKeyIs, AddKeyIs DEF Lookups
  <2>2. \A c \in Range(RemoveKey(old)) : c.do \notin V
    BY <1>1, RemoveKeyIs DEF Lookups
  <2> QED
    BY <2>1, <2>2, RemoveKeyIs, AddKeyIs, ConcatIs, ConcatBefore DEF Moved
<1> HIDE DEF r, n, x, d, A, M3
<1>4. /\ IsSeq(M2) /\ Before(M2, V, Lookups)
      /\ Range(M2) = IF old.key = new.key
                     THEN RemoveKeys(old) \cup AddAll(KeyIndexes(m, new)) ELSE {}
  BY <1>3, WhenIs, NothingIs, NoneBefore DEF When
<1> HIDE DEF M2
<1>5. /\ IsSeq(M1) /\ Range(M1) = {r} \cup Range(M2)
      /\ Before(M1, V, Lookups)
  <2>1. IsSeq(<<r>>) /\ Range(<<r>>) = {r} /\ Before(<<r>>, V, Lookups)
    BY <1>1, OneIs, NoneBefore
  <2>2. \A c \in Range(<<r>>) : c.do \notin V
    BY <1>1, <2>1
  <2> QED
    BY <1>4, <2>1, <2>2, ConcatIs, ConcatBefore
<1> HIDE DEF M1
<1>6. /\ IsSeq(M0) /\ Range(M0) = IF old.col # new.col THEN {r} \cup Range(M2) ELSE {}
      /\ Before(M0, V, Lookups)
  BY <1>5, WhenIs, NothingIs, NoneBefore DEF When
<1>7. IsSeq(N) /\ Range(N) = {c \in {n} : NullReplaced(old, new)}
  BY <1>0, OneIs, WhenIs
<1>8. IsSeq(K) /\ Range(K) = IF old.key # new.key THEN AddAll(KeyIndexes(m, new)) ELSE {}
  BY AddKeyIs, WhenIs
<1>9. IsSeq(S) /\ Range(S) = {c \in {x} : ~old.spatial /\ new.spatial}
  BY <1>0, OneIs, WhenIs
<1>10. IsSeq(T) /\ Range(T) = {c \in {d} : old.spatial /\ ~new.spatial}
  BY <1>0, OneIs, WhenIs
<1> HIDE DEF M0, N, K, S, T
<1>11. /\ \A c \in Range(A) : c.do \notin X /\ c.do \notin Y /\ c.do \notin V
       /\ \A c \in Range(M0) : c.do \notin X
       /\ \A c \in Range(N) : c.do \notin Y /\ c.do \notin V /\ c.do \notin Lookups
       /\ \A c \in Range(K) : c.do \notin X /\ c.do \notin Y /\ c.do \notin Lookups
       /\ \A c \in Range(S) : c.do \notin X /\ c.do \notin Y /\ c.do \notin Lookups
       /\ \A c \in Range(T) : c.do \notin X /\ c.do \notin Y /\ c.do \notin Lookups
  <2>1. \A c \in Range(M2) : c.do \in Lookups \/ c.do = "create_index"
    BY <1>1, <1>4
  <2>2. \A c \in Range(M0) : c.do \notin X
    BY <1>1, <1>6, <2>1 DEF Lookups
  <2>3. \A c \in Range(A) : c.do \notin X /\ c.do \notin Y /\ c.do \notin V
    BY <1>1, <1>2 DEF Lookups
  <2>4. \A c \in Range(K) : c.do \notin X /\ c.do \notin Y /\ c.do \notin Lookups
    BY <1>1, <1>8 DEF Lookups
  <2>5. /\ \A c \in Range(N) : c.do \notin Y /\ c.do \notin V /\ c.do \notin Lookups
        /\ \A c \in Range(S) : c.do \notin X /\ c.do \notin Y /\ c.do \notin Lookups
        /\ \A c \in Range(T) : c.do \notin X /\ c.do \notin Y /\ c.do \notin Lookups
    BY <1>1, <1>7, <1>9, <1>10 DEF Lookups
  <2> QED
    BY <2>2, <2>3, <2>4, <2>5
<1>12. /\ Before(A, X, Y) /\ Before(M0, X, Y) /\ Before(N, X, Y) /\ Before(K, X, Y)
       /\ Before(S, X, Y) /\ Before(T, X, Y)
       /\ Before(A, V, Lookups) /\ Before(N, V, Lookups) /\ Before(K, V, Lookups)
       /\ Before(S, V, Lookups) /\ Before(T, V, Lookups)
  BY <1>11, NoneBefore
<1> DEFINE P1 == A \o M0
           P2 == P1 \o N
           P3 == P2 \o K
           P4 == P3 \o S
           P5 == P4 \o T
<1>13. /\ IsSeq(P1) /\ Range(P1) = Range(A) \cup Range(M0)
       /\ Before(P1, X, Y) /\ Before(P1, V, Lookups)
  BY <1>2, <1>6, <1>11, <1>12, ConcatIs, ConcatBefore
<1> HIDE DEF P1
<1>14. /\ IsSeq(P2) /\ Range(P2) = Range(P1) \cup Range(N)
       /\ Before(P2, X, Y) /\ Before(P2, V, Lookups)
  BY <1>7, <1>11, <1>12, <1>13, ConcatIs, ConcatBefore
<1> HIDE DEF P2
<1>15. /\ IsSeq(P3) /\ Range(P3) = Range(P2) \cup Range(K)
       /\ Before(P3, X, Y) /\ Before(P3, V, Lookups)
  BY <1>8, <1>11, <1>12, <1>14, ConcatIs, ConcatBefore
<1> HIDE DEF P3
<1>16. /\ IsSeq(P4) /\ Range(P4) = Range(P3) \cup Range(S)
       /\ Before(P4, X, Y) /\ Before(P4, V, Lookups)
  BY <1>9, <1>11, <1>12, <1>15, ConcatIs, ConcatBefore
<1> HIDE DEF P4
<1>17. /\ IsSeq(P5) /\ Range(P5) = Range(P4) \cup Range(T)
       /\ Before(P5, X, Y) /\ Before(P5, V, Lookups)
  BY <1>10, <1>11, <1>12, <1>16, ConcatIs, ConcatBefore
<1>18. AlterFieldPlan(m, old, new) = P5
  BY DEF AlterFieldPlan, RemoveSpatial, P1, P2, P3, P4, P5, A, M0, M1, M2, M3, N, K, S, T,
         r, n, x, d
<1>19. Range(P5) = AlterFieldCommands(m, old, new)
  <2>1. Range(P5) = Range(A) \cup Range(M0) \cup Range(N) \cup Range(K) \cup Range(S)
                      \cup Range(T)
    BY <1>13, <1>14, <1>15, <1>16, <1>17
  <2>2. Range(S) = {c \in AddAll({SpatialIndex(m, <<new.col>>)}) : ~old.spatial /\ new.spatial}
    BY <1>9 DEF AddAll, x
  <2>3. /\ Range(N) = {c \in {Command("replace_null", new.col)} : NullReplaced(old, new)}
        /\ Range(T) = {c \in {Command("drop_index", SpatialIndex(m, <<new.col>>).name)} :
                         old.spatial /\ ~new.spatial}
    BY <1>7, <1>10 DEF n, d
  <2>4. Range(A) \cup Range(M0) \cup Range(K) =
          {c \in RemoveKeys(old) : old.key # new.key \/ old.col # new.col}
            \cup {c \in {r} : old.col # new.col}
            \cup {c \in AddAll(KeyIndexes(m, new)) : old.key # new.key \/ old.col # new.col}
    BY <1>2, <1>4, <1>6, <1>8
  <2> HIDE DEF P5
  <2> QED
    BY <2>1, <2>2, <2>3, <2>4 DEF AlterFieldCommands, r
<1> QED
  BY <1>17, <1>18, <1>19

LEMMA AlterFieldPlanned ==
  ASSUME NEW from \in Model, ColumnsApart(from, from), NEW n \in FieldNames(from),
         NEW new \in ModelField, new.col # from.fields[n].col => new.col \notin Columns(from),
         NEW to \in Model, FieldNames(to) = FieldNames(from), to.fields[n] = new,
         \A k \in FieldNames(from) \ {n} : to.fields[k] = from.fields[k]
  PROVE  Planned(from, to, AlterFieldPlan(from, from.fields[n], new))
<1>1. from # None /\ to # None
  BY SchemaEditorAssumption
<1>2. Names(from) = FieldNames(from) /\ Names(to) = FieldNames(to)
  BY <1>1 DEF Names
<1>3. Added(from, to) = {} /\ Removed(from, to) = {} /\ Kept(from, to) = FieldNames(from)
  BY <1>2 DEF Added, Removed, Kept
<1> DEFINE old == from.fields[n]
           plan == AlterFieldPlan(from, old, new)
           r == Command("rename_column", [from |-> old.col, to |-> new.col])
           l == Command("replace_null", new.col)
<1>4. old \in ModelField
  BY DEF Model, FieldNames
<1> HIDE DEF old
<1>5. /\ IsSeq(plan) /\ Range(plan) = AlterFieldCommands(from, old, new)
      /\ Before(plan, {"replace_null"}, {"rename_column"})
  BY <1>4, AlterFieldPlanIs
<1> HIDE DEF plan
<1>6. /\ r.do = "rename_column" /\ r.arg = Renaming(from, to, n)
      /\ l.do = "replace_null" /\ l.arg = to.fields[n].col
  BY CommandIs DEF Renaming, old
<1>7. \A c \in Range(plan) :
        \/ c = r /\ old.col # new.col
        \/ c = l /\ NullReplaced(old, new)
        \/ c.do \in IndexCommands
  <2>1. \A c \in RemoveKeys(old) : c.do \in IndexCommands
    BY CommandIs DEF RemoveKeys, IndexCommands, Drops
  <2>2. \A S : \A c \in AddAll(S) : c.do \in IndexCommands
    BY CommandIs DEF AddAll, IndexCommands
  <2>3. Command("drop_index", SpatialIndex(from, <<new.col>>).name).do \in IndexCommands
    BY CommandIs DEF IndexCommands, Drops
  <2> QED
    BY <1>5, <2>1, <2>2, <2>3 DEF AlterFieldCommands
<1>8. /\ old.col # new.col => r \in Range(plan)
      /\ NullReplaced(old, new) => l \in Range(plan)
  BY <1>5 DEF AlterFieldCommands
<1> HIDE DEF r, l
<1>9. Moves(from, to, n) <=> old.col # new.col
  BY DEF Moves, old
<1>10. Fills(from, to, n) <=> NullReplaced(old, new)
  BY DEF Fills, NullReplaced, old
<1>11. \A k \in FieldNames(from) : k # n => ~Moves(from, to, k) /\ ~Fills(from, to, k)
  BY DEF Moves, Fills
<1>12. OnFields(from, to, plan)
  <2> SUFFICES ASSUME NEW c \in Range(plan)
               PROVE  /\ c.do \in Commands
                      /\ c.do \notin {"set", "unset", "drop_collection"}
                      /\ c.do = "rename_column" =>
                           \E k \in FieldNames(from) : /\ c.arg = Renaming(from, to, k)
                                                       /\ Moves(from, to, k)
                      /\ c.do = "replace_null" =>
                           \E k \in FieldNames(from) : /\ c.arg = to.fields[k].col
                                                       /\ Fills(from, to, k)
    BY <1>1, <1>3 DEF OnFields
  <2>1. CASE c = r /\ old.col # new.col
    BY <1>6, <1>9, <2>1 DEF Commands, FieldCommands
  <2>2. CASE c = l /\ NullReplaced(old, new)
    BY <1>6, <1>10, <2>2 DEF Commands, FieldCommands
  <2>3. CASE c.do \in IndexCommands
    BY <2>3 DEF Commands, IndexCommands, Drops
  <2> QED
    BY <1>7, <2>1, <2>2, <2>3
<1>13. ForFields(from, to, plan)
  BY <1>1, <1>3, <1>6, <1>8, <1>9, <1>10, <1>11 DEF ForFields, Has
<1>14. RenamesFirst(plan)
  BY <1>5 DEF RenamesFirst, Before
<1>15. ColumnsApart(from, to) /\ ColumnsApart(to, to)
  <2>1. ASSUME NEW i \in FieldNames(from), NEW k \in FieldNames(from),
               from.fields[i].col = to.fields[k].col
        PROVE  i = k
    <3>1. CASE k # n
      BY <1>2, <2>1, <3>1 DEF ColumnsApart
    <3>2. CASE k = n /\ new.col = old.col
      BY <1>2, <2>1, <3>2 DEF ColumnsApart, old
    <3>3. CASE k = n /\ new.col # old.col
      BY <2>1, <3>3 DEF Columns, Fields, old
    <3> QED
      BY <3>1, <3>2, <3>3
  <2>2. ASSUME NEW i \in FieldNames(from), NEW k \in FieldNames(from),
               to.fields[i].col = to.fields[k].col
        PROVE  i = k
    <3>1. CASE i # n
      BY <2>1, <2>2, <3>1
    <3>2. CASE k # n
      BY <2>1, <2>2, <3>2
    <3> QED
      BY <3>1, <3>2
  <2> QED
    BY <1>2, <2>1, <2>2 DEF ColumnsApart
<1> QED
  BY <1>1, <1>5, <1>12, <1>13, <1>14, <1>15 DEF Planned, plan, old

-----------------------------------------------------------------------------
(* The operations.                                                         *)

LEMMA FieldIs ==
  ASSUME TypeInv, NEW f \in Field
  PROVE  f \in ModelField
<1>1. project.shape \subseteq FieldShape
  BY SchemaEditorAssumption DEF TypeInv, Project
<1>2. PICK c \in Column, s \in project.shape :
        f = [col |-> c, type |-> s.type, key |-> s.key, spatial |-> s.spatial, null |-> s.null,
             default |-> s.default]
  BY DEF Field
<1> QED
  BY <1>1, <1>2 DEF FieldShape, ModelField

LEMMA ModelIs ==
  ASSUME NEW m \in Model
  PROVE  /\ m # None
         /\ m = [table |-> m.table, fields |-> m.fields, unique_together |-> m.unique_together,
                 index_together |-> m.index_together, constraints |-> m.constraints,
                 indexes |-> m.indexes]
         /\ FieldNames(m) \subseteq Name
         /\ m.fields \in [FieldNames(m) -> ModelField]
BY SchemaEditorAssumption DEF Model, FieldNames

LEMMA FieldsModel ==
  ASSUME NEW m \in Model, NEW S \in SUBSET Name, NEW g \in [S -> ModelField]
  PROVE  /\ [m EXCEPT !.fields = g] \in Model
         /\ [m EXCEPT !.fields = g].fields = g
         /\ [m EXCEPT !.fields = g].table = m.table
         /\ [m EXCEPT !.fields = g].unique_together = m.unique_together
         /\ [m EXCEPT !.fields = g].index_together = m.index_together
         /\ [m EXCEPT !.fields = g].constraints = m.constraints
         /\ [m EXCEPT !.fields = g].indexes = m.indexes
<1>1. g \in UNION {[T -> ModelField] : T \in SUBSET Name}
  OBVIOUS
<1> QED
  BY <1>1 DEF Model

LEMMA WithIs ==
  ASSUME model \in Model, NEW n \in Name, NEW f \in ModelField
  PROVE  /\ With(n, f) \in Model
         /\ FieldNames(With(n, f)) = FieldNames(model) \cup {n}
         /\ With(n, f).fields[n] = f
         /\ \A k \in FieldNames(model) \ {n} : With(n, f).fields[k] = model.fields[k]
         /\ With(n, f).table = model.table
         /\ With(n, f).unique_together = model.unique_together
         /\ With(n, f).index_together = model.index_together
         /\ With(n, f).constraints = model.constraints
         /\ With(n, f).indexes = model.indexes
<1> DEFINE S == FieldNames(model) \cup {n}
           g == [k \in S |-> IF k = n THEN f ELSE model.fields[k]]
<1>1. S \in SUBSET Name /\ g \in [S -> ModelField]
  BY ModelIs
<1>2. With(n, f) = [model EXCEPT !.fields = g]
  BY DEF With
<1>3. DOMAIN g = S /\ g[n] = f /\ \A k \in FieldNames(model) \ {n} : g[k] = model.fields[k]
  OBVIOUS
<1> HIDE DEF g
<1> QED
  BY <1>1, <1>2, <1>3, FieldsModel DEF FieldNames

LEMMA WithoutIs ==
  ASSUME model \in Model, NEW n
  PROVE  /\ Without(n) \in Model
         /\ FieldNames(Without(n)) = FieldNames(model) \ {n}
         /\ \A k \in FieldNames(model) \ {n} : Without(n).fields[k] = model.fields[k]
         /\ Without(n).table = model.table
         /\ Without(n).unique_together = model.unique_together
         /\ Without(n).index_together = model.index_together
         /\ Without(n).constraints = model.constraints
         /\ Without(n).indexes = model.indexes
<1> DEFINE S == FieldNames(model) \ {n}
           g == Restrict(model.fields, S)
<1>1. S \in SUBSET Name /\ g \in [S -> ModelField]
  BY ModelIs DEF Restrict
<1>2. Without(n) = [model EXCEPT !.fields = g]
  BY DEF Without
<1>3. DOMAIN g = S /\ \A k \in S : g[k] = model.fields[k]
  BY DEF Restrict
<1> HIDE DEF g
<1> QED
  BY <1>1, <1>2, <1>3, FieldsModel DEF FieldNames

\* A model whose options differ only.
LEMMA OptionsModel ==
  ASSUME NEW m \in Model, NEW t \in STRING, NEW u \in SUBSET Seq(Name),
         NEW i \in SUBSET Seq(Name), NEW c \in SUBSET MetaOption, NEW x \in SUBSET MetaOption
  PROVE  [table |-> t, fields |-> m.fields, unique_together |-> u, index_together |-> i,
          constraints |-> c, indexes |-> x] \in Model
BY DEF Model

LEMMA ProjectIs ==
  ASSUME TypeInv
  PROVE  /\ project.table \subseteq STRING /\ project.together \subseteq Seq(Name)
         /\ project.meta \subseteq MetaOption
         /\ \A S \in SUBSET project.together : IsFiniteSet(S)
         /\ \A S \in SUBSET project.meta : IsFiniteSet(S)
BY SchemaEditorAssumption, FiniteAssumption, FS_Subset DEF TypeInv, Project

LEMMA CurrentIs ==
  ASSUME EditInv, model # None
  PROVE  /\ model \in Model /\ Legal(project, model)
         /\ ColumnsApart(model, model) /\ Sound(model)
BY DEF EditInv, TypeInv, LegalInv, DocInv, Legal

LEMMA CreateModelEdits ==
  ASSUME EditInv, CreateModel, UNCHANGED project
  PROVE  EditInv'
<1>1. model = None
  BY DEF CreateModel
<1>2. PICK table \in project.table, fields \in UNION {[S -> Field] : S \in SUBSET Name},
           u \in SUBSET project.together, c \in SUBSET project.meta,
           x \in SUBSET project.meta :
        LET m == [table |-> table, fields |-> fields, unique_together |-> {},
                  index_together |-> {}, constraints |-> {}, indexes |-> {}]
            full == [m EXCEPT !.unique_together = u, !.constraints = c, !.indexes = x]
        IN Sound(full) /\ Start("create_model", full, CreateModelPlan(full))
  BY DEF CreateModel
<1>3. fields \in UNION {[S -> ModelField] : S \in SUBSET Name}
  <2>1. PICK S \in SUBSET Name : fields \in [S -> Field]
    OBVIOUS
  <2>2. \A f \in Field : f \in ModelField
    BY FieldIs DEF EditInv
  <2>3. fields \in [S -> ModelField]
    BY <2>1, <2>2
  <2> QED
    BY <2>3
<1>4. PICK m : m = [table |-> table, fields |-> fields, unique_together |-> {},
                    index_together |-> {}, constraints |-> {}, indexes |-> {}]
  OBVIOUS
<1>5. m \in Model /\ m.fields = fields /\ m.index_together = {}
  BY <1>3, <1>4, ProjectIs DEF Model, EditInv
<1>9. PICK full :
        /\ full = [m EXCEPT !.unique_together = u, !.constraints = c, !.indexes = x]
        /\ Sound(full) /\ Start("create_model", full, CreateModelPlan(full))
  BY <1>2, <1>4
<1>10. u \subseteq Seq(Name) /\ c \subseteq MetaOption /\ x \subseteq MetaOption
  BY ProjectIs DEF EditInv
<1>11. /\ full \in Model /\ full.index_together = {} /\ full.unique_together = u
       /\ full.constraints = c /\ full.indexes = x /\ full.table = table
  BY <1>4, <1>5, <1>9, <1>10 DEF Model
<1>6. Legal(project, full)
  BY <1>9, <1>11 DEF Legal
<1>7. project \in Projects
  BY DEF EditInv, TypeInv
<1>8. Planned(model, full, CreateModelPlan(full))
  BY <1>1, <1>6, <1>7, <1>11, CreateModelPlanned
<1> QED
  BY <1>6, <1>8, <1>9, <1>11, StartEdits

LEMMA DeleteModelEdits ==
  ASSUME EditInv, DeleteModel, UNCHANGED project
  PROVE  EditInv'
<1>1. model # None /\ Start("delete_model", None, DeleteModelPlan(model))
  BY DEF DeleteModel
<1>2. PICK plan : plan = DeleteModelPlan(model)
  OBVIOUS
<1>3. Planned(model, None, plan)
  BY <1>1, <1>2, CurrentIs, DeleteModelPlanned
<1>4. Legal(project, None)
  BY DEF Legal
<1> QED
  BY <1>1, <1>2, <1>3, <1>4, StartEdits

LEMMA AddFieldEdits ==
  ASSUME EditInv, NEW n \in Name, NEW f \in Field, AddField(n, f), UNCHANGED project
  PROVE  EditInv'
<1>1. /\ model # None /\ n \notin FieldNames(model) /\ f.col \notin Columns(model)
      /\ Start("add_field", With(n, f), AddFieldPlan(model, f))
  BY DEF AddField
<1>2. PICK to, plan : to = With(n, f) /\ plan = AddFieldPlan(model, f)
  OBVIOUS
<1>3. f \in ModelField
  BY FieldIs DEF EditInv
<1>4. to \in Model /\ Sound(to)
  BY <1>1, <1>2, <1>3, CurrentIs, WithIs, ModelIs DEF Start
<1>5. Legal(project, to)
  BY <1>1, <1>2, <1>3, <1>4, CurrentIs, WithIs DEF Legal
<1>6. Planned(model, to, plan)
  BY <1>1, <1>2, <1>3, <1>4, CurrentIs, WithIs, AddFieldPlanned
<1> QED
  BY <1>1, <1>2, <1>4, <1>5, <1>6, StartEdits

LEMMA AlterFieldEdits ==
  ASSUME EditInv, NEW n \in Name, NEW new \in Field, AlterField(n, new), UNCHANGED project
  PROVE  EditInv'
<1>1. /\ model # None /\ n \in FieldNames(model)
      /\ new.col # model.fields[n].col => new.col \notin Columns(model)
      /\ Start("alter_field", With(n, new), AlterFieldPlan(model, model.fields[n], new))
  BY DEF AlterField
<1>2. PICK to, plan : /\ to = With(n, new)
                      /\ plan = AlterFieldPlan(model, model.fields[n], new)
  OBVIOUS
<1>3. new \in ModelField
  BY FieldIs DEF EditInv
<1>4. to \in Model /\ Sound(to)
  BY <1>1, <1>2, <1>3, CurrentIs, WithIs, ModelIs DEF Start
<1>5. Legal(project, to)
  BY <1>1, <1>2, <1>3, <1>4, CurrentIs, WithIs DEF Legal
<1>6. FieldNames(to) = FieldNames(model)
  BY <1>1, <1>2, <1>3, CurrentIs, WithIs
<1>7. Planned(model, to, plan)
  BY <1>1, <1>2, <1>3, <1>4, <1>6, CurrentIs, WithIs, AlterFieldPlanned
<1> QED
  BY <1>1, <1>2, <1>4, <1>5, <1>7, StartEdits

LEMMA RemoveFieldEdits ==
  ASSUME EditInv, NEW n \in Name, RemoveField(n), UNCHANGED project
  PROVE  EditInv'
<1>1. /\ model # None /\ n \in FieldNames(model)
      /\ Start("remove_field", Without(n), RemoveFieldPlan(model, model.fields[n]))
  BY DEF RemoveField
<1>2. PICK to, plan : to = Without(n) /\ plan = RemoveFieldPlan(model, model.fields[n])
  OBVIOUS
<1>4. to \in Model /\ Sound(to)
  BY <1>1, <1>2, CurrentIs, WithoutIs, ModelIs DEF Start
<1>5. Legal(project, to)
  BY <1>1, <1>2, <1>4, CurrentIs, WithoutIs DEF Legal
<1>6. /\ FieldNames(to) = FieldNames(model) \ {n}
      /\ \A k \in FieldNames(to) : to.fields[k] = model.fields[k]
  BY <1>1, <1>2, CurrentIs, WithoutIs
<1>7. Planned(model, to, plan)
  BY <1>1, <1>2, <1>4, <1>6, CurrentIs, RemoveFieldPlanned
<1> QED
  BY <1>1, <1>2, <1>4, <1>5, <1>7, StartEdits

\* The operations on the options of a model.
LEMMA OptionEdits ==
  ASSUME EditInv, model # None, NEW kind, NEW to \in Model, NEW plan,
         to.fields = model.fields, Legal(project, to),
         IsSeq(plan), \A c \in Range(plan) : c.do \in IndexCommands \cup {"rename_collection"},
         Start(kind, to, plan), UNCHANGED project
  PROVE  EditInv'
<1>1. Planned(model, to, plan)
  BY CurrentIs, FieldsAlone
<1> QED
  BY <1>1, StartEdits

LEMMA RemovalsDo ==
  ASSUME NEW S, NEW u, NEW c \in Removals(S, u)
  PROVE  c.do = "remove_together"
<1>1. PICK names \in S : c = Command("remove_together", [names |-> names, unique |-> u])
  BY DEF Removals
<1> QED
  BY <1>1, CommandIs

LEMMA AddAllDo ==
  ASSUME NEW S, NEW c \in AddAll(S)
  PROVE  c.do = "create_index"
<1>1. PICK x \in S : c = AddIndex(x)
  BY DEF AddAll
<1> QED
  BY <1>1, CommandIs DEF AddIndex

LEMMA AlterTogetherPlanIs ==
  ASSUME NEW m, NEW olds, NEW news, IsFiniteSet(olds), IsFiniteSet(news)
  PROVE  /\ IsSeq(AlterUniqueTogetherPlan(m, olds, news))
         /\ Range(AlterUniqueTogetherPlan(m, olds, news)) =
              Removals(olds \ news, TRUE)
                \cup AddAll({TogetherUnique(m, names) : names \in news \ olds})
         /\ Before(AlterUniqueTogetherPlan(m, olds, news), {"create_index"}, Lookups)
         /\ IsSeq(AlterIndexTogetherPlan(m, olds, news))
         /\ Range(AlterIndexTogetherPlan(m, olds, news)) =
              Removals(olds \ news, FALSE)
                \cup AddAll({TogetherIndex(m, names) : names \in news \ olds})
         /\ Before(AlterIndexTogetherPlan(m, olds, news), {"create_index"}, Lookups)
<1> DEFINE rT == RemoveTogether(olds \ news, TRUE)
           rF == RemoveTogether(olds \ news, FALSE)
           aU == AddUniqueTogether(m, news \ olds)
           aI == ForEach({AddIndex(TogetherIndex(m, names)) : names \in news \ olds})
           V == {"create_index"}
<1>1. IsFiniteSet(olds \ news) /\ IsFiniteSet(news \ olds)
  BY FS_Subset
<1>2. /\ IsSeq(rT) /\ Range(rT) = Removals(olds \ news, TRUE)
      /\ IsSeq(rF) /\ Range(rF) = Removals(olds \ news, FALSE)
  BY <1>1, RemoveTogetherIs
<1>3. /\ IsSeq(aU) /\ Range(aU) = AddAll({TogetherUnique(m, names) : names \in news \ olds})
  BY <1>1, AddUniqueTogetherIs
<1>4. /\ IsSeq(aI) /\ Range(aI) = AddAll({TogetherIndex(m, names) : names \in news \ olds})
  BY <1>1, AddIndexTogetherIs
<1>5. /\ \A S, u : \A c \in Removals(S, u) : c.do \notin V
      /\ \A S : \A c \in AddAll(S) : c.do \notin Lookups
  BY RemovalsDo, AddAllDo DEF Lookups
<1> HIDE DEF rT, rF, aU, aI
<1>6. /\ \A c \in Range(rT) : c.do \notin V
      /\ \A c \in Range(rF) : c.do \notin V
      /\ \A c \in Range(aU) : c.do \notin Lookups
      /\ \A c \in Range(aI) : c.do \notin Lookups
  BY <1>2, <1>3, <1>4, <1>5
<1>7. /\ Before(rT, V, Lookups) /\ Before(rF, V, Lookups)
      /\ Before(aU, V, Lookups) /\ Before(aI, V, Lookups)
  BY <1>6, NoneBefore
<1>8. /\ IsSeq(rT \o aU) /\ Range(rT \o aU) = Range(rT) \cup Range(aU)
      /\ Before(rT \o aU, V, Lookups)
  BY <1>2, <1>3, <1>6, <1>7, ConcatIs, ConcatBefore
<1>9. /\ IsSeq(rF \o aI) /\ Range(rF \o aI) = Range(rF) \cup Range(aI)
      /\ Before(rF \o aI, V, Lookups)
  BY <1>2, <1>4, <1>6, <1>7, ConcatIs, ConcatBefore
<1>10. /\ AlterUniqueTogetherPlan(m, olds, news) = rT \o aU
       /\ AlterIndexTogetherPlan(m, olds, news) = rF \o aI
  BY DEF AlterUniqueTogetherPlan, AlterIndexTogetherPlan, rT, rF, aU, aI
<1> QED
  BY <1>2, <1>3, <1>4, <1>8, <1>9, <1>10

LEMMA IndexCommandIs ==
  /\ \A S, u : \A c \in Removals(S, u) : c.do \in IndexCommands
  /\ \A S : \A c \in AddAll(S) : c.do \in IndexCommands
BY RemovalsDo, AddAllDo DEF IndexCommands, Drops

LEMMA AlterTogetherDo ==
  ASSUME NEW m, NEW olds, NEW news, IsFiniteSet(olds), IsFiniteSet(news), NEW plan,
         \/ plan = AlterUniqueTogetherPlan(m, olds, news)
         \/ plan = AlterIndexTogetherPlan(m, olds, news)
  PROVE  IsSeq(plan) /\ \A c \in Range(plan) : c.do \in IndexCommands
<1>1. CASE plan = AlterUniqueTogetherPlan(m, olds, news)
  <2>1. /\ IsSeq(plan)
        /\ Range(plan) = Removals(olds \ news, TRUE)
                           \cup AddAll({TogetherUnique(m, names) : names \in news \ olds})
    BY <1>1, AlterTogetherPlanIs, Zenon
  <2> QED
    BY <2>1, IndexCommandIs
<1>2. CASE plan = AlterIndexTogetherPlan(m, olds, news)
  <2>1. /\ IsSeq(plan)
        /\ Range(plan) = Removals(olds \ news, FALSE)
                           \cup AddAll({TogetherIndex(m, names) : names \in news \ olds})
    BY <1>2, AlterTogetherPlanIs, Zenon
  <2> QED
    BY <2>1, IndexCommandIs
<1> QED
  BY <1>1, <1>2

LEMMA AlterTogetherEdits ==
  ASSUME EditInv, NEW news \in SUBSET project.together,
         AlterUniqueTogether(news) \/ AlterIndexTogether(news), UNCHANGED project
  PROVE  EditInv'
<1>0. model # None /\ model \in Model /\ TypeInv /\ Legal(project, model)
  BY CurrentIs DEF AlterUniqueTogether, AlterIndexTogether, EditInv
<1>1. /\ IsFiniteSet(news) /\ news \subseteq Seq(Name)
      /\ IsFiniteSet(model.unique_together) /\ IsFiniteSet(model.index_together)
  BY <1>0, ProjectIs DEF Legal
<1>2. CASE AlterUniqueTogether(news)
  <2>1. PICK to, plan : /\ to = [model EXCEPT !.unique_together = news]
                        /\ plan = AlterUniqueTogetherPlan(to, model.unique_together, news)
                        /\ Sound(to) /\ Start("alter_unique_together", to, plan)
    <3>1. PICK t : t = [model EXCEPT !.unique_together = news]
      OBVIOUS
    <3>2. PICK p : p = AlterUniqueTogetherPlan(t, model.unique_together, news)
      OBVIOUS
    <3>3. Sound(t) /\ Start("alter_unique_together", t, p)
      BY <1>2, <3>1, <3>2 DEF AlterUniqueTogether
    <3> QED
      BY <3>1, <3>2, <3>3
  <2>2. /\ to \in Model /\ to.fields = model.fields
        /\ to.table = model.table /\ to.index_together = model.index_together
        /\ to.constraints = model.constraints /\ to.indexes = model.indexes
        /\ to.unique_together = news
    BY <1>0, <1>1, <2>1 DEF Model
  <2>3. Legal(project, to)
    BY <1>0, <2>1, <2>2 DEF Legal
  <2>4. IsFiniteSet(model.unique_together)
    BY <1>1
  <2>5. IsSeq(plan) /\ \A c \in Range(plan) : c.do \in IndexCommands
    BY <1>1, <2>1, <2>4, AlterTogetherDo
  <2> QED
    BY <1>0, <2>1, <2>2, <2>3, <2>4, <2>5, OptionEdits
<1>3. CASE AlterIndexTogether(news)
  <2>1. PICK to, plan : /\ to = [model EXCEPT !.index_together = news]
                        /\ plan = AlterIndexTogetherPlan(to, model.index_together, news)
                        /\ Sound(to) /\ Start("alter_index_together", to, plan)
    <3>1. PICK t : t = [model EXCEPT !.index_together = news]
      OBVIOUS
    <3>2. PICK p : p = AlterIndexTogetherPlan(t, model.index_together, news)
      OBVIOUS
    <3>3. Sound(t) /\ Start("alter_index_together", t, p)
      BY <1>3, <3>1, <3>2 DEF AlterIndexTogether
    <3> QED
      BY <3>1, <3>2, <3>3
  <2>2. /\ to \in Model /\ to.fields = model.fields
        /\ to.table = model.table /\ to.unique_together = model.unique_together
        /\ to.constraints = model.constraints /\ to.indexes = model.indexes
        /\ to.index_together = news
    BY <1>0, <1>1, <2>1 DEF Model
  <2>3. Legal(project, to)
    BY <1>0, <2>1, <2>2 DEF Legal
  <2>4. IsFiniteSet(model.index_together)
    BY <1>1
  <2>5. IsSeq(plan) /\ \A c \in Range(plan) : c.do \in IndexCommands
    BY <1>1, <2>1, <2>4, AlterTogetherDo
  <2> QED
    BY <1>0, <2>1, <2>2, <2>3, <2>4, <2>5, OptionEdits
<1> QED
  BY <1>2, <1>3

\* A plan of one command.
LEMMA OneCommandIs ==
  ASSUME NEW do \in IndexCommands \cup {"rename_collection"}, NEW arg
  PROVE  /\ IsSeq(<<Command(do, arg)>>)
         /\ \A c \in Range(<<Command(do, arg)>>) :
              c.do \in IndexCommands \cup {"rename_collection"}
BY OneIs, CommandIs

LEMMA MetaEdits ==
  ASSUME EditInv, NEW x \in project.meta, UNCHANGED project,
         AddMetaIndex(x) \/ RemoveMetaIndex(x) \/ AddConstraint(x) \/ RemoveConstraint(x)
  PROVE  EditInv'
<1>0. model # None /\ model \in Model /\ TypeInv /\ Legal(project, model)
  BY CurrentIs DEF AddMetaIndex, RemoveMetaIndex, AddConstraint, RemoveConstraint, EditInv
<1>1. x \in MetaOption
  BY <1>0, ProjectIs
<1>2. CASE AddMetaIndex(x)
  <2>1. PICK to, y : /\ to = [model EXCEPT !.indexes = model.indexes \cup {x}]
                     /\ y = MetaIndex(to, x)
                     /\ Sound(to) /\ Start("add_index", to, <<AddIndex(y)>>)
    BY <1>2 DEF AddMetaIndex
  <2>2. /\ to \in Model /\ to.fields = model.fields
        /\ to.table = model.table /\ to.unique_together = model.unique_together
        /\ to.index_together = model.index_together /\ to.constraints = model.constraints
        /\ to.indexes = model.indexes \cup {x}
    BY <1>0, <1>1, <2>1 DEF Model
  <2>3. Legal(project, to)
    BY <1>0, <2>1, <2>2 DEF Legal
  <2> QED
    BY <1>0, <2>1, <2>2, <2>3, OneCommandIs, OptionEdits DEF AddIndex, IndexCommands
<1>3. CASE RemoveMetaIndex(x)
  <2>1. PICK to, y : /\ to = [model EXCEPT !.indexes = model.indexes \ {x}]
                     /\ y = IndexName(x)
                     /\ Start("remove_index", to, <<Command("drop_index", y)>>)
    BY <1>3 DEF RemoveMetaIndex
  <2>2. /\ to \in Model /\ to.fields = model.fields
        /\ to.table = model.table /\ to.unique_together = model.unique_together
        /\ to.index_together = model.index_together /\ to.constraints = model.constraints
        /\ to.indexes = model.indexes \ {x}
    BY <1>0, <1>1, <2>1 DEF Model
  <2>3. Sound(to)
    BY <2>1, <2>2, ModelIs DEF Start
  <2>4. Legal(project, to)
    BY <1>0, <2>2, <2>3 DEF Legal
  <2> QED
    BY <1>0, <2>1, <2>2, <2>4, OneCommandIs, OptionEdits DEF IndexCommands, Drops
<1>4. CASE AddConstraint(x)
  <2>1. PICK to, y : /\ to = [model EXCEPT !.constraints = model.constraints \cup {x}]
                     /\ y = MetaUnique(to, x)
                     /\ Sound(to) /\ Start("add_constraint", to, <<AddIndex(y)>>)
    BY <1>4 DEF AddConstraint
  <2>2. /\ to \in Model /\ to.fields = model.fields
        /\ to.table = model.table /\ to.unique_together = model.unique_together
        /\ to.index_together = model.index_together /\ to.indexes = model.indexes
        /\ to.constraints = model.constraints \cup {x}
    BY <1>0, <1>1, <2>1 DEF Model
  <2>3. Legal(project, to)
    BY <1>0, <2>1, <2>2 DEF Legal
  <2> QED
    BY <1>0, <2>1, <2>2, <2>3, OneCommandIs, OptionEdits DEF AddIndex, IndexCommands
<1>5. CASE RemoveConstraint(x)
  <2>1. PICK to, y : /\ to = [model EXCEPT !.constraints = model.constraints \ {x}]
                     /\ y = ConstraintName(x)
                     /\ Start("remove_constraint", to, <<Command("drop_index", y)>>)
    BY <1>5 DEF RemoveConstraint
  <2>2. /\ to \in Model /\ to.fields = model.fields
        /\ to.table = model.table /\ to.unique_together = model.unique_together
        /\ to.index_together = model.index_together /\ to.indexes = model.indexes
        /\ to.constraints = model.constraints \ {x}
    BY <1>0, <1>1, <2>1 DEF Model
  <2>3. Sound(to)
    BY <2>1, <2>2, ModelIs DEF Start
  <2>4. Legal(project, to)
    BY <1>0, <2>2, <2>3 DEF Legal
  <2> QED
    BY <1>0, <2>1, <2>2, <2>4, OneCommandIs, OptionEdits DEF IndexCommands, Drops
<1> QED
  BY <1>2, <1>3, <1>4, <1>5

LEMMA AlterDbTableEdits ==
  ASSUME EditInv, NEW table \in project.table, AlterDbTable(table), UNCHANGED project
  PROVE  EditInv'
<1>0. model # None /\ model \in Model /\ TypeInv /\ Legal(project, model)
  BY CurrentIs DEF AlterDbTable, EditInv
<1>1. PICK to, y : /\ to = [model EXCEPT !.table = table]
                   /\ y = [from |-> model.table, to |-> table]
                   /\ Start("rename_table", to, <<Command("rename_collection", y)>>)
  BY DEF AlterDbTable
<1>2. /\ to \in Model /\ to.fields = model.fields
      /\ to.table = table /\ to.unique_together = model.unique_together
      /\ to.index_together = model.index_together /\ to.indexes = model.indexes
      /\ to.constraints = model.constraints
  BY <1>0, <1>1, ProjectIs DEF Model
<1>3. Sound(to)
  BY <1>1, <1>2, ModelIs DEF Start
<1>4. Legal(project, to)
  BY <1>0, <1>2, <1>3 DEF Legal
<1> QED
  BY <1>0, <1>1, <1>2, <1>4, OneCommandIs, OptionEdits

-----------------------------------------------------------------------------
(* The document is safe.                                                   *)

LEMMA EditInit == Init => EditInv
<1> SUFFICES ASSUME Init PROVE EditInv
  OBVIOUS
<1>1. TypeInv
  BY DEF Init, TypeInv, Value
<1>2. LegalInv /\ PlanInv
  BY DEF Init, LegalInv, Legal, PlanInv
<1>3. DocInv
  BY DEF Init, DocInv, ColumnsApart, Names
<1> QED
  BY <1>1, <1>2, <1>3 DEF EditInv

LEMMA SameEdits ==
  ASSUME EditInv, UNCHANGED vars
  PROVE  EditInv'
<1> USE DEF vars, database
<1>1. TypeInv'
  BY DEF EditInv, TypeInv
<1>2. LegalInv'
  BY DEF EditInv, LegalInv
<1>3. PlanInv'
  BY DEF EditInv, PlanInv, Planned, OnFields, ForFields, RenamesFirst, ColumnsApart, Rest
<1>4. Changing => Changing'
  <2>1. \A do, arg : Left(do, arg)' <=> Left(do, arg)
    BY DEF Left, Has
  <2>2. \A n : HeldAfter(op.to, n)' = HeldAfter(op.to, n)
    BY DEF HeldAfter, FieldNames, InitialValue
  <2>3. \A n : KeptIs(n) => KeptIs(n)'
    BY <2>1, <2>2 DEF KeptIs, Renaming
  <2>4. \A n : RemovedIs(n) => RemovedIs(n)'
    BY <2>1 DEF RemovedIs
  <2>5. \A n : AddedIs(n) => AddedIs(n)'
    BY <2>1 DEF AddedIs, InitialValue, Initially
  <2>6. /\ (Kept(model, op.to))' = Kept(model, op.to)
        /\ (Removed(model, op.to))' = Removed(model, op.to)
        /\ (Added(model, op.to))' = Added(model, op.to)
        /\ (Columns(model))' = Columns(model) /\ (Columns(op.to))' = Columns(op.to)
    BY DEF Kept, Removed, Added, Names, Columns, Fields, FieldNames
  <2> HIDE DEF KeptIs, RemovedIs, AddedIs
  <2> QED
    BY <2>3, <2>4, <2>5, <2>6 DEF Changing
<1>5. AsModel => AsModel'
  BY DEF AsModel, FieldNames, Columns, Fields
<1>6. HeldFits => HeldFits'
  BY DEF HeldFits, FieldNames
<1>7. Left("drop_collection", model.table) => Left("drop_collection", model.table)'
  BY DEF Left, Has
<1>8. DocInv'
  BY <1>4, <1>5, <1>6, <1>7 DEF EditInv, DocInv, ColumnsApart, Names, FieldNames
<1> QED
  BY <1>1, <1>2, <1>3, <1>8 DEF EditInv

LEMMA EditStep == EditInv /\ [Next]_vars => EditInv'
<1> SUFFICES ASSUME EditInv, [Next]_vars PROVE EditInv'
  OBVIOUS
<1>1. CASE UNCHANGED vars
  BY <1>1, SameEdits
<1>2. CASE Next
  <2>0. UNCHANGED project
    BY <1>2 DEF Next
  <2>1. CASE Operation
    <3>1. CASE CreateModel
      BY <2>0, <3>1, CreateModelEdits
    <3>2. CASE DeleteModel
      BY <2>0, <3>2, DeleteModelEdits
    <3>3. CASE \E n \in Name : RemoveField(n)
      BY <2>0, <3>3, RemoveFieldEdits
    <3>4. CASE \E n \in Name : \E f \in Field : AddField(n, f)
      BY <2>0, <3>4, AddFieldEdits
    <3>5. CASE \E n \in Name : \E f \in Field : AlterField(n, f)
      BY <2>0, <3>5, AlterFieldEdits
    <3>6. CASE \E S \in SUBSET project.together : AlterUniqueTogether(S) \/ AlterIndexTogether(S)
      BY <2>0, <3>6, AlterTogetherEdits
    <3>7. CASE \E x \in project.meta : \/ AddMetaIndex(x) \/ RemoveMetaIndex(x)
                                       \/ AddConstraint(x) \/ RemoveConstraint(x)
      BY <2>0, <3>7, MetaEdits
    <3>8. CASE \E table \in project.table : AlterDbTable(table)
      BY <2>0, <3>8, AlterDbTableEdits
    <3> QED
      BY <2>1, <3>1, <3>2, <3>3, <3>4, <3>5, <3>6, <3>7, <3>8 DEF Operation
  <2>2. CASE RunCommand
    BY <2>0, <2>2, RunCommandEdits
  <2>3. CASE Raise
    BY <2>0, <2>3, StopEdits DEF Raise
  <2>4. CASE Interrupt
    BY <2>0, <2>4, StopEdits DEF Interrupt
  <2>5. CASE Rerun
    BY <2>0, <2>5, RerunEdits
  <2>6. CASE Finish
    BY <2>0, <2>6, FinishEdits
  <2>7. CASE Save
    BY <2>0, <2>7, SaveEdits
  <2> QED
    BY <1>2, <2>1, <2>2, <2>3, <2>4, <2>5, <2>6, <2>7 DEF Next
<1> QED
  BY <1>1, <1>2

LEMMA DocMatches == EditInv => DocMatchesModel
BY DEF EditInv, DocInv, AsModel, DocMatchesModel

LEMMA ValuesThere == EditInv => ValuesSurvive
<1> SUFFICES ASSUME EditInv, op # None, doc # None, op.from # None, op.to # None,
                    NEW n \in FieldNames(op.from) \cap FieldNames(op.to), held[n] = n
             PROVE  n \in {doc[op.from.fields[n].col], doc[op.to.fields[n].col]}
  BY DEF ValuesSurvive
<1>1. phase # "idle" /\ op.from = model /\ model # None /\ op.to \in Model
  <2>1. phase # "idle"
    BY DEF EditInv, TypeInv
  <2>2. PICK k, f, t, p, a : /\ k = op.kind /\ f = model /\ t = op.to /\ p = op.plan
                             /\ a = op.again
    OBVIOUS
  <2>3. op = [kind |-> k, from |-> f, to |-> t, plan |-> p, again |-> a]
    BY <2>1, <2>2 DEF EditInv, TypeInv
  <2> QED
    BY <2>1, <2>2, <2>3 DEF EditInv, TypeInv
<1>2. Changing /\ n \in Kept(model, op.to)
  BY <1>1 DEF EditInv, DocInv, Kept, Names
<1>3. n \in Name
  BY <1>1, ModelIs
<1>4. n # Missing /\ n # Null
  BY <1>3, SchemaEditorAssumption
<1>5. HeldAfter(op.to, n) = n
  BY <1>1, <1>4 DEF HeldAfter
<1>6. KeptIs(n)
  BY <1>2 DEF Changing
<1> QED
  BY <1>1, <1>5, <1>6 DEF KeptIs

\* However often an operation is interrupted, when it is over every field of
\* the model has its value in its column, and no column is left behind.
THEOREM DocMatchesModelCorrect == Spec => []DocMatchesModel
<1>1. Init => EditInv
  BY EditInit
<1>2. EditInv /\ [Next]_vars => EditInv'
  BY EditStep
<1>3. EditInv => DocMatchesModel
  BY DocMatches
<1> QED
  BY <1>1, <1>2, <1>3, PTL DEF Spec

\* A value is in the old or the new column of its field at every moment of
\* every operation.
THEOREM ValuesSurviveCorrect == Spec => []ValuesSurvive
<1>1. Init => EditInv
  BY EditInit
<1>2. EditInv /\ [Next]_vars => EditInv'
  BY EditStep
<1>3. EditInv => ValuesSurvive
  BY ValuesThere
<1> QED
  BY <1>1, <1>2, <1>3, PTL DEF Spec
=============================================================================
