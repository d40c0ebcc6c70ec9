------------------------- MODULE SlowOperationsProofs -------------------------
(***************************************************************************)
(* The key vault and the encrypted collections of SlowOperations agree, and *)
(* operations leave on the server the search indexes of the models, for any *)
(* models, columns, indexes and bounds.                                    *)
(***************************************************************************)
EXTENDS SlowOperations, SequenceTheorems, FiniteSetTheorems, TLAPS

AnyCommand ==
  [do : {"index_vault", "create_key", "create_collection", "drop_collection",
         "create_search_index", "await_ready", "drop_search_index", "await_dropped"},
   arg : Index \cup Column \cup {None}]

KeyOf(t, column, id) == [name |-> <<t, column>>, id |-> id]

\* Names are unique, and the keys of encrypted collections are in the vault.
VaultInv ==
  /\ vault # {} => unique_names
  /\ \A k, l \in vault : k.name = l.name => k = l
  /\ \A t \in Table : collections[t] # None =>
       \A c \in Columns(t) : KeyOf(t, c, collections[t][c]) \in vault

\* The commands s index the vault before they create keys, unless it has its
\* index, and have keys of all columns when they create the collection, unless
\* the columns are among "have".
VaultIndexed(s, has_index) ==
  \A n \in 1..Len(s) : s[n].do = "create_key" =>
    has_index \/ \E m \in 1..(n - 1) : s[m].do = "index_vault"
KeysMade(s, t, have) ==
  \A n \in 1..Len(s) : s[n].do = "create_collection" =>
    \A c \in Columns(t) :
      c \in have \/ \E m \in 1..(n - 1) : s[m].do = "create_key" /\ s[m].arg = c

\* The operation that is running.
PlanInv ==
  /\ op.table \in Table
  /\ todo \in Seq(AnyCommand)
  /\ VaultIndexed(todo, unique_names)
  /\ KeysMade(todo, op.table, DOMAIN data_keys)
  /\ \A c \in DOMAIN data_keys : KeyOf(op.table, c, data_keys[c]) \in vault

OneIndex(o) == o.kind \in {"add_index", "remove_index"} => Len(o.indexes) = 1

KeysInv ==
  /\ collections = [t \in Table |-> collections[t]]
  /\ unique_names \in BOOLEAN
  /\ phase # "idle" => op \in Operation /\ OneIndex(op)
  /\ VaultInv
  /\ phase = "running" => PlanInv

-----------------------------------------------------------------------------
(* Plans.                                                                  *)

LEMMA CommandType ==
  ASSUME NEW do \in {"index_vault", "create_key", "create_collection",
                     "drop_collection", "create_search_index", "await_ready",
                     "drop_search_index", "await_dropped"},
         NEW arg \in Index \cup Column \cup {None}
  PROVE  /\ Command(do, arg) \in AnyCommand
         /\ Command(do, arg).do = do
         /\ Command(do, arg).arg = arg
BY DEF Command, AnyCommand

LEMMA FunctionIsSeq ==
  ASSUME NEW S, NEW n \in Nat, NEW f \in [1..n -> S]
  PROVE  f \in Seq(S) /\ Len(f) = n
<1>1. f \in Seq(S)
  BY SeqDef
<1>2. DOMAIN f = 1..n /\ DOMAIN f = 1..Len(f) /\ Len(f) \in Nat
  BY <1>1, LenProperties
<1> QED
  BY <1>1, <1>2

LEMMA AddIndexesCommands ==
  ASSUME NEW indexes \in Seq(Index)
  PROVE  /\ AddIndexesPlan(indexes) \in Seq(AnyCommand)
         /\ \A n \in 1..Len(AddIndexesPlan(indexes)) :
              AddIndexesPlan(indexes)[n].do \in {"create_search_index", "await_ready"}
<1> DEFINE s == AddIndexesPlan(indexes)
<1>1. Len(indexes) \in Nat /\ 2 * Len(indexes) \in Nat
  OBVIOUS
<1>2. ASSUME NEW n \in 1..2 * Len(indexes)
      PROVE  s[n] \in AnyCommand /\ s[n].do \in {"create_search_index", "await_ready"}
  <2>1. (n + 1) \div 2 \in 1..Len(indexes)
    BY <1>1
  <2>2. indexes[(n + 1) \div 2] \in Index
    BY <2>1
  <2>3. s[n] = AddIndexPlan(indexes[(n + 1) \div 2])[IF n % 2 = 1 THEN 1 ELSE 2]
    BY DEF AddIndexesPlan
  <2>4. \/ s[n] = Command("create_search_index", indexes[(n + 1) \div 2])
        \/ s[n] = Command("await_ready", indexes[(n + 1) \div 2])
    BY <2>3 DEF AddIndexPlan
  <2> QED
    BY <2>2, <2>4, CommandType
<1>3. s \in Seq(AnyCommand) /\ Len(s) = 2 * Len(indexes)
  <2>1. s \in [1..2 * Len(indexes) -> AnyCommand]
    BY <1>2 DEF AddIndexesPlan
  <2> QED
    BY <1>1, <2>1, FunctionIsSeq
<1> QED
  BY <1>2, <1>3

LEMMA VaultCommands ==
  ASSUME NEW t \in Table
  PROVE  /\ VaultPlan(t) \in Seq(AnyCommand)
         /\ \A n \in 1..Len(VaultPlan(t)) :
              /\ VaultPlan(t)[n].do \in {"index_vault", "create_key"}
              /\ VaultPlan(t)[n].do = "create_key" =>
                   1 \in 1..(n - 1) /\ VaultPlan(t)[1].do = "index_vault"
         /\ \A c \in Columns(t) : \E m \in 1..Len(VaultPlan(t)) :
              VaultPlan(t)[m].do = "create_key" /\ VaultPlan(t)[m].arg = c
<1> DEFINE f == EncryptedFields[t]
           keys == [k \in DOMAIN f |-> Command("create_key", f[k])]
<1>1. f \in Seq(STRING) /\ DOMAIN f = 1..Len(f) /\ Len(f) \in Nat
  BY SlowOperationsAssumption
<1>2. \A c : c \in Columns(t) <=> \E k \in DOMAIN f : c = f[k]
  BY DEF Columns, Range
<1>3. CASE f = <<>>
  <2>1. VaultPlan(t) = <<>> /\ Columns(t) = {}
    BY <1>1, <1>2, <1>3 DEF VaultPlan
  <2> QED
    BY <2>1
<1>4. CASE f # <<>>
  <2>1. VaultPlan(t) = <<Command("index_vault", None)>> \o keys
    BY <1>4 DEF VaultPlan
  <2>2. \A k \in DOMAIN f : f[k] \in Column
    BY <1>2 DEF Column
  <2>3. keys \in Seq(AnyCommand) /\ Len(keys) = Len(f)
    <3>1. \A k \in DOMAIN f : keys[k] \in AnyCommand
      BY <2>2, CommandType
    <3>2. keys \in [1..Len(f) -> AnyCommand]
      BY <1>1, <3>1
    <3> QED
      BY <1>1, <3>2, FunctionIsSeq
  <2>4. Command("index_vault", None) \in AnyCommand
    BY CommandType
  <2>5. /\ VaultPlan(t) \in Seq(AnyCommand)
        /\ Len(VaultPlan(t)) = Len(f) + 1
        /\ VaultPlan(t)[1] = Command("index_vault", None)
        /\ \A n \in 2..(Len(f) + 1) : VaultPlan(t)[n] = keys[n - 1]
    <3> DEFINE head == <<Command("index_vault", None)>>
    <3>1. head \in Seq(AnyCommand) /\ Len(head) = 1 /\ head[1] = Command("index_vault", None)
      BY <2>4
    <3> HIDE DEF head, keys
    <3> QED
      BY <1>1, <2>1, <2>3, <3>1, ConcatProperties DEF head
  <2>6. \A n \in 2..(Len(f) + 1) : VaultPlan(t)[n] = Command("create_key", f[n - 1])
    <3> SUFFICES ASSUME NEW n \in 2..(Len(f) + 1)
                 PROVE  VaultPlan(t)[n] = Command("create_key", f[n - 1])
      OBVIOUS
    <3>1. n - 1 \in DOMAIN f
      BY <1>1
    <3> QED
      BY <2>5, <3>1
  <2>7. \A c \in Columns(t) : \E m \in 1..Len(VaultPlan(t)) :
          VaultPlan(t)[m].do = "create_key" /\ VaultPlan(t)[m].arg = c
    <3> SUFFICES ASSUME NEW c \in Columns(t)
                 PROVE  \E m \in 1..Len(VaultPlan(t)) :
                          VaultPlan(t)[m].do = "create_key" /\ VaultPlan(t)[m].arg = c
      OBVIOUS
    <3>1. PICK k \in 1..Len(f) : c = f[k]
      BY <1>1, <1>2
    <3>2. k + 1 \in 2..(Len(f) + 1) /\ VaultPlan(t)[k + 1] = Command("create_key", c)
      BY <1>1, <2>6, <3>1
    <3> QED
      BY <1>1, <1>2, <2>2, <2>5, <3>1, <3>2, CommandType
  <2>8. \A n \in 1..Len(VaultPlan(t)) :
          /\ VaultPlan(t)[n].do \in {"index_vault", "create_key"}
          /\ VaultPlan(t)[n].do = "create_key" => n > 1
    <3>1. \A n \in 2..(Len(f) + 1) : VaultPlan(t)[n].do = "create_key"
      <4> SUFFICES ASSUME NEW n \in 2..(Len(f) + 1)
                   PROVE  VaultPlan(t)[n].do = "create_key"
        OBVIOUS
      <4>1. PICK x : VaultPlan(t)[n] = Command("create_key", x)
        BY <2>6
      <4> QED
        BY <4>1 DEF Command
    <3>2. VaultPlan(t)[1].do = "index_vault"
      BY <2>5 DEF Command
    <3>3. \A n \in 1..Len(VaultPlan(t)) : n = 1 \/ n \in 2..(Len(f) + 1)
      BY <1>1, <2>5
    <3> SUFFICES ASSUME NEW n \in 1..Len(VaultPlan(t))
                 PROVE  /\ VaultPlan(t)[n].do \in {"index_vault", "create_key"}
                        /\ VaultPlan(t)[n].do = "create_key" => n > 1
      OBVIOUS
    <3>4. CASE n = 1
      BY <3>2, <3>4
    <3>5. CASE n \in 2..(Len(f) + 1)
      BY <1>1, <3>1, <3>5
    <3> QED
      BY <3>3, <3>4, <3>5
  <2> QED
    BY <1>1, <2>5, <2>7, <2>8, CommandType
<1> QED
  BY <1>3, <1>4

\* The vault's commands, the collection, its indexes.
LEMMA CreateModelParts ==
  ASSUME NEW o \in Operation, o.kind = "create_model"
  PROVE  LET v == VaultPlan(o.table)
             c == <<Command("create_collection", None)>>
             a == AddIndexesPlan(o.indexes)
         IN /\ Plan(o) \in Seq(AnyCommand)
            /\ Len(v) \in Nat /\ Len(a) \in Nat
            /\ Len(Plan(o)) = Len(v) + 1 + Len(a)
            /\ \A n \in 1..Len(v) : Plan(o)[n] = v[n]
            /\ Plan(o)[Len(v) + 1] = c[1]
            /\ \A n \in (Len(v) + 2)..Len(Plan(o)) : Plan(o)[n] = a[n - (Len(v) + 1)]
<1> DEFINE v == VaultPlan(o.table)
           c == <<Command("create_collection", None)>>
           a == AddIndexesPlan(o.indexes)
           vc == v \o c
           p == Plan(o)
<1>1. v \in Seq(AnyCommand) /\ a \in Seq(AnyCommand)
  <2>1. o.table \in Table /\ o.indexes \in Seq(Index)
    BY SeqDef DEF Operation, SeqOf
  <2> QED
    BY <2>1, VaultCommands, AddIndexesCommands
<1>2. c \in Seq(AnyCommand) /\ Len(c) = 1
  BY CommandType
<1>3. p = vc \o a
  BY DEF Plan, CreateModelPlan
<1>4. Len(v) \in Nat /\ Len(a) \in Nat
  BY <1>1, LenProperties
<1> HIDE DEF v, c, a, p
<1>5. /\ vc \in Seq(AnyCommand)
      /\ Len(vc) = Len(v) + 1
      /\ \A n \in 1..Len(v) : vc[n] = v[n]
      /\ vc[Len(v) + 1] = c[1]
  <2>1. /\ vc \in Seq(AnyCommand)
        /\ Len(vc) = Len(v) + Len(c)
        /\ \A n \in 1..Len(v) + Len(c) :
             vc[n] = IF n <= Len(v) THEN v[n] ELSE c[n - Len(v)]
    BY <1>1, <1>2, ConcatProperties
  <2> QED
    BY <1>2, <1>4, <2>1
<1> HIDE DEF vc
<1>6. /\ p \in Seq(AnyCommand)
      /\ Len(p) = Len(vc) + Len(a)
      /\ \A n \in 1..Len(vc) + Len(a) : p[n] = IF n <= Len(vc) THEN vc[n] ELSE a[n - Len(vc)]
  BY <1>1, <1>3, <1>5, ConcatProperties
<1>7. Len(p) = Len(v) + 1 + Len(a)
  BY <1>4, <1>5, <1>6
<1>8. (\A n \in 1..Len(v) : p[n] = v[n]) /\ p[Len(v) + 1] = c[1]
  BY <1>4, <1>5, <1>6
<1>9. ASSUME NEW n \in (Len(v) + 2)..Len(p)
      PROVE  p[n] = a[n - (Len(v) + 1)]
  <2>1. n \in 1..Len(vc) + Len(a) /\ ~(n <= Len(vc))
    BY <1>4, <1>5, <1>7
  <2>2. p[n] = a[n - Len(vc)]
    BY <1>6, <2>1
  <2> QED
    BY <1>5, <2>2
<1> QED
  BY <1>4, <1>6, <1>7, <1>8, <1>9 DEF v, c, a, p

\* What Run() starts satisfies PlanInv.
LEMMA PlanStarts ==
  ASSUME NEW o \in Operation, OneIndex(o), NEW has_index \in BOOLEAN
  PROVE  /\ Plan(o) \in Seq(AnyCommand)
         /\ VaultIndexed(Plan(o), has_index)
         /\ KeysMade(Plan(o), o.table, {})
<1>1. /\ o.table \in Table
      /\ o.indexes \in Seq(Index)
      /\ o.kind \in {"create_model", "delete_model", "add_index", "remove_index"}
  BY SeqDef DEF Operation, SeqOf
<1>2. CASE o.kind = "create_model"
  <2> DEFINE v == VaultPlan(o.table)
             c == <<Command("create_collection", None)>>
             a == AddIndexesPlan(o.indexes)
  <2>1. v \in Seq(AnyCommand) /\ a \in Seq(AnyCommand)
    BY <1>1, VaultCommands, AddIndexesCommands
  <2>2. /\ c \in Seq(AnyCommand)
        /\ Len(c) = 1
        /\ c[1].do = "create_collection"
    BY CommandType
  <2>3. /\ \A n \in 1..Len(v) :
             /\ v[n].do \in {"index_vault", "create_key"}
             /\ v[n].do = "create_key" => 1 \in 1..(n - 1) /\ v[1].do = "index_vault"
        /\ \A x \in Columns(o.table) : \E m \in 1..Len(v) :
             v[m].do = "create_key" /\ v[m].arg = x
        /\ \A n \in 1..Len(a) : a[n].do \in {"create_search_index", "await_ready"}
    BY <1>1, VaultCommands, AddIndexesCommands
  <2>4. Plan(o) = (v \o c) \o a
    BY <1>2 DEF Plan, CreateModelPlan
  <2> HIDE DEF v, c, a
  <2>6. /\ Plan(o) \in Seq(AnyCommand)
        /\ Len(v) \in Nat /\ Len(a) \in Nat
        /\ Len(Plan(o)) = Len(v) + 1 + Len(a)
        /\ \A n \in 1..Len(v) : Plan(o)[n] = v[n]
        /\ Plan(o)[Len(v) + 1] = c[1]
        /\ \A n \in (Len(v) + 2)..Len(Plan(o)) : Plan(o)[n] = a[n - (Len(v) + 1)]
    BY <1>2, CreateModelParts DEF v, c, a
  <2>7. ASSUME NEW n \in (Len(v) + 2)..Len(Plan(o))
        PROVE  Plan(o)[n].do \in {"create_search_index", "await_ready"}
    <3>1. n - (Len(v) + 1) \in 1..Len(a)
      BY <2>6
    <3> QED
      BY <2>3, <2>6, <3>1
  <2>8. ASSUME NEW n \in 1..Len(Plan(o))
        PROVE  n \in 1..Len(v) \/ n = Len(v) + 1 \/ n \in (Len(v) + 2)..Len(Plan(o))
    BY <2>6
  <2>9. VaultIndexed(Plan(o), has_index)
    <3> SUFFICES ASSUME NEW n \in 1..Len(Plan(o)), Plan(o)[n].do = "create_key"
                 PROVE  \E m \in 1..(n - 1) : Plan(o)[m].do = "index_vault"
      BY DEF VaultIndexed
    <3>1. n \in 1..Len(v)
      BY <2>2, <2>6, <2>7, <2>8
    <3>2. 1 \in 1..(n - 1) /\ v[1].do = "index_vault" /\ 1 \in 1..Len(v)
      BY <2>3, <2>6, <3>1
    <3> QED
      BY <2>6, <3>2
  <2>10. KeysMade(Plan(o), o.table, {})
    <3> SUFFICES ASSUME NEW n \in 1..Len(Plan(o)), Plan(o)[n].do = "create_collection",
                        NEW x \in Columns(o.table)
                 PROVE  \E m \in 1..(n - 1) :
                          Plan(o)[m].do = "create_key" /\ Plan(o)[m].arg = x
      BY DEF KeysMade
    <3>1. n = Len(v) + 1
      <4>1. n \notin 1..Len(v)
        BY <2>3, <2>6
      <4> QED
        BY <2>7, <2>8, <4>1
    <3>2. PICK m \in 1..Len(v) : v[m].do = "create_key" /\ v[m].arg = x
      BY <2>3
    <3>3. m \in 1..(n - 1)
      BY <2>6, <3>1, <3>2
    <3> QED
      BY <2>6, <3>2, <3>3
  <2> QED
    BY <2>6, <2>9, <2>10
<1>3. CASE o.kind = "delete_model"
  <2>1. Plan(o) = <<Command("drop_collection", None)>>
    BY <1>3 DEF Plan, DeleteModelPlan
  <2>2. /\ Plan(o) \in Seq(AnyCommand)
        /\ Len(Plan(o)) = 1
        /\ Plan(o)[1].do = "drop_collection"
    BY <2>1, CommandType
  <2> QED
    BY <2>2 DEF VaultIndexed, KeysMade
<1>4. CASE o.kind \in {"add_index", "remove_index"}
  <2>1. o.indexes[1] \in Index
    BY <1>1, <1>4 DEF OneIndex
  <2>2. \/ Plan(o) = AddIndexPlan(o.indexes[1])
        \/ Plan(o) = RemoveIndexPlan(o.indexes[1])
    BY <1>4 DEF Plan
  <2>3. /\ Plan(o) \in Seq(AnyCommand)
        /\ Len(Plan(o)) = 2
        /\ \A n \in 1..2 : Plan(o)[n].do \notin {"create_key", "create_collection"}
    <3> DEFINE i == o.indexes[1]
    <3>1. \A do \in {"create_search_index", "await_ready", "drop_search_index",
                    "await_dropped"} :
            Command(do, i) \in AnyCommand /\ Command(do, i).do = do
      BY <2>1, CommandType
    <3>2. PICK x \in {"create_search_index", "drop_search_index"},
               y \in {"await_ready", "await_dropped"} :
            Plan(o) = <<Command(x, i), Command(y, i)>>
      BY <2>2 DEF AddIndexPlan, RemoveIndexPlan
    <3>3. /\ Plan(o) \in Seq(AnyCommand)
          /\ Len(Plan(o)) = 2
          /\ Plan(o)[1] = Command(x, i)
          /\ Plan(o)[2] = Command(y, i)
      BY <3>1, <3>2
    <3> QED
      BY <3>1, <3>3
  <2> QED
    BY <2>3 DEF VaultIndexed, KeysMade
<1> QED
  BY <1>1, <1>2, <1>3, <1>4
-----------------------------------------------------------------------------
(* Taking the first command.                                               *)

LEMMA TailCommands ==
  ASSUME NEW s \in Seq(AnyCommand), s # <<>>
  PROVE  /\ Tail(s) \in Seq(AnyCommand)
         /\ Len(s) \in Nat /\ Len(s) >= 1
         /\ Len(Tail(s)) = Len(s) - 1
         /\ \A n \in 1..Len(Tail(s)) : Tail(s)[n] = s[n + 1]
         /\ Head(s) = s[1] /\ Head(s) \in AnyCommand
BY HeadTailProperties, LenProperties, EmptySeq

LEMMA TailIndexed ==
  ASSUME NEW s \in Seq(AnyCommand), s # <<>>,
         NEW before \in BOOLEAN, NEW after \in BOOLEAN,
         VaultIndexed(s, before),
         before \/ Head(s).do = "index_vault" => after
  PROVE  VaultIndexed(Tail(s), after)
<1> SUFFICES ASSUME NEW n \in 1..Len(Tail(s)), Tail(s)[n].do = "create_key", ~after
             PROVE  \E m \in 1..(n - 1) : Tail(s)[m].do = "index_vault"
  BY DEF VaultIndexed
<1>1. n + 1 \in 1..Len(s) /\ s[n + 1].do = "create_key"
  BY TailCommands
<1>2. PICK m \in 1..((n + 1) - 1) : s[m].do = "index_vault"
  BY <1>1 DEF VaultIndexed
<1>3. m # 1
  BY <1>2, TailCommands
<1>4. m - 1 \in 1..(n - 1) /\ m - 1 \in 1..Len(Tail(s)) /\ (m - 1) + 1 = m
  BY <1>1, <1>2, <1>3, TailCommands
<1>5. Tail(s)[m - 1].do = "index_vault"
  BY <1>2, <1>4, TailCommands
<1> QED
  BY <1>4, <1>5

LEMMA TailKeysMade ==
  ASSUME NEW s \in Seq(AnyCommand), s # <<>>,
         NEW t, NEW before, NEW after, KeysMade(s, t, before),
         before \subseteq after,
         Head(s).do = "create_key" => Head(s).arg \in after
  PROVE  KeysMade(Tail(s), t, after)
<1> SUFFICES ASSUME NEW n \in 1..Len(Tail(s)), Tail(s)[n].do = "create_collection",
                    NEW c \in Columns(t), c \notin after
             PROVE  \E m \in 1..(n - 1) :
                      Tail(s)[m].do = "create_key" /\ Tail(s)[m].arg = c
  BY DEF KeysMade
<1>1. n + 1 \in 1..Len(s) /\ s[n + 1].do = "create_collection"
  BY TailCommands
<1>2. PICK m \in 1..((n + 1) - 1) : s[m].do = "create_key" /\ s[m].arg = c
  BY <1>1 DEF KeysMade
<1>3. m # 1
  BY <1>2, TailCommands
<1>4. m - 1 \in 1..(n - 1) /\ m - 1 \in 1..Len(Tail(s)) /\ (m - 1) + 1 = m
  BY <1>1, <1>2, <1>3, TailCommands
<1>5. Tail(s)[m - 1].do = "create_key" /\ Tail(s)[m - 1].arg = c
  BY <1>2, <1>4, TailCommands
<1> QED
  BY <1>4, <1>5

\* A command that changes neither the vault nor the keys made.
LEMMA TailPlan ==
  ASSUME PlanInv, unique_names \in BOOLEAN, todo # <<>>,
         Head(todo).do \notin {"create_key", "index_vault"},
         todo' = Tail(todo), op' = op, data_keys' = data_keys,
         unique_names' = unique_names, vault' = vault
  PROVE  PlanInv'
<1>1. todo' \in Seq(AnyCommand)
  BY TailCommands DEF PlanInv
<1>2. VaultIndexed(todo', unique_names')
  BY TailIndexed DEF PlanInv
<1>3. KeysMade(todo', op'.table, DOMAIN data_keys')
  BY TailKeysMade DEF PlanInv
<1> QED
  BY <1>1, <1>2, <1>3 DEF PlanInv
-----------------------------------------------------------------------------
(* The invariant.                                                          *)

LEMMA KeysInit == Init => KeysInv
BY DEF Init, KeysInv, VaultInv

LEMMA RunKeys ==
  ASSUME KeysInv, NEW o \in Operation, OneIndex(o), Run(o)
  PROVE  KeysInv'
<1>1. /\ Plan(o) \in Seq(AnyCommand)
      /\ VaultIndexed(Plan(o), unique_names)
      /\ KeysMade(Plan(o), o.table, {})
  BY PlanStarts DEF KeysInv
<1>2. DOMAIN data_keys' = {}
  BY DEF Run
<1>3. PlanInv'
  BY <1>1, <1>2 DEF PlanInv, Run, database, Operation
<1>4. VaultInv'
  BY DEF Run, database, KeysInv, VaultInv
<1> QED
  BY <1>3, <1>4 DEF Run, database, KeysInv

\* A failure ends the run and leaves the server alone.
LEMMA FailKeys ==
  ASSUME KeysInv, phase # "idle", NEW e, Fail(e), UNCHANGED database
  PROVE  KeysInv'
<1>1. VaultInv'
  BY DEF database, KeysInv, VaultInv
<1> QED
  BY <1>1 DEF KeysInv, Fail, database

\* A command of search indexes, or one that is only collected.
LEMMA OtherCommandKeys ==
  ASSUME KeysInv, phase = "running", todo # <<>>,
         Head(todo).do \notin {"create_key", "index_vault"},
         todo' = Tail(todo),
         UNCHANGED <<phase, op, collections, vault, unique_names, data_keys>>
  PROVE  KeysInv'
<1>1. PlanInv'
  BY TailPlan DEF KeysInv
<1>2. VaultInv'
  BY DEF KeysInv, VaultInv
<1> QED
  BY <1>1, <1>2 DEF KeysInv

LEMMA IndexVaultKeys ==
  ASSUME KeysInv, IndexVault
  PROVE  KeysInv'
<1>1. /\ todo \in Seq(AnyCommand) /\ todo # <<>>
      /\ Head(todo).do = "index_vault" /\ todo' = Tail(todo)
  BY DEF KeysInv, PlanInv, IndexVault, At, Proceed
<1>2. todo' \in Seq(AnyCommand)
  BY <1>1, TailCommands
<1>3. VaultIndexed(todo', TRUE)
  BY <1>1, TailIndexed DEF KeysInv, PlanInv, IndexVault, At
<1>4. KeysMade(todo', op.table, DOMAIN data_keys)
  BY <1>1, TailKeysMade DEF KeysInv, PlanInv, IndexVault, At
<1>5. PlanInv'
  BY <1>2, <1>3, <1>4 DEF KeysInv, PlanInv, IndexVault, At, Proceed
<1>6. VaultInv'
  BY DEF KeysInv, VaultInv, IndexVault
<1> QED
  BY <1>5, <1>6 DEF KeysInv, IndexVault, At, Proceed

LEMMA CreateDataKeyKeys ==
  ASSUME KeysInv, CreateDataKey
  PROVE  KeysInv'
<1> DEFINE column == Head(todo).arg
           t == op.table
           key == KeyOf(t, column, next_key)
           keys == [c \in DOMAIN data_keys \cup {column} |->
                      IF c = column THEN next_key ELSE data_keys[c]]
<1>1. /\ PlanInv /\ VaultInv /\ phase = "running"
      /\ todo \in Seq(AnyCommand) /\ todo # <<>>
      /\ Head(todo).do = "create_key" /\ todo' = Tail(todo)
  BY DEF KeysInv, PlanInv, CreateDataKey, At, Proceed
<1>2. /\ ~NameTaken(<<t, column>>)
      /\ vault' = vault \cup {key}
      /\ data_keys' = keys
      /\ UNCHANGED <<collections, unique_names, phase, op>>
  BY DEF CreateDataKey, KeyOf, Proceed
\* The vault is indexed: no command comes before this one.
<1>3. unique_names
  <2>1. 1 \in 1..Len(todo) /\ todo[1].do = "create_key"
    BY <1>1, TailCommands
  <2> QED
    BY <1>1, <2>1 DEF PlanInv, VaultIndexed
<1>4. \A k \in vault : k.name # <<t, column>>
  BY <1>2, <1>3 DEF NameTaken
<1>5. VaultInv'
  <2>1. key.name = <<t, column>>
    BY DEF KeyOf
  <2>2. \A k, l \in vault' : k.name = l.name => k = l
    <3> HIDE DEF key
    <3> QED
      BY <1>1, <1>2, <1>4, <2>1 DEF VaultInv
  <2> HIDE DEF key
  <2> QED
    BY <1>1, <1>2, <1>3, <2>2 DEF VaultInv
<1>6. todo' \in Seq(AnyCommand)
  BY <1>1, TailCommands
<1>7. VaultIndexed(todo', unique_names')
  BY <1>1, <1>2, TailIndexed DEF KeysInv, PlanInv
<1>8. DOMAIN keys = DOMAIN data_keys \cup {column}
  OBVIOUS
<1>9. KeysMade(todo', t, DOMAIN keys)
  BY <1>1, <1>8, TailKeysMade DEF PlanInv
<1>10. \A c \in DOMAIN keys : KeyOf(t, c, keys[c]) \in vault'
  <2> SUFFICES ASSUME NEW c \in DOMAIN keys
               PROVE  KeyOf(t, c, keys[c]) \in vault'
    OBVIOUS
  <2>1. CASE c = column
    BY <1>2, <2>1
  <2>2. CASE c # column
    BY <1>1, <1>2, <1>8, <2>2 DEF PlanInv
  <2> QED
    BY <2>1, <2>2
<1>11. PlanInv'
  <2> HIDE DEF keys
  <2> QED
    BY <1>1, <1>2, <1>6, <1>7, <1>9, <1>10 DEF PlanInv
<1> QED
  BY <1>2, <1>5, <1>11 DEF KeysInv

LEMMA CreateCollectionKeys ==
  ASSUME KeysInv, CreateCollection
  PROVE  KeysInv'
<1> DEFINE t == op.table
<1>1. /\ PlanInv /\ VaultInv /\ phase = "running"
      /\ todo \in Seq(AnyCommand) /\ todo # <<>>
      /\ Head(todo).do = "create_collection" /\ todo' = Tail(todo)
      /\ UNCHANGED <<phase, op, vault, unique_names, data_keys>>
      /\ collections' = [collections EXCEPT ![t] = data_keys]
      /\ collections = [u \in Table |-> collections[u]] /\ t \in Table
  BY DEF KeysInv, PlanInv, CreateCollection, At, Proceed
\* The columns all have their keys: no command comes before this one.
<1>2. \A c \in Columns(t) : c \in DOMAIN data_keys
  <2>1. 1 \in 1..Len(todo) /\ todo[1].do = "create_collection"
    BY <1>1, TailCommands
  <2> QED
    BY <1>1, <2>1 DEF PlanInv, KeysMade
<1>3. ASSUME NEW u \in Table, collections'[u] # None, NEW c \in Columns(u)
      PROVE  KeyOf(u, c, collections'[u][c]) \in vault
  <2>1. CASE u = t
    BY <1>1, <1>2, <2>1 DEF PlanInv
  <2>2. CASE u # t
    <3>1. collections'[u] = collections[u]
      BY <1>1, <2>2
    <3> QED
      BY <1>1, <1>3, <3>1 DEF VaultInv
  <2> QED
    BY <2>1, <2>2
<1>4. VaultInv'
  BY <1>1, <1>3 DEF VaultInv
<1>5. PlanInv'
  BY <1>1, TailPlan DEF KeysInv
<1>6. collections' = [u \in Table |-> collections'[u]]
  BY <1>1
<1> QED
  BY <1>1, <1>4, <1>5, <1>6 DEF KeysInv

LEMMA DropCollectionKeys ==
  ASSUME KeysInv, DropCollection
  PROVE  KeysInv'
<1> DEFINE t == op.table
<1>1. /\ PlanInv /\ VaultInv /\ phase = "running"
      /\ todo # <<>> /\ Head(todo).do = "drop_collection" /\ todo' = Tail(todo)
      /\ UNCHANGED <<phase, op, vault, unique_names, data_keys>>
      /\ collections' = [collections EXCEPT ![t] = None]
      /\ collections = [u \in Table |-> collections[u]] /\ t \in Table
  BY DEF KeysInv, PlanInv, DropCollection, At, Proceed
<1>2. \A u \in Table : collections'[u] = None \/ collections'[u] = collections[u]
  BY <1>1
<1>3. VaultInv'
  BY <1>1, <1>2 DEF VaultInv
<1>4. PlanInv'
  BY <1>1, TailPlan DEF KeysInv
<1>5. collections' = [u \in Table |-> collections'[u]]
  BY <1>1
<1> QED
  BY <1>1, <1>3, <1>4, <1>5 DEF KeysInv

\* The keys that go are those of a model without a collection.
LEMMA DeleteKeysKeys ==
  ASSUME KeysInv, NEW t \in Table, DeleteKeys(t)
  PROVE  KeysInv'
<1>1. /\ VaultInv /\ phase # "running" /\ collections[t] = None
      /\ vault' = {k \in vault : k.name[1] # t}
      /\ UNCHANGED <<collections, unique_names, phase, op>>
  BY DEF KeysInv, DeleteKeys, editor
<1>2. ASSUME NEW u \in Table, collections[u] # None, NEW c \in Columns(u)
      PROVE  KeyOf(u, c, collections[u][c]) \in vault'
  <2>1. KeyOf(u, c, collections[u][c]).name[1] = u
    BY DEF KeyOf
  <2> QED
    BY <1>1, <1>2, <2>1 DEF VaultInv
<1>3. VaultInv'
  BY <1>1, <1>2 DEF VaultInv
<1> QED
  BY <1>1, <1>3 DEF KeysInv
LEMMA KeysStep == KeysInv /\ [Next]_vars => KeysInv'
<1> SUFFICES ASSUME KeysInv, [Next]_vars
             PROVE  KeysInv'
  OBVIOUS
<1>1. CASE UNCHANGED vars
  <2>1. UNCHANGED <<collections, vault, unique_names, phase, op, todo, data_keys>>
    BY <1>1 DEF vars, database, editor
  <2>2. VaultInv'
    BY <2>1 DEF KeysInv, VaultInv
  <2>3. phase = "running" => PlanInv'
    BY <2>1 DEF KeysInv, PlanInv
  <2> QED
    BY <2>1, <2>2, <2>3 DEF KeysInv
<1>2. CASE Start
  <2>1. PICK o \in Operation : Follows(o) /\ Run(o)
    BY <1>2 DEF Start
  <2>2. OneIndex(o)
    BY <2>1 DEF Follows, OneIndex
  <2> QED
    BY <2>1, <2>2, RunKeys
<1>3. CASE RunAgain
  <2> DEFINE o == [op EXCEPT !.again = TRUE]
  <2>1. op \in Operation /\ OneIndex(op) /\ Run(o)
    BY <1>3 DEF RunAgain, KeysInv
  <2>2. o \in Operation /\ o.kind = op.kind /\ o.indexes = op.indexes
    BY <2>1 DEF Operation
  <2>3. OneIndex(o)
    BY <2>1, <2>2 DEF OneIndex
  <2> HIDE DEF o
  <2> QED
    BY <2>1, <2>2, <2>3, RunKeys
<1>4. CASE Finish \/ GiveUp
  <2>1. Leave
    BY <1>4 DEF Finish, GiveUp
  <2>2. VaultInv'
    BY <2>1 DEF Leave, database, KeysInv, VaultInv
  <2> QED
    BY <2>1, <2>2 DEF Leave, database, KeysInv
<1>5. CASE \/ Stop \/ KeyRefused \/ CollectionRefused \/ CreateSearchIndexRefused
           \/ DropSearchIndexRefused \/ WaitTimesOut \/ WaitOfCollector
  <2>1. PICK e : Fail(e) /\ UNCHANGED database
    BY <1>5 DEF Stop, KeyRefused, CollectionRefused, CreateSearchIndexRefused,
                DropSearchIndexRefused, WaitTimesOut, WaitOfCollector
  <2>2. phase # "idle"
    BY <1>5 DEF Stop, KeyRefused, CollectionRefused, CreateSearchIndexRefused,
                DropSearchIndexRefused, WaitTimesOut, WaitOfCollector, Waiting, At
  <2> QED
    BY <2>1, <2>2, FailKeys
<1>6. CASE Collect
  BY <1>6, OtherCommandKeys DEF Collect, At, Proceed, database
<1>7. CASE CreateSearchIndex \/ CreateSearchIndexAgain \/ DropSearchIndex
  <2>1. /\ phase = "running" /\ todo # <<>> /\ todo' = Tail(todo)
        /\ Head(todo).do \in {"create_search_index", "drop_search_index"}
        /\ UNCHANGED <<phase, op, collections, vault, unique_names, data_keys>>
    BY <1>7 DEF CreateSearchIndex, CreateSearchIndexAgain, DropSearchIndex, At,
                Proceed, OnlySearch, database
  <2> QED
    BY <2>1, OtherCommandKeys
<1>8. CASE Poll
  <2>1. /\ phase = "running" /\ todo # <<>>
        /\ Head(todo).do \in {"await_ready", "await_dropped"}
        /\ todo' = Tail(todo) \/ todo' = todo
        /\ UNCHANGED <<phase, op, collections, vault, unique_names, data_keys>>
    BY <1>8 DEF Poll, Waiting, At, database
  <2>2. CASE todo' = Tail(todo)
    BY <2>1, <2>2, OtherCommandKeys
  <2>3. CASE todo' = todo
    <3>1. VaultInv' /\ PlanInv'
      BY <2>1, <2>3 DEF KeysInv, VaultInv, PlanInv
    <3> QED
      BY <2>1, <2>3, <3>1 DEF KeysInv
  <2> QED
    BY <2>1, <2>2, <2>3
<1>9. CASE \E t \in Table, i \in Index : Built(t, i) \/ Dropped(t, i)
  <2>1. UNCHANGED <<collections, vault, unique_names, phase, op, todo, data_keys>>
    BY <1>9 DEF Built, Dropped, editor
  <2>2. VaultInv'
    BY <2>1 DEF KeysInv, VaultInv
  <2>3. phase = "running" => PlanInv'
    BY <2>1 DEF KeysInv, PlanInv
  <2> QED
    BY <2>1, <2>2, <2>3 DEF KeysInv
<1>10. CASE IndexVault
  BY <1>10, IndexVaultKeys
<1>11. CASE CreateDataKey
  BY <1>11, CreateDataKeyKeys
<1>12. CASE CreateCollection
  BY <1>12, CreateCollectionKeys
<1>13. CASE DropCollection
  BY <1>13, DropCollectionKeys
<1>14. CASE \E t \in Table : DeleteKeys(t)
  BY <1>14, DeleteKeysKeys
<1> QED
  BY <1>1, <1>2, <1>3, <1>4, <1>5, <1>6, <1>7, <1>8, <1>9, <1>10, <1>11, <1>12,
     <1>13, <1>14 DEF Next, Editor

LEMMA KeysMatch == KeysInv => MapMatchesCollections
<1> SUFFICES ASSUME KeysInv, NEW t \in Table, collections[t] # None,
                    NEW column \in Columns(t)
             PROVE  ShownKeys(t, column) = {collections[t][column]}
  BY DEF MapMatchesCollections
<1> DEFINE key == KeyOf(t, column, collections[t][column])
<1>1. key \in vault
  BY DEF KeysInv, VaultInv
<1>2. key.name = <<t, column>> /\ key.id = collections[t][column]
  BY DEF KeyOf
<1>3. \A k \in vault : k.name = <<t, column>> => k = key
  BY <1>1, <1>2 DEF KeysInv, VaultInv
<1> HIDE DEF key
<1> QED
  BY <1>1, <1>2, <1>3 DEF ShownKeys

\* Whatever the models, their encrypted columns and the interruptions, every
\* column of an encrypted collection has exactly one key in the vault, the one
\* of its encryptedFields: _create_collection() indexes the vault before the
\* first key and makes every key before the collection (schema.py 374-391).
THEOREM MapMatchesCollectionsCorrect == Spec => []MapMatchesCollections
<1>1. Init => KeysInv
  BY KeysInit
<1>2. KeysInv /\ [Next]_vars => KeysInv'
  BY KeysStep
<1>3. KeysInv => MapMatchesCollections
  BY KeysMatch
<1> QED
  BY <1>1, <1>2, <1>3, PTL DEF Spec

-----------------------------------------------------------------------------
(* The types of SlowOperations, and its search indexes.                    *)

Pending(s, do, arg) == \E n \in 1..Len(s) : s[n].do = do /\ s[n].arg = arg

\* The commands of an operation, and what they are about.
CommandsOf(kind) ==
  CASE kind = "create_model" -> {"index_vault", "create_key", "create_collection",
                                 "create_search_index", "await_ready"}
    [] kind = "delete_model" -> {"drop_collection"}
    [] kind = "add_index" -> {"create_search_index", "await_ready"}
    [] kind = "remove_index" -> {"drop_search_index", "await_dropped"}

OnIndexes == {"create_search_index", "await_ready", "drop_search_index", "await_dropped"}

Fits(command, o) ==
  /\ command.do \in CommandsOf(o.kind)
  /\ command.do = "create_key" => command.arg \in Columns(o.table)
  /\ command.do \in OnIndexes => command.arg \in Range(o.indexes)
  /\ command.do \notin OnIndexes \cup {"create_key"} => command.arg = None

CommandsFit(s, o) == \A n \in 1..Len(s) : Fits(s[n], o)

\* No collection is made twice, no index made or dropped twice.
Once == {"create_collection", "create_search_index", "drop_search_index"}
OnceEach(s) ==
  \A m, n \in 1..Len(s) :
    s[m].do \in Once /\ s[m].do = s[n].do /\ s[m].arg = s[n].arg => m = n

\* The collection comes before its indexes.
CollectionComes(s, there) ==
  \A n \in 1..Len(s) : s[n].do = "create_search_index" =>
    there \/ \E m \in 1..(n - 1) : s[m].do = "create_collection"

Adds(o) == o.kind \in {"create_model", "add_index"}

\* What an operation may have done so far to its model t.
Underway(t) ==
  /\ op.kind \in {"add_index", "remove_index"} => collections[t] # None
  /\ op.kind = "create_model" /\ collections[t] = None =>
       \A i \in Index : search[t][i] = "absent"
  /\ \A i \in Range(op.indexes) :
       search[t][i] \in IF Adds(op) THEN {"absent", "building", "ready", "failed"}
                        ELSE {"absent", "deleting", "ready"}
  /\ \A i \in Index \ Range(op.indexes) :
       search[t][i] = IF models[t] # None /\ i \in models[t] /\ collections[t] # None
                      THEN "ready" ELSE "absent"

\* What it has done of its plan.
Done(t) ==
  /\ op.kind = "create_model" /\ ~Pending(todo, "create_collection", None) =>
       collections[t] # None
  /\ op.kind = "delete_model" /\ ~Pending(todo, "drop_collection", None) =>
       collections[t] = None
  /\ \A i \in Range(op.indexes) :
       /\ Adds(op) /\ ~Pending(todo, "await_ready", i) => search[t][i] = "ready"
       /\ ~Adds(op) /\ ~Pending(todo, "await_dropped", i) => search[t][i] = "absent"

\* What a first run has left to do was never done.
Untouched(t) ==
  /\ OnceEach(todo)
  /\ CollectionComes(todo, collections[t] # None)
  /\ Pending(todo, "create_collection", None) => collections[t] = None
  /\ \A i \in Index :
       /\ Pending(todo, "create_search_index", i) => search[t][i] = "absent"
       /\ Pending(todo, "drop_search_index", i) => search[t][i] = "ready"

RunInv ==
  /\ todo \in Seq(AnyCommand)
  /\ CommandsFit(todo, op)
  /\ ~op.dry => Done(op.table)
  /\ ~op.dry /\ ~op.again => Untouched(op.table)

\* Where the server is with the operation, and that it is as the models say
\* when there is none.
SearchInv ==
  /\ models \in [Table -> {None} \cup SUBSET Index]
  /\ search \in [Table -> [Index -> Status]]
  /\ phase \in {"idle", "running", "failed"}
  /\ phase = "idle" <=> op = None
  /\ phase # "idle" => op \in Operation /\ Follows(op)
  /\ phase # "idle" /\ ~op.dry => Underway(op.table)
  /\ phase = "running" => RunInv
  /\ SearchMatchesModels
  /\ FirstRunsRefusedForKeysOnly

\* Ids above MaxKeys are never deleted.
IdsInv ==
  /\ next_key \in Nat \ {0}
  /\ vault \subseteq [name : Table \X Column, id : 1..(next_key - 1)]
  /\ \A id \in (MaxKeys + 1)..(next_key - 1) : \E k \in vault : k.id = id
  /\ phase = "running" =>
       data_keys \in [DOMAIN data_keys -> Nat] /\ DOMAIN data_keys \subseteq Columns(op.table)
-----------------------------------------------------------------------------
(* Taking the first command.                                               *)

LEMMA TailPending ==
  ASSUME NEW s \in Seq(AnyCommand), s # <<>>, NEW do, NEW arg
  PROVE  /\ Pending(Tail(s), do, arg) => Pending(s, do, arg)
         /\ Pending(s, do, arg) =>
              Pending(Tail(s), do, arg) \/ (Head(s).do = do /\ Head(s).arg = arg)
         /\ Head(s).do = do /\ Head(s).arg = arg => Pending(s, do, arg)
<1>1. /\ Len(s) \in Nat /\ Len(s) >= 1 /\ Len(Tail(s)) = Len(s) - 1
      /\ \A n \in 1..Len(Tail(s)) : Tail(s)[n] = s[n + 1]
      /\ Head(s) = s[1]
  BY TailCommands
<1>2. ASSUME Pending(Tail(s), do, arg) PROVE Pending(s, do, arg)
  <2>1. PICK n \in 1..Len(Tail(s)) : Tail(s)[n].do = do /\ Tail(s)[n].arg = arg
    BY <1>2 DEF Pending
  <2>2. n + 1 \in 1..Len(s) /\ s[n + 1] = Tail(s)[n]
    BY <1>1
  <2> QED
    BY <2>1, <2>2 DEF Pending
<1>3. ASSUME Pending(s, do, arg), ~(Head(s).do = do /\ Head(s).arg = arg)
      PROVE  Pending(Tail(s), do, arg)
  <2>1. PICK n \in 1..Len(s) : s[n].do = do /\ s[n].arg = arg
    BY <1>3 DEF Pending
  <2>2. n - 1 \in 1..Len(Tail(s)) /\ (n - 1) + 1 = n
    BY <1>1, <1>3, <2>1
  <2>3. Tail(s)[n - 1] = s[n]
    BY <1>1, <2>2
  <2> QED
    BY <2>1, <2>2, <2>3 DEF Pending
<1>4. ASSUME Head(s).do = do, Head(s).arg = arg PROVE Pending(s, do, arg)
  <2>1. 1 \in 1..Len(s)
    BY <1>1
  <2> QED
    BY <1>1, <1>4, <2>1 DEF Pending
<1> QED
  BY <1>2, <1>3, <1>4

LEMMA TailFits ==
  ASSUME NEW s \in Seq(AnyCommand), s # <<>>, NEW o, CommandsFit(s, o)
  PROVE  Fits(Head(s), o) /\ CommandsFit(Tail(s), o)
<1>1. 1 \in 1..Len(s) /\ Head(s) = s[1]
  BY TailCommands
<1>2. ASSUME NEW n \in 1..Len(Tail(s)) PROVE Fits(Tail(s)[n], o)
  <2>1. n + 1 \in 1..Len(s) /\ Tail(s)[n] = s[n + 1]
    BY TailCommands
  <2> QED
    BY <2>1 DEF CommandsFit
<1> QED
  BY <1>1, <1>2 DEF CommandsFit

LEMMA TailOnce ==
  ASSUME NEW s \in Seq(AnyCommand), s # <<>>, OnceEach(s)
  PROVE  /\ OnceEach(Tail(s))
         /\ Head(s).do \in Once => ~Pending(Tail(s), Head(s).do, Head(s).arg)
<1>1. /\ Len(s) \in Nat /\ Len(s) >= 1 /\ Len(Tail(s)) = Len(s) - 1
      /\ \A n \in 1..Len(Tail(s)) : Tail(s)[n] = s[n + 1]
      /\ Head(s) = s[1]
  BY TailCommands
<1>2. ASSUME NEW m \in 1..Len(Tail(s)), NEW n \in 1..Len(Tail(s)),
             Tail(s)[m].do \in Once, Tail(s)[m].do = Tail(s)[n].do,
             Tail(s)[m].arg = Tail(s)[n].arg
      PROVE  m = n
  <2>1. m + 1 \in 1..Len(s) /\ n + 1 \in 1..Len(s)
    BY <1>1
  <2>2. Tail(s)[m] = s[m + 1] /\ Tail(s)[n] = s[n + 1]
    BY <1>1
  <2>3. m + 1 = n + 1
    BY <1>2, <2>1, <2>2 DEF OnceEach
  <2> QED
    BY <1>1, <2>3
<1>3. ASSUME Head(s).do \in Once, Pending(Tail(s), Head(s).do, Head(s).arg)
      PROVE  FALSE
  <2>1. PICK n \in 1..Len(Tail(s)) :
          Tail(s)[n].do = Head(s).do /\ Tail(s)[n].arg = Head(s).arg
    BY <1>3 DEF Pending
  <2>2. 1 \in 1..Len(s) /\ n + 1 \in 1..Len(s) /\ Tail(s)[n] = s[n + 1]
    BY <1>1
  <2>3. 1 = n + 1
    BY <1>1, <1>3, <2>1, <2>2 DEF OnceEach
  <2> QED
    BY <1>1, <2>3
<1> QED
  BY <1>2, <1>3 DEF OnceEach

LEMMA TailCollection ==
  ASSUME NEW s \in Seq(AnyCommand), s # <<>>,
         NEW before \in BOOLEAN, NEW after \in BOOLEAN,
         CollectionComes(s, before),
         before \/ Head(s).do = "create_collection" => after
  PROVE  CollectionComes(Tail(s), after)
<1> SUFFICES ASSUME NEW n \in 1..Len(Tail(s)), Tail(s)[n].do = "create_search_index",
                    ~after
             PROVE  \E m \in 1..(n - 1) : Tail(s)[m].do = "create_collection"
  BY DEF CollectionComes
<1>1. n + 1 \in 1..Len(s) /\ s[n + 1].do = "create_search_index"
  BY TailCommands
<1>2. PICK m \in 1..((n + 1) - 1) : s[m].do = "create_collection"
  BY <1>1 DEF CollectionComes
<1>3. m # 1
  BY <1>2, TailCommands
<1>4. m - 1 \in 1..(n - 1) /\ m - 1 \in 1..Len(Tail(s)) /\ (m - 1) + 1 = m
  BY <1>1, <1>2, <1>3, TailCommands
<1>5. Tail(s)[m - 1].do = "create_collection"
  BY <1>2, <1>4, TailCommands
<1> QED
  BY <1>4, <1>5
-----------------------------------------------------------------------------
(* The plan of an operation that follows.                                   *)

LEMMA AddIndexesPlanIs ==
  ASSUME NEW indexes \in Seq(Index)
  PROVE  LET s == AddIndexesPlan(indexes)
         IN /\ Len(s) = 2 * Len(indexes)
            /\ \A n \in 1..Len(indexes) :
                 /\ s[2 * n - 1] = Command("create_search_index", indexes[n])
                 /\ s[2 * n] = Command("await_ready", indexes[n])
            /\ \A m \in 1..Len(s) : \E n \in 1..Len(indexes) : m = 2 * n - 1 \/ m = 2 * n
<1> DEFINE s == AddIndexesPlan(indexes)
<1>1. Len(indexes) \in Nat /\ 2 * Len(indexes) \in Nat
  OBVIOUS
<1>2. s \in Seq(AnyCommand) /\ DOMAIN s = 1..2 * Len(indexes)
  BY AddIndexesCommands DEF AddIndexesPlan
<1>3. Len(s) = 2 * Len(indexes)
  <2>1. DOMAIN s = 1..Len(s) /\ Len(s) \in Nat
    BY <1>2, LenProperties
  <2> QED
    BY <1>1, <1>2, <2>1
<1>4. ASSUME NEW n \in 1..Len(indexes)
      PROVE  /\ s[2 * n - 1] = Command("create_search_index", indexes[n])
             /\ s[2 * n] = Command("await_ready", indexes[n])
  <2>1. /\ 2 * n - 1 \in 1..2 * Len(indexes) /\ ((2 * n - 1) + 1) \div 2 = n
        /\ (2 * n - 1) % 2 = 1
        /\ 2 * n \in 1..2 * Len(indexes) /\ (2 * n + 1) \div 2 = n /\ (2 * n) % 2 # 1
    BY <1>1
  <2>2. \A m \in 1..2 * Len(indexes) :
          s[m] = AddIndexPlan(indexes[(m + 1) \div 2])[IF m % 2 = 1 THEN 1 ELSE 2]
    BY DEF AddIndexesPlan
  <2>3. s[2 * n - 1] = AddIndexPlan(indexes[n])[1] /\ s[2 * n] = AddIndexPlan(indexes[n])[2]
    <3> HIDE DEF s
    <3> QED
      BY <2>1, <2>2
  <2> QED
    BY <2>3 DEF AddIndexPlan
<1>5. ASSUME NEW m \in 1..Len(s)
      PROVE  \E n \in 1..Len(indexes) : m = 2 * n - 1 \/ m = 2 * n
  <2>1. /\ (m + 1) \div 2 \in 1..Len(indexes)
        /\ m = 2 * ((m + 1) \div 2) - 1 \/ m = 2 * ((m + 1) \div 2)
    BY <1>1, <1>3
  <2> QED
    BY <2>1
<1> QED
  BY <1>3, <1>4, <1>5

\* The parts of a plan that is a short list.
LEMMA ShortPlanFits ==
  ASSUME NEW o \in Operation, Follows(o), o.kind # "create_model"
  PROVE  /\ CommandsFit(Plan(o), o)
         /\ OnceEach(Plan(o))
         /\ o.kind = "delete_model" => Pending(Plan(o), "drop_collection", None)
         /\ \A i \in Range(o.indexes) :
              Pending(Plan(o), IF Adds(o) THEN "await_ready" ELSE "await_dropped", i)
<1>1. /\ o.table \in Table
      /\ o.indexes \in Seq(Index)
      /\ o.kind \in {"create_model", "delete_model", "add_index", "remove_index"}
  BY SeqDef DEF Operation, SeqOf
<1>2. CASE o.kind = "delete_model"
  <2>1. Plan(o) = <<Command("drop_collection", None)>> /\ o.indexes = <<>>
    BY <1>2 DEF Plan, DeleteModelPlan, Follows
  <2>2. /\ Len(Plan(o)) = 1
        /\ Plan(o)[1].do = "drop_collection" /\ Plan(o)[1].arg = None
    BY <2>1 DEF Command
  <2>3. Range(o.indexes) = {}
    BY <2>1 DEF Range
  <2> HIDE DEF Plan
  <2> QED
    BY <1>2, <2>2, <2>3 DEF CommandsFit, Fits, CommandsOf, OnIndexes, OnceEach, Pending
<1>3. CASE o.kind \in {"add_index", "remove_index"}
  <2> DEFINE i == o.indexes[1]
             p == Plan(o)
  <2>1. Len(o.indexes) = 1 /\ i \in Index /\ Range(o.indexes) = {i}
    <3>1. Len(o.indexes) = 1 /\ DOMAIN o.indexes = 1..1
      BY <1>1, <1>3 DEF Follows
    <3> QED
      BY <1>1, <3>1 DEF Range
  <2>2. /\ Len(p) = 2 /\ p[1].arg = i /\ p[2].arg = i
        /\ o.kind = "add_index" =>
             p[1].do = "create_search_index" /\ p[2].do = "await_ready"
        /\ o.kind = "remove_index" =>
             p[1].do = "drop_search_index" /\ p[2].do = "await_dropped"
    BY <1>3 DEF Plan, AddIndexPlan, RemoveIndexPlan, Command
  <2> HIDE DEF p, i
  <2>3. CommandsFit(p, o)
    BY <1>3, <2>1, <2>2 DEF CommandsFit, Fits, CommandsOf, OnIndexes
  <2>4. OnceEach(p)
    BY <1>3, <2>2 DEF OnceEach, Once
  <2>5. Pending(p, IF Adds(o) THEN "await_ready" ELSE "await_dropped", i)
    BY <1>3, <2>2 DEF Adds, Pending
  <2> QED
    BY <1>3, <2>1, <2>3, <2>4, <2>5 DEF p
<1> QED
  BY <1>1, <1>2, <1>3

LEMMA VaultPlanFits ==
  ASSUME NEW t \in Table
  PROVE  \A n \in 1..Len(VaultPlan(t)) :
           \/ VaultPlan(t)[n] = Command("index_vault", None)
           \/ \E c \in Columns(t) : VaultPlan(t)[n] = Command("create_key", c)
<1> DEFINE f == EncryptedFields[t]
           head == <<Command("index_vault", None)>>
           keys == [k \in DOMAIN f |-> Command("create_key", f[k])]
<1>1. f \in Seq(STRING) /\ DOMAIN f = 1..Len(f) /\ Len(f) \in Nat
  BY SlowOperationsAssumption
<1>2. \A k \in DOMAIN f : f[k] \in Columns(t)
  BY DEF Columns, Range
<1>3. CASE f = <<>>
  BY <1>3 DEF VaultPlan
<1>4. CASE f # <<>>
  <2>1. VaultPlan(t) = head \o keys
    BY <1>4 DEF VaultPlan
  <2>2. \A k \in 1..Len(f) : keys[k] = Command("create_key", f[k])
    BY <1>1
  <2>3. keys \in Seq(AnyCommand) /\ Len(keys) = Len(f)
    <3>1. \A k \in 1..Len(f) : f[k] \in Column
      BY <1>1, <1>2 DEF Column
    <3>2. keys \in [1..Len(f) -> AnyCommand]
      BY <1>1, <3>1, CommandType
    <3> QED
      BY <1>1, <3>2, FunctionIsSeq
  <2>4. head \in Seq(AnyCommand) /\ Len(head) = 1 /\ head[1] = Command("index_vault", None)
    BY CommandType
  <2> HIDE DEF head, keys
  <2>5. /\ Len(head \o keys) = Len(f) + 1
        /\ (head \o keys)[1] = Command("index_vault", None)
        /\ \A n \in 2..Len(f) + 1 : (head \o keys)[n] = keys[n - 1]
    <3>1. /\ Len(head \o keys) = Len(head) + Len(keys)
          /\ \A n \in 1..Len(head) + Len(keys) :
               (head \o keys)[n] = IF n <= Len(head) THEN head[n] ELSE keys[n - Len(head)]
      BY <2>3, <2>4, ConcatProperties
    <3> QED
      BY <1>1, <2>3, <2>4, <3>1
  <2> SUFFICES ASSUME NEW n \in 1..Len(VaultPlan(t))
               PROVE  \/ VaultPlan(t)[n] = Command("index_vault", None)
                      \/ \E c \in Columns(t) : VaultPlan(t)[n] = Command("create_key", c)
    OBVIOUS
  <2>6. n = 1 \/ (n \in 2..Len(f) + 1 /\ n - 1 \in 1..Len(f))
    BY <1>1, <2>1, <2>5
  <2>7. CASE n = 1
    BY <2>1, <2>5, <2>7
  <2>8. CASE n \in 2..Len(f) + 1 /\ n - 1 \in 1..Len(f)
    <3>1. VaultPlan(t)[n] = Command("create_key", f[n - 1])
      BY <2>1, <2>2, <2>5, <2>8
    <3> QED
      BY <1>1, <1>2, <2>8, <3>1
  <2> QED
    BY <2>6, <2>7, <2>8
<1> QED
  BY <1>3, <1>4

LEMMA CommandIs ==
  ASSUME NEW do, NEW arg
  PROVE  Command(do, arg).do = do /\ Command(do, arg).arg = arg
BY DEF Command

LEMMA CreateModelFits ==
  ASSUME NEW o \in Operation, Follows(o), o.kind = "create_model"
  PROVE  /\ CommandsFit(Plan(o), o)
         /\ OnceEach(Plan(o))
         /\ CollectionComes(Plan(o), FALSE)
         /\ Pending(Plan(o), "create_collection", None)
         /\ \A i \in Range(o.indexes) : Pending(Plan(o), "await_ready", i)
<1> DEFINE p == Plan(o)
           indexes == o.indexes
           v == VaultPlan(o.table)
           a == AddIndexesPlan(indexes)
           at == Len(v) + 1
<1>1. /\ o.table \in Table
      /\ indexes \in Seq(Index)
      /\ \A j, k \in DOMAIN indexes : j # k => indexes[j] # indexes[k]
      /\ DOMAIN indexes = 1..Len(indexes) /\ Len(indexes) \in Nat
  BY SeqDef DEF Operation, SeqOf, Follows
<1>2. /\ Len(v) \in Nat /\ Len(a) \in Nat
      /\ Len(p) = Len(v) + 1 + Len(a)
      /\ \A n \in 1..Len(v) : p[n] = v[n]
      /\ p[at] = Command("create_collection", None)
      /\ \A n \in (Len(v) + 2)..Len(p) : p[n] = a[n - (Len(v) + 1)]
  BY CreateModelParts
<1>3. \A n \in 1..Len(v) :
        \/ v[n] = Command("index_vault", None)
        \/ \E c \in Columns(o.table) : v[n] = Command("create_key", c)
  BY <1>1, VaultPlanFits
<1>4. /\ Len(a) = 2 * Len(indexes)
      /\ \A n \in 1..Len(indexes) :
           /\ a[2 * n - 1] = Command("create_search_index", indexes[n])
           /\ a[2 * n] = Command("await_ready", indexes[n])
      /\ \A m \in 1..Len(a) : \E n \in 1..Len(indexes) : m = 2 * n - 1 \/ m = 2 * n
  BY <1>1, AddIndexesPlanIs
<1> HIDE DEF p, v, a, indexes
\* What the item n of the plan is.
<1>5. ASSUME NEW n \in 1..Len(p)
      PROVE  \/ n < at /\ p[n].do = "index_vault" /\ p[n].arg = None
             \/ n < at /\ p[n].do = "create_key" /\ p[n].arg \in Columns(o.table)
             \/ n = at /\ p[n].do = "create_collection" /\ p[n].arg = None
             \/ /\ n > at /\ p[n].do = "create_search_index"
                /\ \E k \in DOMAIN indexes : n = at + 2 * k - 1 /\ p[n].arg = indexes[k]
             \/ /\ n > at /\ p[n].do = "await_ready"
                /\ \E k \in DOMAIN indexes : n = at + 2 * k /\ p[n].arg = indexes[k]
  <2>1. CASE n < at
    <3>1. n \in 1..Len(v)
      BY <1>2, <2>1
    <3>2. p[n] = v[n]
      BY <1>2, <3>1
    <3>3. CASE v[n] = Command("index_vault", None)
      BY <2>1, <3>2, <3>3, CommandIs
    <3>4. CASE \E c \in Columns(o.table) : v[n] = Command("create_key", c)
      BY <2>1, <3>2, <3>4, CommandIs
    <3> QED
      BY <1>3, <3>1, <3>3, <3>4
  <2>2. CASE n = at
    BY <1>2, <2>2, CommandIs
  <2>3. CASE n > at
    <3>1. n \in (Len(v) + 2)..Len(p) /\ n - at \in 1..Len(a)
      BY <1>2, <2>3
    <3>2. p[n] = a[n - at]
      BY <1>2, <3>1
    <3>3. PICK k \in 1..Len(indexes) : n - at = 2 * k - 1 \/ n - at = 2 * k
      BY <1>4, <3>1
    <3>4. CASE n - at = 2 * k - 1
      <4>1. n = at + 2 * k - 1
        BY <1>2, <3>4
      <4>2. p[n] = Command("create_search_index", indexes[k])
        <5>1. a[2 * k - 1] = Command("create_search_index", indexes[k])
          BY <1>4
        <5> QED
          BY <3>2, <3>4, <5>1
      <4>3. p[n].do = "create_search_index" /\ p[n].arg = indexes[k]
        BY <4>2, CommandIs
      <4> QED
        BY <1>1, <2>3, <4>1, <4>3
    <3>5. CASE n - at = 2 * k
      <4>1. n = at + 2 * k
        BY <1>2, <3>5
      <4>2. p[n] = Command("await_ready", indexes[k])
        <5>1. a[2 * k] = Command("await_ready", indexes[k])
          BY <1>4
        <5> QED
          BY <3>2, <3>5, <5>1
      <4>3. p[n].do = "await_ready" /\ p[n].arg = indexes[k]
        BY <4>2, CommandIs
      <4> QED
        BY <1>1, <2>3, <4>1, <4>3
    <3> QED
      BY <3>3, <3>4, <3>5
  <2> QED
    BY <1>2, <2>1, <2>2, <2>3
<1>6. \A k \in DOMAIN indexes : indexes[k] \in Range(o.indexes)
  BY DEF Range, indexes
<1>7. CommandsFit(p, o)
  <2> SUFFICES ASSUME NEW n \in 1..Len(p)
               PROVE  Fits(p[n], o)
    BY DEF CommandsFit
  <2> QED
    BY <1>5, <1>6 DEF Fits, CommandsOf, OnIndexes
<1>8. OnceEach(p)
  <2> SUFFICES ASSUME NEW m \in 1..Len(p), NEW n \in 1..Len(p),
                      p[m].do \in Once, p[m].do = p[n].do, p[m].arg = p[n].arg
               PROVE  m = n
    BY DEF OnceEach
  <2>1. CASE p[m].do = "create_collection"
    <3>1. m = at /\ n = at
      BY <1>5, <2>1
    <3> QED
      BY <3>1
  <2>2. CASE p[m].do = "create_search_index"
    <3>1. PICK k \in DOMAIN indexes :
            m = at + 2 * k - 1 /\ p[m].arg = indexes[k]
      BY <1>5, <2>2
    <3>2. PICK l \in DOMAIN indexes :
            n = at + 2 * l - 1 /\ p[n].arg = indexes[l]
      BY <1>5, <2>2
    <3>3. indexes[k] = indexes[l]
      BY <3>1, <3>2
    <3>4. k = l
      BY <1>1, <3>3
    <3> QED
      BY <3>1, <3>2, <3>4
  <2>3. p[m].do # "drop_search_index"
    BY <1>5
  <2> QED
    BY <2>1, <2>2, <2>3 DEF Once
<1>9. at \in 1..Len(p) /\ p[at].do = "create_collection" /\ p[at].arg = None
  BY <1>2 DEF Command
<1>10. CollectionComes(p, FALSE)
  <2> SUFFICES ASSUME NEW n \in 1..Len(p), p[n].do = "create_search_index"
               PROVE  \E m \in 1..(n - 1) : p[m].do = "create_collection"
    BY DEF CollectionComes
  <2>1. n > at
    BY <1>5
  <2>2. at \in 1..(n - 1)
    BY <1>2, <2>1
  <2> QED
    BY <1>9, <2>2
<1>11. Pending(p, "create_collection", None)
  BY <1>9 DEF Pending
<1>12. ASSUME NEW i \in Range(o.indexes)
       PROVE  Pending(p, "await_ready", i)
  <2>1. PICK k \in 1..Len(indexes) : i = indexes[k]
    BY <1>1 DEF Range, indexes
  <2>2. at + 2 * k \in (Len(v) + 2)..Len(p) /\ (at + 2 * k) - (Len(v) + 1) = 2 * k
    BY <1>1, <1>2, <1>4, <2>1
  <2>3. p[at + 2 * k] = Command("await_ready", i)
    BY <1>2, <1>4, <2>1, <2>2
  <2>4. at + 2 * k \in 1..Len(p) /\ p[at + 2 * k].do = "await_ready" /\ p[at + 2 * k].arg = i
    BY <1>2, <2>2, <2>3 DEF Command
  <2> QED
    BY <2>4 DEF Pending
<1> QED
  BY <1>7, <1>8, <1>10, <1>11, <1>12 DEF p
-----------------------------------------------------------------------------
(* The commands keep SearchInv.                                            *)

LEMMA DoneStep ==
  ASSUME NEW t, Done(t), todo \in Seq(AnyCommand), todo # <<>>, CommandsFit(todo, op),
         todo' = Tail(todo), op' = op,
         op.kind = "create_model"
           /\ (collections[t] # None \/ Head(todo).do = "create_collection") =>
                collections'[t] # None,
         op.kind = "delete_model"
           /\ (collections[t] = None \/ Head(todo).do = "drop_collection") =>
                collections'[t] = None,
         \A i \in Range(op.indexes) :
           /\ Adds(op) /\ (\/ search[t][i] = "ready"
                           \/ Head(todo).do = "await_ready" /\ Head(todo).arg = i) =>
                search'[t][i] = "ready"
           /\ ~Adds(op) /\ (\/ search[t][i] = "absent"
                            \/ Head(todo).do = "await_dropped" /\ Head(todo).arg = i) =>
                search'[t][i] = "absent"
  PROVE  Done(t)'
<1>1. \A do, arg : Pending(todo, do, arg) =>
        Pending(todo', do, arg) \/ (Head(todo).do = do /\ Head(todo).arg = arg)
  BY TailPending
<1>2. ASSUME op.kind = "create_model", ~Pending(todo', "create_collection", None)
      PROVE  collections'[t] # None
  BY <1>1, <1>2 DEF Done
<1>3. ASSUME op.kind = "delete_model", ~Pending(todo', "drop_collection", None)
      PROVE  collections'[t] = None
  BY <1>1, <1>3 DEF Done
<1>4. ASSUME NEW i \in Range(op.indexes), Adds(op), ~Pending(todo', "await_ready", i)
      PROVE  search'[t][i] = "ready"
  BY <1>1, <1>4 DEF Done
<1>5. ASSUME NEW i \in Range(op.indexes), ~Adds(op), ~Pending(todo', "await_dropped", i)
      PROVE  search'[t][i] = "absent"
  BY <1>1, <1>5 DEF Done
<1> QED
  BY <1>2, <1>3, <1>4, <1>5 DEF Done

LEMMA UntouchedStep ==
  ASSUME NEW t, Untouched(t), todo \in Seq(AnyCommand), todo # <<>>,
         todo' = Tail(todo),
         collections[t] # None \/ Head(todo).do = "create_collection" => collections'[t] # None,
         collections[t] = None /\ Head(todo).do # "create_collection" => collections'[t] = None,
         Head(todo).do = "create_collection" => Head(todo).arg = None,
         \A i \in Index :
           /\ search[t][i] = "absent"
                /\ ~(Head(todo).do = "create_search_index" /\ Head(todo).arg = i) =>
                search'[t][i] = "absent"
           /\ search[t][i] = "ready"
                /\ ~(Head(todo).do = "drop_search_index" /\ Head(todo).arg = i) =>
                search'[t][i] = "ready"
  PROVE  Untouched(t)'
<1>1. \A do, arg : Pending(todo', do, arg) => Pending(todo, do, arg)
  BY TailPending
<1>2. /\ OnceEach(todo')
      /\ Head(todo).do \in Once => ~Pending(todo', Head(todo).do, Head(todo).arg)
  BY TailOnce DEF Untouched
<1>3. CollectionComes(todo', collections'[t] # None)
  <2>1. (collections[t] # None) \in BOOLEAN /\ (collections'[t] # None) \in BOOLEAN
    OBVIOUS
  <2>2. CollectionComes(todo, collections[t] # None)
    BY DEF Untouched
  <2> QED
    BY <2>1, <2>2, TailCollection
<1>4. ASSUME Pending(todo', "create_collection", None)
      PROVE  collections'[t] = None
  <2>1. collections[t] = None
    BY <1>1, <1>4 DEF Untouched
  <2>2. Head(todo).do # "create_collection"
    BY <1>2, <1>4 DEF Once
  <2> QED
    BY <2>1, <2>2
<1>5. ASSUME NEW i \in Index, Pending(todo', "create_search_index", i)
      PROVE  search'[t][i] = "absent"
  <2>1. search[t][i] = "absent"
    BY <1>1, <1>5 DEF Untouched
  <2>2. ~(Head(todo).do = "create_search_index" /\ Head(todo).arg = i)
    BY <1>2, <1>5 DEF Once
  <2> QED
    BY <2>1, <2>2
<1>6. ASSUME NEW i \in Index, Pending(todo', "drop_search_index", i)
      PROVE  search'[t][i] = "ready"
  <2>1. search[t][i] = "ready"
    BY <1>1, <1>6 DEF Untouched
  <2>2. ~(Head(todo).do = "drop_search_index" /\ Head(todo).arg = i)
    BY <1>2, <1>6 DEF Once
  <2> QED
    BY <2>1, <2>2
<1> QED
  BY <1>2, <1>3, <1>4, <1>5, <1>6 DEF Untouched

\* A step of the operation that runs, given what it makes of its model.
LEMMA CommandStep ==
  ASSUME SearchInv, phase = "running", todo # <<>>, todo' = Tail(todo),
         UNCHANGED <<models, phase, op, error>>,
         search' \in [Table -> [Index -> Status]],
         \A t \in Table : ~Changing(t) =>
           search'[t] = search[t] /\ (collections'[t] = None <=> collections[t] = None),
         ~op.dry => Underway(op.table)' /\ Done(op.table)',
         ~op.dry /\ ~op.again => Untouched(op.table)'
  PROVE  SearchInv'
<1>1. RunInv /\ phase' = "running" /\ op \in Operation /\ Follows(op) /\ op # None
  BY DEF SearchInv
<1>2. RunInv'
  <2>1. todo' \in Seq(AnyCommand)
    BY <1>1, TailCommands DEF RunInv
  <2>2. CommandsFit(todo', op)
    BY <1>1, TailFits DEF RunInv
  <2> QED
    BY <2>1, <2>2 DEF RunInv
<1>3. Follows(op)'
  BY <1>1 DEF Follows
<1>4. SearchMatchesModels'
  <2> SUFFICES ASSUME NEW t \in Table, ~Changing(t)'
               PROVE  /\ models'[t] = None <=> collections'[t] = None
                      /\ \A i \in Index :
                           search'[t][i] = IF models'[t] # None /\ i \in models'[t]
                                           THEN "ready" ELSE "absent"
    BY DEF SearchMatchesModels
  <2>1. ~Changing(t) /\ models' = models
    BY DEF Changing
  <2> QED
    BY <2>1 DEF SearchInv, SearchMatchesModels
<1>5. FirstRunsRefusedForKeysOnly'
  BY <1>1 DEF FirstRunsRefusedForKeysOnly
<1> QED
  BY <1>1, <1>2, <1>3, <1>4, <1>5 DEF SearchInv

\* Commands that leave the model's collection and indexes alone, and all
\* commands that are only collected.
LEMMA OtherCommandSearch ==
  ASSUME SearchInv, phase = "running", todo # <<>>, todo' = Tail(todo),
         UNCHANGED <<models, phase, op, error, search, collections>>,
         ~op.dry =>
           /\ Head(todo).do \notin {"create_collection", "drop_collection"}
           /\ Head(todo).do = "await_ready" => search[op.table][Head(todo).arg] = "ready"
           /\ Head(todo).do = "await_dropped" => search[op.table][Head(todo).arg] = "absent"
  PROVE  SearchInv'
<1>1. RunInv /\ op \in Operation /\ search \in [Table -> [Index -> Status]]
  BY DEF SearchInv
<1>2. ASSUME ~op.dry PROVE Underway(op.table)' /\ Done(op.table)'
  <2>1. Underway(op.table) /\ Done(op.table)
    BY <1>1, <1>2 DEF SearchInv, RunInv
  <2>2. Underway(op.table)'
    BY <2>1 DEF Underway
  <2>3. Done(op.table)'
    BY <1>1, <1>2, <2>1, DoneStep DEF RunInv
  <2> QED
    BY <2>2, <2>3
<1>3. ASSUME ~op.dry, ~op.again PROVE Untouched(op.table)'
  BY <1>1, <1>3, UntouchedStep DEF RunInv
<1> QED
  BY <1>1, <1>2, <1>3, CommandStep

LEMMA FitsIs ==
  ASSUME NEW command, NEW o \in Operation, Fits(command, o)
  PROVE  /\ command.do = "create_collection" => o.kind = "create_model" /\ command.arg = None
         /\ command.do = "drop_collection" => o.kind = "delete_model" /\ command.arg = None
         /\ command.do = "create_key" => command.arg \in Columns(o.table)
         /\ command.do \in {"create_search_index", "await_ready"} =>
              Adds(o) /\ command.arg \in Range(o.indexes)
         /\ command.do \in {"drop_search_index", "await_dropped"} =>
              o.kind = "remove_index" /\ command.arg \in Range(o.indexes)
<1>1. o.kind \in {"create_model", "delete_model", "add_index", "remove_index"}
  BY DEF Operation
<1> QED
  BY <1>1 DEF Fits, CommandsOf, OnIndexes, Adds

\* What the first command is about.
LEMMA HeadIs ==
  ASSUME SearchInv, phase = "running", todo # <<>>
  PROVE  /\ op \in Operation /\ op.table \in Table /\ op # None /\ Follows(op)
         /\ Range(op.indexes) \subseteq Index
         /\ todo \in Seq(AnyCommand) /\ Fits(Head(todo), op)
         /\ search \in [Table -> [Index -> Status]]
         /\ ~op.dry => Underway(op.table) /\ Done(op.table)
         /\ ~op.dry /\ ~op.again => Untouched(op.table)
         /\ Pending(todo, Head(todo).do, Head(todo).arg)
<1>1. RunInv /\ op \in Operation /\ Follows(op) /\ op # None
  BY DEF SearchInv
<1>2. op.table \in Table /\ op.indexes \in Seq(Index)
  BY <1>1, SeqDef DEF Operation, SeqOf
<1>3. Range(op.indexes) \subseteq Index
  BY <1>2 DEF Range
<1>4. Fits(Head(todo), op) /\ Pending(todo, Head(todo).do, Head(todo).arg)
  BY <1>1, TailFits, TailPending DEF RunInv
<1> QED
  BY <1>1, <1>2, <1>3, <1>4 DEF SearchInv, RunInv

\* Only the model of the operation changes.
LEMMA OthersAlone ==
  ASSUME NEW t \in Table, op # None, ~op.dry, ~Changing(t)
  PROVE  t # op.table
BY DEF Changing

LEMMA CreateCollectionSearch ==
  ASSUME SearchInv, CreateCollection, data_keys # None,
         collections = [t \in Table |-> collections[t]]
  PROVE  SearchInv'
<1> DEFINE t == op.table
<1>1. /\ phase = "running" /\ todo # <<>> /\ Head(todo).do = "create_collection"
      /\ ~op.dry /\ todo' = Tail(todo)
      /\ UNCHANGED <<models, phase, op, error, search>>
      /\ collections' = [collections EXCEPT ![t] = data_keys]
  BY DEF CreateCollection, At, Proceed
<1>2. /\ op \in Operation /\ t \in Table /\ op # None /\ Follows(op)
      /\ todo \in Seq(AnyCommand) /\ Fits(Head(todo), op)
      /\ search \in [Table -> [Index -> Status]]
      /\ Underway(t) /\ Done(t) /\ (~op.again => Untouched(t))
  BY <1>1, HeadIs
<1>3. op.kind = "create_model" /\ Head(todo).arg = None /\ models[t] = None
  BY <1>1, <1>2, FitsIs DEF Follows
<1>4. collections'[t] # None /\ \A u \in Table : u # t => collections'[u] = collections[u]
  BY <1>1, <1>2
<1>5. Underway(t)'
  BY <1>1, <1>3, <1>4, <1>2 DEF Underway
<1>6. Done(t)'
  <2>1. CommandsFit(todo, op)
    BY <1>1 DEF SearchInv, RunInv
  <2> QED
    BY <1>1, <1>2, <1>3, <1>4, <2>1, DoneStep
<1>7. ~op.again => Untouched(t)'
  BY <1>1, <1>2, <1>3, <1>4, UntouchedStep
<1>8. \A u \in Table : ~Changing(u) =>
        search'[u] = search[u] /\ (collections'[u] = None <=> collections[u] = None)
  BY <1>1, <1>2, <1>4, OthersAlone
<1> QED
  BY <1>1, <1>2, <1>5, <1>6, <1>7, <1>8, CommandStep

LEMMA DropCollectionSearch ==
  ASSUME SearchInv, DropCollection, collections = [t \in Table |-> collections[t]]
  PROVE  SearchInv'
<1> DEFINE t == op.table
<1>1. /\ phase = "running" /\ todo # <<>> /\ Head(todo).do = "drop_collection"
      /\ ~op.dry /\ todo' = Tail(todo)
      /\ UNCHANGED <<models, phase, op, error>>
      /\ collections' = [collections EXCEPT ![t] = None]
      /\ search' = [search EXCEPT ![t] = [i \in Index |-> "absent"]]
  BY DEF DropCollection, At, Proceed
<1>2. /\ op \in Operation /\ t \in Table /\ op # None /\ Follows(op)
      /\ todo \in Seq(AnyCommand) /\ Fits(Head(todo), op)
      /\ search \in [Table -> [Index -> Status]]
      /\ Underway(t) /\ Done(t) /\ (~op.again => Untouched(t))
  BY <1>1, HeadIs
<1>3. op.kind = "delete_model" /\ Range(op.indexes) = {}
  <2>1. op.kind = "delete_model" /\ op.indexes = <<>>
    BY <1>1, <1>2, FitsIs DEF Follows
  <2> QED
    BY <2>1 DEF Range
<1>4. /\ collections'[t] = None
      /\ \A i \in Index : search'[t][i] = "absent"
      /\ \A u \in Table : u # t => collections'[u] = collections[u] /\ search'[u] = search[u]
      /\ search' \in [Table -> [Index -> Status]]
  BY <1>1, <1>2 DEF Status
<1>5. Underway(t)'
  BY <1>1, <1>3, <1>4 DEF Underway
<1>6. CommandsFit(todo, op)
  BY <1>1 DEF SearchInv, RunInv
<1>7. Done(t)'
  BY <1>1, <1>2, <1>3, <1>4, <1>6, DoneStep
<1>8. ~op.again => Untouched(t)'
  <2> SUFFICES ASSUME ~op.again PROVE Untouched(t)'
    OBVIOUS
  <2>1. OnceEach(todo')
    BY <1>1, <1>2, TailOnce DEF Untouched
  <2>2. \A n \in 1..Len(todo') : todo'[n].do = "drop_collection"
    BY <1>1, <1>2, <1>3, <1>6, TailFits DEF CommandsFit, Fits, CommandsOf
  <2> QED
    BY <1>1, <2>1, <2>2 DEF Untouched, CollectionComes, Pending
<1>9. \A u \in Table : ~Changing(u) =>
        search'[u] = search[u] /\ (collections'[u] = None <=> collections[u] = None)
  BY <1>1, <1>2, <1>4, OthersAlone
<1> QED
  BY <1>1, <1>4, <1>5, <1>7, <1>8, <1>9, CommandStep

LEMMA CreateSearchIndexSearch ==
  ASSUME SearchInv, CreateSearchIndex
  PROVE  SearchInv'
<1> DEFINE t == op.table
           i == Head(todo).arg
<1>1. /\ phase = "running" /\ todo # <<>> /\ Head(todo).do = "create_search_index"
      /\ ~op.dry /\ todo' = Tail(todo)
      /\ UNCHANGED <<models, phase, op, error, collections>>
      /\ search' = [search EXCEPT ![t][i] = "building"]
      /\ search[t][i] = "absent" /\ collections[t] # None
  BY DEF CreateSearchIndex, At, Proceed, SetSearch, OnlySearch
<1>2. /\ op \in Operation /\ t \in Table /\ op # None /\ Follows(op)
      /\ todo \in Seq(AnyCommand) /\ Fits(Head(todo), op)
      /\ Range(op.indexes) \subseteq Index
      /\ search \in [Table -> [Index -> Status]]
      /\ Underway(t) /\ Done(t) /\ (~op.again => Untouched(t))
  BY <1>1, HeadIs
<1>3. Adds(op) /\ i \in Range(op.indexes) /\ i \in Index
  BY <1>1, <1>2, FitsIs
<1>4. /\ search'[t][i] = "building"
      /\ \A j \in Index : j # i => search'[t][j] = search[t][j]
      /\ \A u \in Table : u # t => search'[u] = search[u]
      /\ search' \in [Table -> [Index -> Status]]
  <2> HIDE DEF i
  <2> QED
    BY <1>1, <1>2, <1>3 DEF Status
<1>5. Underway(t)'
  <2>1. \A j \in Range(op.indexes) : search'[t][j] \in {"absent", "building", "ready", "failed"}
    BY <1>2, <1>3, <1>4 DEF Underway
  <2>2. \A j \in Index \ Range(op.indexes) : search'[t][j] = search[t][j]
    BY <1>3, <1>4
  <2> QED
    BY <1>1, <1>2, <1>3, <2>1, <2>2 DEF Underway
<1>6. Done(t)'
  <2>1. CommandsFit(todo, op) /\ ~(Adds(op) /\ op.kind = "delete_model")
    BY <1>1 DEF SearchInv, RunInv, Adds
  <2> QED
    BY <1>1, <1>2, <1>3, <1>4, <2>1, DoneStep
<1>7. ~op.again => Untouched(t)'
  BY <1>1, <1>2, <1>4, UntouchedStep
<1>8. \A u \in Table : ~Changing(u) =>
        search'[u] = search[u] /\ (collections'[u] = None <=> collections[u] = None)
  BY <1>1, <1>2, <1>4, OthersAlone
<1> QED
  BY <1>1, <1>4, <1>5, <1>6, <1>7, <1>8, CommandStep

LEMMA DropSearchIndexSearch ==
  ASSUME SearchInv, DropSearchIndex
  PROVE  SearchInv'
<1> DEFINE t == op.table
           i == Head(todo).arg
<1>1. /\ phase = "running" /\ todo # <<>> /\ Head(todo).do = "drop_search_index"
      /\ ~op.dry /\ todo' = Tail(todo)
      /\ UNCHANGED <<models, phase, op, error, collections>>
      /\ search' = [search EXCEPT ![t][i] = "deleting"]
      /\ search[t][i] # "absent"
  BY DEF DropSearchIndex, At, Proceed, SetSearch, OnlySearch
<1>2. /\ op \in Operation /\ t \in Table /\ op # None /\ Follows(op)
      /\ todo \in Seq(AnyCommand) /\ Fits(Head(todo), op)
      /\ Range(op.indexes) \subseteq Index
      /\ search \in [Table -> [Index -> Status]]
      /\ Underway(t) /\ Done(t) /\ (~op.again => Untouched(t))
  BY <1>1, HeadIs
<1>3. ~Adds(op) /\ op.kind = "remove_index" /\ i \in Range(op.indexes) /\ i \in Index
  BY <1>1, <1>2, FitsIs DEF Adds
<1>4. /\ search'[t][i] = "deleting"
      /\ \A j \in Index : j # i => search'[t][j] = search[t][j]
      /\ \A u \in Table : u # t => search'[u] = search[u]
      /\ search' \in [Table -> [Index -> Status]]
  <2> HIDE DEF i
  <2> QED
    BY <1>1, <1>2, <1>3 DEF Status
<1>5. Underway(t)'
  <2>1. \A j \in Range(op.indexes) : search'[t][j] \in {"absent", "deleting", "ready"}
    BY <1>2, <1>3, <1>4 DEF Underway
  <2>2. \A j \in Index \ Range(op.indexes) : search'[t][j] = search[t][j]
    BY <1>3, <1>4
  <2> QED
    BY <1>1, <1>2, <1>3, <2>1, <2>2 DEF Underway
<1>6. Done(t)'
  <2>1. CommandsFit(todo, op)
    BY <1>1 DEF SearchInv, RunInv
  <2> QED
    BY <1>1, <1>2, <1>3, <1>4, <2>1, DoneStep
<1>7. ~op.again => Untouched(t)'
  BY <1>1, <1>2, <1>4, UntouchedStep
<1>8. \A u \in Table : ~Changing(u) =>
        search'[u] = search[u] /\ (collections'[u] = None <=> collections[u] = None)
  BY <1>1, <1>2, <1>4, OthersAlone
<1> QED
  BY <1>1, <1>4, <1>5, <1>6, <1>7, <1>8, CommandStep

LEMMA SameSearch ==
  ASSUME SearchInv, UNCHANGED <<models, collections, search, phase, op, todo, error>>
  PROVE  SearchInv'
<1>1. phase # "idle" => Follows(op)'
  BY DEF SearchInv, Follows
<1>2. phase # "idle" /\ ~op.dry => Underway(op.table)'
  BY DEF SearchInv, Underway
<1>3. phase = "running" => RunInv'
  BY DEF SearchInv, RunInv, Done, Untouched
<1>4. SearchMatchesModels' /\ FirstRunsRefusedForKeysOnly'
  BY DEF SearchInv, SearchMatchesModels, Changing, FirstRunsRefusedForKeysOnly
<1> QED
  BY <1>1, <1>2, <1>3, <1>4 DEF SearchInv

LEMMA PollSearch ==
  ASSUME SearchInv, Poll
  PROVE  SearchInv'
<1>1. /\ phase = "running" /\ todo # <<>> /\ ~op.dry
      /\ Head(todo).do \in {"await_ready", "await_dropped"}
      /\ UNCHANGED <<models, phase, op, error, collections, search>>
      /\ (Reached /\ todo' = Tail(todo)) \/ todo' = todo
  BY DEF Poll, Waiting, At, database
<1>2. CASE Reached /\ todo' = Tail(todo)
  <2>1. /\ Head(todo).do = "await_ready" => search[op.table][Head(todo).arg] = "ready"
        /\ Head(todo).do = "await_dropped" => search[op.table][Head(todo).arg] = "absent"
    BY <1>2 DEF Reached, ReadyStatus
  <2> QED
    BY <1>1, <1>2, <2>1, OtherCommandSearch
<1>3. CASE todo' = todo
  BY <1>1, <1>3, SameSearch
<1> QED
  BY <1>1, <1>2, <1>3

\* The first run is refused only for keys.
LEMMA FailSearch ==
  ASSUME SearchInv, phase = "running", NEW e, Fail(e), UNCHANGED database,
         ~op.again => e \in {"key exists", "stopped", "timeout", "TypeError"}
  PROVE  SearchInv'
<1>1. /\ phase' = "failed" /\ error' = e
      /\ UNCHANGED <<models, op, collections, search>>
  BY DEF Fail, database
<1>2. op # None /\ op \in Operation /\ Follows(op) /\ (~op.dry => Underway(op.table))
  BY DEF SearchInv
<1>3. Follows(op)' /\ (~op.dry => Underway(op.table)')
  BY <1>1, <1>2 DEF Follows, Underway
<1>4. SearchMatchesModels'
  BY <1>1 DEF SearchInv, SearchMatchesModels, Changing
<1>5. FirstRunsRefusedForKeysOnly'
  BY <1>1 DEF FirstRunsRefusedForKeysOnly
<1> QED
  BY <1>1, <1>2, <1>3, <1>4, <1>5 DEF SearchInv

LEMMA CollectionRefusedAgain ==
  ASSUME SearchInv, CollectionRefused
  PROVE  op.again
<1>1. /\ phase = "running" /\ todo # <<>> /\ Head(todo).do = "create_collection"
      /\ ~op.dry /\ collections[op.table] # None
  BY DEF CollectionRefused, At
<1>2. Fits(Head(todo), op) /\ op \in Operation /\ (~op.again => Untouched(op.table))
      /\ Pending(todo, Head(todo).do, Head(todo).arg)
  BY <1>1, HeadIs
<1>3. Pending(todo, "create_collection", None)
  BY <1>1, <1>2, FitsIs
<1> QED
  BY <1>1, <1>2, <1>3 DEF Untouched

LEMMA IndexRefusedAgain ==
  ASSUME SearchInv, CreateSearchIndexRefused \/ DropSearchIndexRefused
  PROVE  op.again
<1> DEFINE i == Head(todo).arg
<1>1. /\ phase = "running" /\ todo # <<>> /\ ~op.dry
      /\ Head(todo).do \in {"create_search_index", "drop_search_index"}
      /\ Head(todo).do = "create_search_index" =>
           collections[op.table] = None \/ search[op.table][i] # "absent"
      /\ Head(todo).do = "drop_search_index" => search[op.table][i] \in {"absent", "deleting"}
  BY DEF CreateSearchIndexRefused, DropSearchIndexRefused, At
<1>2. /\ Fits(Head(todo), op) /\ op \in Operation /\ (~op.again => Untouched(op.table))
      /\ Range(op.indexes) \subseteq Index /\ todo \in Seq(AnyCommand)
      /\ Pending(todo, Head(todo).do, i)
  BY <1>1, HeadIs
<1>3. i \in Index
  BY <1>1, <1>2, FitsIs
<1>4. ASSUME ~op.again, Head(todo).do = "create_search_index" PROVE FALSE
  <2>1. collections[op.table] # None
    <3>1. 1 \in 1..Len(todo) /\ todo[1].do = "create_search_index"
      BY <1>1, <1>2, <1>4, TailCommands
    <3> QED
      BY <1>2, <1>4, <3>1 DEF Untouched, CollectionComes
  <2> QED
    BY <1>1, <1>2, <1>3, <1>4, <2>1 DEF Untouched
<1>5. ASSUME ~op.again, Head(todo).do = "drop_search_index" PROVE FALSE
  BY <1>1, <1>2, <1>3, <1>5 DEF Untouched
<1> QED
  BY <1>1, <1>4, <1>5, <1>2 DEF Operation

\* The server builds or drops an index of the model of the operation.
LEMMA ServerSearch ==
  ASSUME SearchInv, NEW t \in Table, NEW i \in Index, Built(t, i) \/ Dropped(t, i)
  PROVE  SearchInv'
<1>1. /\ UNCHANGED <<models, collections, phase, op, todo, error>>
      /\ search \in [Table -> [Index -> Status]]
      /\ \/ /\ search[t][i] = "building"
            /\ \E status \in {"ready", "failed"} :
                 search' = [search EXCEPT ![t][i] = status]
         \/ search[t][i] = "deleting" /\ search' = [search EXCEPT ![t][i] = "absent"]
  BY DEF Built, Dropped, editor, SearchInv
<1>2. /\ \/ search[t][i] = "building" /\ search'[t][i] \in {"ready", "failed"}
         \/ search[t][i] = "deleting" /\ search'[t][i] = "absent"
      /\ \A j \in Index : j # i => search'[t][j] = search[t][j]
      /\ \A u \in Table : u # t => search'[u] = search[u]
      /\ search' \in [Table -> [Index -> Status]]
  BY <1>1 DEF Status
\* Elsewhere no index is being built or dropped.
<1>3. Changing(t)
  BY <1>2 DEF SearchInv, SearchMatchesModels
<1>4. op # None /\ ~op.dry /\ t = op.table /\ phase # "idle" /\ op \in Operation
  BY <1>3 DEF Changing, SearchInv
<1>5. Underway(t) /\ Follows(op)
  BY <1>4 DEF SearchInv
<1>6. /\ i \in Range(op.indexes)
      /\ collections[t] = None => op.kind # "create_model"
      /\ Adds(op) <=> search[t][i] = "building"
  BY <1>2, <1>5 DEF Underway
<1>7. Underway(t)'
  <2>1. \A j \in Range(op.indexes) :
          search'[t][j] \in IF Adds(op) THEN {"absent", "building", "ready", "failed"}
                            ELSE {"absent", "deleting", "ready"}
    <3> SUFFICES ASSUME NEW j \in Range(op.indexes)
                 PROVE  search'[t][j] \in IF Adds(op)
                                          THEN {"absent", "building", "ready", "failed"}
                                          ELSE {"absent", "deleting", "ready"}
      OBVIOUS
    <3>1. j \in Index
      BY <1>4, SeqDef DEF Operation, SeqOf, Range
    <3> QED
      BY <1>2, <1>5, <1>6, <3>1 DEF Underway
  <2>2. \A j \in Index \ Range(op.indexes) : search'[t][j] = search[t][j]
    BY <1>2, <1>6
  <2> QED
    BY <1>1, <1>5, <1>6, <2>1, <2>2 DEF Underway
<1>8. Follows(op)'
  BY <1>1, <1>5 DEF Follows
<1>9. ASSUME phase = "running" PROVE RunInv'
  <2>1. RunInv /\ Done(t) /\ (~op.again => Untouched(t))
    BY <1>4, <1>9 DEF SearchInv, RunInv
  <2>2. Done(t)'
    <3>1. \A j \in Range(op.indexes) : j \in Index
      BY <1>4, SeqDef DEF Operation, SeqOf, Range
    <3> QED
      BY <1>1, <1>2, <2>1, <3>1 DEF Done
  <2>3. ~op.again => Untouched(t)'
    BY <1>1, <1>2, <2>1 DEF Untouched
  <2> QED
    BY <1>1, <1>4, <2>1, <2>2, <2>3 DEF RunInv
<1>10. SearchMatchesModels'
  <2> SUFFICES ASSUME NEW u \in Table, ~Changing(u)
               PROVE  /\ models[u] = None <=> collections[u] = None
                      /\ \A j \in Index :
                           search'[u][j] = IF models[u] # None /\ j \in models[u]
                                           THEN "ready" ELSE "absent"
    BY <1>1 DEF SearchMatchesModels, Changing
  <2>1. search'[u] = search[u]
    BY <1>2, <1>3
  <2> QED
    BY <2>1 DEF SearchInv, SearchMatchesModels
<1>11. FirstRunsRefusedForKeysOnly'
  BY <1>1 DEF SearchInv, FirstRunsRefusedForKeysOnly
<1> QED
  BY <1>1, <1>2, <1>4, <1>7, <1>8, <1>9, <1>10, <1>11 DEF SearchInv

LEMMA RunSearch ==
  ASSUME SearchInv, NEW o \in Operation, Follows(o), Run(o),
         ~o.dry => Underway(o.table)',
         \A t \in Table : Changing(t) => Changing(t)',
         ~o.dry /\ ~o.again =>
           \A i \in Index :
             search[o.table][i] =
               IF models[o.table] # None /\ i \in models[o.table] THEN "ready" ELSE "absent",
         ~o.dry /\ ~o.again => (models[o.table] = None <=> collections[o.table] = None)
  PROVE  SearchInv'
<1>1. /\ phase' = "running" /\ op' = o /\ todo' = Plan(o) /\ error' = None
      /\ UNCHANGED <<models, collections, search>>
  BY DEF Run, database
<1>2. /\ o.table \in Table /\ o.indexes \in Seq(Index)
      /\ o.kind \in {"create_model", "delete_model", "add_index", "remove_index"}
  BY SeqDef DEF Operation, SeqOf
<1>3. OneIndex(o)
  BY DEF Follows, OneIndex
<1>4. Plan(o) \in Seq(AnyCommand)
  BY <1>3, PlanStarts
<1>5. CommandsFit(Plan(o), o) /\ OnceEach(Plan(o))
  BY CreateModelFits, ShortPlanFits
<1>6. Done(o.table)'
  BY <1>1, CreateModelFits, ShortPlanFits DEF Done, Adds
<1>7. ASSUME ~o.dry, ~o.again PROVE Untouched(o.table)'
  <2>1. CollectionComes(Plan(o), collections[o.table] # None)
    <3>1. CASE o.kind = "create_model"
      BY <3>1, CreateModelFits DEF CollectionComes
    <3>2. CASE o.kind # "create_model"
      <4>1. collections[o.table] # None
        BY <1>2, <1>7, <3>2 DEF Follows
      <4> QED
        BY <4>1 DEF CollectionComes
    <3> QED
      BY <3>1, <3>2
  <2>2. ASSUME Pending(Plan(o), "create_collection", None) PROVE collections[o.table] = None
    <3>1. o.kind = "create_model"
      BY <1>5, <2>2, FitsIs DEF CommandsFit, Pending
    <3> QED
      BY <1>2, <1>7, <3>1 DEF Follows
  <2>3. ASSUME NEW i \in Index, Pending(Plan(o), "create_search_index", i)
        PROVE  search[o.table][i] = "absent"
    <3>1. Adds(o) /\ i \in Range(o.indexes)
      BY <1>5, <2>3, FitsIs DEF CommandsFit, Pending
    <3>2. o.kind = "create_model" => models[o.table] = None
      BY DEF Follows
    <3>3. o.kind = "add_index" => i \notin models[o.table]
      <4> SUFFICES ASSUME o.kind = "add_index" PROVE i \notin models[o.table]
        OBVIOUS
      <4>1. DOMAIN o.indexes = 1..1 /\ o.indexes[1] \notin models[o.table]
        BY <1>2 DEF Follows
      <4> QED
        BY <3>1, <4>1 DEF Range
    <3> QED
      BY <1>7, <3>1, <3>2, <3>3 DEF Adds
  <2>4. ASSUME NEW i \in Index, Pending(Plan(o), "drop_search_index", i)
        PROVE  search[o.table][i] = "ready"
    <3>1. o.kind = "remove_index" /\ i \in Range(o.indexes)
      BY <1>5, <2>4, FitsIs DEF CommandsFit, Pending
    <3>2. DOMAIN o.indexes = 1..1 /\ o.indexes[1] \in models[o.table] /\ models[o.table] # None
      BY <1>2, <3>1 DEF Follows
    <3>3. i = o.indexes[1]
      BY <3>1, <3>2 DEF Range
    <3> QED
      BY <1>7, <3>2, <3>3
  <2> QED
    BY <1>1, <1>5, <2>1, <2>2, <2>3, <2>4 DEF Untouched
<1>8. RunInv'
  BY <1>1, <1>4, <1>5, <1>6, <1>7 DEF RunInv
<1>9. Follows(o)'
  BY <1>1 DEF Follows
<1>10. SearchMatchesModels'
  BY <1>1 DEF SearchInv, SearchMatchesModels
<1>11. o # None
  BY NoneAssumption
<1> QED
  BY <1>1, <1>8, <1>9, <1>10, <1>11 DEF SearchInv, FirstRunsRefusedForKeysOnly

LEMMA StartSearch ==
  ASSUME SearchInv, Start
  PROVE  SearchInv'
<1>1. PICK o \in Operation : Follows(o) /\ ~o.again /\ Run(o)
  BY DEF Start
<1> DEFINE t == o.table
<1>2. t \in Table /\ \A u \in Table : ~Changing(u)
  BY DEF Start, SearchInv, Changing, Operation
<1>3. /\ models[t] = None <=> collections[t] = None
      /\ \A i \in Index : search[t][i] = IF models[t] # None /\ i \in models[t] THEN "ready"
                                         ELSE "absent"
  BY <1>2 DEF SearchInv, SearchMatchesModels
<1>4. op' = o /\ UNCHANGED <<models, collections, search>>
  BY <1>1 DEF Run, database
<1>5. o.kind \in {"create_model", "delete_model", "add_index", "remove_index"}
  BY DEF Operation
<1>6. Underway(t)'
  <2>1. \A i \in Range(o.indexes) :
          search[t][i] \in IF Adds(o) THEN {"absent", "building", "ready", "failed"}
                           ELSE {"absent", "deleting", "ready"}
    <3>1. \A i \in Range(o.indexes) : i \in Index
      BY SeqDef DEF Operation, SeqOf, Range
    <3> QED
      BY <1>3, <3>1
  <2>2. o.kind \in {"add_index", "remove_index"} => collections[t] # None
    BY <1>1, <1>3, <1>5 DEF Follows
  <2>3. collections[t] = None => \A i \in Index : search[t][i] = "absent"
    BY <1>3
  <2>4. \A i \in Index \ Range(o.indexes) :
          search[t][i] = IF models[t] # None /\ i \in models[t] /\ collections[t] # None
                         THEN "ready" ELSE "absent"
    BY <1>3
  <2> HIDE DEF t
  <2> QED
    BY <1>4, <2>1, <2>2, <2>3, <2>4 DEF Underway
<1> QED
  BY <1>1, <1>2, <1>3, <1>6, RunSearch

LEMMA RunAgainSearch ==
  ASSUME SearchInv, RunAgain
  PROVE  SearchInv'
<1>1. /\ phase = "failed" /\ ~op.dry /\ Run([op EXCEPT !.again = TRUE])
      /\ op \in Operation /\ Follows(op) /\ Underway(op.table)
  BY DEF RunAgain, SearchInv
<1>2. PICK o \in Operation : o = [op EXCEPT !.again = TRUE]
  BY <1>1 DEF Operation
<1>3. /\ Run(o) /\ o.kind = op.kind /\ o.indexes = op.indexes /\ o.table = op.table
      /\ o.again /\ ~o.dry
  BY <1>1, <1>2 DEF Operation
<1>4. op' = o /\ UNCHANGED <<models, collections, search>>
  BY <1>3 DEF Run, database
<1>5. Follows(o)
  BY <1>1, <1>3 DEF Follows
<1>6. Underway(o.table)'
  <2>1. op'.kind = op.kind /\ op'.indexes = op.indexes /\ (Adds(op') <=> Adds(op))
    BY <1>4, <1>3 DEF Adds
  <2> QED
    BY <1>1, <1>4, <1>3, <2>1 DEF Underway
<1>7. o # None
  BY NoneAssumption
<1>8. \A t \in Table : Changing(t) => Changing(t)'
  BY <1>4, <1>7, <1>3 DEF Changing
<1> QED
  BY <1>1, <1>5, <1>6, <1>8, <1>3, RunSearch

\* What an operation that returned leaves is what is recorded.
LEMMA FinishSearch ==
  ASSUME SearchInv, Finish
  PROVE  SearchInv'
<1> DEFINE t == op.table
<1>1. /\ phase = "running" /\ todo = <<>> /\ phase' = "idle" /\ op' = None /\ error' = None
      /\ models' = IF op.dry THEN models ELSE [models EXCEPT ![t] = Recorded(op)]
      /\ UNCHANGED <<collections, search>>
  BY DEF Finish, Leave, database
<1>2. /\ op \in Operation /\ t \in Table /\ op.indexes \in Seq(Index) /\ Follows(op)
      /\ op.kind \in {"create_model", "delete_model", "add_index", "remove_index"}
      /\ op # None
      /\ models \in [Table -> {None} \cup SUBSET Index]
  BY <1>1, SeqDef DEF SearchInv, Operation, SeqOf
<1>3. Range(op.indexes) \subseteq Index
  BY <1>2 DEF Range
<1>4. Recorded(op) \in {None} \cup SUBSET Index
  <2>1. op.kind \in {"add_index", "remove_index"} => models[t] \in SUBSET Index
    BY <1>2 DEF Follows
  <2> QED
    BY <1>2, <1>3, <2>1 DEF Recorded
<1>5. models' \in [Table -> {None} \cup SUBSET Index]
  BY <1>1, <1>2, <1>4
<1>6. \A u \in Table : ~Changing(u) => models'[u] = models[u]
  BY <1>1, <1>2, OthersAlone
<1>7. ASSUME ~op.dry
      PROVE  /\ Recorded(op) = None <=> collections[t] = None
             /\ \A i \in Index :
                  search[t][i] = IF Recorded(op) # None /\ i \in Recorded(op) THEN "ready"
                                 ELSE "absent"
  <2>1. Underway(t) /\ Done(t)
    BY <1>1, <1>7 DEF SearchInv, RunInv
  <2>2. \A do, arg : ~Pending(todo, do, arg)
    BY <1>1 DEF Pending
  <2>3. /\ op.kind = "create_model" => collections[t] # None
        /\ op.kind = "delete_model" => collections[t] = None
        /\ \A i \in Range(op.indexes) :
             search[t][i] = IF Adds(op) THEN "ready" ELSE "absent"
    BY <2>1, <2>2 DEF Done
  <2>4. CASE op.kind = "create_model"
    <3>1. Recorded(op) = Range(op.indexes) /\ Recorded(op) # None /\ models[t] = None
      BY <1>2, <1>3, <2>4, NoneAssumption DEF Recorded, Follows
    <3> QED
      BY <2>1, <2>3, <2>4, <3>1 DEF Underway, Adds
  <2>5. CASE op.kind = "delete_model"
    <3>1. Recorded(op) = None /\ Range(op.indexes) = {}
      BY <1>2, <2>5 DEF Recorded, Follows, Range
    <3> QED
      BY <2>1, <2>3, <2>5, <3>1 DEF Underway
  <2>6. CASE op.kind = "add_index"
    <3>1. /\ Recorded(op) = models[t] \cup Range(op.indexes) /\ models[t] # None
          /\ Recorded(op) # None
      BY <1>2, <1>4, <1>3, <2>6, NoneAssumption DEF Recorded, Follows
    <3> QED
      BY <2>1, <2>3, <2>6, <3>1 DEF Underway, Adds
  <2>7. CASE op.kind = "remove_index"
    <3>1. /\ Recorded(op) = models[t] \ Range(op.indexes) /\ models[t] # None
          /\ Recorded(op) # None
      BY <1>2, <1>4, <1>3, <2>7, NoneAssumption DEF Recorded, Follows
    <3> QED
      BY <2>1, <2>3, <2>7, <3>1 DEF Underway, Adds
  <2> QED
    BY <1>2, <2>4, <2>5, <2>6, <2>7
<1>8. SearchMatchesModels'
  <2> SUFFICES ASSUME NEW u \in Table
               PROVE  /\ models'[u] = None <=> collections[u] = None
                      /\ \A i \in Index :
                           search[u][i] = IF models'[u] # None /\ i \in models'[u] THEN "ready"
                                          ELSE "absent"
    BY <1>1 DEF SearchMatchesModels
  <2>1. CASE Changing(u)
    <3>1. u = t /\ ~op.dry
      BY <2>1 DEF Changing
    <3>2. models'[u] = Recorded(op)
      BY <1>1, <1>2, <3>1
    <3> QED
      BY <1>7, <3>1, <3>2
  <2>2. CASE ~Changing(u)
    BY <1>6, <2>2 DEF SearchInv, SearchMatchesModels
  <2> QED
    BY <2>1, <2>2
<1> QED
  BY <1>1, <1>5, <1>8 DEF SearchInv, FirstRunsRefusedForKeysOnly

\* sqlmigrate changed no model.
LEMMA GiveUpSearch ==
  ASSUME SearchInv, GiveUp
  PROVE  SearchInv'
<1>1. /\ phase' = "idle" /\ op' = None /\ op.dry
      /\ UNCHANGED <<models, collections, search>>
  BY DEF GiveUp, Leave, database
<1>2. SearchMatchesModels'
  BY <1>1 DEF SearchInv, SearchMatchesModels, Changing
<1> QED
  BY <1>1, <1>2 DEF SearchInv, FirstRunsRefusedForKeysOnly

LEMMA SearchInit == Init => SearchInv
BY DEF Init, SearchInv, Status, SearchMatchesModels, Changing, FirstRunsRefusedForKeysOnly

LEMMA SearchStep ==
  ASSUME KeysInv, SearchInv, [Next]_vars, CreateCollection => data_keys # None
  PROVE  SearchInv'
<1>1. CASE UNCHANGED vars
  BY <1>1, SameSearch DEF vars, database, editor
<1>2. CASE Start
  BY <1>2, StartSearch
<1>3. CASE RunAgain
  BY <1>3, RunAgainSearch
<1>4. CASE Finish
  BY <1>4, FinishSearch
<1>5. CASE GiveUp
  BY <1>5, GiveUpSearch
<1>6. CASE Stop \/ KeyRefused \/ WaitTimesOut \/ WaitOfCollector
  <2>1. PICK e \in {"key exists", "stopped", "timeout", "TypeError"} :
          Fail(e) /\ UNCHANGED database
    BY <1>6 DEF Stop, KeyRefused, WaitTimesOut, WaitOfCollector
  <2>2. phase = "running"
    BY <1>6 DEF Stop, KeyRefused, WaitTimesOut, WaitOfCollector, Waiting, At
  <2> QED
    BY <2>1, <2>2, FailSearch
<1>7. CASE CollectionRefused \/ CreateSearchIndexRefused \/ DropSearchIndexRefused
  <2>1. PICK e : Fail(e) /\ UNCHANGED database
    BY <1>7 DEF CollectionRefused, CreateSearchIndexRefused, DropSearchIndexRefused
  <2>2. phase = "running"
    BY <1>7 DEF CollectionRefused, CreateSearchIndexRefused, DropSearchIndexRefused, At
  <2>3. op.again
    BY <1>7, CollectionRefusedAgain, IndexRefusedAgain
  <2> QED
    BY <2>1, <2>2, <2>3, FailSearch
<1>8. CASE Collect \/ IndexVault \/ CreateDataKey \/ CreateSearchIndexAgain
  <2>1. /\ phase = "running" /\ todo # <<>> /\ todo' = Tail(todo)
        /\ UNCHANGED <<models, phase, op, error, search, collections>>
        /\ op.dry \/ Head(todo).do \in {"index_vault", "create_key", "create_search_index"}
    BY <1>8 DEF Collect, IndexVault, CreateDataKey, CreateSearchIndexAgain, At, Proceed,
                database
  <2> QED
    BY <2>1, OtherCommandSearch
<1>9. CASE CreateCollection
  BY <1>9, CreateCollectionSearch DEF KeysInv
<1>10. CASE DropCollection
  BY <1>10, DropCollectionSearch DEF KeysInv
<1>11. CASE CreateSearchIndex
  BY <1>11, CreateSearchIndexSearch
<1>12. CASE DropSearchIndex
  BY <1>12, DropSearchIndexSearch
<1>13. CASE Poll
  BY <1>13, PollSearch
<1>14. CASE \E t \in Table : DeleteKeys(t)
  BY <1>14, SameSearch DEF DeleteKeys, editor
<1>15. CASE \E t \in Table, i \in Index : Built(t, i) \/ Dropped(t, i)
  BY <1>15, ServerSearch
<1> QED
  BY <1>1, <1>2, <1>3, <1>4, <1>5, <1>6, <1>7, <1>8, <1>9, <1>10, <1>11, <1>12,
     <1>13, <1>14, <1>15 DEF Next, Editor
-----------------------------------------------------------------------------
(* Types, and the identities of keys.                                      *)

LEMMA ColumnsFinite == IsFiniteSet(Table \X Column)
<1>1. \A t \in Table : IsFiniteSet(Columns(t))
  <2> SUFFICES ASSUME NEW t \in Table PROVE IsFiniteSet(Columns(t))
    OBVIOUS
  <2> DEFINE f == EncryptedFields[t]
  <2>1. f \in Seq(STRING) /\ DOMAIN f = 1..Len(f) /\ Len(f) \in Nat
    BY SlowOperationsAssumption
  <2>2. IsFiniteSet(DOMAIN f)
    <3>1. \A b \in Nat : IsFiniteSet(1..b)
      BY FS_Interval
    <3> QED
      BY <2>1, <3>1
  <2>3. Columns(t) = {f[k] : k \in DOMAIN f}
    BY DEF Columns, Range
  <2>4. f \in Surjection(DOMAIN f, Columns(t))
    BY <2>1, <2>3 DEF Surjection
  <2> QED
    BY <2>2, <2>4, FS_Surjection
<1> DEFINE all == {Columns(t) : t \in Table}
           g == [t \in Table |-> Columns(t)]
<1>2. IsFiniteSet(all)
  <2>1. g \in Surjection(Table, all)
    BY DEF Surjection
  <2> QED
    BY <2>1, FS_Surjection, FiniteAssumption
<1>3. IsFiniteSet(Column)
  <2>1. \A S \in all : IsFiniteSet(S)
    BY <1>1
  <2>2. Column = UNION all
    BY DEF Column
  <2> HIDE DEF all
  <2> QED
    BY <1>2, <2>1, <2>2, FS_UNION
<1> QED
  BY <1>3, FiniteAssumption, FS_Product

\* A key for every identity above MaxKeys, of a name of its own: identities
\* stay within Key.
LEMMA IdsBounded ==
  ASSUME VaultInv, IdsInv
  PROVE  vault \subseteq Key
<1> DEFINE N == Table \X Column
           ids == (MaxKeys + 1)..(next_key - 1)
           key == [id \in ids |-> CHOOSE k \in vault : k.id = id]
           f == [id \in ids |-> key[id].name]
<1>1. next_key \in Nat \ {0} /\ MaxKeys \in Nat
  BY SlowOperationsAssumption DEF IdsInv
<1>2. \A id \in ids : key[id] \in vault /\ key[id].id = id
  BY DEF IdsInv
<1>3. \A k \in vault : k.name \in N /\ k.id \in 1..(next_key - 1)
  BY DEF IdsInv
<1>4. f \in Injection(ids, N)
  <2>1. f \in [ids -> N]
    BY <1>2, <1>3
  <2>2. ASSUME NEW a \in ids, NEW b \in ids, f[a] = f[b] PROVE a = b
    <3> HIDE DEF key
    <3> QED
      BY <1>2, <2>2 DEF VaultInv
  <2> HIDE DEF f
  <2> QED
    BY <2>1, <2>2 DEF Injection, IsInjective
<1>5. IsFiniteSet(N) /\ Cardinality(N) \in Nat
  BY ColumnsFinite, FS_CardinalityType
<1>6. Cardinality(ids) <= Cardinality(N)
  <2> HIDE DEF f, ids, N
  <2> QED
    BY <1>4, <1>5, FS_Injection
<1>7. Cardinality(ids) = IF MaxKeys + 1 > next_key - 1 THEN 0 ELSE next_key - 1 - MaxKeys
  BY <1>1, FS_Interval
<1>8. next_key - 1 <= MaxKeys + Cardinality(N)
  <2> HIDE DEF N, ids
  <2> QED
    BY <1>1, <1>5, <1>6, <1>7
<1>9. \A id \in 1..(next_key - 1) : id \in 1..MaxKeys + Cardinality(N)
  <2> HIDE DEF N
  <2> QED
    BY <1>1, <1>5, <1>8
<1> SUFFICES ASSUME NEW k \in vault PROVE k \in Key
  OBVIOUS
<1>10. k \in [name : N, id : 1..(next_key - 1)]
  BY DEF IdsInv
<1>11. Key = [name : N, id : 1..MaxKeys + Cardinality(N)]
  BY DEF Key
<1> HIDE DEF N
<1> QED
  BY <1>9, <1>10, <1>11

\* The keys of the columns of the operation's model are complete when its
\* collection is made.
LEMMA KeysComplete ==
  ASSUME KeysInv, IdsInv, CreateCollection
  PROVE  data_keys \in [Columns(op.table) -> Nat] /\ data_keys # None
<1>1. /\ PlanInv /\ phase = "running" /\ todo # <<>> /\ Head(todo).do = "create_collection"
      /\ todo \in Seq(AnyCommand) /\ op.table \in Table
  BY DEF KeysInv, PlanInv, CreateCollection, At
<1>2. Columns(op.table) \subseteq DOMAIN data_keys
  <2>1. 1 \in 1..Len(todo) /\ todo[1].do = "create_collection"
    BY <1>1, TailCommands
  <2> QED
    BY <1>1, <2>1 DEF PlanInv, KeysMade
<1>3. data_keys \in [Columns(op.table) -> Nat]
  BY <1>1, <1>2 DEF IdsInv
<1> QED
  BY <1>1, <1>3, NoneAssumption DEF Columns

\* A key has its column's name and a new identity.
LEMMA CreateDataKeyIds ==
  ASSUME SearchInv, IdsInv, CreateDataKey
  PROVE  IdsInv'
<1> DEFINE column == Head(todo).arg
           t == op.table
           key == [name |-> <<t, column>>, id |-> next_key]
           keys == [c \in DOMAIN data_keys \cup {column} |->
                      IF c = column THEN next_key ELSE data_keys[c]]
<1>1. /\ phase = "running" /\ todo # <<>> /\ Head(todo).do = "create_key"
      /\ vault' = vault \cup {key} /\ next_key' = next_key + 1 /\ data_keys' = keys
      /\ UNCHANGED <<phase, op>>
  BY DEF CreateDataKey, At, Proceed
<1>2. op \in Operation /\ t \in Table /\ Fits(Head(todo), op)
  BY <1>1, HeadIs
<1>3. column \in Columns(t) /\ column \in Column
  BY <1>1, <1>2, FitsIs DEF Column
<1>4. next_key \in Nat \ {0} /\ next_key' \in Nat \ {0} /\ MaxKeys \in Nat
  BY <1>1, SlowOperationsAssumption DEF IdsInv
<1>5. vault' \subseteq [name : Table \X Column, id : 1..(next_key' - 1)]
  <2>1. key \in [name : Table \X Column, id : 1..(next_key' - 1)]
    BY <1>1, <1>2, <1>3, <1>4
  <2>2. 1..(next_key - 1) \subseteq 1..(next_key' - 1)
    BY <1>1, <1>4
  <2>3. vault \subseteq [name : Table \X Column, id : 1..(next_key' - 1)]
    <3> SUFFICES ASSUME NEW k \in vault
                 PROVE  k \in [name : Table \X Column, id : 1..(next_key' - 1)]
      OBVIOUS
    <3>1. k \in [name : Table \X Column, id : 1..(next_key - 1)]
      BY DEF IdsInv
    <3> QED
      BY <2>2, <3>1
  <2> HIDE DEF key
  <2> QED
    BY <1>1, <2>1, <2>3
<1>6. ASSUME NEW id \in (MaxKeys + 1)..(next_key' - 1) PROVE \E k \in vault' : k.id = id
  <2>1. CASE id = next_key
    <3>1. key.id = id /\ key \in vault'
      BY <1>1, <2>1
    <3> QED
      BY <3>1
  <2>2. CASE id # next_key
    <3>1. id \in (MaxKeys + 1)..(next_key - 1)
      BY <1>1, <1>4, <2>2
    <3> HIDE DEF key
    <3> QED
      BY <1>1, <3>1 DEF IdsInv
  <2> QED
    BY <2>1, <2>2
<1>7. keys \in [DOMAIN keys -> Nat] /\ DOMAIN keys \subseteq Columns(t)
  <2>1. data_keys \in [DOMAIN data_keys -> Nat] /\ DOMAIN data_keys \subseteq Columns(t)
    BY <1>1 DEF IdsInv
  <2>2. \A c \in DOMAIN data_keys : data_keys[c] \in Nat
    BY <2>1
  <2> HIDE DEF column
  <2> QED
    BY <1>3, <1>4, <2>1, <2>2
<1> QED
  BY <1>1, <1>4, <1>5, <1>6, <1>7 DEF IdsInv

LEMMA IdsStep ==
  ASSUME SearchInv, IdsInv, [Next]_vars
  PROVE  IdsInv'
<1>1. CASE CreateDataKey
  BY <1>1, CreateDataKeyIds
<1>2. CASE \E t \in Table : DeleteKeys(t)
  <2>1. PICK t \in Table : DeleteKeys(t)
    BY <1>2
  <2>2. /\ next_key <= MaxKeys /\ vault' \subseteq vault
        /\ UNCHANGED <<next_key, phase, op, data_keys>>
    BY <2>1 DEF DeleteKeys, editor
  <2>3. next_key \in Nat \ {0} /\ MaxKeys \in Nat
    BY SlowOperationsAssumption DEF IdsInv
  <2>4. (MaxKeys + 1)..(next_key' - 1) = {}
    BY <2>2, <2>3
  <2> QED
    BY <2>2, <2>4 DEF IdsInv
<1>3. CASE Start \/ RunAgain
  <2>1. PICK o : Run(o)
    BY <1>3 DEF Start, RunAgain
  <2>2. data_keys' = <<>> /\ UNCHANGED <<vault, next_key>>
    BY <2>1 DEF Run, database
  <2>3. data_keys' \in [DOMAIN data_keys' -> Nat] /\ DOMAIN data_keys' = {}
    BY <2>2
  <2> QED
    BY <2>2, <2>3 DEF IdsInv
<1>4. CASE /\ UNCHANGED <<vault, next_key>>
           /\ phase' = "running" => UNCHANGED <<phase, op, data_keys>>
  BY <1>4 DEF IdsInv
<1>5. CASE UNCHANGED vars
  BY <1>4, <1>5 DEF vars, database, editor
<1>6. CASE Finish \/ GiveUp
  BY <1>4, <1>6 DEF Finish, GiveUp, Leave, database
<1>7. CASE \/ Stop \/ KeyRefused \/ WaitTimesOut \/ WaitOfCollector
           \/ CollectionRefused \/ CreateSearchIndexRefused \/ DropSearchIndexRefused
  <2>1. PICK e : Fail(e) /\ UNCHANGED database
    BY <1>7 DEF Stop, KeyRefused, WaitTimesOut, WaitOfCollector, CollectionRefused,
                CreateSearchIndexRefused, DropSearchIndexRefused
  <2> QED
    BY <1>4, <2>1 DEF Fail, database
<1>8. CASE Collect \/ IndexVault \/ CreateSearchIndexAgain \/ CreateCollection
             \/ DropCollection \/ CreateSearchIndex \/ DropSearchIndex
  BY <1>4, <1>8 DEF Collect, IndexVault, CreateSearchIndexAgain, CreateCollection,
                    DropCollection, CreateSearchIndex, DropSearchIndex, Proceed, OnlySearch,
                    database
<1>9. CASE Poll
  BY <1>4, <1>9 DEF Poll, database
<1>10. CASE \E t \in Table, i \in Index : Built(t, i) \/ Dropped(t, i)
  BY <1>4, <1>10 DEF Built, Dropped, editor
<1> QED
  BY <1>1, <1>2, <1>3, <1>5, <1>6, <1>7, <1>8, <1>9, <1>10 DEF Next, Editor

\* The rest of the types.
TypesInv ==
  /\ \A t \in Table : collections[t] = None \/ DOMAIN collections[t] = Columns(t)
  /\ error # None <=> phase = "failed"
  /\ polls \in 0..MaxPolls

LEMMA TypesStep ==
  ASSUME KeysInv, SearchInv, IdsInv, TypesInv, [Next]_vars
  PROVE  TypesInv'
<1>1. \A e \in Error : e # None
  BY NoneAssumption
<1>2. MaxPolls \in Nat /\ 0 \in 0..MaxPolls
  BY SlowOperationsAssumption
<1>3. CASE CreateCollection
  <2>1. /\ collections' = [collections EXCEPT ![op.table] = data_keys]
        /\ UNCHANGED <<error, phase, polls>>
    BY <1>3 DEF CreateCollection, Proceed
  <2>2. DOMAIN data_keys = Columns(op.table) /\ collections = [t \in Table |-> collections[t]]
    BY <1>3, KeysComplete DEF KeysInv
  <2> QED
    BY <2>1, <2>2 DEF TypesInv
<1>4. CASE DropCollection
  <2>1. /\ collections' = [collections EXCEPT ![op.table] = None]
        /\ UNCHANGED <<error, phase, polls>>
    BY <1>4 DEF DropCollection, Proceed
  <2>2. collections = [t \in Table |-> collections[t]]
    BY DEF KeysInv
  <2> QED
    BY <2>1, <2>2 DEF TypesInv
<1>5. CASE Start \/ RunAgain
  <2>1. PICK o : Run(o)
    BY <1>5 DEF Start, RunAgain
  <2>2. phase' = "running" /\ polls' = 0 /\ error' = None /\ UNCHANGED collections
    BY <2>1 DEF Run, database
  <2> QED
    BY <1>2, <2>2 DEF TypesInv
<1>6. CASE Finish \/ GiveUp
  <2>1. phase' = "idle" /\ error' = None /\ UNCHANGED <<collections, polls>>
    BY <1>6 DEF Finish, GiveUp, Leave, database
  <2> QED
    BY <2>1 DEF TypesInv
<1>7. CASE \/ Stop \/ KeyRefused \/ WaitTimesOut \/ WaitOfCollector
           \/ CollectionRefused \/ CreateSearchIndexRefused \/ DropSearchIndexRefused
  <2>1. PICK e \in Error : Fail(e) /\ UNCHANGED database
    BY <1>7 DEF Stop, KeyRefused, WaitTimesOut, WaitOfCollector, CollectionRefused,
                CreateSearchIndexRefused, DropSearchIndexRefused, Error
  <2>2. phase' = "failed" /\ error' # None /\ UNCHANGED <<collections, polls>>
    BY <1>1, <2>1 DEF Fail, database
  <2> QED
    BY <2>2 DEF TypesInv
<1>8. CASE UNCHANGED <<collections, error, phase, polls>>
  BY <1>8 DEF TypesInv
<1>9. CASE UNCHANGED vars
  BY <1>8, <1>9 DEF vars, database, editor
<1>10. CASE Collect \/ IndexVault \/ CreateDataKey \/ CreateSearchIndexAgain
              \/ CreateSearchIndex \/ DropSearchIndex
  BY <1>8, <1>10 DEF Collect, IndexVault, CreateDataKey, CreateSearchIndexAgain,
                     CreateSearchIndex, DropSearchIndex, Proceed, OnlySearch, database
<1>11. CASE Poll
  <2>1. /\ UNCHANGED <<collections, error, phase>> /\ polls < MaxPolls
        /\ polls' = 0 \/ polls' = polls + 1
    BY <1>11 DEF Poll, Waited, database
  <2>2. polls' \in 0..MaxPolls
    BY <1>2, <2>1 DEF TypesInv
  <2> QED
    BY <2>1, <2>2 DEF TypesInv
<1>12. CASE \E t \in Table : DeleteKeys(t)
  BY <1>8, <1>12 DEF DeleteKeys, editor
<1>13. CASE \E t \in Table, i \in Index : Built(t, i) \/ Dropped(t, i)
  BY <1>8, <1>13 DEF Built, Dropped, editor
<1> QED
  BY <1>3, <1>4, <1>5, <1>6, <1>7, <1>9, <1>10, <1>11, <1>12, <1>13 DEF Next, Editor
-----------------------------------------------------------------------------
(* The invariant and what it implies.                                      *)

ServerInv == KeysInv /\ SearchInv /\ IdsInv /\ TypesInv

LEMMA ServerInit == Init => ServerInv
<1> SUFFICES ASSUME Init PROVE ServerInv
  OBVIOUS
<1>1. KeysInv /\ SearchInv
  BY KeysInit, SearchInit
<1>2. IdsInv
  <2>1. next_key = 1 /\ vault = {} /\ phase = "idle" /\ MaxKeys \in Nat
    BY SlowOperationsAssumption DEF Init
  <2>2. (MaxKeys + 1)..(next_key - 1) = {}
    BY <2>1
  <2> QED
    BY <2>1, <2>2 DEF IdsInv
<1>3. TypesInv
  <2>1. collections = [t \in Table |-> None] /\ phase = "idle" /\ error = None /\ polls = 0
    BY DEF Init
  <2> QED
    BY <2>1, SlowOperationsAssumption DEF TypesInv
<1> QED
  BY <1>1, <1>2, <1>3 DEF ServerInv

LEMMA ServerStep == ServerInv /\ [Next]_vars => ServerInv'
<1> SUFFICES ASSUME ServerInv, [Next]_vars PROVE ServerInv'
  OBVIOUS
<1>1. KeysInv'
  BY KeysStep DEF ServerInv
<1>2. SearchInv'
  BY SearchStep, KeysComplete DEF ServerInv
<1>3. IdsInv'
  BY IdsStep DEF ServerInv
<1>4. TypesInv'
  BY TypesStep DEF ServerInv
<1> QED
  BY <1>1, <1>2, <1>3, <1>4 DEF ServerInv

LEMMA ServerTypes == ServerInv => TypeOK
<1> SUFFICES ASSUME ServerInv PROVE TypeOK
  OBVIOUS
<1>1. vault \subseteq Key
  BY IdsBounded DEF ServerInv, KeysInv
<1>2. \A t \in Table : models[t] = None \/ models[t] \subseteq Index
  BY DEF ServerInv, SearchInv
<1> QED
  BY <1>1, <1>2 DEF ServerInv, SearchInv, TypesInv, TypeOK

\* The types of the editor's and the server's state, with the bound on the
\* identities of keys: a key that is not deleted has a name of its own.
THEOREM SlowTypesCorrect == Spec => []TypeOK
<1>1. Init => ServerInv
  BY ServerInit
<1>2. ServerInv /\ [Next]_vars => ServerInv'
  BY ServerStep
<1>3. ServerInv => TypeOK
  BY ServerTypes
<1> QED
  BY <1>1, <1>2, <1>3, PTL DEF Spec

\* Whatever the models and their indexes, the waits that timed out, the
\* operations that stopped between two commands and the runs that began again:
\* when no operation on a model is under way or failed, the server has exactly
\* the model's collection and search indexes, all of them ready, because
\* add_index() and remove_index() wait for the server (schema.py 341-367).
THEOREM SearchMatchesModelsCorrect == Spec => []SearchMatchesModels
<1>1. Init => ServerInv
  BY ServerInit
<1>2. ServerInv /\ [Next]_vars => ServerInv'
  BY ServerStep
<1>3. ServerInv => SearchMatchesModels
  BY DEF ServerInv, SearchInv
<1> QED
  BY <1>1, <1>2, <1>3, PTL DEF Spec

\* The server refuses the first run of an operation only because of keys left
\* in the vault: what remains to do on a first run was never done.
THEOREM FirstRunsRefusedCorrect == Spec => []FirstRunsRefusedForKeysOnly
<1>1. Init => ServerInv
  BY ServerInit
<1>2. ServerInv /\ [Next]_vars => ServerInv'
  BY ServerStep
<1>3. ServerInv => FirstRunsRefusedForKeysOnly
  BY DEF ServerInv, SearchInv
<1> QED
  BY <1>1, <1>2, <1>3, PTL DEF Spec

\* While an operation runs, the editor's commands shorten its plan or its wait,
\* and nothing else lengthens them.
Advances ==
  phase = "running" /\ phase' = "running" =>
    IF Editor
    THEN \/ Len(todo') < Len(todo)
         \/ todo' = todo /\ polls < polls' /\ polls' <= MaxPolls
    ELSE UNCHANGED <<todo, polls>>

LEMMA EditorAdvances ==
  ASSUME ServerInv, Editor, phase' = "running"
  PROVE  Len(todo') < Len(todo) \/ (todo' = todo /\ polls < polls' /\ polls' <= MaxPolls)
<1>1. phase = "running"
  BY DEF Editor, Collect, IndexVault, CreateDataKey, KeyRefused, CreateCollection,
         CollectionRefused, DropCollection, CreateSearchIndex, CreateSearchIndexAgain,
         CreateSearchIndexRefused, DropSearchIndex, DropSearchIndexRefused, Poll, Waiting,
         WaitTimesOut, WaitOfCollector, Finish, At
<1>2. todo \in Seq(AnyCommand) /\ polls \in 0..MaxPolls /\ MaxPolls \in Nat
  BY <1>1, SlowOperationsAssumption DEF ServerInv, SearchInv, RunInv, TypesInv
<1>3. todo # <<>> => Len(Tail(todo)) < Len(todo)
  BY <1>2, TailCommands
<1>4. CASE todo # <<>> /\ todo' = Tail(todo)
  BY <1>3, <1>4
<1>5. CASE Poll
  <2>1. CASE Reached
    BY <1>4, <1>5, <2>1 DEF Poll, Waiting, At
  <2>2. CASE ~Reached
    <3>1. polls < MaxPolls /\ polls' = polls + 1 /\ todo' = todo
      BY <1>5, <2>2 DEF Poll, Waited
    <3> QED
      BY <1>2, <3>1
  <2> QED
    BY <2>1, <2>2
<1>6. CASE Collect \/ IndexVault \/ CreateDataKey \/ CreateCollection \/ DropCollection
  BY <1>4, <1>6 DEF Collect, IndexVault, CreateDataKey, CreateCollection, DropCollection, At,
                    Proceed
<1>7. CASE CreateSearchIndex \/ CreateSearchIndexAgain \/ DropSearchIndex
  BY <1>4, <1>7 DEF CreateSearchIndex, CreateSearchIndexAgain, DropSearchIndex, At, Proceed
<1>8. CASE \/ KeyRefused \/ CollectionRefused \/ CreateSearchIndexRefused
           \/ DropSearchIndexRefused \/ WaitTimesOut \/ WaitOfCollector \/ Finish
  BY <1>8 DEF KeyRefused, CollectionRefused, CreateSearchIndexRefused,
              DropSearchIndexRefused, WaitTimesOut, WaitOfCollector, Fail, Finish, Leave
<1> QED
  BY <1>5, <1>6, <1>7, <1>8 DEF Editor

\* The safety half of "every operation ends": a run has a variant, the length
\* of its plan and then the polls left to its wait, that every command of the
\* editor makes smaller, however slow the server is (schema.py 341-367).  That
\* the editor goes on taking steps is the fairness TLC assumes.
THEOREM OperationAdvances == Spec => [][Advances]_vars
<1>1. Init => ServerInv
  BY ServerInit
<1>2. ServerInv /\ [Next]_vars => ServerInv'
  BY ServerStep
<1>3. ServerInv /\ [Next]_vars => [Advances]_vars
  <2> SUFFICES ASSUME ServerInv, Next PROVE Advances
    OBVIOUS
  <2>1. CASE Editor
    BY <2>1, EditorAdvances DEF Advances
  <2>2. CASE ~Editor
    <3>1. CASE Start \/ RunAgain \/ GiveUp
      BY <3>1 DEF Start, RunAgain, GiveUp, Advances
    <3>2. CASE Stop
      BY <3>2 DEF Stop, Fail, Advances
    <3>3. CASE \E t \in Table : DeleteKeys(t)
      BY <2>2, <3>3 DEF DeleteKeys, editor, Advances
    <3>4. CASE \E t \in Table, i \in Index : Built(t, i) \/ Dropped(t, i)
      BY <2>2, <3>4 DEF Built, Dropped, editor, Advances
    <3> QED
      BY <2>2, <3>1, <3>2, <3>3, <3>4 DEF Next
  <2> QED
    BY <2>1, <2>2
<1> QED
  BY <1>1, <1>2, <1>3, PTL DEF Spec
=============================================================================
