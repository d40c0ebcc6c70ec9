-------------------------- MODULE SchemaIndexProofs --------------------------
(***************************************************************************)
(* The indexes that the migration operations of SchemaEditor leave, for    *)
(* any fields, columns and projects without quirks, wherever the operations *)
(* are interrupted and however often they are run again.                    *)
(***************************************************************************)
EXTENDS SchemaEditorProofs

\* What the histories of a project need besides Quirks = {}: an entry of *_together
\* names several fields, and, as Django's checks demand, the entries of Meta have names
\* of their own.  They may name one field or several, with a condition or without, and
\* those a key, an entry of *_together or another entry of Meta is on.
Separate(p) ==
  /\ \A s \in p.together : Len(s) >= 2
  /\ \A x, y \in p.meta : x.name = y.name => x = y

\* An index apart from the name its collection had when it was made.
Timed == {"index", "unique", "together"}

TimelessName(n) == IF n[1] \in Timed THEN <<n[1], n[3]>> ELSE n

Timeless(x) == MongoIndex(TimelessName(x.name), x.paths, x.unique, x.filter, x.geo)

Call(m) == {Timeless(x) : x \in IndexesOf(m)}

TableOf(m) == IF m = None THEN None ELSE m.table

OnCollection == {"create_collection", "drop_collection", "rename_collection"}

\* The command looks for this index, in an operation that leads from one model to
\* another one.
Hits(c, from, to, o) ==
  \/ /\ c.do = "remove_field_index"
     /\ o.paths = <<<<c.arg>>>>
     /\ o.name \notin MetaIndexNames(from)
  \/ /\ c.do = "remove_field_unique"
     /\ o.paths = <<<<c.arg>>>>
     /\ o.unique = TRUE
     /\ o.name \notin MetaConstraintNames(from)
  \/ /\ c.do = "remove_together"
     /\ o.paths = Paths(to, c.arg.names)
     /\ o.unique = c.arg.unique
     /\ o.name \notin MetaConstraintNames(to) \cup MetaIndexNames(to)
  \/ c.do = "drop_index" /\ o.name = c.arg

\* No command of these occurs twice.
OnceIn(s, A) == \A i, j \in DOMAIN s : s[i] = s[j] /\ s[i].do \in A => i = j

Alike(x, y) ==
  x.paths = y.paths /\ x.unique = y.unique /\ x.filter = y.filter /\ x.geo = y.geo

\* The server tells these indexes apart, by the name and by the rest.
Told(S) == \A x, y \in S : x.name = y.name \/ Alike(x, y) => x = y

IsIndex(x) == \E n, p, u, f, g : x = MongoIndex(n, p, u, f, g)

Creates(c, n) == c.do = "create_index" /\ Timeless(c.arg) = n

\* A plan makes the indexes the new model calls for,
MakesNew(old, new, plan) ==
  /\ \A c \in Range(plan) : c.do = "create_index" =>
       IsIndex(c.arg) /\ Timeless(c.arg) \in new \ old
  /\ \A n \in new \ old : \E c \in Range(plan) : Creates(c, n)
  /\ \A c, d \in Range(plan) :
       c.do = "create_index" /\ Creates(d, Timeless(c.arg)) => c = d

\* drops those it does not, each by one command that finds this one,
DropsOld(from, to, plan) ==
  LET old == Call(from)
      new == Call(to)
  IN /\ \A o \in old \ new : \E c \in Range(plan) :
          Hits(c, from, to, o) \/ c.do = "drop_collection"
     /\ \A c \in Range(plan) : c.do \in Drops =>
          /\ \E o \in old : Hits(c, from, to, o)
          /\ \A o, k \in old : Hits(c, from, to, o) /\ Hits(c, from, to, k) => o = k
          /\ \A o \in old : Hits(c, from, to, o) => o \notin new
     /\ \A c \in Range(plan) : c.do = "drop_index" =>
          c.arg[1] \notin Timed /\ \A n \in new : ~Hits(c, from, to, n)
     /\ \A c, d \in Range(plan), o \in old :
          Hits(c, from, to, o) /\ Hits(d, from, to, o) => c = d

\* and brings the collection to its name.
MovesCollection(from, to, plan) ==
  /\ \A c \in Range(plan) :
       /\ c.do = "create_collection" => from = None /\ c.arg = TableOf(to)
       /\ c.do = "rename_collection" =>
            c.arg = [from |-> TableOf(from), to |-> TableOf(to)]
       /\ c.do = "drop_collection" => to = None /\ \A d \in Range(plan) : d = c
       /\ \A d \in Range(plan) : c.do \in OnCollection /\ d.do \in OnCollection => c = d
  /\ TableOf(from) # TableOf(to) => \E c \in Range(plan) : c.do \in OnCollection

Fitted(from, to, plan) ==
  /\ Told(Call(from) \cup Call(to))
  /\ MakesNew(Call(from), Call(to), plan)
  /\ DropsOld(from, to, plan)
  /\ MovesCollection(from, to, plan)
  /\ Before(plan, {"create_index"}, Lookups)
  /\ OnceIn(plan, Drops \cup OnCollection)

Here == {Timeless(x) : x \in indexes}

Ahead(A) == \E c \in Range(todo) : c.do \in A

\* The indexes of the collection while an operation runs, or after it failed.
Changed(from, to, plan) ==
  /\ \A x \in indexes : Timeless(x) \in Call(from) \/ Has(plan, "create_index", x)
  /\ Call(from) \cap Call(to) \subseteq Here
  /\ \A o \in (Call(from) \ Call(to)) \cap Here :
       \/ phase # "running"
       \/ \E c \in Range(todo) : Hits(c, from, to, o) \/ c.do = "drop_collection"
  /\ \A n \in (Call(to) \ Call(from)) \ Here :
       phase # "running" \/ \E c \in Range(todo) : Creates(c, n)
  /\ collection \in {TableOf(from), TableOf(to)}
  /\ collection # TableOf(to) => phase # "running" \/ Ahead(OnCollection)

\* An operation that runs for the first time has done what is not ahead of it.
FirstRun(from, to) ==
  /\ \A c \in Range(todo), o \in Call(from) : Hits(c, from, to, o) => o \in Here
  /\ Ahead(Lookups) => Here \subseteq Call(from)
  /\ Ahead(OnCollection) => collection = TableOf(from)

OneEach ==
  \A x, y \in indexes : Timeless(x) = Timeless(y) => x = y

\* The fields of a model look like those of its project.
Shaped(p, m) ==
  m # None =>
    \A f \in Fields(m) :
      \E s \in p.shape : f.type = s.type /\ f.key = s.key /\ f.spatial = s.spatial

\* Nothing is looked for, renamed or removed from a document.
Mild(plan) == \A c \in Range(plan) : c.do \in {"set", "create_index", "drop_collection"}

IndexInv ==
  /\ \A x \in indexes : IsIndex(x)
  /\ OneEach
  /\ Shaped(project, model)
  /\ phase # "idle" => Shaped(project, op.to) /\ (op.kind \in Repeatable => Mild(op.plan))
  /\ phase = "idle" => Here = Call(model) /\ collection = TableOf(model)
  /\ phase # "idle" => Fitted(model, op.to, op.plan) /\ Changed(model, op.to, op.plan)
  /\ phase = "running" /\ ~op.again => FirstRun(model, op.to)

-----------------------------------------------------------------------------
(* Running a command.                                                      *)

\* A lookup finds an index by what is left of it without its collection's name.
LEMMA HitsTimeless ==
  ASSUME NEW c, NEW from, NEW to, NEW x, c.do = "drop_index" => c.arg[1] \notin Timed
  PROVE  Hits(c, from, to, x) <=> Hits(c, from, to, Timeless(x))
<1> DEFINE y == Timeless(x)
<1>1. y.paths = x.paths /\ y.unique = x.unique /\ y.name = TimelessName(x.name)
  BY DEF Timeless, MongoIndex
<1>2. \A m : /\ \A n \in MetaIndexNames(m) : n[1] = "meta"
             /\ \A n \in MetaConstraintNames(m) : n[1] = "meta"
  BY DEF MetaIndexNames, MetaConstraintNames, IndexName, ConstraintName
<1> HIDE DEF y
<1>3. CASE x.name[1] \in Timed
  <2>1. y.name[1] = x.name[1]
    BY <1>1, <1>3 DEF TimelessName
  <2>2. x.name[1] # "meta"
    BY <1>3 DEF Timed
  <2>3. \A m : /\ x.name \notin MetaIndexNames(m) /\ y.name \notin MetaIndexNames(m)
               /\ x.name \notin MetaConstraintNames(m)
               /\ y.name \notin MetaConstraintNames(m)
    BY <1>2, <2>1, <2>2
  <2>4. c.do = "drop_index" => x.name # c.arg /\ y.name # c.arg
    BY <1>3, <2>1
  <2> QED
    BY <1>1, <2>3, <2>4 DEF Hits, y
<1>4. CASE x.name[1] \notin Timed
  <2>1. y.name = x.name
    BY <1>1, <1>4 DEF TimelessName
  <2> QED
    BY <1>1, <2>1 DEF Hits, y
<1> QED
  BY <1>3, <1>4

LEMMA FoundIs ==
  ASSUME NEW c, c.do \in Drops, NEW from, NEW to, from = op.from, to = op.to
  PROVE  \A n : n \in Found(c) <=> \E x \in indexes : x.name = n /\ Hits(c, from, to, x)
<1>1. CASE c.do = "remove_field_index"
  BY <1>1 DEF Found, Hits, ConstraintNames
<1>2. CASE c.do = "remove_field_unique"
  BY <1>2 DEF Found, Hits, UniqueNames
<1>3. CASE c.do = "remove_together"
  BY <1>3 DEF Found, Hits, UniqueNames
<1>4. CASE c.do = "drop_index"
  BY <1>4 DEF Found, Hits
<1> QED
  BY <1>1, <1>2, <1>3, <1>4 DEF Drops

\* A command of these has run for good.
LEMMA HeadGone ==
  ASSUME NEW plan, NEW s, NEW A, IsSeq(plan), Rest(plan, s), s # <<>>, OnceIn(plan, A),
         Head(s).do \in A
  PROVE  Head(s) \notin Range(Tail(s))
<1> SUFFICES ASSUME Head(s) \in Range(Tail(s)) PROVE FALSE
  OBVIOUS
<1>1. /\ Rest(plan, Tail(s))
      /\ Len(plan) - Len(s) + 1 \in DOMAIN plan
      /\ Head(s) = plan[Len(plan) - Len(s) + 1]
  BY TailRest
<1>2. PICK c : c = Head(s)
  OBVIOUS
<1>3. /\ s \in Seq(Range(plan)) /\ Len(s) \in Nat \ {0} /\ Len(Tail(s)) = Len(s) - 1
      /\ DOMAIN Tail(s) = 1..Len(Tail(s)) /\ Len(plan) \in Nat /\ DOMAIN plan = 1..Len(plan)
      /\ Len(s) <= Len(plan)
  BY <1>1 DEF Rest, IsSeq
<1>4. PICK i \in 1..Len(Tail(s)) : c = Tail(s)[i]
  BY <1>2, <1>3 DEF Range
<1>5. Tail(s)[i] = plan[Len(plan) - Len(Tail(s)) + i]
  BY <1>1 DEF Rest
<1>6. /\ Len(plan) - Len(Tail(s)) + i \in DOMAIN plan
      /\ Len(plan) - Len(Tail(s)) + i # Len(plan) - Len(s) + 1
  BY <1>3
<1> QED
  BY <1>1, <1>2, <1>4, <1>5, <1>6 DEF OnceIn

\* What comes after a command of these in the plan is ahead of it.
LEMMA StillAhead ==
  ASSUME NEW plan, NEW s, NEW A, NEW B, IsSeq(plan), Rest(plan, s), s # <<>>,
         Before(plan, A, B), Head(s).do \in B, Head(s).do \notin A,
         NEW c \in Range(plan), c.do \in A
  PROVE  c \in Range(Tail(s))
<1>1. /\ Len(plan) - Len(s) + 1 \in DOMAIN plan
      /\ Head(s) = plan[Len(plan) - Len(s) + 1]
      /\ \A i \in DOMAIN plan :
           i > Len(plan) - Len(s) + 1 => plan[i] \in Range(Tail(s))
  BY TailRest
<1>2. PICK i \in DOMAIN plan : plan[i] = c
  BY DEF Range
<1>3. DOMAIN plan \subseteq Int
  BY DEF IsSeq
<1>4. ~(i < Len(plan) - Len(s) + 1)
  BY <1>1, <1>2 DEF Before
<1>5. i # Len(plan) - Len(s) + 1
  BY <1>1, <1>2
<1> QED
  BY <1>1, <1>2, <1>3, <1>4, <1>5

\* The same, seen from behind.
LEMMA NoneAhead ==
  ASSUME NEW plan, NEW s, NEW A, NEW B, IsSeq(plan), Rest(plan, s), s # <<>>,
         Before(plan, A, B), Head(s).do \in A, NEW c \in Range(Tail(s))
  PROVE  c.do \notin B
<1>1. /\ Rest(plan, Tail(s))
      /\ Len(plan) - Len(s) + 1 \in DOMAIN plan
      /\ Head(s) = plan[Len(plan) - Len(s) + 1]
  BY TailRest
<1>2. /\ s \in Seq(Range(plan)) /\ Len(s) \in Nat \ {0} /\ Len(Tail(s)) = Len(s) - 1
      /\ DOMAIN Tail(s) = 1..Len(Tail(s)) /\ Len(plan) \in Nat /\ DOMAIN plan = 1..Len(plan)
      /\ Len(s) <= Len(plan)
  BY <1>1 DEF Rest, IsSeq
<1>3. PICK i \in 1..Len(Tail(s)) : c = Tail(s)[i]
  BY <1>2 DEF Range
<1>4. Tail(s)[i] = plan[Len(plan) - Len(Tail(s)) + i]
  BY <1>1 DEF Rest
<1>5. /\ Len(plan) - Len(Tail(s)) + i \in DOMAIN plan
      /\ Len(plan) - Len(s) + 1 < Len(plan) - Len(Tail(s)) + i
  BY <1>2
<1> QED
  BY <1>1, <1>3, <1>4, <1>5 DEF Before

\* The first command of those left runs.
Steps(from, to, plan, c) ==
  /\ Fitted(from, to, plan) /\ IsSeq(plan) /\ Rest(plan, todo) /\ todo # <<>>
  /\ c = Head(todo)
  /\ phase = "running" /\ phase' = "running" /\ todo' = Tail(todo)
  /\ OneEach /\ (\A x \in indexes : IsIndex(x))
  /\ Changed(from, to, plan)

LEMMA StepsIs ==
  ASSUME NEW from, NEW to, NEW plan, NEW c, Steps(from, to, plan, c)
  PROVE  /\ c \in Range(plan) /\ Range(todo) = {c} \cup Range(todo')
         /\ Range(todo') \subseteq Range(plan)
         /\ c.do \in Drops \cup OnCollection => c \notin Range(todo')
         /\ c.do \in Lookups =>
              \A d \in Range(plan) : d.do = "create_index" => d \in Range(todo')
         /\ c.do = "create_index" => \A d \in Range(todo') : d.do \notin Lookups
<1>1. /\ IsSeq(plan) /\ Rest(plan, todo) /\ todo # <<>> /\ c = Head(todo)
      /\ todo' = Tail(todo)
      /\ Before(plan, {"create_index"}, Lookups)
      /\ OnceIn(plan, Drops \cup OnCollection)
  BY DEF Steps, Fitted
<1>2. /\ c \in Range(plan) /\ Range(todo) = {c} \cup Range(todo')
      /\ Range(todo') \subseteq Range(plan)
  BY <1>1, TailRest
<1>3. c.do \in Drops \cup OnCollection => c \notin Range(todo')
  BY <1>1, HeadGone
<1>4. ASSUME c.do \in Lookups, NEW d \in Range(plan), d.do = "create_index"
      PROVE  d \in Range(todo')
  BY <1>1, <1>4, StillAhead DEF Lookups
<1>5. ASSUME c.do = "create_index", NEW d \in Range(todo')
      PROVE  d.do \notin Lookups
  BY <1>1, <1>5, NoneAhead
<1> QED
  BY <1>2, <1>3, <1>4, <1>5

\* An index that is there is one of the old or of the new model.
LEMMA HereIs ==
  ASSUME NEW from, NEW to, NEW plan, Fitted(from, to, plan), Changed(from, to, plan)
  PROVE  Here \subseteq Call(from) \cup Call(to)
<1> SUFFICES ASSUME NEW x \in indexes, Timeless(x) \notin Call(from)
             PROVE  Timeless(x) \in Call(to)
  BY DEF Here
<1>1. PICK c \in Range(plan) : c.do = "create_index" /\ c.arg = x
  BY DEF Changed, Has
<1> QED
  BY <1>1 DEF Fitted, MakesNew

LEMMA CreateIndexSteps ==
  ASSUME NEW from, NEW to, NEW plan, NEW c, Steps(from, to, plan, c),
         c.do = "create_index", indexes' = indexes \cup {c.arg}, collection' = collection
  PROVE  /\ OneEach' /\ (\A x \in indexes' : IsIndex(x))
         /\ Changed(from, to, plan)'
         /\ FirstRun(from, to) => FirstRun(from, to)'
<1> DEFINE n == Timeless(c.arg)
<1>1. /\ c \in Range(plan) /\ Range(todo) = {c} \cup Range(todo')
      /\ Range(todo') \subseteq Range(plan)
      /\ \A d \in Range(todo') : d.do \notin Lookups
  BY StepsIs
<1>2. /\ MakesNew(Call(from), Call(to), plan) /\ Changed(from, to, plan)
      /\ DropsOld(from, to, plan)
      /\ phase = "running" /\ phase' = "running"
      /\ OneEach /\ (\A x \in indexes : IsIndex(x))
  BY DEF Steps, Fitted
<1>3. IsIndex(c.arg) /\ n \in Call(to) /\ n \notin Call(from)
  BY <1>1, <1>2 DEF MakesNew
<1>4. Here' = Here \cup {n}
  BY DEF Here
<1>5. ASSUME NEW x \in indexes, Timeless(x) = n PROVE x = c.arg
  <2>1. PICK d \in Range(plan) : d.do = "create_index" /\ d.arg = x
    BY <1>2, <1>3, <1>5 DEF Changed, Has
  <2>2. Creates(d, n)
    BY <1>5, <2>1 DEF Creates
  <2>3. c = d
    BY <1>1, <1>2, <2>2 DEF MakesNew
  <2> QED
    BY <2>1, <2>3
<1>6. ~\E o : Hits(c, from, to, o)
  BY DEF Hits
<1> HIDE DEF n
<1>10. OneEach'
  BY <1>2, <1>5 DEF OneEach, n
<1>11. \A x \in indexes' : IsIndex(x)
  BY <1>2, <1>3
<1>12. Changed(from, to, plan)'
  <2>1. \A x \in indexes' : Timeless(x) \in Call(from) \/ Has(plan, "create_index", x)
    BY <1>1, <1>2 DEF Changed, Has
  <2>2. Call(from) \cap Call(to) \subseteq Here'
    BY <1>2, <1>4 DEF Changed
  <2>3. ASSUME NEW o \in (Call(from) \ Call(to)) \cap Here'
        PROVE  \E d \in Range(todo') : Hits(d, from, to, o) \/ d.do = "drop_collection"
    <3>1. o \in (Call(from) \ Call(to)) \cap Here
      BY <1>3, <1>4
    <3>2. PICK d \in Range(todo) : Hits(d, from, to, o) \/ d.do = "drop_collection"
      BY <1>2, <3>1 DEF Changed
    <3>3. d # c
      BY <1>6, <3>2
    <3> QED
      BY <1>1, <3>2, <3>3
  <2>4. ASSUME NEW o \in (Call(to) \ Call(from)) \ Here'
        PROVE  \E d \in Range(todo') : Creates(d, o)
    <3>1. o \in (Call(to) \ Call(from)) \ Here /\ o # n
      BY <1>4
    <3>2. PICK d \in Range(todo) : Creates(d, o)
      BY <1>2, <3>1 DEF Changed
    <3>3. d # c
      BY <3>1, <3>2 DEF Creates, n
    <3> QED
      BY <1>1, <3>2, <3>3
  <2>5. /\ collection' \in {TableOf(from), TableOf(to)}
        /\ collection' # TableOf(to) => Ahead(OnCollection)'
    BY <1>1, <1>2 DEF Changed, Ahead, OnCollection
  <2> QED
    BY <1>2, <2>1, <2>2, <2>3, <2>4, <2>5 DEF Changed
<1>13. ASSUME FirstRun(from, to) PROVE FirstRun(from, to)'
  <2>1. \A d \in Range(todo'), o \in Call(from) : Hits(d, from, to, o) => o \in Here'
    BY <1>1, <1>4, <1>13 DEF FirstRun
  <2>2. ~Ahead(Lookups)'
    BY <1>1 DEF Ahead
  <2>3. Ahead(OnCollection)' => collection' = TableOf(from)
    BY <1>1, <1>13 DEF FirstRun, Ahead
  <2> QED
    BY <2>1, <2>2, <2>3 DEF FirstRun
<1> QED
  BY <1>10, <1>11, <1>12, <1>13

\* A command drops what it hits, and nothing else.
LEMMA DropIs ==
  ASSUME NEW from, NEW to, NEW plan, NEW c, Steps(from, to, plan, c), c.do \in Drops,
         op.from = from, op.to = to, indexes' = {x \in indexes : x.name \notin Found(c)}
  PROVE  \A o : o \in Here' <=> o \in Here /\ ~Hits(c, from, to, o)
<1>1. c \in Range(plan) /\ DropsOld(from, to, plan) /\ Told(Call(from) \cup Call(to))
      /\ OneEach /\ Fitted(from, to, plan) /\ Changed(from, to, plan)
  BY StepsIs DEF Steps, Fitted
<1>2. c.do = "drop_index" => c.arg[1] \notin Timed
  BY <1>1 DEF DropsOld
<1>3. ASSUME NEW x \in indexes PROVE x.name \in Found(c) <=> Hits(c, from, to, x)
  <2>1. Hits(c, from, to, x) => x.name \in Found(c)
    BY FoundIs
  <2>2. ASSUME x.name \in Found(c) PROVE Hits(c, from, to, x)
    <3>1. PICK y \in indexes : y.name = x.name /\ Hits(c, from, to, y)
      BY <2>2, FoundIs
    <3>2. Timeless(x).name = Timeless(y).name
      BY <3>1 DEF Timeless, MongoIndex
    <3>3. Timeless(x) \in Here /\ Timeless(y) \in Here
      BY DEF Here
    <3>4. Timeless(x) = Timeless(y)
      BY <1>1, <3>2, <3>3, HereIs DEF Told
    <3> QED
      BY <1>1, <3>1, <3>4 DEF OneEach
  <2> QED
    BY <2>1, <2>2
<1>4. \A x \in indexes : Hits(c, from, to, x) <=> Hits(c, from, to, Timeless(x))
  BY <1>2, HitsTimeless
<1>5. \A x : x \in indexes' <=> x \in indexes /\ ~Hits(c, from, to, Timeless(x))
  BY <1>3, <1>4
<1> QED
  BY <1>5 DEF Here

LEMMA DropSteps ==
  ASSUME NEW from, NEW to, NEW plan, NEW c, Steps(from, to, plan, c), c.do \in Drops,
         op.from = from, op.to = to, indexes' = {x \in indexes : x.name \notin Found(c)},
         collection' = collection
  PROVE  /\ OneEach' /\ (\A x \in indexes' : IsIndex(x))
         /\ Changed(from, to, plan)'
         /\ FirstRun(from, to) => FirstRun(from, to)'
<1>1. /\ c \in Range(plan) /\ Range(todo) = {c} \cup Range(todo')
      /\ Range(todo') \subseteq Range(plan)
      /\ c \notin Range(todo')
      /\ c.do \in Lookups =>
           \A d \in Range(plan) : d.do = "create_index" => d \in Range(todo')
  BY StepsIs
<1>2. /\ MakesNew(Call(from), Call(to), plan) /\ Changed(from, to, plan)
      /\ DropsOld(from, to, plan)
      /\ phase = "running" /\ phase' = "running"
      /\ OneEach /\ (\A x \in indexes : IsIndex(x))
  BY DEF Steps, Fitted
<1>3. \A o : o \in Here' <=> o \in Here /\ ~Hits(c, from, to, o)
  BY DropIs
<1>4. indexes' \subseteq indexes
  OBVIOUS
<1>5. c.do \notin OnCollection /\ c.do # "create_index" /\ c.do # "drop_collection"
  BY DEF OnCollection, Drops
<1>6. \A o \in Call(from) : Hits(c, from, to, o) => o \notin Call(to)
  BY <1>1, <1>2 DEF DropsOld
<1>7. c.do \in Lookups \/ \A o \in Call(to) : ~Hits(c, from, to, o)
  BY <1>1, <1>2 DEF DropsOld, Drops, Lookups
<1>10. OneEach' /\ (\A x \in indexes' : IsIndex(x))
  BY <1>2, <1>4 DEF OneEach
<1>12. Changed(from, to, plan)'
  <2>1. \A x \in indexes' : Timeless(x) \in Call(from) \/ Has(plan, "create_index", x)
    BY <1>2, <1>4 DEF Changed
  <2>2. Call(from) \cap Call(to) \subseteq Here'
    BY <1>2, <1>3, <1>6 DEF Changed
  <2>3. ASSUME NEW o \in (Call(from) \ Call(to)) \cap Here'
        PROVE  \E d \in Range(todo') : Hits(d, from, to, o) \/ d.do = "drop_collection"
    <3>1. o \in (Call(from) \ Call(to)) \cap Here /\ ~Hits(c, from, to, o)
      BY <1>3
    <3>2. PICK d \in Range(todo) : Hits(d, from, to, o) \/ d.do = "drop_collection"
      BY <1>2, <3>1 DEF Changed
    <3>3. d # c
      BY <1>5, <3>1, <3>2
    <3> QED
      BY <1>1, <3>2, <3>3
  <2>4. ASSUME NEW o \in (Call(to) \ Call(from)) \ Here'
        PROVE  \E d \in Range(todo') : Creates(d, o)
    <3>1. CASE o \notin Here
      <4>1. PICK d \in Range(todo) : Creates(d, o)
        BY <1>2, <3>1 DEF Changed
      <4>2. d # c
        BY <1>5, <4>1 DEF Creates
      <4> QED
        BY <1>1, <4>1, <4>2
    <3>2. CASE Hits(c, from, to, o)
      <4>1. PICK d \in Range(plan) : Creates(d, o)
        BY <1>2 DEF MakesNew
      <4> QED
        BY <1>1, <1>7, <3>2, <4>1 DEF Creates
    <3> QED
      BY <1>3, <3>1, <3>2
  <2>5. /\ collection' \in {TableOf(from), TableOf(to)}
        /\ collection' # TableOf(to) => Ahead(OnCollection)'
    BY <1>1, <1>2, <1>5 DEF Changed, Ahead
  <2> QED
    BY <1>2, <2>1, <2>2, <2>3, <2>4, <2>5 DEF Changed
<1>13. ASSUME FirstRun(from, to) PROVE FirstRun(from, to)'
  <2>1. ASSUME NEW d \in Range(todo'), NEW o \in Call(from), Hits(d, from, to, o)
        PROVE  o \in Here'
    <3>1. o \in Here
      BY <1>1, <1>13, <2>1 DEF FirstRun
    <3>2. ~Hits(c, from, to, o)
      BY <1>1, <1>2, <2>1 DEF DropsOld
    <3> QED
      BY <1>3, <3>1, <3>2
  <2>2. Ahead(Lookups)' => Here' \subseteq Call(from)
    BY <1>1, <1>3, <1>13 DEF FirstRun, Ahead
  <2>3. Ahead(OnCollection)' => collection' = TableOf(from)
    BY <1>1, <1>13 DEF FirstRun, Ahead
  <2> QED
    BY <2>1, <2>2, <2>3 DEF FirstRun
<1> QED
  BY <1>10, <1>12, <1>13

\* Commands on the collection.
LEMMA CollectionSteps ==
  ASSUME NEW from, NEW to, NEW plan, NEW c, Steps(from, to, plan, c),
         c.do \in OnCollection,
         \/ indexes' = indexes /\ collection' = TableOf(to) /\ c.do # "drop_collection"
         \/ indexes' = {} /\ collection' = None /\ c.do = "drop_collection"
  PROVE  /\ OneEach' /\ (\A x \in indexes' : IsIndex(x))
         /\ Changed(from, to, plan)'
         /\ FirstRun(from, to) => FirstRun(from, to)'
<1>1. /\ c \in Range(plan) /\ Range(todo) = {c} \cup Range(todo')
      /\ Range(todo') \subseteq Range(plan)
      /\ c \notin Range(todo')
  BY StepsIs
<1>2. /\ MovesCollection(from, to, plan) /\ Changed(from, to, plan)
      /\ phase = "running" /\ phase' = "running"
      /\ OneEach /\ (\A x \in indexes : IsIndex(x))
  BY DEF Steps, Fitted
<1>3. ~Ahead(OnCollection)'
  BY <1>1, <1>2 DEF Ahead, MovesCollection
<1>4. CASE c.do = "drop_collection"
  <2>1. to = None /\ indexes' = {} /\ Here' = {} /\ Range(todo') = {}
    BY <1>1, <1>2, <1>4 DEF MovesCollection, Here
  <2>2. collection' = TableOf(to) /\ Call(to) = {}
    BY <1>4, <2>1 DEF TableOf, Call, IndexesOf
  <2>3. Changed(from, to, plan)'
    BY <1>2, <2>1, <2>2 DEF Changed
  <2>4. FirstRun(from, to)'
    BY <2>1, <2>2, <1>3 DEF FirstRun, Ahead
  <2> QED
    BY <2>1, <2>3, <2>4 DEF OneEach
<1>5. CASE c.do # "drop_collection"
  <2>1. indexes' = indexes /\ Here' = Here /\ collection' = TableOf(to)
    BY <1>5 DEF Here
  <2>2. c.do # "create_index" /\ \A o : ~Hits(c, from, to, o)
    BY DEF Hits, OnCollection
  <2>3. ASSUME NEW o \in (Call(from) \ Call(to)) \cap Here'
        PROVE  \E d \in Range(todo') : Hits(d, from, to, o) \/ d.do = "drop_collection"
    <3>1. PICK d \in Range(todo) : Hits(d, from, to, o) \/ d.do = "drop_collection"
      BY <1>2, <2>1 DEF Changed
    <3>2. d # c
      BY <1>5, <2>2, <3>1
    <3> QED
      BY <1>1, <3>1, <3>2
  <2>4. ASSUME NEW o \in (Call(to) \ Call(from)) \ Here'
        PROVE  \E d \in Range(todo') : Creates(d, o)
    <3>1. PICK d \in Range(todo) : Creates(d, o)
      BY <1>2, <2>1 DEF Changed
    <3>2. d # c
      BY <2>2, <3>1 DEF Creates
    <3> QED
      BY <1>1, <3>1, <3>2
  <2>5. Changed(from, to, plan)'
    BY <1>2, <2>1, <2>3, <2>4 DEF Changed
  <2>6. ASSUME FirstRun(from, to) PROVE FirstRun(from, to)'
    BY <1>1, <1>3, <2>1, <2>6 DEF FirstRun, Ahead
  <2> QED
    BY <1>2, <2>1, <2>5, <2>6 DEF OneEach
<1> QED
  BY <1>4, <1>5

\* Commands on the document.
LEMMA DocumentSteps ==
  ASSUME NEW from, NEW to, NEW plan, NEW c, Steps(from, to, plan, c),
         c.do \in FieldCommands, UNCHANGED <<indexes, collection>>
  PROVE  /\ OneEach' /\ (\A x \in indexes' : IsIndex(x))
         /\ Changed(from, to, plan)'
         /\ FirstRun(from, to) => FirstRun(from, to)'
<1>1. c \in Range(plan) /\ Range(todo) = {c} \cup Range(todo')
  BY StepsIs
<1>2. /\ Changed(from, to, plan) /\ phase = "running" /\ phase' = "running"
      /\ OneEach /\ (\A x \in indexes : IsIndex(x)) /\ Here' = Here
  BY DEF Steps, Fitted, Here
<1>3. /\ c.do \notin OnCollection \cup Lookups /\ c.do # "drop_collection"
      /\ c.do # "create_index" /\ \A o : ~Hits(c, from, to, o)
  BY DEF Hits, FieldCommands, OnCollection, Lookups
<1>4. \A o : ~Creates(c, o)
  BY <1>3 DEF Creates
<1>5. Changed(from, to, plan)'
  <2>1. \A o \in (Call(from) \ Call(to)) \cap Here' :
          \E d \in Range(todo') : Hits(d, from, to, o) \/ d.do = "drop_collection"
    BY <1>1, <1>2, <1>3 DEF Changed
  <2>2. \A o \in (Call(to) \ Call(from)) \ Here' : \E d \in Range(todo') : Creates(d, o)
    BY <1>1, <1>2, <1>4 DEF Changed
  <2>3. collection' # TableOf(to) => Ahead(OnCollection)'
    BY <1>1, <1>2, <1>3 DEF Changed, Ahead
  <2> QED
    BY <1>2, <2>1, <2>2, <2>3 DEF Changed
<1>6. ASSUME FirstRun(from, to) PROVE FirstRun(from, to)'
  <2>1. \A d \in Range(todo'), o \in Call(from) : Hits(d, from, to, o) => o \in Here'
    BY <1>1, <1>2, <1>6 DEF FirstRun
  <2>2. /\ Ahead(Lookups)' => Here' \subseteq Call(from)
        /\ Ahead(OnCollection)' => collection' = TableOf(from)
    BY <1>1, <1>2, <1>6 DEF FirstRun, Ahead
  <2> QED
    BY <2>1, <2>2 DEF FirstRun
<1> QED
  BY <1>2, <1>5, <1>6 DEF OneEach

\* What an operation that is not idle is.
LEMMA OpIs ==
  ASSUME EditInv, phase # "idle"
  PROVE  op.from = model
<1>1. PICK k, f, t, p, a : /\ k = op.kind /\ f = model /\ t = op.to /\ p = op.plan
                           /\ a = op.again
  OBVIOUS
<1>2. op = [kind |-> k, from |-> f, to |-> t, plan |-> p, again |-> a]
  BY <1>1 DEF EditInv, TypeInv
<1> QED
  BY <1>1, <1>2

LEMMA RunCommandIndexes ==
  ASSUME EditInv, IndexInv, RunCommand, UNCHANGED project
  PROVE  IndexInv'
<1>1. PICK from, to, plan, c : /\ from = model /\ to = op.to /\ plan = op.plan
                               /\ c = Head(todo)
  OBVIOUS
<1>2. /\ phase = "running" /\ phase' = "running" /\ todo # <<>> /\ Run(c)
      /\ todo' = Tail(todo) /\ UNCHANGED <<model, op>>
  BY <1>1 DEF RunCommand
<1>3. IsSeq(plan) /\ Rest(plan, todo) /\ OnFields(from, to, plan)
  BY <1>1, <1>2 DEF EditInv, PlanInv, Planned
<1>4. Steps(from, to, plan, c)
  BY <1>1, <1>2, <1>3 DEF IndexInv, Steps
<1>5. c.do \in Commands /\ c \in Range(plan) /\ MovesCollection(from, to, plan)
  BY <1>3, <1>4, StepsIs DEF OnFields, Steps, Fitted
<1>6. op.from = from /\ op.to = to
  BY <1>1, <1>2, OpIs
<1>7. /\ OneEach' /\ (\A x \in indexes' : IsIndex(x))
      /\ Changed(from, to, plan)'
      /\ FirstRun(from, to) => FirstRun(from, to)'
  <2>1. CASE c.do = "create_index"
    <3>1. indexes' = indexes \cup {c.arg} /\ collection' = collection
      BY <1>2, <2>1 DEF Run, Drops
    <3> QED
      BY <1>4, <2>1, <3>1, CreateIndexSteps
  <2>2. CASE c.do \in Drops
    <3>1. indexes' = {x \in indexes : x.name \notin Found(c)} /\ collection' = collection
      BY <1>2, <2>2 DEF Run, Drops
    <3> QED
      BY <1>4, <1>6, <2>2, <3>1, DropSteps
  <2>3. CASE c.do \in OnCollection
    <3>1. \/ indexes' = indexes /\ collection' = TableOf(to) /\ c.do # "drop_collection"
          \/ indexes' = {} /\ collection' = None /\ c.do = "drop_collection"
      <4>1. CASE c.do = "create_collection"
        BY <1>2, <1>5, <4>1 DEF Run, Drops, MovesCollection
      <4>2. CASE c.do = "drop_collection"
        BY <1>2, <4>2 DEF Run, Drops
      <4>3. CASE c.do = "rename_collection"
        <5>1. c.arg.to = TableOf(to)
          BY <1>5, <4>3 DEF MovesCollection
        <5> QED
          BY <1>2, <4>3, <5>1 DEF Run, Drops
      <4> QED
        BY <2>3, <4>1, <4>2, <4>3 DEF OnCollection
    <3> QED
      BY <1>4, <2>3, <3>1, CollectionSteps
  <2>4. CASE c.do \in FieldCommands
    <3>1. UNCHANGED <<indexes, collection>>
      BY <1>2, <2>4 DEF Run, Drops, FieldCommands
    <3> QED
      BY <1>4, <2>4, <3>1, DocumentSteps
  <2> QED
    BY <1>5, <2>1, <2>2, <2>3, <2>4 DEF Commands, IndexCommands, OnCollection
<1>8. Changed(model, op.to, op.plan)'
  BY <1>1, <1>2, <1>7 DEF Changed
<1>9. FirstRun(model, op.to) => FirstRun(model, op.to)'
  BY <1>1, <1>2, <1>7 DEF FirstRun
<1> QED
  BY <1>2, <1>7, <1>8, <1>9 DEF IndexInv

\* An operation is stopped, and run again.
LEMMA StopIndexes ==
  ASSUME IndexInv, Stop, UNCHANGED project, phase # "idle"
  PROVE  IndexInv'
<1>1. /\ UNCHANGED <<project, model, indexes, collection, op>>
      /\ phase' = "failed"
  BY DEF Stop, database
<1>2. Here' = Here
  BY <1>1 DEF Here
<1>3. Changed(model, op.to, op.plan)'
  BY <1>1, <1>2 DEF IndexInv, Changed
<1> QED
  BY <1>1, <1>3 DEF IndexInv, OneEach

LEMMA RerunIndexes ==
  ASSUME EditInv, IndexInv, Rerun, UNCHANGED project
  PROVE  IndexInv'
<1>1. /\ UNCHANGED <<project, model, indexes, collection>>
      /\ phase = "failed" /\ phase' = "running" /\ todo' = op.plan
  BY DEF Rerun, database
<1>2. op'.to = op.to /\ op'.plan = op.plan /\ op'.again = TRUE /\ op'.kind = op.kind
  <2>1. PICK k, f, t, p, a : /\ k = op.kind /\ f = model /\ t = op.to /\ p = op.plan
                             /\ a = op.again
    OBVIOUS
  <2>2. op = [kind |-> k, from |-> f, to |-> t, plan |-> p, again |-> a]
    BY <1>1, <2>1 DEF EditInv, TypeInv
  <2>3. op' = [op EXCEPT !.again = TRUE]
    BY DEF Rerun
  <2>4. op' = [kind |-> k, from |-> f, to |-> t, plan |-> p, again |-> TRUE]
    BY <2>2, <2>3
  <2> QED
    BY <2>1, <2>4
<1>3. PICK from, to, plan : from = model /\ to = op.to /\ plan = op.plan
  OBVIOUS
<1>4. Fitted(from, to, plan) /\ Changed(from, to, plan) /\ Here' = Here
  BY <1>1, <1>3 DEF IndexInv, Here
<1>5. Changed(from, to, plan)'
  <2>1. \A o \in (Call(from) \ Call(to)) \cap Here' :
          \E d \in Range(plan) : Hits(d, from, to, o) \/ d.do = "drop_collection"
    BY <1>4 DEF Fitted, DropsOld
  <2>2. \A o \in (Call(to) \ Call(from)) \ Here' : \E d \in Range(plan) : Creates(d, o)
    BY <1>4 DEF Fitted, MakesNew
  <2>3. collection # TableOf(to) => \E d \in Range(plan) : d.do \in OnCollection
    BY <1>4 DEF Fitted, MovesCollection, Changed
  <2> QED
    BY <1>1, <1>3, <1>4, <2>1, <2>2, <2>3 DEF Changed, Ahead
<1>6. Changed(model, op.to, op.plan)'
  BY <1>1, <1>2, <1>3, <1>5 DEF Changed
<1> QED
  BY <1>1, <1>2, <1>3, <1>4, <1>6 DEF IndexInv, OneEach

LEMMA FinishIndexes ==
  ASSUME IndexInv, Finish, UNCHANGED project
  PROVE  IndexInv'
<1>1. /\ UNCHANGED <<project, indexes, collection>> /\ model' = op.to
      /\ phase = "running" /\ phase' = "idle" /\ todo = <<>>
  BY DEF Finish, database
<1>2. PICK from, to, plan : from = model /\ to = op.to /\ plan = op.plan
  OBVIOUS
<1>3. Fitted(from, to, plan) /\ Changed(from, to, plan) /\ Here' = Here
  BY <1>1, <1>2 DEF IndexInv, Here
<1>4. Range(todo) = {}
  BY <1>1, NothingIs
<1>5. Here \subseteq Call(from) \cup Call(to)
  BY <1>3, HereIs
<1>6. Here = Call(to) /\ collection = TableOf(to)
  BY <1>1, <1>3, <1>4, <1>5 DEF Changed, Ahead
<1> QED
  BY <1>1, <1>2, <1>3, <1>6 DEF IndexInv, OneEach

LEMMA SaveIndexes ==
  ASSUME IndexInv, Save, UNCHANGED project
  PROVE  IndexInv'
<1>1. /\ UNCHANGED <<project, model, indexes, collection, phase>> /\ phase = "idle"
  BY DEF Save
<1>2. Here' = Here
  BY <1>1 DEF Here
<1> QED
  BY <1>1, <1>2 DEF IndexInv, OneEach

LEMMA SameIndexes ==
  ASSUME IndexInv, UNCHANGED vars
  PROVE  IndexInv'
<1>1. UNCHANGED <<project, model, indexes, collection, phase, op, todo>>
  BY DEF vars, database
<1>2. Here' = Here
  BY <1>1 DEF Here
<1>3. Changed(model, op.to, op.plan) => Changed(model, op.to, op.plan)'
  BY <1>1, <1>2 DEF Changed, Ahead
<1>4. FirstRun(model, op.to) => FirstRun(model, op.to)'
  BY <1>1, <1>2 DEF FirstRun, Ahead
<1> QED
  BY <1>1, <1>2, <1>3, <1>4 DEF IndexInv, OneEach

\* An operation begins on the indexes of the model so far.
LEMMA StartIndexes ==
  ASSUME IndexInv, NEW kind, NEW to, NEW plan, Start(kind, to, plan), UNCHANGED project,
         Fitted(model, to, plan), Shaped(project, to), kind \in Repeatable => Mild(plan)
  PROVE  IndexInv'
<1>1. /\ UNCHANGED <<project, model, indexes, collection>>
      /\ phase = "idle" /\ phase' = "running" /\ todo' = plan
      /\ op' = [kind |-> kind, from |-> model, to |-> to, plan |-> plan, again |-> FALSE]
  BY DEF Start, database
<1>2. op'.to = to /\ op'.plan = plan /\ op'.kind = kind
  BY <1>1
<1>3. PICK from : from = model
  OBVIOUS
<1>4. Fitted(from, to, plan) /\ Here = Call(from) /\ Here' = Here /\ collection = TableOf(from)
  BY <1>1, <1>3 DEF IndexInv, Here
<1>5. Changed(from, to, plan)'
  <2>1. \A x \in indexes' : Timeless(x) \in Call(from)
    BY <1>1, <1>4 DEF Here
  <2>2. \A o \in (Call(from) \ Call(to)) \cap Here' :
          \E d \in Range(plan) : Hits(d, from, to, o) \/ d.do = "drop_collection"
    BY <1>4 DEF Fitted, DropsOld
  <2>3. \A o \in (Call(to) \ Call(from)) \ Here' : \E d \in Range(plan) : Creates(d, o)
    BY <1>4 DEF Fitted, MakesNew
  <2>4. collection # TableOf(to) => \E d \in Range(plan) : d.do \in OnCollection
    BY <1>4 DEF Fitted, MovesCollection
  <2> QED
    BY <1>1, <1>4, <2>1, <2>2, <2>3, <2>4 DEF Changed, Ahead
<1>6. FirstRun(from, to)'
  BY <1>1, <1>4 DEF FirstRun
<1>7. Changed(model, op.to, op.plan)'
  BY <1>1, <1>2, <1>3, <1>5 DEF Changed
<1>8. FirstRun(model, op.to)'
  BY <1>1, <1>2, <1>3, <1>6 DEF FirstRun
<1> QED
  BY <1>1, <1>2, <1>3, <1>4, <1>7, <1>8 DEF IndexInv, OneEach

-----------------------------------------------------------------------------
(* What the invariant says.                                                *)

LEMMA SignatureIs ==
  ASSUME NEW x, IsIndex(x)
  PROVE  Signature(x) = MongoIndex(<<>>, x.paths, x.unique, x.filter, x.geo)
<1>1. PICK n, p, u, f, g : x = MongoIndex(n, p, u, f, g)
  BY DEF IsIndex
<1> QED
  BY <1>1 DEF MongoIndex, Signature

LEMMA SignatureAlike ==
  ASSUME NEW x, NEW y, IsIndex(x), IsIndex(y)
  PROVE  Signature(x) = Signature(y) <=> Alike(x, y)
<1>1. PICK a, b : /\ a = MongoIndex(<<>>, x.paths, x.unique, x.filter, x.geo)
                  /\ b = MongoIndex(<<>>, y.paths, y.unique, y.filter, y.geo)
  OBVIOUS
<1>2. Signature(x) = a /\ Signature(y) = b
  BY <1>1, SignatureIs
<1>3. /\ a.paths = x.paths /\ a.unique = x.unique /\ a.filter = x.filter /\ a.geo = x.geo
      /\ b.paths = y.paths /\ b.unique = y.unique /\ b.filter = y.filter /\ b.geo = y.geo
  BY <1>1 DEF MongoIndex
<1>4. a = b => Alike(x, y)
  BY <1>3 DEF Alike
<1>5. Alike(x, y) => a = b
  BY <1>1 DEF Alike
<1> QED
  BY <1>2, <1>4, <1>5

LEMMA TimelessIs ==
  ASSUME NEW x
  PROVE  /\ Timeless(x).name = TimelessName(x.name)
         /\ Timeless(x).paths = x.paths /\ Timeless(x).unique = x.unique
         /\ Timeless(x).filter = x.filter /\ Timeless(x).geo = x.geo
         /\ IsIndex(Timeless(x))
BY DEF Timeless, MongoIndex, IsIndex

\* No index that is made is in the way of another one.
LEMMA CreateAllowed ==
  ASSUME NEW from, NEW to, NEW plan, Fitted(from, to, plan), Changed(from, to, plan),
         NEW c \in Range(plan), c.do = "create_index", NEW x \in indexes, IsIndex(x),
         x.name = c.arg.name \/ Signature(x) = Signature(c.arg)
  PROVE  x = c.arg
<1> DEFINE n == Timeless(c.arg)
           y == Timeless(x)
<1>1. MakesNew(Call(from), Call(to), plan) /\ Told(Call(from) \cup Call(to))
  BY DEF Fitted
<1>2. IsIndex(c.arg) /\ n \in Call(to) \ Call(from)
  BY <1>1 DEF MakesNew
<1>3. y \in Call(from) \cup Call(to)
  <2>1. y \in Here
    BY DEF Here
  <2> HIDE DEF y
  <2> QED
    BY <1>1, <2>1, HereIs
<1>4. y.name = n.name \/ Alike(y, n)
  <2>1. CASE x.name = c.arg.name
    BY <2>1, TimelessIs
  <2>2. CASE Signature(x) = Signature(c.arg)
    <3>1. Alike(x, c.arg)
      BY <1>1, <1>2, <2>2, SignatureAlike
    <3> QED
      BY <3>1, TimelessIs DEF Alike
  <2> QED
    BY <2>1, <2>2
<1> HIDE DEF n, y
<1>5. y = n
  BY <1>1, <1>2, <1>3, <1>4 DEF Told
<1>6. PICK d \in Range(plan) : d.do = "create_index" /\ d.arg = x
  BY <1>1, <1>2, <1>5 DEF Changed, Has, y
<1>7. Creates(d, n)
  BY <1>5, <1>6 DEF Creates, y
<1>8. c = d
  BY <1>1, <1>7 DEF MakesNew, n
<1> QED
  BY <1>6, <1>8

\* An operation that runs has these commands left.
LEMMA RunningIs ==
  ASSUME EditInv, IndexInv, phase = "running", todo # <<>>, NEW c, c = Head(todo)
  PROVE  /\ c \in Range(op.plan) /\ c \in Range(todo)
         /\ OnFields(model, op.to, op.plan) /\ Fitted(model, op.to, op.plan)
         /\ c.do = "create_index" => ~Refused(c)
         /\ c.do \in FieldCommands \cup {"drop_collection"} => ~Refused(c)
<1>1. /\ IsSeq(op.plan) /\ Rest(op.plan, todo) /\ OnFields(model, op.to, op.plan)
      /\ Fitted(model, op.to, op.plan) /\ Changed(model, op.to, op.plan)
      /\ OneEach /\ (\A x \in indexes : IsIndex(x))
  BY DEF EditInv, PlanInv, Planned, IndexInv
<1>2. c \in Range(op.plan) /\ c \in Range(todo)
  BY <1>1, TailRest
<1>3. ASSUME c.do = "create_index" PROVE ~Refused(c)
  <2> SUFFICES ASSUME NEW x \in indexes, x # c.arg,
                      x.name = c.arg.name \/ Signature(x) = Signature(c.arg)
               PROVE  FALSE
    BY <1>3 DEF Refused, Drops
  <2>1. PICK from, to, plan : from = model /\ to = op.to /\ plan = op.plan
    OBVIOUS
  <2>2. /\ Fitted(from, to, plan) /\ Changed(from, to, plan) /\ IsIndex(x)
        /\ c \in Range(plan)
    BY <1>1, <1>2, <2>1
  <2> QED
    BY <1>3, <2>2, CreateAllowed
<1>4. ASSUME c.do \in FieldCommands \cup {"drop_collection"} PROVE ~Refused(c)
  BY <1>4 DEF Refused, Drops, FieldCommands
<1> QED
  BY <1>1, <1>2, <1>3, <1>4

LEMMA FirstRunAllowed == EditInv /\ IndexInv => NothingRefused
<1> SUFFICES ASSUME EditInv, IndexInv, phase = "running", todo # <<>>, ~op.again
             PROVE  ~Refused(Head(todo))
  BY DEF NothingRefused
<1>1. PICK from, to, plan, c : /\ from = model /\ to = op.to /\ plan = op.plan
                               /\ c = Head(todo)
  OBVIOUS
<1>2. /\ c \in Range(plan) /\ c \in Range(todo) /\ OnFields(from, to, plan)
      /\ Fitted(from, to, plan)
      /\ c.do = "create_index" => ~Refused(c)
      /\ c.do \in FieldCommands \cup {"drop_collection"} => ~Refused(c)
  BY <1>1, RunningIs
<1>3. FirstRun(from, to) /\ Changed(from, to, plan)
  BY <1>1 DEF IndexInv
<1>4. CASE c.do \in Drops
  <2>1. DropsOld(from, to, plan) /\ op.from = from /\ op.to = to
    BY <1>1, <1>2, OpIs DEF Fitted
  <2>2. PICK o \in Call(from) : Hits(c, from, to, o)
    BY <1>2, <1>4, <2>1 DEF DropsOld
  <2>3. \A k \in Call(from) : Hits(c, from, to, k) => k = o
    BY <1>2, <1>4, <2>1, <2>2 DEF DropsOld
  <2>4. c.do = "drop_index" => c.arg[1] \notin Timed
    BY <1>2, <2>1 DEF DropsOld
  <2>5. ASSUME NEW x \in indexes PROVE Hits(c, from, to, x) <=> Timeless(x) = o
    <3>1. Timeless(x) \in Here /\ Here \subseteq Call(from) \cup Call(to)
      BY <1>2, <1>3, HereIs DEF Here
    <3>2. Hits(c, from, to, x) <=> Hits(c, from, to, Timeless(x))
      BY <2>4, HitsTimeless
    <3>3. ASSUME Hits(c, from, to, Timeless(x)) PROVE Timeless(x) \in Call(from)
      <4>1. CASE c.do \in Lookups
        BY <1>2, <1>3, <3>1, <4>1 DEF FirstRun, Ahead
      <4>2. CASE c.do = "drop_index"
        BY <1>2, <2>1, <3>1, <3>3, <4>2 DEF DropsOld
      <4> QED
        BY <1>4, <4>1, <4>2 DEF Drops, Lookups
    <3> QED
      BY <2>2, <2>3, <3>2, <3>3
  <2>6. o \in Here
    BY <1>2, <1>3, <2>2 DEF FirstRun
  <2>7. PICK x \in indexes : Timeless(x) = o
    BY <2>6 DEF Here
  <2>8. \A y \in indexes : Hits(c, from, to, y) <=> y = x
    BY <2>5, <2>7 DEF IndexInv, OneEach
  <2>9. Found(c) = {x.name}
    BY <1>4, <2>1, <2>8, FoundIs
  <2>10. Cardinality(Found(c)) = 1
    BY <2>9, FS_Singleton
  <2> QED
    BY <1>1, <1>4, <2>10 DEF Refused, Drops
<1>5. CASE c.do \in OnCollection
  <2>1. collection = TableOf(from) /\ MovesCollection(from, to, plan)
    BY <1>2, <1>3, <1>5 DEF FirstRun, Ahead, Fitted
  <2>2. c.do = "create_collection" => collection = None
    BY <1>2, <2>1 DEF MovesCollection, TableOf
  <2>3. c.do = "rename_collection" => c.arg.from = collection
    BY <1>2, <2>1 DEF MovesCollection
  <2> QED
    BY <1>1, <1>2, <1>5, <2>2, <2>3 DEF Refused, Drops, OnCollection
<1> QED
  BY <1>1, <1>2, <1>4, <1>5 DEF OnFields, Commands, OnCollection, IndexCommands

LEMMA RepeatAllowed == EditInv /\ IndexInv => RerunSucceeds
<1> SUFFICES ASSUME EditInv, IndexInv, phase = "running", todo # <<>>, op.kind \in Repeatable
             PROVE  ~Refused(Head(todo))
  BY DEF RerunSucceeds
<1>1. PICK c : c = Head(todo)
  OBVIOUS
<1>2. /\ c \in Range(op.plan)
      /\ c.do = "create_index" => ~Refused(c)
      /\ c.do \in FieldCommands \cup {"drop_collection"} => ~Refused(c)
  BY <1>1, RunningIs
<1>3. Mild(op.plan)
  BY DEF IndexInv
<1> QED
  BY <1>1, <1>2, <1>3 DEF Mild, FieldCommands

-----------------------------------------------------------------------------
(* What a model calls for.                                                 *)

\* The indexes apart from the name of the collection, by what they are for.
OnField(col) == Plain(<<"index", <<col>>>>, <<<<col>>>>)

UniqueOn(col, type) ==
  MongoIndex(<<"unique", <<col>>>>, <<<<col>>>>, TRUE, {<<col, type>>}, FALSE)

SpatialAt(table, path) ==
  MongoIndex(<<"spatial", table, path>>, <<path>>, FALSE, {}, TRUE)

ColumnsOf(m, names) == [i \in DOMAIN names |-> m.fields[names[i]].col]

Over(m, names) ==
  MongoIndex(<<"unique", ColumnsOf(m, names)>>, Paths(m, names), TRUE,
             UniqueFilter(m, names), FALSE)

Beside(m, names) == Plain(<<"together", names>>, Paths(m, names))

\* The indexes with the name of a collection.
Tabled(x, table) ==
  IsIndex(x) /\ (x.name[1] \in Timed => x.name = <<x.name[1], table, x.name[3]>>)

LEMMA FormsAre ==
  ASSUME NEW m, NEW f, NEW names, NEW x, NEW path
  PROVE  /\ Timeless(FieldIndex(m, f)) = OnField(f.col)
         /\ Timeless(FieldUnique(m, f)) = UniqueOn(f.col, f.type)
         /\ Timeless(TogetherUnique(m, names)) = Over(m, names)
         /\ Timeless(TogetherIndex(m, names)) = Beside(m, names)
         /\ Timeless(MetaUnique(m, x)) = MetaUnique(m, x)
         /\ Timeless(MetaIndex(m, x)) = MetaIndex(m, x)
         /\ Timeless(SpatialIndex(m, path)) = SpatialAt(m.table, path)
<1> USE DEF Timeless, TimelessName, Timed, Plain, MongoIndex
<1>1. Timeless(FieldIndex(m, f)) = OnField(f.col)
  BY DEF FieldIndex, OnField
<1>2. Timeless(FieldUnique(m, f)) = UniqueOn(f.col, f.type)
  BY DEF FieldUnique, UniqueOn
<1>3. Timeless(TogetherUnique(m, names)) = Over(m, names)
  BY DEF TogetherUnique, Over, ColumnsOf
<1>4. Timeless(TogetherIndex(m, names)) = Beside(m, names)
  BY DEF TogetherIndex, Beside
<1>5. Timeless(MetaUnique(m, x)) = MetaUnique(m, x)
  BY DEF MetaUnique, ConstraintName
<1>6. Timeless(MetaIndex(m, x)) = MetaIndex(m, x)
  BY DEF MetaIndex, IndexName
<1>7. Timeless(SpatialIndex(m, path)) = SpatialAt(m.table, path)
  BY DEF SpatialIndex, SpatialAt
<1> QED
  BY <1>1, <1>2, <1>3, <1>4, <1>5, <1>6, <1>7

LEMMA TabledIs ==
  ASSUME NEW n, NEW p, NEW u, NEW g, NEW h, NEW table,
         n[1] \notin Timed \/ \E a, b : n = <<a, table, b>>
  PROVE  Tabled(MongoIndex(n, p, u, g, h), table)
<1>1. /\ IsIndex(MongoIndex(n, p, u, g, h))
      /\ MongoIndex(n, p, u, g, h).name = n
  BY DEF IsIndex, MongoIndex
<1>2. n[1] \in Timed => n = <<n[1], table, n[3]>>
  <2>1. SUFFICES ASSUME n[1] \in Timed PROVE n = <<n[1], table, n[3]>>
    OBVIOUS
  <2>2. PICK a, b : n = <<a, table, b>>
    BY <2>1
  <2>3. n[1] = a /\ n[3] = b
    BY <2>2
  <2> QED
    BY <2>2, <2>3
<1> QED
  BY <1>1, <1>2 DEF Tabled

LEMMA TabledForms ==
  ASSUME NEW m, NEW f, NEW names, NEW x, NEW path
  PROVE  /\ Tabled(FieldIndex(m, f), m.table)
         /\ Tabled(FieldUnique(m, f), m.table)
         /\ Tabled(TogetherUnique(m, names), m.table)
         /\ Tabled(TogetherIndex(m, names), m.table)
         /\ Tabled(MetaUnique(m, x), m.table)
         /\ Tabled(MetaIndex(m, x), m.table)
         /\ Tabled(SpatialIndex(m, path), m.table)
<1>1. Tabled(FieldIndex(m, f), m.table) /\ Tabled(FieldUnique(m, f), m.table)
  BY TabledIs DEF FieldIndex, FieldUnique, Plain
<1>2. Tabled(TogetherUnique(m, names), m.table) /\ Tabled(TogetherIndex(m, names), m.table)
  BY TabledIs DEF TogetherUnique, TogetherIndex, Plain
<1>3. /\ ConstraintName(x)[1] \notin Timed /\ IndexName(x)[1] \notin Timed
      /\ <<"spatial", m.table, path>>[1] \notin Timed
  BY DEF ConstraintName, IndexName, Timed
<1>4. Tabled(MetaUnique(m, x), m.table) /\ Tabled(MetaIndex(m, x), m.table)
  BY <1>3, TabledIs DEF MetaUnique, MetaIndex
<1>5. Tabled(SpatialIndex(m, path), m.table)
  BY <1>3, TabledIs DEF SpatialIndex
<1> QED
  BY <1>1, <1>2, <1>4, <1>5

\* Within one collection the name is no loss.
LEMMA TimelessInjective ==
  ASSUME NEW table, NEW x, NEW y, Tabled(x, table), Tabled(y, table),
         Timeless(x) = Timeless(y)
  PROVE  x = y
<1>1. /\ TimelessName(x.name) = TimelessName(y.name)
      /\ x.paths = y.paths /\ x.unique = y.unique /\ x.filter = y.filter /\ x.geo = y.geo
  BY TimelessIs
<1>2. PICK a, b : a = x.name /\ b = y.name
  OBVIOUS
<1>3. a[1] \in Timed <=> b[1] \in Timed
  BY <1>1, <1>2 DEF TimelessName, Timed
<1>4. a = b
  <2>1. CASE a[1] \notin Timed
    BY <1>1, <1>2, <1>3, <2>1 DEF TimelessName
  <2>2. CASE a[1] \in Timed
    <3>1. a = <<a[1], table, a[3]>> /\ b = <<b[1], table, b[3]>>
      BY <1>2, <1>3, <2>2 DEF Tabled
    <3>2. <<a[1], a[3]>> = <<b[1], b[3]>>
      BY <1>1, <1>2, <1>3, <2>2 DEF TimelessName
    <3>3. a[1] = b[1] /\ a[3] = b[3]
      BY <3>2
    <3> QED
      BY <3>1, <3>3
  <2> QED
    BY <2>1, <2>2
<1>5. PICK n, p, u, f, g : x = MongoIndex(n, p, u, f, g)
  BY DEF Tabled, IsIndex
<1>6. PICK k, q, v, h, j : y = MongoIndex(k, q, v, h, j)
  BY DEF Tabled, IsIndex
<1>7. /\ x.name = n /\ x.paths = p /\ x.unique = u /\ x.filter = f /\ x.geo = g
      /\ y.name = k /\ y.paths = q /\ y.unique = v /\ y.filter = h /\ y.geo = j
  BY <1>5, <1>6 DEF MongoIndex
<1> QED
  BY <1>1, <1>2, <1>4, <1>5, <1>6, <1>7

\* An index with the filter of an entry of Meta that has a condition.
Marked(filter) == \E e \in filter : 3 \in DOMAIN e
Conditional(y) == Marked(y.filter)

IsEntry(x) == x.fields \in Seq(Name) \ {<<>>} /\ x.condition \in BOOLEAN

LEMMA FiltersAre ==
  ASSUME NEW m, NEW names, NEW x, IsEntry(x)
  PROVE  ~Marked(UniqueFilter(m, names)) /\ (Marked(Condition(m, x)) <=> x.condition)
<1>1. \A a, b : 3 \notin DOMAIN <<a, b>>
  OBVIOUS
<1>2. \A a, b, c : 3 \in DOMAIN <<a, b, c>>
  OBVIOUS
<1>3. ~Marked(UniqueFilter(m, names))
  BY <1>1 DEF UniqueFilter, Marked
<1>4. 1 \in DOMAIN x.fields
  BY DEF IsEntry
<1>5. ASSUME x.condition PROVE Marked(Condition(m, x))
  <2>1. PICK n : n \in Range(x.fields)
    BY <1>4 DEF Range
  <2>2. <<m.fields[n].col, m.fields[n].type, "condition">> \in Condition(m, x)
    BY <1>5, <2>1 DEF Condition
  <2> QED
    BY <1>2, <2>2 DEF Marked
<1>6. ASSUME ~x.condition PROVE ~Marked(Condition(m, x))
  BY <1>6 DEF Condition, Marked
<1> QED
  BY <1>3, <1>5, <1>6 DEF IsEntry

\* How the indexes look.
LEMMA OnFieldLooks ==
  ASSUME NEW col
  PROVE  /\ OnField(col).name = <<"index", <<col>>>>
         /\ OnField(col).paths = <<<<col>>>>
         /\ OnField(col).unique = FALSE /\ OnField(col).geo = FALSE
         /\ ~Conditional(OnField(col))
BY DEF OnField, Plain, MongoIndex, Conditional, Marked

LEMMA UniqueOnLooks ==
  ASSUME NEW col, NEW type
  PROVE  /\ UniqueOn(col, type).name = <<"unique", <<col>>>>
         /\ UniqueOn(col, type).paths = <<<<col>>>>
         /\ UniqueOn(col, type).unique = TRUE /\ UniqueOn(col, type).geo = FALSE
         /\ ~Conditional(UniqueOn(col, type))
<1>1. 3 \notin DOMAIN <<col, type>>
  OBVIOUS
<1>2. UniqueOn(col, type).filter = {<<col, type>>}
  BY DEF UniqueOn, MongoIndex
<1>3. ~Conditional(UniqueOn(col, type))
  BY <1>1, <1>2 DEF Conditional, Marked
<1> QED
  BY <1>3 DEF UniqueOn, MongoIndex

LEMMA SpatialAtLooks ==
  ASSUME NEW table, NEW path
  PROVE  /\ SpatialAt(table, path).name = <<"spatial", table, path>>
         /\ SpatialAt(table, path).paths = <<path>>
         /\ SpatialAt(table, path).unique = FALSE /\ SpatialAt(table, path).geo = TRUE
BY DEF SpatialAt, MongoIndex

LEMMA TogetherLooks ==
  ASSUME NEW m, NEW names
  PROVE  /\ Over(m, names).name = <<"unique", ColumnsOf(m, names)>>
         /\ Over(m, names).paths = Paths(m, names)
         /\ Over(m, names).unique = TRUE /\ Over(m, names).geo = FALSE
         /\ Beside(m, names).name = <<"together", names>>
         /\ Beside(m, names).paths = Paths(m, names)
         /\ Beside(m, names).unique = FALSE /\ Beside(m, names).geo = FALSE
BY DEF Over, Beside, Plain, MongoIndex

LEMMA TogetherUnconditional ==
  ASSUME NEW m, NEW names
  PROVE  ~Conditional(Over(m, names)) /\ ~Conditional(Beside(m, names))
<1>1. \A a, b : 3 \notin DOMAIN <<a, b>>
  OBVIOUS
<1>2. \A e \in UniqueFilter(m, names) : 3 \notin DOMAIN e
  BY <1>1 DEF UniqueFilter
<1> QED
  BY <1>2 DEF Conditional, Marked, Over, Beside, Plain, MongoIndex

LEMMA MetaLooks ==
  ASSUME NEW m, NEW x, IsEntry(x)
  PROVE  /\ MetaUnique(m, x).name = <<"meta", "constraint", x.name>>
         /\ MetaUnique(m, x).paths = Paths(m, x.fields)
         /\ MetaUnique(m, x).unique = TRUE /\ MetaUnique(m, x).geo = FALSE
         /\ Conditional(MetaUnique(m, x)) <=> x.condition
         /\ MetaIndex(m, x).name = <<"meta", "index", x.name>>
         /\ MetaIndex(m, x).paths = Paths(m, x.fields)
         /\ MetaIndex(m, x).unique = FALSE /\ MetaIndex(m, x).geo = FALSE
         /\ Conditional(MetaIndex(m, x)) <=> x.condition
<1>1. /\ MetaUnique(m, x).filter = Condition(m, x) \cup UniqueFilter(m, x.fields)
      /\ MetaIndex(m, x).filter = Condition(m, x)
  BY DEF MetaUnique, MetaIndex, MongoIndex
<1>2. /\ Conditional(MetaUnique(m, x)) <=> x.condition
      /\ Conditional(MetaIndex(m, x)) <=> x.condition
  <2>1. Marked(Condition(m, x) \cup UniqueFilter(m, x.fields))
          <=> Marked(Condition(m, x)) \/ Marked(UniqueFilter(m, x.fields))
    BY DEF Marked
  <2>2. ~Marked(UniqueFilter(m, x.fields)) /\ (Marked(Condition(m, x)) <=> x.condition)
    BY FiltersAre
  <2> QED
    BY ONLY <1>1, <2>1, <2>2 DEF Conditional
<1> QED
  BY <1>2 DEF MetaUnique, MetaIndex, ConstraintName, IndexName, MongoIndex

\* What a model calls for, by its fields and by its options.
KeysOf(F) ==
  {OnField(f.col) : f \in {g \in F : g.key = "index"}}
    \cup {UniqueOn(f.col, f.type) : f \in {g \in F : g.key = "unique"}}

PlacesOf(table, F) == {SpatialAt(table, SpatialPath(f)) : f \in {g \in F : Spatial(g)}}

OptionsOf(m) ==
  {Over(m, names) : names \in m.unique_together}
    \cup {Beside(m, names) : names \in m.index_together}
    \cup {MetaUnique(m, x) : x \in m.constraints}
    \cup {MetaIndex(m, x) : x \in m.indexes}

LEMMA IndexesOfIs ==
  ASSUME NEW p \in Projects, NEW m \in Model, Legal(p, m)
  PROVE  IndexesOf(m) = Made(m) \cup {TogetherIndex(m, names) : names \in m.index_together}
<1>1. m # None
  BY SchemaEditorAssumption
<1>2. /\ IsFiniteSet(m.unique_together) /\ IsFiniteSet(m.constraints)
      /\ IsFiniteSet(m.indexes)
  BY <1>1, FiniteAssumption, FS_Subset DEF Legal
<1>3. Range(CreateModelPlan(m)) = {Command("create_collection", m.table)} \cup AddAll(Made(m))
  BY <1>2, CreateModelPlanIs
<1>4. {c.arg : c \in {d \in Range(CreateModelPlan(m)) : d.do = "create_index"}} = Made(m)
  <2>1. \A d \in Range(CreateModelPlan(m)) :
          d.do = "create_index" => \E x \in Made(m) : d = AddIndex(x)
    BY <1>3, CommandIs DEF AddAll
  <2>2. \A x \in Made(m) : /\ AddIndex(x) \in Range(CreateModelPlan(m))
                           /\ AddIndex(x).do = "create_index" /\ AddIndex(x).arg = x
    BY <1>3, CommandIs DEF AddAll
  <2> HIDE DEF Made
  <2>3. \A d \in Range(CreateModelPlan(m)) : d.do = "create_index" => d.arg \in Made(m)
    BY <2>1, <2>2
  <2> QED
    BY <2>2, <2>3
<1> QED
  BY <1>1, <1>4 DEF IndexesOf

LEMMA CallIs ==
  ASSUME NEW p \in Projects, NEW m \in Model, Legal(p, m)
  PROVE  Call(m) = KeysOf(Fields(m)) \cup PlacesOf(m.table, Fields(m)) \cup OptionsOf(m)
<1>1. IndexesOf(m) = Made(m) \cup {TogetherIndex(m, names) : names \in m.index_together}
  BY IndexesOfIs
<1>2. ASSUME NEW y \in Call(m)
      PROVE  y \in KeysOf(Fields(m)) \cup PlacesOf(m.table, Fields(m)) \cup OptionsOf(m)
  <2>1. PICK x \in IndexesOf(m) : y = Timeless(x)
    BY DEF Call
  <2>2. CASE \E f \in Fields(m) : x \in KeyIndexes(m, f)
    <3>1. PICK f \in Fields(m) : \/ x = FieldIndex(m, f) /\ f.key = "index"
                                 \/ x = FieldUnique(m, f) /\ f.key = "unique"
      BY <2>2 DEF KeyIndexes
    <3>2. CASE x = FieldIndex(m, f) /\ f.key = "index"
      <4>1. y = OnField(f.col)
        BY <2>1, <3>2, FormsAre
      <4> QED
        BY <3>2, <4>1 DEF KeysOf
    <3>3. CASE x = FieldUnique(m, f) /\ f.key = "unique"
      <4>1. y = UniqueOn(f.col, f.type)
        BY <2>1, <3>3, FormsAre
      <4> QED
        BY <3>3, <4>1 DEF KeysOf
    <3> QED
      BY <3>1, <3>2, <3>3
  <2>3. CASE \E f \in Fields(m) : x \in SpatialIndexes(m, f)
    BY <2>1, <2>3, FormsAre DEF SpatialIndexes, PlacesOf
  <2>4. CASE \E names \in m.unique_together : x = TogetherUnique(m, names)
    BY <2>1, <2>4, FormsAre DEF OptionsOf
  <2>5. CASE \E names \in m.index_together : x = TogetherIndex(m, names)
    BY <2>1, <2>5, FormsAre DEF OptionsOf
  <2>6. CASE \E c \in m.constraints : x = MetaUnique(m, c)
    BY <2>1, <2>6, FormsAre DEF OptionsOf
  <2>7. CASE \E c \in m.indexes : x = MetaIndex(m, c)
    BY <2>1, <2>7, FormsAre DEF OptionsOf
  <2> QED
    BY <1>1, <2>1, <2>2, <2>3, <2>4, <2>5, <2>6, <2>7 DEF Made
<1>3. KeysOf(Fields(m)) \subseteq Call(m)
  <2>1. \A f \in Fields(m) : f.key = "index" => FieldIndex(m, f) \in IndexesOf(m)
    BY <1>1 DEF Made, KeyIndexes
  <2>2. \A f \in Fields(m) : f.key = "unique" => FieldUnique(m, f) \in IndexesOf(m)
    BY <1>1 DEF Made, KeyIndexes
  <2>3. \A f \in Fields(m) : f.key = "index" => OnField(f.col) \in Call(m)
    BY <2>1, FormsAre DEF Call
  <2>4. \A f \in Fields(m) : f.key = "unique" => UniqueOn(f.col, f.type) \in Call(m)
    BY <2>2, FormsAre DEF Call
  <2> QED
    BY <2>3, <2>4 DEF KeysOf
<1>4. PlacesOf(m.table, Fields(m)) \subseteq Call(m)
  <2>1. \A f \in Fields(m) : Spatial(f) => SpatialIndex(m, SpatialPath(f)) \in IndexesOf(m)
    BY <1>1 DEF Made, SpatialIndexes
  <2> QED
    BY <2>1, FormsAre DEF Call, PlacesOf
<1>5. OptionsOf(m) \subseteq Call(m)
  <2>1. /\ \A names \in m.unique_together : TogetherUnique(m, names) \in IndexesOf(m)
        /\ \A names \in m.index_together : TogetherIndex(m, names) \in IndexesOf(m)
        /\ \A x \in m.constraints : MetaUnique(m, x) \in IndexesOf(m)
        /\ \A x \in m.indexes : MetaIndex(m, x) \in IndexesOf(m)
    BY <1>1 DEF Made
  <2> QED
    BY <2>1, FormsAre DEF Call, OptionsOf
<1> QED
  BY <1>2, <1>3, <1>4, <1>5

-----------------------------------------------------------------------------
(* What a model calls for can be told apart.                               *)

Known(p, m) ==
  /\ p \in Projects /\ m \in Model /\ Legal(p, m)
  /\ Quirks = {} /\ Separate(p) /\ Shaped(p, m)

LEMMA KnownIs ==
  ASSUME NEW p, NEW m, Known(p, m)
  PROVE  /\ m # None
         /\ Call(m) = KeysOf(Fields(m)) \cup PlacesOf(m.table, Fields(m)) \cup OptionsOf(m)
         /\ m.unique_together \subseteq p.together /\ m.index_together \subseteq p.together
         /\ m.constraints \subseteq p.meta /\ m.indexes \subseteq p.meta
         /\ \A s \in p.together : s \in Seq(Name) /\ 2 \in DOMAIN s
         /\ \A x \in p.meta : x.fields \in Seq(Name) \ {<<>>} /\ x.condition \in BOOLEAN
         /\ \A f, g \in Fields(m) : f.col = g.col => f = g
         /\ \A f \in Fields(m) : Spatial(f) => f.key = "none"
         /\ \A f \in Fields(m) : f.spatial => f.type # "place"
         /\ ~Twins(m)
         /\ \A s \in Composed(m) : s \in Seq(Name) /\ \A i \in DOMAIN s : s[i] \in FieldNames(m)
<1>1. /\ p \in Project /\ p \in Projects /\ m \in Model /\ Legal(p, m) /\ m # None
      /\ Sound(m) /\ Separate(p) /\ Quirks = {}
  BY SchemaEditorAssumption DEF Known, Legal
<1>2. Call(m) = KeysOf(Fields(m)) \cup PlacesOf(m.table, Fields(m)) \cup OptionsOf(m)
  BY <1>1, CallIs
<1>3. /\ m.unique_together \subseteq p.together /\ m.index_together \subseteq p.together
      /\ m.constraints \subseteq p.meta /\ m.indexes \subseteq p.meta
  BY <1>1 DEF Legal
<1>4. \A s \in p.together : s \in Seq(Name) /\ 2 \in DOMAIN s
  <2> TAKE s \in p.together
  <2>1. s \in Seq(Name) /\ Len(s) >= 2
    BY <1>1 DEF Project, Separate
  <2> QED
    BY <2>1
<1>5. \A x \in p.meta : x.fields \in Seq(Name) \ {<<>>} /\ x.condition \in BOOLEAN
  BY <1>1 DEF Project, MetaOption
<1>7. \A f, g \in Fields(m) : f.col = g.col => f = g
  BY <1>1 DEF Sound, Fields
<1>8. \A f \in Fields(m) : Spatial(f) => f.key = "none"
  BY <1>1 DEF Sound
<1>9. ASSUME NEW s \in Composed(m)
      PROVE  s \in Seq(Name) /\ \A i \in DOMAIN s : s[i] \in FieldNames(m)
  <2>1. s \in Seq(Name)
    BY <1>1, <1>3, <1>4, <1>5 DEF Composed, Uniques
  <2>2. Range(s) \subseteq FieldNames(m)
    BY <1>1 DEF Sound
  <2> QED
    BY <2>1, <2>2 DEF Range
<1>10. \A f \in Fields(m) : f.spatial => f.type # "place"
  <2> TAKE f \in Fields(m)
  <2>1. PICK s \in p.shape : f.type = s.type /\ f.spatial = s.spatial
    BY <1>1 DEF Known, Shaped
  <2>2. s \in FieldShape
    BY <1>1, <2>1 DEF Project
  <2> QED
    BY <2>1, <2>2 DEF FieldShape
<1>11. ~Twins(m)
  BY <1>1 DEF Sound
<1> QED
  BY <1>1, <1>2, <1>3, <1>4, <1>5, <1>7, <1>8, <1>9, <1>10, <1>11

\* A sequence of columns stands for one sequence of fields.
LEMMA PathsSame ==
  ASSUME NEW p, NEW m, Known(p, m), NEW s \in Composed(m), NEW t \in Composed(m)
  PROVE  /\ Paths(m, s) = Paths(m, t) => s = t
         /\ ColumnsOf(m, s) = ColumnsOf(m, t) => s = t
<1>1. /\ s \in Seq(Name) /\ \A i \in DOMAIN s : s[i] \in FieldNames(m)
      /\ t \in Seq(Name) /\ \A i \in DOMAIN t : t[i] \in FieldNames(m)
  BY KnownIs
<1>2. /\ DOMAIN Paths(m, s) = DOMAIN s /\ DOMAIN Paths(m, t) = DOMAIN t
      /\ DOMAIN ColumnsOf(m, s) = DOMAIN s /\ DOMAIN ColumnsOf(m, t) = DOMAIN t
      /\ \A i \in DOMAIN s : Paths(m, s)[i] = <<m.fields[s[i]].col>>
      /\ \A i \in DOMAIN t : Paths(m, t)[i] = <<m.fields[t[i]].col>>
      /\ \A i \in DOMAIN s : ColumnsOf(m, s)[i] = m.fields[s[i]].col
      /\ \A i \in DOMAIN t : ColumnsOf(m, t)[i] = m.fields[t[i]].col
  BY DEF Paths, ColumnsOf
<1>3. \A n, k \in FieldNames(m) : m.fields[n].col = m.fields[k].col => n = k
  BY KnownIs DEF Known, Legal, Sound
<1>4. ASSUME DOMAIN s = DOMAIN t, \A i \in DOMAIN s : s[i] = t[i] PROVE s = t
  BY <1>1, <1>4
<1>5. ASSUME Paths(m, s) = Paths(m, t) PROVE s = t
  <2>1. DOMAIN s = DOMAIN t
    BY <1>2, <1>5
  <2>2. ASSUME NEW i \in DOMAIN s PROVE s[i] = t[i]
    <3>1. <<m.fields[s[i]].col>> = <<m.fields[t[i]].col>>
      BY <1>2, <1>5, <2>1
    <3>2. m.fields[s[i]].col = m.fields[t[i]].col
      BY <3>1
    <3> QED
      BY <1>1, <1>3, <2>1, <3>2
  <2> QED
    BY <1>4, <2>1, <2>2
<1>6. ASSUME ColumnsOf(m, s) = ColumnsOf(m, t) PROVE s = t
  <2>1. DOMAIN s = DOMAIN t
    BY <1>2, <1>6
  <2>2. ASSUME NEW i \in DOMAIN s PROVE s[i] = t[i]
    BY <1>1, <1>2, <1>3, <1>6, <2>1
  <2> QED
    BY <1>4, <2>1, <2>2
<1> QED
  BY <1>5, <1>6

\* How the indexes of fields look.
KeyLook(y, f) ==
  /\ \/ f.key = "index" /\ y = OnField(f.col)
     \/ f.key = "unique" /\ y = UniqueOn(f.col, f.type)
  /\ y.geo = FALSE /\ y.paths = <<<<f.col>>>> /\ y.unique = (f.key = "unique")
  /\ y.name[1] = f.key /\ y.name[2] = <<f.col>>
  /\ ~Conditional(y)

LEMMA KeyIs ==
  ASSUME NEW F, NEW y \in KeysOf(F)
  PROVE  \E f \in F : KeyLook(y, f)
<1>1. CASE \E f \in F : f.key = "index" /\ y = OnField(f.col)
  <2>1. PICK f \in F : f.key = "index" /\ y = OnField(f.col)
    BY <1>1
  <2>2. /\ y.name = <<"index", <<f.col>>>> /\ y.paths = <<<<f.col>>>>
        /\ y.unique = FALSE /\ y.geo = FALSE /\ ~Conditional(y)
    BY <2>1, OnFieldLooks
  <2>3. y.name[1] = "index" /\ y.name[2] = <<f.col>>
    BY <2>2
  <2> QED
    BY <2>1, <2>2, <2>3 DEF KeyLook
<1>2. CASE \E f \in F : f.key = "unique" /\ y = UniqueOn(f.col, f.type)
  <2>1. PICK f \in F : f.key = "unique" /\ y = UniqueOn(f.col, f.type)
    BY <1>2
  <2>2. /\ y.name = <<"unique", <<f.col>>>> /\ y.paths = <<<<f.col>>>>
        /\ y.unique = TRUE /\ y.geo = FALSE /\ ~Conditional(y)
    BY <2>1, UniqueOnLooks
  <2>3. y.name[1] = "unique" /\ y.name[2] = <<f.col>>
    BY <2>2
  <2> QED
    BY <2>1, <2>2, <2>3 DEF KeyLook
<1> QED
  BY <1>1, <1>2 DEF KeysOf

PlaceLook(table, y, f) ==
  /\ Spatial(f) /\ y = SpatialAt(table, SpatialPath(f))
  /\ y.geo = TRUE /\ y.unique = FALSE /\ y.paths = <<SpatialPath(f)>>
  /\ y.name = <<"spatial", table, SpatialPath(f)>>
  /\ y.name[1] = "spatial" /\ y.name[3] = SpatialPath(f)

LEMMA PlaceIs ==
  ASSUME NEW table, NEW F, NEW y \in PlacesOf(table, F)
  PROVE  \E f \in F : PlaceLook(table, y, f)
<1>1. PICK f \in F : Spatial(f) /\ y = SpatialAt(table, SpatialPath(f))
  BY DEF PlacesOf
<1>2. PICK path : path = SpatialPath(f)
  OBVIOUS
<1>3. /\ y.geo = TRUE /\ y.paths = <<path>> /\ y.name = <<"spatial", table, path>>
      /\ y.unique = FALSE
  BY <1>1, <1>2, SpatialAtLooks
<1>4. y.name[1] = "spatial" /\ y.name[3] = path
  BY <1>3
<1> QED
  BY <1>1, <1>2, <1>3, <1>4 DEF PlaceLook

\* How the members of each kind of option look.
OverLook(p, m, y, s) ==
  /\ y = Over(m, s) /\ s \in m.unique_together /\ s \in Composed(m) /\ s \in p.together
  /\ y.geo = FALSE /\ y.unique = TRUE /\ y.paths = Paths(m, s)
  /\ y.name[1] = "unique" /\ y.name[2] = ColumnsOf(m, s)
  /\ ~Conditional(y)

BesideLook(p, m, y, s) ==
  /\ y = Beside(m, s) /\ s \in m.index_together /\ s \in Composed(m) /\ s \in p.together
  /\ y.geo = FALSE /\ y.unique = FALSE /\ y.paths = Paths(m, s)
  /\ y.name[1] = "together" /\ y.name[2] = s
  /\ ~Conditional(y)

ConstraintLook(p, m, y, x) ==
  /\ y = MetaUnique(m, x) /\ x \in m.constraints /\ x.fields \in Composed(m) /\ x \in p.meta
  /\ y.geo = FALSE /\ y.unique = TRUE /\ y.paths = Paths(m, x.fields)
  /\ y.name = ConstraintName(x)
  /\ y.name[1] = "meta" /\ y.name[2] = "constraint" /\ y.name[3] = x.name
  /\ Conditional(y) <=> x.condition

IndexLook(p, m, y, x) ==
  /\ y = MetaIndex(m, x) /\ x \in m.indexes /\ x.fields \in Composed(m) /\ x \in p.meta
  /\ y.geo = FALSE /\ y.unique = FALSE /\ y.paths = Paths(m, x.fields)
  /\ y.name = IndexName(x)
  /\ y.name[1] = "meta" /\ y.name[2] = "index" /\ y.name[3] = x.name
  /\ Conditional(y) <=> x.condition

LEMMA LooksAre ==
  ASSUME NEW p, NEW m, Known(p, m)
  PROVE  /\ \A s \in m.unique_together : OverLook(p, m, Over(m, s), s)
         /\ \A s \in m.index_together : BesideLook(p, m, Beside(m, s), s)
         /\ \A x \in m.constraints : ConstraintLook(p, m, MetaUnique(m, x), x)
         /\ \A x \in m.indexes : IndexLook(p, m, MetaIndex(m, x), x)
<1>1. /\ \A s \in m.unique_together : s \in Composed(m) /\ s \in p.together
      /\ \A s \in m.index_together : s \in Composed(m) /\ s \in p.together
      /\ \A x \in m.constraints : x.fields \in Composed(m) /\ x \in p.meta
      /\ \A x \in m.indexes : x.fields \in Composed(m) /\ x \in p.meta
  BY KnownIs DEF Composed, Uniques
<1>2. ASSUME NEW s \in m.unique_together PROVE OverLook(p, m, Over(m, s), s)
  <2>1. PICK y : y = Over(m, s)
    OBVIOUS
  <2>2. /\ y.geo = FALSE /\ y.unique = TRUE /\ y.paths = Paths(m, s)
        /\ y.name = <<"unique", ColumnsOf(m, s)>> /\ ~Conditional(y)
    BY <2>1, TogetherLooks, TogetherUnconditional
  <2>3. y.name[1] = "unique" /\ y.name[2] = ColumnsOf(m, s)
    BY <2>2
  <2> QED
    BY <1>1, <2>1, <2>2, <2>3 DEF OverLook
<1>3. ASSUME NEW s \in m.index_together PROVE BesideLook(p, m, Beside(m, s), s)
  <2>1. PICK y : y = Beside(m, s)
    OBVIOUS
  <2>2. /\ y.geo = FALSE /\ y.unique = FALSE /\ y.paths = Paths(m, s)
        /\ y.name = <<"together", s>> /\ ~Conditional(y)
    BY <2>1, TogetherLooks, TogetherUnconditional
  <2>3. y.name[1] = "together" /\ y.name[2] = s
    BY <2>2
  <2> QED
    BY <1>1, <2>1, <2>2, <2>3 DEF BesideLook
<1>4. ASSUME NEW x \in m.constraints PROVE ConstraintLook(p, m, MetaUnique(m, x), x)
  <2>1. PICK y : y = MetaUnique(m, x)
    OBVIOUS
  <2>2. /\ y.geo = FALSE /\ y.unique = TRUE /\ y.paths = Paths(m, x.fields)
        /\ y.name = <<"meta", "constraint", x.name>> /\ (Conditional(y) <=> x.condition)
    <3>1. IsEntry(x)
      BY <1>1, KnownIs DEF IsEntry
    <3>2. /\ MetaUnique(m, x).name = <<"meta", "constraint", x.name>>
          /\ MetaUnique(m, x).paths = Paths(m, x.fields)
          /\ MetaUnique(m, x).unique = TRUE /\ MetaUnique(m, x).geo = FALSE
          /\ Conditional(MetaUnique(m, x)) <=> x.condition
      BY <3>1, MetaLooks, Zenon
    <3> QED
      BY <2>1, <3>2, Zenon
  <2>3. y.name[1] = "meta" /\ y.name[2] = "constraint" /\ y.name[3] = x.name
    BY <2>2
  <2> QED
    BY <1>1, <2>1, <2>2, <2>3 DEF ConstraintLook, ConstraintName
<1>5. ASSUME NEW x \in m.indexes PROVE IndexLook(p, m, MetaIndex(m, x), x)
  <2>1. PICK y : y = MetaIndex(m, x)
    OBVIOUS
  <2>2. /\ y.geo = FALSE /\ y.unique = FALSE /\ y.paths = Paths(m, x.fields)
        /\ y.name = <<"meta", "index", x.name>> /\ (Conditional(y) <=> x.condition)
    <3>1. IsEntry(x)
      BY <1>1, KnownIs DEF IsEntry
    <3>2. /\ MetaIndex(m, x).name = <<"meta", "index", x.name>>
          /\ MetaIndex(m, x).paths = Paths(m, x.fields)
          /\ MetaIndex(m, x).unique = FALSE /\ MetaIndex(m, x).geo = FALSE
          /\ Conditional(MetaIndex(m, x)) <=> x.condition
      BY <3>1, MetaLooks, Zenon
    <3> QED
      BY <2>1, <3>2, Zenon
  <2>3. y.name[1] = "meta" /\ y.name[2] = "index" /\ y.name[3] = x.name
    BY <2>2
  <2> QED
    BY <1>1, <2>1, <2>2, <2>3 DEF IndexLook, IndexName
<1> QED
  BY <1>2, <1>3, <1>4, <1>5

LEMMA OptionIs ==
  ASSUME NEW p, NEW m, Known(p, m), NEW y \in OptionsOf(m)
  PROVE  \/ \E s : OverLook(p, m, y, s)
         \/ \E s : BesideLook(p, m, y, s)
         \/ \E x : ConstraintLook(p, m, y, x)
         \/ \E x : IndexLook(p, m, y, x)
BY LooksAre DEF OptionsOf

\* What sets the options apart from the rest.
LEMMA OptionLook ==
  ASSUME NEW p, NEW m, Known(p, m), NEW y \in OptionsOf(m)
  PROVE  /\ y.geo = FALSE
         /\ y.name[1] \in {"unique", "together", "meta"}
         /\ y.name[1] = "unique" => 2 \in DOMAIN y.name[2]
         /\ y.name[1] # "meta" => 2 \in DOMAIN y.paths
         /\ y.name[1] = "meta" => \/ \E x : ConstraintLook(p, m, y, x)
                                  \/ \E x : IndexLook(p, m, y, x)
<1>1. /\ \A s : DOMAIN Paths(m, s) = DOMAIN s /\ DOMAIN ColumnsOf(m, s) = DOMAIN s
      /\ \A s \in p.together : 2 \in DOMAIN s
  BY KnownIs DEF Paths, ColumnsOf
<1>2. CASE \E s : OverLook(p, m, y, s)
  BY <1>1, <1>2 DEF OverLook
<1>3. CASE \E s : BesideLook(p, m, y, s)
  BY <1>1, <1>3 DEF BesideLook
<1>4. CASE \E x : ConstraintLook(p, m, y, x)
  <2>1. y.geo = FALSE /\ y.name[1] = "meta"
    BY <1>4 DEF ConstraintLook
  <2> QED
    BY <1>4, <2>1
<1>5. CASE \E x : IndexLook(p, m, y, x)
  <2>1. y.geo = FALSE /\ y.name[1] = "meta"
    BY <1>5 DEF IndexLook
  <2> QED
    BY <1>5, <2>1
<1> QED
  BY <1>2, <1>3, <1>4, <1>5, OptionIs

LEMMA OptionsTold ==
  ASSUME NEW p, NEW m, Known(p, m), NEW y \in OptionsOf(m), NEW z \in OptionsOf(m),
         y.name = z.name \/ Alike(y, z)
  PROVE  y = z
<1>1. /\ \A s \in Composed(m), t \in Composed(m) : Paths(m, s) = Paths(m, t) => s = t
      /\ \A s \in Composed(m), t \in Composed(m) : ColumnsOf(m, s) = ColumnsOf(m, t) => s = t
  BY PathsSame
<1>2. /\ \A v, w \in p.meta : v.name = w.name => v = w
      /\ \A v \in m.constraints, s \in m.unique_together : ~v.condition => s # v.fields
      /\ \A v \in m.indexes, s \in m.index_together : ~v.condition => s # v.fields
      /\ \A v, w \in m.constraints : v.fields = w.fields /\ v.condition = w.condition => v = w
      /\ \A v, w \in m.indexes : v.fields = w.fields /\ v.condition = w.condition => v = w
      /\ \A v \in p.meta : v.condition \in BOOLEAN
  <2>1. ~Twins(m) /\ \A v \in p.meta : v.condition \in BOOLEAN
    BY KnownIs
  <2>2. \A v, w \in p.meta : v.name = w.name => v = w
    BY DEF Known, Separate
  <2> QED
    BY <2>1, <2>2 DEF Twins
<1>3. \/ y.paths = z.paths /\ y.unique = z.unique /\ (Conditional(y) <=> Conditional(z))
      \/ y.name[1] = z.name[1] /\ y.name[2] = z.name[2] /\ y.name[3] = z.name[3]
  BY DEF Alike, Conditional
<1>4. CASE \E s : OverLook(p, m, y, s)
  <2>1. PICK s : OverLook(p, m, y, s)
    BY <1>4
  <2>2. CASE \E t : OverLook(p, m, z, t)
    BY <1>1, <1>3, <2>1, <2>2 DEF OverLook
  <2>3. CASE \E t : BesideLook(p, m, z, t)
    BY <1>3, <2>1, <2>3 DEF OverLook, BesideLook
  <2>4. CASE \E x : ConstraintLook(p, m, z, x)
    BY <1>1, <1>2, <1>3, <2>1, <2>4 DEF OverLook, ConstraintLook
  <2>5. CASE \E x : IndexLook(p, m, z, x)
    BY <1>3, <2>1, <2>5 DEF OverLook, IndexLook
  <2> QED
    BY <2>2, <2>3, <2>4, <2>5, OptionIs
<1>5. CASE \E s : BesideLook(p, m, y, s)
  <2>1. PICK s : BesideLook(p, m, y, s)
    BY <1>5
  <2>2. CASE \E t : OverLook(p, m, z, t)
    BY <1>3, <2>1, <2>2 DEF OverLook, BesideLook
  <2>3. CASE \E t : BesideLook(p, m, z, t)
    BY <1>1, <1>3, <2>1, <2>3 DEF BesideLook
  <2>4. CASE \E x : ConstraintLook(p, m, z, x)
    BY <1>3, <2>1, <2>4 DEF BesideLook, ConstraintLook
  <2>5. CASE \E x : IndexLook(p, m, z, x)
    BY <1>1, <1>2, <1>3, <2>1, <2>5 DEF BesideLook, IndexLook
  <2> QED
    BY <2>2, <2>3, <2>4, <2>5, OptionIs
<1>6. CASE \E x : ConstraintLook(p, m, y, x)
  <2>1. PICK x : ConstraintLook(p, m, y, x)
    BY <1>6
  <2>2. CASE \E t : OverLook(p, m, z, t)
    BY <1>1, <1>2, <1>3, <2>1, <2>2 DEF OverLook, ConstraintLook
  <2>3. CASE \E t : BesideLook(p, m, z, t)
    BY <1>3, <2>1, <2>3 DEF BesideLook, ConstraintLook
  <2>4. CASE \E w : ConstraintLook(p, m, z, w)
    BY <1>1, <1>2, <1>3, <2>1, <2>4 DEF ConstraintLook
  <2>5. CASE \E w : IndexLook(p, m, z, w)
    BY <1>3, <2>1, <2>5 DEF ConstraintLook, IndexLook
  <2> QED
    BY <2>2, <2>3, <2>4, <2>5, OptionIs
<1>7. CASE \E x : IndexLook(p, m, y, x)
  <2>1. PICK x : IndexLook(p, m, y, x)
    BY <1>7
  <2>2. CASE \E t : OverLook(p, m, z, t)
    BY <1>3, <2>1, <2>2 DEF OverLook, IndexLook
  <2>3. CASE \E t : BesideLook(p, m, z, t)
    BY <1>1, <1>2, <1>3, <2>1, <2>3 DEF BesideLook, IndexLook
  <2>4. CASE \E w : ConstraintLook(p, m, z, w)
    BY <1>3, <2>1, <2>4 DEF ConstraintLook, IndexLook
  <2>5. CASE \E w : IndexLook(p, m, z, w)
    BY <1>1, <1>2, <1>3, <2>1, <2>5 DEF IndexLook
  <2> QED
    BY <2>2, <2>3, <2>4, <2>5, OptionIs
<1> QED
  BY <1>4, <1>5, <1>6, <1>7, OptionIs

\* Fields of the model, and others that may take their places: a unique index stays
\* if the type of its column does.
Keep(F) ==
  \A f, g \in F : f.key = "unique" /\ g.key = "unique" /\ f.col = g.col => f.type = g.type

LEMMA KeysTold ==
  ASSUME NEW F, Keep(F), NEW y \in KeysOf(F), NEW z \in KeysOf(F),
         y.name = z.name \/ Alike(y, z)
  PROVE  y = z
<1>1. PICK f \in F : KeyLook(y, f)
  BY KeyIs
<1>2. PICK g \in F : KeyLook(z, g)
  BY KeyIs
<1>3. f.col = g.col
  <2>1. y.paths = z.paths \/ y.name[2] = z.name[2]
    BY DEF Alike
  <2>2. <<<<f.col>>>> = <<<<g.col>>>> \/ <<f.col>> = <<g.col>>
    BY <1>1, <1>2, <2>1 DEF KeyLook
  <2> QED
    BY <2>2
<1>4. f.key = g.key
  <2>1. y.unique = z.unique \/ y.name[1] = z.name[1]
    BY DEF Alike
  <2> QED
    BY <1>1, <1>2, <2>1 DEF KeyLook
<1>5. f.key = "unique" => f.type = g.type
  BY <1>3, <1>4 DEF Keep
<1> QED
  BY <1>1, <1>2, <1>3, <1>4, <1>5 DEF KeyLook

LEMMA PlacesTold ==
  ASSUME NEW table, NEW F, NEW y \in PlacesOf(table, F), NEW z \in PlacesOf(table, F),
         y.name = z.name \/ Alike(y, z)
  PROVE  y = z
<1>1. PICK f \in F : PlaceLook(table, y, f)
  BY PlaceIs
<1>2. PICK g \in F : PlaceLook(table, z, g)
  BY PlaceIs
<1>3. PICK a, b : a = SpatialPath(f) /\ b = SpatialPath(g)
  OBVIOUS
<1>4. /\ y = SpatialAt(table, a) /\ y.paths = <<a>> /\ y.name[3] = a
      /\ z = SpatialAt(table, b) /\ z.paths = <<b>> /\ z.name[3] = b
  BY <1>1, <1>2, <1>3 DEF PlaceLook
<1>5. y.paths = z.paths \/ y.name[3] = z.name[3]
  BY DEF Alike
<1>6. <<a>> = <<b>> \/ a = b
  BY <1>4, <1>5
<1>7. a = b
  BY <1>6
<1> QED
  BY <1>4, <1>7

\* What sets the indexes of fields apart.
LEMMA KeysLook ==
  ASSUME NEW F, NEW y \in KeysOf(F)
  PROVE  /\ y.geo = FALSE /\ 2 \notin DOMAIN y.paths
         /\ y.name[1] \in {"index", "unique"} /\ 2 \notin DOMAIN y.name[2]
<1>1. PICK f \in F : KeyLook(y, f)
  BY KeyIs
<1>2. 2 \notin DOMAIN <<f.col>> /\ 2 \notin DOMAIN <<<<f.col>>>>
  OBVIOUS
<1> QED
  BY <1>1, <1>2 DEF KeyLook

LEMMA PlacesLook ==
  ASSUME NEW table, NEW F, NEW y \in PlacesOf(table, F)
  PROVE  y.geo = TRUE /\ y.name[1] = "spatial"
<1>1. PICK f \in F : PlaceLook(table, y, f)
  BY PlaceIs
<1> QED
  BY <1>1 DEF PlaceLook

\* An index on one column is on one field.
LEMMA OnePath ==
  ASSUME NEW p, NEW m, Known(p, m), NEW s \in Composed(m), NEW n \in FieldNames(m),
         Paths(m, s) = <<<<m.fields[n].col>>>>
  PROVE  s = <<n>>
<1>1. s \in Seq(Name) /\ \A i \in DOMAIN s : s[i] \in FieldNames(m)
  BY KnownIs
<1>2. DOMAIN Paths(m, s) = DOMAIN s /\ \A i \in DOMAIN s : Paths(m, s)[i] = <<m.fields[s[i]].col>>
  BY DEF Paths
<1>3. PICK l \in Nat : l = Len(s) /\ DOMAIN s = 1..l
  BY <1>1
<1>4. DOMAIN <<<<m.fields[n].col>>>> = {1}
  OBVIOUS
<1>5. 1..l = {1}
  BY <1>2, <1>3, <1>4
<1>6. l = 1
  <2>1. l \in 1..l \/ l = 0
    OBVIOUS
  <2>2. l # 0
    BY <1>5
  <2> QED
    BY <1>5, <2>1, <2>2
<1>7. 1 \in DOMAIN s
  BY <1>3, <1>6
<1>8. <<m.fields[s[1]].col>> = <<m.fields[n].col>>
  BY <1>2, <1>7
<1>9. m.fields[s[1]].col = m.fields[n].col
  BY <1>8
<1>10. s[1] = n
  BY <1>1, <1>7, <1>9, KnownIs DEF Known, Legal, Sound
<1> QED
  BY <1>1, <1>3, <1>6, <1>10

\* No entry of Meta asks for the index of one of these fields.
Alone(m, F) ==
  \A f \in F :
    /\ f.key = "unique" =>
         \A x \in m.constraints : Paths(m, x.fields) = <<<<f.col>>>> => x.condition
    /\ f.key = "index" =>
         \A x \in m.indexes : Paths(m, x.fields) = <<<<f.col>>>> => x.condition

LEMMA KeysAlone ==
  ASSUME NEW p, NEW m, Known(p, m)
  PROVE  Alone(m, Fields(m))
<1>1. /\ ~Twins(m) /\ m.constraints \subseteq p.meta /\ m.indexes \subseteq p.meta
      /\ \A x \in p.meta : x.condition \in BOOLEAN
  BY KnownIs
<1>2. /\ \A x \in m.constraints : x.fields \in Composed(m)
      /\ \A x \in m.indexes : x.fields \in Composed(m)
  BY DEF Composed, Uniques
<1>3. SUFFICES ASSUME NEW f \in Fields(m)
               PROVE  /\ f.key = "unique" =>
                           \A x \in m.constraints :
                             Paths(m, x.fields) = <<<<f.col>>>> => x.condition
                      /\ f.key = "index" =>
                           \A x \in m.indexes :
                             Paths(m, x.fields) = <<<<f.col>>>> => x.condition
  BY DEF Alone
<1>4. PICK n \in FieldNames(m) : f = m.fields[n]
  BY DEF Fields
<1>5. ASSUME f.key = "unique", NEW x \in m.constraints, Paths(m, x.fields) = <<<<f.col>>>>
      PROVE  x.condition
  <2>1. x.fields = <<n>>
    BY <1>2, <1>4, <1>5, OnePath
  <2>2. x.fields \in Keyed(m, "unique")
    BY <1>4, <1>5, <2>1 DEF Keyed
  <2> QED
    BY <1>1, <2>2 DEF Twins
<1>6. ASSUME f.key = "index", NEW x \in m.indexes, Paths(m, x.fields) = <<<<f.col>>>>
      PROVE  x.condition
  <2>1. x.fields = <<n>>
    BY <1>2, <1>4, <1>6, OnePath
  <2>2. x.fields \in Keyed(m, "index")
    BY <1>4, <1>6, <2>1 DEF Keyed
  <2> QED
    BY <1>1, <2>2 DEF Twins
<1> QED
  BY <1>5, <1>6

\* What an entry of Meta has on the column of such a field differs from its index.
LEMMA KeyApart ==
  ASSUME NEW p, NEW m, Known(p, m), NEW F, Alone(m, F), NEW y \in KeysOf(F),
         NEW z \in OptionsOf(m)
  PROVE  ~Alike(y, z) /\ ~Alike(z, y)
<1>1. SUFFICES ASSUME y.paths = z.paths, y.unique = z.unique,
                      Conditional(y) <=> Conditional(z)
               PROVE  FALSE
  BY DEF Alike, Conditional
<1>2. PICK f \in F : KeyLook(y, f)
  BY KeyIs
<1>3. 2 \notin DOMAIN z.paths
  BY <1>1, KeysLook
<1>4. \/ \E x : ConstraintLook(p, m, z, x)
      \/ \E x : IndexLook(p, m, z, x)
  BY <1>3, OptionLook
<1>5. CASE \E x : ConstraintLook(p, m, z, x)
  <2>1. PICK x : ConstraintLook(p, m, z, x)
    BY <1>5
  <2>2. f.key = "unique" /\ Paths(m, x.fields) = <<<<f.col>>>> /\ ~x.condition
    BY <1>1, <1>2, <2>1 DEF ConstraintLook, KeyLook
  <2> QED
    BY <2>1, <2>2 DEF ConstraintLook, Alone
<1>6. CASE \E x : IndexLook(p, m, z, x)
  <2>1. PICK x : IndexLook(p, m, z, x)
    BY <1>6
  <2>2. f.key = "index" /\ Paths(m, x.fields) = <<<<f.col>>>> /\ ~x.condition
    BY <1>1, <1>2, <2>1 DEF IndexLook, KeyLook
  <2> QED
    BY <2>1, <2>2 DEF IndexLook, Alone
<1> QED
  BY <1>4, <1>5, <1>6

LEMMA ToldApart ==
  ASSUME NEW p, NEW m, Known(p, m), NEW F, Keep(F), Alone(m, F)
  PROVE  Told(KeysOf(F) \cup PlacesOf(m.table, F) \cup OptionsOf(m))
<1> DEFINE K == KeysOf(F)
           P == PlacesOf(m.table, F)
           O == OptionsOf(m)
<1>1. \A y \in K : /\ y.geo = FALSE
                   /\ y.name[1] \in {"index", "unique"} /\ 2 \notin DOMAIN y.name[2]
  BY KeysLook
<1>2. \A y \in P : y.geo = TRUE /\ y.name[1] = "spatial"
  <2> TAKE y \in P
  <2> QED
    BY PlacesLook
<1>3. \A y \in O : /\ y.geo = FALSE
                   /\ y.name[1] \in {"unique", "together", "meta"}
                   /\ y.name[1] = "unique" => 2 \in DOMAIN y.name[2]
  BY OptionLook
<1>4. \A y, z \in K : y.name = z.name \/ Alike(y, z) => y = z
  BY KeysTold
<1>5. \A y, z \in P : y.name = z.name \/ Alike(y, z) => y = z
  BY PlacesTold
<1>6. \A y, z \in O : y.name = z.name \/ Alike(y, z) => y = z
  BY OptionsTold
<1>11. \A y \in K, z \in O : ~Alike(y, z) /\ ~Alike(z, y)
  BY KeyApart
<1> HIDE DEF K, P, O
<1>7. \A y \in K, z \in P : y.name # z.name /\ ~Alike(y, z) /\ ~Alike(z, y)
  BY <1>1, <1>2 DEF Alike
<1>8. \A y \in O, z \in P : y.name # z.name /\ ~Alike(y, z) /\ ~Alike(z, y)
  BY <1>2, <1>3 DEF Alike
<1>9. \A y \in K, z \in O : y.name # z.name /\ ~Alike(y, z) /\ ~Alike(z, y)
  BY <1>1, <1>3, <1>11
<1>10. Told(K \cup P \cup O)
  BY <1>4, <1>5, <1>6, <1>7, <1>8, <1>9 DEF Told
<1> QED
  BY <1>10 DEF K, P, O

-----------------------------------------------------------------------------
(* When a plan is fitted.                                                  *)

LEMMA MakesNewIs ==
  ASSUME NEW old, NEW new, NEW plan, NEW table, NEW S, NEW E,
         Range(plan) = E \cup AddAll(S), \A c \in E : c.do # "create_index",
         \A x \in S : Tabled(x, table),
         \A n : n \in new \ old <=> \E x \in S : Timeless(x) = n
  PROVE  MakesNew(old, new, plan)
<1>1. \A c \in Range(plan) : c.do = "create_index" => \E x \in S : c = AddIndex(x)
  BY DEF AddAll
<1>2. \A x \in S : /\ AddIndex(x) \in Range(plan) /\ AddIndex(x).do = "create_index"
                   /\ AddIndex(x).arg = x
  BY CommandIs DEF AddAll
<1>3. ASSUME NEW c \in Range(plan), c.do = "create_index"
      PROVE  IsIndex(c.arg) /\ Timeless(c.arg) \in new \ old
  <2>1. PICK x \in S : c = AddIndex(x)
    BY <1>1, <1>3
  <2>2. c.arg = x
    BY <1>2, <2>1
  <2> QED
    BY <2>2 DEF Tabled
<1>4. ASSUME NEW n \in new \ old PROVE \E c \in Range(plan) : Creates(c, n)
  <2>1. PICK x \in S : Timeless(x) = n
    OBVIOUS
  <2> QED
    BY <1>2, <2>1 DEF Creates
<1>5. ASSUME NEW c \in Range(plan), NEW d \in Range(plan), c.do = "create_index",
             Creates(d, Timeless(c.arg))
      PROVE  c = d
  <2>1. PICK x \in S : c = AddIndex(x)
    BY <1>1, <1>5
  <2>2. d.do = "create_index" /\ Timeless(d.arg) = Timeless(c.arg)
    BY <1>5 DEF Creates
  <2>3. PICK y \in S : d = AddIndex(y)
    BY <1>1, <2>2
  <2>4. Timeless(x) = Timeless(y)
    BY <1>2, <2>1, <2>2, <2>3
  <2>5. x = y
    BY <2>4, TimelessInjective
  <2> QED
    BY <2>1, <2>3, <2>5
<1> QED
  BY <1>3, <1>4, <1>5 DEF MakesNew

LEMMA DropsNothing ==
  ASSUME NEW from, NEW to, NEW plan, \A c \in Range(plan) : c.do \notin Drops,
         Call(from) \subseteq Call(to) \/ \E c \in Range(plan) : c.do = "drop_collection"
  PROVE  DropsOld(from, to, plan)
<1>1. \A c \in Range(plan) : \A o : ~Hits(c, from, to, o) /\ c.do # "drop_index"
  BY DEF Hits, Drops
<1> QED
  BY <1>1 DEF DropsOld

LEMMA MovesNothing ==
  ASSUME NEW from, NEW to, NEW plan, \A c \in Range(plan) : c.do \notin OnCollection,
         TableOf(from) = TableOf(to)
  PROVE  MovesCollection(from, to, plan)
BY DEF MovesCollection, OnCollection

LEMMA OnceNone ==
  ASSUME NEW s, NEW A, \A c \in Range(s) : c.do \notin A
  PROVE  OnceIn(s, A)
BY DEF OnceIn, Range

LEMMA OnceOne ==
  ASSUME NEW c, NEW A
  PROVE  OnceIn(<<c>>, A)
BY DEF OnceIn

LEMMA OnceEach ==
  ASSUME NEW S, IsFiniteSet(S), NEW A
  PROVE  OnceIn(ForEach(S), A)
BY SetToSeqIs DEF ForEach, OnceIn

LEMMA OnceWhen ==
  ASSUME NEW P, NEW s, NEW A, OnceIn(s, A)
  PROVE  OnceIn(When(P, s), A)
BY DEF When, OnceIn

LEMMA OnceConcat ==
  ASSUME NEW s, NEW t, IsSeq(s), IsSeq(t), NEW A, OnceIn(s, A), OnceIn(t, A),
         \A c \in Range(s), d \in Range(t) : c.do \in A => c # d
  PROVE  OnceIn(s \o t, A)
<1> DEFINE u == s \o t
<1>1. /\ Len(s) \in Nat /\ Len(t) \in Nat /\ DOMAIN s = 1..Len(s) /\ DOMAIN t = 1..Len(t)
      /\ DOMAIN u = 1..(Len(s) + Len(t))
      /\ \A i \in 1..Len(s) : u[i] = s[i]
      /\ \A i \in 1..Len(t) : u[Len(s) + i] = t[i]
  BY ConcatIs DEF IsSeq
<1> HIDE DEF u
<1>2. ASSUME NEW i \in DOMAIN u
      PROVE  \/ i \in DOMAIN s /\ u[i] = s[i] /\ u[i] \in Range(s)
             \/ i - Len(s) \in DOMAIN t /\ u[i] = t[i - Len(s)] /\ u[i] \in Range(t)
  <2>1. CASE i <= Len(s)
    <3>1. i \in DOMAIN s /\ u[i] = s[i]
      BY <1>1, <1>2, <2>1
    <3> QED
      BY <3>1 DEF Range
  <2>2. CASE i > Len(s)
    <3>1. PICK k : k = i - Len(s)
      OBVIOUS
    <3>2. k \in 1..Len(t) /\ i = Len(s) + k
      BY <1>1, <1>2, <2>2, <3>1
    <3>3. k \in DOMAIN t /\ u[i] = t[k]
      BY <1>1, <3>2
    <3> QED
      BY <3>1, <3>3 DEF Range
  <2> QED
    BY <1>1, <1>2, <2>1, <2>2
<1>3. SUFFICES ASSUME NEW i \in DOMAIN u, NEW j \in DOMAIN u, u[i] = u[j], u[i].do \in A
               PROVE  i = j
  BY DEF OnceIn, u
<1>4. i \in Int /\ j \in Int
  BY <1>1
<1>5. CASE i \in DOMAIN s /\ u[i] = s[i] /\ u[i] \in Range(s)
  <2>1. u[j] \notin Range(t)
    BY <1>3, <1>5
  <2>2. j \in DOMAIN s /\ u[j] = s[j]
    BY <1>2, <2>1
  <2> QED
    BY <1>3, <1>5, <2>2 DEF OnceIn
<1>6. CASE i - Len(s) \in DOMAIN t /\ u[i] = t[i - Len(s)] /\ u[i] \in Range(t)
  <2>1. u[j] \notin Range(s)
    BY <1>3, <1>6
  <2>2. j - Len(s) \in DOMAIN t /\ u[j] = t[j - Len(s)]
    BY <1>2, <2>1
  <2>3. i - Len(s) = j - Len(s)
    BY <1>3, <1>6, <2>2 DEF OnceIn
  <2> QED
    BY <1>1, <1>4, <2>3
<1> QED
  BY <1>2, <1>5, <1>6

-----------------------------------------------------------------------------
(* How the calls of two models differ.                                     *)

\* The same fields, and some of the options.
Within(m, u) ==
  /\ m.fields = u.fields /\ m.table = u.table
  /\ m.unique_together \subseteq u.unique_together
  /\ m.index_together \subseteq u.index_together
  /\ m.constraints \subseteq u.constraints /\ m.indexes \subseteq u.indexes

LEMMA SameFields ==
  ASSUME NEW m, NEW u, m.fields = u.fields
  PROVE  /\ Fields(m) = Fields(u) /\ FieldNames(m) = FieldNames(u)
         /\ \A s : /\ Over(m, s) = Over(u, s) /\ Beside(m, s) = Beside(u, s)
                   /\ Paths(m, s) = Paths(u, s)
         /\ \A x : MetaUnique(m, x) = MetaUnique(u, x) /\ MetaIndex(m, x) = MetaIndex(u, x)
BY DEF Fields, FieldNames, Over, Beside, ColumnsOf, Paths, UniqueFilter, Condition, MetaUnique,
       MetaIndex

LEMMA WithinIs ==
  ASSUME NEW p, NEW u, Known(p, u), NEW m, Within(m, u), NEW y \in OptionsOf(m)
  PROVE  /\ y \in OptionsOf(u)
         /\ \/ \E s \in m.unique_together : OverLook(p, u, y, s)
            \/ \E s \in m.index_together : BesideLook(p, u, y, s)
            \/ \E x \in m.constraints : ConstraintLook(p, u, y, x)
            \/ \E x \in m.indexes : IndexLook(p, u, y, x)
<1>1. /\ \A s \in m.unique_together : Over(m, s) = Over(u, s) /\ s \in u.unique_together
      /\ \A s \in m.index_together : Beside(m, s) = Beside(u, s) /\ s \in u.index_together
      /\ \A x \in m.constraints : MetaUnique(m, x) = MetaUnique(u, x) /\ x \in u.constraints
      /\ \A x \in m.indexes : MetaIndex(m, x) = MetaIndex(u, x) /\ x \in u.indexes
  BY SameFields DEF Within
<1>2. y \in OptionsOf(u)
  BY <1>1 DEF OptionsOf
<1> QED
  BY <1>1, <1>2, LooksAre DEF OptionsOf

\* One option is behind an index.
LEMMA LooksOnce ==
  ASSUME NEW p, NEW u, Known(p, u), NEW y
  PROVE  /\ \A s, t : OverLook(p, u, y, s) /\ OverLook(p, u, y, t) => s = t
         /\ \A s, t : BesideLook(p, u, y, s) /\ BesideLook(p, u, y, t) => s = t
         /\ \A x, w : ConstraintLook(p, u, y, x) /\ ConstraintLook(p, u, y, w) => x = w
         /\ \A x, w : IndexLook(p, u, y, x) /\ IndexLook(p, u, y, w) => x = w
         /\ \A s, t : ~(OverLook(p, u, y, s) /\ BesideLook(p, u, y, t))
         /\ \A s, x : ~(OverLook(p, u, y, s) /\ ConstraintLook(p, u, y, x))
         /\ \A s, x : ~(OverLook(p, u, y, s) /\ IndexLook(p, u, y, x))
         /\ \A s, x : ~(BesideLook(p, u, y, s) /\ ConstraintLook(p, u, y, x))
         /\ \A s, x : ~(BesideLook(p, u, y, s) /\ IndexLook(p, u, y, x))
         /\ \A x, w : ~(ConstraintLook(p, u, y, x) /\ IndexLook(p, u, y, w))
<1>1. ASSUME NEW s, NEW t, OverLook(p, u, y, s), OverLook(p, u, y, t) PROVE s = t
  <2>1. s \in Composed(u) /\ t \in Composed(u) /\ ColumnsOf(u, s) = ColumnsOf(u, t)
    BY <1>1 DEF OverLook
  <2> QED
    BY <2>1, PathsSame
<1>2. \A s, t : BesideLook(p, u, y, s) /\ BesideLook(p, u, y, t) => s = t
  BY DEF BesideLook
<1>3. \A x, w \in p.meta : x.name = w.name => x = w
  BY DEF Known, Separate
<1>4. \A x, w : ConstraintLook(p, u, y, x) /\ ConstraintLook(p, u, y, w) => x = w
  BY <1>3 DEF ConstraintLook
<1>5. \A x, w : IndexLook(p, u, y, x) /\ IndexLook(p, u, y, w) => x = w
  BY <1>3 DEF IndexLook
<1>6. /\ \A s : OverLook(p, u, y, s) => y.name[1] = "unique"
      /\ \A s : BesideLook(p, u, y, s) => y.name[1] = "together"
      /\ \A x : ConstraintLook(p, u, y, x) => y.name[1] = "meta" /\ y.name[2] = "constraint"
      /\ \A x : IndexLook(p, u, y, x) => y.name[1] = "meta" /\ y.name[2] = "index"
  BY DEF OverLook, BesideLook, ConstraintLook, IndexLook
<1> QED
  BY <1>1, <1>2, <1>4, <1>5, <1>6

\* Fields and options never call for the same index.
LEMMA KindsApart ==
  ASSUME NEW p, NEW m, Known(p, m), NEW F, NEW table
  PROVE  /\ \A y \in KeysOf(F) : y \notin OptionsOf(m) /\ y \notin PlacesOf(table, F)
         /\ \A y \in PlacesOf(table, F) : y \notin OptionsOf(m)
<1> DEFINE K == KeysOf(F)
           P == PlacesOf(table, F)
           O == OptionsOf(m)
<1>1. \A y \in K : y.name[1] \in {"index", "unique"} /\ 2 \notin DOMAIN y.name[2]
  BY KeysLook
<1>2. \A y \in P : y.name[1] = "spatial"
  BY PlacesLook
<1>3. \A y \in O : /\ y.name[1] \in {"unique", "together", "meta"}
                   /\ y.name[1] = "unique" => 2 \in DOMAIN y.name[2]
  BY OptionLook
<1> HIDE DEF K, P, O
<1>4. (\A y \in K : y \notin O /\ y \notin P) /\ \A y \in P : y \notin O
  BY <1>1, <1>2, <1>3
<1> QED
  BY <1>4 DEF K, P, O

OptionsBut(u, b, a) ==
  {Over(u, s) : s \in b.unique_together \ a.unique_together}
    \cup {Beside(u, s) : s \in b.index_together \ a.index_together}
    \cup {MetaUnique(u, x) : x \in b.constraints \ a.constraints}
    \cup {MetaIndex(u, x) : x \in b.indexes \ a.indexes}

LEMMA OptionsDiffer ==
  ASSUME NEW p, NEW u, Known(p, u), NEW a, Known(p, a), Within(a, u),
         NEW b, Known(p, b), Within(b, u)
  PROVE  \A n : n \in Call(b) \ Call(a) <=> n \in OptionsBut(u, b, a)
<1> DEFINE K == KeysOf(Fields(u))
           P == PlacesOf(u.table, Fields(u))
<1>1. /\ Fields(a) = Fields(u) /\ Fields(b) = Fields(u)
      /\ a.table = u.table /\ b.table = u.table
  BY SameFields DEF Within
<1>2. Call(a) = K \cup P \cup OptionsOf(a) /\ Call(b) = K \cup P \cup OptionsOf(b)
  BY <1>1, KnownIs
<1>3. \A y \in OptionsOf(u) : y \notin K /\ y \notin P
  BY KindsApart
<1>4. /\ \A s : Over(a, s) = Over(u, s) /\ Over(b, s) = Over(u, s)
      /\ \A s : Beside(a, s) = Beside(u, s) /\ Beside(b, s) = Beside(u, s)
      /\ \A x : MetaUnique(a, x) = MetaUnique(u, x) /\ MetaUnique(b, x) = MetaUnique(u, x)
      /\ \A x : MetaIndex(a, x) = MetaIndex(u, x) /\ MetaIndex(b, x) = MetaIndex(u, x)
  BY SameFields DEF Within
<1> HIDE DEF K, P
<1>5. ASSUME NEW n \in Call(b) \ Call(a) PROVE n \in OptionsBut(u, b, a)
  <2>1. n \in OptionsOf(b) /\ n \notin OptionsOf(a)
    BY <1>2, <1>5
  <2>2. /\ \A s \in a.unique_together : n # Over(u, s)
        /\ \A s \in a.index_together : n # Beside(u, s)
        /\ \A x \in a.constraints : n # MetaUnique(u, x)
        /\ \A x \in a.indexes : n # MetaIndex(u, x)
    BY <1>4, <2>1 DEF OptionsOf
  <2> QED
    BY <1>4, <2>1, <2>2 DEF OptionsOf, OptionsBut
<1>6. ASSUME NEW n \in OptionsOf(b), n \notin OptionsOf(a) PROVE n \in Call(b) \ Call(a)
  <2>1. n \in OptionsOf(u)
    BY <1>6, WithinIs
  <2> QED
    BY <1>2, <1>3, <1>6, <2>1
<1>7. \A n \in OptionsOf(a) :
        \/ \E s \in a.unique_together : OverLook(p, u, n, s)
        \/ \E s \in a.index_together : BesideLook(p, u, n, s)
        \/ \E x \in a.constraints : ConstraintLook(p, u, n, x)
        \/ \E x \in a.indexes : IndexLook(p, u, n, x)
  BY WithinIs
<1>8. ASSUME NEW n \in OptionsBut(u, b, a) PROVE n \in OptionsOf(b) /\ n \notin OptionsOf(a)
  <2>1. CASE \E s \in b.unique_together \ a.unique_together : n = Over(u, s)
    <3>1. PICK s \in b.unique_together \ a.unique_together : n = Over(u, s)
      BY <2>1
    <3>2. n = Over(b, s) /\ n \in OptionsOf(b)
      BY <1>4, <3>1 DEF OptionsOf
    <3>3. OverLook(p, u, n, s)
      BY <3>1, LooksAre DEF Within
    <3> QED
      BY <1>7, <3>1, <3>2, <3>3, LooksOnce
  <2>2. CASE \E s \in b.index_together \ a.index_together : n = Beside(u, s)
    <3>1. PICK s \in b.index_together \ a.index_together : n = Beside(u, s)
      BY <2>2
    <3>2. n = Beside(b, s) /\ n \in OptionsOf(b)
      BY <1>4, <3>1 DEF OptionsOf
    <3>3. BesideLook(p, u, n, s)
      BY <3>1, LooksAre DEF Within
    <3> QED
      BY <1>7, <3>1, <3>2, <3>3, LooksOnce
  <2>3. CASE \E x \in b.constraints \ a.constraints : n = MetaUnique(u, x)
    <3>1. PICK x \in b.constraints \ a.constraints : n = MetaUnique(u, x)
      BY <2>3
    <3>2. n = MetaUnique(b, x) /\ n \in OptionsOf(b)
      BY <1>4, <3>1 DEF OptionsOf
    <3>3. ConstraintLook(p, u, n, x)
      BY <3>1, LooksAre DEF Within
    <3> QED
      BY <1>7, <3>1, <3>2, <3>3, LooksOnce
  <2>4. CASE \E x \in b.indexes \ a.indexes : n = MetaIndex(u, x)
    <3>1. PICK x \in b.indexes \ a.indexes : n = MetaIndex(u, x)
      BY <2>4
    <3>2. n = MetaIndex(b, x) /\ n \in OptionsOf(b)
      BY <1>4, <3>1 DEF OptionsOf
    <3>3. IndexLook(p, u, n, x)
      BY <3>1, LooksAre DEF Within
    <3> QED
      BY <1>7, <3>1, <3>2, <3>3, LooksOnce
  <2> QED
    BY <2>1, <2>2, <2>3, <2>4 DEF OptionsBut
<1> QED
  BY <1>5, <1>6, <1>8

\* The fields of two models: those of both, and those of one.
Parts(a, b, R, A, B) ==
  /\ Fields(a) = R \cup A /\ Fields(b) = R \cup B
  /\ \A r \in R, x \in A \cup B : r.col # x.col

LEMMA FieldsDiffer ==
  ASSUME NEW p, NEW a, Known(p, a), NEW b, Known(p, b), b.table = a.table,
         OptionsOf(b) = OptionsOf(a), NEW R, NEW A, NEW B, Parts(a, b, R, A, B)
  PROVE  \A n : n \in Call(b) \ Call(a) <=>
                \/ n \in KeysOf(B) \ KeysOf(A)
                \/ n \in PlacesOf(a.table, B) \ PlacesOf(a.table, A)
<1>0. /\ Fields(a) = R \cup A /\ Fields(b) = R \cup B
      /\ \A r \in R, x \in A \cup B : r.col # x.col
  BY DEF Parts
<1>1. \A F, G, t : /\ KeysOf(F \cup G) = KeysOf(F) \cup KeysOf(G)
                   /\ PlacesOf(t, F \cup G) = PlacesOf(t, F) \cup PlacesOf(t, G)
  BY DEF KeysOf, PlacesOf
<1>2. \A y \in KeysOf(A) \cup KeysOf(B) : y \notin KeysOf(R)
  <2> SUFFICES ASSUME NEW y \in KeysOf(A \cup B), y \in KeysOf(R) PROVE FALSE
    BY <1>1
  <2>1. PICK f \in A \cup B : KeyLook(y, f)
    BY KeyIs
  <2>2. PICK g \in R : KeyLook(y, g)
    BY KeyIs
  <2>3. <<f.col>> = <<g.col>>
    BY <2>1, <2>2 DEF KeyLook
  <2>4. f.col = g.col
    BY <2>3
  <2> QED
    BY <1>0, <2>4
<1> DEFINE t == a.table
<1>3. \A y \in PlacesOf(t, A) \cup PlacesOf(t, B) : y \notin PlacesOf(t, R)
  <2> SUFFICES ASSUME NEW y \in PlacesOf(t, A \cup B), y \in PlacesOf(t, R) PROVE FALSE
    BY <1>1
  <2>1. PICK f \in A \cup B : PlaceLook(t, y, f)
    BY PlaceIs
  <2>2. PICK g \in R : PlaceLook(t, y, g)
    BY PlaceIs
  <2>3. PICK u, v : u = SpatialPath(f) /\ v = SpatialPath(g)
    OBVIOUS
  <2>4. u = v
    BY <2>1, <2>2, <2>3 DEF PlaceLook
  <2>5. u[1] = f.col /\ v[1] = g.col
    BY <2>3 DEF SpatialPath
  <2>6. f.col = g.col
    BY <2>4, <2>5
  <2> QED
    BY <1>0, <2>6
<1>4. /\ Call(a) = KeysOf(R) \cup KeysOf(A) \cup PlacesOf(t, R) \cup PlacesOf(t, A)
                     \cup OptionsOf(a)
      /\ Call(b) = KeysOf(R) \cup KeysOf(B) \cup PlacesOf(t, R) \cup PlacesOf(t, B)
                     \cup OptionsOf(a)
  <2>1. /\ KeysOf(Fields(a)) = KeysOf(R) \cup KeysOf(A)
        /\ KeysOf(Fields(b)) = KeysOf(R) \cup KeysOf(B)
    BY <1>0, <1>1
  <2>2. /\ PlacesOf(t, Fields(a)) = PlacesOf(t, R) \cup PlacesOf(t, A)
        /\ PlacesOf(t, Fields(b)) = PlacesOf(t, R) \cup PlacesOf(t, B)
    BY <1>0, <1>1
  <2>3. /\ Call(a) = KeysOf(Fields(a)) \cup PlacesOf(t, Fields(a)) \cup OptionsOf(a)
        /\ Call(b) = KeysOf(Fields(b)) \cup PlacesOf(t, Fields(b)) \cup OptionsOf(a)
    BY KnownIs
  <2> QED
    BY <2>1, <2>2, <2>3
<1>5. /\ \A F, y : y \in KeysOf(F) => y \notin OptionsOf(a)
      /\ \A F, G, y : y \in KeysOf(F) => y \notin PlacesOf(t, G)
      /\ \A F, y : y \in PlacesOf(t, F) => y \notin OptionsOf(a)
  <2>1. ASSUME NEW F, NEW y, y \in KeysOf(F) PROVE y \notin OptionsOf(a)
    BY <2>1, KindsApart
  <2>2. ASSUME NEW F, NEW y, y \in PlacesOf(t, F) PROVE y \notin OptionsOf(a)
    BY <2>2, KindsApart
  <2>3. ASSUME NEW F, NEW G, NEW y, y \in KeysOf(F) PROVE y \notin PlacesOf(t, G)
    <3>1. y.name[1] \in {"index", "unique"}
      BY <2>3, KeysLook
    <3>2. ASSUME y \in PlacesOf(t, G) PROVE y.name[1] = "spatial"
      BY <3>2, PlacesLook
    <3> QED
      BY <3>1, <3>2
  <2> QED
    BY <2>1, <2>2, <2>3
<1> HIDE DEF t
<1>6. \A n : n \in Call(b) \ Call(a) <=>
             n \in KeysOf(B) \ KeysOf(A) \/ n \in PlacesOf(t, B) \ PlacesOf(t, A)
  BY <1>2, <1>3, <1>4, <1>5
<1> QED
  BY <1>6 DEF t

-----------------------------------------------------------------------------
(* What a command finds.                                                   *)

LEMMA NameHits ==
  ASSUME NEW from, NEW to, Told(Call(from) \cup Call(to)), NEW x \in Call(from), NEW c,
         c.do = "drop_index", c.arg = x.name
  PROVE  \A o \in Call(from) \cup Call(to) : Hits(c, from, to, o) <=> o = x
BY DEF Told, Hits

LEMMA NoMetaName ==
  ASSUME NEW m
  PROVE  \A n \in MetaIndexNames(m) \cup MetaConstraintNames(m) : n[1] = "meta"
BY DEF MetaIndexNames, MetaConstraintNames, IndexName, ConstraintName

\* No constraint of Meta is on the column of this field alone.
Unnamed(m, f) ==
  f.key = "index" => \A x \in m.constraints : Paths(m, x.fields) # <<<<f.col>>>>

LEMMA KeyHits ==
  ASSUME NEW p, NEW m, Known(p, m), NEW to, NEW f \in Fields(m), Unnamed(m, f),
         NEW c \in RemoveKeys(f), NEW o \in Call(m)
  PROVE  Hits(c, m, to, o) <=> o \in KeysOf({f})
<1>1. \/ f.key = "index" /\ c.do = "remove_field_index" /\ c.arg = f.col
      \/ f.key = "unique" /\ c.do = "remove_field_unique" /\ c.arg = f.col
  BY CommandIs DEF RemoveKeys
<1>2. ASSUME o \in KeysOf({f}) PROVE Hits(c, m, to, o)
  <2>1. KeyLook(o, f)
    BY <1>2, KeyIs
  <2>2. o.name \notin MetaIndexNames(m) /\ o.name \notin MetaConstraintNames(m)
    BY <1>1, <2>1, NoMetaName DEF KeyLook
  <2> QED
    BY <1>1, <2>1, <2>2 DEF KeyLook, Hits
<1>3. ASSUME Hits(c, m, to, o) PROVE o \in KeysOf({f})
  <2>1. /\ o.paths = <<<<f.col>>>>
        /\ f.key = "unique" => o.unique = TRUE /\ o.name \notin MetaConstraintNames(m)
        /\ f.key = "index" => o.name \notin MetaIndexNames(m)
    BY <1>1, <1>3 DEF Hits
  <2>2. ~Spatial(f)
    BY <1>1, KnownIs
  <2>3. 2 \notin DOMAIN <<<<f.col>>>>
    OBVIOUS
  <2>4. o \notin OptionsOf(m)
    <3> SUFFICES ASSUME o \in OptionsOf(m) PROVE FALSE
      OBVIOUS
    <3>1. \/ \E x : ConstraintLook(p, m, o, x)
          \/ \E x : IndexLook(p, m, o, x)
      BY <2>1, <2>3, OptionLook
    <3>2. CASE \E x : ConstraintLook(p, m, o, x)
      BY <1>1, <2>1, <3>2 DEF ConstraintLook, MetaConstraintNames, Unnamed
    <3>3. CASE \E x : IndexLook(p, m, o, x)
      BY <1>1, <2>1, <3>3 DEF IndexLook, MetaIndexNames
    <3> QED
      BY <3>1, <3>2, <3>3
  <2>5. o \notin PlacesOf(m.table, Fields(m))
    <3> SUFFICES ASSUME o \in PlacesOf(m.table, Fields(m)) PROVE FALSE
      OBVIOUS
    <3>1. PICK g \in Fields(m) : PlaceLook(m.table, o, g)
      BY PlaceIs
    <3>2. PICK v : v = SpatialPath(g)
      OBVIOUS
    <3>3. <<v>> = <<<<f.col>>>>
      BY <2>1, <3>1, <3>2 DEF PlaceLook
    <3>4. v[1] = f.col
      BY <3>3
    <3>5. g.col = f.col
      BY <3>2, <3>4 DEF SpatialPath
    <3> QED
      BY <2>2, <3>1, <3>5, KnownIs DEF PlaceLook
  <2>6. o \in KeysOf(Fields(m))
    BY <2>4, <2>5, KnownIs
  <2>7. PICK g \in Fields(m) : KeyLook(o, g)
    BY <2>6, KeyIs
  <2>8. <<<<g.col>>>> = <<<<f.col>>>>
    BY <2>1, <2>7 DEF KeyLook
  <2>9. g.col = f.col
    BY <2>8
  <2>10. g = f
    BY <2>9, KnownIs
  <2> QED
    BY <2>7, <2>10 DEF KeyLook, KeysOf
<1> QED
  BY <1>2, <1>3

NamedRemoval(c, s, t) == c = Command("remove_together", [names |-> s, unique |-> t])

TogetherAt(m, s, t, x) ==
  \/ t = TRUE /\ s \in m.unique_together /\ x = Over(m, s)
  \/ t = FALSE /\ s \in m.index_together /\ x = Beside(m, s)

LEMMA TogetherHits ==
  ASSUME NEW p, NEW m, Known(p, m), NEW to, to.fields = m.fields,
         to.constraints = m.constraints, to.indexes = m.indexes, NEW s, NEW t, NEW c,
         NamedRemoval(c, s, t), NEW x, TogetherAt(m, s, t, x), NEW o \in Call(m)
  PROVE  Hits(c, m, to, o) <=> o = x
<1>0. \/ t = TRUE /\ s \in m.unique_together /\ x = Over(m, s)
      \/ t = FALSE /\ s \in m.index_together /\ x = Beside(m, s)
  BY DEF TogetherAt
<1>1. c.do = "remove_together" /\ c.arg.names = s /\ c.arg.unique = t
  BY CommandIs DEF NamedRemoval
<1>2. Paths(to, s) = Paths(m, s)
  BY SameFields
<1>3. s \in Composed(m) /\ s \in p.together /\ 2 \in DOMAIN s
  BY <1>0, KnownIs DEF Composed, Uniques
<1>4. 2 \in DOMAIN Paths(m, s)
  BY <1>3 DEF Paths
<1>5. ASSUME o = x PROVE Hits(c, m, to, o)
  <2>1. \/ t = TRUE /\ OverLook(p, m, o, s)
        \/ t = FALSE /\ BesideLook(p, m, o, s)
    BY <1>0, <1>5, LooksAre
  <2>2. o.unique = t /\ o.paths = Paths(m, s) /\ o.name[1] \in {"unique", "together"}
    BY <2>1 DEF OverLook, BesideLook
  <2>3. o.name \notin MetaConstraintNames(to) \cup MetaIndexNames(to)
    BY <2>2, NoMetaName
  <2> QED
    BY <1>1, <1>2, <2>2, <2>3 DEF Hits
<1>6. ASSUME Hits(c, m, to, o) PROVE o = x
  <2>1. /\ o.paths = Paths(m, s) /\ o.unique = t
        /\ o.name \notin MetaConstraintNames(m) /\ o.name \notin MetaIndexNames(m)
    BY <1>1, <1>2, <1>6 DEF Hits, MetaConstraintNames, MetaIndexNames
  <2>2. o \notin KeysOf(Fields(m))
    BY <1>4, <2>1, KeysLook
  <2>3. o \notin PlacesOf(m.table, Fields(m))
    <3> SUFFICES ASSUME o \in PlacesOf(m.table, Fields(m)) PROVE FALSE
      OBVIOUS
    <3>1. PICK g \in Fields(m) : PlaceLook(m.table, o, g)
      BY PlaceIs
    <3>2. o.paths = <<SpatialPath(g)>>
      BY <3>1 DEF PlaceLook
    <3>3. 2 \notin DOMAIN <<SpatialPath(g)>>
      OBVIOUS
    <3> QED
      BY <1>4, <2>1, <3>2, <3>3
  <2>4. o \in OptionsOf(m)
    BY <2>2, <2>3, KnownIs
  <2>5. CASE \E r : OverLook(p, m, o, r)
    BY <1>0, <1>3, <2>1, <2>5, PathsSame DEF OverLook
  <2>6. CASE \E r : BesideLook(p, m, o, r)
    BY <1>0, <1>3, <2>1, <2>6, PathsSame DEF BesideLook
  <2>8. CASE \E v : ConstraintLook(p, m, o, v)
    BY <2>1, <2>8 DEF ConstraintLook, MetaConstraintNames
  <2>9. CASE \E v : IndexLook(p, m, o, v)
    BY <2>1, <2>9 DEF IndexLook, MetaIndexNames
  <2> QED
    BY <2>4, <2>5, <2>6, <2>8, <2>9, OptionIs
<1> QED
  BY <1>5, <1>6

\* Each command that drops has its index, and each index that goes has its command.
LEMMA DropsOldIs ==
  ASSUME NEW from, NEW to, NEW plan, NEW D,
         \A c : c \in D <=> c \in Range(plan) /\ c.do \in Drops,
         NEW T \in [D -> Call(from) \ Call(to)],
         \A c \in D, o \in Call(from) : Hits(c, from, to, o) <=> o = T[c],
         \A c, d \in D : T[c] = T[d] => c = d,
         \A o \in Call(from) \ Call(to) : \E c \in D : T[c] = o,
         \A c \in D : c.do = "drop_index" =>
           c.arg[1] \notin Timed /\ \A n \in Call(to) : ~Hits(c, from, to, n)
  PROVE  DropsOld(from, to, plan)
<1>1. \A c, o : Hits(c, from, to, o) => c.do \in Drops
  BY DEF Hits, Drops
<1>2. \A c \in D : T[c] \in Call(from) /\ T[c] \notin Call(to)
  OBVIOUS
<1>3. \A o \in Call(from) \ Call(to) : \E c \in Range(plan) : Hits(c, from, to, o)
  OBVIOUS
<1>4. \A c \in Range(plan) : c.do \in Drops =>
        /\ \E o \in Call(from) : Hits(c, from, to, o)
        /\ \A o, k \in Call(from) : Hits(c, from, to, o) /\ Hits(c, from, to, k) => o = k
        /\ \A o \in Call(from) : Hits(c, from, to, o) => o \notin Call(to)
  BY <1>2
<1>5. \A c \in Range(plan) : c.do = "drop_index" =>
        c.arg[1] \notin Timed /\ \A n \in Call(to) : ~Hits(c, from, to, n)
  BY DEF Drops
<1>6. \A c, d \in Range(plan), o \in Call(from) :
        Hits(c, from, to, o) /\ Hits(d, from, to, o) => c = d
  BY <1>1
<1> QED
  BY <1>3, <1>4, <1>5, <1>6 DEF DropsOld


-----------------------------------------------------------------------------
(* Operations on the options of a model.                                   *)

LEMMA KeepFields ==
  ASSUME NEW p, NEW m, Known(p, m)
  PROVE  Keep(Fields(m))
BY KnownIs DEF Keep

LEMMA ToldAlone ==
  ASSUME NEW p, NEW m, Known(p, m)
  PROVE  Told(Call(m))
<1>1. Alone(m, Fields(m))
  BY KeysAlone
<1>2. Told(KeysOf(Fields(m)) \cup PlacesOf(m.table, Fields(m)) \cup OptionsOf(m))
  BY <1>1, KeepFields, ToldApart
<1> QED
  BY <1>2, KnownIs

LEMMA CallWithin ==
  ASSUME NEW p, NEW u, Known(p, u), NEW a, Known(p, a), Within(a, u)
  PROVE  Call(a) \subseteq Call(u)
<1>1. Fields(a) = Fields(u) /\ a.table = u.table
  BY SameFields DEF Within
<1>2. OptionsOf(a) \subseteq OptionsOf(u)
  BY WithinIs
<1> QED
  BY <1>1, <1>2, KnownIs

LEMMA ToldWithin ==
  ASSUME NEW p, NEW u, Known(p, u), NEW a, Known(p, a), Within(a, u),
         NEW b, Known(p, b), Within(b, u)
  PROVE  Told(Call(a) \cup Call(b))
<1>1. Call(a) \subseteq Call(u) /\ Call(b) \subseteq Call(u)
  BY CallWithin
<1>2. Told(Call(u))
  BY ToldAlone
<1> QED
  BY <1>1, <1>2 DEF Told

\* Each of these commands has an index of its own among those that go.
Targets(E, a, b, D) ==
  \E T \in [E -> D] :
    /\ \A c \in E, o \in Call(a) : Hits(c, a, b, o) <=> o = T[c]
    /\ \A c, d \in E : T[c] = T[d] => c = d
    /\ \A o \in D : \E c \in E : T[c] = o

LEMMA OptionsFitted ==
  ASSUME NEW p, NEW u, Known(p, u), NEW a, Known(p, a), Within(a, u),
         NEW b, Known(p, b), Within(b, u), NEW plan, NEW E, NEW S,
         Range(plan) = E \cup AddAll(S), \A c \in E : c.do \in Drops,
         \A x \in S : Tabled(x, u.table),
         \A n : n \in OptionsBut(u, b, a) <=> \E x \in S : Timeless(x) = n,
         Targets(E, a, b, OptionsBut(u, a, b)),
         \A c \in E : c.do = "drop_index" =>
           c.arg[1] \notin Timed /\ \A n \in Call(b) : ~Hits(c, a, b, n),
         Before(plan, {"create_index"}, Lookups), OnceIn(plan, Drops)
  PROVE  Fitted(a, b, plan)
<1>1. /\ \A n : n \in Call(b) \ Call(a) <=> n \in OptionsBut(u, b, a)
      /\ \A n : n \in Call(a) \ Call(b) <=> n \in OptionsBut(u, a, b)
  BY OptionsDiffer
<1>2. /\ \A c \in E : c.do # "create_index" /\ c.do \notin OnCollection
      /\ \A c \in AddAll(S) : c.do = "create_index"
      /\ \A c \in AddAll(S) : c.do \notin Drops /\ c.do \notin OnCollection
  <2>1. \A c \in AddAll(S) : c.do = "create_index"
    BY AddAllDo
  <2> QED
    BY <2>1 DEF Drops, OnCollection
<1>3. MakesNew(Call(a), Call(b), plan)
  <2>1. \A n : n \in Call(b) \ Call(a) <=> \E x \in S : Timeless(x) = n
    BY <1>1
  <2>2. \A c \in E : c.do # "create_index"
    BY <1>2
  <2>3. PICK old, new : old = Call(a) /\ new = Call(b)
    OBVIOUS
  <2>4. \A n : n \in new \ old <=> \E x \in S : Timeless(x) = n
    BY <2>1, <2>3
  <2>5. MakesNew(old, new, plan)
    BY <2>2, <2>4, MakesNewIs
  <2> QED
    BY <2>3, <2>5
<1>4. DropsOld(a, b, plan)
  <2>1. \A c : c \in E <=> c \in Range(plan) /\ c.do \in Drops
    BY <1>2
  <2>0. PICK T \in [E -> OptionsBut(u, a, b)] :
          /\ \A c \in E, o \in Call(a) : Hits(c, a, b, o) <=> o = T[c]
          /\ \A c, d \in E : T[c] = T[d] => c = d
          /\ \A o \in OptionsBut(u, a, b) : \E c \in E : T[c] = o
    BY DEF Targets
  <2>2. T \in [E -> Call(a) \ Call(b)]
    BY <1>1
  <2>3. \A o \in Call(a) \ Call(b) : \E c \in E : T[c] = o
    BY <1>1, <2>0
  <2> QED
    BY <2>0, <2>1, <2>2, <2>3, DropsOldIs
<1>5. MovesCollection(a, b, plan)
  <2>1. TableOf(a) = TableOf(b)
    BY KnownIs DEF TableOf, Within
  <2> QED
    BY <1>2, <2>1, MovesNothing
<1>6. OnceIn(plan, Drops \cup OnCollection)
  <2>1. \A i \in DOMAIN plan : plan[i] \in Range(plan)
    BY DEF Range
  <2> QED
    BY <1>2, <2>1 DEF OnceIn
<1> QED
  BY <1>3, <1>4, <1>5, <1>6, ToldWithin DEF Fitted

\* An operation that only adds an index, or only drops one by its name.
LEMMA OneAdded ==
  ASSUME NEW p, NEW a, Known(p, a), NEW b, Known(p, b), Within(a, b), NEW x,
         Tabled(x, b.table), OptionsBut(b, a, b) = {}, OptionsBut(b, b, a) = {Timeless(x)}
  PROVE  Fitted(a, b, <<AddIndex(x)>>)
<1> DEFINE plan == <<AddIndex(x)>>
           T == [c \in {} |-> c]
<1>1. Within(b, b)
  BY DEF Within
<1>2. Range(plan) = {} \cup AddAll({x})
  BY OneIs DEF AddAll
<1>3. \A c \in Range(plan) : c.do = "create_index"
  BY <1>2, AddAllDo
<1>4. Before(plan, {"create_index"}, Lookups) /\ OnceIn(plan, Drops)
  BY <1>3, NoneBefore, OnceOne DEF Lookups
<1>5. T \in [{} -> OptionsBut(b, a, b)]
  OBVIOUS
<1> HIDE DEF plan, T
<1>6. /\ \A n : n \in OptionsBut(b, b, a) <=> \E y \in {x} : Timeless(y) = n
      /\ \A y \in {x} : Tabled(y, b.table)
      /\ \A o \in OptionsBut(b, a, b) : \E c \in {} : T[c] = o
  OBVIOUS
<1>8. Targets({}, a, b, OptionsBut(b, a, b))
  BY <1>5, <1>6 DEF Targets
<1>7. Fitted(a, b, plan)
  BY <1>1, <1>2, <1>4, <1>6, <1>8, OptionsFitted
<1> QED
  BY <1>7 DEF plan

LEMMA OneDropped ==
  ASSUME NEW p, NEW a, Known(p, a), NEW b, Known(p, b), Within(b, a), NEW x, NEW name,
         x.name = name, name[1] \notin Timed,
         OptionsBut(a, b, a) = {}, OptionsBut(a, a, b) = {x}
  PROVE  Fitted(a, b, <<Command("drop_index", name)>>)
<1> DEFINE c == Command("drop_index", name)
           plan == <<c>>
           T == [d \in {c} |-> x]
<1>1. Within(a, a)
  BY DEF Within
<1>2. Range(plan) = {c} \cup AddAll({})
  BY OneIs DEF AddAll
<1>3. c.do = "drop_index" /\ c.arg = name
  BY CommandIs
<1> HIDE DEF c
<1>4. Before(plan, {"create_index"}, Lookups) /\ OnceIn(plan, Drops)
  BY <1>3, OneIs, NoneBefore, OnceOne
<1>5. T \in [{c} -> OptionsBut(a, a, b)] /\ T[c] = x
  OBVIOUS
<1> HIDE DEF plan, T
<1>6. x \in Call(a) /\ x \notin Call(b)
  BY <1>1, OptionsDiffer
<1>7. \A o \in Call(a) \cup Call(b) : Hits(c, a, b, o) <=> o = x
  <2>1. Told(Call(a) \cup Call(b))
    BY <1>1, ToldWithin
  <2> QED
    BY ONLY <1>3, <1>6, <2>1, x.name = name, NameHits
<1>8. /\ \A d \in {c}, o \in Call(a) : Hits(d, a, b, o) <=> o = T[d]
      /\ \A d \in {c} : d.do = "drop_index" =>
           d.arg[1] \notin Timed /\ \A n \in Call(b) : ~Hits(d, a, b, n)
      /\ \A d, e \in {c} : T[d] = T[e] => d = e
      /\ \A o \in OptionsBut(a, a, b) : \E d \in {c} : T[d] = o
      /\ \A d \in {c} : d.do \in Drops
  BY <1>3, <1>5, <1>6, <1>7 DEF Drops
<1>9. Targets({c}, a, b, OptionsBut(a, a, b))
  BY <1>5, <1>8 DEF Targets
<1>10. PICK E, S : E = {c} /\ S = {}
  OBVIOUS
<1>11. /\ Range(plan) = E \cup AddAll(S) /\ \A y \in S : Tabled(y, a.table)
       /\ \A n : n \in OptionsBut(a, b, a) <=> \E y \in S : Timeless(y) = n
       /\ Targets(E, a, b, OptionsBut(a, a, b))
  BY <1>2, <1>9, <1>10
<1>12. \A d \in E : d.do \in Drops /\ (d.do = "drop_index" =>
         d.arg[1] \notin Timed /\ \A n \in Call(b) : ~Hits(d, a, b, n))
  BY <1>8, <1>10
<1>13. Fitted(a, b, plan)
  BY <1>1, <1>4, <1>11, <1>12, OptionsFitted
<1> QED
  BY <1>13 DEF plan, c

LEMMA AddMetaIndexFitted ==
  ASSUME NEW p, NEW a, Known(p, a), NEW b, Known(p, b), Within(a, b), NEW x,
         b.unique_together = a.unique_together, b.index_together = a.index_together,
         b.constraints = a.constraints, x \notin a.indexes, b.indexes = a.indexes \cup {x}
  PROVE  Fitted(a, b, <<AddIndex(MetaIndex(b, x))>>)
<1>1. OptionsBut(b, a, b) = {}
  BY DEF OptionsBut
<1>2. OptionsBut(b, b, a) = {MetaIndex(b, x)}
  <2>1. b.indexes \ a.indexes = {x}
    OBVIOUS
  <2> QED
    BY <2>1 DEF OptionsBut
<1>3. Timeless(MetaIndex(b, x)) = MetaIndex(b, x) /\ Tabled(MetaIndex(b, x), b.table)
  BY FormsAre, TabledForms
<1> QED
  BY <1>1, <1>2, <1>3, OneAdded

LEMMA AddConstraintFitted ==
  ASSUME NEW p, NEW a, Known(p, a), NEW b, Known(p, b), Within(a, b), NEW x,
         b.unique_together = a.unique_together, b.index_together = a.index_together,
         b.indexes = a.indexes, x \notin a.constraints,
         b.constraints = a.constraints \cup {x}
  PROVE  Fitted(a, b, <<AddIndex(MetaUnique(b, x))>>)
<1>1. OptionsBut(b, a, b) = {}
  BY DEF OptionsBut
<1>2. OptionsBut(b, b, a) = {MetaUnique(b, x)}
  <2>1. b.constraints \ a.constraints = {x}
    OBVIOUS
  <2> QED
    BY <2>1 DEF OptionsBut
<1>3. Timeless(MetaUnique(b, x)) = MetaUnique(b, x) /\ Tabled(MetaUnique(b, x), b.table)
  BY FormsAre, TabledForms
<1> QED
  BY <1>1, <1>2, <1>3, OneAdded

LEMMA RemoveMetaIndexFitted ==
  ASSUME NEW p, NEW a, Known(p, a), NEW b, Known(p, b), Within(b, a), NEW x,
         b.unique_together = a.unique_together, b.index_together = a.index_together,
         b.constraints = a.constraints, x \in a.indexes, b.indexes = a.indexes \ {x}
  PROVE  Fitted(a, b, <<Command("drop_index", IndexName(x))>>)
<1>1. OptionsBut(a, b, a) = {}
  BY DEF OptionsBut
<1>2. OptionsBut(a, a, b) = {MetaIndex(a, x)}
  <2>1. a.indexes \ b.indexes = {x}
    OBVIOUS
  <2> QED
    BY <2>1 DEF OptionsBut
<1>3. MetaIndex(a, x).name = IndexName(x) /\ IndexName(x)[1] \notin Timed
  BY DEF MetaIndex, IndexName, MongoIndex, Timed
<1>4. PICK y, name : y = MetaIndex(a, x) /\ name = IndexName(x)
  OBVIOUS
<1>5. Fitted(a, b, <<Command("drop_index", name)>>)
  BY <1>1, <1>2, <1>3, <1>4, OneDropped
<1> QED
  BY <1>4, <1>5

LEMMA RemoveConstraintFitted ==
  ASSUME NEW p, NEW a, Known(p, a), NEW b, Known(p, b), Within(b, a), NEW x,
         b.unique_together = a.unique_together, b.index_together = a.index_together,
         b.indexes = a.indexes, x \in a.constraints, b.constraints = a.constraints \ {x}
  PROVE  Fitted(a, b, <<Command("drop_index", ConstraintName(x))>>)
<1>1. OptionsBut(a, b, a) = {}
  BY DEF OptionsBut
<1>2. OptionsBut(a, a, b) = {MetaUnique(a, x)}
  <2>1. a.constraints \ b.constraints = {x}
    OBVIOUS
  <2> QED
    BY <2>1 DEF OptionsBut
<1>3. MetaUnique(a, x).name = ConstraintName(x) /\ ConstraintName(x)[1] \notin Timed
  BY DEF MetaUnique, ConstraintName, MongoIndex, Timed
<1>4. PICK y, name : y = MetaUnique(a, x) /\ name = ConstraintName(x)
  OBVIOUS
<1>5. Fitted(a, b, <<Command("drop_index", name)>>)
  BY <1>1, <1>2, <1>3, <1>4, OneDropped
<1> QED
  BY <1>4, <1>5

LEMMA NamesOfRemovals ==
  ASSUME NEW O, NEW t
  PROVE  \E N \in [Removals(O, t) -> O] :
           /\ \A c \in Removals(O, t) : NamedRemoval(c, N[c], t)
           /\ \A s \in O : \E c \in Removals(O, t) : N[c] = s
<1> DEFINE E == Removals(O, t)
           N == [c \in E |-> c.arg.names]
<1>1. \A c \in E : c.arg.names \in O /\ NamedRemoval(c, c.arg.names, t)
  <2> TAKE c \in E
  <2>1. PICK s \in O : NamedRemoval(c, s, t)
    BY DEF Removals, NamedRemoval
  <2>2. c.arg.names = s
    BY <2>1, CommandIs DEF NamedRemoval
  <2> QED
    BY <2>1, <2>2
<1>2. \A s \in O : \E c \in E : c.arg.names = s
  <2> TAKE s \in O
  <2>1. PICK c : NamedRemoval(c, s, t)
    BY DEF NamedRemoval
  <2>2. c \in E /\ c.arg.names = s
    BY <2>1, CommandIs DEF Removals, NamedRemoval
  <2> QED
    BY <2>2
<1> HIDE DEF E
<1>3. N \in [E -> O] /\ \A c \in E : N[c] = c.arg.names
  BY <1>1
<1> HIDE DEF N
<1>4. /\ \A c \in E : NamedRemoval(c, N[c], t)
      /\ \A s \in O : \E c \in E : N[c] = s
  BY <1>1, <1>2, <1>3
<1> QED
  BY <1>3, <1>4 DEF E

LEMMA NamedIs ==
  ASSUME NEW s, NEW t, NEW c, NamedRemoval(c, s, t)
  PROVE  /\ c.do \in Drops /\ c.do # "drop_index"
         /\ \A d : NamedRemoval(d, s, t) => c = d
BY CommandIs DEF NamedRemoval, Drops

\* The indexes behind these options are those that go.
Behind(G, O, a, t, D) ==
  /\ G \in [O -> D]
  /\ \A s \in O : TogetherAt(a, s, t, G[s])
  /\ \A s, r \in O : G[s] = G[r] => s = r
  /\ \A x \in D : \E s \in O : G[s] = x

LEMMA RemovalTargets ==
  ASSUME NEW p, NEW a, Known(p, a), NEW b, b.fields = a.fields,
         b.constraints = a.constraints, b.indexes = a.indexes, NEW t, NEW O, NEW D,
         NEW G, Behind(G, O, a, t, D)
  PROVE  Targets(Removals(O, t), a, b, D)
<1> DEFINE E == Removals(O, t)
<1>0. /\ G \in [O -> D] /\ \A s \in O : TogetherAt(a, s, t, G[s])
      /\ \A s, r \in O : G[s] = G[r] => s = r
      /\ \A x \in D : \E s \in O : G[s] = x
  BY DEF Behind
<1>1. PICK N \in [E -> O] :
        /\ \A c \in E : NamedRemoval(c, N[c], t)
        /\ \A s \in O : \E c \in E : N[c] = s
  BY NamesOfRemovals
<1> HIDE DEF E
<1> DEFINE T == [c \in E |-> G[N[c]]]
<1>2. T \in [E -> D] /\ \A c \in E : T[c] = G[N[c]] /\ N[c] \in O
  BY <1>0
<1> HIDE DEF T
<1>3. \A c \in E, o \in Call(a) : Hits(c, a, b, o) <=> o = T[c]
  <2> TAKE c \in E, o \in Call(a)
  <2>1. PICK s, x : s = N[c] /\ x = T[c]
    OBVIOUS
  <2>2. NamedRemoval(c, s, t) /\ TogetherAt(a, s, t, x)
    BY <1>0, <1>1, <1>2, <2>1
  <2>3. Hits(c, a, b, o) <=> o = x
    BY <2>2, TogetherHits
  <2> QED
    BY <2>1, <2>3
<1>4. \A c, d \in E : T[c] = T[d] => c = d
  <2> TAKE c, d \in E
  <2>1. T[c] = T[d] => N[c] = N[d]
    BY <1>0, <1>2
  <2>2. N[c] = N[d] => c = d
    BY <1>1, NamedIs
  <2> QED
    BY <2>1, <2>2
<1>5. \A x \in D : \E c \in E : T[c] = x
  <2> TAKE x \in D
  <2>1. PICK s \in O : G[s] = x
    BY <1>0
  <2>2. PICK c \in E : N[c] = s
    BY <1>1
  <2> QED
    BY <1>2, <2>1, <2>2
<1> QED
  BY <1>2, <1>3, <1>4, <1>5 DEF E, Targets

LEMMA TogetherFitted ==
  ASSUME NEW p, NEW u, Known(p, u), NEW a, Known(p, a), Within(a, u),
         NEW b, Known(p, b), Within(b, u), a.constraints = b.constraints,
         a.indexes = b.indexes, NEW t, NEW O, NEW G,
         Behind(G, O, a, t, OptionsBut(u, a, b)),
         NEW S, \A x \in S : Tabled(x, u.table),
         \A n : n \in OptionsBut(u, b, a) <=> \E x \in S : Timeless(x) = n,
         NEW plan, Range(plan) = Removals(O, t) \cup AddAll(S),
         Before(plan, {"create_index"}, Lookups), OnceIn(plan, Drops)
  PROVE  Fitted(a, b, plan)
<1>1. b.fields = a.fields
  BY DEF Within
<1>2. PICK E : E = Removals(O, t)
  OBVIOUS
<1>3. Targets(E, a, b, OptionsBut(u, a, b))
  BY <1>1, <1>2, RemovalTargets
<1>4. \A c \in E : c.do = "remove_together"
  BY <1>2, RemovalsDo
<1>5. \A c \in E : c.do \in Drops /\ (c.do = "drop_index" =>
        c.arg[1] \notin Timed /\ \A n \in Call(b) : ~Hits(c, a, b, n))
  BY <1>4 DEF Drops
<1>6. Range(plan) = E \cup AddAll(S)
  BY <1>2
<1> QED
  BY <1>3, <1>5, <1>6, OptionsFitted

LEMMA TogetherFinite ==
  ASSUME NEW p, NEW m, Known(p, m)
  PROVE  IsFiniteSet(m.unique_together) /\ IsFiniteSet(m.index_together)
<1>1. m.unique_together \subseteq p.together /\ m.index_together \subseteq p.together
  BY KnownIs
<1>2. IsFiniteSet(p.together)
  BY FiniteAssumption DEF Known
<1> QED
  BY <1>1, <1>2, FS_Subset

LEMMA RemovalsFinite ==
  ASSUME NEW S, IsFiniteSet(S), NEW t
  PROVE  IsFiniteSet(Removals(S, t))
<1> DEFINE g == [names \in S |->
                   Command("remove_together", [names |-> names, unique |-> t])]
<1>1. IsFiniteSet({g[names] : names \in S})
  BY FiniteImage
<1>2. {g[names] : names \in S} = Removals(S, t)
  BY DEF Removals
<1> QED
  BY <1>1, <1>2

LEMMA AlterTogetherOnce ==
  ASSUME NEW m, NEW olds, NEW news, IsFiniteSet(olds), IsFiniteSet(news)
  PROVE  /\ OnceIn(AlterUniqueTogetherPlan(m, olds, news), Drops)
         /\ OnceIn(AlterIndexTogetherPlan(m, olds, news), Drops)
<1> DEFINE rT == RemoveTogether(olds \ news, TRUE)
           rF == RemoveTogether(olds \ news, FALSE)
           aU == AddUniqueTogether(m, news \ olds)
           aI == ForEach({AddIndex(TogetherIndex(m, names)) : names \in news \ olds})
<1>1. IsFiniteSet(olds \ news) /\ IsFiniteSet(news \ olds)
  BY FS_Subset
<1>2. IsSeq(rT) /\ IsSeq(rF)
  BY <1>1, RemoveTogetherIs
<1>3. OnceIn(rT, Drops) /\ OnceIn(rF, Drops)
  BY <1>1, RemovalsFinite, OnceEach DEF RemoveTogether, Removals
<1>4. /\ IsSeq(aU) /\ Range(aU) = AddAll({TogetherUnique(m, names) : names \in news \ olds})
      /\ IsSeq(aI) /\ Range(aI) = AddAll({TogetherIndex(m, names) : names \in news \ olds})
  BY <1>1, AddUniqueTogetherIs, AddIndexTogetherIs
<1>5. \A S : \A c \in AddAll(S) : c.do = "create_index"
  BY AddAllDo
<1> HIDE DEF rT, rF, aU, aI
<1>6. (\A c \in Range(aU) : c.do \notin Drops) /\ \A c \in Range(aI) : c.do \notin Drops
  BY <1>4, <1>5 DEF Drops
<1>7. OnceIn(aU, Drops) /\ OnceIn(aI, Drops)
  BY <1>6, OnceNone
<1>8. OnceIn(rT \o aU, Drops)
  BY <1>2, <1>3, <1>4, <1>6, <1>7, OnceConcat
<1>9. OnceIn(rF \o aI, Drops)
  BY <1>2, <1>3, <1>4, <1>6, <1>7, OnceConcat
<1> QED
  BY <1>8, <1>9 DEF AlterUniqueTogetherPlan, AlterIndexTogetherPlan, rT, rF, aU, aI

LEMMA UniqueTogetherFitted ==
  ASSUME NEW p, NEW u, Known(p, u), NEW a, Known(p, a), Within(a, u),
         NEW b, Known(p, b), Within(b, u), a.index_together = b.index_together,
         a.constraints = b.constraints, a.indexes = b.indexes
  PROVE  Fitted(a, b, AlterUniqueTogetherPlan(b, a.unique_together, b.unique_together))
<1> DEFINE olds == a.unique_together
           news == b.unique_together
           O == olds \ news
           N == news \ olds
           S == {TogetherUnique(b, s) : s \in N}
           G == [s \in O |-> Over(u, s)]
           plan == AlterUniqueTogetherPlan(b, olds, news)
<1>1. IsFiniteSet(olds) /\ IsFiniteSet(news)
  BY TogetherFinite
<1>2. /\ Range(plan) = Removals(O, TRUE) \cup AddAll(S)
      /\ Before(plan, {"create_index"}, Lookups)
  <2>1. PICK m, k : m = olds /\ k = news
    OBVIOUS
  <2>2. PICK P : P = AlterUniqueTogetherPlan(b, m, k)
    OBVIOUS
  <2>3. /\ Range(P) = Removals(m \ k, TRUE) \cup AddAll({TogetherUnique(b, s) : s \in k \ m})
        /\ Before(P, {"create_index"}, Lookups)
    BY <1>1, <2>1, <2>2, AlterTogetherPlanIs, Zenon
  <2> QED
    BY <2>1, <2>2, <2>3
<1>3. OnceIn(plan, Drops)
  BY <1>1, AlterTogetherOnce
<1>4. /\ OptionsBut(u, a, b) = {Over(u, s) : s \in O}
      /\ OptionsBut(u, b, a) = {Over(u, s) : s \in N}
  BY DEF OptionsBut
<1>5. O \subseteq u.unique_together /\ N \subseteq u.unique_together /\ b.table = u.table
  BY DEF Within
<1>6. /\ \A s : Over(a, s) = Over(u, s) /\ Over(b, s) = Over(u, s)
  BY SameFields DEF Within
<1>7. \A s, r \in O : Over(u, s) = Over(u, r) => s = r
  BY <1>5, LooksAre, LooksOnce
<1> HIDE DEF plan
<1>8. Behind(G, O, a, TRUE, OptionsBut(u, a, b))
  BY <1>4, <1>6, <1>7 DEF Behind, TogetherAt
<1>9. /\ \A x \in S : Tabled(x, u.table)
      /\ \A s : Timeless(TogetherUnique(b, s)) = Over(u, s)
  BY <1>5, <1>6, TabledForms, FormsAre
<1>10. \A n : n \in OptionsBut(u, b, a) <=> \E x \in S : Timeless(x) = n
  BY <1>4, <1>9
<1> HIDE DEF G, S, O, N
<1>11. Fitted(a, b, plan)
  BY <1>2, <1>3, <1>8, <1>9, <1>10, TogetherFitted
<1> QED
  BY <1>11 DEF plan

LEMMA IndexTogetherFitted ==
  ASSUME NEW p, NEW u, Known(p, u), NEW a, Known(p, a), Within(a, u),
         NEW b, Known(p, b), Within(b, u), a.unique_together = b.unique_together,
         a.constraints = b.constraints, a.indexes = b.indexes
  PROVE  Fitted(a, b, AlterIndexTogetherPlan(b, a.index_together, b.index_together))
<1> DEFINE olds == a.index_together
           news == b.index_together
           O == olds \ news
           N == news \ olds
           S == {TogetherIndex(b, s) : s \in N}
           G == [s \in O |-> Beside(u, s)]
           plan == AlterIndexTogetherPlan(b, olds, news)
<1>1. IsFiniteSet(olds) /\ IsFiniteSet(news)
  BY TogetherFinite
<1>2. /\ Range(plan) = Removals(O, FALSE) \cup AddAll(S)
      /\ Before(plan, {"create_index"}, Lookups)
  BY <1>1, AlterTogetherPlanIs
<1>3. OnceIn(plan, Drops)
  BY <1>1, AlterTogetherOnce
<1>4. /\ OptionsBut(u, a, b) = {Beside(u, s) : s \in O}
      /\ OptionsBut(u, b, a) = {Beside(u, s) : s \in N}
  BY DEF OptionsBut
<1>5. O \subseteq u.index_together /\ N \subseteq u.index_together /\ b.table = u.table
  BY DEF Within
<1>6. /\ \A s : Beside(a, s) = Beside(u, s) /\ Beside(b, s) = Beside(u, s)
  BY SameFields DEF Within
<1>7. \A s, r \in O : Beside(u, s) = Beside(u, r) => s = r
  BY <1>5, LooksAre, LooksOnce
<1> HIDE DEF plan
<1>8. Behind(G, O, a, FALSE, OptionsBut(u, a, b))
  BY <1>4, <1>6, <1>7 DEF Behind, TogetherAt
<1>9. /\ \A x \in S : Tabled(x, u.table)
      /\ \A s : Timeless(TogetherIndex(b, s)) = Beside(u, s)
  BY <1>5, <1>6, TabledForms, FormsAre
<1>10. \A n : n \in OptionsBut(u, b, a) <=> \E x \in S : Timeless(x) = n
  BY <1>4, <1>9
<1> HIDE DEF G, S, O, N
<1>11. Fitted(a, b, plan)
  BY <1>2, <1>3, <1>8, <1>9, <1>10, TogetherFitted
<1> QED
  BY <1>11 DEF plan

-----------------------------------------------------------------------------
(* Operations on the collection.                                           *)

LEMMA OnceThenNone ==
  ASSUME NEW s, NEW t, IsSeq(s), IsSeq(t), NEW A, OnceIn(s, A),
         \A d \in Range(t) : d.do \notin A
  PROVE  OnceIn(s \o t, A)
<1>1. OnceIn(t, A)
  BY OnceNone
<1>2. \A c \in Range(s), d \in Range(t) : c.do \in A => c # d
  OBVIOUS
<1> QED
  BY <1>1, <1>2, OnceConcat

LEMMA CreateModelOnce ==
  ASSUME NEW p, NEW m, Known(p, m), NEW A, "create_index" \notin A
  PROVE  OnceIn(CreateModelPlan(m), A)
<1>0. /\ m \in Model /\ IsFiniteSet(m.unique_together) /\ IsFiniteSet(m.constraints)
      /\ IsFiniteSet(m.indexes)
  <2>1. /\ m.constraints \subseteq p.meta /\ m.indexes \subseteq p.meta
        /\ m.unique_together \subseteq p.together
    BY KnownIs
  <2> QED
    BY <2>1, FiniteAssumption, FS_Subset DEF Known
<1> DEFINE a == <<Command("create_collection", m.table)>>
           b == ForEach(UNION {Range(AddKey(m, f)) : f \in Fields(m)})
           c == AddUniqueTogether(m, m.unique_together)
           d == ForEach({AddIndex(MetaUnique(m, x)) : x \in m.constraints})
           e == ForEach({AddIndex(MetaIndex(m, x)) : x \in m.indexes})
           g == ForEach(UNION {Range(AddSpatial(m, f)) : f \in Fields(m)})
<1>1. IsSeq(a) /\ OnceIn(a, A)
  BY OneIs, OnceOne
<1>2. IsSeq(b) /\ \E S : Range(b) = AddAll(S)
  BY <1>0, EachKeyIs, SetToSeqIs DEF ForEach
<1>3. IsSeq(c) /\ \E S : Range(c) = AddAll(S)
  BY <1>0, AddUniqueTogetherIs
<1>4. IsSeq(d) /\ \E S : Range(d) = AddAll(S)
  BY <1>0, AddMetaUniqueIs
<1>5. IsSeq(e) /\ \E S : Range(e) = AddAll(S)
  BY <1>0, AddMetaIndexIs
<1>6. IsSeq(g) /\ \E S : Range(g) = AddAll(S)
  BY <1>0, EachSpatialIs, SetToSeqIs DEF ForEach
<1>7. CreateModelPlan(m) = a \o b \o c \o d \o e \o g
  BY DEF CreateModelPlan
<1> HIDE DEF a, b, c, d, e, g
<1>8. \A s : (\E S : Range(s) = AddAll(S)) => \A x \in Range(s) : x.do \notin A
  BY AddAllDo
<1>9. IsSeq(a \o b) /\ OnceIn(a \o b, A)
  BY <1>1, <1>2, <1>8, ConcatIs, OnceThenNone
<1>10. IsSeq(a \o b \o c) /\ OnceIn(a \o b \o c, A)
  BY <1>3, <1>8, <1>9, ConcatIs, OnceThenNone
<1>11. IsSeq(a \o b \o c \o d) /\ OnceIn(a \o b \o c \o d, A)
  BY <1>4, <1>8, <1>10, ConcatIs, OnceThenNone
<1>12. IsSeq(a \o b \o c \o d \o e) /\ OnceIn(a \o b \o c \o d \o e, A)
  BY <1>5, <1>8, <1>11, ConcatIs, OnceThenNone
<1>13. OnceIn(a \o b \o c \o d \o e \o g, A)
  BY <1>6, <1>8, <1>12, OnceThenNone
<1> QED
  BY <1>7, <1>13

LEMMA MadeTabled ==
  ASSUME NEW m, NEW x \in Made(m)
  PROVE  Tabled(x, m.table)
<1>1. CASE \E f \in Fields(m) : x \in KeyIndexes(m, f)
  BY <1>1, TabledForms DEF KeyIndexes
<1>2. CASE \E f \in Fields(m) : x \in SpatialIndexes(m, f)
  BY <1>2, TabledForms DEF SpatialIndexes
<1> QED
  BY <1>1, <1>2, TabledForms DEF Made

LEMMA CallNone == Call(None) = {} /\ TableOf(None) = None
BY DEF Call, IndexesOf, TableOf

LEMMA CreateModelFitted ==
  ASSUME NEW p, NEW m, Known(p, m), m.index_together = {}
  PROVE  Fitted(None, m, CreateModelPlan(m))
<1>1. PICK plan, create : /\ plan = CreateModelPlan(m)
                          /\ create = Command("create_collection", m.table)
  OBVIOUS
<1>2. m # None /\ m \in Model /\ p \in Projects /\ Legal(p, m)
  BY KnownIs DEF Known
<1>3. Range(plan) = {create} \cup AddAll(Made(m))
  <2>1. /\ m.constraints \subseteq p.meta /\ m.indexes \subseteq p.meta
        /\ m.unique_together \subseteq p.together
    BY KnownIs
  <2>2. /\ IsFiniteSet(m.unique_together) /\ IsFiniteSet(m.constraints)
        /\ IsFiniteSet(m.indexes)
    BY <1>2, <2>1, FiniteAssumption, FS_Subset
  <2> QED
    BY <1>1, <1>2, <2>2, CreateModelPlanIs
<1>4. create.do = "create_collection" /\ create.arg = m.table
  BY <1>1, CommandIs
<1>5. \A c \in Range(plan) : c = create \/ c.do = "create_index"
  BY <1>3, AddAllDo
<1>6. Call(m) = {Timeless(x) : x \in Made(m)}
  <2>1. IndexesOf(m) = Made(m)
    BY <1>2, IndexesOfIs
  <2> QED
    BY <2>1 DEF Call
<1>7. MakesNew(Call(None), Call(m), plan)
  <2>1. \A n : n \in Call(m) \ Call(None) <=> \E x \in Made(m) : Timeless(x) = n
    BY <1>6, CallNone
  <2>2. \A x \in Made(m) : Tabled(x, m.table)
    BY MadeTabled
  <2>3. PICK old, new, S, E : /\ old = Call(None) /\ new = Call(m) /\ S = Made(m)
                              /\ E = {create}
    OBVIOUS
  <2>4. /\ \A n : n \in new \ old <=> \E x \in S : Timeless(x) = n
        /\ \A x \in S : Tabled(x, m.table)
        /\ Range(plan) = E \cup AddAll(S) /\ \A c \in E : c.do # "create_index"
    BY <1>3, <1>4, <2>1, <2>2, <2>3
  <2>5. MakesNew(old, new, plan)
    BY <2>4, MakesNewIs
  <2> QED
    BY <2>3, <2>5
<1>8. DropsOld(None, m, plan)
  <2>1. \A c \in Range(plan) : c.do \notin Drops
    BY <1>4, <1>5 DEF Drops
  <2> QED
    BY <2>1, CallNone, DropsNothing
<1>9. MovesCollection(None, m, plan)
  BY <1>2, <1>3, <1>4, <1>5 DEF MovesCollection, OnCollection, TableOf
<1>10. Before(plan, {"create_index"}, Lookups)
  BY <1>4, <1>5, NoneBefore DEF Lookups
<1>11. OnceIn(plan, Drops \cup OnCollection)
  BY <1>1, CreateModelOnce DEF Drops, OnCollection
<1>12. Told(Call(None) \cup Call(m))
  BY CallNone, ToldAlone
<1> QED
  BY <1>1, <1>7, <1>8, <1>9, <1>10, <1>11, <1>12 DEF Fitted

LEMMA DeleteModelFitted ==
  ASSUME NEW p, NEW m, Known(p, m)
  PROVE  Fitted(m, None, DeleteModelPlan(m)) /\ Mild(DeleteModelPlan(m))
<1>1. PICK drop : drop = Command("drop_collection", m.table)
  OBVIOUS
<1>2. PICK plan : plan = <<drop>>
  OBVIOUS
<1>3. drop.do = "drop_collection" /\ Range(plan) = {drop} /\ plan = DeleteModelPlan(m)
  BY <1>1, <1>2, CommandIs, OneIs DEF DeleteModelPlan
<1>4. MakesNew(Call(m), Call(None), plan)
  BY <1>3, CallNone DEF MakesNew
<1>5. DropsOld(m, None, plan)
  <2>1. (\A c \in Range(plan) : c.do \notin Drops)
    BY <1>3 DEF Drops
  <2>2. \E c \in Range(plan) : c.do = "drop_collection"
    BY <1>3
  <2> QED
    BY <2>1, <2>2, DropsNothing
<1>6. MovesCollection(m, None, plan)
  BY <1>3 DEF MovesCollection, OnCollection
<1>7. Before(plan, {"create_index"}, Lookups)
  BY <1>3, NoneBefore
<1>8. OnceIn(plan, Drops \cup OnCollection)
  BY <1>2, OnceOne
<1>9. Told(Call(m) \cup Call(None))
  BY CallNone, ToldAlone
<1> QED
  BY <1>3, <1>4, <1>5, <1>6, <1>7, <1>8, <1>9 DEF Fitted, Mild

LEMMA AlterDbTableFitted ==
  ASSUME NEW p, NEW a, Known(p, a), NEW b, Known(p, b), b.fields = a.fields,
         b.unique_together = a.unique_together, b.index_together = a.index_together,
         b.constraints = a.constraints, b.indexes = a.indexes, b.table # a.table,
         \A f \in Fields(a) : ~Spatial(f)
  PROVE  Fitted(a, b, <<Command("rename_collection", [from |-> a.table, to |-> b.table])>>)
<1>1. PICK rename : rename = Command("rename_collection", [from |-> a.table, to |-> b.table])
  OBVIOUS
<1>2. PICK plan : plan = <<rename>>
  OBVIOUS
<1>3. /\ rename.do = "rename_collection" /\ rename.arg = [from |-> a.table, to |-> b.table]
      /\ Range(plan) = {rename}
  BY <1>1, <1>2, CommandIs, OneIs
<1>4. Call(b) = Call(a)
  <2>1. Fields(b) = Fields(a)
    BY SameFields
  <2>2. \A t : PlacesOf(t, Fields(a)) = {}
    BY DEF PlacesOf
  <2>3. OptionsOf(b) = OptionsOf(a)
    BY SameFields DEF OptionsOf
  <2>4. Call(a) = KeysOf(Fields(a)) \cup PlacesOf(a.table, Fields(a)) \cup OptionsOf(a)
    BY KnownIs
  <2>5. Call(b) = KeysOf(Fields(b)) \cup PlacesOf(b.table, Fields(b)) \cup OptionsOf(b)
    BY KnownIs
  <2> QED
    BY <2>1, <2>2, <2>3, <2>4, <2>5
<1>5. MakesNew(Call(a), Call(b), plan)
  BY <1>3, <1>4 DEF MakesNew
<1>6. DropsOld(a, b, plan)
  <2>1. \A c \in Range(plan) : c.do \notin Drops
    BY <1>3 DEF Drops
  <2> QED
    BY <1>4, <2>1, DropsNothing
<1>7. MovesCollection(a, b, plan)
  <2>1. TableOf(a) = a.table /\ TableOf(b) = b.table
    BY KnownIs DEF TableOf
  <2> QED
    BY <1>3, <2>1 DEF MovesCollection, OnCollection
<1>8. Before(plan, {"create_index"}, Lookups)
  BY <1>3, NoneBefore
<1>9. OnceIn(plan, Drops \cup OnCollection)
  BY <1>2, OnceOne
<1>10. Told(Call(a) \cup Call(b))
  BY <1>4, ToldAlone
<1> QED
  BY <1>1, <1>2, <1>5, <1>6, <1>7, <1>8, <1>9, <1>10 DEF Fitted

-----------------------------------------------------------------------------
(* Operations on the fields of a model.                                    *)

SameOptions(a, b) ==
  /\ b.table = a.table
  /\ b.unique_together = a.unique_together /\ b.index_together = a.index_together
  /\ b.constraints = a.constraints /\ b.indexes = a.indexes
  /\ \A s \in Composed(a) : \A i \in DOMAIN s : b.fields[s[i]].col = a.fields[s[i]].col
  /\ \A s \in Filtered(a) : \A i \in DOMAIN s : b.fields[s[i]].type = a.fields[s[i]].type

LEMMA OptionsSame ==
  ASSUME NEW a, NEW b, SameOptions(a, b)
  PROVE  OptionsOf(b) = OptionsOf(a)
<1>1. \A s \in Composed(a) : Paths(b, s) = Paths(a, s) /\ ColumnsOf(b, s) = ColumnsOf(a, s)
  BY DEF SameOptions, Paths, ColumnsOf
<1>0. Filtered(a) \subseteq Composed(a)
  BY DEF Filtered, Composed
<1>2. ASSUME NEW s \in Filtered(a) PROVE UniqueFilter(b, s) = UniqueFilter(a, s)
  <2>1. \A i \in DOMAIN s : /\ b.fields[s[i]].col = a.fields[s[i]].col
                            /\ b.fields[s[i]].type = a.fields[s[i]].type
    BY <1>0 DEF SameOptions
  <2> QED
    BY <2>1 DEF UniqueFilter
<1>3. /\ \A s \in a.unique_together : s \in Filtered(a) /\ s \in Composed(a)
      /\ \A x \in a.constraints : x.fields \in Filtered(a) /\ x.fields \in Composed(a)
      /\ \A s \in a.index_together : s \in Composed(a)
      /\ \A x \in a.indexes : /\ x.condition => x.fields \in Filtered(a)
                              /\ x.fields \in Composed(a)
  BY DEF Composed, Uniques, Filtered
<1>9. ASSUME NEW x, x.condition => x.fields \in Filtered(a)
      PROVE  Condition(b, x) = Condition(a, x)
  <2>1. CASE x.condition
    <3>1. PICK s : s = x.fields
      OBVIOUS
    <3>2. \A i \in DOMAIN s : /\ b.fields[s[i]].col = a.fields[s[i]].col
                              /\ b.fields[s[i]].type = a.fields[s[i]].type
      BY <1>0, <1>9, <2>1, <3>1 DEF SameOptions
    <3>3. \A n \in Range(s) : /\ b.fields[n].col = a.fields[n].col
                             /\ b.fields[n].type = a.fields[n].type
      BY <3>2 DEF Range
    <3> QED
      BY <2>1, <3>1, <3>3 DEF Condition
  <2>2. CASE ~x.condition
    BY <2>2 DEF Condition
  <2> QED
    BY <2>1, <2>2
<1>4. \A s \in a.unique_together : Over(b, s) = Over(a, s)
  BY <1>1, <1>2, <1>3 DEF Over
<1>5. \A s \in a.index_together : Beside(b, s) = Beside(a, s)
  BY <1>1, <1>3 DEF Beside
<1>6. \A x \in a.constraints : MetaUnique(b, x) = MetaUnique(a, x)
  BY <1>1, <1>2, <1>3, <1>9 DEF MetaUnique
<1>7. \A x \in a.indexes : MetaIndex(b, x) = MetaIndex(a, x)
  BY <1>1, <1>3, <1>9 DEF MetaIndex
<1>8. /\ b.unique_together = a.unique_together /\ b.index_together = a.index_together
      /\ b.constraints = a.constraints /\ b.indexes = a.indexes
  BY DEF SameOptions
<1> QED
  BY <1>4, <1>5, <1>6, <1>7, <1>8 DEF OptionsOf

LEMMA ToldFields ==
  ASSUME NEW p, NEW a, Known(p, a), NEW b, Known(p, b), SameOptions(a, b),
         Keep(Fields(a) \cup Fields(b))
  PROVE  Told(Call(a) \cup Call(b))
<1> DEFINE F == Fields(a) \cup Fields(b)
<1>0. b.table = a.table /\ OptionsOf(b) = OptionsOf(a)
  BY OptionsSame DEF SameOptions
<1>1. Alone(a, F)
  <2>1. Alone(a, Fields(a)) /\ Alone(b, Fields(b))
    BY KeysAlone
  <2>2. /\ b.constraints = a.constraints /\ b.indexes = a.indexes
        /\ \A x \in a.constraints : Paths(b, x.fields) = Paths(a, x.fields)
        /\ \A x \in a.indexes : Paths(b, x.fields) = Paths(a, x.fields)
    BY DEF SameOptions, Paths, Composed, Uniques
  <2> QED
    BY <2>1, <2>2 DEF Alone
<1>2. Told(KeysOf(F) \cup PlacesOf(a.table, F) \cup OptionsOf(a))
  BY <1>1, ToldApart
<1>3. /\ KeysOf(F) = KeysOf(Fields(a)) \cup KeysOf(Fields(b))
      /\ PlacesOf(a.table, F) = PlacesOf(a.table, Fields(a)) \cup PlacesOf(a.table, Fields(b))
  BY DEF KeysOf, PlacesOf
<1>4. /\ Call(a) = KeysOf(Fields(a)) \cup PlacesOf(a.table, Fields(a)) \cup OptionsOf(a)
      /\ Call(b) = KeysOf(Fields(b)) \cup PlacesOf(a.table, Fields(b)) \cup OptionsOf(a)
  BY <1>0, KnownIs
<1> HIDE DEF F
<1>5. Call(a) \cup Call(b) = KeysOf(F) \cup PlacesOf(a.table, F) \cup OptionsOf(a)
  BY <1>3, <1>4
<1> QED
  BY <1>2, <1>5

\* The indexes in S are of the forms in N.
FormsOf(S, N) == \A n : n \in N <=> \E x \in S : Timeless(x) = n

\* The indexes that the editor makes for a field.
LEMMA FieldForms ==
  ASSUME NEW m, NEW f
  PROVE  /\ FormsOf(KeyIndexes(m, f), KeysOf({f}))
         /\ FormsOf(SpatialIndexes(m, f), PlacesOf(m.table, {f}))
         /\ \A x \in KeyIndexes(m, f) \cup SpatialIndexes(m, f) : Tabled(x, m.table)
<1>1. /\ Timeless(FieldIndex(m, f)) = OnField(f.col)
      /\ Timeless(FieldUnique(m, f)) = UniqueOn(f.col, f.type)
      /\ Timeless(SpatialIndex(m, SpatialPath(f))) = SpatialAt(m.table, SpatialPath(f))
  BY FormsAre
<1>2. \A n : n \in KeysOf({f}) <=> \E x \in KeyIndexes(m, f) : Timeless(x) = n
  BY <1>1 DEF KeysOf, KeyIndexes
<1>3. \A n : n \in PlacesOf(m.table, {f}) <=> \E x \in SpatialIndexes(m, f) : Timeless(x) = n
  BY <1>1 DEF PlacesOf, SpatialIndexes
<1>4. \A x \in KeyIndexes(m, f) \cup SpatialIndexes(m, f) : Tabled(x, m.table)
  BY TabledForms DEF KeyIndexes, SpatialIndexes
<1> QED
  BY <1>2, <1>3, <1>4 DEF FormsOf

\* One command that drops, and one index that goes.
LEMMA DropsOne ==
  ASSUME NEW from, NEW to, NEW plan, NEW c \in Range(plan), NEW y,
         \A d \in Range(plan) : d.do \in Drops => d = c,
         \A o : o \in Call(from) \ Call(to) <=> o = y,
         \A o \in Call(from) : Hits(c, from, to, o) <=> o = y,
         c.do = "drop_index" =>
           c.arg[1] \notin Timed /\ \A n \in Call(to) : ~Hits(c, from, to, n)
  PROVE  DropsOld(from, to, plan)
<1>1. \A d, o : Hits(d, from, to, o) => d.do \in Drops
  BY DEF Hits, Drops
<1>2. y \in Call(from) /\ y \notin Call(to)
  OBVIOUS
<1>3. Hits(c, from, to, y)
  BY <1>2
<1>4. \A o \in Call(from) \ Call(to) : \E d \in Range(plan) : Hits(d, from, to, o)
  BY <1>3
<1>5. \A d \in Range(plan) : d.do \in Drops =>
        /\ \E o \in Call(from) : Hits(d, from, to, o)
        /\ \A o, k \in Call(from) : Hits(d, from, to, o) /\ Hits(d, from, to, k) => o = k
        /\ \A o \in Call(from) : Hits(d, from, to, o) => o \notin Call(to)
  BY <1>2, <1>3
<1>6. \A d \in Range(plan) : d.do = "drop_index" =>
        d.arg[1] \notin Timed /\ \A n \in Call(to) : ~Hits(d, from, to, n)
  BY DEF Drops
<1>7. \A d, e \in Range(plan), o \in Call(from) :
        Hits(d, from, to, o) /\ Hits(e, from, to, o) => d = e
  BY <1>1
<1> QED
  BY <1>4, <1>5, <1>6, <1>7 DEF DropsOld

\* A plan on the fields leaves the collection in its place.
LEMMA FieldsFitted ==
  ASSUME NEW p, NEW a, Known(p, a), NEW b, Known(p, b), SameOptions(a, b),
         Keep(Fields(a) \cup Fields(b)), NEW plan,
         \A c \in Range(plan) : c.do \notin OnCollection, OnceIn(plan, Drops),
         Before(plan, {"create_index"}, Lookups), DropsOld(a, b, plan),
         MakesNew(Call(a), Call(b), plan)
  PROVE  Fitted(a, b, plan)
<1>1. Told(Call(a) \cup Call(b))
  BY ToldFields
<1>2. MovesCollection(a, b, plan)
  <2>1. TableOf(a) = TableOf(b)
    BY KnownIs DEF TableOf, SameOptions
  <2> QED
    BY <2>1, MovesNothing
<1>3. OnceIn(plan, Drops \cup OnCollection)
  <2>1. \A i \in DOMAIN plan : plan[i] \in Range(plan)
    BY DEF Range
  <2> QED
    BY <2>1 DEF OnceIn
<1> QED
  BY <1>1, <1>2, <1>3 DEF Fitted

\* The second model has one field more.
Grown(a, b, n, f) ==
  /\ b.table = a.table
  /\ b.unique_together = a.unique_together /\ b.index_together = a.index_together
  /\ b.constraints = a.constraints /\ b.indexes = a.indexes
  /\ n \notin FieldNames(a) /\ FieldNames(b) = FieldNames(a) \cup {n}
  /\ b.fields[n] = f
  /\ \A k \in FieldNames(a) : b.fields[k] = a.fields[k]

LEMMA GrownIs ==
  ASSUME NEW p, NEW a, Known(p, a), NEW b, Known(p, b), NEW n, NEW f, Grown(a, b, n, f)
  PROVE  /\ SameOptions(a, b) /\ SameOptions(b, a)
         /\ Fields(b) = Fields(a) \cup {f}
         /\ \A r \in Fields(a) : r.col # f.col
         /\ Keep(Fields(a) \cup Fields(b)) /\ Keep(Fields(b) \cup Fields(a))
         /\ \A o : o \in Call(b) \ Call(a)
                     <=> o \in KeysOf({f}) \/ o \in PlacesOf(a.table, {f})
         /\ Call(a) \subseteq Call(b)
<1>1. /\ Composed(b) = Composed(a) /\ Filtered(b) = Filtered(a)
      /\ Filtered(a) \subseteq Composed(a)
  BY DEF Grown, Composed, Uniques, Filtered
<1>2. \A s \in Composed(a) : \A i \in DOMAIN s : b.fields[s[i]] = a.fields[s[i]]
  BY KnownIs DEF Grown
<1>3. SameOptions(a, b) /\ SameOptions(b, a)
  BY <1>1, <1>2 DEF Grown, SameOptions
<1>4. Fields(b) = Fields(a) \cup {f}
  BY DEF Grown, Fields
<1>5. \A r \in Fields(a) : r.col # f.col
  <2> TAKE r \in Fields(a)
  <2>1. PICK k \in FieldNames(a) : r = a.fields[k]
    BY DEF Fields
  <2>2. k # n /\ k \in FieldNames(b) /\ n \in FieldNames(b) /\ b.fields[k] = r
    BY <2>1 DEF Grown
  <2>3. Sound(b)
    BY KnownIs DEF Known, Legal
  <2> QED
    BY <2>2, <2>3 DEF Sound, Grown
<1>6. Keep(Fields(a) \cup Fields(b)) /\ Keep(Fields(b) \cup Fields(a))
  <2>1. Fields(a) \cup Fields(b) = Fields(b) /\ Fields(b) \cup Fields(a) = Fields(b)
    BY <1>4
  <2> QED
    BY <2>1, KeepFields
<1>7. PICK R, A, B : R = Fields(a) /\ A = {} /\ B = {f}
  OBVIOUS
<1>8. OptionsOf(b) = OptionsOf(a)
  BY <1>3, OptionsSame
<1>9. \A o : o \in Call(b) \ Call(a) <=> \/ o \in KeysOf(B) \ KeysOf(A)
                                        \/ o \in PlacesOf(a.table, B) \ PlacesOf(a.table, A)
  <2>1. Parts(a, b, R, A, B)
    BY <1>4, <1>5, <1>7 DEF Parts
  <2>2. b.table = a.table
    BY DEF Grown
  <2> QED
    BY <1>8, <2>1, <2>2, FieldsDiffer
<1>10. KeysOf({}) = {} /\ PlacesOf(a.table, {}) = {}
  BY DEF KeysOf, PlacesOf
<1>11. \A o : o \in Call(b) \ Call(a) <=> o \in KeysOf({f}) \/ o \in PlacesOf(a.table, {f})
  BY <1>7, <1>9, <1>10
<1>12. Call(a) \subseteq Call(b)
  <2>1. /\ KeysOf(Fields(a)) \subseteq KeysOf(Fields(b))
        /\ PlacesOf(a.table, Fields(a)) \subseteq PlacesOf(a.table, Fields(b))
    BY <1>4 DEF KeysOf, PlacesOf
  <2>2. b.table = a.table
    BY DEF Grown
  <2> QED
    BY <1>8, <2>1, <2>2, KnownIs
<1> QED
  BY <1>3, <1>4, <1>5, <1>6, <1>11, <1>12

LEMMA AddFieldFitted ==
  ASSUME NEW p, NEW a, Known(p, a), NEW b, Known(p, b), NEW n, NEW f, Grown(a, b, n, f),
         Spatial(f) \in BOOLEAN
  PROVE  Fitted(a, b, AddFieldPlan(a, f)) /\ Mild(AddFieldPlan(a, f))
<1>1. PICK plan, set, S, E :
        /\ plan = AddFieldPlan(a, f)
        /\ set = Command("set", [col |-> f.col, value |-> InitialValue(f)])
        /\ S = KeyIndexes(a, f) \cup SpatialIndexes(a, f)
        /\ E = {set}
  OBVIOUS
<1>2. Range(plan) = E \cup AddAll(S) /\ set.do = "set"
  <2>1. Range(plan) = {set} \cup AddAll(S)
    BY <1>1, AddFieldPlanIs
  <2> QED
    BY <1>1, <2>1, CommandIs
<1>3. \A c \in Range(plan) : c.do = "set" \/ c.do = "create_index"
  BY <1>1, <1>2, AddAllDo
<1>4. PICK old, new : old = Call(a) /\ new = Call(b)
  OBVIOUS
<1>5. MakesNew(old, new, plan)
  <2>1. \A o : o \in new \ old <=> \E x \in S : Timeless(x) = o
    <3>1. \A o : o \in new \ old <=> o \in KeysOf({f}) \/ o \in PlacesOf(a.table, {f})
      BY <1>4, GrownIs
    <3>2. /\ \A o : o \in KeysOf({f}) <=> \E x \in KeyIndexes(a, f) : Timeless(x) = o
          /\ \A o : o \in PlacesOf(a.table, {f})
                      <=> \E x \in SpatialIndexes(a, f) : Timeless(x) = o
      <4>1. /\ FormsOf(KeyIndexes(a, f), KeysOf({f}))
            /\ FormsOf(SpatialIndexes(a, f), PlacesOf(a.table, {f}))
        BY FieldForms
      <4> QED
        BY ONLY <4>1 DEF FormsOf
    <3> QED
      BY <1>1, <3>1, <3>2
  <2>2. \A x \in S : Tabled(x, a.table)
    BY <1>1, FieldForms
  <2>3. \A c \in E : c.do # "create_index"
    BY <1>1, <1>2
  <2> QED
    BY <1>2, <2>1, <2>2, <2>3, MakesNewIs
<1>6. DropsOld(a, b, plan)
  <2>1. \A c \in Range(plan) : c.do \notin Drops
    BY <1>3 DEF Drops
  <2>2. Call(a) \subseteq Call(b)
    BY GrownIs
  <2> QED
    BY <2>1, <2>2, DropsNothing
<1>7. /\ \A c \in Range(plan) : c.do \notin OnCollection
      /\ \A c \in Range(plan) : c.do \notin Drops /\ c.do \notin Lookups
  BY <1>3 DEF OnCollection, Drops, Lookups
<1>8. OnceIn(plan, Drops) /\ Before(plan, {"create_index"}, Lookups)
  BY <1>7, OnceNone, NoneBefore
<1>9. SameOptions(a, b) /\ Keep(Fields(a) \cup Fields(b))
  BY GrownIs
<1>10. Fitted(a, b, plan)
  BY <1>4, <1>5, <1>6, <1>7, <1>8, <1>9, FieldsFitted
<1> QED
  BY <1>1, <1>3, <1>10 DEF Mild

LEMMA RemoveFieldOnce ==
  ASSUME NEW f
  PROVE  OnceIn(RemoveKey(f), Drops)
<1> DEFINE s == When(f.key = "index", <<Command("remove_field_index", f.col)>>)
           t == When(f.key = "unique", <<Command("remove_field_unique", f.col)>>)
<1>1. IsSeq(s) /\ IsSeq(t) /\ OnceIn(s, Drops) /\ OnceIn(t, Drops)
  <2>1. \A c : IsSeq(<<c>>) /\ OnceIn(<<c>>, Drops)
    BY OneIs, OnceOne
  <2> QED
    BY <2>1, WhenIs, OnceWhen
<1>2. \A c \in Range(s), d \in Range(t) : c # d
  <2>1. /\ Range(s) = IF f.key = "index" THEN {Command("remove_field_index", f.col)} ELSE {}
        /\ Range(t) = IF f.key = "unique" THEN {Command("remove_field_unique", f.col)} ELSE {}
    BY OneIs, WhenIs
  <2>2. /\ \A c \in Range(s) : c.do = "remove_field_index"
        /\ \A c \in Range(t) : c.do = "remove_field_unique"
    BY <2>1, CommandIs
  <2> QED
    BY <2>2
<1> HIDE DEF s, t
<1>3. OnceIn(s \o t, Drops)
  BY <1>1, <1>2, OnceConcat
<1> QED
  BY <1>3 DEF RemoveKey, s, t

SpatialDrop(m, f) == Command("drop_index", SpatialIndex(m, <<f.col>>).name)

LEMMA SpatialDropIs ==
  ASSUME NEW m, NEW f, f.spatial, f.type # "place"
  PROVE  /\ PlacesOf(m.table, {f}) = {SpatialAt(m.table, <<f.col>>)}
         /\ SpatialDrop(m, f).do = "drop_index"
         /\ SpatialDrop(m, f).arg = SpatialAt(m.table, <<f.col>>).name
         /\ SpatialDrop(m, f).arg[1] \notin Timed
<1>1. Spatial(f) /\ SpatialPath(f) = <<f.col>>
  BY DEF Spatial, SpatialPath
<1>2. PlacesOf(m.table, {f}) = {SpatialAt(m.table, <<f.col>>)}
  BY <1>1 DEF PlacesOf
<1>3. PICK path : path = <<f.col>>
  OBVIOUS
<1>4. /\ SpatialIndex(m, path).name = <<"spatial", m.table, path>>
      /\ SpatialAt(m.table, path).name = <<"spatial", m.table, path>>
  BY DEF SpatialIndex, SpatialAt, MongoIndex
<1>5. /\ SpatialDrop(m, f).do = "drop_index"
      /\ SpatialDrop(m, f).arg = SpatialIndex(m, path).name
  BY <1>3, CommandIs DEF SpatialDrop
<1>6. <<"spatial", m.table, path>>[1] \notin Timed
  BY DEF Timed
<1> QED
  BY <1>2, <1>3, <1>4, <1>5, <1>6

\* The command for the key of a field, and the index that goes.
KeyDrop(f, c, y) ==
  /\ RemoveKeys(f) = {c} /\ KeysOf({f}) = {y}
  /\ c.do \in Drops /\ c.do # "drop_index"

LEMMA KeyDropIs ==
  ASSUME NEW f, f.key \in {"index", "unique"}
  PROVE  \E c, y : KeyDrop(f, c, y)
<1>1. CASE f.key = "index"
  <2>1. /\ RemoveKeys(f) = {Command("remove_field_index", f.col)}
        /\ KeysOf({f}) = {OnField(f.col)}
    BY <1>1 DEF RemoveKeys, KeysOf
  <2> QED
    <3>1. PICK c, y : c = Command("remove_field_index", f.col) /\ y = OnField(f.col)
      OBVIOUS
    <3>2. c.do = "remove_field_index"
      BY <3>1, CommandIs
    <3>3. RemoveKeys(f) = {c} /\ KeysOf({f}) = {y}
      BY <2>1, <3>1
    <3> QED
      BY <3>2, <3>3 DEF Drops, KeyDrop
<1>2. CASE f.key = "unique"
  <2>1. /\ RemoveKeys(f) = {Command("remove_field_unique", f.col)}
        /\ KeysOf({f}) = {UniqueOn(f.col, f.type)}
    BY <1>2 DEF RemoveKeys, KeysOf
  <2> QED
    <3>1. PICK c, y : c = Command("remove_field_unique", f.col) /\ y = UniqueOn(f.col, f.type)
      OBVIOUS
    <3>2. c.do = "remove_field_unique"
      BY <3>1, CommandIs
    <3>3. RemoveKeys(f) = {c} /\ KeysOf({f}) = {y}
      BY <2>1, <3>1
    <3> QED
      BY <3>2, <3>3 DEF Drops, KeyDrop
<1> QED
  BY <1>1, <1>2

LEMMA KeylessIs ==
  ASSUME NEW f, f.key = "none"
  PROVE  RemoveKeys(f) = {} /\ KeysOf({f}) = {}
BY DEF RemoveKeys, KeysOf

\* The indexes of a field that go, if its key goes (it is in X) or its spatial
\* index does (it is in Y), and the commands for them.
LEMMA FieldDrops ==
  ASSUME NEW p, NEW a, Known(p, a), NEW b, Told(Call(a) \cup Call(b)),
         NEW f \in Fields(a), f \in ModelField, NEW X, X \subseteq {f}, NEW Y, Y \subseteq {f},
         X # {} => Unnamed(a, f),
         \A g \in Y : g.spatial, NEW plan,
         \A o : o \in Call(a) \ Call(b) <=> o \in KeysOf(X) \/ o \in PlacesOf(a.table, Y),
         \A c : c \in Range(plan) /\ c.do \in Drops
                  <=> \/ \E g \in X : c \in RemoveKeys(g)
                      \/ \E g \in Y : c = SpatialDrop(a, g)
  PROVE  DropsOld(a, b, plan)
<1>1. /\ f.key \in {"none", "index", "unique"}
      /\ f.spatial => f.key = "none" /\ f.type # "place"
  BY KnownIs DEF ModelField, Spatial
<1>2. KeysOf({}) = {} /\ PlacesOf(a.table, {}) = {}
  BY DEF KeysOf, PlacesOf
<1>3. CASE X = {f} /\ f.key \in {"index", "unique"}
  <2>0. f.key \in {"index", "unique"}
    BY <1>3
  <2>1. PICK c, y : KeyDrop(f, c, y)
    BY <2>0, KeyDropIs
  <2>2. Y = {}
    BY <1>1, <1>3
  <2>3. /\ \A o : o \in Call(a) \ Call(b) <=> o = y
        /\ c \in Range(plan) /\ \A d \in Range(plan) : d.do \in Drops => d = c
    BY <1>2, <1>3, <2>1, <2>2 DEF KeyDrop
  <2>4. \A o \in Call(a) : Hits(c, a, b, o) <=> o = y
    BY <1>3, <2>1, KeyHits DEF KeyDrop
  <2> QED
    BY <2>1, <2>3, <2>4, DropsOne DEF KeyDrop
<1>4. CASE Y = {f}
  <2>1. f.spatial /\ f.key = "none" /\ f.type # "place"
    BY <1>1, <1>4
  <2>2. PICK c, y : c = SpatialDrop(a, f) /\ y = SpatialAt(a.table, <<f.col>>)
    OBVIOUS
  <2>3. /\ PlacesOf(a.table, {f}) = {y} /\ c.do = "drop_index" /\ c.arg = y.name
        /\ c.arg[1] \notin Timed
    BY <2>1, <2>2, SpatialDropIs
  <2>4. KeysOf(X) = {} /\ \A g \in X : RemoveKeys(g) = {}
    <3>1. RemoveKeys(f) = {} /\ KeysOf({f}) = {}
      BY <2>1, KeylessIs
    <3>2. X = {} \/ X = {f}
      OBVIOUS
    <3> QED
      BY <1>2, <3>1, <3>2
  <2>5. \A o : o \in Call(a) \ Call(b) <=> o = y
    BY <1>4, <2>3, <2>4
  <2>6. c \in Range(plan) /\ \A d \in Range(plan) : d.do \in Drops => d = c
    BY <1>4, <2>2, <2>4
  <2>7. y \in Call(a) /\ y \notin Call(b)
    BY <2>5
  <2>8. \A o \in Call(a) \cup Call(b) : Hits(c, a, b, o) <=> o = y
    BY <2>3, <2>7, NameHits
  <2>9. (\A o \in Call(a) : Hits(c, a, b, o) <=> o = y) /\ \A o \in Call(b) : ~Hits(c, a, b, o)
    BY <2>7, <2>8
  <2> QED
    BY <2>3, <2>5, <2>6, <2>9, DropsOne
<1>5. CASE Y = {} /\ (X = {} \/ f.key = "none")
  <2>1. KeysOf(X) = {} /\ \A g \in X : RemoveKeys(g) = {}
    BY <1>2, <1>5, KeylessIs
  <2>2. Call(a) \subseteq Call(b) /\ \A c \in Range(plan) : c.do \notin Drops
    BY <1>2, <1>5, <2>1
  <2> QED
    BY <2>2, DropsNothing
<1> QED
  BY <1>1, <1>3, <1>4, <1>5

LEMMA RemoveFieldPlanOnce ==
  ASSUME NEW m, NEW f, f.spatial \in BOOLEAN
  PROVE  OnceIn(RemoveFieldPlan(m, f), Drops)
<1> DEFINE a == <<Command("unset", f.col)>>
           k == RemoveKey(f)
           d == Command("drop_index", SpatialIndex(m, <<f.col>>).name)
           b == When(f.spatial, <<d>>)
<1>1. IsSeq(a) /\ OnceIn(a, Drops) /\ \A c \in Range(a) : c.do = "unset"
  BY OneIs, OnceOne, CommandIs
<1>2. IsSeq(k) /\ OnceIn(k, Drops) /\ \A c \in Range(k) : c.do \in Lookups
  BY RemoveKeyIs, RemoveFieldOnce, CommandIs DEF RemoveKeys, Lookups
<1>3. d.do = "drop_index"
  BY CommandIs
<1> HIDE DEF d
<1>4. IsSeq(b) /\ OnceIn(b, Drops) /\ \A c \in Range(b) : c.do = "drop_index"
  <2>1. IsSeq(b) /\ Range(b) = IF f.spatial THEN {d} ELSE {}
    BY OneIs, WhenIs
  <2> QED
    BY <1>3, <2>1, OnceOne, OnceWhen
<1>5. RemoveFieldPlan(m, f) = a \o k \o b
  BY DEF RemoveFieldPlan, RemoveSpatial, d
<1> HIDE DEF a, k, b
<1>6. /\ IsSeq(a \o k) /\ OnceIn(a \o k, Drops) /\ Range(a \o k) = Range(a) \cup Range(k)
  <2>1. \A c \in Range(a), e \in Range(k) : c.do \in Drops => c # e
    BY <1>1 DEF Drops
  <2> QED
    BY <1>1, <1>2, <2>1, ConcatIs, OnceConcat
<1>7. \A c \in Range(a \o k), e \in Range(b) : c.do \in Drops => c # e
  BY <1>1, <1>2, <1>4, <1>6 DEF Lookups
<1>8. OnceIn(a \o k \o b, Drops)
  BY <1>4, <1>6, <1>7, OnceConcat
<1> QED
  BY <1>5, <1>8

LEMMA RemoveFieldFitted ==
  ASSUME NEW p, NEW a, Known(p, a), NEW b, Known(p, b), NEW n, NEW f \in ModelField,
         Grown(b, a, n, f), f.type # "place"
  PROVE  Fitted(a, b, RemoveFieldPlan(a, f))
<1>1. PICK plan, X, Y : /\ plan = RemoveFieldPlan(a, f)
                        /\ X = {f} /\ Y = {g \in {f} : g.spatial}
  OBVIOUS
<1>2. f.spatial \in BOOLEAN /\ f \in Fields(a)
  <2>1. Fields(a) = Fields(b) \cup {f}
    BY GrownIs
  <2>2. f.spatial \in BOOLEAN
    BY DEF ModelField
  <2> QED
    BY <2>1, <2>2
<1>3. Range(plan) = {Command("unset", f.col)} \cup RemoveKeys(f)
                      \cup {c \in {SpatialDrop(a, f)} : f.spatial}
  BY <1>1, <1>2, RemoveFieldPlanIs DEF SpatialDrop
<1>4. /\ Command("unset", f.col).do = "unset" /\ SpatialDrop(a, f).do = "drop_index"
      /\ \A c \in RemoveKeys(f) : c.do \in {"remove_field_index", "remove_field_unique"}
  BY CommandIs DEF SpatialDrop, RemoveKeys
<1>5. \A c \in Range(plan) : c.do = "unset" \/ c.do \in Drops
  BY <1>3, <1>4 DEF Drops
<1>6. \A c : c \in Range(plan) /\ c.do \in Drops <=> \/ \E g \in X : c \in RemoveKeys(g)
                                                     \/ \E g \in Y : c = SpatialDrop(a, g)
  BY <1>1, <1>3, <1>4 DEF Drops
<1>7. a.table = b.table
  BY DEF Grown
<1>8. \A o : o \in Call(a) \ Call(b) <=> o \in KeysOf(X) \/ o \in PlacesOf(a.table, Y)
  <2>1. \A o : o \in Call(a) \ Call(b) <=> o \in KeysOf({f}) \/ o \in PlacesOf(b.table, {f})
    BY GrownIs
  <2>2. PlacesOf(a.table, Y) = PlacesOf(a.table, {f})
    BY <1>1 DEF PlacesOf, Spatial
  <2> QED
    BY <1>1, <1>7, <2>1, <2>2
<1>9. SameOptions(a, b) /\ Keep(Fields(a) \cup Fields(b)) /\ Call(b) \subseteq Call(a)
  BY GrownIs
<1>10. DropsOld(a, b, plan)
  <2>1. Told(Call(a) \cup Call(b))
    BY <1>9, ToldFields
  <2>2. X \subseteq {f} /\ Y \subseteq {f} /\ \A g \in Y : g.spatial
    BY <1>1
  <2>3. Unnamed(a, f)
    <3> SUFFICES ASSUME NEW x \in a.constraints, Paths(a, x.fields) = <<<<f.col>>>>
                 PROVE  FALSE
      BY DEF Unnamed
    <3>1. x.fields \in Composed(a) /\ x.fields \in Composed(b)
      BY DEF Grown, Composed, Uniques
    <3>2. n \in FieldNames(a) /\ a.fields[n] = f /\ n \notin FieldNames(b)
      BY DEF Grown
    <3>3. x.fields = <<n>>
      BY <3>1, <3>2, OnePath
    <3>4. 1 \in DOMAIN x.fields /\ x.fields[1] = n
      BY <3>3
    <3> QED
      BY <3>1, <3>2, <3>4, KnownIs
  <2> QED
    BY <1>2, <1>6, <1>8, <2>1, <2>2, <2>3, FieldDrops
<1>11. MakesNew(Call(a), Call(b), plan)
  <2>1. \A c \in Range(plan) : c.do # "create_index"
    BY <1>5 DEF Drops
  <2> QED
    BY <1>9, <2>1 DEF MakesNew
<1>12. /\ \A c \in Range(plan) : c.do \notin OnCollection /\ c.do # "create_index"
  BY <1>5 DEF Drops, OnCollection
<1>13. OnceIn(plan, Drops) /\ Before(plan, {"create_index"}, Lookups)
  BY <1>1, <1>2, <1>12, RemoveFieldPlanOnce, NoneBefore
<1> QED
  BY <1>1, <1>9, <1>10, <1>11, <1>12, <1>13, FieldsFitted

\* A field is altered in one of the ways that go well.
Altered(a, b, n, old, new) ==
  /\ b.table = a.table
  /\ b.unique_together = a.unique_together /\ b.index_together = a.index_together
  /\ b.constraints = a.constraints /\ b.indexes = a.indexes
  /\ n \in FieldNames(a) /\ FieldNames(b) = FieldNames(a)
  /\ a.fields[n] = old /\ b.fields[n] = new
  /\ \A k \in FieldNames(a) \ {n} : b.fields[k] = a.fields[k]
  /\ new.col # old.col => ~NamedIn(n, Composed(a)) /\ ~Spatial(old)
  /\ new.type # old.type => /\ ~NamedIn(n, Filtered(a))
                            /\ ~(old.key = "unique" /\ new.key = "unique")
  /\ old.key = "index" /\ new.key # "index" => \A x \in a.constraints : x.fields # <<n>>
  /\ old.type = "place" <=> new.type = "place"

LEMMA KeysMove ==
  ASSUME NEW old, NEW new,
         new.type # old.type => ~(old.key = "unique" /\ new.key = "unique")
  PROVE  /\ old.key # new.key \/ old.col # new.col =>
              \A y : ~(y \in KeysOf({old}) /\ y \in KeysOf({new}))
         /\ ~(old.key # new.key \/ old.col # new.col) => KeysOf({old}) = KeysOf({new})
<1>1. ASSUME NEW y, y \in KeysOf({old}), y \in KeysOf({new})
      PROVE  old.key = new.key /\ old.col = new.col
  <2>1. KeyLook(y, old) /\ KeyLook(y, new)
    BY <1>1, KeyIs
  <2>2. <<old.col>> = <<new.col>> /\ old.key = new.key
    BY <2>1 DEF KeyLook
  <2> QED
    BY <2>2
<1>2. ASSUME old.key = new.key, old.col = new.col PROVE KeysOf({old}) = KeysOf({new})
  <2>1. old.key = "unique" => old.type = new.type
    BY <1>2
  <2> QED
    BY <1>2, <2>1 DEF KeysOf
<1> QED
  BY <1>1, <1>2

\* A field with a spatial index stays in its column, and a place a place.
PlaceKept(old, new) ==
  /\ old.spatial \in BOOLEAN /\ new.spatial \in BOOLEAN
  /\ old.spatial => old.type # "place"
  /\ new.spatial => new.type # "place"
  /\ old.type = "place" <=> new.type = "place"
  /\ new.col # old.col => ~Spatial(old)

LEMMA PlacesMove ==
  ASSUME NEW table, NEW old, NEW new, PlaceKept(old, new)
  PROVE  /\ \A y : y \in PlacesOf(table, {old}) \ PlacesOf(table, {new})
                     <=> old.spatial /\ ~new.spatial /\ y \in PlacesOf(table, {old})
         /\ \A y : y \in PlacesOf(table, {new}) \ PlacesOf(table, {old})
                     <=> ~old.spatial /\ new.spatial /\ y \in PlacesOf(table, {new})
<1>1. \A f : PlacesOf(table, {f}) =
             IF Spatial(f) THEN {SpatialAt(table, SpatialPath(f))} ELSE {}
  BY DEF PlacesOf
<1>2. CASE old.type = "place"
  <2>1. Spatial(old) /\ Spatial(new) /\ ~old.spatial /\ ~new.spatial /\ old.col = new.col
    BY <1>2 DEF Spatial, PlaceKept
  <2>2. SpatialPath(old) = SpatialPath(new)
    BY <1>2, <2>1 DEF SpatialPath, PlaceKept
  <2> QED
    BY <1>1, <2>1, <2>2
<1>3. CASE old.type # "place"
  <2>1. (Spatial(old) <=> old.spatial) /\ (Spatial(new) <=> new.spatial)
    BY <1>3 DEF Spatial, PlaceKept
  <2>2. old.spatial /\ new.spatial => SpatialPath(old) = SpatialPath(new)
    BY <1>3, <2>1 DEF SpatialPath, PlaceKept
  <2> QED
    BY <1>1, <2>1, <2>2
<1> QED
  BY <1>2, <1>3

LEMMA AlteredParts ==
  ASSUME NEW p, NEW a, Known(p, a), NEW b, Known(p, b), NEW n, NEW old, NEW new,
         Altered(a, b, n, old, new)
  PROVE  \E R : Parts(a, b, R, {old}, {new}) /\ Parts(b, a, R, {new}, {old})
<1> DEFINE R == {a.fields[k] : k \in FieldNames(a) \ {n}}
<1>1. Fields(a) = R \cup {old} /\ Fields(b) = R \cup {new}
  BY DEF Altered, Fields
<1>2. ASSUME NEW r \in R PROVE r.col # old.col /\ r.col # new.col
  <2>1. PICK k \in FieldNames(a) \ {n} : r = a.fields[k]
    OBVIOUS
  <2>2. /\ k \in FieldNames(a) /\ n \in FieldNames(a) /\ k # n /\ a.fields[n] = old
        /\ k \in FieldNames(b) /\ n \in FieldNames(b) /\ b.fields[n] = new
        /\ b.fields[k] = r
    BY <2>1 DEF Altered
  <2>3. Sound(a) /\ Sound(b)
    BY KnownIs DEF Known, Legal
  <2> QED
    BY <2>1, <2>2, <2>3 DEF Sound
<1> QED
  BY <1>1, <1>2 DEF Parts

LEMMA AlteredOptions ==
  ASSUME NEW p, NEW a, Known(p, a), NEW b, NEW n, NEW old, NEW new,
         Altered(a, b, n, old, new)
  PROVE  SameOptions(a, b)
<1>1. ASSUME NEW s \in Composed(a), NEW i \in DOMAIN s
      PROVE  b.fields[s[i]].col = a.fields[s[i]].col
  <2>1. s[i] \in FieldNames(a)
    BY KnownIs
  <2>2. s[i] = n => NamedIn(n, Composed(a))
    BY DEF NamedIn, Range
  <2> QED
    BY <2>1, <2>2 DEF Altered
<1>2. ASSUME NEW s \in Filtered(a), NEW i \in DOMAIN s
      PROVE  b.fields[s[i]].type = a.fields[s[i]].type
  <2>1. s[i] \in FieldNames(a)
    BY KnownIs DEF Composed, Filtered
  <2>2. s[i] = n => NamedIn(n, Filtered(a))
    BY DEF NamedIn, Range
  <2> QED
    BY <2>1, <2>2 DEF Altered
<1> QED
  BY <1>1, <1>2 DEF SameOptions, Altered

LEMMA AlteredKeep ==
  ASSUME NEW p, NEW a, Known(p, a), NEW b, Known(p, b), NEW n, NEW old, NEW new,
         Altered(a, b, n, old, new)
  PROVE  Keep(Fields(a) \cup Fields(b))
<1>1. PICK R : Parts(a, b, R, {old}, {new})
  BY AlteredParts
<1>2. /\ Fields(a) = R \cup {old} /\ Fields(b) = R \cup {new}
      /\ \A r \in R : r.col # old.col /\ r.col # new.col
  BY <1>1 DEF Parts
<1>3. new.type # old.type => ~(old.key = "unique" /\ new.key = "unique")
  BY DEF Altered
<1>4. /\ \A f, g \in Fields(a) : f.col = g.col => f = g
      /\ \A f, g \in Fields(b) : f.col = g.col => f = g
  BY KnownIs
<1> QED
  BY <1>2, <1>3, <1>4 DEF Keep

\* The indexes in S and not in R are those of the fields B that A has not.
Beyond(S, R, table, B, A) ==
  \A o : o \in S \ R <=> \/ o \in KeysOf(B) \ KeysOf(A)
                          \/ o \in PlacesOf(table, B) \ PlacesOf(table, A)

LEMMA AlteredDiffer ==
  ASSUME NEW p, NEW a, Known(p, a), NEW b, Known(p, b), NEW n, NEW old, NEW new,
         Altered(a, b, n, old, new)
  PROVE  /\ Beyond(Call(b), Call(a), a.table, {new}, {old})
         /\ Beyond(Call(a), Call(b), a.table, {old}, {new})
<1>1. PICK R : Parts(a, b, R, {old}, {new}) /\ Parts(b, a, R, {new}, {old})
  BY AlteredParts
<1>2. b.table = a.table /\ OptionsOf(b) = OptionsOf(a)
  <2>1. SameOptions(a, b)
    BY AlteredOptions
  <2> QED
    BY <2>1, OptionsSame DEF SameOptions
<1>3. PICK A, B : A = {old} /\ B = {new}
  OBVIOUS
<1>4. Beyond(Call(b), Call(a), a.table, B, A)
  BY <1>1, <1>2, <1>3, FieldsDiffer DEF Beyond
<1>5. Beyond(Call(a), Call(b), b.table, A, B)
  BY <1>1, <1>2, <1>3, FieldsDiffer DEF Beyond
<1> QED
  BY <1>2, <1>3, <1>4, <1>5

LEMMA AlterFieldPlanOnce ==
  ASSUME NEW m, NEW old \in ModelField, NEW new \in ModelField
  PROVE  OnceIn(AlterFieldPlan(m, old, new), Drops)
<1> DEFINE r == Command("rename_column", [from |-> old.col, to |-> new.col])
           n == Command("replace_null", new.col)
           x == AddIndex(SpatialIndex(m, <<new.col>>))
           d == Command("drop_index", SpatialIndex(m, <<new.col>>).name)
           L == RemoveKey(old)
           I == AddKey(m, new)
           A == When(old.key # new.key, L)
           M3 == L \o I
           M2 == When(old.key = new.key, M3)
           M1 == <<r>> \o M2
           M0 == When(old.col # new.col, M1)
           N == When(NullReplaced(old, new), <<n>>)
           K == When(old.key # new.key, I)
           S == When(~old.spatial /\ new.spatial, <<x>>)
           T == When(old.spatial /\ ~new.spatial, <<d>>)
<1>0. /\ NullReplaced(old, new) \in BOOLEAN
      /\ old.spatial \in BOOLEAN /\ new.spatial \in BOOLEAN
  BY DEF ModelField, NullReplaced
<1>1. /\ r.do = "rename_column" /\ n.do = "replace_null" /\ x.do = "create_index"
      /\ d.do = "drop_index"
  BY CommandIs
<1>2. AlterFieldPlan(m, old, new) = A \o M0 \o N \o K \o S \o T
  BY DEF AlterFieldPlan, RemoveSpatial, Moved
<1> HIDE DEF r, n, x, d
<1>3. /\ IsSeq(L) /\ OnceIn(L, Drops) /\ \A c \in Range(L) : c.do \in Lookups
  BY RemoveKeyIs, RemoveFieldOnce, CommandIs DEF RemoveKeys, Lookups
<1>4. /\ IsSeq(I) /\ \A c \in Range(I) : c.do = "create_index"
  BY AddKeyIs, AddAllDo
<1> HIDE DEF L, I
<1>5. /\ IsSeq(A) /\ OnceIn(A, Drops) /\ \A c \in Range(A) : c.do \in Lookups
      /\ old.key = new.key => Range(A) = {}
  BY <1>3, WhenIs, OnceWhen
<1>6. /\ IsSeq(M3) /\ OnceIn(M3, Drops)
      /\ \A c \in Range(M3) : c.do \in Lookups \/ c.do = "create_index"
  <2>1. Range(M3) = Range(L) \cup Range(I) /\ IsSeq(M3)
    BY <1>3, <1>4, ConcatIs
  <2>2. OnceIn(I, Drops)
    BY <1>4, OnceNone DEF Drops
  <2>3. \A c \in Range(L), e \in Range(I) : c.do \in Drops => c # e
    BY <1>3, <1>4 DEF Lookups
  <2> QED
    BY <1>3, <1>4, <2>1, <2>2, <2>3, OnceConcat
<1> HIDE DEF M3
<1>7. /\ IsSeq(M2) /\ OnceIn(M2, Drops)
      /\ \A c \in Range(M2) : c.do \in Lookups \/ c.do = "create_index"
      /\ old.key # new.key => Range(M2) = {}
  BY <1>6, WhenIs, OnceWhen
<1> HIDE DEF M2
<1>8. /\ IsSeq(M1) /\ OnceIn(M1, Drops) /\ Range(M1) = {r} \cup Range(M2)
  <2>1. IsSeq(<<r>>) /\ Range(<<r>>) = {r} /\ OnceIn(<<r>>, Drops)
    BY OneIs, OnceOne
  <2>2. \A c \in Range(<<r>>), e \in Range(M2) : c.do \in Drops => c # e
    BY <1>1, <2>1 DEF Drops
  <2> QED
    BY <1>7, <2>1, <2>2, ConcatIs, OnceConcat
<1> HIDE DEF M1
<1>9. /\ IsSeq(M0) /\ OnceIn(M0, Drops)
      /\ \A c \in Range(M0) : c.do \notin Drops \/ (c.do \in Lookups /\ old.key = new.key)
      /\ \A c \in Range(M0) : c.do # "drop_index"
  <2>1. IsSeq(M0) /\ OnceIn(M0, Drops) /\ Range(M0) \subseteq Range(M1)
    BY <1>8, WhenIs, OnceWhen
  <2>2. \A c \in Range(M1) : c.do = "rename_column" \/ c \in Range(M2)
    BY <1>1, <1>8
  <2> QED
    BY <1>7, <2>1, <2>2 DEF Drops, Lookups
<1>10. /\ IsSeq(N) /\ IsSeq(K) /\ IsSeq(S) /\ IsSeq(T)
       /\ \A c \in Range(N) : c.do = "replace_null"
       /\ \A c \in Range(K) : c.do = "create_index"
       /\ \A c \in Range(S) : c.do = "create_index"
       /\ \A c \in Range(T) : c.do = "drop_index"
  <2>1. IsSeq(N) /\ \A c \in Range(N) : c.do = "replace_null"
    <3>1. IsSeq(N) /\ Range(N) = {c \in {n} : NullReplaced(old, new)}
      BY <1>0, OneIs, WhenIs
    <3> QED
      BY <1>1, <3>1
  <2>2. IsSeq(K) /\ \A c \in Range(K) : c.do = "create_index"
    BY <1>4, WhenIs
  <2>3. IsSeq(S) /\ \A c \in Range(S) : c.do = "create_index"
    <3>1. IsSeq(S) /\ Range(S) = {c \in {x} : ~old.spatial /\ new.spatial}
      BY <1>0, OneIs, WhenIs
    <3> QED
      BY <1>1, <3>1
  <2>4. IsSeq(T) /\ \A c \in Range(T) : c.do = "drop_index"
    <3>1. IsSeq(T) /\ Range(T) = {c \in {d} : old.spatial /\ ~new.spatial}
      BY <1>0, OneIs, WhenIs
    <3> QED
      BY <1>1, <3>1
  <2> QED
    BY <2>1, <2>2, <2>3, <2>4
<1>11. OnceIn(T, Drops)
  BY OnceOne, OnceWhen
<1> HIDE DEF A, M0, N, K, S, T
<1> DEFINE P1 == A \o M0
           P2 == P1 \o N
           P3 == P2 \o K
           P4 == P3 \o S
<1>12. /\ OnceIn(N, Drops) /\ OnceIn(K, Drops) /\ OnceIn(S, Drops)
       /\ \A c \in Range(N) \cup Range(K) \cup Range(S) : c.do \notin Drops
  <2>1. \A c \in Range(N) \cup Range(K) \cup Range(S) : c.do \notin Drops
    BY <1>10 DEF Drops
  <2> QED
    BY <2>1, OnceNone
<1>13. IsSeq(P1) /\ OnceIn(P1, Drops) /\ Range(P1) = Range(A) \cup Range(M0)
  <2>1. \A c \in Range(A), e \in Range(M0) : c.do \in Drops => c # e
    BY <1>5, <1>9
  <2> QED
    BY <1>5, <1>9, <2>1, ConcatIs, OnceConcat
<1>14. \A c \in Range(P1) : c.do # "drop_index"
  BY <1>5, <1>9, <1>13 DEF Lookups
<1> HIDE DEF P1
<1>15. IsSeq(P2) /\ OnceIn(P2, Drops) /\ Range(P2) = Range(P1) \cup Range(N)
  <2>1. \A c \in Range(P1), e \in Range(N) : c.do \in Drops => c # e
    BY <1>12
  <2> QED
    BY <1>10, <1>12, <1>13, <2>1, ConcatIs, OnceConcat
<1> HIDE DEF P2
<1>16. IsSeq(P3) /\ OnceIn(P3, Drops) /\ Range(P3) = Range(P2) \cup Range(K)
  <2>1. \A c \in Range(P2), e \in Range(K) : c.do \in Drops => c # e
    BY <1>12
  <2> QED
    BY <1>10, <1>12, <1>15, <2>1, ConcatIs, OnceConcat
<1> HIDE DEF P3
<1>17. IsSeq(P4) /\ OnceIn(P4, Drops) /\ Range(P4) = Range(P3) \cup Range(S)
  <2>1. \A c \in Range(P3), e \in Range(S) : c.do \in Drops => c # e
    BY <1>12
  <2> QED
    BY <1>10, <1>12, <1>16, <2>1, ConcatIs, OnceConcat
<1>18. \A c \in Range(P4), e \in Range(T) : c.do \in Drops => c # e
  BY <1>10, <1>14, <1>15, <1>16, <1>17
<1> HIDE DEF P4
<1>19. OnceIn(P4 \o T, Drops)
  BY <1>10, <1>11, <1>17, <1>18, OnceConcat
<1> QED
  BY <1>2, <1>19 DEF P1, P2, P3, P4

LEMMA AlterFieldFitted ==
  ASSUME NEW p, NEW a, Known(p, a), NEW b, Known(p, b), NEW n,
         NEW old \in ModelField, NEW new \in ModelField, Altered(a, b, n, old, new)
  PROVE  Fitted(a, b, AlterFieldPlan(a, old, new))
<1>0. PICK drop : drop = Command("drop_index", SpatialIndex(a, <<new.col>>).name)
  OBVIOUS
<1>1. PICK plan, X, Y, S, E :
        /\ plan = AlterFieldPlan(a, old, new)
        /\ X = {f \in {old} : old.key # new.key \/ old.col # new.col}
        /\ Y = {f \in {old} : old.spatial /\ ~new.spatial}
        /\ S = {x \in KeyIndexes(a, new) : old.key # new.key \/ old.col # new.col}
                 \cup {x \in {SpatialIndex(a, <<new.col>>)} : ~old.spatial /\ new.spatial}
        /\ E = {c \in RemoveKeys(old) : old.key # new.key \/ old.col # new.col}
                 \cup {c \in {Command("rename_column", [from |-> old.col, to |-> new.col])} :
                         old.col # new.col}
                 \cup {c \in {Command("replace_null", new.col)} : NullReplaced(old, new)}
                 \cup {c \in {drop} : old.spatial /\ ~new.spatial}
  OBVIOUS
<1>2. Range(plan) = E \cup AddAll(S)
  <2>1. Range(plan) = AlterFieldCommands(a, old, new)
    BY <1>1, AlterFieldPlanIs
  <2>2. AddAll(S) = {c \in AddAll(KeyIndexes(a, new)) : old.key # new.key \/ old.col # new.col}
                      \cup {c \in AddAll({SpatialIndex(a, <<new.col>>)}) :
                              ~old.spatial /\ new.spatial}
    BY <1>1 DEF AddAll
  <2> QED
    BY <1>0, <1>1, <2>1, <2>2 DEF AlterFieldCommands
<1>3. /\ \A c \in RemoveKeys(old) : c.do \in Lookups
      /\ Command("rename_column", [from |-> old.col, to |-> new.col]).do = "rename_column"
      /\ Command("replace_null", new.col).do = "replace_null"
      /\ drop.do = "drop_index"
  BY <1>0, CommandIs DEF RemoveKeys, Lookups
<1>4. /\ \A c \in E : c.do \in Lookups \cup {"rename_column", "replace_null", "drop_index"}
      /\ \A c \in AddAll(S) : c.do = "create_index"
  BY <1>1, <1>3, AddAllDo
<1>5. \A c \in Range(plan) : c.do \notin OnCollection
  BY <1>2, <1>4 DEF OnCollection, Lookups
<1>6. /\ old \in Fields(a) /\ new \in Fields(b)
      /\ old.spatial \in BOOLEAN /\ new.spatial \in BOOLEAN
      /\ old.spatial => old.type # "place" /\ Spatial(old)
      /\ new.spatial => new.type # "place"
  <2>1. old \in Fields(a) /\ new \in Fields(b)
    BY DEF Altered, Fields
  <2>2. old.spatial \in BOOLEAN /\ new.spatial \in BOOLEAN
    BY DEF ModelField
  <2>3. (old.spatial => old.type # "place") /\ (new.spatial => new.type # "place")
    BY <2>1, KnownIs
  <2> QED
    BY <2>1, <2>2, <2>3 DEF Spatial
<1>7. Y # {} => drop = SpatialDrop(a, old)
  <2>1. old.spatial => new.col = old.col
    BY <1>6 DEF Altered
  <2> QED
    BY <1>0, <1>1, <2>1 DEF SpatialDrop
<1>8. \A c : c \in Range(plan) /\ c.do \in Drops <=> \/ \E f \in X : c \in RemoveKeys(f)
                                                     \/ \E f \in Y : c = SpatialDrop(a, f)
  <2>1. \A c : c \in E /\ c.do \in Drops <=> \/ \E f \in X : c \in RemoveKeys(f)
                                            \/ \E f \in Y : c = drop
    BY <1>1, <1>3 DEF Drops, Lookups
  <2>2. \A c \in AddAll(S) : c.do \notin Drops
    BY <1>4 DEF Drops
  <2>3. (\E f \in Y : TRUE) => drop = SpatialDrop(a, old) /\ \A f \in Y : f = old
    BY <1>1, <1>7
  <2>4. \A c : c \in Range(plan) /\ c.do \in Drops <=> c \in E /\ c.do \in Drops
    BY <1>2, <2>2
  <2> QED
    BY <2>1, <2>3, <2>4
<1>9. /\ old.key # new.key \/ old.col # new.col =>
           \A y : ~(y \in KeysOf({old}) /\ y \in KeysOf({new}))
      /\ ~(old.key # new.key \/ old.col # new.col) => KeysOf({old}) = KeysOf({new})
  <2>1. new.type # old.type => ~(old.key = "unique" /\ new.key = "unique")
    BY DEF Altered
  <2> QED
    BY <2>1, KeysMove
<1>10. /\ \A y : y \in PlacesOf(a.table, {old}) \ PlacesOf(a.table, {new})
                   <=> old.spatial /\ ~new.spatial /\ y \in PlacesOf(a.table, {old})
       /\ \A y : y \in PlacesOf(a.table, {new}) \ PlacesOf(a.table, {old})
                   <=> ~old.spatial /\ new.spatial /\ y \in PlacesOf(a.table, {new})
  <2>1. /\ old.type = "place" <=> new.type = "place"
        /\ new.col # old.col => ~Spatial(old)
    BY DEF Altered
  <2>2. PlaceKept(old, new)
    BY <1>6, <2>1 DEF PlaceKept
  <2> QED
    BY <2>2, PlacesMove
<1>11. \A o : o \in Call(a) \ Call(b) <=> o \in KeysOf(X) \/ o \in PlacesOf(a.table, Y)
  <2>1. \A o : o \in Call(a) \ Call(b)
                 <=> \/ o \in KeysOf({old}) \ KeysOf({new})
                     \/ o \in PlacesOf(a.table, {old}) \ PlacesOf(a.table, {new})
    <3>1. Beyond(Call(a), Call(b), a.table, {old}, {new})
      BY AlteredDiffer
    <3> QED
      BY ONLY <3>1 DEF Beyond
  <2>2. KeysOf({}) = {} /\ PlacesOf(a.table, {}) = {}
    BY DEF KeysOf, PlacesOf
  <2>3. \A o : o \in KeysOf({old}) \ KeysOf({new}) <=> o \in KeysOf(X)
    <3>1. CASE old.key # new.key \/ old.col # new.col
      <4>1. X = {old}
        BY <1>1, <3>1
      <4> QED
        BY <1>9, <3>1, <4>1
    <3>2. CASE ~(old.key # new.key \/ old.col # new.col)
      <4>1. X = {}
        BY <1>1, <3>2
      <4> QED
        BY <1>9, <2>2, <3>2, <4>1
    <3> QED
      BY <3>1, <3>2
  <2>4. \A o : o \in PlacesOf(a.table, {old}) \ PlacesOf(a.table, {new})
                 <=> o \in PlacesOf(a.table, Y)
    <3>1. CASE old.spatial /\ ~new.spatial
      <4>1. Y = {old}
        BY <1>1, <3>1
      <4> QED
        BY <1>10, <3>1, <4>1
    <3>2. CASE ~(old.spatial /\ ~new.spatial)
      <4>1. Y = {}
        BY <1>1, <3>2
      <4> QED
        BY <1>10, <2>2, <3>2, <4>1
    <3> QED
      BY <3>1, <3>2
  <2> QED
    BY <2>1, <2>3, <2>4
<1>12. SameOptions(a, b) /\ Keep(Fields(a) \cup Fields(b))
  BY AlteredOptions, AlteredKeep
<1>13. DropsOld(a, b, plan)
  <2>1. Told(Call(a) \cup Call(b))
    BY <1>12, ToldFields
  <2>2. X \subseteq {old} /\ Y \subseteq {old} /\ \A f \in Y : f.spatial
    BY <1>1
  <2>3. X # {} => Unnamed(a, old)
    <3> SUFFICES ASSUME X # {}, old.key = "index", NEW x \in a.constraints,
                        Paths(a, x.fields) = <<<<old.col>>>>
                 PROVE  FALSE
      BY DEF Unnamed
    <3>1. x.fields \in Composed(a)
      BY DEF Composed, Uniques
    <3>2. n \in FieldNames(a) /\ a.fields[n] = old
      BY DEF Altered
    <3>3. x.fields = <<n>>
      BY <3>1, <3>2, OnePath
    <3>4. n \in Range(x.fields)
      <4>1. 1 \in DOMAIN x.fields /\ x.fields[1] = n
        BY <3>3
      <4> QED
        BY <4>1 DEF Range
    <3>5. old.col = new.col
      BY <3>1, <3>4 DEF Altered, NamedIn
    <3>6. old.key # new.key
      BY <1>1, <3>5
    <3> QED
      BY <3>3, <3>6 DEF Altered
  <2>4. old \in Fields(a) /\ old \in ModelField
    BY <1>6
  <2> QED
    BY ONLY Known(p, a), <1>8, <1>11, <2>1, <2>2, <2>3, <2>4, FieldDrops
<1>14. \A o : o \in Call(b) \ Call(a) <=> \E x \in S : Timeless(x) = o
  <2>1. \A o : o \in Call(b) \ Call(a)
                 <=> \/ o \in KeysOf({new}) \ KeysOf({old})
                     \/ o \in PlacesOf(a.table, {new}) \ PlacesOf(a.table, {old})
    <3>1. Beyond(Call(b), Call(a), a.table, {new}, {old})
      BY AlteredDiffer
    <3> QED
      BY ONLY <3>1 DEF Beyond
  <2>2. \A o : o \in KeysOf({new}) \ KeysOf({old})
                 <=> /\ old.key # new.key \/ old.col # new.col
                     /\ \E x \in KeyIndexes(a, new) : Timeless(x) = o
    <3>1. \A o : o \in KeysOf({new}) <=> \E x \in KeyIndexes(a, new) : Timeless(x) = o
      <4>1. FormsOf(KeyIndexes(a, new), KeysOf({new}))
        BY FieldForms
      <4> QED
        BY ONLY <4>1 DEF FormsOf
    <3> QED
      BY <1>9, <3>1
  <2>3. \A o : o \in PlacesOf(a.table, {new}) \ PlacesOf(a.table, {old})
                 <=> /\ ~old.spatial /\ new.spatial
                     /\ Timeless(SpatialIndex(a, <<new.col>>)) = o
    <3>1. new.spatial => \A o : o \in PlacesOf(a.table, {new})
                                  <=> Timeless(SpatialIndex(a, <<new.col>>)) = o
      <4>1. ASSUME new.spatial
            PROVE  PlacesOf(a.table, {new}) = {SpatialAt(a.table, <<new.col>>)}
        BY <1>6, <4>1, SpatialDropIs
      <4>2. Timeless(SpatialIndex(a, <<new.col>>)) = SpatialAt(a.table, <<new.col>>)
        BY FormsAre
      <4> QED
        BY <4>1, <4>2
    <3> QED
      BY <1>10, <3>1
  <2> QED
    BY <1>1, <2>1, <2>2, <2>3
<1>15. MakesNew(Call(a), Call(b), plan)
  <2>1. \A x \in S : Tabled(x, a.table)
    <3>1. \A x \in KeyIndexes(a, new) : Tabled(x, a.table)
      BY FieldForms
    <3>2. Tabled(SpatialIndex(a, <<new.col>>), a.table)
      BY TabledForms
    <3> QED
      BY <1>1, <3>1, <3>2
  <2>2. \A c \in E : c.do # "create_index"
    BY <1>4 DEF Lookups
  <2>3. PICK from, to : from = Call(a) /\ to = Call(b)
    OBVIOUS
  <2> QED
    BY <1>2, <1>14, <2>1, <2>2, <2>3, MakesNewIs
<1>16. OnceIn(plan, Drops) /\ Before(plan, {"create_index"}, Lookups)
  BY <1>1, AlterFieldPlanOnce, AlterFieldPlanIs
<1> QED
  BY <1>1, <1>5, <1>12, <1>13, <1>15, <1>16, FieldsFitted

-----------------------------------------------------------------------------
(* Every operation keeps the invariant.                                    *)

Clean == Quirks = {} /\ \A p \in Projects : Separate(p)

LEMMA KnownNow ==
  ASSUME Clean, EditInv, IndexInv, model # None
  PROVE  Known(project, model)
<1>1. project \in Projects /\ model \in Model /\ Legal(project, model)
  BY CurrentIs DEF EditInv, TypeInv
<1>2. Shaped(project, model)
  BY DEF IndexInv
<1> QED
  BY <1>1, <1>2 DEF Clean, Known

LEMMA KnownNext ==
  ASSUME Clean, EditInv, EditInv', NEW kind, NEW to, to # None, NEW plan,
         Start(kind, to, plan), UNCHANGED project, Shaped(project, to)
  PROVE  Known(project, to)
<1>1. /\ phase' = "running"
      /\ op' = [kind |-> kind, from |-> model, to |-> to, plan |-> plan, again |-> FALSE]
  BY DEF Start
<1>2. op'.to = to
  BY <1>1
<1>3. to \in Model /\ project \in Projects
  BY <1>1, <1>2 DEF EditInv, TypeInv
<1>4. Legal(project, op.to)'
  BY <1>1 DEF EditInv, LegalInv
<1>5. Legal(project, to)
  BY <1>2, <1>4 DEF Legal
<1> QED
  BY <1>3, <1>5 DEF Clean, Known

LEMMA FieldShaped ==
  ASSUME NEW f \in Field
  PROVE  \E s \in project.shape : f.type = s.type /\ f.key = s.key /\ f.spatial = s.spatial
<1>1. PICK c \in Column, s \in project.shape :
        f = [col |-> c, type |-> s.type, key |-> s.key, spatial |-> s.spatial, null |-> s.null,
             default |-> s.default]
  BY DEF Field
<1>2. f.type = s.type /\ f.key = s.key /\ f.spatial = s.spatial
  BY <1>1
<1> QED
  BY <1>2

LEMMA SameShaped ==
  ASSUME NEW p, NEW a, a # None, Shaped(p, a), NEW b, b.fields = a.fields
  PROVE  Shaped(p, b)
<1>1. Fields(b) = Fields(a)
  BY SameFields
<1> QED
  BY <1>1 DEF Shaped

LEMMA MoreShaped ==
  ASSUME NEW a, a # None, Shaped(project, a), NEW b,
         \A g \in Fields(b) : g \in Fields(a) \/ g \in Field
  PROVE  Shaped(project, b)
<1>1. \A g \in Fields(a) :
        \E s \in project.shape : g.type = s.type /\ g.key = s.key /\ g.spatial = s.spatial
  BY DEF Shaped
<1>2. ASSUME NEW g \in Fields(b)
      PROVE  \E s \in project.shape : g.type = s.type /\ g.key = s.key /\ g.spatial = s.spatial
  BY <1>1, FieldShaped
<1> QED
  BY <1>2 DEF Shaped

LEMMA CreateModelIndexes ==
  ASSUME Clean, EditInv, EditInv', IndexInv, CreateModel, UNCHANGED project
  PROVE  IndexInv'
<1>1. model = None
  BY DEF CreateModel
<1>2. PICK table \in project.table, fields \in UNION {[S -> Field] : S \in SUBSET Name},
           u \in SUBSET project.together, c \in SUBSET project.meta,
           x \in SUBSET project.meta :
        LET m == [table |-> table, fields |-> fields, unique_together |-> {},
                  index_together |-> {}, constraints |-> {}, indexes |-> {}]
            full == [m EXCEPT !.unique_together = u, !.constraints = c, !.indexes = x]
        IN Sound(full) /\ Start("create_model", full, CreateModelPlan(full))
  BY DEF CreateModel
<1>3. PICK m : m = [table |-> table, fields |-> fields, unique_together |-> {},
                    index_together |-> {}, constraints |-> {}, indexes |-> {}]
  OBVIOUS
<1>4. PICK full : /\ full = [m EXCEPT !.unique_together = u, !.constraints = c, !.indexes = x]
                  /\ Start("create_model", full, CreateModelPlan(full))
  BY <1>2, <1>3
<1>5. full.fields = fields /\ full.index_together = {}
  BY <1>3, <1>4
<1>6. \A g \in Fields(full) : g \in Field
  <2>1. PICK S \in SUBSET Name : fields \in [S -> Field]
    OBVIOUS
  <2> QED
    BY <1>5, <2>1 DEF Fields, FieldNames
<1>7. Shaped(project, full)
  BY <1>6, FieldShaped DEF Shaped
<1>8. full # None
  <2>1. PICK S \in SUBSET Name : fields \in [S -> Field]
    OBVIOUS
  <2>2. fields \in [S -> ModelField]
    BY <2>1, FieldIs DEF EditInv
  <2>3. m \in Model
    BY <1>3, <2>2, ProjectIs DEF Model, EditInv
  <2>4. u \subseteq Seq(Name) /\ c \subseteq MetaOption /\ x \subseteq MetaOption
    BY ProjectIs DEF EditInv
  <2>5. full \in Model
    BY <1>4, <2>3, <2>4 DEF Model
  <2> QED
    BY <2>5, ModelIs
<1>9. PICK p : p = project
  OBVIOUS
<1>10. Known(p, full)
  BY <1>4, <1>7, <1>8, <1>9, KnownNext
<1>11. Fitted(model, full, CreateModelPlan(full))
  BY <1>1, <1>5, <1>10, CreateModelFitted
<1>12. "create_model" \notin Repeatable
  BY DEF Repeatable
<1> QED
  BY <1>4, <1>7, <1>11, <1>12, StartIndexes

LEMMA DeleteModelIndexes ==
  ASSUME Clean, EditInv, IndexInv, DeleteModel, UNCHANGED project
  PROVE  IndexInv'
<1>1. model # None /\ Start("delete_model", None, DeleteModelPlan(model))
  BY DEF DeleteModel
<1>2. PICK p, m : p = project /\ m = model
  OBVIOUS
<1>3. Known(p, m)
  BY <1>1, <1>2, KnownNow
<1>4. PICK plan : plan = DeleteModelPlan(m)
  OBVIOUS
<1>5. Fitted(m, None, plan) /\ Mild(plan)
  BY <1>3, <1>4, DeleteModelFitted
<1>6. Shaped(project, None)
  BY DEF Shaped
<1> QED
  BY <1>1, <1>2, <1>4, <1>5, <1>6, StartIndexes

LEMMA AddFieldIndexes ==
  ASSUME Clean, EditInv, EditInv', IndexInv, NEW n \in Name, NEW f \in Field, AddField(n, f),
         UNCHANGED project
  PROVE  IndexInv'
<1>1. /\ model # None /\ n \notin FieldNames(model)
      /\ Start("add_field", With(n, f), AddFieldPlan(model, f))
  BY DEF AddField
<1>2. PICK p, a, to, plan : /\ p = project /\ a = model /\ to = With(n, f)
                            /\ plan = AddFieldPlan(a, f)
  OBVIOUS
<1>3. f \in ModelField
  BY FieldIs DEF EditInv
<1>4. Grown(a, to, n, f)
  BY <1>1, <1>2, <1>3, CurrentIs, WithIs DEF Grown
<1>5. to # None
  BY <1>1, <1>2, <1>3, CurrentIs, WithIs, ModelIs
<1>6. Shaped(project, to)
  <2>1. Fields(to) \subseteq Fields(a) \cup {f}
    BY <1>4 DEF Grown, Fields
  <2>2. Shaped(project, a)
    BY <1>2 DEF IndexInv
  <2> QED
    BY <1>1, <1>2, <2>1, <2>2, MoreShaped
<1>7. Known(p, a) /\ Known(p, to)
  BY <1>1, <1>2, <1>5, <1>6, KnownNow, KnownNext
<1>8. Spatial(f) \in BOOLEAN
  BY <1>3 DEF Spatial, ModelField
<1>9. Fitted(a, to, plan) /\ Mild(plan)
  BY <1>2, <1>4, <1>7, <1>8, AddFieldFitted
<1> QED
  BY <1>1, <1>2, <1>6, <1>9, StartIndexes

LEMMA AlterFieldIndexes ==
  ASSUME Clean, EditInv, EditInv', IndexInv, NEW n \in Name, NEW new \in Field,
         AlterField(n, new), UNCHANGED project
  PROVE  IndexInv'
<1>1. /\ model # None /\ n \in FieldNames(model)
      /\ Start("alter_field", With(n, new), AlterFieldPlan(model, model.fields[n], new))
  BY DEF AlterField
<1>2. PICK p, a, old, to, plan :
        /\ p = project /\ a = model /\ old = model.fields[n] /\ to = With(n, new)
        /\ plan = AlterFieldPlan(model, model.fields[n], new)
  OBVIOUS
<1>3. new \in ModelField
  BY FieldIs DEF EditInv
<1>4. old \in ModelField
  BY <1>1, <1>2, CurrentIs, ModelIs
<1>5. /\ new.col # old.col => ~NamedIn(n, Composed(a)) /\ ~Spatial(old)
      /\ new.type # old.type => /\ ~NamedIn(n, Filtered(a))
                                /\ ~(old.key = "unique" /\ new.key = "unique")
      /\ old.key = "index" /\ new.key # "index" => \A x \in a.constraints : x.fields # <<n>>
      /\ old.type = "place" <=> new.type = "place"
  <2>1. Quirks = {}
    BY DEF Clean
  <2>2. new.col # old.col => ~NamedIn(n, Composed(a)) /\ ~Spatial(old)
    BY <1>2, <2>1 DEF AlterField
  <2>3. new.type # old.type => /\ ~NamedIn(n, Filtered(a))
                              /\ ~(old.key = "unique" /\ new.key = "unique")
    BY <1>2, <2>1 DEF AlterField
  <2>4. old.key = "index" /\ new.key # "index" => \A x \in a.constraints : x.fields # <<n>>
    BY <1>2, <2>1 DEF AlterField
  <2>5. old.type = "place" <=> new.type = "place"
    BY <1>2, <2>1 DEF AlterField
  <2> QED
    BY <2>2, <2>3, <2>4, <2>5
<1>6. Altered(a, to, n, old, new)
  <2>1. /\ FieldNames(to) = FieldNames(a) /\ n \in FieldNames(a)
        /\ a.fields[n] = old /\ to.fields[n] = new
        /\ \A k \in FieldNames(a) \ {n} : to.fields[k] = a.fields[k]
        /\ to.table = a.table
        /\ to.unique_together = a.unique_together /\ to.index_together = a.index_together
        /\ to.constraints = a.constraints /\ to.indexes = a.indexes
    BY <1>1, <1>2, <1>3, CurrentIs, WithIs
  <2> QED
    BY <1>5, <2>1 DEF Altered
<1>7. to # None
  BY <1>1, <1>2, <1>3, CurrentIs, WithIs, ModelIs
<1>8. Shaped(project, to)
  <2>1. \A g \in Fields(to) : g \in Fields(a) \/ g = new
    BY <1>6 DEF Altered, Fields
  <2>2. Shaped(project, a)
    BY <1>2 DEF IndexInv
  <2> QED
    BY <1>1, <1>2, <2>1, <2>2, MoreShaped
<1>9. Known(p, a) /\ Known(p, to)
  BY <1>1, <1>2, <1>7, <1>8, KnownNow, KnownNext
<1>10. Fitted(a, to, AlterFieldPlan(a, old, new))
  BY <1>3, <1>4, <1>6, <1>9, AlterFieldFitted
<1>11. "alter_field" \notin Repeatable
  BY DEF Repeatable
<1> QED
  BY <1>1, <1>2, <1>8, <1>10, <1>11, StartIndexes

LEMMA RemoveFieldIndexes ==
  ASSUME Clean, EditInv, EditInv', IndexInv, NEW n \in Name, RemoveField(n), UNCHANGED project
  PROVE  IndexInv'
<1>1. /\ model # None /\ n \in FieldNames(model)
      /\ Start("remove_field", Without(n), RemoveFieldPlan(model, model.fields[n]))
  BY DEF RemoveField
<1>2. PICK p, a, f, to, plan :
        /\ p = project /\ a = model /\ f = model.fields[n] /\ to = Without(n)
        /\ plan = RemoveFieldPlan(model, model.fields[n])
  OBVIOUS
<1>3. f \in ModelField /\ f.type # "place"
  <2>1. f \in ModelField
    BY <1>1, <1>2, CurrentIs, ModelIs
  <2>2. f.type # "place"
    BY <1>2 DEF RemoveField, Clean
  <2> QED
    BY <2>1, <2>2
<1>4. Grown(to, a, n, f)
  <2>1. /\ FieldNames(to) = FieldNames(a) \ {n} /\ n \in FieldNames(a)
        /\ \A k \in FieldNames(to) : to.fields[k] = a.fields[k]
        /\ to.table = a.table
        /\ to.unique_together = a.unique_together /\ to.index_together = a.index_together
        /\ to.constraints = a.constraints /\ to.indexes = a.indexes
    BY <1>1, <1>2, CurrentIs, WithoutIs
  <2> QED
    BY <1>2, <2>1 DEF Grown
<1>5. to # None
  BY <1>1, <1>2, CurrentIs, WithoutIs, ModelIs
<1>6. Shaped(project, to)
  <2>1. \A g \in Fields(to) : g \in Fields(a)
    BY <1>4 DEF Grown, Fields
  <2>2. Shaped(project, a)
    BY <1>2 DEF IndexInv
  <2> QED
    BY <1>1, <1>2, <2>1, <2>2, MoreShaped
<1>7. Known(p, a) /\ Known(p, to)
  BY <1>1, <1>2, <1>5, <1>6, KnownNow, KnownNext
<1>8. Fitted(a, to, RemoveFieldPlan(a, f))
  BY <1>3, <1>4, <1>7, RemoveFieldFitted
<1>9. "remove_field" \notin Repeatable
  BY DEF Repeatable
<1> QED
  BY <1>1, <1>2, <1>6, <1>8, <1>9, StartIndexes

\* Both models of an operation on the options have the fields of a third one, which
\* has the options of both.
LEMMA UnionKnown ==
  ASSUME NEW p, NEW a, Known(p, a), NEW b, Known(p, b), b.fields = a.fields,
         b.table = a.table, b.constraints = a.constraints, b.indexes = a.indexes
  PROVE  \E u : Known(p, u) /\ Within(a, u) /\ Within(b, u)
<1>1. a \in Model /\ b \in Model /\ Legal(p, a) /\ Legal(p, b) /\ a # None /\ b # None
  BY KnownIs DEF Known
<1>2. PICK U, I : /\ U = a.unique_together \cup b.unique_together
                  /\ I = a.index_together \cup b.index_together
  OBVIOUS
<1>3. U \subseteq Seq(Name) /\ I \subseteq Seq(Name)
  BY <1>1, <1>2 DEF Model
<1>4. PICK v : v = [a EXCEPT !.unique_together = U]
  OBVIOUS
<1>5. /\ v \in Model /\ v.fields = a.fields /\ v.table = a.table /\ v.unique_together = U
      /\ v.index_together = a.index_together /\ v.constraints = a.constraints
      /\ v.indexes = a.indexes
  BY <1>1, <1>3, <1>4 DEF Model
<1>6. PICK u : u = [v EXCEPT !.index_together = I]
  OBVIOUS
<1>7. /\ u \in Model /\ u.fields = a.fields /\ u.table = a.table /\ u.unique_together = U
      /\ u.index_together = I /\ u.constraints = a.constraints /\ u.indexes = a.indexes
  BY <1>3, <1>5, <1>6 DEF Model
<1>8. FieldNames(u) = FieldNames(a) /\ Fields(u) = Fields(a) /\ FieldNames(b) = FieldNames(a)
  BY <1>7 DEF FieldNames, Fields
<1>9. Composed(u) \subseteq Composed(a) \cup Composed(b)
  <2>1. Uniques(u) \subseteq Uniques(a) \cup Uniques(b)
    BY <1>2, <1>7 DEF Uniques
  <2> QED
    BY <1>2, <1>7, <2>1 DEF Composed
<1>10. Sound(u)
  <2>1. Sound(a) /\ Sound(b)
    BY <1>1 DEF Legal
  <2>2. \A s \in Composed(u) : Range(s) \subseteq FieldNames(u)
    BY <1>8, <1>9, <2>1 DEF Sound
  <2>3. \A n, k \in FieldNames(u) : n # k => u.fields[n].col # u.fields[k].col
    BY <1>7, <1>8, <2>1 DEF Sound
  <2>4. "two_keys" \in Quirks \/ \A f \in Fields(u) : Spatial(f) => f.key = "none"
    BY <1>8, <2>1 DEF Sound
  <2>5. "twins" \in Quirks \/ ~Twins(u)
    <3>1. /\ Keyed(u, "unique") = Keyed(a, "unique") /\ Keyed(b, "unique") = Keyed(a, "unique")
          /\ Keyed(u, "index") = Keyed(a, "index") /\ Keyed(b, "index") = Keyed(a, "index")
      BY <1>7, <1>8 DEF Keyed
    <3>2. "twins" \in Quirks \/ ~(Twins(a) \/ Twins(b))
      BY <2>1 DEF Sound
    <3>3. Twins(u) => Twins(a) \/ Twins(b)
      BY <1>2, <1>7, <3>1 DEF Twins
    <3> QED
      BY <3>2, <3>3
  <2> QED
    BY <2>2, <2>3, <2>4, <2>5 DEF Sound
<1>11. Legal(p, u)
  BY <1>1, <1>2, <1>7, <1>10 DEF Legal
<1>12. Shaped(p, u)
  BY <1>1, <1>7, SameShaped DEF Known
<1>13. Known(p, u)
  BY <1>7, <1>11, <1>12 DEF Known
<1>14. Within(a, u) /\ Within(b, u)
  BY <1>2, <1>7 DEF Within
<1> QED
  BY <1>13, <1>14

\* The operations on the options of a model.
LEMMA OptionKnown ==
  ASSUME Clean, EditInv, EditInv', IndexInv, model # None, NEW kind, NEW to \in Model, NEW plan,
         to.fields = model.fields, Start(kind, to, plan), UNCHANGED project
  PROVE  Known(project, model) /\ Known(project, to) /\ Shaped(project, to)
<1>1. Shaped(project, to)
  BY SameShaped DEF IndexInv
<1> QED
  BY <1>1, KnownNow, KnownNext, ModelIs

LEMMA AlterUniqueTogetherIndexes ==
  ASSUME Clean, EditInv, EditInv', IndexInv, NEW news \in SUBSET project.together,
         AlterUniqueTogether(news), UNCHANGED project
  PROVE  IndexInv'
<1>0. model # None /\ model \in Model /\ TypeInv
  BY CurrentIs DEF AlterUniqueTogether, EditInv
<1>1. PICK to : to = [model EXCEPT !.unique_together = news]
  OBVIOUS
<1>2. PICK p, a, plan : /\ p = project /\ a = model
                        /\ plan = AlterUniqueTogetherPlan(to, a.unique_together, news)
  OBVIOUS
<1>3. Start("alter_unique_together", to, plan)
  BY <1>1, <1>2 DEF AlterUniqueTogether
<1>4. news \subseteq Seq(Name)
  BY <1>0, ProjectIs
<1>5. /\ to \in Model /\ to.fields = a.fields /\ to.unique_together = news
      /\ to.table = a.table /\ to.index_together = a.index_together
      /\ to.constraints = a.constraints /\ to.indexes = a.indexes
  BY <1>0, <1>1, <1>2, <1>4 DEF Model
<1>6. Known(p, a) /\ Known(p, to) /\ Shaped(p, to)
  BY <1>0, <1>2, <1>3, <1>5, OptionKnown
<1>7. PICK u : Known(p, u) /\ Within(a, u) /\ Within(to, u)
  BY <1>5, <1>6, UnionKnown
<1>8. Fitted(a, to, AlterUniqueTogetherPlan(to, a.unique_together, to.unique_together))
  BY <1>5, <1>6, <1>7, UniqueTogetherFitted
<1>9. "alter_unique_together" \notin Repeatable
  BY DEF Repeatable
<1> QED
  BY <1>2, <1>3, <1>5, <1>6, <1>8, <1>9, StartIndexes

LEMMA AlterIndexTogetherIndexes ==
  ASSUME Clean, EditInv, EditInv', IndexInv, NEW news \in SUBSET project.together,
         AlterIndexTogether(news), UNCHANGED project
  PROVE  IndexInv'
<1>0. model # None /\ model \in Model /\ TypeInv
  BY CurrentIs DEF AlterIndexTogether, EditInv
<1>1. PICK to : to = [model EXCEPT !.index_together = news]
  OBVIOUS
<1>2. PICK p, a, plan : /\ p = project /\ a = model
                        /\ plan = AlterIndexTogetherPlan(to, a.index_together, news)
  OBVIOUS
<1>3. Start("alter_index_together", to, plan)
  BY <1>1, <1>2 DEF AlterIndexTogether
<1>4. news \subseteq Seq(Name)
  BY <1>0, ProjectIs
<1>5. /\ to \in Model /\ to.fields = a.fields /\ to.index_together = news
      /\ to.table = a.table /\ to.unique_together = a.unique_together
      /\ to.constraints = a.constraints /\ to.indexes = a.indexes
  BY <1>0, <1>1, <1>2, <1>4 DEF Model
<1>6. Known(p, a) /\ Known(p, to) /\ Shaped(p, to)
  BY <1>0, <1>2, <1>3, <1>5, OptionKnown
<1>7. PICK u : Known(p, u) /\ Within(a, u) /\ Within(to, u)
  BY <1>5, <1>6, UnionKnown
<1>8. Fitted(a, to, AlterIndexTogetherPlan(to, a.index_together, to.index_together))
  BY <1>5, <1>6, <1>7, IndexTogetherFitted
<1>9. "alter_index_together" \notin Repeatable
  BY DEF Repeatable
<1> QED
  BY <1>2, <1>3, <1>5, <1>6, <1>8, <1>9, StartIndexes

LEMMA MildAdding ==
  ASSUME NEW x
  PROVE  Mild(<<AddIndex(x)>>)
<1>1. Range(<<AddIndex(x)>>) = {AddIndex(x)}
  BY OneIs
<1> QED
  BY <1>1, CommandIs DEF Mild

LEMMA MetaIndexes ==
  ASSUME Clean, EditInv, EditInv', IndexInv, NEW x \in project.meta, UNCHANGED project,
         AddMetaIndex(x) \/ RemoveMetaIndex(x) \/ AddConstraint(x) \/ RemoveConstraint(x)
  PROVE  IndexInv'
<1>0. model # None /\ model \in Model /\ TypeInv
  BY CurrentIs DEF AddMetaIndex, RemoveMetaIndex, AddConstraint, RemoveConstraint, EditInv
<1>1. x \in MetaOption
  BY <1>0, ProjectIs
<1>2. PICK p, a : p = project /\ a = model
  OBVIOUS
<1>3. "remove_index" \notin Repeatable /\ "remove_constraint" \notin Repeatable
  BY DEF Repeatable
<1>4. CASE AddMetaIndex(x)
  <2>1. PICK to, plan : /\ to = [model EXCEPT !.indexes = model.indexes \cup {x}]
                        /\ plan = <<AddIndex(MetaIndex(to, x))>>
                        /\ Start("add_index", to, plan) /\ x \notin a.indexes
    BY <1>2, <1>4 DEF AddMetaIndex
  <2>2. /\ to \in Model /\ to.fields = a.fields /\ to.table = a.table
        /\ to.unique_together = a.unique_together /\ to.index_together = a.index_together
        /\ to.constraints = a.constraints /\ to.indexes = a.indexes \cup {x}
    BY <1>0, <1>1, <1>2, <2>1 DEF Model
  <2>3. Known(p, a) /\ Known(p, to) /\ Shaped(p, to)
    BY <1>0, <1>2, <2>1, <2>2, OptionKnown
  <2>4. Within(a, to)
    BY <2>2 DEF Within
  <2>5. Fitted(a, to, plan) /\ Mild(plan)
    BY <2>1, <2>2, <2>3, <2>4, AddMetaIndexFitted, MildAdding
  <2> QED
    BY <1>2, <2>1, <2>3, <2>5, StartIndexes
<1>5. CASE RemoveMetaIndex(x)
  <2>1. PICK to, plan : /\ to = [model EXCEPT !.indexes = model.indexes \ {x}]
                        /\ plan = <<Command("drop_index", IndexName(x))>>
                        /\ Start("remove_index", to, plan) /\ x \in a.indexes
    BY <1>2, <1>5 DEF RemoveMetaIndex
  <2>2. /\ to \in Model /\ to.fields = a.fields /\ to.table = a.table
        /\ to.unique_together = a.unique_together /\ to.index_together = a.index_together
        /\ to.constraints = a.constraints /\ to.indexes = a.indexes \ {x}
    BY <1>0, <1>1, <1>2, <2>1 DEF Model
  <2>3. Known(p, a) /\ Known(p, to) /\ Shaped(p, to)
    BY <1>0, <1>2, <2>1, <2>2, OptionKnown
  <2>4. Within(to, a)
    BY <2>2 DEF Within
  <2>5. Fitted(a, to, plan)
    BY <2>1, <2>2, <2>3, <2>4, RemoveMetaIndexFitted
  <2> QED
    BY <1>2, <1>3, <2>1, <2>3, <2>5, StartIndexes
<1>6. CASE AddConstraint(x)
  <2>1. PICK to, plan : /\ to = [model EXCEPT !.constraints = model.constraints \cup {x}]
                        /\ plan = <<AddIndex(MetaUnique(to, x))>>
                        /\ Start("add_constraint", to, plan) /\ x \notin a.constraints
    BY <1>2, <1>6 DEF AddConstraint
  <2>2. /\ to \in Model /\ to.fields = a.fields /\ to.table = a.table
        /\ to.unique_together = a.unique_together /\ to.index_together = a.index_together
        /\ to.constraints = a.constraints \cup {x} /\ to.indexes = a.indexes
    BY <1>0, <1>1, <1>2, <2>1 DEF Model
  <2>3. Known(p, a) /\ Known(p, to) /\ Shaped(p, to)
    BY <1>0, <1>2, <2>1, <2>2, OptionKnown
  <2>4. Within(a, to)
    BY <2>2 DEF Within
  <2>5. Fitted(a, to, plan) /\ Mild(plan)
    BY <2>1, <2>2, <2>3, <2>4, AddConstraintFitted, MildAdding
  <2> QED
    BY <1>2, <2>1, <2>3, <2>5, StartIndexes
<1>7. CASE RemoveConstraint(x)
  <2>1. PICK to, plan : /\ to = [model EXCEPT !.constraints = model.constraints \ {x}]
                        /\ plan = <<Command("drop_index", ConstraintName(x))>>
                        /\ Start("remove_constraint", to, plan) /\ x \in a.constraints
    BY <1>2, <1>7 DEF RemoveConstraint
  <2>2. /\ to \in Model /\ to.fields = a.fields /\ to.table = a.table
        /\ to.unique_together = a.unique_together /\ to.index_together = a.index_together
        /\ to.constraints = a.constraints \ {x} /\ to.indexes = a.indexes
    BY <1>0, <1>1, <1>2, <2>1 DEF Model
  <2>3. Known(p, a) /\ Known(p, to) /\ Shaped(p, to)
    BY <1>0, <1>2, <2>1, <2>2, OptionKnown
  <2>4. Within(to, a)
    BY <2>2 DEF Within
  <2>5. Fitted(a, to, plan)
    BY <2>1, <2>2, <2>3, <2>4, RemoveConstraintFitted
  <2> QED
    BY <1>2, <1>3, <2>1, <2>3, <2>5, StartIndexes
<1> QED
  BY <1>4, <1>5, <1>6, <1>7

LEMMA AlterDbTableIndexes ==
  ASSUME Clean, EditInv, EditInv', IndexInv, NEW table \in project.table, AlterDbTable(table),
         UNCHANGED project
  PROVE  IndexInv'
<1>0. model # None /\ model \in Model /\ TypeInv
  BY CurrentIs DEF AlterDbTable, EditInv
<1>1. PICK p, a, to, plan :
        /\ p = project /\ a = model /\ to = [model EXCEPT !.table = table]
        /\ plan = <<Command("rename_collection", [from |-> model.table, to |-> table])>>
        /\ Start("rename_table", to, plan)
  BY DEF AlterDbTable
<1>2. /\ to \in Model /\ to.fields = a.fields /\ to.table = table
      /\ to.unique_together = a.unique_together /\ to.index_together = a.index_together
      /\ to.constraints = a.constraints /\ to.indexes = a.indexes
  BY <1>0, <1>1, ProjectIs DEF Model
<1>3. Known(p, a) /\ Known(p, to) /\ Shaped(p, to)
  BY <1>0, <1>1, <1>2, OptionKnown
<1>4. to.table # a.table /\ \A f \in Fields(a) : ~Spatial(f)
  BY <1>1, <1>2 DEF AlterDbTable, Clean
<1>5. Fitted(a, to, <<Command("rename_collection", [from |-> a.table, to |-> to.table])>>)
  BY <1>2, <1>3, <1>4, AlterDbTableFitted
<1>6. "rename_table" \notin Repeatable
  BY DEF Repeatable
<1> QED
  BY <1>1, <1>2, <1>3, <1>5, <1>6, StartIndexes

-----------------------------------------------------------------------------
(* The indexes are those of the model.                                     *)

LEMMA IndexInit == Init => IndexInv
<1> SUFFICES ASSUME Init PROVE IndexInv
  OBVIOUS
<1>1. /\ model = None /\ collection = None /\ indexes = {} /\ phase = "idle"
  BY DEF Init
<1>2. Here = {} /\ Call(model) = {}
  BY <1>1, CallNone DEF Here
<1>3. OneEach
  BY <1>1 DEF OneEach
<1>4. Shaped(project, model)
  BY <1>1 DEF Shaped
<1> QED
  BY <1>1, <1>2, <1>3, <1>4 DEF IndexInv, TableOf

LEMMA IndexStep ==
  ASSUME Clean
  PROVE  EditInv /\ EditInv' /\ IndexInv /\ [Next]_vars => IndexInv'
<1> SUFFICES ASSUME EditInv, EditInv', IndexInv, [Next]_vars PROVE IndexInv'
  OBVIOUS
<1>1. CASE UNCHANGED vars
  BY <1>1, SameIndexes
<1>2. CASE Next
  <2>0. UNCHANGED project
    BY <1>2 DEF Next
  <2>1. CASE Operation
    <3>1. CASE CreateModel
      BY <2>0, <3>1, CreateModelIndexes
    <3>2. CASE DeleteModel
      BY <2>0, <3>2, DeleteModelIndexes
    <3>3. CASE \E n \in Name : RemoveField(n)
      BY <2>0, <3>3, RemoveFieldIndexes
    <3>4. CASE \E n \in Name : \E f \in Field : AddField(n, f)
      BY <2>0, <3>4, AddFieldIndexes
    <3>5. CASE \E n \in Name : \E f \in Field : AlterField(n, f)
      BY <2>0, <3>5, AlterFieldIndexes
    <3>6. CASE \E S \in SUBSET project.together :
                 AlterUniqueTogether(S) \/ AlterIndexTogether(S)
      BY <2>0, <3>6, AlterUniqueTogetherIndexes, AlterIndexTogetherIndexes
    <3>7. CASE \E x \in project.meta : \/ AddMetaIndex(x) \/ RemoveMetaIndex(x)
                                       \/ AddConstraint(x) \/ RemoveConstraint(x)
      BY <2>0, <3>7, MetaIndexes
    <3>8. CASE \E table \in project.table : AlterDbTable(table)
      BY <2>0, <3>8, AlterDbTableIndexes
    <3> QED
      BY <2>1, <3>1, <3>2, <3>3, <3>4, <3>5, <3>6, <3>7, <3>8 DEF Operation
  <2>2. CASE RunCommand
    BY <2>0, <2>2, RunCommandIndexes
  <2>3. CASE Raise
    BY <2>0, <2>3, StopIndexes DEF Raise
  <2>4. CASE Interrupt
    BY <2>0, <2>4, StopIndexes DEF Interrupt
  <2>5. CASE Rerun
    BY <2>0, <2>5, RerunIndexes
  <2>6. CASE Finish
    BY <2>0, <2>6, FinishIndexes
  <2>7. CASE Save
    BY <2>0, <2>7, SaveIndexes
  <2> QED
    BY <1>2, <2>1, <2>2, <2>3, <2>4, <2>5, <2>6, <2>7 DEF Next
<1> QED
  BY <1>1, <1>2

LEMMA AnonymousTimeless ==
  ASSUME NEW x, IsIndex(x)
  PROVE  Anonymous(x) = Anonymous(Timeless(x))
<1>1. PICK n, p, u, f, g : x = MongoIndex(n, p, u, f, g)
  BY DEF IsIndex
<1>2. PICK y, k : y = Timeless(x) /\ k = TimelessName(n)
  OBVIOUS
<1>3. x.name = n /\ y = MongoIndex(k, p, u, f, g)
  BY <1>1, <1>2 DEF Timeless, MongoIndex
<1>4. y.name = k
  BY <1>3 DEF MongoIndex
<1>5. n[1] = k[1] /\ (n[1] = "meta" => k = n)
  BY <1>2 DEF TimelessName, Timed
<1>6. n[1] = "meta" => x = y
  BY <1>1, <1>3, <1>5
<1>7. Signature(x) = Signature(y)
  <2>1. IsIndex(y)
    BY <1>3 DEF IsIndex
  <2> QED
    BY <1>2, <2>1, SignatureIs, TimelessIs
<1> QED
  BY <1>2, <1>3, <1>4, <1>5, <1>6, <1>7 DEF Anonymous

LEMMA IndexesMatch ==
  ASSUME Clean, EditInv, IndexInv
  PROVE  IndexesMatchModel
<1> SUFFICES ASSUME phase = "idle"
             PROVE  {Anonymous(x) : x \in indexes} = {Anonymous(x) : x \in IndexesOf(model)}
  BY DEF IndexesMatchModel
<1>1. PICK m : m = model
  OBVIOUS
<1>2. Here = Call(m) /\ \A x \in indexes : IsIndex(x)
  BY <1>1 DEF IndexInv
<1>3. \A x \in IndexesOf(m) : IsIndex(x)
  <2>1. CASE m = None
    BY <2>1 DEF IndexesOf
  <2>2. CASE m # None
    <3>1. PICK p : p = project /\ p \in Projects /\ m \in Model /\ Legal(p, m)
      BY <1>1, <2>2, CurrentIs DEF EditInv, TypeInv
    <3>2. IndexesOf(m) = Made(m) \cup {TogetherIndex(m, names) : names \in m.index_together}
      BY <3>1, IndexesOfIs
    <3>3. \A x \in Made(m) : IsIndex(x)
      BY MadeTabled DEF Tabled
    <3>4. \A names : IsIndex(TogetherIndex(m, names))
      BY TabledForms DEF Tabled
    <3> QED
      BY <3>2, <3>3, <3>4
  <2> QED
    BY <2>1, <2>2
<1>4. \A x \in indexes : Anonymous(x) = Anonymous(Timeless(x))
  BY <1>2, AnonymousTimeless
<1>5. \A x \in IndexesOf(m) : Anonymous(x) = Anonymous(Timeless(x))
  BY <1>3, AnonymousTimeless
<1>6. {Anonymous(x) : x \in indexes} = {Anonymous(t) : t \in Here}
  BY <1>4 DEF Here
<1>7. {Anonymous(x) : x \in IndexesOf(m)} = {Anonymous(t) : t \in Call(m)}
  BY <1>5 DEF Call
<1> QED
  BY <1>1, <1>2, <1>6, <1>7

\* In a project without quirks, whatever its fields and options and whatever operations
\* its migrations are made of, wherever they are interrupted and however often they
\* are run again: when one is over, the collection has the indexes that creating the
\* model at once would have made, and no others.
THEOREM IndexesMatchModelCorrect ==
  ASSUME Quirks = {}, \A p \in Projects : Separate(p)
  PROVE  Spec => []IndexesMatchModel
<1>0. Clean
  BY DEF Clean
<1>1. Init => EditInv /\ IndexInv
  BY EditInit, IndexInit
<1>2. EditInv /\ [Next]_vars => EditInv'
  BY EditStep
<1>3. EditInv /\ EditInv' /\ IndexInv /\ [Next]_vars => IndexInv'
  BY <1>0, IndexStep
<1>4. EditInv /\ IndexInv => IndexesMatchModel
  BY <1>0, IndexesMatch
<1> QED
  BY <1>1, <1>2, <1>3, <1>4, PTL DEF Spec

\* In such a project no operation that is run for the first time meets an error of
\* the server, and every lookup of an index finds exactly one.
THEOREM NothingRefusedCorrect ==
  ASSUME Quirks = {}, \A p \in Projects : Separate(p)
  PROVE  Spec => []NothingRefused
<1>0. Clean
  BY DEF Clean
<1>1. Init => EditInv /\ IndexInv
  BY EditInit, IndexInit
<1>2. EditInv /\ [Next]_vars => EditInv'
  BY EditStep
<1>3. EditInv /\ EditInv' /\ IndexInv /\ [Next]_vars => IndexInv'
  BY <1>0, IndexStep
<1>4. EditInv /\ IndexInv => NothingRefused
  BY FirstRunAllowed
<1> QED
  BY <1>1, <1>2, <1>3, <1>4, PTL DEF Spec

\* In such a project the operations of Repeatable go well when they are run again,
\* wherever they were interrupted before.
THEOREM RerunSucceedsCorrect ==
  ASSUME Quirks = {}, \A p \in Projects : Separate(p)
  PROVE  Spec => []RerunSucceeds
<1>0. Clean
  BY DEF Clean
<1>1. Init => EditInv /\ IndexInv
  BY EditInit, IndexInit
<1>2. EditInv /\ [Next]_vars => EditInv'
  BY EditStep
<1>3. EditInv /\ EditInv' /\ IndexInv /\ [Next]_vars => IndexInv'
  BY <1>0, IndexStep
<1>4. EditInv /\ IndexInv => RerunSucceeds
  BY RepeatAllowed
<1> QED
  BY <1>1, <1>2, <1>3, <1>4, PTL DEF Spec
=============================================================================
