----------------------------- MODULE WritesProofs -----------------------------
(***************************************************************************)
(* What blocks, embedded instances and single calls may rely on, for any   *)
(* processes, programs, models, keys and number of failures.  RunInv is    *)
(* about where the processes are, DataInv about embedded instances, and    *)
(* CallInv about what each call has done to its tables so far.             *)
(***************************************************************************)
EXTENDS Writes, FiniteSetTheorems, TLAPS

\* A process that is in a call of its block has a transaction.
RunInv ==
  /\ DOMAIN run = Proc /\ DOMAIN txn = Proc
  /\ \A p \in Proc :
       /\ {"pc", "at", "alone"} \subseteq DOMAIN run[p]
       /\ run[p].at \in Nat
       /\ run[p].pc \notin {"idle", "done"} => run[p].at # 0
       /\ run[p].pc = "exit" => prog[p].atomic
       /\ "open" \in DOMAIN txn[p] /\ txn[p].open \in BOOLEAN
       /\ txn[p].open => {"view", "wrote"} \subseteq DOMAIN txn[p]
       /\ prog[p].atomic \in BOOLEAN
       /\ prog[p].atomic /\ run[p].pc # "done" /\ run[p].at # 0 => txn[p].open

\* The documents of an instance came after it was marked as stored.
GoodImage(image) ==
  /\ Top \in DOMAIN image
  /\ \A k \in DOMAIN image[Top] : LET d == image[Top][k] IN
       /\ {"of", "created"} \subseteq DOMAIN d
       /\ d.of # None =>
            d.of \in Proc /\ ~emb[d.of].adding /\ d.created = emb[d.of].created

DataInv ==
  /\ emb \in [Proc -> [adding : BOOLEAN, created : Nat]]
  /\ \A p \in Proc : ~emb[p].adding => emb[p].created # 0
  /\ GoodImage(docs)
  /\ \A p \in Proc : txn[p].open => GoodImage(txn[p].view)

-----------------------------------------------------------------------------
(* What one step of a call does.                                           *)

\* It stays in its call.
Mine(p, r) ==
  /\ DOMAIN r = DOMAIN run[p] /\ r.at = run[p].at /\ r.alone = run[p].alone
  /\ r.pc = "exit" => prog[p].atomic

\* It writes documents of its own instance, and leaves those of the others theirs.
Derived(p, old, new) ==
  /\ DOMAIN new = DOMAIN old
  /\ \A k \in DOMAIN new[Top] :
       /\ {"of", "created"} \subseteq DOMAIN new[Top][k]
       /\ \/ /\ k \in DOMAIN old[Top]
             /\ new[Top][k].of = old[Top][k].of
             /\ new[Top][k].created = old[Top][k].created
          \/ /\ new[Top][k].of = p
             /\ new[Top][k].created = PreparedBy(p).created
             /\ emb' = [emb EXCEPT ![p] = PreparedBy(p)]

Sent(p) ==
  \E verb, image, targets, mine :
    /\ Mine(p, mine)
    /\ Derived(p, Image(p, verb), image)
    /\ Execute(p, verb, image, targets) /\ Moves(p, mine)

Stepped(p) ==
  \E mine : Mine(p, mine) /\ run' = [run EXCEPT ![p] = mine] /\ UNCHANGED <<docs, txn>>

Outcome(p) ==
  /\ run[p].pc \notin {"idle", "done"}
  /\ UNCHANGED <<chain, encrypted, prog>>
  /\ emb' \in {emb, [emb EXCEPT ![p] = PreparedBy(p)]}
  /\ (\E cause : Raises(p, cause)) \/ Sent(p) \/ Stepped(p)

LEMMA MineShapes ==
  ASSUME RunInv, NEW p \in Proc
  PROVE  /\ Mine(p, run[p])
         /\ \A o, n : Mine(p, Ended(p, o, n))
         /\ \A o, n, c : Mine(p, [Ended(p, o, n) EXCEPT !.cause = c])
         /\ \A i, pc : pc # "exit" => Mine(p, [run[p] EXCEPT !.i = i, !.pc = pc])
         /\ \A pc : pc # "exit" => Mine(p, [run[p] EXCEPT !.pc = pc])
         /\ \A pc, ids : pc # "exit" => Mine(p, [run[p] EXCEPT !.pc = pc, !.ids = ids])
         /\ \A pc, ids, i : pc # "exit" => Mine(p, [run[p] EXCEPT !.pc = pc, !.ids = ids, !.i = i])
         /\ \A pc, n, i : pc # "exit" => Mine(p, [run[p] EXCEPT !.pc = pc, !.rows = n, !.i = i])
         /\ \A i, n : Mine(p, [run[p] EXCEPT !.i = i, !.rows = n])
         /\ \A b : Mine(p, AfterTable(p, b))
<1>1. {"pc", "at", "alone"} \subseteq DOMAIN run[p] /\ (run[p].pc = "exit" => prog[p].atomic)
  BY DEF RunInv
<1>2. /\ Mine(p, run[p])
      /\ \A i, pc : pc # "exit" => Mine(p, [run[p] EXCEPT !.i = i, !.pc = pc])
      /\ \A pc : pc # "exit" => Mine(p, [run[p] EXCEPT !.pc = pc])
      /\ \A pc, ids : pc # "exit" => Mine(p, [run[p] EXCEPT !.pc = pc, !.ids = ids])
      /\ \A pc, ids, i : pc # "exit" => Mine(p, [run[p] EXCEPT !.pc = pc, !.ids = ids, !.i = i])
      /\ \A pc, n, i : pc # "exit" => Mine(p, [run[p] EXCEPT !.pc = pc, !.rows = n, !.i = i])
      /\ \A i, n : Mine(p, [run[p] EXCEPT !.i = i, !.rows = n])
  BY <1>1 DEF Mine
<1>3. \A o, n : Mine(p, Ended(p, o, n))
  BY <1>1 DEF Mine, Ended, Following
<1>4. \A o, n, c : Mine(p, [Ended(p, o, n) EXCEPT !.cause = c])
  BY <1>1 DEF Mine, Ended, Following
<1>5. \A b : Mine(p, AfterTable(p, b))
  BY <1>2, <1>3 DEF AfterTable
<1> QED
  BY <1>2, <1>3, <1>4, <1>5

\* A call sees the collections or its transaction.
LEMMA ImageIsGood ==
  ASSUME DataInv, NEW p \in Proc, NEW verb
  PROVE  GoodImage(Image(p, verb))
  BY DEF DataInv, Image, Session

\* Writing documents of the own instance, or of none.
LEMMA PutDerived ==
  ASSUME NEW p \in Proc, NEW image, GoodImage(image), NEW t, NEW stored,
         t = Top => \A k \in DOMAIN stored :
           /\ {"of", "created"} \subseteq DOMAIN stored[k]
           /\ \/ /\ k \in DOMAIN image[Top]
                 /\ stored[k].of = image[Top][k].of
                 /\ stored[k].created = image[Top][k].created
              \/ /\ stored[k].of = p
                 /\ stored[k].created = PreparedBy(p).created
                 /\ emb' = [emb EXCEPT ![p] = PreparedBy(p)]
  PROVE  Derived(p, image, Put(image, t, stored))
<1> DEFINE new == Put(image, t, stored)
<1>1. Top \in DOMAIN image /\ \A k \in DOMAIN image[Top] :
        {"of", "created"} \subseteq DOMAIN image[Top][k]
  BY DEF GoodImage
<1>2. DOMAIN new = DOMAIN image
  BY DEF Put
<1>3. CASE t # Top
  <2>1. new[Top] = image[Top]
    BY <1>1, <1>3 DEF Put
  <2> QED
    BY <1>1, <1>2, <2>1 DEF Derived
<1>4. CASE t = Top
  <2>1. new[Top] = Over(stored, image[Top])
    BY <1>1, <1>4 DEF Put
  <2>2. /\ DOMAIN new[Top] = DOMAIN stored \cup DOMAIN image[Top]
        /\ \A k \in DOMAIN new[Top] :
             new[Top][k] = IF k \in DOMAIN stored THEN stored[k] ELSE image[Top][k]
    BY <2>1 DEF Over
  <2> HIDE DEF new
  <2> QED
    BY <1>1, <1>2, <1>4, <2>2 DEF Derived, new
<1> QED
  BY <1>3, <1>4

LEMMA StoredDerived ==
  ASSUME NEW p \in Proc, NEW image, GoodImage(image), NEW t, NEW stored,
         \A k \in DOMAIN stored : \E val : stored[k] = Stored(p, t, val),
         Prepares(p, t)
  PROVE  Derived(p, image, Put(image, t, stored))
<1>1. ASSUME t = Top
      PROVE  /\ emb' = [emb EXCEPT ![p] = PreparedBy(p)]
             /\ \A k \in DOMAIN stored :
                  /\ {"of", "created"} \subseteq DOMAIN stored[k]
                  /\ stored[k].of = p /\ stored[k].created = PreparedBy(p).created
  <2>1. \A val : /\ {"of", "created"} \subseteq DOMAIN Stored(p, t, val)
                 /\ Stored(p, t, val).of = p
                 /\ Stored(p, t, val).created = PreparedBy(p).created
    BY <1>1 DEF Stored
  <2> QED
    BY <1>1, <2>1 DEF Prepares
<1> QED
  BY <1>1, PutDerived

LEMMA ResetDerived ==
  ASSUME NEW p \in Proc, NEW image, GoodImage(image), NEW t, NEW keys, NEW val
  PROVE  Derived(p, image, Reset(image, t, keys, val))
<1> DEFINE stored == [k \in keys \cap DOMAIN image[t] |-> [image[t][k] EXCEPT !.val = val]]
<1>1. ASSUME t = Top, NEW k \in DOMAIN stored
      PROVE  /\ {"of", "created"} \subseteq DOMAIN stored[k]
             /\ k \in DOMAIN image[Top]
             /\ stored[k].of = image[Top][k].of
             /\ stored[k].created = image[Top][k].created
  BY <1>1 DEF GoodImage
<1> HIDE DEF stored
<1>2. Derived(p, image, Put(image, t, stored))
  BY <1>1, PutDerived
<1> QED
  BY <1>2 DEF stored, Reset

LEMMA WithoutDerived ==
  ASSUME NEW p \in Proc, NEW image, GoodImage(image), NEW t, NEW keys
  PROVE  Derived(p, image, Without(image, t, keys))
<1> DEFINE new == Without(image, t, keys)
<1>1. Top \in DOMAIN image /\ DOMAIN new = DOMAIN image
  BY DEF Without, GoodImage
<1>2. \A k \in DOMAIN new[Top] : k \in DOMAIN image[Top] /\ new[Top][k] = image[Top][k]
  BY <1>1 DEF Without, Restrict
<1> HIDE DEF new
<1> QED
  BY <1>1, <1>2 DEF Derived, GoodImage, new

LEMMA CommandOutcome ==
  ASSUME RunInv, NEW p \in Proc, NEW verb, NEW image, NEW targets, NEW mine,
         Command(p, verb, image, targets, mine),
         Mine(p, mine), Derived(p, Image(p, verb), image)
  PROVE  (\E cause : Raises(p, cause)) \/ Sent(p)
  BY DEF Command, Sent

LEMMA SaveUpdateOutcome ==
  ASSUME RunInv, DataInv, NEW p \in Proc, SaveUpdate(p)
  PROVE  Outcome(p)
<1> DEFINE t == chain[run[p].i]
           c == Call(p)
           image == Image(p, "update")
           found == {c.key} \cap DOMAIN image[t]
           next == IF found = {} THEN [run[p] EXCEPT !.pc = "insert"] ELSE AfterTable(p, FALSE)
           stored == [k \in found |-> Stored(p, t, c.vals[t])]
<1>1. /\ IF Refused(UpdateMethod(KeyColumn(t), c.key)) THEN Raises(p, "code")
         ELSE Command(p, "update", Put(image, t, stored), Cells(t, found), next)
      /\ Prepares(p, t) /\ Fixed /\ run[p].pc = "update"
  BY DEF SaveUpdate, At
<1>2. GoodImage(image)
  BY ImageIsGood
<1>3. \A k \in DOMAIN stored : \E val : stored[k] = Stored(p, t, val)
  OBVIOUS
<1>4. Mine(p, next)
  BY MineShapes
<1> HIDE DEF t, image, stored, next, found, c
<1>5. Derived(p, image, Put(image, t, stored))
  BY <1>1, <1>2, <1>3, StoredDerived
<1>6. (\E cause : Raises(p, cause)) \/ Sent(p)
  BY <1>1, <1>4, <1>5, CommandOutcome DEF image
<1>7. emb' \in {emb, [emb EXCEPT ![p] = PreparedBy(p)]}
  BY <1>1 DEF Prepares
<1> QED
  BY <1>1, <1>6, <1>7 DEF Outcome, Fixed

LEMMA SaveInsertOutcome ==
  ASSUME RunInv, DataInv, NEW p \in Proc, SaveInsert(p)
  PROVE  Outcome(p)
<1> DEFINE t == chain[run[p].i]
           c == Call(p)
           image == Image(p, "insert")
           stored == [k \in {c.key} |-> Stored(p, t, c.vals[t])]
<1>1. /\ \/ \E cause : Raises(p, cause)
         \/ Command(p, "insert", Put(image, t, stored), Cells(t, {c.key}), AfterTable(p, TRUE))
      /\ Prepares(p, t) /\ Fixed /\ run[p].pc = "insert"
  BY DEF SaveInsert, At
<1>2. GoodImage(image)
  BY ImageIsGood
<1>3. \A k \in DOMAIN stored : \E val : stored[k] = Stored(p, t, val)
  OBVIOUS
<1>4. Mine(p, AfterTable(p, TRUE))
  BY MineShapes
<1> HIDE DEF t, image, stored, c
<1>5. Derived(p, image, Put(image, t, stored))
  BY <1>1, <1>2, <1>3, StoredDerived
<1>6. (\E cause : Raises(p, cause)) \/ Sent(p)
  BY <1>1, <1>4, <1>5, CommandOutcome DEF image
<1>7. emb' \in {emb, [emb EXCEPT ![p] = PreparedBy(p)]}
  BY <1>1 DEF Prepares
<1> QED
  BY <1>1, <1>6, <1>7 DEF Outcome, Fixed

LEMMA InsertManyOutcome ==
  ASSUME RunInv, DataInv, NEW p \in Proc, InsertMany(p)
  PROVE  Outcome(p)
<1> DEFINE objs == Call(p).objs
           image == Image(p, "insert")
           these == StoredOf(objs, DOMAIN image[Top])
           keys == {objs[i].key : i \in these}
           valOf(k) == objs[CHOOSE i \in these : objs[i].key = k].val
           end == IF these = DOMAIN objs THEN Ended(p, "returned", Len(objs))
                  ELSE [Ended(p, "raised", 0) EXCEPT !.cause = "duplicate"]
           stored == [k \in keys |-> Stored(p, Top, valOf(k))]
<1>1. /\ \/ \E cause : Raises(p, cause)
         \/ Command(p, "insert", Put(image, Top, stored), Cells(Top, keys), end)
      /\ Prepares(p, Top) /\ Fixed /\ run[p].pc = "insert_many"
  BY DEF InsertMany, PutObjects, At
<1>2. GoodImage(image)
  BY ImageIsGood
<1>3. \A k \in DOMAIN stored : \E val : stored[k] = Stored(p, Top, val)
  OBVIOUS
<1>4. Mine(p, end)
  BY MineShapes
<1> HIDE DEF objs, image, keys, end, stored
<1>5. Derived(p, image, Put(image, Top, stored))
  BY <1>1, <1>2, <1>3, StoredDerived
<1>6. (\E cause : Raises(p, cause)) \/ Sent(p)
  BY <1>1, <1>4, <1>5, CommandOutcome DEF image
<1>7. emb' \in {emb, [emb EXCEPT ![p] = PreparedBy(p)]}
  BY <1>1 DEF Prepares
<1> QED
  BY <1>1, <1>6, <1>7 DEF Outcome, Fixed

LEMMA UpdateSelectOutcome ==
  ASSUME RunInv, NEW p \in Proc, UpdateSelect(p)
  PROVE  Outcome(p)
<1>1. PICK mine : Mine(p, mine) /\ run' = [run EXCEPT ![p] = mine]
  <2>1. PICK chosen : run' = [run EXCEPT ![p] =
          IF Call(p).related # <<>> /\ chosen = {} THEN Ended(p, "returned", 0)
          ELSE [run[p] EXCEPT !.pc = "primary", !.ids = chosen]]
    BY DEF UpdateSelect, RunInv
  <2> QED
    BY <2>1, MineShapes
<1> QED
  BY <1>1 DEF UpdateSelect, At, Outcome, Stepped, Fixed

LEMMA DeleteCollectOutcome ==
  ASSUME RunInv, NEW p \in Proc, DeleteCollect(p)
  PROVE  Outcome(p)
<1>1. PICK mine : Mine(p, mine) /\ run' = [run EXCEPT ![p] = mine]
  <2>1. PICK chosen : run' = [run EXCEPT ![p] =
          IF Len(chain) > 1 /\ chosen = {} THEN Ended(p, "returned", 0)
          ELSE [run[p] EXCEPT !.pc = "delete", !.ids = chosen, !.i = Len(chain)]]
    BY DEF DeleteCollect, RunInv
  <2> QED
    BY <2>1, MineShapes
<1> QED
  BY <1>1 DEF DeleteCollect, At, Outcome, Stepped, Fixed

LEMMA UpdatePrimaryOutcome ==
  ASSUME RunInv, DataInv, NEW p \in Proc, UpdatePrimary(p)
  PROVE  Outcome(p)
<1> DEFINE c == Call(p)
           image == Image(p, "update")
           keys == IF c.related = <<>> THEN Matching(image[Own], c.where)
                   ELSE run[p].ids \cap DOMAIN image[Own]
           after(rows) == IF c.related = <<>> THEN Ended(p, "returned", rows)
                          ELSE [run[p] EXCEPT !.pc = "related", !.rows = rows, !.i = 1]
           val == c.sets[Own]
<1>1. /\ \/ \E cause : Raises(p, cause)
         \/ run' = [run EXCEPT ![p] = after(0)] /\ UNCHANGED <<docs, txn>>
         \/ Command(p, "update", Reset(image, Own, keys, val), Cells(Own, keys),
                    after(Cardinality(keys)))
      /\ emb' = emb /\ Fixed /\ run[p].pc = "primary"
  BY DEF UpdatePrimary, OwnKeys, At
<1>2. Mine(p, after(0)) /\ Mine(p, after(Cardinality(keys)))
  BY MineShapes
<1>3. GoodImage(image)
  BY ImageIsGood
<1> HIDE DEF c, image, keys, after, val
<1>4. Derived(p, image, Reset(image, Own, keys, val))
  BY <1>3, ResetDerived
<1>5. (\E cause : Raises(p, cause)) \/ Sent(p) \/ Stepped(p)
  <2>1. CASE run' = [run EXCEPT ![p] = after(0)] /\ UNCHANGED <<docs, txn>>
    BY <1>2, <2>1 DEF Stepped
  <2>2. CASE Command(p, "update", Reset(image, Own, keys, val), Cells(Own, keys),
                    after(Cardinality(keys)))
    BY <1>2, <1>4, <2>2, CommandOutcome DEF image
  <2> QED
    BY <1>1, <2>1, <2>2
<1> QED
  BY <1>1, <1>5 DEF Outcome, Fixed

LEMMA UpdateRelatedOutcome ==
  ASSUME RunInv, DataInv, NEW p \in Proc, UpdateRelated(p)
  PROVE  Outcome(p)
<1> DEFINE c == Call(p)
           t == c.related[run[p].i]
           image == Image(p, "update")
           keys == run[p].ids \cap DOMAIN image[t]
           rows == RowsWith(p, Cardinality(keys))
           mine == IF run[p].i = Len(c.related) THEN Ended(p, "returned", rows)
                   ELSE [run[p] EXCEPT !.i = @ + 1, !.rows = rows]
<1>1. /\ \/ \E cause : Raises(p, cause)
         \/ Command(p, "update", Reset(image, t, keys, c.sets[t]), Cells(t, keys), mine)
      /\ emb' = emb /\ Fixed /\ run[p].pc = "related"
  BY DEF UpdateRelated, At
<1>2. Mine(p, mine)
  BY MineShapes
<1>3. GoodImage(image)
  BY ImageIsGood
<1> HIDE DEF c, t, image, keys, mine
<1>4. Derived(p, image, Reset(image, t, keys, c.sets[t]))
  BY <1>3, ResetDerived
<1>5. (\E cause : Raises(p, cause)) \/ Sent(p)
  BY <1>1, <1>2, <1>4, CommandOutcome DEF image
<1> QED
  BY <1>1, <1>5 DEF Outcome, Fixed

LEMMA DeleteManyOutcome ==
  ASSUME RunInv, DataInv, NEW p \in Proc, DeleteMany(p)
  PROVE  Outcome(p)
<1> DEFINE t == chain[run[p].i]
           image == Image(p, "delete")
           keys == IF Len(chain) = 1 THEN Matching(image[Own], Call(p).where)
                   ELSE run[p].ids \cap DOMAIN image[t]
           rows == run[p].rows + Cardinality(keys)
           mine == IF t = Top THEN Ended(p, "returned", rows)
                   ELSE [run[p] EXCEPT !.i = @ - 1, !.rows = rows]
<1>1. /\ Command(p, "delete", Without(image, t, keys), Cells(t, keys), mine)
      /\ emb' = emb /\ Fixed /\ run[p].pc = "delete"
  BY DEF DeleteMany, DeletedKeys, At
<1>2. Mine(p, mine)
  BY MineShapes
<1>3. GoodImage(image)
  BY ImageIsGood
<1> HIDE DEF t, image, keys, mine
<1>4. Derived(p, image, Without(image, t, keys))
  BY <1>3, WithoutDerived
<1>5. (\E cause : Raises(p, cause)) \/ Sent(p)
  BY <1>1, <1>2, <1>4, CommandOutcome DEF image
<1> QED
  BY <1>1, <1>5 DEF Outcome, Fixed

LEMMA FaultOutcome ==
  ASSUME NEW p \in Proc, Fault(p)
  PROVE  Outcome(p)
<1>1. emb' \in {emb, [emb EXCEPT ![p] = PreparedBy(p)]}
  BY DEF Fault, Prepares
<1> QED
  BY <1>1 DEF Fault, Outcome

LEMMA BreaksSends ==
  ASSUME RunInv, NEW p \in Proc, NEW verb, NEW image, NEW targets,
         Breaks(p, verb, image, targets), Derived(p, docs, image)
  PROVE  Sent(p)
<1> DEFINE mine == [Ended(p, "raised", 0) EXCEPT !.cause = "server"]
<1>1. Mine(p, mine)
  BY MineShapes
<1>2. Image(p, verb) = docs /\ Execute(p, verb, image, targets) /\ Moves(p, mine)
  BY DEF Breaks, Image
<1> HIDE DEF mine
<1> QED
  BY <1>1, <1>2 DEF Sent

LEMMA CutShortOutcome ==
  ASSUME RunInv, DataInv, NEW p \in Proc, CutShort(p)
  PROVE  Outcome(p)
<1>1. GoodImage(docs) /\ UNCHANGED <<chain, encrypted, prog>>
  BY DEF DataInv, CutShort
<1>2. ASSUME NEW some, CutSave(p, some) PROVE Outcome(p)
  <2> DEFINE t == chain[run[p].i]
             c == Call(p)
             keys == some \cap IF At(p, "update") THEN {c.key} \cap DOMAIN docs[t]
                               ELSE {c.key} \ DOMAIN docs[t]
             stored == [k \in keys |-> Stored(p, t, c.vals[t])]
  <2>1. /\ Breaks(p, run[p].pc, Put(docs, t, stored), Cells(t, keys))
        /\ Prepares(p, t) /\ run[p].pc \in {"update", "insert"}
    BY <1>2 DEF CutSave, At
  <2>2. \A k \in DOMAIN stored : \E val : stored[k] = Stored(p, t, val)
    OBVIOUS
  <2> HIDE DEF t, stored, keys
  <2>3. Derived(p, docs, Put(docs, t, stored))
    BY <1>1, <2>1, <2>2, StoredDerived
  <2>4. emb' \in {emb, [emb EXCEPT ![p] = PreparedBy(p)]}
    BY <2>1 DEF Prepares
  <2> QED
    BY <1>1, <2>1, <2>3, <2>4, BreaksSends DEF Outcome
<1>3. ASSUME NEW some, CutUpdate(p, some) PROVE Outcome(p)
  <2>1. PICK verb, t, keys, val, targets :
          /\ Breaks(p, verb, Reset(docs, t, keys, val), targets)
          /\ emb' = emb /\ run[p].pc \in {"primary", "related"}
    BY <1>3 DEF CutUpdate, At
  <2>2. Derived(p, docs, Reset(docs, t, keys, val))
    BY <1>1, ResetDerived
  <2> QED
    BY <1>1, <2>1, <2>2, BreaksSends DEF Outcome
<1>4. ASSUME NEW some, CutDelete(p, some) PROVE Outcome(p)
  <2>1. PICK verb, t, keys, targets :
          /\ Breaks(p, verb, Without(docs, t, keys), targets)
          /\ emb' = emb /\ run[p].pc = "delete"
    BY <1>4 DEF CutDelete, At
  <2>2. Derived(p, docs, Without(docs, t, keys))
    BY <1>1, WithoutDerived
  <2> QED
    BY <1>1, <2>1, <2>2, BreaksSends DEF Outcome
<1>5. ASSUME CutInsertMany(p) PROVE Outcome(p)
  <2> DEFINE objs == Call(p).objs
             keys(places) == {objs[i].key : i \in places}
             stored(places) == [k \in keys(places) |->
               Stored(p, Top, objs[CHOOSE i \in places : objs[i].key = k].val)]
  <2>1. PICK places :
          /\ Breaks(p, "insert", Put(docs, Top, stored(places)), Cells(Top, keys(places)))
          /\ Prepares(p, Top) /\ run[p].pc = "insert_many"
    BY <1>5 DEF CutInsertMany, PutObjects, At
  <2>2. \A k \in DOMAIN stored(places) : \E val : stored(places)[k] = Stored(p, Top, val)
    OBVIOUS
  <2> HIDE DEF objs, keys, stored
  <2>3. Derived(p, docs, Put(docs, Top, stored(places)))
    BY <1>1, <2>1, <2>2, StoredDerived
  <2>4. emb' \in {emb, [emb EXCEPT ![p] = PreparedBy(p)]}
    BY <2>1 DEF Prepares
  <2> QED
    BY <1>1, <2>1, <2>3, <2>4, BreaksSends DEF Outcome
<1> QED
  BY <1>2, <1>3, <1>4, <1>5 DEF CutShort

\* Every step of a process within a call, but those of a block.
LEMMA StepOutcome ==
  ASSUME RunInv, DataInv, NEW p \in Proc, Step(p), ~Begin(p), ~Commit(p)
  PROVE  Outcome(p)
  BY FaultOutcome, CutShortOutcome, SaveUpdateOutcome, SaveInsertOutcome, InsertManyOutcome,
     UpdateSelectOutcome, DeleteCollectOutcome, UpdatePrimaryOutcome, UpdateRelatedOutcome,
     DeleteManyOutcome
  DEF Step

-----------------------------------------------------------------------------
(* Blocks.                                                                 *)

\* What a step of p leaves of p and of the others.
LEMMA OutcomeRuns ==
  ASSUME RunInv, NEW p \in Proc, Outcome(p)
  PROVE  /\ DOMAIN run' = Proc /\ DOMAIN txn' = Proc
         /\ \A q \in Proc \ {p} :
              /\ txn'[q] = txn[q]
              /\ run'[q] \in {run[q], [run[q] EXCEPT !.alone = FALSE]}
         /\ {"pc", "at", "alone"} \subseteq DOMAIN run'[p]
         /\ run'[p].at = run[p].at /\ (run'[p].pc = "exit" => prog[p].atomic)
         /\ \/ txn'[p] = NoTxn /\ docs' = docs /\ (prog[p].atomic => run'[p].pc = "done")
            \/ /\ DOMAIN txn'[p] = DOMAIN txn[p] /\ txn'[p].open = txn[p].open
               /\ txn[p].open => docs' = docs
<1> DEFINE Others1 == \A q \in Proc \ {p} :
             run'[q] \in {run[q], [run[q] EXCEPT !.alone = FALSE]}
           Own1 == /\ {"pc", "at", "alone"} \subseteq DOMAIN run'[p]
                   /\ run'[p].at = run[p].at /\ (run'[p].pc = "exit" => prog[p].atomic)
<1>1. /\ DOMAIN run = Proc /\ DOMAIN txn = Proc
      /\ {"pc", "at", "alone"} \subseteq DOMAIN run[p]
      /\ "open" \in DOMAIN txn[p] /\ txn[p].open \in BOOLEAN
      /\ prog[p].atomic \in BOOLEAN
  BY DEF RunInv
<1>2. ASSUME NEW cause, Raises(p, cause)
      PROVE  /\ DOMAIN run' = Proc /\ DOMAIN txn' = Proc
             /\ \A q \in Proc \ {p} : txn'[q] = txn[q] /\ run'[q] = run[q]
             /\ Own1 /\ txn'[p] = NoTxn /\ docs' = docs
             /\ prog[p].atomic => run'[p].pc = "done"
  <2> DEFINE ended == Ended(p, "raised", 0)
             r == [ended EXCEPT !.pc = IF prog[p].atomic THEN "done" ELSE @, !.cause = cause]
  <2>1. Mine(p, ended)
    BY MineShapes
  <2>2. run' = [run EXCEPT ![p] = r] /\ txn' = [txn EXCEPT ![p] = NoTxn] /\ docs' = docs
    BY <1>2 DEF Raises
  <2> HIDE DEF ended
  <2>3. /\ {"pc", "at", "alone"} \subseteq DOMAIN r /\ r.at = run[p].at
        /\ r.pc = "exit" => prog[p].atomic
        /\ prog[p].atomic => r.pc = "done"
    BY <1>1, <2>1 DEF Mine
  <2> HIDE DEF r
  <2> QED
    BY <1>1, <2>2, <2>3
<1>3. ASSUME Sent(p)
      PROVE  /\ DOMAIN run' = Proc /\ DOMAIN txn' = Proc
             /\ \A q \in Proc \ {p} : txn'[q] = txn[q]
             /\ Others1 /\ Own1
             /\ DOMAIN txn'[p] = DOMAIN txn[p] /\ txn'[p].open = txn[p].open
             /\ txn[p].open => docs' = docs
  <2>1. PICK verb, image, targets, mine :
          Mine(p, mine) /\ Execute(p, verb, image, targets) /\ Moves(p, mine)
    BY <1>3 DEF Sent
  <2>2. /\ DOMAIN run' = Proc /\ run'[p] = mine /\ Others1
    BY <1>1, <2>1 DEF Moves, Others
  <2>3. /\ DOMAIN txn' = Proc /\ \A q \in Proc \ {p} : txn'[q] = txn[q]
        /\ DOMAIN txn'[p] = DOMAIN txn[p] /\ txn'[p].open = txn[p].open
        /\ txn[p].open => docs' = docs
    BY <1>1, <2>1 DEF Execute, Session
  <2> QED
    BY <1>1, <2>1, <2>2, <2>3 DEF Mine
<1>4. ASSUME Stepped(p)
      PROVE  /\ DOMAIN run' = Proc /\ txn' = txn /\ docs' = docs
             /\ \A q \in Proc \ {p} : run'[q] = run[q]
             /\ Own1
  BY <1>1, <1>4 DEF Stepped, Mine
<1>5. CASE \E cause : Raises(p, cause)
  BY <1>2, <1>5
<1>6. CASE Sent(p)
  BY <1>3, <1>6
<1>7. CASE Stepped(p)
  BY <1>1, <1>4, <1>7
<1> QED
  BY <1>5, <1>6, <1>7 DEF Outcome

LEMMA BeginRuns ==
  ASSUME RunInv, NEW p \in Proc, Begin(p)
  PROVE  /\ DOMAIN run' = Proc /\ DOMAIN txn' = Proc
         /\ \A q \in Proc \ {p} : txn'[q] = txn[q] /\ run'[q] = run[q]
         /\ {"pc", "at", "alone"} \subseteq DOMAIN run'[p]
         /\ run'[p].at = run[p].at + 1 /\ run'[p].pc # "exit" /\ docs' = docs
         /\ IF prog[p].atomic /\ run[p].at = 0
            THEN txn'[p] = [open |-> TRUE, base |-> docs, view |-> docs, wrote |-> {}]
            ELSE txn'[p] = txn[p]
<1>1. /\ DOMAIN run = Proc /\ DOMAIN txn = Proc
      /\ {"pc", "at", "alone"} \subseteq DOMAIN run[p] /\ run[p].at \in Nat
  BY DEF RunInv
<1> DEFINE opens == prog[p].atomic /\ run[p].at = 0
           r == [run[p] EXCEPT !.at = run[p].at + 1,
                               !.pc = FirstStep(prog[p].calls[run[p].at + 1].op),
                               !.i = 1, !.ids = {}, !.rows = 0, !.outcome = "none",
                               !.cause = "none", !.alone = TRUE,
                               !.before = IF opens THEN docs ELSE Image(p, "find")]
<1>3. run' = [run EXCEPT ![p] = r]
  BY DEF Begin
<1>2. \A op : FirstStep(op) # "exit"
  BY DEF FirstStep
<1>4. /\ {"pc", "at", "alone"} \subseteq DOMAIN r
      /\ r.at = run[p].at + 1 /\ r.pc # "exit"
  BY <1>1, <1>2
<1> HIDE DEF r
<1>5. /\ DOMAIN run' = Proc /\ run'[p] = r
      /\ \A q \in Proc \ {p} : run'[q] = run[q]
  BY <1>1, <1>3
<1> QED
  BY <1>1, <1>4, <1>5 DEF Begin

\* A block is left by a commit.
LEMMA CommitRuns ==
  ASSUME RunInv, NEW p \in Proc, Commit(p)
  PROVE  /\ DOMAIN run' = Proc /\ DOMAIN txn' = Proc
         /\ \A q \in Proc \ {p} :
              /\ txn'[q] = txn[q]
              /\ run'[q] \in {run[q], [run[q] EXCEPT !.alone = FALSE]}
         /\ {"pc", "at", "alone"} \subseteq DOMAIN run'[p]
         /\ run'[p].at = run[p].at /\ run'[p].pc = "done" /\ txn'[p] = NoTxn
<1>1. /\ DOMAIN run = Proc /\ DOMAIN txn = Proc
      /\ {"pc", "at", "alone"} \subseteq DOMAIN run[p]
  BY DEF RunInv
<1> DEFINE mine == [run[p] EXCEPT !.pc = "done", !.alone = FALSE]
<1>2. Moves(p, mine) /\ txn' = [txn EXCEPT ![p] = NoTxn]
  BY DEF Commit
<1>3. {"pc", "at", "alone"} \subseteq DOMAIN mine /\ mine.at = run[p].at /\ mine.pc = "done"
  BY <1>1
<1> HIDE DEF mine
<1>4. /\ DOMAIN run' = Proc /\ run'[p] = mine
      /\ \A q \in Proc \ {p} : run'[q] \in {run[q], [run[q] EXCEPT !.alone = FALSE]}
  BY <1>1, <1>2 DEF Moves, Others
<1> QED
  BY <1>1, <1>2, <1>3, <1>4

\* What RunInv asks of one process.
Runs(p) ==
  /\ {"pc", "at", "alone"} \subseteq DOMAIN run[p]
  /\ run[p].at \in Nat
  /\ run[p].pc \notin {"idle", "done"} => run[p].at # 0
  /\ run[p].pc = "exit" => prog[p].atomic
  /\ "open" \in DOMAIN txn[p] /\ txn[p].open \in BOOLEAN
  /\ txn[p].open => {"view", "wrote"} \subseteq DOMAIN txn[p]
  /\ prog[p].atomic \in BOOLEAN
  /\ prog[p].atomic /\ run[p].pc # "done" /\ run[p].at # 0 => txn[p].open

LEMMA NoTxnShape == DOMAIN NoTxn = {"open"} /\ NoTxn.open = FALSE
  BY DEF NoTxn

\* A process that does not move keeps its part.
LEMMA OthersRun ==
  ASSUME RunInv, NEW q \in Proc, prog' = prog, txn'[q] = txn[q],
         run'[q] \in {run[q], [run[q] EXCEPT !.alone = FALSE]}
  PROVE  Runs(q)'
<1>1. Runs(q)
  BY DEF RunInv, Runs
<1>2. /\ {"pc", "at", "alone"} \subseteq DOMAIN run'[q]
      /\ run'[q].at = run[q].at /\ run'[q].pc = run[q].pc
  BY <1>1 DEF Runs
<1> QED
  BY <1>1, <1>2 DEF Runs

LEMMA StepRunInv == RunInv /\ DataInv /\ [Next]_vars => RunInv'
<1> SUFFICES ASSUME RunInv, DataInv, [Next]_vars PROVE RunInv'
  OBVIOUS
<1>1. ASSUME NEW p \in Proc, Step(p) PROVE RunInv'
  <2> SUFFICES DOMAIN run' = Proc /\ DOMAIN txn' = Proc /\ \A q \in Proc : Runs(q)'
    BY DEF RunInv, Runs
  <2>1. Runs(p)
    BY DEF RunInv, Runs
  <2>2. CASE Begin(p)
    <3>1. prog' = prog
      BY <2>2 DEF Begin, Fixed
    <3>2. \A q \in Proc \ {p} : Runs(q)'
      BY <2>2, <3>1, BeginRuns, OthersRun
    <3>3. Runs(p)'
      <4>1. CASE prog[p].atomic /\ run[p].at = 0
        <5>1. /\ DOMAIN txn'[p] = {"open", "base", "view", "wrote"} /\ txn'[p].open = TRUE
          BY <2>2, <4>1, BeginRuns
        <5>2. /\ {"pc", "at", "alone"} \subseteq DOMAIN run'[p]
              /\ run'[p].at = run[p].at + 1 /\ run'[p].pc # "exit"
          BY <2>2, BeginRuns
        <5>3. run[p].at \in Nat /\ run[p].at + 1 \in Nat /\ run[p].at + 1 # 0
          BY <2>1 DEF Runs
        <5> HIDE <4>1
        <5> QED
          BY <2>1, <3>1, <5>1, <5>2, <5>3 DEF Runs
      <4>2. CASE ~(prog[p].atomic /\ run[p].at = 0)
        <5>1. txn'[p] = txn[p] /\ run'[p].at = run[p].at + 1
          BY <2>2, <4>2, BeginRuns
        <5>2. prog[p].atomic => txn[p].open
          BY <2>1, <2>2, <4>2 DEF Runs, Begin, At
        <5> QED
          BY <2>1, <2>2, <3>1, <5>1, <5>2, BeginRuns DEF Runs
      <4> QED
        BY <4>1, <4>2
    <3> QED
      BY <2>2, <3>2, <3>3, BeginRuns
  <2>3. CASE Commit(p)
    <3>1. prog' = prog
      BY <2>3 DEF Commit, Fixed
    <3>2. \A q \in Proc \ {p} : Runs(q)'
      BY <2>3, <3>1, CommitRuns, OthersRun
    <3>3. Runs(p)'
      BY <2>1, <2>3, <3>1, CommitRuns, NoTxnShape DEF Runs
    <3> QED
      BY <2>3, <3>2, <3>3, CommitRuns
  <2>4. CASE ~Begin(p) /\ ~Commit(p)
    <3>1. Outcome(p)
      BY <1>1, <2>4, StepOutcome
    <3>2. prog' = prog /\ run[p].at # 0 /\ (prog[p].atomic => txn[p].open)
      BY <2>1, <3>1 DEF Outcome, Runs
    <3>3. \A q \in Proc \ {p} : Runs(q)'
      BY <3>1, <3>2, OutcomeRuns, OthersRun
    <3>4. Runs(p)'
      <4>1. CASE txn'[p] = NoTxn /\ (prog[p].atomic => run'[p].pc = "done")
        BY <2>1, <3>1, <3>2, <4>1, OutcomeRuns, NoTxnShape DEF Runs
      <4>2. CASE DOMAIN txn'[p] = DOMAIN txn[p] /\ txn'[p].open = txn[p].open
        BY <2>1, <3>1, <3>2, <4>2, OutcomeRuns DEF Runs
      <4> QED
        BY <3>1, <4>1, <4>2, OutcomeRuns
    <3> QED
      BY <3>1, <3>3, <3>4, OutcomeRuns
  <2> QED
    BY <2>2, <2>3, <2>4
<1>2. CASE UNCHANGED vars
  BY <1>2 DEF vars, RunInv
<1> QED
  BY <1>1, <1>2 DEF Next, AllDone

\* Only its own steps move a process, and none but the commit writes to the collections.
LEMMA BlockStep ==
  ASSUME RunInv, DataInv, [Next]_vars, NEW p \in Proc,
         prog[p].atomic, docs' # docs, Moved(p)
  PROVE  Commit(p)
<1>1. PICK q \in Proc : Step(q)
  BY DEF Next, AllDone, vars
<1>2. Runs(p)
  BY DEF RunInv, Runs
<1>3. ~Begin(q)
  BY <1>1, BeginRuns
<1>4. CASE q # p
  <2>1. run'[p] \in {run[p], [run[p] EXCEPT !.alone = FALSE]}
    BY <1>1, <1>3, <1>4, StepOutcome, OutcomeRuns, CommitRuns
  <2>2. [[run[p] EXCEPT !.alone = FALSE] EXCEPT !.alone = TRUE] = [run[p] EXCEPT !.alone = TRUE]
    OBVIOUS
  <2> QED
    BY <2>1, <2>2 DEF Moved
<1>5. CASE q = p /\ ~Commit(p)
  <2>1. Outcome(p)
    BY <1>1, <1>3, <1>5, StepOutcome
  <2>2. txn[p].open
    BY <1>2, <2>1 DEF Outcome, Runs
  <2> QED
    BY <2>1, <2>2, OutcomeRuns
<1> QED
  BY <1>4, <1>5

LEMMA CommitMerges ==
  ASSUME NEW p \in Proc, Commit(p), NEW t \in DOMAIN docs
  PROVE  LET kept == {k \in Key : <<t, k>> \notin txn[p].wrote}
             mine == DOMAIN txn[p].view[t] \ kept
         IN /\ DOMAIN docs' = DOMAIN docs
            /\ DOMAIN docs'[t] = (DOMAIN docs[t] \cap kept) \cup mine
            /\ \A k \in DOMAIN docs'[t] :
                 docs'[t][k] = IF k \in kept THEN docs[t][k] ELSE txn[p].view[t][k]
<1> DEFINE kept == {k \in Key : <<t, k>> \notin txn[p].wrote}
           mine == DOMAIN txn[p].view[t] \ kept
           theirs == DOMAIN docs[t] \cap kept
<1>1. /\ DOMAIN docs' = DOMAIN docs
      /\ docs'[t] = Over(Restrict(docs[t], theirs), Restrict(txn[p].view[t], mine))
  BY DEF Commit
<1>2. mine \cap kept = {} /\ theirs \subseteq kept
  OBVIOUS
<1> HIDE DEF kept, mine, theirs
<1>3. /\ DOMAIN docs'[t] = theirs \cup mine
      /\ \A k \in theirs : docs'[t][k] = docs[t][k]
      /\ \A k \in mine \ theirs : docs'[t][k] = txn[p].view[t][k]
  BY <1>1 DEF Over, Restrict
<1>4. \A k \in theirs \cup mine :
        docs'[t][k] = IF k \in kept THEN docs[t][k] ELSE txn[p].view[t][k]
  BY <1>2, <1>3
<1> QED
  BY <1>1, <1>3, <1>4 DEF kept, mine, theirs

LEMMA StepWrittenByCommit == RunInv /\ DataInv /\ [Next]_vars => [WrittenByCommit]_vars
<1> SUFFICES ASSUME RunInv, DataInv, [Next]_vars,
                    NEW p \in Proc, prog[p].atomic, docs' # docs, Moved(p)
             PROVE  /\ At(p, "exit")
                    /\ \A t \in DOMAIN docs : \A k \in Key : <<t, k>> \in txn[p].wrote =>
                         /\ (k \in DOMAIN docs'[t]) = (k \in DOMAIN txn[p].view[t])
                         /\ k \in DOMAIN docs'[t] => docs'[t][k] = txn[p].view[t][k]
  BY DEF WrittenByCommit
<1>1. Commit(p)
  BY BlockStep
<1>2. ASSUME NEW t \in DOMAIN docs, NEW k \in Key, <<t, k>> \in txn[p].wrote
      PROVE  /\ (k \in DOMAIN docs'[t]) = (k \in DOMAIN txn[p].view[t])
             /\ k \in DOMAIN docs'[t] => docs'[t][k] = txn[p].view[t][k]
  <2> DEFINE kept == {l \in Key : <<t, l>> \notin txn[p].wrote}
             mine == DOMAIN txn[p].view[t] \ kept
  <2>1. k \notin kept
    BY <1>2
  <2>2. /\ DOMAIN docs'[t] = (DOMAIN docs[t] \cap kept) \cup mine
        /\ \A l \in DOMAIN docs'[t] :
             docs'[t][l] = IF l \in kept THEN docs[t][l] ELSE txn[p].view[t][l]
    BY <1>1, CommitMerges
  <2> HIDE DEF kept
  <2> QED
    BY <2>1, <2>2
<1> QED
  BY <1>1, <1>2 DEF Commit

-----------------------------------------------------------------------------
(* Embedded instances.                                                     *)

\* What the instance of p looks like once it was prepared.
LEMMA PreparedShape ==
  ASSUME RunInv, DataInv, NEW p \in Proc, run[p].at # 0
  PROVE  /\ PreparedBy(p) \in [adding : BOOLEAN, created : Nat]
         /\ ~PreparedBy(p).adding /\ PreparedBy(p).created # 0
         /\ ~emb[p].adding => PreparedBy(p) = emb[p]
<1>1. emb[p] \in [adding : BOOLEAN, created : Nat] /\ (~emb[p].adding => emb[p].created # 0)
  BY DEF DataInv
<1>2. run[p].at \in Nat
  BY DEF RunInv
<1>3. PreparedBy(p) = [adding |-> FALSE,
                       created |-> IF emb[p].adding THEN run[p].at ELSE emb[p].created]
  BY DEF PreparedBy, Prepared
<1>4. ~emb[p].adding => PreparedBy(p) = emb[p]
  BY <1>1, <1>3
<1> QED
  BY <1>1, <1>2, <1>3, <1>4

\* GoodImage, of instances that change.
GoodWith(e, image) ==
  /\ Top \in DOMAIN image
  /\ \A k \in DOMAIN image[Top] : LET d == image[Top][k] IN
       /\ {"of", "created"} \subseteq DOMAIN d
       /\ d.of # None => d.of \in Proc /\ ~e[d.of].adding /\ d.created = e[d.of].created

LEMMA GoodImages ==
  ASSUME chain' = chain, NEW image
  PROVE  /\ GoodImage(image) <=> GoodWith(emb, image)
         /\ GoodImage(docs)' <=> GoodWith(emb', docs')
         /\ \A p \in Proc : GoodImage(txn[p].view)' <=> GoodWith(emb', txn'[p].view)
  BY DEF GoodImage, GoodWith, Top

\* Preparing an instance spoils no image: it has no documents before.
LEMMA PreparedKeepsGood ==
  ASSUME RunInv, DataInv, NEW p \in Proc, run[p].at # 0,
         emb' \in {emb, [emb EXCEPT ![p] = PreparedBy(p)]},
         NEW image, GoodWith(emb, image)
  PROVE  GoodWith(emb', image)
<1>1. CASE emb' = emb
  BY <1>1
<1>2. CASE emb' = [emb EXCEPT ![p] = PreparedBy(p)]
  <2>1. DOMAIN emb = Proc
    BY DEF DataInv
  <2>2. \A q \in Proc : ~emb[q].adding => emb'[q] = emb[q]
    BY <1>2, <2>1, PreparedShape
  <2> QED
    BY <2>2 DEF GoodWith
<1> QED
  BY <1>1, <1>2

LEMMA DerivedKeepsGood ==
  ASSUME RunInv, DataInv, NEW p \in Proc, run[p].at # 0,
         emb' \in {emb, [emb EXCEPT ![p] = PreparedBy(p)]},
         NEW old, GoodWith(emb, old), NEW new, Derived(p, old, new)
  PROVE  GoodWith(emb', new)
<1>1. GoodWith(emb', old)
  BY PreparedKeepsGood
<1>2. DOMAIN new = DOMAIN old
  BY DEF Derived
<1>3. ASSUME NEW k \in DOMAIN new[Top], new[Top][k].of # None
      PROVE  /\ new[Top][k].of \in Proc /\ ~emb'[new[Top][k].of].adding
             /\ new[Top][k].created = emb'[new[Top][k].of].created
  <2>1. CASE /\ k \in DOMAIN old[Top]
             /\ new[Top][k].of = old[Top][k].of
             /\ new[Top][k].created = old[Top][k].created
    BY <1>1, <1>3, <2>1 DEF GoodWith
  <2>2. CASE /\ new[Top][k].of = p
             /\ new[Top][k].created = PreparedBy(p).created
             /\ emb' = [emb EXCEPT ![p] = PreparedBy(p)]
    <3>1. emb'[p] = PreparedBy(p)
      BY <2>2 DEF DataInv
    <3> QED
      BY <2>2, <3>1, PreparedShape
  <2> QED
    BY <2>1, <2>2 DEF Derived
<1> QED
  BY <1>1, <1>2, <1>3 DEF GoodWith, Derived

\* DataInv in the state after a step.
LEMMA DataInvAfter ==
  ASSUME chain' = chain,
         emb' \in [Proc -> [adding : BOOLEAN, created : Nat]],
         \A p \in Proc : ~emb'[p].adding => emb'[p].created # 0,
         GoodWith(emb', docs'),
         \A p \in Proc : txn'[p].open => GoodWith(emb', txn'[p].view)
  PROVE  DataInv'
  BY GoodImages DEF DataInv

LEMMA OutcomeData ==
  ASSUME RunInv, DataInv, NEW p \in Proc, Outcome(p)
  PROVE  DataInv'
<1>1. /\ chain' = chain /\ emb' \in {emb, [emb EXCEPT ![p] = PreparedBy(p)]}
      /\ run[p].at # 0
  BY DEF Outcome, RunInv
<1>2. /\ GoodWith(emb, docs)
      /\ \A q \in Proc : txn[q].open => GoodWith(emb, txn[q].view)
  BY <1>1, GoodImages DEF DataInv
<1>3. /\ GoodWith(emb', docs)
      /\ \A q \in Proc : txn[q].open => GoodWith(emb', txn[q].view)
  BY <1>1, <1>2, PreparedKeepsGood
<1>4. /\ emb' \in [Proc -> [adding : BOOLEAN, created : Nat]]
      /\ \A q \in Proc : ~emb'[q].adding => emb'[q].created # 0
  BY <1>1, PreparedShape DEF DataInv
<1>5. /\ DOMAIN txn = Proc /\ "open" \in DOMAIN txn[p] /\ txn[p].open \in BOOLEAN
      /\ txn[p].open => {"view", "wrote"} \subseteq DOMAIN txn[p]
  BY DEF RunInv
<1>6. CASE docs' = docs /\ txn' = txn
  BY <1>1, <1>3, <1>4, <1>6, DataInvAfter
<1>7. CASE \E cause : Raises(p, cause)
  <2>1. docs' = docs /\ txn' = [txn EXCEPT ![p] = NoTxn]
    BY <1>7 DEF Raises
  <2>2. \A q \in Proc : txn'[q].open => txn[q].open /\ txn'[q].view = txn[q].view
    BY <1>5, <2>1, NoTxnShape
  <2> QED
    BY <1>1, <1>3, <1>4, <2>1, <2>2, DataInvAfter
<1>8. CASE Sent(p)
  <2>1. PICK verb, image, targets, mine :
          Derived(p, Image(p, verb), image) /\ Execute(p, verb, image, targets)
    BY <1>8 DEF Sent
  <2>2. GoodWith(emb, Image(p, verb))
    BY <1>1, ImageIsGood, GoodImages
  <2>3. GoodWith(emb', image)
    BY <1>1, <2>1, <2>2, DerivedKeepsGood
  <2>4. CASE txn[p].open
    <3>1. /\ docs' = docs
          /\ txn' = [txn EXCEPT ![p].view = image, ![p].wrote = @ \cup targets]
      BY <2>1, <2>4 DEF Execute, Session
    <3>2. /\ txn'[p].view = image
          /\ \A q \in Proc \ {p} : txn'[q] = txn[q]
      BY <1>5, <2>4, <3>1
    <3> QED
      BY <1>1, <1>3, <1>4, <2>3, <3>1, <3>2, DataInvAfter
  <2>5. CASE ~txn[p].open
    <3>1. docs' = image /\ txn' = txn
      BY <2>1, <2>5 DEF Execute, Session
    <3> QED
      BY <1>1, <1>3, <1>4, <2>3, <3>1, DataInvAfter
  <2> QED
    BY <1>5, <2>4, <2>5
<1> QED
  BY <1>6, <1>7, <1>8 DEF Outcome, Stepped

LEMMA StepDataInv == RunInv /\ DataInv /\ [Next]_vars => DataInv'
<1> SUFFICES ASSUME RunInv, DataInv, [Next]_vars PROVE DataInv'
  OBVIOUS
<1>2. ASSUME chain' = chain
      PROVE  /\ GoodWith(emb, docs)
             /\ \A q \in Proc : txn[q].open => GoodWith(emb, txn[q].view)
  BY <1>2, GoodImages DEF DataInv
<1>3. ASSUME NEW p \in Proc, Begin(p) PROVE DataInv'
  <2>1. chain' = chain /\ emb' = emb /\ docs' = docs
    BY <1>3 DEF Begin, Fixed
  <2>2. \A q \in Proc \ {p} : txn'[q] = txn[q]
    BY <1>3, BeginRuns
  <2>3. txn'[p].open => GoodWith(emb', txn'[p].view)
    <3>1. CASE txn'[p] = txn[p]
      BY <1>2, <2>1, <3>1
    <3>2. CASE txn'[p] = [open |-> TRUE, base |-> docs, view |-> docs, wrote |-> {}]
      <4>1. txn'[p].view = docs
        BY <3>2
      <4> QED
        BY <1>2, <2>1, <4>1
    <3> QED
      BY <1>3, <3>1, <3>2, BeginRuns
  <2>4. \A q \in Proc : txn'[q].open => GoodWith(emb', txn'[q].view)
    BY <1>2, <2>1, <2>2, <2>3
  <2> QED
    BY <1>2, <2>1, <2>4, DataInvAfter DEF DataInv
<1>4. ASSUME NEW p \in Proc, Commit(p) PROVE DataInv'
  <2>1. chain' = chain /\ emb' = emb /\ txn' = [txn EXCEPT ![p] = NoTxn]
    BY <1>4 DEF Commit, Fixed
  <2>2. \A q \in Proc : txn'[q].open => txn[q].open /\ txn'[q] = txn[q]
    BY <2>1, NoTxnShape DEF RunInv
  <2>3. txn[p].open
    BY <1>4 DEF RunInv, Commit, At
  <2>4. GoodWith(emb, docs) /\ GoodWith(emb, txn[p].view)
    BY <1>2, <2>1, <2>3
  <2>5. GoodWith(emb, docs')
    <3> DEFINE kept == {k \in Key : <<Top, k>> \notin txn[p].wrote}
               mine == DOMAIN txn[p].view[Top] \ kept
    <3>1. Top \in DOMAIN docs
      BY <2>4 DEF GoodWith
    <3>2. /\ DOMAIN docs' = DOMAIN docs
          /\ DOMAIN docs'[Top] = (DOMAIN docs[Top] \cap kept) \cup mine
          /\ \A k \in DOMAIN docs'[Top] :
               docs'[Top][k] = IF k \in kept THEN docs[Top][k] ELSE txn[p].view[Top][k]
      BY <1>4, <3>1, CommitMerges
    <3> HIDE DEF kept
    <3>3. \A k \in DOMAIN docs'[Top] :
            \/ k \in DOMAIN docs[Top] /\ docs'[Top][k] = docs[Top][k]
            \/ k \in DOMAIN txn[p].view[Top] /\ docs'[Top][k] = txn[p].view[Top][k]
      BY <3>2
    <3> QED
      BY <2>4, <3>1, <3>2, <3>3 DEF GoodWith
  <2>6. \A q \in Proc : txn'[q].open => GoodWith(emb', txn'[q].view)
    BY <1>2, <2>1, <2>2
  <2> QED
    BY <2>1, <2>5, <2>6, DataInvAfter DEF DataInv
<1>5. CASE UNCHANGED vars
  <2>1. chain' = chain /\ emb' = emb /\ docs' = docs /\ txn' = txn
    BY <1>5 DEF vars
  <2> QED
    BY <1>2, <2>1, DataInvAfter DEF DataInv
<1>6. ASSUME NEW p \in Proc, Step(p) PROVE DataInv'
  BY <1>3, <1>4, <1>6, StepOutcome, OutcomeData
<1> QED
  BY <1>5, <1>6 DEF Next, AllDone

-----------------------------------------------------------------------------
(* The start.                                                              *)

LEMMA ChainFacts ==
  ASSUME NEW ch, IsChain(ch)
  PROVE  /\ Len(ch) \in Nat /\ DOMAIN ch = 1 .. Len(ch)
         /\ \A i, j \in DOMAIN ch : ch[i] = ch[j] => i = j
         /\ \A i \in DOMAIN ch : ch[i] \in Range(ch)
         /\ \A t \in Range(ch) : \E i \in DOMAIN ch : t = ch[i]
         /\ ch # <<>> => /\ 1 \in DOMAIN ch /\ Len(ch) \in DOMAIN ch
                         /\ Last(ch) = ch[Len(ch)] /\ Last(ch) \in Range(ch)
<1>1. ch \in Seq(Range(ch)) /\ Len(ch) \in Nat /\ DOMAIN ch = 1 .. Len(ch)
  BY DEF IsChain
<1>2. \A i, j \in DOMAIN ch : ch[i] = ch[j] => i = j
  BY DEF IsChain, IsInjective
<1>3. /\ \A i \in DOMAIN ch : ch[i] \in Range(ch)
      /\ \A t \in Range(ch) : \E i \in DOMAIN ch : t = ch[i]
  BY DEF Range
<1>4. ch # <<>> => 1 \in DOMAIN ch /\ Len(ch) \in DOMAIN ch
  BY <1>1
<1> QED
  BY <1>1, <1>2, <1>3, <1>4 DEF Last

LEMMA InitRunInv == Init => RunInv
<1> SUFFICES ASSUME Init PROVE RunInv
  OBVIOUS
<1>1. PICK s \in Programs :
        /\ prog = s.progs
        /\ txn = [p \in Proc |-> NoTxn]
        /\ run = [p \in Proc |->
             [pc |-> IF s.progs[p].calls = <<>> THEN "done" ELSE "idle",
              at |-> 0, i |-> 1, ids |-> {}, rows |-> 0,
              outcome |-> "none", cause |-> "none", alone |-> FALSE, before |-> s.docs]]
  BY DEF Init
<1>2. ASSUME NEW p \in Proc
      PROVE  /\ {"pc", "at", "alone"} \subseteq DOMAIN run[p]
             /\ run[p].at = 0 /\ run[p].pc \in {"done", "idle"}
             /\ txn[p] = NoTxn /\ prog[p].atomic \in BOOLEAN
  BY <1>1, ProgramsAssumption
<1>3. DOMAIN run = Proc /\ DOMAIN txn = Proc
  BY <1>1
<1>4. \A p \in Proc : Runs(p)
  <2> TAKE p \in Proc
  <2>1. "open" \in DOMAIN txn[p] /\ txn[p].open \in BOOLEAN /\ ~txn[p].open
    BY <1>2, NoTxnShape
  <2>2. /\ {"pc", "at", "alone"} \subseteq DOMAIN run[p]
        /\ run[p].at = 0 /\ run[p].pc # "exit" /\ prog[p].atomic \in BOOLEAN
        /\ run[p].pc \in {"idle", "done"}
    BY <1>2
  <2> QED
    BY <2>1, <2>2 DEF Runs
<1> QED
  BY <1>3, <1>4 DEF RunInv, Runs

LEMMA InitDataInv == Init => DataInv
<1> SUFFICES ASSUME Init PROVE DataInv
  OBVIOUS
<1>1. PICK s \in Programs :
        /\ chain = s.chain /\ docs = s.docs
        /\ txn = [p \in Proc |-> NoTxn]
        /\ emb = [p \in Proc |-> [adding |-> TRUE, created |-> 0]]
  BY DEF Init
<1>2. /\ Top \in DOMAIN docs
      /\ \A k \in DOMAIN docs[Top] :
           docs[Top][k] \in [val : Val, of : {None}, created : {0}]
  <2>1. IsChain(chain) /\ chain # <<>> /\ DOMAIN docs = Range(chain)
    BY <1>1, ProgramsAssumption
  <2>2. Top \in DOMAIN docs
    BY <2>1, ChainFacts DEF Top
  <2> QED
    BY <1>1, <2>2, ProgramsAssumption
<1>3. GoodImage(docs)
  BY <1>2 DEF GoodImage
<1>4. /\ emb \in [Proc -> [adding : BOOLEAN, created : Nat]]
      /\ \A p \in Proc : emb[p].adding
  BY <1>1
<1>5. \A p \in Proc : ~txn[p].open
  BY <1>1, NoTxnShape
<1> QED
  BY <1>3, <1>4, <1>5 DEF DataInv

\* Whatever the documents of a block are, and however calls fail between them:
\* what the block wrote gets to the collections in the step that commits it.
THEOREM BlocksAreAtomicCorrect == Spec => BlocksAreAtomic
<1>1. Init => RunInv /\ DataInv
  BY InitRunInv, InitDataInv
<1>2. RunInv /\ DataInv /\ [Next]_vars => (RunInv /\ DataInv)' /\ [WrittenByCommit]_vars
  BY StepRunInv, StepDataInv, StepWrittenByCommit
<1> QED
  BY <1>1, <1>2, PTL DEF Spec, BlocksAreAtomic

\* All documents that hold an embedded instance have its time of creation, after any
\* failures, retries, rollbacks and moves to other documents.
THEOREM CreatedOnceCorrect == Spec => []CreatedOnce
<1>1. Init => RunInv /\ DataInv
  BY InitRunInv, InitDataInv
<1>2. RunInv /\ DataInv /\ [Next]_vars => (RunInv /\ DataInv)'
  BY StepRunInv, StepDataInv
<1>3. RunInv /\ DataInv => CreatedOnce
  <2> SUFFICES ASSUME DataInv,
                      NEW image \in {docs} \cup {txn[p].view : p \in {q \in Proc : txn[q].open}},
                      NEW k \in DOMAIN image[Top], image[Top][k].of # None
               PROVE  /\ image[Top][k].created # 0
                      /\ image[Top][k].created = emb[image[Top][k].of].created
    BY DEF CreatedOnce
  <2>1. GoodImage(image)
    BY DEF DataInv
  <2>2. PICK d : d = image[Top][k]
    OBVIOUS
  <2>3. d.of \in Proc /\ ~emb[d.of].adding /\ d.created = emb[d.of].created
    BY <2>1, <2>2 DEF GoodImage
  <2>4. emb[d.of].created # 0
    BY <2>3 DEF DataInv
  <2> QED
    BY <2>2, <2>3, <2>4
<1> QED
  BY <1>1, <1>2, <1>3, PTL DEF Spec

-----------------------------------------------------------------------------
(* What calls do to the tables.                                            *)

RunFields == {"pc", "at", "i", "ids", "rows", "outcome", "cause", "alone", "before"}

IsImage(ch, image) ==
  /\ DOMAIN image = Range(ch)
  /\ \A t \in DOMAIN image :
       /\ DOMAIN image[t] \subseteq Key
       /\ \A k \in DOMAIN image[t] : "val" \in DOMAIN image[t][k]

\* The commands of each call.
CallTyped(ch, c, r) ==
  \/ /\ r.pc \in {"update", "insert"} /\ c.op \in {"save", "create"} /\ r.i \in DOMAIN ch
     /\ r.pc = "update" /\ c.op = "create" => r.i # Len(ch)
  \/ r.pc = "insert_many" /\ c.op = "bulk"
  \/ r.pc \in {"select", "primary"} /\ c.op = "update"
  \/ r.pc = "related" /\ c.op = "update" /\ r.i \in DOMAIN c.related
  \/ r.pc = "collect" /\ c.op = "delete"
  \/ r.pc = "delete" /\ c.op = "delete" /\ r.i \in DOMAIN ch
  \/ r.pc \in {"idle", "exit", "done"}

\* The tables in which a call is done.
DoneTables(ch, c, r) ==
  CASE r.pc \in {"update", "insert"} -> {ch[j] : j \in 1 .. r.i - 1}
    [] r.pc = "related" -> {Last(ch)} \cup {c.related[j] : j \in 1 .. r.i - 1}
    [] r.pc = "delete" -> {ch[j] : j \in r.i + 1 .. Len(ch)}
    [] OTHER -> {}

Reached(ch, c, before, now, tables) ==
  \A t \in Range(ch) :
    Values(now)[t] = IF t \in tables THEN Meant(ch, c, before)[t] ELSE Values(before)[t]

Possible(ch, encrypts, c, r) == Whole(ch, r.before) /\ Allowed(ch, encrypts, c, r.before)
Chosen(ch, c, r) == Matching(r.before[Last(ch)], c.where)

\* A save() reaches its insert in a table without the key, if SQL allows the call.
SaveFits(ch, encrypts, c, r) ==
  r.pc = "insert" /\ Possible(ch, encrypts, c, r) => c.key \notin DOMAIN r.before[ch[r.i]]

UpdateFits(ch, c, r) ==
  /\ r.pc \in {"primary", "related"} /\ c.related # <<>> => r.ids = Chosen(ch, c, r)
  /\ r.pc = "related" /\ Whole(ch, r.before) =>
       \/ r.rows = Cardinality(Chosen(ch, c, r))
       \/ Last(ch) \notin DOMAIN c.sets /\ r.i = 1 /\ r.rows = 0

DeleteFits(ch, c, r) ==
  /\ r.pc = "collect" => r.rows = 0
  /\ r.pc = "delete" =>
       /\ r.ids = Chosen(ch, c, r)
       /\ Whole(ch, r.before) => r.rows = (Len(ch) - r.i) * Cardinality(Chosen(ch, c, r))

\* A call between two commands.
UnderWay(ch, encrypts, c, r, now) ==
  /\ r.pc \notin {"idle", "exit", "done"} /\ CallTyped(ch, c, r)
  /\ Reached(ch, c, r.before, now, DoneTables(ch, c, r))
  /\ SaveFits(ch, encrypts, c, r) /\ UpdateFits(ch, c, r) /\ DeleteFits(ch, c, r)

Settled(ch, c, r, now) ==
  /\ Reached(ch, c, r.before, now, Range(ch))
  /\ Whole(ch, r.before) => r.rows = MeantRows(ch, c, r.before)

CallHolds(ch, encrypts, c, r, now, atomic) ==
  \/ r.outcome = "none" /\ UnderWay(ch, encrypts, c, r, now)
  \/ r.outcome = "returned" /\ r.pc \in {"idle", "exit", "done"} /\ Settled(ch, c, r, now)
  \/ /\ r.outcome = "raised" /\ r.pc \in {"idle", "done"}
     /\ r.cause = "server" \/ ~Possible(ch, encrypts, c, r)
     /\ atomic \/ PartDone(ch, c, r.before, now)

\* Of a process with the program pr, the transaction tx and the collections ds: as long
\* as nobody else writes to what it sees, its call has done to it what it should.
CallState(ch, encrypts, pr, r, tx, ds) ==
  /\ DOMAIN r = RunFields
  /\ r.at \in 0 .. Len(pr.calls)
  /\ r.pc = "idle" => r.at # Len(pr.calls)
  /\ r.outcome # "none" => r.at # 0
  /\ r.at # 0 => CallTyped(ch, pr.calls[r.at], r)
  /\ IsImage(ch, r.before)
  /\ tx.open => pr.atomic /\ IsImage(ch, tx.view)
  /\ r.at # 0 /\ (tx.open \/ r.alone) =>
       CallHolds(ch, encrypts, pr.calls[r.at], r, IF tx.open THEN tx.view ELSE ds, pr.atomic)

IsProgram(ch, calls) ==
  calls \in Seq(Range(calls)) /\ \A i \in DOMAIN calls : IsCall(calls[i], ch)

\* Of all processes.
CallInv ==
  /\ IsChain(chain) /\ chain # <<>>
  /\ \A p \in Proc : IsProgram(chain, prog[p].calls)
  /\ IsImage(chain, docs)
  /\ \A p \in Proc : CallState(chain, encrypted, prog[p], run[p], txn[p], docs)

-----------------------------------------------------------------------------

LEMMA ValuesFacts ==
  ASSUME NEW x
  PROVE  /\ DOMAIN Values(x) = DOMAIN x
         /\ \A t \in DOMAIN x : /\ Values(x)[t] = [k \in DOMAIN x[t] |-> x[t][k].val]
                                /\ DOMAIN Values(x)[t] = DOMAIN x[t]
                                /\ \A k \in DOMAIN x[t] : Values(x)[t][k] = x[t][k].val
  BY DEF Values

LEMMA ValuesAt ==
  ASSUME NEW x, NEW t \in DOMAIN x
  PROVE  /\ DOMAIN Values(x)[t] = DOMAIN x[t]
         /\ \A k \in DOMAIN x[t] : Values(x)[t][k] = x[t][k].val
  BY DEF Values

LEMMA SameTable ==
  ASSUME NEW x, NEW y, NEW t \in DOMAIN x \cap DOMAIN y, Values(x)[t] = Values(y)[t]
  PROVE  /\ DOMAIN x[t] = DOMAIN y[t]
         /\ \A k \in DOMAIN y[t] : x[t][k].val = y[t][k].val
         /\ \A v : Matching(x[t], v) = Matching(y[t], v)
<1> DEFINE v == Values(x)[t]
<1>1. DOMAIN v = DOMAIN x[t] /\ \A k \in DOMAIN x[t] : v[k] = x[t][k].val
  BY ValuesAt
<1>2. DOMAIN v = DOMAIN y[t] /\ \A k \in DOMAIN y[t] : v[k] = y[t][k].val
  BY ValuesAt
<1> HIDE DEF v
<1>3. DOMAIN x[t] = DOMAIN y[t] /\ \A k \in DOMAIN y[t] : x[t][k].val = y[t][k].val
  BY <1>1, <1>2
<1> QED
  BY <1>3 DEF Matching

LEMMA SameValues ==
  ASSUME NEW x, NEW y, NEW t \in DOMAIN x \cap DOMAIN y, x[t] = y[t]
  PROVE  Values(x)[t] = Values(y)[t]
  BY DEF Values

LEMMA OverFacts ==
  ASSUME NEW new, NEW old
  PROVE  /\ DOMAIN Over(new, old) = DOMAIN new \cup DOMAIN old
         /\ \A k \in DOMAIN new : Over(new, old)[k] = new[k]
         /\ \A k \in DOMAIN old \ DOMAIN new : Over(new, old)[k] = old[k]
  BY DEF Over

\* Over() of values.
LEMMA OverValues ==
  ASSUME NEW new, NEW old
  PROVE  [k \in DOMAIN Over(new, old) |-> Over(new, old)[k].val]
           = Over([k \in DOMAIN new |-> new[k].val], [k \in DOMAIN old |-> old[k].val])
  BY DEF Over

LEMMA PutFacts ==
  ASSUME NEW ch, NEW x, IsImage(ch, x), NEW t \in Range(ch), NEW stored,
         DOMAIN stored \subseteq Key, \A k \in DOMAIN stored : "val" \in DOMAIN stored[k]
  PROVE  /\ IsImage(ch, Put(x, t, stored))
         /\ \A u \in Range(ch) \ {t} : Values(Put(x, t, stored))[u] = Values(x)[u]
         /\ Values(Put(x, t, stored))[t]
              = Over([k \in DOMAIN stored |-> stored[k].val], Values(x)[t])
<1> DEFINE y == Put(x, t, stored)
<1>1. DOMAIN x = Range(ch) /\ DOMAIN y = Range(ch)
  BY DEF IsImage, Put
<1>2. y[t] = Over(stored, x[t]) /\ \A u \in Range(ch) \ {t} : y[u] = x[u]
  BY <1>1 DEF Put
<1>3. IsImage(ch, y)
  <2>1. /\ DOMAIN y[t] = DOMAIN stored \cup DOMAIN x[t]
        /\ \A k \in DOMAIN y[t] : y[t][k] = IF k \in DOMAIN stored THEN stored[k] ELSE x[t][k]
    BY <1>2 DEF Over
  <2>2. \A u \in Range(ch) : DOMAIN x[u] \subseteq Key /\ \A k \in DOMAIN x[u] : "val" \in DOMAIN x[u][k]
    BY DEF IsImage
  <2> HIDE DEF y
  <2> QED
    BY <1>1, <1>2, <2>1, <2>2 DEF IsImage
<1> HIDE DEF y
<1>4. ASSUME NEW u \in Range(ch) \ {t} PROVE Values(y)[u] = Values(x)[u]
  BY <1>1, <1>2, SameValues
<1>5. Values(y)[t] = Over([k \in DOMAIN stored |-> stored[k].val], Values(x)[t])
  <2> DEFINE new == [k \in DOMAIN stored |-> stored[k].val]
             old == [k \in DOMAIN x[t] |-> x[t][k].val]
  <2>1. Values(x)[t] = old
    BY <1>1, ValuesFacts
  <2>2. Values(y)[t] = [k \in DOMAIN y[t] |-> y[t][k].val]
    BY <1>1, ValuesFacts
  <2>3. [k \in DOMAIN Over(stored, x[t]) |-> Over(stored, x[t])[k].val] = Over(new, old)
    BY OverValues
  <2>4. Values(y)[t] = [k \in DOMAIN Over(stored, x[t]) |-> Over(stored, x[t])[k].val]
    BY <1>2, <2>2
  <2> HIDE DEF new, old
  <2>5. Values(y)[t] = Over(new, Values(x)[t])
    BY <2>1, <2>3, <2>4
  <2> QED
    BY <2>5 DEF new
<1> QED
  BY <1>3, <1>4, <1>5 DEF y

LEMMA ResetFacts ==
  ASSUME NEW ch, NEW x, IsImage(ch, x), NEW t \in Range(ch), NEW keys, NEW val
  PROVE  /\ IsImage(ch, Reset(x, t, keys, val))
         /\ \A u \in Range(ch) \ {t} : Values(Reset(x, t, keys, val))[u] = Values(x)[u]
         /\ Values(Reset(x, t, keys, val))[t]
              = [k \in DOMAIN x[t] |-> IF k \in keys THEN val ELSE Values(x)[t][k]]
<1> DEFINE stored == [k \in keys \cap DOMAIN x[t] |-> [x[t][k] EXCEPT !.val = val]]
<1>1. t \in DOMAIN x /\ DOMAIN x[t] \subseteq Key /\ \A k \in DOMAIN x[t] : "val" \in DOMAIN x[t][k]
  BY DEF IsImage
<1>2. /\ DOMAIN stored = keys \cap DOMAIN x[t]
      /\ \A k \in DOMAIN stored : "val" \in DOMAIN stored[k] /\ stored[k].val = val
  BY <1>1
<1>3. DOMAIN stored \subseteq Key
  BY <1>1, <1>2
<1>4. Reset(x, t, keys, val) = Put(x, t, stored)
  BY DEF Reset
<1> HIDE DEF stored
<1>5. Over([k \in DOMAIN stored |-> stored[k].val], Values(x)[t])
        = [k \in DOMAIN x[t] |-> IF k \in keys THEN val ELSE Values(x)[t][k]]
  <2>1. DOMAIN Values(x)[t] = DOMAIN x[t]
    BY <1>1, ValuesFacts
  <2> QED
    BY <1>2, <2>1 DEF Over
<1>6. /\ IsImage(ch, Put(x, t, stored))
      /\ \A u \in Range(ch) \ {t} : Values(Put(x, t, stored))[u] = Values(x)[u]
      /\ Values(Put(x, t, stored))[t]
           = Over([k \in DOMAIN stored |-> stored[k].val], Values(x)[t])
  BY <1>2, <1>3, PutFacts
<1> QED
  BY <1>4, <1>5, <1>6

LEMMA WithoutFacts ==
  ASSUME NEW ch, NEW x, IsImage(ch, x), NEW t \in Range(ch), NEW keys
  PROVE  /\ IsImage(ch, Without(x, t, keys))
         /\ \A u \in Range(ch) \ {t} : Values(Without(x, t, keys))[u] = Values(x)[u]
         /\ Values(Without(x, t, keys))[t] = [k \in DOMAIN x[t] \ keys |-> Values(x)[t][k]]
<1> DEFINE y == Without(x, t, keys)
<1>1. DOMAIN x = Range(ch) /\ DOMAIN y = Range(ch)
  BY DEF IsImage, Without
<1>2. /\ y[t] = [k \in DOMAIN x[t] \ keys |-> x[t][k]]
      /\ \A u \in Range(ch) \ {t} : y[u] = x[u]
  BY <1>1 DEF Without, Restrict
<1>3. IsImage(ch, y)
  <2>1. \A u \in Range(ch) : DOMAIN x[u] \subseteq Key /\ \A k \in DOMAIN x[u] : "val" \in DOMAIN x[u][k]
    BY DEF IsImage
  <2> HIDE DEF y
  <2> QED
    BY <1>1, <1>2, <2>1 DEF IsImage
<1> HIDE DEF y
<1>4. ASSUME NEW u \in Range(ch) \ {t} PROVE Values(y)[u] = Values(x)[u]
  BY <1>1, <1>2, SameValues
<1>5. Values(y)[t] = [k \in DOMAIN x[t] \ keys |-> Values(x)[t][k]]
  <2>1. DOMAIN y[t] = DOMAIN x[t] \ keys /\ \A k \in DOMAIN y[t] : y[t][k] = x[t][k]
    BY <1>2
  <2>2. \A k \in DOMAIN x[t] : Values(x)[t][k] = x[t][k].val
    BY <1>1, ValuesAt
  <2>3. Values(y)[t] = [k \in DOMAIN y[t] |-> y[t][k].val]
    BY <1>1, ValuesFacts
  <2> QED
    BY <2>1, <2>2, <2>3
<1> QED
  BY <1>3, <1>4, <1>5 DEF y

-----------------------------------------------------------------------------
(* What a call does to its tables, one after the other.                    *)

LEMMA MeantUpdate ==
  ASSUME NEW ch, NEW c, NEW b, c.op = "update", NEW t \in DOMAIN b
  PROVE  Meant(ch, c, b)[t]
           = [k \in DOMAIN b[t] |->
                IF k \in Matching(b[Last(ch)], c.where) /\ t \in DOMAIN c.sets THEN c.sets[t]
                ELSE Values(b)[t][k]]
  BY DEF Meant

LEMMA MeantDelete ==
  ASSUME NEW ch, NEW c, NEW b, c.op = "delete", NEW t \in DOMAIN b
  PROVE  Meant(ch, c, b)[t]
           = [k \in DOMAIN b[t] \ Matching(b[Last(ch)], c.where) |-> Values(b)[t][k]]
  BY DEF Meant

LEMMA ReachedNext ==
  ASSUME NEW ch, NEW c, NEW b, NEW x, NEW y, NEW tables, NEW t,
         Reached(ch, c, b, x, tables),
         \A u \in Range(ch) \ {t} : Values(y)[u] = Values(x)[u],
         Values(y)[t] = Meant(ch, c, b)[t]
  PROVE  Reached(ch, c, b, y, tables \cup {t})
  BY DEF Reached

LEMMA ReachedAt ==
  ASSUME NEW ch, NEW c, NEW b, NEW x, NEW tables, NEW t \in Range(ch) \ tables,
         IsImage(ch, b), IsImage(ch, x), Reached(ch, c, b, x, tables)
  PROVE  /\ Values(x)[t] = Values(b)[t]
         /\ DOMAIN x[t] = DOMAIN b[t]
         /\ \A k \in DOMAIN b[t] : x[t][k].val = b[t][k].val
         /\ \A v : Matching(x[t], v) = Matching(b[t], v)
<1>1. Values(x)[t] = Values(b)[t]
  BY DEF Reached
<1>2. t \in DOMAIN x \cap DOMAIN b
  BY DEF IsImage
<1> QED
  BY <1>1, <1>2, SameTable

\* The keys that a call leaves in a table.
LEMMA MeantDomains ==
  ASSUME NEW ch, NEW c, NEW b, NEW t \in DOMAIN b
  PROVE  LET now == DOMAIN Meant(ch, c, b)[t] IN
         /\ c.op \in {"save", "create"} => now = DOMAIN b[t] \cup {c.key}
         /\ c.op = "update" => now = DOMAIN b[t]
         /\ c.op = "delete" => now = DOMAIN b[t] \ Matching(b[Last(ch)], c.where)
<1> DEFINE now == DOMAIN Meant(ch, c, b)[t]
<1>1. DOMAIN Values(b)[t] = DOMAIN b[t]
  BY ValuesAt
<1>2. ASSUME c.op \in {"save", "create"} PROVE now = DOMAIN b[t] \cup {c.key}
  <2>1. PICK new : DOMAIN new = {c.key} /\ Meant(ch, c, b)[t] = Over(new, Values(b)[t])
    <3> DEFINE new == [k \in {c.key} |-> c.vals[t]]
    <3>1. Meant(ch, c, b)[t] = Over(new, Values(b)[t])
      BY <1>2 DEF Meant
    <3>2. DOMAIN new = {c.key}
      OBVIOUS
    <3> HIDE DEF new
    <3> QED
      BY <3>1, <3>2
  <2>2. DOMAIN Over(new, Values(b)[t]) = DOMAIN new \cup DOMAIN Values(b)[t]
    BY OverFacts
  <2> QED
    BY <1>1, <2>1, <2>2
<1>3. ASSUME c.op = "update" PROVE now = DOMAIN b[t]
  <2> DEFINE new == [k \in DOMAIN b[t] |->
                IF k \in Matching(b[Last(ch)], c.where) /\ t \in DOMAIN c.sets THEN c.sets[t]
                ELSE Values(b)[t][k]]
  <2>1. Meant(ch, c, b)[t] = new
    BY <1>3, MeantUpdate
  <2>2. DOMAIN new = DOMAIN b[t]
    OBVIOUS
  <2> QED
    BY <2>1, <2>2
<1>4. ASSUME c.op = "delete" PROVE now = DOMAIN b[t] \ Matching(b[Last(ch)], c.where)
  <2> DEFINE new == [k \in DOMAIN b[t] \ Matching(b[Last(ch)], c.where) |-> Values(b)[t][k]]
  <2>1. Meant(ch, c, b)[t] = new
    BY <1>4, MeantDelete
  <2>2. DOMAIN new = DOMAIN b[t] \ Matching(b[Last(ch)], c.where)
    OBVIOUS
  <2> QED
    BY <2>1, <2>2
<1> QED
  BY <1>2, <1>3, <1>4

LEMMA AgreesAt ==
  ASSUME NEW x, NEW values, NEW t \in DOMAIN x, NEW k,
         k \in DOMAIN Values(x)[t] <=> k \in DOMAIN values[t],
         k \in DOMAIN values[t] => Values(x)[t][k] = values[t][k]
  PROVE  Agrees(x, values, t, k)
<1>1. /\ DOMAIN Values(x)[t] = DOMAIN x[t]
      /\ \A l \in DOMAIN x[t] : Values(x)[t][l] = x[t][l].val
  BY ValuesAt
<1> QED
  BY <1>1 DEF Agrees

LEMMA AgreesIf ==
  ASSUME NEW x, NEW values, NEW t \in DOMAIN x, Values(x)[t] = values[t], NEW k
  PROVE  Agrees(x, values, t, k)
<1>1. /\ DOMAIN Values(x)[t] = DOMAIN x[t]
      /\ \A l \in DOMAIN x[t] : Values(x)[t][l] = x[t][l].val
  BY ValuesAt
<1> QED
  BY <1>1 DEF Agrees

LEMMA SameImage ==
  ASSUME NEW ch, NEW c, NEW b, NEW x, IsImage(ch, b), IsImage(ch, x),
         Reached(ch, c, b, x, {})
  PROVE  Values(x) = Values(b)
<1>1. \A t \in Range(ch) : Values(x)[t] = Values(b)[t]
  BY DEF Reached
<1>2. DOMAIN x = Range(ch) /\ DOMAIN b = Range(ch)
  BY DEF IsImage
<1>3. /\ Values(x) = [t \in Range(ch) |-> Values(x)[t]]
      /\ Values(b) = [t \in Range(ch) |-> Values(b)[t]]
  BY <1>2 DEF Values
<1> QED
  BY <1>1, <1>3

\* The order of the tables.
LEMMA OrderFacts ==
  ASSUME NEW ch, NEW c, IsChain(ch), ch # <<>>, IsCall(c, ch)
  PROVE  LET o == Order(ch, c) IN
         /\ Len(o) \in Nat /\ DOMAIN o = 1 .. Len(o)
         /\ \A i \in DOMAIN o : o[i] \in Range(ch)
         /\ \A i, j \in DOMAIN o : o[i] = o[j] => i = j
         /\ c.op = "update" =>
              /\ Len(o) = Len(c.related) + 1 /\ o[1] = Last(ch)
              /\ \A i \in 2 .. Len(o) : o[i] = c.related[i - 1]
         /\ c.op = "delete" => Len(o) = Len(ch) /\ \A i \in DOMAIN o : o[i] = ch[Len(ch) - i + 1]
         /\ c.op \notin {"update", "delete"} => o = ch
<1> DEFINE o == Order(ch, c)
<1>1. /\ Len(ch) \in Nat /\ DOMAIN ch = 1 .. Len(ch)
      /\ \A i, j \in DOMAIN ch : ch[i] = ch[j] => i = j
      /\ \A i \in DOMAIN ch : ch[i] \in Range(ch)
      /\ Last(ch) \in Range(ch)
  BY ChainFacts
<1>2. CASE c.op \notin {"update", "delete"}
  <2>1. o = ch
    BY <1>2 DEF Order
  <2> HIDE DEF o
  <2> QED
    BY <1>1, <1>2, <2>1 DEF o
<1>3. CASE c.op = "delete"
  <2>1. o = [i \in 1 .. Len(ch) |-> ch[Len(ch) - i + 1]]
    BY <1>3 DEF Order, Reverse
  <2>2. o \in Seq(Range(ch))
    <3>1. \A i \in 1 .. Len(ch) : Len(ch) - i + 1 \in 1 .. Len(ch)
      BY <1>1
    <3>2. \A i \in 1 .. Len(ch) : ch[Len(ch) - i + 1] \in Range(ch)
      BY <1>1, <3>1
    <3> QED
      BY <1>1, <2>1, <3>2
  <2>3. Len(o) = Len(ch)
    BY <1>1, <2>1, <2>2
  <2> HIDE DEF o
  <2>4. ASSUME NEW i \in DOMAIN o, NEW j \in DOMAIN o, o[i] = o[j] PROVE i = j
    <3>1. i \in 1 .. Len(ch) /\ j \in 1 .. Len(ch)
      BY <2>1, <2>4
    <3>2. Len(ch) - i + 1 \in 1 .. Len(ch) /\ Len(ch) - j + 1 \in 1 .. Len(ch)
      BY <1>1, <3>1
    <3>3. ch[Len(ch) - i + 1] = ch[Len(ch) - j + 1]
      BY <2>1, <2>4, <3>1
    <3>4. Len(ch) - i + 1 = Len(ch) - j + 1
      BY <1>1, <3>2, <3>3
    <3> QED
      BY <1>1, <3>1, <3>4
  <2>5. DOMAIN o = 1 .. Len(ch) /\ \A i \in DOMAIN o : o[i] = ch[Len(ch) - i + 1]
    BY <2>1
  <2>6. \A i \in DOMAIN o : o[i] \in Range(ch)
    BY <2>2, <2>3, <2>5
  <2> QED
    BY <1>1, <1>3, <2>3, <2>4, <2>5, <2>6 DEF o
<1>4. CASE c.op = "update"
  <2> DEFINE rs == c.related
  <2>1. /\ rs \in Seq(Range(rs)) /\ Range(rs) = DOMAIN c.sets \ {Last(ch)}
        /\ DOMAIN c.sets \subseteq Range(ch)
        /\ IsChain(rs)
    BY <1>4 DEF IsCall, IsChain
  <2>2. /\ Len(rs) \in Nat /\ DOMAIN rs = 1 .. Len(rs)
        /\ \A i, j \in DOMAIN rs : rs[i] = rs[j] => i = j
        /\ \A i \in DOMAIN rs : rs[i] \in Range(rs)
    BY <2>1, ChainFacts
  <2>3. \A i \in DOMAIN rs : rs[i] \in Range(ch) /\ rs[i] # Last(ch)
    BY <2>1, <2>2
  <2>4. o = <<Last(ch)>> \o rs
    BY <1>4 DEF Order
  <2> HIDE DEF rs
  <2>5. rs \in Seq(Range(ch))
    BY <2>1, <2>2, <2>3
  <2>6. <<Last(ch)>> \in Seq(Range(ch)) /\ Len(<<Last(ch)>>) = 1
    BY <1>1
  <2>7. /\ o \in Seq(Range(ch)) /\ Len(o) = Len(rs) + 1 /\ o[1] = Last(ch)
        /\ \A i \in 2 .. Len(o) : o[i] = rs[i - 1]
    <3> PICK own : own = Last(ch) /\ own \in Range(ch)
      BY <1>1
    <3>1. o = <<own>> \o rs
      BY <2>4
    <3> HIDE DEF o
    <3> QED
      BY <2>2, <2>5, <3>1
  <2> HIDE DEF o
  <2>8. Len(o) \in Nat /\ DOMAIN o = 1 .. Len(o)
    BY <2>7
  <2>9. ASSUME NEW i \in DOMAIN o, NEW j \in DOMAIN o, o[i] = o[j] PROVE i = j
    <3>1. i \in 1 .. Len(rs) + 1 /\ j \in 1 .. Len(rs) + 1
      BY <2>7, <2>8
    <3>2. \A l \in 2 .. Len(rs) + 1 : l - 1 \in DOMAIN rs /\ o[l] = rs[l - 1]
      BY <2>2, <2>7
    <3>3. CASE i = 1 /\ j = 1
      BY <3>3
    <3>4. CASE i = 1 /\ j # 1
      BY <2>2, <2>3, <2>7, <2>9, <3>1, <3>2, <3>4
    <3>5. CASE i # 1 /\ j = 1
      BY <2>2, <2>3, <2>7, <2>9, <3>1, <3>2, <3>5
    <3>6. CASE i # 1 /\ j # 1
      <4>1. i \in 2 .. Len(rs) + 1 /\ j \in 2 .. Len(rs) + 1
        BY <2>2, <3>1, <3>6
      <4>2. i - 1 = j - 1
        BY <2>2, <2>9, <3>2, <4>1
      <4> QED
        BY <4>1, <4>2
    <3> QED
      BY <3>3, <3>4, <3>5, <3>6
  <2>10. \A i \in DOMAIN o : o[i] \in Range(ch)
    BY <2>7
  <2> QED
    BY <1>4, <2>7, <2>8, <2>9, <2>10 DEF o, rs
<1> QED
  BY <1>2, <1>3, <1>4

\* The table that the next command writes to.
Current(ch, c, r) ==
  CASE r.pc = "related" -> c.related[r.i]
    [] r.pc = "primary" -> Last(ch)
    [] OTHER -> ch[r.i]

LEMMA SameRange ==
  ASSUME NEW f, NEW g, NEW A, NEW B,
         \A a \in A : \E b \in B : f[a] = g[b], \A b \in B : \E a \in A : f[a] = g[b]
  PROVE  {f[a] : a \in A} = {g[b] : b \in B}
  OBVIOUS

\* A call is done in the first tables, and goes on with the next one.
LEMMA DoneInOrder ==
  ASSUME NEW ch, NEW c, NEW r, IsChain(ch), ch # <<>>, IsCall(c, ch), CallTyped(ch, c, r),
         r.pc \notin {"idle", "exit", "done"}
  PROVE  \E n \in Nat : LET o == Order(ch, c) IN
           /\ n <= Len(o)
           /\ DoneTables(ch, c, r) = {o[m] : m \in 1 .. n}
           /\ r.pc \in {"update", "insert", "primary", "related", "delete"} =>
                n + 1 \in DOMAIN o /\ Current(ch, c, r) = o[n + 1]
<1> DEFINE o == Order(ch, c)
           Writing == {"update", "insert", "primary", "related", "delete"}
<1>1. /\ Len(o) \in Nat /\ DOMAIN o = 1 .. Len(o)
      /\ c.op = "update" =>
           /\ Len(o) = Len(c.related) + 1 /\ o[1] = Last(ch)
           /\ \A i \in 2 .. Len(o) : o[i] = c.related[i - 1]
      /\ c.op = "delete" => Len(o) = Len(ch) /\ \A i \in DOMAIN o : o[i] = ch[Len(ch) - i + 1]
      /\ c.op \notin {"update", "delete"} => o = ch
  BY OrderFacts
<1>2. Len(ch) \in Nat /\ DOMAIN ch = 1 .. Len(ch) /\ 1 \in DOMAIN ch
  BY ChainFacts
<1> HIDE DEF o
<1>3. SUFFICES \E n \in Nat :
           /\ n <= Len(o)
           /\ DoneTables(ch, c, r) = {o[m] : m \in 1 .. n}
           /\ r.pc \in Writing => n + 1 \in DOMAIN o /\ Current(ch, c, r) = o[n + 1]
  BY DEF o
<1>4. CASE r.pc \in {"update", "insert"}
  <2>1. c.op \in {"save", "create"} /\ r.i \in 1 .. Len(ch)
    BY <1>2, <1>4 DEF CallTyped
  <2>2. DoneTables(ch, c, r) = {ch[m] : m \in 1 .. r.i - 1} /\ Current(ch, c, r) = ch[r.i]
    BY <1>4 DEF DoneTables, Current
  <2>3. PICK n \in Nat : n = r.i - 1
    BY <1>2, <2>1
  <2>4. n <= Len(ch) /\ n + 1 \in DOMAIN ch /\ n + 1 = r.i
    BY <1>2, <2>1, <2>3
  <2>5. o = ch
    BY <1>1, <2>1
  <2> QED
    BY <2>2, <2>3, <2>4, <2>5
<1>5. CASE r.pc = "related"
  <2>1. c.op = "update" /\ IsChain(c.related)
    BY <1>5 DEF CallTyped, IsCall
  <2>2. Len(c.related) \in Nat /\ DOMAIN c.related = 1 .. Len(c.related)
    BY <2>1, ChainFacts
  <2>3. PICK l \in Nat : l = Len(c.related)
    BY <2>2
  <2>4. r.i \in 1 .. l
    BY <1>5, <2>2, <2>3 DEF CallTyped
  <2>5. /\ DoneTables(ch, c, r) = {Last(ch)} \cup {c.related[m] : m \in 1 .. r.i - 1}
        /\ Current(ch, c, r) = c.related[r.i]
    BY <1>5 DEF DoneTables, Current
  <2>6. PICK n \in Nat : n = r.i /\ n \in 1 .. l
    BY <2>4
  <2>7. /\ Len(o) = l + 1 /\ DOMAIN o = 1 .. l + 1 /\ o[1] = Last(ch)
        /\ \A m \in 2 .. l + 1 : o[m] = c.related[m - 1]
    BY <1>1, <2>1, <2>3
  <2>8. n <= Len(o) /\ n + 1 \in DOMAIN o /\ o[n + 1] = c.related[n]
    <3>1. n + 1 \in 2 .. l + 1 /\ (n + 1) - 1 = n
      BY <2>6
    <3>2. o[n + 1] = c.related[n]
      BY <2>7, <3>1
    <3> QED
      BY <2>6, <2>7, <3>2
  <2>9. {o[m] : m \in 1 .. n} = {Last(ch)} \cup {c.related[m] : m \in 1 .. n - 1}
    <3>1. ASSUME NEW m \in 2 .. n PROVE m - 1 \in 1 .. n - 1 /\ o[m] = c.related[m - 1]
      BY <2>6, <2>7
    <3>2. ASSUME NEW m \in 1 .. n - 1 PROVE \E j \in 1 .. n : o[j] = c.related[m]
      <4>1. PICK j \in Nat : j = m + 1 /\ j - 1 = m
        OBVIOUS
      <4>2. j \in 2 .. l + 1 /\ j \in 1 .. n
        BY <2>6, <4>1
      <4> QED
        BY <2>7, <4>1, <4>2
    <3>3. 1 \in 1 .. n /\ \A m \in 1 .. n : m = 1 \/ m \in 2 .. n
      BY <2>6
    <3> QED
      BY <2>7, <3>1, <3>2, <3>3
  <2> QED
    BY <2>5, <2>6, <2>8, <2>9
<1>6. CASE r.pc = "primary"
  <2>1. c.op = "update" /\ IsChain(c.related)
    BY <1>6 DEF CallTyped, IsCall
  <2>2. PICK l \in Nat : l = Len(c.related)
    BY <2>1, ChainFacts
  <2>3. Len(o) = l + 1 /\ DOMAIN o = 1 .. l + 1 /\ o[1] = Last(ch)
    BY <1>1, <2>1, <2>2
  <2>4. DoneTables(ch, c, r) = {} /\ Current(ch, c, r) = o[1]
    BY <1>6, <2>3 DEF DoneTables, Current
  <2>5. 0 <= Len(o) /\ 0 + 1 \in DOMAIN o /\ 0 + 1 = 1
    BY <2>3
  <2>6. {o[m] : m \in 1 .. 0} = {}
    OBVIOUS
  <2> QED
    BY <2>4, <2>5, <2>6
<1>7. CASE r.pc = "delete"
  <2>1. c.op = "delete" /\ r.i \in 1 .. Len(ch)
    BY <1>2, <1>7 DEF CallTyped
  <2>2. DoneTables(ch, c, r) = {ch[m] : m \in r.i + 1 .. Len(ch)} /\ Current(ch, c, r) = ch[r.i]
    BY <1>7 DEF DoneTables, Current
  <2>3. PICK n \in Nat : n = Len(ch) - r.i
    BY <1>2, <2>1
  <2>4. n <= Len(o) /\ n + 1 \in DOMAIN o /\ o[n + 1] = ch[r.i]
    <3>1. PICK l, i : l = Len(ch) /\ i = r.i
      OBVIOUS
    <3>2. l \in Nat /\ i \in 1 .. l /\ n = l - i
      BY <1>2, <2>1, <2>3, <3>1
    <3>3. n + 1 \in 1 .. l /\ l - (n + 1) + 1 = i /\ n <= l
      BY <3>2
    <3>4. Len(o) = l /\ DOMAIN o = 1 .. l /\ \A m \in DOMAIN o : o[m] = ch[l - m + 1]
      BY <1>1, <2>1, <3>1
    <3>5. o[n + 1] = ch[l - (n + 1) + 1]
      BY <3>3, <3>4
    <3> QED
      BY <3>1, <3>3, <3>4, <3>5
  <2>5. {o[m] : m \in 1 .. n} = {ch[m] : m \in r.i + 1 .. Len(ch)}
    <3>0. PICK l \in Nat : l = Len(ch)
      BY <1>2
    <3>1. PICK q \in Nat : l = Len(ch) /\ q = r.i /\ q \in 1 .. l /\ n = l - q
      BY <2>1, <2>3, <3>0
    <3>2. \A m \in 1 .. l : o[m] = ch[l - m + 1]
      BY <1>1, <2>1, <3>0
    <3>3. ASSUME NEW m \in 1 .. n PROVE \E j \in q + 1 .. l : o[m] = ch[j]
      <4>1. l - m + 1 \in q + 1 .. l /\ m \in 1 .. l
        BY <3>1
      <4> QED
        BY <3>2, <4>1
    <3>4. ASSUME NEW m \in q + 1 .. l PROVE \E j \in 1 .. n : o[j] = ch[m]
      <4>1. PICK j \in 1 .. n : j \in 1 .. l /\ l - j + 1 = m
        <5>1. /\ l - m + 1 \in 1 .. n /\ l - m + 1 \in 1 .. l
              /\ l - (l - m + 1) + 1 = m
          BY <3>1
        <5> QED
          BY <5>1
      <4>2. o[j] = ch[l - j + 1]
        BY <3>2, <4>1
      <4> QED
        BY <4>1, <4>2
    <3>5. {o[m] : m \in 1 .. n} = {ch[m] : m \in q + 1 .. l}
      <4>1. PICK A, B : A = 1 .. n /\ B = q + 1 .. l
        OBVIOUS
      <4>2. /\ \A a \in A : \E j \in B : o[a] = ch[j]
            /\ \A j \in B : \E a \in A : o[a] = ch[j]
        BY <3>3, <3>4, <4>1
      <4>3. {o[a] : a \in A} = {ch[j] : j \in B}
        BY <4>2, SameRange
      <4> QED
        BY <4>1, <4>3
    <3> QED
      BY <3>1, <3>5
  <2> QED
    BY <2>2, <2>3, <2>4, <2>5
<1>8. CASE r.pc \in {"insert_many", "select", "collect"}
  <2>1. DoneTables(ch, c, r) = {} /\ r.pc \notin Writing
    BY <1>8 DEF DoneTables
  <2>2. {o[m] : m \in 1 .. 0} = {}
    OBVIOUS
  <2>3. PICK l \in Nat : l = Len(o)
    BY <1>1
  <2>4. 0 <= Len(o)
    BY <2>3
  <2> QED
    BY <2>1, <2>2, <2>4
<1> QED
  BY <1>4, <1>5, <1>6, <1>7, <1>8 DEF CallTyped

\* After some more of the next table, at most.
LEMMA OrderIsKept ==
  ASSUME NEW ch, NEW c, NEW b, NEW x, NEW y, NEW n \in Nat,
         IsChain(ch), ch # <<>>, IsCall(c, ch), IsImage(ch, b), IsImage(ch, y),
         n <= Len(Order(ch, c)),
         Reached(ch, c, b, x, {Order(ch, c)[m] : m \in 1 .. n}),
         \A m \in DOMAIN Order(ch, c) :
           m # n + 1 => Values(y)[Order(ch, c)[m]] = Values(x)[Order(ch, c)[m]]
  PROVE  \A i, j \in DOMAIN Order(ch, c) :
           i < j /\ Values(y)[Order(ch, c)[j]] # Values(b)[Order(ch, c)[j]] =>
             \A k \in Key : Agrees(y, Meant(ch, c, b), Order(ch, c)[i], k)
<1> DEFINE o == Order(ch, c)
           tables == {o[m] : m \in 1 .. n}
<1>1. /\ Len(o) \in Nat /\ DOMAIN o = 1 .. Len(o)
      /\ \A i \in DOMAIN o : o[i] \in Range(ch)
      /\ \A i, j \in DOMAIN o : o[i] = o[j] => i = j
  BY OrderFacts
<1>2. /\ Reached(ch, c, b, x, tables) /\ n <= Len(o)
      /\ \A m \in DOMAIN o : m # n + 1 => Values(y)[o[m]] = Values(x)[o[m]]
  OBVIOUS
<1> HIDE DEF o
<1>3. SUFFICES ASSUME NEW i \in DOMAIN o, NEW j \in DOMAIN o, i < j,
                      Values(y)[o[j]] # Values(b)[o[j]], NEW k \in Key
               PROVE  Agrees(y, Meant(ch, c, b), o[i], k)
  BY DEF o
<1>4. j <= n + 1
  <2> SUFFICES ASSUME ~(j <= n + 1) PROVE FALSE
    OBVIOUS
  <2>1. o[j] \notin tables
    <3>1. \A m \in 1 .. n : m \in DOMAIN o /\ m # j
      BY <1>1, <1>2
    <3> QED
      BY <1>1, <3>1
  <2>2. Values(x)[o[j]] = Values(b)[o[j]]
    BY <1>1, <1>2, <2>1 DEF Reached
  <2>3. j # n + 1
    BY <1>1
  <2> QED
    BY <1>2, <1>3, <2>2, <2>3
<1>5. i \in 1 .. n /\ i # n + 1
  BY <1>1, <1>3, <1>4
<1>6. Values(y)[o[i]] = Meant(ch, c, b)[o[i]]
  <2>1. o[i] \in tables /\ o[i] \in Range(ch)
    BY <1>1, <1>5
  <2>2. Values(x)[o[i]] = Meant(ch, c, b)[o[i]]
    BY <1>2, <2>1 DEF Reached
  <2> QED
    BY <1>2, <1>5, <2>2
<1>7. o[i] \in DOMAIN y
  BY <1>1 DEF IsImage
<1> QED
  BY <1>6, <1>7, AgreesIf

\* The table that is written next is as before.
LEMMA CurrentIsNext ==
  ASSUME NEW ch, NEW encrypts, NEW c, NEW r, NEW x,
         IsChain(ch), ch # <<>>, IsCall(c, ch), IsImage(ch, r.before), IsImage(ch, x),
         UnderWay(ch, encrypts, c, r, x),
         r.pc \in {"update", "insert", "primary", "related", "delete"}
  PROVE  LET t == Current(ch, c, r) IN
         /\ t \in Range(ch)
         /\ Values(x)[t] = Values(r.before)[t]
         /\ DOMAIN x[t] = DOMAIN r.before[t]
         /\ \A v : Matching(x[t], v) = Matching(r.before[t], v)
<1> DEFINE o == Order(ch, c)
           t == Current(ch, c, r)
           tables == DoneTables(ch, c, r)
           b == r.before
<1>1. CallTyped(ch, c, r) /\ Reached(ch, c, b, x, tables)
  BY DEF UnderWay
<1>2. PICK n \in Nat : tables = {o[m] : m \in 1 .. n} /\ n + 1 \in DOMAIN o /\ t = o[n + 1]
  BY <1>1, DoneInOrder
<1>3. /\ Len(o) \in Nat /\ DOMAIN o = 1 .. Len(o)
      /\ \A i \in DOMAIN o : o[i] \in Range(ch)
      /\ \A i, j \in DOMAIN o : o[i] = o[j] => i = j
  BY OrderFacts
<1> HIDE DEF o, t, tables, b
<1>4. t \in Range(ch) \ tables
  <2>1. \A m \in 1 .. n : m \in DOMAIN o /\ m # n + 1
    BY <1>2, <1>3
  <2> QED
    BY <1>2, <1>3, <2>1
<1>5. IsImage(ch, b)
  BY DEF b
<1>6. /\ Values(x)[t] = Values(b)[t] /\ DOMAIN x[t] = DOMAIN b[t]
      /\ \A v : Matching(x[t], v) = Matching(b[t], v)
  BY <1>1, <1>4, <1>5, ReachedAt
<1> QED
  BY <1>4, <1>6 DEF t, b

\* What is done in that order leaves no child without its parents.
LEMMA PartIsWhole ==
  ASSUME NEW ch, NEW c, NEW b, NEW y, IsChain(ch), ch # <<>>, IsCall(c, ch),
         c.op \in {"save", "create", "bulk", "update", "delete"},
         IsImage(ch, b), IsImage(ch, y), Whole(ch, b),
         \A t \in DOMAIN b : \A k \in Key :
           Agrees(y, Values(b), t, k) \/ Agrees(y, Meant(ch, c, b), t, k),
         \A i, j \in DOMAIN Order(ch, c) :
           i < j /\ Values(y)[Order(ch, c)[j]] # Values(b)[Order(ch, c)[j]] =>
             \A k \in Key : Agrees(y, Meant(ch, c, b), Order(ch, c)[i], k)
  PROVE  Whole(ch, y)
<1> DEFINE meant == Meant(ch, c, b)
           o == Order(ch, c)
<1>1. /\ Len(ch) \in Nat /\ DOMAIN ch = 1 .. Len(ch)
      /\ \A i \in DOMAIN ch : ch[i] \in Range(ch)
  BY ChainFacts
<1>2. DOMAIN b = Range(ch) /\ DOMAIN y = Range(ch)
  BY DEF IsImage
<1>3. ASSUME NEW t \in Range(ch)
      PROVE  /\ DOMAIN Values(b)[t] = DOMAIN b[t] /\ DOMAIN Values(y)[t] = DOMAIN y[t]
             /\ DOMAIN y[t] \subseteq Key
  BY <1>2, ValuesAt DEF IsImage
<1>4. ASSUME NEW t \in Range(ch), NEW k \in Key
      PROVE  /\ Agrees(y, Values(b), t, k) => (k \in DOMAIN y[t] <=> k \in DOMAIN b[t])
             /\ Agrees(y, meant, t, k) => (k \in DOMAIN y[t] <=> k \in DOMAIN meant[t])
             /\ Agrees(y, Values(b), t, k) \/ Agrees(y, meant, t, k)
  BY <1>2, <1>3 DEF Agrees
<1>5. ASSUME NEW t \in Range(ch)
      PROVE  /\ c.op \in {"save", "create"} => DOMAIN meant[t] = DOMAIN b[t] \cup {c.key}
             /\ c.op = "update" => DOMAIN meant[t] = DOMAIN b[t]
             /\ c.op = "delete" =>
                  DOMAIN meant[t] = DOMAIN b[t] \ Matching(b[Last(ch)], c.where)
  BY <1>2, MeantDomains
<1>6. /\ c.op = "delete" => /\ Len(o) = Len(ch) /\ DOMAIN o = 1 .. Len(o)
                            /\ \A i \in DOMAIN o : o[i] = ch[Len(ch) - i + 1]
      /\ c.op \in {"save", "create"} => o = ch
  BY OrderFacts
<1>7. ASSUME NEW i \in DOMAIN o, NEW j \in DOMAIN o, i < j,
             Values(y)[o[j]] # Values(b)[o[j]], NEW k \in Key
      PROVE  Agrees(y, meant, o[i], k)
  BY <1>7
<1> HIDE DEF meant, o
<1>8. SUFFICES ASSUME NEW h \in DOMAIN ch, NEW i \in DOMAIN ch, h < i, NEW k \in DOMAIN y[ch[i]]
               PROVE  k \in DOMAIN y[ch[h]]
  <2>1. \A h, i \in DOMAIN ch : h <= i => h = i \/ h < i
    BY <1>1
  <2> QED
    BY <1>8, <2>1 DEF Whole
<1>9. /\ ch[h] \in Range(ch) /\ ch[i] \in Range(ch) /\ k \in Key
      /\ DOMAIN b[ch[i]] \subseteq DOMAIN b[ch[h]]
  BY <1>1, <1>3, <1>8 DEF Whole
<1>10. CASE c.op \in {"save", "create"}
  <2>1. CASE k \in DOMAIN b[ch[i]]
    BY <1>4, <1>5, <1>9, <1>10, <2>1
  <2>2. CASE k \notin DOMAIN b[ch[i]]
    <3>1. Values(y)[ch[i]] # Values(b)[ch[i]]
      BY <1>3, <1>8, <1>9, <2>2
    <3>2. Agrees(y, meant, ch[h], k)
      BY <1>6, <1>7, <1>8, <1>9, <1>10, <3>1
    <3>3. k = c.key
      BY <1>4, <1>5, <1>8, <1>9, <1>10, <2>2
    <3> QED
      BY <1>4, <1>5, <1>9, <1>10, <3>2, <3>3
  <2> QED
    BY <2>1, <2>2
<1>11. CASE c.op = "bulk"
  <2>1. Len(ch) = 1
    BY <1>11 DEF IsCall
  <2> QED
    BY <1>1, <1>8, <2>1
<1>12. CASE c.op = "update"
  BY <1>4, <1>5, <1>8, <1>9, <1>12
<1>13. CASE c.op = "delete"
  <2> SUFFICES ASSUME k \notin DOMAIN y[ch[h]] PROVE FALSE
    OBVIOUS
  <2>1. k \in DOMAIN b[ch[i]] /\ k \in DOMAIN b[ch[h]]
    BY <1>4, <1>5, <1>8, <1>9, <1>13
  <2>2. k \notin DOMAIN meant[ch[h]]
    BY <1>4, <1>9, <2>1
  <2>3. k \notin DOMAIN meant[ch[i]]
    BY <1>5, <1>9, <1>13, <2>1, <2>2
  <2>4. Values(y)[ch[h]] # Values(b)[ch[h]]
    BY <1>3, <1>9, <2>1
  <2>5. PICK l \in Nat : l = Len(ch)
    BY <1>1
  <2>6. PICK f \in 1 .. l, g \in 1 .. l : f = l - i + 1 /\ g = l - h + 1 /\ f < g
    <3>1. h \in 1 .. l /\ i \in 1 .. l /\ h < i
      BY <1>1, <1>8, <2>5
    <3>2. l - i + 1 \in 1 .. l /\ l - h + 1 \in 1 .. l /\ l - i + 1 < l - h + 1
      BY <3>1
    <3> QED
      BY <3>2
  <2>7. l - f + 1 = i /\ l - g + 1 = h
    BY <1>1, <2>5, <2>6
  <2>8. f \in DOMAIN o /\ g \in DOMAIN o /\ o[f] = ch[l - f + 1] /\ o[g] = ch[l - g + 1]
    BY <1>6, <1>13, <2>5
  <2>9. Agrees(y, meant, ch[i], k)
    BY <1>7, <1>9, <2>4, <2>6, <2>7, <2>8
  <2> QED
    BY <1>4, <1>8, <1>9, <2>3, <2>9
<1> QED
  BY <1>10, <1>11, <1>12, <1>13

\* Every call is between two commands such a part.
LEMMA UnderWayIsPart ==
  ASSUME NEW ch, NEW encrypts, NEW c, NEW r, NEW x,
         IsChain(ch), ch # <<>>, IsCall(c, ch), IsImage(ch, r.before), IsImage(ch, x),
         UnderWay(ch, encrypts, c, r, x)
  PROVE  PartDone(ch, c, r.before, x)
<1> DEFINE b == r.before
           tables == DoneTables(ch, c, r)
<1>1. Reached(ch, c, b, x, tables)
  BY DEF UnderWay
<1>2. /\ DOMAIN b = Range(ch) /\ DOMAIN x = Range(ch)
      /\ IsImage(ch, b)
  BY DEF IsImage
<1>3. /\ Len(ch) \in Nat /\ DOMAIN ch = 1 .. Len(ch)
      /\ \A i, j \in DOMAIN ch : ch[i] = ch[j] => i = j
      /\ \A i \in DOMAIN ch : ch[i] \in Range(ch)
      /\ Last(ch) \in Range(ch) /\ ch[1] \in Range(ch)
  BY ChainFacts
<1>4. ASSUME NEW t \in DOMAIN b, NEW k \in Key
      PROVE  Agrees(x, Values(b), t, k) \/ Agrees(x, Meant(ch, c, b), t, k)
  <2>1. Values(x)[t] = Meant(ch, c, b)[t] \/ Values(x)[t] = Values(b)[t]
    BY <1>1, <1>2 DEF Reached
  <2> QED
    BY <1>2, <2>1, AgreesIf
<1>6. ASSUME c.op = "bulk", NEW k PROVE Agrees(x, Values(b), ch[1], k)
  <2>1. tables = {}
    BY <1>6 DEF UnderWay, CallTyped, DoneTables
  <2>2. Values(x)[ch[1]] = Values(b)[ch[1]]
    BY <1>1, <1>3, <2>1 DEF Reached
  <2> QED
    BY <1>2, <1>3, <2>2, AgreesIf
<1>7. \A i, j \in DOMAIN Order(ch, c) :
        i < j /\ Values(x)[Order(ch, c)[j]] # Values(b)[Order(ch, c)[j]] =>
          \A k \in Key : Agrees(x, Meant(ch, c, b), Order(ch, c)[i], k)
  <2>1. CallTyped(ch, c, r) /\ r.pc \notin {"idle", "exit", "done"}
    BY DEF UnderWay
  <2>2. PICK n \in Nat : /\ n <= Len(Order(ch, c))
                         /\ tables = {Order(ch, c)[m] : m \in 1 .. n}
    BY <2>1, DoneInOrder
  <2> HIDE DEF b, tables
  <2> QED
    BY <1>1, <1>2, <2>2, OrderIsKept
<1>8. c.op \in {"save", "create", "bulk", "update", "delete"}
  BY DEF IsCall
<1> HIDE DEF b
<1>9. Whole(ch, b) => Whole(ch, x)
  BY <1>2, <1>4, <1>7, <1>8, PartIsWhole
<1>10. PartDone(ch, c, b, x)
  BY <1>4, <1>6, <1>7, <1>9 DEF PartDone
<1> QED
  BY <1>10 DEF b

\* And so is what there is of the next table when a command is cut short.
LEMMA CutIsPart ==
  ASSUME NEW ch, NEW encrypts, NEW c, NEW r, NEW x, NEW y, NEW t,
         IsChain(ch), ch # <<>>, IsCall(c, ch), IsImage(ch, r.before), IsImage(ch, x),
         IsImage(ch, y), UnderWay(ch, encrypts, c, r, x),
         r.pc \in {"update", "insert", "primary", "related", "delete"},
         t = Current(ch, c, r),
         \A u \in Range(ch) \ {t} : Values(y)[u] = Values(x)[u],
         \A k \in Key :
           Agrees(y, Values(r.before), t, k) \/ Agrees(y, Meant(ch, c, r.before), t, k)
  PROVE  PartDone(ch, c, r.before, y)
<1> DEFINE b == r.before
           o == Order(ch, c)
           tables == DoneTables(ch, c, r)
<1>1. Reached(ch, c, b, x, tables) /\ CallTyped(ch, c, r)
  BY DEF UnderWay
<1>2. DOMAIN b = Range(ch) /\ DOMAIN y = Range(ch) /\ IsImage(ch, b)
  BY DEF IsImage
<1>3. PICK n \in Nat : /\ n <= Len(o) /\ tables = {o[m] : m \in 1 .. n}
                       /\ n + 1 \in DOMAIN o /\ t = o[n + 1]
  BY <1>1, DoneInOrder
<1>4. /\ \A i \in DOMAIN o : o[i] \in Range(ch)
      /\ \A i, j \in DOMAIN o : o[i] = o[j] => i = j
  BY OrderFacts
<1>5. c.op \in {"save", "create", "update", "delete"}
  BY <1>1 DEF CallTyped
<1>6. \A k \in Key : Agrees(y, Values(b), t, k) \/ Agrees(y, Meant(ch, c, b), t, k)
  OBVIOUS
<1> HIDE DEF b, o, tables
<1>7. ASSUME NEW u \in DOMAIN b, NEW k \in Key
      PROVE  Agrees(y, Values(b), u, k) \/ Agrees(y, Meant(ch, c, b), u, k)
  <2>1. CASE u = t
    BY <1>6, <2>1
  <2>2. CASE u # t
    <3>1. Values(y)[u] = Meant(ch, c, b)[u] \/ Values(y)[u] = Values(b)[u]
      BY <1>1, <1>2, <2>2 DEF Reached
    <3> QED
      BY <1>2, <3>1, AgreesIf
  <2> QED
    BY <2>1, <2>2
<1>8. \A m \in DOMAIN o : m # n + 1 => Values(y)[o[m]] = Values(x)[o[m]]
  BY <1>3, <1>4
<1>9. \A i, j \in DOMAIN Order(ch, c) :
        i < j /\ Values(y)[Order(ch, c)[j]] # Values(b)[Order(ch, c)[j]] =>
          \A k \in Key : Agrees(y, Meant(ch, c, b), Order(ch, c)[i], k)
  BY <1>1, <1>2, <1>3, <1>8, OrderIsKept DEF o
<1>10. Whole(ch, b) => Whole(ch, y)
  BY <1>2, <1>5, <1>7, <1>9, PartIsWhole
<1>11. PartDone(ch, c, b, y)
  BY <1>5, <1>7, <1>9, <1>10 DEF PartDone
<1> QED
  BY <1>11 DEF b

-----------------------------------------------------------------------------
(* The steps of one process, and what they leave of the others.            *)

Seen(p) == IF txn[p].open THEN txn[p].view ELSE docs
Undisturbed(p) == txn[p].open \/ run[p].alone
Holds(p, mine, now) == CallHolds(chain, encrypted, Call(p), mine, now, prog[p].atomic)

\* It goes on with its call, or ends it.
Kept(p, mine) ==
  /\ DOMAIN mine = RunFields
  /\ mine.at = run[p].at /\ mine.before = run[p].before /\ mine.alone = run[p].alone
  /\ mine.pc = "idle" => run[p].at # Len(prog[p].calls)
  /\ CallTyped(chain, Call(p), mine)

Refuses(p) ==
  \E cause : /\ Raises(p, cause)
             /\ Undisturbed(p) =>
                  cause = "server" \/ ~Possible(chain, encrypted, Call(p), run[p])

Sends(p, image, mine) ==
  /\ \E verb, targets : Execute(p, verb, image, targets)
  /\ Moves(p, mine)
  /\ IsImage(chain, image) /\ Kept(p, mine)
  /\ Undisturbed(p) => Holds(p, mine, image)

Looks(p, mine) ==
  /\ run' = [run EXCEPT ![p] = mine] /\ UNCHANGED <<docs, txn>>
  /\ Kept(p, mine)
  /\ Undisturbed(p) => Holds(p, mine, Seen(p))

InCall(p) ==
  /\ run[p].pc \notin {"idle", "done"}
  /\ UNCHANGED <<chain, encrypted, prog>>
  /\ Refuses(p) \/ (\E image, mine : Sends(p, image, mine)) \/ (\E mine : Looks(p, mine))

\* A process that does not move.
LEMMA OtherState ==
  ASSUME NEW ch, NEW encrypts, NEW pr, NEW r, NEW tx, NEW ds, NEW r2, NEW ds2,
         CallState(ch, encrypts, pr, r, tx, ds),
         r2 \in {r, [r EXCEPT !.alone = FALSE]}, ds2 = ds \/ r2.alone = FALSE
  PROVE  CallState(ch, encrypts, pr, r2, tx, ds2)
<1>1. CASE r2 = r /\ ds2 = ds
  BY <1>1
<1>2. CASE r2 = r /\ r.alone = FALSE
  BY <1>2 DEF CallState
<1>3. CASE r2 = [r EXCEPT !.alone = FALSE]
  <2>1. DOMAIN r = RunFields
    BY DEF CallState
  <2>2. /\ DOMAIN r2 = RunFields /\ r2.alone = FALSE
        /\ r2.pc = r.pc /\ r2.at = r.at /\ r2.i = r.i /\ r2.ids = r.ids /\ r2.rows = r.rows
        /\ r2.outcome = r.outcome /\ r2.cause = r.cause /\ r2.before = r.before
    BY <1>3, <2>1 DEF RunFields
  <2>3. \A c : CallTyped(ch, c, r) => CallTyped(ch, c, r2)
    BY <2>2 DEF CallTyped
  <2>4. \A c : Possible(ch, encrypts, c, r2) <=> Possible(ch, encrypts, c, r)
    BY <2>2 DEF Possible
  <2>5. \A c, now : UnderWay(ch, encrypts, c, r, now) => UnderWay(ch, encrypts, c, r2, now)
    <3> SUFFICES ASSUME NEW c, NEW now, UnderWay(ch, encrypts, c, r, now)
                 PROVE  UnderWay(ch, encrypts, c, r2, now)
      OBVIOUS
    <3>1. DoneTables(ch, c, r2) = DoneTables(ch, c, r) /\ Chosen(ch, c, r2) = Chosen(ch, c, r)
      BY <2>2 DEF DoneTables, Chosen
    <3>2. SaveFits(ch, encrypts, c, r2)
      BY <2>2, <2>4 DEF UnderWay, SaveFits
    <3>3. UpdateFits(ch, c, r2) /\ DeleteFits(ch, c, r2)
      BY <2>2, <3>1 DEF UnderWay, UpdateFits, DeleteFits
    <3> QED
      BY <2>2, <2>3, <3>1, <3>2, <3>3 DEF UnderWay
  <2>6. \A c, now, atomic : CallHolds(ch, encrypts, c, r, now, atomic)
                              => CallHolds(ch, encrypts, c, r2, now, atomic)
    BY <2>2, <2>4, <2>5 DEF CallHolds, Settled
  <2> QED
    BY <2>2, <2>3, <2>6 DEF CallState
<1> QED
  BY <1>1, <1>2, <1>3

\* What the others know of a command.
LEMMA MovesOthers ==
  ASSUME RunInv, NEW p \in Proc, NEW mine, Moves(p, mine)
  PROVE  /\ run'[p] = mine
         /\ \A q \in Proc \ {p} :
              /\ run'[q] \in {run[q], [run[q] EXCEPT !.alone = FALSE]}
              /\ docs' = docs \/ run'[q].alone = FALSE
<1>1. DOMAIN run = Proc /\ \A q \in Proc : "alone" \in DOMAIN run[q]
  BY DEF RunInv
<1>2. CASE docs' = docs
  BY <1>1, <1>2 DEF Moves
<1>3. CASE docs' # docs
  <2>1. run' = [Others(p) EXCEPT ![p] = mine]
    BY <1>3 DEF Moves
  <2>2. DOMAIN Others(p) = Proc
        /\ \A q \in Proc \ {p} : Others(p)[q] = [run[q] EXCEPT !.alone = FALSE]
    BY DEF Others
  <2> QED
    BY <1>1, <2>1, <2>2
<1> QED
  BY <1>2, <1>3

\* CallInv after a step.
LEMMA CallInvAfter ==
  ASSUME CallInv, NEW p \in Proc, UNCHANGED <<chain, encrypted, prog>>,
         IsImage(chain, docs'),
         \A q \in Proc \ {p} :
           /\ txn'[q] = txn[q]
           /\ run'[q] \in {run[q], [run[q] EXCEPT !.alone = FALSE]}
           /\ docs' = docs \/ run'[q].alone = FALSE,
         CallState(chain, encrypted, prog[p], run'[p], txn'[p], docs')
  PROVE  CallInv'
<1>1. ASSUME NEW q \in Proc \ {p}
      PROVE  CallState(chain, encrypted, prog[q], run'[q], txn'[q], docs')
  <2>1. CallState(chain, encrypted, prog[q], run[q], txn[q], docs)
    BY DEF CallInv
  <2> QED
    BY <2>1, OtherState
<1>2. \A q \in Proc : CallState(chain, encrypted, prog[q], run'[q], txn'[q], docs')
  BY <1>1
<1> QED
  BY <1>2 DEF CallInv

LEMMA CallFacts ==
  ASSUME RunInv, CallInv, NEW p \in Proc, run[p].pc \notin {"idle", "done"}
  PROVE  /\ IsChain(chain) /\ chain # <<>>
         /\ run[p].at # 0 /\ run[p].at \in Nat /\ DOMAIN run[p] = RunFields
         /\ IsCall(Call(p), chain) /\ CallTyped(chain, Call(p), run[p])
         /\ IsImage(chain, run[p].before) /\ IsImage(chain, Seen(p))
         /\ \A verb : Image(p, verb) = Seen(p)
         /\ txn[p].open \in BOOLEAN /\ (txn[p].open => prog[p].atomic)
         /\ Undisturbed(p) => Holds(p, run[p], Seen(p))
         /\ run[p].pc # "exit" /\ Undisturbed(p) =>
              /\ run[p].outcome = "none"
              /\ UnderWay(chain, encrypted, Call(p), run[p], Seen(p))
<1>1. CallState(chain, encrypted, prog[p], run[p], txn[p], docs)
  BY DEF CallInv
<1>2. run[p].at # 0 /\ run[p].at \in Nat /\ txn[p].open \in BOOLEAN
  BY DEF RunInv
<1>3. run[p].at \in DOMAIN prog[p].calls
  <2>1. IsProgram(chain, prog[p].calls)
    BY DEF CallInv
  <2>2. prog[p].calls \in Seq(Range(prog[p].calls))
    BY <2>1 DEF IsProgram
  <2> QED
    BY <1>1, <1>2, <2>2 DEF CallState
<1>4. IsCall(Call(p), chain)
  BY <1>3 DEF CallInv, IsProgram, Call
<1>5. Undisturbed(p) => Holds(p, run[p], Seen(p))
  BY <1>1, <1>2 DEF CallState, Undisturbed, Holds, Seen, Call
<1>6. run[p].pc # "exit" /\ Undisturbed(p) =>
        /\ run[p].outcome = "none"
        /\ UnderWay(chain, encrypted, Call(p), run[p], Seen(p))
  BY <1>5 DEF Holds, CallHolds
<1>7. IsImage(chain, Seen(p))
  BY <1>1 DEF CallState, Seen, CallInv
<1>8. \A verb : Image(p, verb) = Seen(p)
  BY DEF Image, Session, Seen
<1> QED
  BY <1>1, <1>2, <1>4, <1>5, <1>6, <1>7, <1>8 DEF CallState, CallInv, Call

LEMMA EndedShape ==
  ASSUME RunInv, CallInv, NEW p \in Proc, run[p].pc \notin {"idle", "done"}, NEW o, NEW n
  PROVE  /\ Kept(p, Ended(p, o, n))
         /\ Ended(p, o, n).pc \in {"idle", "exit", "done"}
         /\ (~prog[p].atomic => Ended(p, o, n).pc # "exit")
         /\ Ended(p, o, n).outcome = o /\ Ended(p, o, n).rows = n
<1> DEFINE r == Ended(p, o, n)
<1>1. DOMAIN run[p] = RunFields
  BY CallFacts
<1>2. /\ r.pc = Following(p) /\ r.outcome = o /\ r.rows = n /\ DOMAIN r = RunFields
      /\ r.at = run[p].at /\ r.before = run[p].before /\ r.alone = run[p].alone
  BY <1>1 DEF Ended, RunFields
<1>3. /\ Following(p) \in {"idle", "exit", "done"}
      /\ ~prog[p].atomic => Following(p) # "exit"
      /\ Following(p) = "idle" => run[p].at < Len(prog[p].calls)
  BY DEF Following
<1>4. Following(p) = "idle" => run[p].at # Len(prog[p].calls)
  <2>1. run[p].at \in Nat
    BY CallFacts
  <2>2. IsProgram(chain, prog[p].calls)
    BY DEF CallInv
  <2>3. Len(prog[p].calls) \in Nat
    BY <2>2 DEF IsProgram
  <2> QED
    BY <1>3, <2>1, <2>3
<1> HIDE DEF r
<1>5. CallTyped(chain, Call(p), r)
  BY <1>2, <1>3 DEF CallTyped
<1>6. Kept(p, r)
  BY <1>2, <1>4, <1>5 DEF Kept
<1> QED
  BY <1>2, <1>3, <1>6 DEF r

LEMMA RefusesState ==
  ASSUME RunInv, CallInv, NEW p \in Proc, run[p].pc \notin {"idle", "done"}, Refuses(p),
         UNCHANGED <<chain, encrypted, prog>>
  PROVE  CallInv'
<1>1. PICK cause : /\ Raises(p, cause)
                   /\ Undisturbed(p) =>
                        cause = "server" \/ ~Possible(chain, encrypted, Call(p), run[p])
  BY DEF Refuses
<1> DEFINE ended == Ended(p, "raised", 0)
           r == [ended EXCEPT !.pc = IF prog[p].atomic THEN "done" ELSE @, !.cause = cause]
<1>2. run' = [run EXCEPT ![p] = r] /\ txn' = [txn EXCEPT ![p] = NoTxn] /\ docs' = docs
  BY <1>1 DEF Raises
<1>3. /\ Kept(p, ended) /\ ended.pc \in {"idle", "exit", "done"}
      /\ ~prog[p].atomic => ended.pc # "exit"
      /\ ended.outcome = "raised"
  BY EndedShape
<1> HIDE DEF ended
<1>4. DOMAIN ended = RunFields
  BY <1>3 DEF Kept
<1>5. /\ DOMAIN r = RunFields /\ r.outcome = "raised" /\ r.cause = cause
      /\ r.at = run[p].at /\ r.before = run[p].before /\ r.alone = run[p].alone
      /\ r.pc \in {"idle", "done"}
      /\ r.pc = "idle" => run[p].at # Len(prog[p].calls)
  BY <1>3, <1>4 DEF Kept, RunFields
<1> HIDE DEF r
<1>6. DOMAIN run = Proc /\ DOMAIN txn = Proc /\ prog[p].atomic \in BOOLEAN
  BY DEF RunInv
<1>7. /\ run'[p] = r /\ txn'[p] = NoTxn
      /\ \A q \in Proc \ {p} : run'[q] = run[q] /\ txn'[q] = txn[q]
  BY <1>2, <1>6
<1>8. CallState(chain, encrypted, prog[p], run[p], txn[p], docs)
  BY DEF CallInv
<1>9. r.alone => CallHolds(chain, encrypted, Call(p), r, docs, prog[p].atomic)
  <2> SUFFICES ASSUME run[p].alone
               PROVE  CallHolds(chain, encrypted, Call(p), r, docs, prog[p].atomic)
    BY <1>5
  <2>1. Undisturbed(p)
    BY DEF Undisturbed
  <2>2. cause = "server" \/ ~Possible(chain, encrypted, Call(p), r)
    BY <1>1, <1>5, <2>1 DEF Possible
  <2>3. prog[p].atomic \/ PartDone(chain, Call(p), r.before, docs)
    <3> SUFFICES ASSUME ~prog[p].atomic PROVE PartDone(chain, Call(p), r.before, docs)
      BY <1>6
    <3>1. Seen(p) = docs /\ run[p].pc # "exit"
      BY CallFacts DEF Seen, RunInv
    <3>2. /\ IsChain(chain) /\ chain # <<>> /\ IsImage(chain, run[p].before)
          /\ IsImage(chain, docs) /\ IsCall(Call(p), chain)
          /\ UnderWay(chain, encrypted, Call(p), run[p], docs)
      BY <2>1, <3>1, CallFacts
    <3>3. PartDone(chain, Call(p), run[p].before, docs)
      BY <3>2, UnderWayIsPart
    <3> QED
      BY <1>5, <3>3
  <2> QED
    BY <1>5, <2>2, <2>3 DEF CallHolds
<1>10. CallTyped(chain, Call(p), r)
  BY <1>5 DEF CallTyped
<1>11. run[p].at # 0
  BY CallFacts
<1>12. CallState(chain, encrypted, prog[p], r, NoTxn, docs)
  BY <1>5, <1>8, <1>9, <1>10, <1>11, NoTxnShape DEF CallState, Call
<1> QED
  BY <1>2, <1>7, <1>12, CallInvAfter DEF CallInv

LEMMA SendsState ==
  ASSUME RunInv, CallInv, NEW p \in Proc, run[p].pc \notin {"idle", "done"},
         NEW image, NEW mine, Sends(p, image, mine), UNCHANGED <<chain, encrypted, prog>>
  PROVE  CallInv'
<1>1. PICK verb, targets : Execute(p, verb, image, targets)
  BY DEF Sends
<1>2. /\ Moves(p, mine) /\ IsImage(chain, image) /\ Kept(p, mine)
      /\ Undisturbed(p) => Holds(p, mine, image)
  BY DEF Sends
<1>3. /\ DOMAIN txn = Proc /\ "open" \in DOMAIN txn[p] /\ txn[p].open \in BOOLEAN
      /\ txn[p].open => {"view", "wrote"} \subseteq DOMAIN txn[p]
  BY DEF RunInv
<1>4. /\ \A q \in Proc \ {p} : txn'[q] = txn[q]
      /\ txn'[p].open = txn[p].open
      /\ IsImage(chain, docs')
      /\ IF txn[p].open THEN txn'[p].view = image /\ docs' = docs
         ELSE docs' = image
  <2>1. CASE txn[p].open
    <3>1. /\ docs' = docs
          /\ txn' = [txn EXCEPT ![p].view = image, ![p].wrote = @ \cup targets]
      BY <1>1, <2>1 DEF Execute, Session
    <3> QED
      BY <1>3, <2>1, <3>1 DEF CallInv
  <2>2. CASE ~txn[p].open
    BY <1>1, <1>2, <2>2 DEF Execute, Session
  <2> QED
    BY <1>3, <2>1, <2>2
<1>5. /\ run'[p] = mine
      /\ \A q \in Proc \ {p} :
              /\ run'[q] \in {run[q], [run[q] EXCEPT !.alone = FALSE]}
              /\ docs' = docs \/ run'[q].alone = FALSE
  BY <1>2, MovesOthers
<1>6. CallState(chain, encrypted, prog[p], run[p], txn[p], docs)
  BY DEF CallInv
<1>7. run[p].at # 0
  BY CallFacts
<1>8. CallState(chain, encrypted, prog[p], mine, txn'[p], docs')
  <2>1. /\ DOMAIN mine = RunFields /\ mine.at = run[p].at /\ mine.before = run[p].before
        /\ mine.alone = run[p].alone
        /\ mine.pc = "idle" => run[p].at # Len(prog[p].calls)
        /\ CallTyped(chain, Call(p), mine)
    BY <1>2 DEF Kept
  <2>2. image = IF txn'[p].open THEN txn'[p].view ELSE docs'
    BY <1>3, <1>4
  <2>3. txn'[p].open \/ mine.alone =>
          CallHolds(chain, encrypted, Call(p), mine, image, prog[p].atomic)
    BY <1>2, <1>4, <2>1 DEF Undisturbed, Holds
  <2>4. txn'[p].open => prog[p].atomic /\ IsImage(chain, txn'[p].view)
    BY <1>2, <1>4, <1>6 DEF CallState
  <2>5. mine.outcome # "none" => mine.at # 0
    BY <1>7, <2>1
  <2> QED
    BY <1>6, <1>7, <2>1, <2>2, <2>3, <2>4, <2>5 DEF CallState, Call
<1> QED
  BY <1>4, <1>5, <1>8, CallInvAfter

LEMMA LooksState ==
  ASSUME RunInv, CallInv, NEW p \in Proc, run[p].pc \notin {"idle", "done"},
         NEW mine, Looks(p, mine), UNCHANGED <<chain, encrypted, prog>>
  PROVE  CallInv'
<1>1. /\ run' = [run EXCEPT ![p] = mine] /\ docs' = docs /\ txn' = txn /\ Kept(p, mine)
      /\ Undisturbed(p) => Holds(p, mine, Seen(p))
  BY DEF Looks
<1>2. DOMAIN run = Proc
  BY DEF RunInv
<1>3. run'[p] = mine /\ \A q \in Proc \ {p} : run'[q] = run[q]
  BY <1>1, <1>2
<1>4. CallState(chain, encrypted, prog[p], run[p], txn[p], docs)
  BY DEF CallInv
<1>5. run[p].at # 0
  BY CallFacts
<1>6. CallState(chain, encrypted, prog[p], mine, txn[p], docs)
  <2>1. /\ DOMAIN mine = RunFields /\ mine.at = run[p].at /\ mine.before = run[p].before
        /\ mine.alone = run[p].alone
        /\ mine.pc = "idle" => run[p].at # Len(prog[p].calls)
        /\ CallTyped(chain, Call(p), mine)
    BY <1>1 DEF Kept
  <2>2. txn[p].open \/ mine.alone =>
          CallHolds(chain, encrypted, Call(p), mine, Seen(p), prog[p].atomic)
    BY <1>1, <2>1 DEF Undisturbed, Holds
  <2> QED
    BY <1>4, <1>5, <2>1, <2>2 DEF CallState, Call, Seen
<1> QED
  BY <1>1, <1>3, <1>6, CallInvAfter DEF CallInv

LEMMA InCallState ==
  ASSUME RunInv, CallInv, NEW p \in Proc, InCall(p)
  PROVE  CallInv'
  BY RefusesState, SendsState, LooksState DEF InCall

-----------------------------------------------------------------------------
(* save() and create().                                                    *)

LEMMA CommandInCall ==
  ASSUME NEW p, run[p].pc \notin {"idle", "done"}, UNCHANGED <<chain, encrypted, prog>>,
         NEW verb, NEW image, NEW targets, NEW mine,
         Command(p, verb, image, targets, mine),
         IsImage(chain, image), Kept(p, mine), Undisturbed(p) => Holds(p, mine, image)
  PROVE  InCall(p)
<1>1. CASE Raises(p, "server")
  BY <1>1 DEF InCall, Refuses
<1>2. CASE Execute(p, verb, image, targets) /\ Moves(p, mine)
  BY <1>2 DEF InCall, Sends
<1> QED
  BY <1>1, <1>2 DEF Command

LEMMA RaisesInCall ==
  ASSUME NEW p, run[p].pc \notin {"idle", "done"}, UNCHANGED <<chain, encrypted, prog>>,
         NEW cause, Raises(p, cause),
         Undisturbed(p) => ~Possible(chain, encrypted, Call(p), run[p])
  PROVE  InCall(p)
  BY DEF InCall, Refuses

LEMMA SaveTable ==
  ASSUME NEW ch, NEW c, NEW b, NEW x, NEW i \in DOMAIN ch, NEW stored,
         IsChain(ch), IsImage(ch, b), IsImage(ch, x), c.op \in {"save", "create"},
         DOMAIN stored = {c.key}, c.key \in Key, "val" \in DOMAIN stored[c.key],
         stored[c.key].val = c.vals[ch[i]],
         Reached(ch, c, b, x, {ch[j] : j \in 1 .. i - 1})
  PROVE  Reached(ch, c, b, Put(x, ch[i], stored), {ch[j] : j \in 1 .. i})
<1> DEFINE t == ch[i]
           before == {ch[j] : j \in 1 .. i - 1}
           after == {ch[j] : j \in 1 .. i}
           new == [k \in DOMAIN stored |-> stored[k].val]
           y == Put(x, t, stored)
<1>1. /\ DOMAIN ch = 1 .. Len(ch) /\ Len(ch) \in Nat /\ t \in Range(ch)
      /\ \A j, l \in DOMAIN ch : ch[j] = ch[l] => j = l
  BY ChainFacts
<1>2. i \in Nat /\ i >= 1
  BY <1>1
<1>3. after = before \cup {t}
  <2>1. 1 .. i = (1 .. i - 1) \cup {i}
    BY <1>2
  <2> QED
    BY <2>1
<1>4. t \notin before
  <2>1. \A j \in 1 .. i - 1 : j \in DOMAIN ch /\ j # i
    BY <1>1, <1>2
  <2> QED
    BY <1>1, <2>1
<1>5. Reached(ch, c, b, x, before)
  OBVIOUS
<1> HIDE DEF before, after, t
<1>6. Values(x)[t] = Values(b)[t] /\ t \in DOMAIN b
  BY <1>1, <1>4, <1>5 DEF Reached, IsImage
<1>7. /\ \A u \in Range(ch) \ {t} : Values(y)[u] = Values(x)[u]
      /\ Values(y)[t] = Over(new, Values(x)[t])
  <2>1. DOMAIN stored \subseteq Key /\ \A k \in DOMAIN stored : "val" \in DOMAIN stored[k]
    OBVIOUS
  <2> QED
    BY <1>1, <2>1, PutFacts
<1>8. new = [k \in {c.key} |-> c.vals[t]]
  BY DEF t
<1>9. Meant(ch, c, b)[t] = Over([k \in {c.key} |-> c.vals[t]], Values(b)[t])
  BY <1>6 DEF Meant
<1> HIDE DEF y, new
<1>10. Values(y)[t] = Meant(ch, c, b)[t]
  BY <1>6, <1>7, <1>8, <1>9
<1>11. Reached(ch, c, b, y, before \cup {t})
  BY <1>5, <1>7, <1>10, ReachedNext
<1> QED
  BY <1>3, <1>11 DEF after, y, t

\* The table behind, or the end of the call.
LEMMA SaveGoesOn ==
  ASSUME RunInv, CallInv, NEW p \in Proc, run[p].pc \in {"update", "insert"},
         NEW inserted \in BOOLEAN, NEW image,
         Undisturbed(p) =>
           /\ Reached(chain, Call(p), run[p].before, image, {chain[j] : j \in 1 .. run[p].i})
           /\ inserted /\ Possible(chain, encrypted, Call(p), run[p]) =>
                Call(p).key \notin DOMAIN run[p].before[chain[run[p].i]]
  PROVE  /\ Kept(p, AfterTable(p, inserted))
         /\ Undisturbed(p) => Holds(p, AfterTable(p, inserted), image)
<1> DEFINE c == Call(p)
           b == run[p].before
           i == run[p].i
           mine == AfterTable(p, inserted)
<1>0. run[p].pc \notin {"idle", "done", "exit"}
  OBVIOUS
<1>1. /\ IsChain(chain) /\ chain # <<>> /\ DOMAIN run[p] = RunFields
      /\ CallTyped(chain, c, run[p]) /\ IsCall(c, chain) /\ IsImage(chain, b)
      /\ Undisturbed(p) =>
           run[p].outcome = "none" /\ UnderWay(chain, encrypted, c, run[p], Seen(p))
  BY <1>0, CallFacts
<1>2. c.op \in {"save", "create"} /\ i \in DOMAIN chain
  BY <1>1 DEF CallTyped
<1>3. DOMAIN chain = 1 .. Len(chain) /\ Len(chain) \in Nat /\ Last(chain) = chain[Len(chain)]
  BY <1>1, ChainFacts
<1>4. i \in Nat /\ i >= 1 /\ i <= Len(chain)
  BY <1>2, <1>3
<1> HIDE DEF c, b, i, mine
<1>5. CASE i = Len(chain)
  <2>1. mine = Ended(p, "returned", 0)
    BY <1>5 DEF mine, AfterTable, i
  <2>2. /\ Kept(p, mine) /\ mine.pc \in {"idle", "exit", "done"}
        /\ mine.outcome = "returned" /\ mine.rows = 0
    BY <1>0, <2>1, EndedShape
  <2>3. mine.before = b
    BY <2>2 DEF Kept, b
  <2>4. {chain[j] : j \in 1 .. run[p].i} = Range(chain)
    BY <1>3, <1>5 DEF Range, i
  <2>5. MeantRows(chain, c, b) = 0
    BY <1>2 DEF MeantRows
  <2>6. Undisturbed(p) => Settled(chain, c, mine, image)
    BY <2>2, <2>3, <2>4, <2>5 DEF Settled, c, b
  <2>7. Undisturbed(p) => Holds(p, mine, image)
    BY <2>2, <2>6 DEF Holds, CallHolds, c
  <2> QED
    BY <2>2, <2>7 DEF mine
<1>6. CASE i # Len(chain)
  <2> DEFINE forced == inserted \/ (c.op = "create" /\ i + 1 = Len(chain))
  <2>1. mine = [run[p] EXCEPT !.i = i + 1, !.pc = IF forced THEN "insert" ELSE "update"]
    BY <1>6 DEF mine, AfterTable, i, c
  <2>2. /\ DOMAIN mine = RunFields /\ mine.i = i + 1
        /\ mine.pc = (IF forced THEN "insert" ELSE "update")
        /\ mine.at = run[p].at /\ mine.before = b /\ mine.alone = run[p].alone
        /\ mine.outcome = run[p].outcome
    BY <1>1, <2>1 DEF RunFields, b
  <2>3. i + 1 \in DOMAIN chain
    <3>1. i < Len(chain)
      <4>1. Len(chain) \in Nat /\ i \in Nat /\ i <= Len(chain)
        BY <1>3, <1>4
      <4> QED
        BY <4>1, <1>6
    <3>2. i + 1 \in 1 .. Len(chain)
      BY <1>3, <1>4, <3>1
    <3> QED
      BY <1>3, <3>2
  <2> HIDE DEF forced
  <2>4. CallTyped(chain, c, mine) /\ mine.pc \in {"insert", "update"}
    <3>1. mine.pc = "update" /\ c.op = "create" => mine.i # Len(chain)
      BY <2>2 DEF forced
    <3> QED
      BY <1>2, <2>2, <2>3, <3>1 DEF CallTyped
  <2>5. Kept(p, mine)
    BY <2>2, <2>4 DEF Kept, c, b
  <2>6. ASSUME Undisturbed(p) PROVE Holds(p, mine, image)
    <3>1. DoneTables(chain, c, mine) = {chain[j] : j \in 1 .. mine.i - 1}
      BY <2>4 DEF DoneTables
    <3>2. mine.i - 1 = run[p].i
      BY <1>4, <2>2 DEF i
    <3>3. Reached(chain, c, b, image, DoneTables(chain, c, mine))
      BY <2>6, <3>1, <3>2 DEF c, b
    <3>4. SaveFits(chain, encrypted, c, mine)
      <4> SUFFICES ASSUME mine.pc = "insert", Possible(chain, encrypted, c, mine)
                   PROVE  c.key \notin DOMAIN b[chain[i + 1]]
        BY <2>2 DEF SaveFits
      <4>1. Possible(chain, encrypted, c, run[p])
        BY <2>2 DEF Possible, b
      <4>2. forced
        BY <2>2
      <4>3. CASE inserted
        <5>1. c.key \notin DOMAIN b[chain[i]]
          BY <2>6, <4>1, <4>3 DEF c, b, i
        <5>2. DOMAIN b[chain[i + 1]] \subseteq DOMAIN b[chain[i]]
          <6>1. i \in DOMAIN chain /\ i <= i + 1
            BY <1>2, <1>4
          <6>2. Whole(chain, b)
            BY <4>1 DEF Possible, b
          <6> QED
            BY <2>3, <6>1, <6>2 DEF Whole
        <5> QED
          BY <5>1, <5>2
      <4>4. CASE c.op = "create" /\ i + 1 = Len(chain)
        <5>1. Allowed(chain, encrypted, c, b)
          BY <4>1 DEF Possible, b
        <5>2. c.key \notin DOMAIN b[Last(chain)]
          BY <4>4, <5>1 DEF Allowed
        <5> QED
          BY <1>3, <4>4, <5>2
      <4> QED
        BY <4>2, <4>3, <4>4 DEF forced
    <3>5. UpdateFits(chain, c, mine) /\ DeleteFits(chain, c, mine)
      BY <2>4 DEF UpdateFits, DeleteFits
    <3>6. UnderWay(chain, encrypted, c, mine, image)
      BY <2>2, <2>4, <3>3, <3>4, <3>5 DEF UnderWay
    <3>7. mine.outcome = "none"
      BY <1>1, <2>2, <2>6
    <3> QED
      BY <3>6, <3>7 DEF Holds, CallHolds, c
  <2> QED
    BY <2>5, <2>6 DEF mine
<1> QED
  BY <1>5, <1>6

LEMMA SaveUpdateInCall ==
  ASSUME RunInv, CallInv, NEW p \in Proc, SaveUpdate(p)
  PROVE  InCall(p)
<1> DEFINE t == chain[run[p].i]
           c == Call(p)
           i == run[p].i
           x == Image(p, "update")
           b == run[p].before
           found == {c.key} \cap DOMAIN x[t]
           stored == [k \in found |-> Stored(p, t, c.vals[t])]
           y == Put(x, t, stored)
           next == IF found = {} THEN [run[p] EXCEPT !.pc = "insert"] ELSE AfterTable(p, FALSE)
<1>0. run[p].pc = "update" /\ run[p].pc \notin {"idle", "done", "exit"}
  BY DEF SaveUpdate, At
<1>1. /\ IsChain(chain) /\ chain # <<>> /\ DOMAIN run[p] = RunFields
      /\ CallTyped(chain, c, run[p]) /\ IsCall(c, chain) /\ IsImage(chain, b)
      /\ IsImage(chain, x)
      /\ Undisturbed(p) =>
           run[p].outcome = "none" /\ UnderWay(chain, encrypted, c, run[p], x)
  BY <1>0, CallFacts
<1>2. /\ c.op \in {"save", "create"} /\ i \in DOMAIN chain
  BY <1>0, <1>1 DEF CallTyped
<1>3. c.key \in Key
  BY <1>1, <1>2 DEF IsCall
<1>4. /\ DOMAIN chain = 1 .. Len(chain) /\ Len(chain) \in Nat
      /\ \A j, l \in DOMAIN chain : chain[j] = chain[l] => j = l
      /\ t \in Range(chain)
  BY <1>1, <1>2, ChainFacts
<1>5. /\ IF Refused(UpdateMethod(KeyColumn(t), c.key)) THEN Raises(p, "code")
         ELSE Command(p, "update", y, Cells(t, found), next)
      /\ UNCHANGED <<chain, encrypted, prog>>
  BY DEF SaveUpdate, Fixed
<1>6. \A k \in DOMAIN stored : "val" \in DOMAIN stored[k] /\ stored[k].val = c.vals[t]
  BY DEF Stored
<1>7. DOMAIN stored = found
  OBVIOUS
<1> HIDE DEF stored
<1>14. \A k \in DOMAIN stored : "val" \in DOMAIN stored[k]
  BY <1>6
<1>15. DOMAIN stored \subseteq Key
  BY <1>3, <1>7
<1>16. /\ IsImage(chain, y)
       /\ \A u \in Range(chain) \ {t} : Values(y)[u] = Values(x)[u]
       /\ Values(y)[t] = Over([k \in DOMAIN stored |-> stored[k].val], Values(x)[t])
  <2>1. PICK u, s, z : u = t /\ s = stored /\ z = x
    OBVIOUS
  <2>2. IsImage(chain, z) /\ u \in Range(chain)
    BY <1>1, <1>4, <2>1
  <2>3. DOMAIN s \subseteq Key /\ \A k \in DOMAIN s : "val" \in DOMAIN s[k]
    BY <1>14, <1>15, <2>1
  <2>4. /\ IsImage(chain, Put(z, u, s))
        /\ \A v \in Range(chain) \ {u} : Values(Put(z, u, s))[v] = Values(z)[v]
        /\ Values(Put(z, u, s))[u] = Over([k \in DOMAIN s |-> s[k].val], Values(z)[u])
    BY ONLY <2>2, <2>3, PutFacts
  <2> QED
    BY <2>1, <2>4
<1>8. IsImage(chain, y)
  BY <1>16
<1>9. ASSUME Undisturbed(p)
      PROVE  Reached(chain, c, b, x, {chain[j] : j \in 1 .. i - 1})
  BY <1>0, <1>1, <1>9 DEF UnderWay, DoneTables
<1>10. CASE Refused(UpdateMethod(KeyColumn(t), c.key))
  <2>1. encrypted /\ (t # chain[1] \/ c.key \notin ObjectId)
    BY <1>10 DEF Refused, UpdateMethod, KeyColumn, Top
  <2>2. Len(chain) # 1 \/ (c.op # "create" /\ c.key \notin ObjectId)
    <3>1. c.op = "create" => i # Len(chain)
      BY <1>0, <1>1 DEF CallTyped
    <3>2. Len(chain) = 1 => i = 1 /\ t = chain[1]
      BY <1>2, <1>4
    <3> HIDE DEF c, i, t
    <3> QED
      BY <2>1, <3>1, <3>2
  <2>3. ~Possible(chain, encrypted, c, run[p])
    BY <1>2, <2>1, <2>2 DEF Possible, Allowed
  <2> QED
    BY <1>0, <1>5, <1>10, <2>3, RaisesInCall
<1>11. CASE Command(p, "update", y, Cells(t, found), next) /\ found # {}
  <2>1. found = {c.key}
    BY <1>11
  <2>2. Undisturbed(p) => Reached(chain, c, b, y, {chain[j] : j \in 1 .. i})
    <3>1. /\ DOMAIN stored = {c.key} /\ "val" \in DOMAIN stored[c.key]
          /\ stored[c.key].val = c.vals[chain[i]]
      BY <1>6, <1>7, <2>1
    <3> HIDE DEF c, b, i, x, found
    <3> QED
      BY <1>1, <1>2, <1>3, <1>9, <3>1, SaveTable DEF i
  <2>3. next = AfterTable(p, FALSE)
    BY <1>11
  <2> HIDE DEF next, y, x
  <2>4. Kept(p, next) /\ (Undisturbed(p) => Holds(p, next, y))
    BY <1>0, <2>2, <2>3, SaveGoesOn
  <2> QED
    BY <1>0, <1>5, <1>8, <1>11, <2>4, CommandInCall
<1>12. CASE Command(p, "update", y, Cells(t, found), next) /\ found = {}
  <2>1. next = [run[p] EXCEPT !.pc = "insert"]
    BY <1>12
  <2>2. /\ DOMAIN next = RunFields /\ next.pc = "insert" /\ next.i = i
        /\ next.at = run[p].at /\ next.before = b /\ next.alone = run[p].alone
        /\ next.outcome = run[p].outcome
    BY <1>1, <2>1 DEF RunFields
  <2> HIDE DEF next
  <2>3. CallTyped(chain, c, next)
    BY <1>2, <2>2 DEF CallTyped
  <2>4. Kept(p, next)
    BY <2>2, <2>3 DEF Kept
  <2>5. ASSUME Undisturbed(p) PROVE Holds(p, next, y)
    <3>1. \A u \in Range(chain) : Values(y)[u] = Values(x)[u]
      <4>1. /\ \A u \in Range(chain) \ {t} : Values(y)[u] = Values(x)[u]
            /\ Values(y)[t] = Over([k \in DOMAIN stored |-> stored[k].val], Values(x)[t])
        BY <1>16
      <4>2. Values(x)[t] = [k \in DOMAIN x[t] |-> x[t][k].val]
        BY <1>1, <1>4, ValuesFacts DEF IsImage
      <4>3. Over([k \in DOMAIN stored |-> stored[k].val], Values(x)[t]) = Values(x)[t]
        BY <1>7, <1>12, <4>2 DEF Over
      <4> QED
        BY <4>1, <4>3
    <3> DEFINE tables == {chain[j] : j \in 1 .. i - 1}
    <3>2. DoneTables(chain, c, next) = tables
      BY <2>2 DEF DoneTables
    <3>3. Reached(chain, c, b, x, tables)
      BY <1>9, <2>5
    <3>4. t \in Range(chain) \ tables
      <4>1. \A j \in 1 .. i - 1 : j \in DOMAIN chain /\ j # i
        BY <1>2, <1>4
      <4> QED
        BY <1>2, <1>4, <4>1
    <3> HIDE DEF tables
    <3>5. Reached(chain, c, b, y, tables)
      BY <3>1, <3>3 DEF Reached
    <3>6. DOMAIN x[t] = DOMAIN b[t]
      BY <1>1, <3>3, <3>4, ReachedAt
    <3>7. SaveFits(chain, encrypted, c, next)
      BY <1>12, <2>2, <3>6 DEF SaveFits
    <3>8. UpdateFits(chain, c, next) /\ DeleteFits(chain, c, next)
      BY <2>2 DEF UpdateFits, DeleteFits
    <3>9. UnderWay(chain, encrypted, c, next, y)
      BY <2>2, <2>3, <3>2, <3>5, <3>7, <3>8 DEF UnderWay
    <3> QED
      BY <1>1, <2>2, <2>5, <3>9 DEF Holds, CallHolds
  <2> QED
    BY <1>0, <1>5, <1>8, <1>12, <2>4, <2>5, CommandInCall
<1> QED
  BY <1>5, <1>10, <1>11, <1>12

LEMMA SaveInsertInCall ==
  ASSUME RunInv, CallInv, NEW p \in Proc, SaveInsert(p)
  PROVE  InCall(p)
<1> DEFINE t == chain[run[p].i]
           c == Call(p)
           i == run[p].i
           x == Image(p, "insert")
           b == run[p].before
           stored == [k \in {c.key} |-> Stored(p, t, c.vals[t])]
           y == Put(x, t, stored)
           next == AfterTable(p, TRUE)
<1>0. run[p].pc = "insert" /\ run[p].pc \notin {"idle", "done", "exit"}
  BY DEF SaveInsert, At
<1>1. /\ IsChain(chain) /\ chain # <<>> /\ DOMAIN run[p] = RunFields
      /\ CallTyped(chain, c, run[p]) /\ IsCall(c, chain) /\ IsImage(chain, b)
      /\ IsImage(chain, x)
      /\ Undisturbed(p) =>
           run[p].outcome = "none" /\ UnderWay(chain, encrypted, c, run[p], x)
  BY <1>0, CallFacts
<1>2. /\ c.op \in {"save", "create"} /\ i \in DOMAIN chain
  BY <1>0, <1>1 DEF CallTyped
<1>3. c.key \in Key
  BY <1>1, <1>2 DEF IsCall
<1>4. /\ DOMAIN chain = 1 .. Len(chain) /\ Len(chain) \in Nat
      /\ \A j, l \in DOMAIN chain : chain[j] = chain[l] => j = l
      /\ t \in Range(chain)
  BY <1>1, <1>2, ChainFacts
<1>5. /\ IF RefusesNull(c.vals[t]) THEN Raises(p, "code")
         ELSE IF c.key \in DOMAIN x[t] /\ ~Waits(p, "insert", Cells(t, {c.key}))
         THEN Raises(p, "duplicate")
         ELSE Command(p, "insert", y, Cells(t, {c.key}), next)
      /\ UNCHANGED <<chain, encrypted, prog>>
  BY DEF SaveInsert, Fixed
<1>6. /\ DOMAIN stored = {c.key} /\ "val" \in DOMAIN stored[c.key]
      /\ stored[c.key].val = c.vals[chain[i]]
  BY DEF Stored
<1> HIDE DEF stored
<1>8. IsImage(chain, y)
  <2>1. DOMAIN stored \subseteq Key /\ \A k \in DOMAIN stored : "val" \in DOMAIN stored[k]
    BY <1>3, <1>6
  <2> QED
    BY <1>1, <1>4, <2>1, PutFacts
<1>9. ASSUME Undisturbed(p)
      PROVE  Reached(chain, c, b, x, {chain[j] : j \in 1 .. i - 1})
  BY <1>0, <1>1, <1>9 DEF UnderWay, DoneTables
<1>7. ASSUME Undisturbed(p), Possible(chain, encrypted, c, run[p])
      PROVE  c.key \notin DOMAIN b[t]
  BY <1>0, <1>1, <1>7 DEF UnderWay, SaveFits
<1>10. CASE RefusesNull(c.vals[t])
  <2>1. ~Possible(chain, encrypted, c, run[p])
    BY <1>2, <1>10 DEF Possible, Allowed, RefusesNull
  <2> QED
    BY <1>0, <1>5, <1>10, <2>1, RaisesInCall
<1>11. CASE Raises(p, "duplicate") /\ c.key \in DOMAIN x[t]
  <2>1. ASSUME Undisturbed(p), Possible(chain, encrypted, c, run[p]) PROVE FALSE
    <3> DEFINE tables == {chain[j] : j \in 1 .. i - 1}
    <3>1. Reached(chain, c, b, x, tables)
      BY <1>9, <2>1
    <3>2. t \in Range(chain) \ tables
      <4>1. \A j \in 1 .. i - 1 : j \in DOMAIN chain /\ j # i
        BY <1>2, <1>4
      <4> QED
        BY <1>2, <1>4, <4>1
    <3> HIDE DEF tables
    <3>3. DOMAIN x[t] = DOMAIN b[t]
      BY <1>1, <3>1, <3>2, ReachedAt
    <3> QED
      BY <1>7, <1>11, <2>1, <3>3
  <2> QED
    BY <1>0, <1>5, <1>11, <2>1, RaisesInCall
<1>12. CASE Command(p, "insert", y, Cells(t, {c.key}), next)
  <2>1. Undisturbed(p) => Reached(chain, c, b, y, {chain[j] : j \in 1 .. i})
    <3> HIDE DEF c, b, i, x
    <3> QED
      BY <1>1, <1>2, <1>3, <1>6, <1>9, SaveTable DEF i
  <2> HIDE DEF y, x
  <2>2. Kept(p, next) /\ (Undisturbed(p) => Holds(p, next, y))
    BY <1>0, <1>7, <2>1, SaveGoesOn
  <2> QED
    BY <1>0, <1>5, <1>8, <1>12, <2>2, CommandInCall
<1> QED
  BY <1>5, <1>10, <1>11, <1>12

-----------------------------------------------------------------------------
(* bulk_create().                                                          *)

\* The objects that are stored are those before the first that is not, and each of them
\* is the first one with its key.
LEMMA StoredFacts ==
  ASSUME NEW n \in Nat, NEW objs, DOMAIN objs = 1 .. n, NEW keys,
         NEW i \in StoredOf(objs, keys)
  PROVE  /\ i \in 1 .. n /\ objs[i].key \notin keys
         /\ \A j \in 1 .. i : j \in StoredOf(objs, keys)
         /\ \A j \in 1 .. i - 1 : objs[j].key # objs[i].key
<1>1. /\ i \in 1 .. n /\ \A j \in 1 .. i : ~Taken(objs, keys, j)
  BY DEF StoredOf
<1>2. ~Taken(objs, keys, i)
  BY <1>1
<1>3. objs[i].key \notin keys /\ \A j \in 1 .. i - 1 : objs[j].key # objs[i].key
  BY <1>2 DEF Taken
<1>4. ASSUME NEW j \in 1 .. i PROVE j \in StoredOf(objs, keys)
  <2>1. j \in 1 .. n /\ \A l \in 1 .. j : l \in 1 .. i
    BY <1>1
  <2> QED
    BY <1>1, <2>1 DEF StoredOf
<1> QED
  BY <1>1, <1>3, <1>4

LEMMA FirstIs ==
  ASSUME NEW n \in Nat, NEW objs, DOMAIN objs = 1 .. n, NEW i \in 1 .. n, NEW k,
         objs[i].key = k, \A j \in 1 .. i - 1 : objs[j].key # k
  PROVE  FirstOf(objs, k) = i
<1>1. ASSUME NEW l \in 1 .. n, objs[l].key = k, \A j \in 1 .. l - 1 : objs[j].key # k
      PROVE  l = i
  <2>1. ~(l < i)
    <3> SUFFICES ASSUME l < i PROVE FALSE
      OBVIOUS
    <3>1. l \in 1 .. i - 1
      OBVIOUS
    <3> QED
      BY <1>1, <3>1
  <2>2. ~(i < l)
    <3> SUFFICES ASSUME i < l PROVE FALSE
      OBVIOUS
    <3>1. i \in 1 .. l - 1
      OBVIOUS
    <3> QED
      BY <1>1, <3>1
  <2> QED
    BY <2>1, <2>2
<1> QED
  BY <1>1 DEF FirstOf

IsObjects(objs) == objs \in Seq([key : Key, val : Val \cup {None}])

LEMMA ObjectsFacts ==
  ASSUME NEW objs, IsObjects(objs)
  PROVE  /\ Len(objs) \in Nat /\ DOMAIN objs = 1 .. Len(objs)
         /\ \A i \in 1 .. Len(objs) : objs[i].key \in Key
<1> DEFINE Obj == [key : Key, val : Val \cup {None}]
<1>1. objs \in Seq(Obj) /\ \A o \in Obj : o.key \in Key
  BY DEF IsObjects
<1> HIDE DEF Obj
<1>2. \A i \in 1 .. Len(objs) : objs[i] \in Obj
  BY <1>1
<1> QED
  BY <1>1, <1>2

KeysOf(objs, these) == {objs[i].key : i \in these}

\* The documents of those objects.
BulkStored(objs, these, stored) ==
  /\ DOMAIN stored = KeysOf(objs, these)
  /\ \A k \in DOMAIN stored :
       /\ "val" \in DOMAIN stored[k]
       /\ stored[k].val = objs[CHOOSE i \in these : objs[i].key = k].val

\* The first of those that an insert_many() may store.
IsStart(these, objs, keys) ==
  these \subseteq StoredOf(objs, keys) /\ \A i \in these : \A j \in 1 .. i : j \in these

LEMMA StoredIsStart ==
  ASSUME NEW objs, IsObjects(objs), NEW keys, NEW n \in Nat
  PROVE  /\ IsStart(StoredOf(objs, keys), objs, keys)
         /\ IsStart(StoredOf(objs, keys) \cap 1 .. n, objs, keys)
<1> DEFINE these == StoredOf(objs, keys)
<1>1. PICK l \in Nat : DOMAIN objs = 1 .. l
  BY ObjectsFacts
<1>2. \A i \in these : i \in 1 .. l /\ \A j \in 1 .. i : j \in these
  BY <1>1, StoredFacts
<1> HIDE DEF these
<1>3. ASSUME NEW i \in these \cap 1 .. n, NEW j \in 1 .. i PROVE j \in these \cap 1 .. n
  BY <1>2
<1> QED
  BY <1>2, <1>3 DEF IsStart, these

LEMMA StoredAreFirst ==
  ASSUME NEW objs, IsObjects(objs), NEW keys, NEW these, IsStart(these, objs, keys)
  PROVE  /\ these \subseteq DOMAIN objs
         /\ \A i \in these : /\ objs[i].key \notin keys
                            /\ FirstOf(objs, objs[i].key) = i
                            /\ \A j \in 1 .. i : j \in these
<1> DEFINE n == Len(objs)
<1>1. n \in Nat /\ DOMAIN objs = 1 .. n
  BY ObjectsFacts
<1> HIDE DEF n
<1>2. ASSUME NEW i \in these
      PROVE  /\ i \in DOMAIN objs /\ objs[i].key \notin keys
             /\ FirstOf(objs, objs[i].key) = i
             /\ \A j \in 1 .. i : j \in these
  <2>0. i \in StoredOf(objs, keys) /\ \A j \in 1 .. i : j \in these
    BY DEF IsStart
  <2>1. /\ i \in 1 .. n /\ objs[i].key \notin keys
        /\ \A j \in 1 .. i : j \in these
        /\ \A j \in 1 .. i - 1 : objs[j].key # objs[i].key
    BY <1>1, <2>0, StoredFacts
  <2>2. PICK k : k = objs[i].key
    OBVIOUS
  <2>3. FirstOf(objs, k) = i
    BY <1>1, <2>1, <2>2, FirstIs
  <2> QED
    BY <1>1, <2>1, <2>2, <2>3
<1> QED
  BY <1>2

LEMMA StoredVals ==
  ASSUME NEW objs, IsObjects(objs), NEW keys, NEW these, IsStart(these, objs, keys),
         NEW stored, BulkStored(objs, these, stored), NEW k \in KeysOf(objs, these)
  PROVE  /\ k \in Key /\ k \notin keys
         /\ "val" \in DOMAIN stored[k] /\ stored[k].val = objs[FirstOf(objs, k)].val
         /\ FirstOf(objs, k) \in these /\ objs[FirstOf(objs, k)].key = k
<1>1. PICK i \in these : k = objs[i].key
  BY DEF KeysOf
<1>2. /\ these \subseteq DOMAIN objs
      /\ \A l \in these : /\ objs[l].key \notin keys
                         /\ FirstOf(objs, objs[l].key) = l
  BY StoredAreFirst
<1>3. (CHOOSE l \in these : objs[l].key = k) = i
  BY <1>1, <1>2
<1>4. objs[i].key \in Key
  BY <1>2, ObjectsFacts
<1>5. "val" \in DOMAIN stored[k]
      /\ stored[k].val = objs[CHOOSE l \in these : objs[l].key = k].val
  BY DEF BulkStored
<1> QED
  BY <1>1, <1>2, <1>3, <1>4, <1>5

\* What insert_many() stores, of all objects or of the first ones.
LEMMA BulkTable ==
  ASSUME NEW ch, NEW c, NEW b, NEW x, IsChain(ch), Len(ch) = 1, IsImage(ch, b), IsImage(ch, x),
         c.op = "bulk", IsObjects(c.objs), Reached(ch, c, b, x, {}),
         NEW these, IsStart(these, c.objs, DOMAIN x[ch[1]]),
         NEW stored, BulkStored(c.objs, these, stored)
  PROVE  /\ IsImage(ch, Put(x, ch[1], stored))
         /\ PartDone(ch, c, b, Put(x, ch[1], stored))
         /\ these = DOMAIN c.objs => Reached(ch, c, b, Put(x, ch[1], stored), Range(ch))
<1> DEFINE objs == c.objs
           t == ch[1]
           y == Put(x, t, stored)
           keys == KeysOf(objs, these)
           all == {objs[i].key : i \in DOMAIN objs}
           new == [k \in DOMAIN stored |-> stored[k].val]
           full == [k \in all |-> objs[FirstOf(objs, k)].val]
<1>1. DOMAIN ch = {1} /\ Range(ch) = {t}
  BY ChainFacts DEF Range
<1>2. /\ Values(x)[t] = Values(b)[t] /\ t \in DOMAIN x /\ t \in DOMAIN b
  BY <1>1 DEF Reached, IsImage
<1>3. DOMAIN Values(b)[t] = DOMAIN b[t]
  BY <1>2, ValuesAt
<1>4. /\ these \subseteq DOMAIN objs
      /\ \A i \in these : /\ FirstOf(objs, objs[i].key) = i
                         /\ \A j \in 1 .. i : j \in these
  BY StoredAreFirst
<1>5. ASSUME NEW k \in keys
      PROVE  /\ k \in Key /\ "val" \in DOMAIN stored[k]
             /\ stored[k].val = objs[FirstOf(objs, k)].val
             /\ FirstOf(objs, k) \in these /\ objs[FirstOf(objs, k)].key = k
  <2>1. PICK taken : IsStart(these, objs, taken)
    OBVIOUS
  <2>2. IsObjects(objs) /\ BulkStored(objs, these, stored) /\ k \in KeysOf(objs, these)
    OBVIOUS
  <2> HIDE DEF objs
  <2> QED
    BY <2>1, <2>2, StoredVals
<1>6. /\ keys \subseteq Key /\ keys \subseteq all
      /\ DOMAIN stored = keys
      /\ \A k \in keys : full[k] = stored[k].val
  <2>1. keys \subseteq all
    BY <1>4 DEF KeysOf
  <2>2. DOMAIN stored = keys
    BY DEF BulkStored
  <2> QED
    BY <1>5, <2>1, <2>2
<1>7. /\ IsImage(ch, y)
      /\ Values(y)[t] = Over(new, Values(b)[t])
  <2>1. t \in Range(ch) /\ DOMAIN stored \subseteq Key
        /\ \A k \in DOMAIN stored : "val" \in DOMAIN stored[k]
    BY <1>1, <1>5, <1>6
  <2> HIDE DEF t
  <2>2. IsImage(ch, y) /\ Values(y)[t] = Over(new, Values(x)[t])
    BY <2>1, PutFacts
  <2> QED
    BY <1>2, <2>2
<1>8. Meant(ch, c, b)[t] = Over(full, Values(b)[t])
  BY <1>2 DEF Meant
<1>9. /\ DOMAIN new = keys /\ DOMAIN full = all
      /\ \A k \in keys : new[k] = full[k]
  BY <1>6
<1> HIDE DEF y, new, full, all, keys, objs, t
<1>10. /\ t \in DOMAIN y
       /\ DOMAIN Values(y)[t] = DOMAIN y[t]
       /\ \A k \in DOMAIN y[t] : Values(y)[t][k] = y[t][k].val
  BY <1>1, <1>7, ValuesAt DEF IsImage
<1>11. /\ DOMAIN Meant(ch, c, b)[t] = all \cup DOMAIN b[t]
       /\ \A k \in all : Meant(ch, c, b)[t][k] = full[k]
  <2>1. PICK old : old = Values(b)[t]
    OBVIOUS
  <2>2. DOMAIN Over(full, old) = all \cup DOMAIN old /\ \A k \in all : Over(full, old)[k] = full[k]
    BY <1>9, OverFacts
  <2> QED
    BY <1>3, <1>8, <2>1, <2>2
<1>12. /\ DOMAIN y[t] = keys \cup DOMAIN b[t]
       /\ \A k \in keys : y[t][k].val = full[k]
       /\ \A k \in DOMAIN b[t] \ keys : y[t][k].val = Values(b)[t][k]
  <2>1. PICK old : old = Values(b)[t]
    OBVIOUS
  <2>5. /\ DOMAIN Over(new, old) = DOMAIN new \cup DOMAIN old
        /\ \A k \in DOMAIN new : Over(new, old)[k] = new[k]
        /\ \A k \in DOMAIN old \ DOMAIN new : Over(new, old)[k] = old[k]
    BY OverFacts
  <2>2. /\ DOMAIN Over(new, old) = keys \cup DOMAIN old
        /\ \A k \in keys : Over(new, old)[k] = new[k]
        /\ \A k \in DOMAIN old \ keys : Over(new, old)[k] = old[k]
    <3>1. PICK d : d = DOMAIN new /\ d = keys
      BY <1>9
    <3> QED
      BY <2>5, <3>1
  <2>3. DOMAIN old = DOMAIN b[t] /\ Values(y)[t] = Over(new, old)
    BY <1>3, <1>7, <2>1
  <2>4. DOMAIN y[t] = keys \cup DOMAIN b[t]
    BY <1>10, <2>2, <2>3
  <2> QED
    BY <1>9, <1>10, <2>1, <2>2, <2>3, <2>4
<1>13. ASSUME NEW k \in keys PROVE Agrees(y, Meant(ch, c, b), t, k)
  BY <1>6, <1>11, <1>12 DEF Agrees
<1>14. ASSUME NEW k, k \notin keys PROVE Agrees(y, Values(b), t, k)
  BY <1>3, <1>12, <1>14 DEF Agrees
<1>15. PartDone(ch, c, b, y)
  <2>1. \A u \in DOMAIN b : \A k \in Key :
          Agrees(y, Values(b), u, k) \/ Agrees(y, Meant(ch, c, b), u, k)
    BY <1>1, <1>13, <1>14 DEF IsImage
  <2>2. Whole(ch, y)
    BY <1>1 DEF Whole
  <2>3. ASSUME NEW i \in DOMAIN objs, FirstOf(objs, objs[i].key) = i,
               ~Agrees(y, Values(b), t, objs[i].key), NEW j \in 1 .. i
        PROVE  Agrees(y, Meant(ch, c, b), t, objs[j].key)
    <3>1. objs[i].key \in keys
      BY <1>14, <2>3
    <3>2. i \in these
      BY <1>5, <2>3, <3>1
    <3>3. j \in these
      BY <1>4, <3>2
    <3>4. objs[j].key \in keys
      BY <3>3 DEF keys, KeysOf
    <3> QED
      BY <1>13, <3>4
  <2>4. \A i, j \in DOMAIN Order(ch, c) : ~(i < j)
    BY <1>1 DEF Order
  <2> QED
    BY <2>1, <2>2, <2>3, <2>4 DEF PartDone, objs, t
<1>16. ASSUME these = DOMAIN objs PROVE Reached(ch, c, b, y, Range(ch))
  <2>1. keys = all
    BY <1>16 DEF all, keys, KeysOf
  <2>2. Values(y)[t] = Meant(ch, c, b)[t]
    <3>1. new = [k \in keys |-> new[k]] /\ full = [k \in keys |-> full[k]]
      BY <1>9, <2>1 DEF new, full
    <3>2. new = full
      BY <1>9, <3>1
    <3> QED
      BY <1>7, <1>8, <3>2
  <2> QED
    BY <1>1, <2>2 DEF Reached
<1> QED
  BY <1>7, <1>15, <1>16 DEF y, t, objs

LEMMA InsertManyInCall ==
  ASSUME RunInv, CallInv, NEW p \in Proc, InsertMany(p)
  PROVE  InCall(p)
<1> DEFINE c == Call(p)
           objs == c.objs
           x == Image(p, "insert")
           b == run[p].before
           these == StoredOf(objs, DOMAIN x[Top])
           keys == {objs[i].key : i \in these}
           valOf(k) == objs[CHOOSE i \in these : objs[i].key = k].val
           complete == these = DOMAIN objs
           stored == [k \in keys |-> Stored(p, Top, valOf(k))]
           y == Put(x, Top, stored)
           failed == [Ended(p, "raised", 0) EXCEPT !.cause = "duplicate"]
           next == IF complete THEN Ended(p, "returned", Len(objs)) ELSE failed
<1>0. run[p].pc = "insert_many" /\ run[p].pc \notin {"idle", "done", "exit"}
  BY DEF InsertMany, At
<1>1. /\ IsChain(chain) /\ chain # <<>> /\ DOMAIN run[p] = RunFields
      /\ CallTyped(chain, c, run[p]) /\ IsCall(c, chain) /\ IsImage(chain, b)
      /\ IsImage(chain, x)
      /\ Undisturbed(p) =>
           run[p].outcome = "none" /\ UnderWay(chain, encrypted, c, run[p], x)
  BY <1>0, CallFacts
<1>2. c.op = "bulk"
  BY <1>0, <1>1 DEF CallTyped
<1>3. Len(chain) = 1 /\ IsObjects(objs)
  BY <1>1, <1>2 DEF IsCall, IsObjects
<1>4. /\ IF \E i \in DOMAIN objs : RefusesNull(objs[i].val) THEN Raises(p, "code")
         ELSE IF ~complete /\ Session(p, "insert") THEN Raises(p, "duplicate")
         ELSE Command(p, "insert", y, Cells(Top, keys), next)
      /\ UNCHANGED <<chain, encrypted, prog>>
  BY DEF InsertMany, PutObjects, Fixed
<1>5. /\ DOMAIN stored = keys
      /\ \A k \in keys : "val" \in DOMAIN stored[k] /\ stored[k].val = valOf(k)
  BY DEF Stored
<1>6. Undisturbed(p) => Reached(chain, c, b, x, {})
  BY <1>0, <1>1 DEF UnderWay, DoneTables
<1>7. Undisturbed(p) /\ ~complete => ~Possible(chain, encrypted, c, run[p])
  <2> SUFFICES ASSUME Undisturbed(p), Possible(chain, encrypted, c, run[p]) PROVE complete
    OBVIOUS
  <2>1. Top \in Range(chain) \ {}
    BY <1>1, ChainFacts DEF Top
  <2>2. DOMAIN x[Top] = DOMAIN b[Top]
    BY <1>1, <1>6, <2>1, ReachedAt
  <2>3. StoredOf(objs, DOMAIN b[chain[1]]) = DOMAIN objs
    BY <1>2 DEF Possible, Allowed
  <2> QED
    BY <2>2, <2>3 DEF Top
<1>8. CASE \E i \in DOMAIN objs : RefusesNull(objs[i].val)
  <2>1. ~Possible(chain, encrypted, c, run[p])
    BY <1>2, <1>8 DEF Possible, Allowed, RefusesNull
  <2> QED
    BY <1>0, <1>4, <1>8, <2>1, RaisesInCall
<1>9. CASE ~complete /\ Raises(p, "duplicate")
  BY <1>0, <1>4, <1>7, <1>9, RaisesInCall
<1>10. CASE /\ Command(p, "insert", y, Cells(Top, keys), next)
            /\ ~complete => ~Session(p, "insert")
  <2>1. IsImage(chain, y)
    <3>1. DOMAIN stored \subseteq Key
      <4>1. \A i \in these : i \in DOMAIN objs
        BY DEF StoredOf
      <4>2. \A i \in DOMAIN objs : objs[i].key \in Key
        BY <1>3, ObjectsFacts
      <4> QED
        BY <1>5, <4>1, <4>2
    <3>2. Top \in Range(chain)
      BY <1>1, ChainFacts DEF Top
    <3> HIDE DEF stored, keys
    <3> QED
      BY <1>1, <1>5, <3>1, <3>2, PutFacts
  <2>2. Undisturbed(p) =>
          /\ PartDone(chain, c, b, y)
          /\ complete => Reached(chain, c, b, y, Range(chain))
    <3> SUFFICES ASSUME Undisturbed(p)
                 PROVE  /\ PartDone(chain, c, b, y)
                        /\ complete => Reached(chain, c, b, y, Range(chain))
      OBVIOUS
    <3>1. IsStart(these, objs, DOMAIN x[chain[1]]) /\ BulkStored(objs, these, stored)
      BY <1>3, <1>5, StoredIsStart DEF Top, BulkStored, KeysOf
    <3>2. y = Put(x, chain[1], stored)
      BY DEF Top
    <3>3. Reached(chain, c, b, x, {})
      BY <1>6
    <3> HIDE DEF c, x, b, stored, these, keys, y
    <3>4. /\ PartDone(chain, c, b, Put(x, chain[1], stored))
          /\ these = DOMAIN c.objs => Reached(chain, c, b, Put(x, chain[1], stored), Range(chain))
      BY <1>1, <1>2, <1>3, <3>1, <3>3, BulkTable
    <3> QED
      BY <3>2, <3>4
  <2>3. ASSUME complete PROVE Kept(p, next) /\ (Undisturbed(p) => Holds(p, next, y))
    <3>1. next = Ended(p, "returned", Len(objs))
      BY <2>3
    <3> HIDE DEF next, y, complete
    <3>2. /\ Kept(p, next) /\ next.pc \in {"idle", "exit", "done"}
          /\ next.outcome = "returned" /\ next.rows = Len(objs)
      BY <1>0, <3>1, EndedShape
    <3>3. next.before = b
      BY <3>2 DEF Kept
    <3>4. MeantRows(chain, c, b) = Len(objs)
      BY <1>2 DEF MeantRows
    <3>5. Undisturbed(p) => Settled(chain, c, next, y)
      BY <2>2, <2>3, <3>2, <3>3, <3>4 DEF Settled
    <3> QED
      BY <3>2, <3>5 DEF Holds, CallHolds
  <2>4. ASSUME ~complete PROVE Kept(p, next) /\ (Undisturbed(p) => Holds(p, next, y))
    <3> DEFINE ended == Ended(p, "raised", 0)
    <3>1. next = [ended EXCEPT !.cause = "duplicate"]
      BY <2>4
    <3>2. ~prog[p].atomic
      BY <1>0, <1>10, <2>4 DEF RunInv, Session
    <3>3. /\ Kept(p, ended) /\ ended.pc \in {"idle", "done"} /\ ended.outcome = "raised"
      BY <1>0, <3>2, EndedShape
    <3> HIDE DEF next, y, ended, complete
    <3>4. /\ DOMAIN next = RunFields /\ next.pc = ended.pc /\ next.outcome = "raised"
          /\ next.at = ended.at /\ next.before = ended.before /\ next.alone = ended.alone
      BY <3>1, <3>3 DEF Kept, RunFields
    <3>5. CallTyped(chain, c, next)
      BY <3>3, <3>4 DEF CallTyped
    <3>6. Kept(p, next) /\ next.before = b
      BY <3>3, <3>4, <3>5 DEF Kept
    <3>7. Undisturbed(p) => ~Possible(chain, encrypted, c, next)
      BY <1>7, <2>4, <3>6 DEF Possible
    <3>8. Undisturbed(p) => Holds(p, next, y)
      BY <2>2, <3>3, <3>4, <3>6, <3>7 DEF Holds, CallHolds
    <3> QED
      BY <3>6, <3>8
  <2> HIDE DEF next, y
  <2> QED
    BY <1>0, <1>4, <1>10, <2>1, <2>3, <2>4, CommandInCall
<1> QED
  BY <1>4, <1>8, <1>9, <1>10

-----------------------------------------------------------------------------
(* update().                                                               *)

LEMMA UpdateFacts ==
  ASSUME NEW ch, NEW c, IsChain(ch), ch # <<>>, IsCall(c, ch), c.op = "update"
  PROVE  /\ DOMAIN c.sets \subseteq Range(ch) /\ DOMAIN c.sets # {}
         /\ Len(c.related) \in Nat /\ DOMAIN c.related = 1 .. Len(c.related)
         /\ \A i, j \in DOMAIN c.related : c.related[i] = c.related[j] => i = j
         /\ \A i \in DOMAIN c.related :
              c.related[i] \in DOMAIN c.sets /\ c.related[i] # Last(ch)
         /\ \A t \in DOMAIN c.sets \ {Last(ch)} : \E i \in DOMAIN c.related : c.related[i] = t
         /\ c.related = <<>> => DOMAIN c.sets = {Last(ch)}
         /\ c.related # <<>> => 1 \in DOMAIN c.related
<1>0. /\ DOMAIN c.sets \in (SUBSET Range(ch)) \ {{}}
      /\ IsChain(c.related) /\ Range(c.related) = DOMAIN c.sets \ {Last(ch)}
  BY DEF IsCall
<1>1. /\ DOMAIN c.sets \subseteq Range(ch) /\ DOMAIN c.sets # {}
      /\ IsChain(c.related) /\ Range(c.related) = DOMAIN c.sets \ {Last(ch)}
  BY <1>0
<1> DEFINE rs == c.related
<1>2. /\ Len(rs) \in Nat /\ DOMAIN rs = 1 .. Len(rs)
      /\ \A i, j \in DOMAIN rs : rs[i] = rs[j] => i = j
      /\ \A i \in DOMAIN rs : rs[i] \in Range(rs)
      /\ \A t \in Range(rs) : \E i \in DOMAIN rs : t = rs[i]
      /\ rs # <<>> => 1 \in DOMAIN rs
  BY <1>1, ChainFacts
<1>3. rs = <<>> => Range(rs) = {}
  BY DEF Range
<1> HIDE DEF rs
<1>4. /\ \A i \in DOMAIN rs : rs[i] \in DOMAIN c.sets /\ rs[i] # Last(ch)
      /\ \A t \in DOMAIN c.sets \ {Last(ch)} : \E i \in DOMAIN rs : rs[i] = t
      /\ rs = <<>> => DOMAIN c.sets = {Last(ch)}
  BY <1>1, <1>2, <1>3 DEF rs
<1> QED
  BY <1>1, <1>2, <1>4 DEF rs

\* A table that is not updated, or that has none of the rows.
LEMMA UnchangedTable ==
  ASSUME NEW ch, NEW c, NEW b, c.op = "update", NEW t \in DOMAIN b,
         t \notin DOMAIN c.sets \/ Matching(b[Last(ch)], c.where) = {}
  PROVE  Meant(ch, c, b)[t] = Values(b)[t]
<1>1. Meant(ch, c, b)[t]
        = [k \in DOMAIN b[t] |->
             IF k \in Matching(b[Last(ch)], c.where) /\ t \in DOMAIN c.sets THEN c.sets[t]
             ELSE Values(b)[t][k]]
  BY DEF Meant
<1>2. Values(b)[t] = [k \in DOMAIN b[t] |-> b[t][k].val]
      /\ \A k \in DOMAIN b[t] : Values(b)[t][k] = b[t][k].val
  BY ValuesFacts
<1> QED
  BY <1>1, <1>2

LEMMA UpdateTable ==
  ASSUME NEW ch, NEW c, NEW b, NEW x, NEW t \in DOMAIN c.sets, NEW keys, NEW tables,
         IsImage(ch, b), IsImage(ch, x), c.op = "update", t \in Range(ch) \ tables,
         Reached(ch, c, b, x, tables),
         keys = Matching(b[Last(ch)], c.where) \cap DOMAIN b[t]
  PROVE  /\ IsImage(ch, Reset(x, t, keys, c.sets[t]))
         /\ Reached(ch, c, b, Reset(x, t, keys, c.sets[t]), tables \cup {t})
<1> DEFINE y == Reset(x, t, keys, c.sets[t])
           chosen == Matching(b[Last(ch)], c.where)
<1>1. /\ Values(x)[t] = Values(b)[t] /\ DOMAIN x[t] = DOMAIN b[t]
  BY ReachedAt
<1>2. t \in DOMAIN b /\ t \in Range(ch)
  BY DEF IsImage
<1>3. /\ IsImage(ch, y)
      /\ \A u \in Range(ch) \ {t} : Values(y)[u] = Values(x)[u]
      /\ Values(y)[t] = [k \in DOMAIN x[t] |-> IF k \in keys THEN c.sets[t] ELSE Values(x)[t][k]]
  BY <1>2, ResetFacts
<1>4. Meant(ch, c, b)[t] = [k \in DOMAIN b[t] |->
         IF k \in chosen /\ t \in DOMAIN c.sets THEN c.sets[t] ELSE Values(b)[t][k]]
  BY <1>2 DEF Meant
<1> HIDE DEF y, chosen
<1>5. Values(y)[t] = [k \in DOMAIN b[t] |-> IF k \in keys THEN c.sets[t] ELSE Values(b)[t][k]]
  BY <1>1, <1>3
<1>6. keys = chosen \cap DOMAIN b[t]
  BY DEF chosen
<1>7. Values(y)[t] = Meant(ch, c, b)[t]
  BY <1>4, <1>5, <1>6
<1>8. Reached(ch, c, b, y, tables \cup {t})
  BY <1>3, <1>7, ReachedNext
<1> QED
  BY <1>3, <1>8 DEF y

\* An update has reached all its tables.
LEMMA UpdateComplete ==
  ASSUME NEW ch, NEW c, NEW b, NEW x, NEW tables, IsImage(ch, b), c.op = "update",
         Reached(ch, c, b, x, tables),
         Matching(b[Last(ch)], c.where) = {} \/ DOMAIN c.sets \subseteq tables
  PROVE  Reached(ch, c, b, x, Range(ch))
<1>1. ASSUME NEW t \in Range(ch), t \notin tables
      PROVE  Meant(ch, c, b)[t] = Values(b)[t]
  <2>1. t \in DOMAIN b
    BY DEF IsImage
  <2>2. t \notin DOMAIN c.sets \/ Matching(b[Last(ch)], c.where) = {}
    BY <1>1
  <2> QED
    BY <2>1, <2>2, UnchangedTable
<1> QED
  BY <1>1 DEF Reached

\* The rows of the model have those of its parents.
LEMMA ChosenEverywhere ==
  ASSUME NEW ch, NEW c, NEW r, IsChain(ch), ch # <<>>, Whole(ch, r.before), NEW t \in Range(ch)
  PROVE  Chosen(ch, c, r) \cap DOMAIN r.before[t] = Chosen(ch, c, r)
<1>1. PICK i \in DOMAIN ch : t = ch[i]
  BY ChainFacts
<1>2. Len(ch) \in DOMAIN ch /\ i <= Len(ch) /\ Last(ch) = ch[Len(ch)]
  BY ChainFacts
<1>3. DOMAIN r.before[Last(ch)] \subseteq DOMAIN r.before[t]
  BY <1>1, <1>2 DEF Whole
<1> QED
  BY <1>3 DEF Chosen, Matching

LEMMA UpdateSelectInCall ==
  ASSUME RunInv, CallInv, NEW p \in Proc, UpdateSelect(p)
  PROVE  InCall(p)
<1> DEFINE c == Call(p)
           x == Image(p, "find")
           b == run[p].before
           chosen == IF c.related = <<>> THEN {} ELSE Matching(x[Own], c.where)
           empty == c.related # <<>> /\ chosen = {}
           next == IF empty THEN Ended(p, "returned", 0)
                   ELSE [run[p] EXCEPT !.pc = "primary", !.ids = chosen]
<1>0. run[p].pc = "select" /\ run[p].pc \notin {"idle", "done", "exit"}
  BY DEF UpdateSelect, At
<1>1. /\ IsChain(chain) /\ chain # <<>> /\ DOMAIN run[p] = RunFields
      /\ CallTyped(chain, c, run[p]) /\ IsCall(c, chain) /\ IsImage(chain, b)
      /\ IsImage(chain, x) /\ x = Seen(p)
      /\ Undisturbed(p) =>
           run[p].outcome = "none" /\ UnderWay(chain, encrypted, c, run[p], x)
  BY <1>0, CallFacts
<1>2. c.op = "update"
  BY <1>0, <1>1 DEF CallTyped
<1>3. run' = [run EXCEPT ![p] = next] /\ UNCHANGED <<docs, txn, chain, encrypted, prog>>
  BY DEF UpdateSelect, Fixed, RunInv
<1>4. Undisturbed(p) =>
        /\ Reached(chain, c, b, x, {})
        /\ c.related # <<>> => chosen = Chosen(chain, c, run[p])
  <2> SUFFICES ASSUME Undisturbed(p)
               PROVE  /\ Reached(chain, c, b, x, {})
                      /\ Matching(x[Own], c.where) = Chosen(chain, c, run[p])
    OBVIOUS
  <2>1. PICK tables : tables = {} /\ Reached(chain, c, b, x, tables)
    BY <1>0, <1>1 DEF UnderWay, DoneTables
  <2>2. Own \in Range(chain) \ tables /\ Own = Last(chain)
    BY <1>1, <2>1, ChainFacts DEF Own
  <2>3. \A v : Matching(x[Own], v) = Matching(b[Own], v)
    <3>1. PICK own : own = Own
      OBVIOUS
    <3>2. own \in Range(chain) \ tables
      BY <2>2, <3>1
    <3>3. IsImage(chain, b) /\ IsImage(chain, x) /\ Reached(chain, c, b, x, tables)
      BY <1>1, <2>1
    <3> HIDE DEF c, b, x, chosen, empty, next
    <3>4. \A v : Matching(x[own], v) = Matching(b[own], v)
      BY <3>2, <3>3, ReachedAt
    <3> QED
      BY <3>1, <3>4
  <2> QED
    BY <2>1, <2>2, <2>3 DEF Chosen
<1> HIDE DEF chosen
<1>5. CASE empty
  <2>1. next = Ended(p, "returned", 0)
    BY <1>5
  <2> HIDE DEF next
  <2>2. /\ Kept(p, next) /\ next.pc \in {"idle", "exit", "done"}
        /\ next.outcome = "returned" /\ next.rows = 0
    BY <1>0, <2>1, EndedShape
  <2>3. next.before = b
    BY <2>2 DEF Kept
  <2>4. ASSUME Undisturbed(p) PROVE Settled(chain, c, next, x)
    <3>1. Matching(b[Last(chain)], c.where) = {}
      BY <1>4, <1>5, <2>4 DEF Chosen
    <3>2. Reached(chain, c, b, x, {})
      BY <1>4, <2>4
    <3> HIDE DEF c, b, x
    <3>3. Reached(chain, c, b, x, Range(chain))
      BY <1>1, <1>2, <3>1, <3>2, UpdateComplete
    <3>4. MeantRows(chain, c, b) = 0
      BY <1>2, <3>1, FS_EmptySet DEF MeantRows
    <3> QED
      BY <2>2, <2>3, <3>3, <3>4 DEF Settled, b
  <2>5. Undisturbed(p) => Holds(p, next, x)
    BY <2>2, <2>4 DEF Holds, CallHolds
  <2>6. Looks(p, next)
    BY <1>1, <1>3, <2>2, <2>5 DEF Looks
  <2> QED
    BY <1>0, <1>3, <2>6 DEF InCall
<1>6. CASE ~empty
  <2>1. next = [run[p] EXCEPT !.pc = "primary", !.ids = chosen]
    BY <1>6
  <2> HIDE DEF next
  <2>2. /\ DOMAIN next = RunFields /\ next.pc = "primary" /\ next.ids = chosen
        /\ next.at = run[p].at /\ next.before = b /\ next.alone = run[p].alone
        /\ next.outcome = run[p].outcome
    BY <1>1, <2>1 DEF RunFields
  <2>3. CallTyped(chain, c, next)
    BY <1>2, <2>2 DEF CallTyped
  <2>4. Kept(p, next)
    BY <2>2, <2>3 DEF Kept
  <2>5. ASSUME Undisturbed(p) PROVE Holds(p, next, x)
    <3>1. DoneTables(chain, c, next) = {}
      BY <2>2 DEF DoneTables
    <3>2. UpdateFits(chain, c, next)
      BY <1>4, <2>2, <2>5 DEF UpdateFits, Chosen
    <3>3. SaveFits(chain, encrypted, c, next) /\ DeleteFits(chain, c, next)
      BY <2>2 DEF SaveFits, DeleteFits
    <3>4. UnderWay(chain, encrypted, c, next, x)
      BY <1>4, <2>2, <2>3, <2>5, <3>1, <3>2, <3>3 DEF UnderWay
    <3> QED
      BY <1>1, <2>2, <2>5, <3>4 DEF Holds, CallHolds
  <2>6. Looks(p, next)
    BY <1>1, <1>3, <2>4, <2>5 DEF Looks
  <2> QED
    BY <1>0, <1>3, <2>6 DEF InCall
<1> QED
  BY <1>5, <1>6

\* The end of an update.
LEMMA UpdateEnds ==
  ASSUME RunInv, CallInv, NEW p \in Proc, run[p].pc \notin {"idle", "done"},
         Call(p).op = "update", NEW rows, NEW image,
         Undisturbed(p) =>
           /\ Reached(chain, Call(p), run[p].before, image, Range(chain))
           /\ Whole(chain, run[p].before) => rows = Cardinality(Chosen(chain, Call(p), run[p]))
  PROVE  /\ Kept(p, Ended(p, "returned", rows))
         /\ Undisturbed(p) => Holds(p, Ended(p, "returned", rows), image)
<1> DEFINE c == Call(p)
           b == run[p].before
           next == Ended(p, "returned", rows)
<1>1. /\ Kept(p, next) /\ next.pc \in {"idle", "exit", "done"}
      /\ next.outcome = "returned" /\ next.rows = rows
  BY EndedShape
<1> HIDE DEF next
<1>2. next.before = b
  BY <1>1 DEF Kept
<1>3. MeantRows(chain, c, b) = Cardinality(Chosen(chain, c, run[p]))
  BY DEF MeantRows, Chosen
<1>4. Undisturbed(p) => Settled(chain, c, next, image)
  BY <1>1, <1>2, <1>3 DEF Settled
<1>5. Undisturbed(p) => Holds(p, next, image)
  BY <1>1, <1>4 DEF Holds, CallHolds
<1> QED
  BY <1>1, <1>5 DEF next

\* The update goes on with its i-th parent.
LEMMA UpdateGoesOn ==
  ASSUME RunInv, CallInv, NEW p \in Proc, run[p].pc \in {"primary", "related"},
         Call(p).op = "update", NEW rows, NEW image, NEW i \in DOMAIN Call(p).related,
         NEW next,
         next = [run[p] EXCEPT !.pc = "related", !.rows = rows, !.i = i],
         Undisturbed(p) =>
           /\ Reached(chain, Call(p), run[p].before, image,
                      {Last(chain)} \cup {Call(p).related[j] : j \in 1 .. i - 1})
           /\ Whole(chain, run[p].before) =>
                \/ rows = Cardinality(Chosen(chain, Call(p), run[p]))
                \/ Last(chain) \notin DOMAIN Call(p).sets /\ i = 1 /\ rows = 0
  PROVE  Kept(p, next) /\ (Undisturbed(p) => Holds(p, next, image))
<1> DEFINE c == Call(p)
           b == run[p].before
<1>0. run[p].pc \notin {"idle", "done", "exit"}
  OBVIOUS
<1>1. /\ IsChain(chain) /\ chain # <<>> /\ DOMAIN run[p] = RunFields
      /\ IsCall(c, chain)
      /\ Undisturbed(p) =>
           run[p].outcome = "none" /\ UnderWay(chain, encrypted, c, run[p], Seen(p))
  BY <1>0, CallFacts
<1>2. /\ DOMAIN next = RunFields /\ next.pc = "related" /\ next.rows = rows /\ next.i = i
      /\ next.at = run[p].at /\ next.before = b /\ next.alone = run[p].alone
      /\ next.outcome = run[p].outcome /\ next.ids = run[p].ids
  BY <1>1 DEF RunFields
<1>3. CallTyped(chain, c, next)
  BY <1>2 DEF CallTyped
<1>4. Kept(p, next)
  BY <1>2, <1>3 DEF Kept
<1>5. ASSUME Undisturbed(p) PROVE Holds(p, next, image)
  <2>1. DoneTables(chain, c, next)
          = {Last(chain)} \cup {c.related[j] : j \in 1 .. i - 1}
    BY <1>2 DEF DoneTables
  <2>2. Chosen(chain, c, next) = Chosen(chain, c, run[p])
    BY <1>2 DEF Chosen
  <2>3. c.related # <<>> => run[p].ids = Chosen(chain, c, run[p])
    BY <1>1, <1>5 DEF UnderWay, UpdateFits
  <2>4. UpdateFits(chain, c, next)
    BY <1>2, <1>5, <2>2, <2>3 DEF UpdateFits
  <2>5. SaveFits(chain, encrypted, c, next) /\ DeleteFits(chain, c, next)
    BY <1>2 DEF SaveFits, DeleteFits
  <2>6. UnderWay(chain, encrypted, c, next, image)
    BY <1>2, <1>3, <1>5, <2>1, <2>4, <2>5 DEF UnderWay
  <2> QED
    BY <1>1, <1>2, <1>5, <2>6 DEF Holds, CallHolds
<1> QED
  BY <1>4, <1>5

\* A table that the process sees as it was, and the rows that are chosen.
LEMMA OwnTable ==
  ASSUME NEW ch, NEW c, NEW r, NEW x, IsChain(ch), ch # <<>>, IsImage(ch, r.before),
         IsImage(ch, x), Reached(ch, c, r.before, x, {})
  PROVE  /\ \A v : Matching(x[Last(ch)], v) = Matching(r.before[Last(ch)], v)
         /\ Matching(x[Last(ch)], c.where) = Chosen(ch, c, r)
         /\ Chosen(ch, c, r) \cap DOMAIN x[Last(ch)] = Chosen(ch, c, r)
         /\ Chosen(ch, c, r) \cap DOMAIN r.before[Last(ch)] = Chosen(ch, c, r)
<1> DEFINE b == r.before
<1>0. PICK own : own = Last(ch)
  OBVIOUS
<1>1. own = Last(ch) /\ own \in Range(ch)
  BY <1>0, ChainFacts
<1>5. PICK tables : tables = {}
  OBVIOUS
<1>2. IsImage(ch, b) /\ Reached(ch, c, b, x, tables) /\ own \in Range(ch) \ tables
  BY <1>1, <1>5
<1> HIDE DEF b
<1>3. DOMAIN x[own] = DOMAIN b[own] /\ \A v : Matching(x[own], v) = Matching(b[own], v)
  BY <1>2, ReachedAt
<1>4. \A v : Matching(b[own], v) \subseteq DOMAIN b[own]
  BY DEF Matching
<1> QED
  BY <1>1, <1>3, <1>4 DEF Chosen, b

LEMMA UpdatePrimaryInCall ==
  ASSUME RunInv, CallInv, NEW p \in Proc, UpdatePrimary(p)
  PROVE  InCall(p)
<1> DEFINE c == Call(p)
           x == Image(p, "update")
           b == run[p].before
           keys == IF c.related = <<>> THEN Matching(x[Own], c.where)
                   ELSE run[p].ids \cap DOMAIN x[Own]
           y == Reset(x, Own, keys, c.sets[Own])
           after(rows) == IF c.related = <<>> THEN Ended(p, "returned", rows)
                          ELSE [run[p] EXCEPT !.pc = "related", !.rows = rows, !.i = 1]
<1>0. run[p].pc = "primary" /\ run[p].pc \notin {"idle", "done", "exit"}
  BY DEF UpdatePrimary, At
<1>1. /\ IsChain(chain) /\ chain # <<>> /\ DOMAIN run[p] = RunFields
      /\ CallTyped(chain, c, run[p]) /\ IsCall(c, chain) /\ IsImage(chain, b)
      /\ IsImage(chain, x) /\ x = Seen(p)
      /\ Undisturbed(p) =>
           run[p].outcome = "none" /\ UnderWay(chain, encrypted, c, run[p], x)
  BY <1>0, CallFacts
<1>2. c.op = "update"
  BY <1>0, <1>1 DEF CallTyped
<1>3. /\ DOMAIN c.sets \subseteq Range(chain) /\ DOMAIN c.sets # {}
      /\ c.related = <<>> => DOMAIN c.sets = {Last(chain)}
      /\ c.related # <<>> => 1 \in DOMAIN c.related
  BY <1>1, <1>2, UpdateFacts
<1>4. /\ IF encrypted /\ c.expression THEN Raises(p, "code")
         ELSE IF Own \notin DOMAIN c.sets
         THEN run' = [run EXCEPT ![p] = after(0)] /\ UNCHANGED <<docs, txn>>
         ELSE IF Refused(UpdateMethod("other", None)) THEN Raises(p, "code")
         ELSE Command(p, "update", y, Cells(Own, keys), after(Cardinality(keys)))
      /\ UNCHANGED <<chain, encrypted, prog>>
  BY DEF UpdatePrimary, OwnKeys, Fixed
<1>5. Own = Last(chain) /\ Own \in Range(chain)
  BY <1>1, ChainFacts DEF Own
<1>6. encrypted => ~Possible(chain, encrypted, c, run[p])
  BY <1>2 DEF Possible, Allowed
<1>7. Undisturbed(p) =>
        /\ Reached(chain, c, b, x, {})
        /\ keys = Chosen(chain, c, run[p])
        /\ Chosen(chain, c, run[p]) \cap DOMAIN b[Own] = Chosen(chain, c, run[p])
  <2> SUFFICES ASSUME Undisturbed(p)
               PROVE  /\ Reached(chain, c, b, x, {})
                      /\ keys = Chosen(chain, c, run[p])
                      /\ Chosen(chain, c, run[p]) \cap DOMAIN b[Own] = Chosen(chain, c, run[p])
    OBVIOUS
  <2>1. Reached(chain, c, b, x, {})
    BY <1>0, <1>1 DEF UnderWay, DoneTables
  <2>2. c.related # <<>> => run[p].ids = Chosen(chain, c, run[p])
    BY <1>0, <1>1 DEF UnderWay, UpdateFits
  <2>3. PICK r : r = run[p]
    OBVIOUS
  <2>4. IsImage(chain, r.before) /\ IsImage(chain, x) /\ Reached(chain, c, r.before, x, {})
    BY <1>1, <2>1, <2>3
  <2>5. /\ Matching(x[Last(chain)], c.where) = Chosen(chain, c, r)
        /\ Chosen(chain, c, r) \cap DOMAIN x[Last(chain)] = Chosen(chain, c, r)
        /\ Chosen(chain, c, r) \cap DOMAIN r.before[Last(chain)] = Chosen(chain, c, r)
    <3> HIDE DEF c, x, b, keys, y
    <3> QED
      BY <1>1, <2>4, OwnTable
  <2> QED
    BY <1>5, <2>1, <2>2, <2>3, <2>5
<1>8. \A j : j \notin 1 .. 1 - 1
  OBVIOUS
<1> HIDE DEF keys
<1>9. CASE encrypted /\ Raises(p, "code")
  BY <1>0, <1>4, <1>6, <1>9, RaisesInCall
<1>10. CASE Own \notin DOMAIN c.sets /\ run' = [run EXCEPT ![p] = after(0)]
              /\ UNCHANGED <<docs, txn>>
  <2> DEFINE next == after(0)
  <2>1. c.related # <<>> /\ 1 \in DOMAIN c.related
    BY <1>3, <1>5, <1>10
  <2>2. next = [run[p] EXCEPT !.pc = "related", !.rows = 0, !.i = 1]
    BY <2>1
  <2> HIDE DEF next
  <2>3. ASSUME Undisturbed(p)
        PROVE  Reached(chain, c, b, x, {Last(chain)} \cup {c.related[j] : j \in 1 .. 1 - 1})
    <3>1. Own \in DOMAIN b
      BY <1>1, <1>5 DEF IsImage
    <3>2. Meant(chain, c, b)[Own] = Values(b)[Own]
      <4> HIDE DEF c, b
      <4> QED
        BY <1>2, <1>10, <3>1, UnchangedTable
    <3>3. {Last(chain)} \cup {c.related[j] : j \in 1 .. 1 - 1} = {Own}
      BY <1>5, <1>8
    <3>4. Reached(chain, c, b, x, {})
      BY <1>7, <2>3
    <3>5. Reached(chain, c, b, x, {Own})
      <4> HIDE DEF c, b, x
      <4> QED
        BY <3>2, <3>4 DEF Reached
    <3> QED
      BY <3>3, <3>5
  <2>4. Last(chain) \notin DOMAIN c.sets
    BY <1>5, <1>10
  <2>5. Kept(p, next) /\ (Undisturbed(p) => Holds(p, next, x))
    <3> HIDE DEF x
    <3> QED
      BY <1>0, <1>2, <2>1, <2>2, <2>3, <2>4, UpdateGoesOn
  <2>6. Looks(p, next)
    BY <1>1, <1>10, <2>5 DEF Looks, next
  <2> QED
    BY <1>0, <1>4, <2>6 DEF InCall
<1>11. CASE Refused(UpdateMethod("other", None)) /\ Raises(p, "code")
  <2>1. encrypted
    BY <1>11 DEF Refused
  <2> QED
    BY <1>0, <1>4, <1>6, <1>11, <2>1, RaisesInCall
<1>12. CASE Own \in DOMAIN c.sets
            /\ Command(p, "update", y, Cells(Own, keys), after(Cardinality(keys)))
  <2> DEFINE n == Cardinality(keys)
             next == after(n)
  <2>1. IsImage(chain, y)
    <3>1. PICK own, val : own = Own /\ val = c.sets[Own] /\ own \in Range(chain)
      BY <1>5
    <3>2. IsImage(chain, Reset(x, own, keys, val))
      <4> HIDE DEF x, c
      <4> QED
        BY <1>1, <3>1, ResetFacts
    <3> QED
      BY <3>1, <3>2
  <2>2. ASSUME Undisturbed(p) PROVE Reached(chain, c, b, y, {Own})
    <3>1. PICK tables, t : tables = {} /\ t = Own
      OBVIOUS
    <3>2. /\ t \in Range(chain) \ tables /\ t \in DOMAIN c.sets
          /\ Reached(chain, c, b, x, tables)
          /\ keys = Matching(b[Last(chain)], c.where) \cap DOMAIN b[t]
      BY <1>5, <1>7, <1>12, <2>2, <3>1 DEF Chosen
    <3>3. Reached(chain, c, b, Reset(x, t, keys, c.sets[t]), tables \cup {t})
      <4> HIDE DEF x, c, b
      <4> QED
        BY <1>1, <1>2, <3>2, UpdateTable
    <3> QED
      BY <3>1, <3>3
  <2>3. Undisturbed(p) => n = Cardinality(Chosen(chain, c, run[p]))
    BY <1>7
  <2> HIDE DEF y, n
  <2>4. Kept(p, next) /\ (Undisturbed(p) => Holds(p, next, y))
    <3>1. CASE c.related = <<>>
      <4>1. next = Ended(p, "returned", n)
        BY <3>1
      <4> HIDE DEF next
      <4>2. ASSUME Undisturbed(p) PROVE Reached(chain, c, b, y, Range(chain))
        <5>1. PICK tables : tables = {Own}
          OBVIOUS
        <5>2. Reached(chain, c, b, y, tables) /\ DOMAIN c.sets \subseteq tables
          BY <1>3, <1>5, <2>2, <3>1, <4>2, <5>1
        <5> HIDE DEF c, b
        <5> QED
          BY <1>1, <1>2, <5>2, UpdateComplete
      <4> QED
        BY <1>0, <1>2, <2>3, <4>1, <4>2, UpdateEnds
    <3>2. CASE c.related # <<>>
      <4>1. next = [run[p] EXCEPT !.pc = "related", !.rows = n, !.i = 1]
        BY <3>2
      <4> HIDE DEF next
      <4>2. {Last(chain)} \cup {c.related[j] : j \in 1 .. 1 - 1} = {Own}
        BY <1>5, <1>8
      <4>3. Undisturbed(p) =>
              Reached(chain, c, b, y, {Last(chain)} \cup {c.related[j] : j \in 1 .. 1 - 1})
        BY <2>2, <4>2
      <4> QED
        BY <1>0, <1>2, <1>3, <2>3, <3>2, <4>1, <4>3, UpdateGoesOn
    <3> QED
      BY <3>1, <3>2
  <2>5. Command(p, "update", y, Cells(Own, keys), next)
    BY <1>12 DEF y, n
  <2> HIDE DEF next
  <2> QED
    BY <1>0, <1>4, <2>1, <2>4, <2>5, CommandInCall
<1> QED
  BY <1>4, <1>9, <1>10, <1>11, <1>12

LEMMA UpdateRelatedInCall ==
  ASSUME RunInv, CallInv, NEW p \in Proc, UpdateRelated(p)
  PROVE  InCall(p)
<1> DEFINE c == Call(p)
           i == run[p].i
           t == c.related[run[p].i]
           x == Image(p, "update")
           b == run[p].before
           keys == run[p].ids \cap DOMAIN x[t]
           rows == RowsWith(p, Cardinality(keys))
           y == Reset(x, t, keys, c.sets[t])
           done == {Last(chain)} \cup {c.related[j] : j \in 1 .. i - 1}
           next == IF run[p].i = Len(c.related) THEN Ended(p, "returned", rows)
                   ELSE [run[p] EXCEPT !.i = @ + 1, !.rows = rows]
<1>0. run[p].pc = "related" /\ run[p].pc \notin {"idle", "done", "exit"}
  BY DEF UpdateRelated, At
<1>1. /\ IsChain(chain) /\ chain # <<>> /\ DOMAIN run[p] = RunFields
      /\ CallTyped(chain, c, run[p]) /\ IsCall(c, chain) /\ IsImage(chain, b)
      /\ IsImage(chain, x) /\ x = Seen(p)
      /\ Undisturbed(p) =>
           run[p].outcome = "none" /\ UnderWay(chain, encrypted, c, run[p], x)
  BY <1>0, CallFacts
<1>2. c.op = "update" /\ i \in DOMAIN c.related
  BY <1>0, <1>1 DEF CallTyped
<1>3. /\ DOMAIN c.sets \subseteq Range(chain) /\ DOMAIN c.sets # {}
      /\ Len(c.related) \in Nat /\ DOMAIN c.related = 1 .. Len(c.related)
      /\ \A l, j \in DOMAIN c.related : c.related[l] = c.related[j] => l = j
      /\ \A l \in DOMAIN c.related :
           c.related[l] \in DOMAIN c.sets /\ c.related[l] # Last(chain)
      /\ \A u \in DOMAIN c.sets \ {Last(chain)} : \E l \in DOMAIN c.related : c.related[l] = u
  BY <1>1, <1>2, UpdateFacts
<1>4. /\ IF Refused(UpdateMethod("other", None)) THEN Raises(p, "code")
         ELSE Command(p, "update", y, Cells(t, keys), next)
      /\ UNCHANGED <<chain, encrypted, prog>>
  BY DEF UpdateRelated, Fixed
<1>5. /\ t \in DOMAIN c.sets /\ t \in Range(chain) /\ t # Last(chain)
      /\ i \in Nat /\ i >= 1 /\ i <= Len(c.related)
  BY <1>2, <1>3
<1>6. c.related # <<>>
  BY <1>2, <1>3
<1>7. t \notin done
  <2>1. \A j \in 1 .. i - 1 : j \in DOMAIN c.related /\ j # i
    BY <1>3, <1>5
  <2> QED
    BY <1>2, <1>3, <1>5, <2>1
<1>8. ASSUME Undisturbed(p)
      PROVE  /\ Reached(chain, c, b, x, done)
             /\ keys = Chosen(chain, c, run[p]) \cap DOMAIN b[t]
             /\ Whole(chain, b) => keys = Chosen(chain, c, run[p])
  <2>1. Reached(chain, c, b, x, done) /\ run[p].ids = Chosen(chain, c, run[p])
    BY <1>0, <1>1, <1>6, <1>8 DEF UnderWay, DoneTables, UpdateFits
  <2>2. PICK u, r : u = t /\ r = run[p]
    OBVIOUS
  <2>3. /\ u \in Range(chain) \ done /\ Reached(chain, c, b, x, done)
        /\ IsImage(chain, b) /\ IsImage(chain, x)
    BY <1>1, <1>5, <1>7, <2>1, <2>2
  <2>4. DOMAIN x[u] = DOMAIN b[u]
    <3> HIDE DEF c, x, b, done, t, i
    <3> QED
      BY <2>3, ReachedAt
  <2>5. Whole(chain, r.before) => Chosen(chain, c, r) \cap DOMAIN r.before[u] = Chosen(chain, c, r)
    <3> HIDE DEF c, x, b, done, t, i
    <3> QED
      BY <1>1, <2>3, ChosenEverywhere
  <2> QED
    BY <2>1, <2>2, <2>4, <2>5
<1>9. ASSUME Undisturbed(p), Whole(chain, b) PROVE rows = Cardinality(Chosen(chain, c, run[p]))
  <2>1. keys = Chosen(chain, c, run[p])
    BY <1>8, <1>9
  <2>2. \/ run[p].rows = Cardinality(Chosen(chain, c, run[p]))
        \/ Last(chain) \notin DOMAIN c.sets /\ run[p].rows = 0
    BY <1>0, <1>1, <1>9 DEF UnderWay, UpdateFits
  <2> HIDE DEF keys
  <2>3. rows = Cardinality(keys) \/ rows = run[p].rows
    BY DEF RowsWith
  <2>4. Last(chain) \notin DOMAIN c.sets /\ run[p].rows = 0 => rows = Cardinality(keys)
    BY DEF RowsWith, Own
  <2> QED
    BY <2>1, <2>2, <2>3, <2>4
<1> HIDE DEF keys, rows
<1>10. IsImage(chain, y)
  <2>1. PICK u, val : u = t /\ val = c.sets[t] /\ u \in Range(chain)
    BY <1>5
  <2>2. IsImage(chain, Reset(x, u, keys, val))
    <3> HIDE DEF x, c, t
    <3> QED
      BY <1>1, <2>1, ResetFacts
  <2> QED
    BY <2>1, <2>2
<1>11. ASSUME Undisturbed(p) PROVE Reached(chain, c, b, y, done \cup {t})
  <2>1. PICK u : u = t
    OBVIOUS
  <2>2. /\ u \in Range(chain) \ done /\ u \in DOMAIN c.sets
        /\ Reached(chain, c, b, x, done)
        /\ keys = Matching(b[Last(chain)], c.where) \cap DOMAIN b[u]
    BY <1>5, <1>7, <1>8, <1>11, <2>1 DEF Chosen
  <2>3. Reached(chain, c, b, Reset(x, u, keys, c.sets[u]), done \cup {u})
    <3> HIDE DEF x, c, b, done, t, i
    <3> QED
      BY <1>1, <1>2, <2>2, UpdateTable
  <2> QED
    BY <2>1, <2>3
<1>12. done \cup {t} = {Last(chain)} \cup {c.related[j] : j \in 1 .. i}
  <2>1. 1 .. i = (1 .. i - 1) \cup {i}
    BY <1>5
  <2> QED
    BY <2>1
<1>13. CASE Refused(UpdateMethod("other", None)) /\ Raises(p, "code")
  <2>1. encrypted
    BY <1>13 DEF Refused
  <2>2. ~Possible(chain, encrypted, c, run[p])
    BY <1>2, <2>1 DEF Possible, Allowed
  <2> QED
    BY <1>0, <1>4, <1>13, <2>2, RaisesInCall
<1>14. CASE Command(p, "update", y, Cells(t, keys), next)
  <2> HIDE DEF y
  <2>1. Kept(p, next) /\ (Undisturbed(p) => Holds(p, next, y))
    <3>1. CASE i = Len(c.related)
      <4>1. next = Ended(p, "returned", rows)
        BY <3>1
      <4> HIDE DEF next
      <4>2. ASSUME Undisturbed(p) PROVE Reached(chain, c, b, y, Range(chain))
        <5>1. PICK tables : tables = done \cup {t}
          OBVIOUS
        <5>2. Reached(chain, c, b, y, tables)
          BY <1>11, <4>2, <5>1
        <5>3. DOMAIN c.sets \subseteq tables
          <6>1. \A u \in DOMAIN c.sets \ {Last(chain)} : \E l \in 1 .. i : c.related[l] = u
            BY <1>3, <3>1
          <6> QED
            BY <1>12, <5>1, <6>1
        <5> HIDE DEF c, b, t, done, i
        <5> QED
          BY <1>1, <1>2, <5>2, <5>3, UpdateComplete
      <4> QED
        BY <1>0, <1>2, <1>9, <4>1, <4>2, UpdateEnds
    <3>2. CASE i # Len(c.related)
      <4>1. PICK j : j = i + 1
        OBVIOUS
      <4>2. j \in DOMAIN c.related /\ j - 1 = i
        <5>1. PICK n \in Nat : n = Len(c.related)
          BY <1>3
        <5>2. i \in Nat /\ i >= 1 /\ i <= n /\ i # n
          BY <1>5, <3>2, <5>1
        <5>3. j \in 1 .. n /\ j - 1 = i
          BY <4>1, <5>2
        <5> QED
          BY <1>3, <5>1, <5>3
      <4>3. next = [run[p] EXCEPT !.pc = "related", !.rows = rows, !.i = j]
        <5>1. next = [run[p] EXCEPT !.i = j, !.rows = rows]
          BY <3>2, <4>1
        <5> HIDE DEF next
        <5>3. [run[p] EXCEPT !.i = j, !.rows = rows]
                = [run[p] EXCEPT !.pc = "related", !.rows = rows, !.i = j]
          BY <1>0, <1>1 DEF RunFields
        <5> QED
          BY <5>1, <5>3
      <4> HIDE DEF next
      <4>4. Undisturbed(p) =>
              Reached(chain, c, b, y, {Last(chain)} \cup {c.related[l] : l \in 1 .. j - 1})
        BY <1>11, <1>12, <4>2
      <4> HIDE DEF y
      <4>5. run[p].pc \in {"primary", "related"}
        BY <1>0
      <4> QED
        BY <1>2, <1>9, <4>2, <4>3, <4>4, <4>5, UpdateGoesOn
    <3> QED
      BY <3>1, <3>2
  <2>2. IsImage(chain, y)
    BY <1>10
  <2> HIDE DEF next
  <2> QED
    BY <1>0, <1>4, <1>14, <2>1, <2>2, CommandInCall
<1> QED
  BY <1>4, <1>13, <1>14

-----------------------------------------------------------------------------
(* delete().                                                               *)

LEMMA ChosenIsFinite ==
  ASSUME NEW ch, NEW c, NEW r, IsChain(ch), ch # <<>>, IsImage(ch, r.before)
  PROVE  Cardinality(Chosen(ch, c, r)) \in Nat
<1>1. Last(ch) \in DOMAIN r.before
  BY ChainFacts DEF IsImage
<1>2. DOMAIN r.before[Last(ch)] \subseteq Key
  BY <1>1 DEF IsImage
<1>3. Chosen(ch, c, r) \subseteq Key
  BY <1>2 DEF Chosen, Matching
<1> QED
  BY <1>3, KeyAssumption, FS_Subset, FS_CardinalityType

LEMMA DeleteTable ==
  ASSUME NEW ch, NEW c, NEW b, NEW x, NEW i \in DOMAIN ch, NEW keys,
         IsChain(ch), IsImage(ch, b), IsImage(ch, x), c.op = "delete",
         Reached(ch, c, b, x, {ch[j] : j \in i + 1 .. Len(ch)}),
         keys = Matching(b[Last(ch)], c.where) \cap DOMAIN x[ch[i]]
  PROVE  /\ DOMAIN x[ch[i]] = DOMAIN b[ch[i]]
         /\ Reached(ch, c, b, Without(x, ch[i], keys), {ch[j] : j \in i .. Len(ch)})
<1> DEFINE t == ch[i]
           before == {ch[j] : j \in i + 1 .. Len(ch)}
           after == {ch[j] : j \in i .. Len(ch)}
           chosen == Matching(b[Last(ch)], c.where)
           y == Without(x, t, keys)
<1>1. /\ DOMAIN ch = 1 .. Len(ch) /\ Len(ch) \in Nat /\ t \in Range(ch)
      /\ \A j, l \in DOMAIN ch : ch[j] = ch[l] => j = l
  BY ChainFacts
<1>2. i \in Nat /\ i >= 1 /\ i <= Len(ch)
  BY <1>1
<1>3. after = before \cup {t}
  <2>1. i .. Len(ch) = (i + 1 .. Len(ch)) \cup {i}
    BY <1>1, <1>2
  <2> QED
    BY <2>1
<1>4. t \notin before
  <2>1. \A j \in i + 1 .. Len(ch) : j \in DOMAIN ch /\ j # i
    BY <1>1, <1>2
  <2> QED
    BY <1>1, <2>1
<1>5. Reached(ch, c, b, x, before) /\ keys = chosen \cap DOMAIN x[t]
  OBVIOUS
<1> HIDE DEF before, after, t, chosen
<1>6. Values(x)[t] = Values(b)[t] /\ DOMAIN x[t] = DOMAIN b[t] /\ t \in DOMAIN b
  <2>1. t \in Range(ch) \ before /\ t \in DOMAIN b
    BY <1>1, <1>4 DEF IsImage
  <2> QED
    BY <1>5, <2>1, ReachedAt
<1>7. /\ \A u \in Range(ch) \ {t} : Values(y)[u] = Values(x)[u]
      /\ Values(y)[t] = [k \in DOMAIN x[t] \ keys |-> Values(x)[t][k]]
  <2>1. PICK u : u = t /\ u \in Range(ch)
    BY <1>1
  <2>2. IsImage(ch, x)
    OBVIOUS
  <2> HIDE DEF y
  <2>3. ASSUME NEW v \in Range(ch) \ {u}
        PROVE  Values(Without(x, u, keys))[v] = Values(x)[v]
    <3>1. PICK w : w = Without(x, u, keys)
      OBVIOUS
    <3>2. v \in DOMAIN w \cap DOMAIN x /\ w[v] = x[v]
      BY <2>2, <2>3, <3>1 DEF Without, IsImage
    <3> QED
      BY <3>1, <3>2, SameValues
  <2>4. Values(Without(x, u, keys))[u] = [k \in DOMAIN x[u] \ keys |-> Values(x)[u][k]]
    BY ONLY <2>1, <2>2, WithoutFacts
  <2> QED
    BY <2>1, <2>3, <2>4 DEF y
<1>8. Meant(ch, c, b)[t] = [k \in DOMAIN b[t] \ chosen |-> Values(b)[t][k]]
  BY <1>6 DEF Meant, chosen
<1> HIDE DEF y
<1>9. DOMAIN x[t] \ keys = DOMAIN b[t] \ chosen
  BY <1>5, <1>6
<1>10. Values(y)[t] = Meant(ch, c, b)[t]
  BY <1>6, <1>7, <1>8, <1>9
<1>11. Reached(ch, c, b, y, before \cup {t})
  BY <1>5, <1>7, <1>10, ReachedNext
<1> QED
  BY <1>3, <1>6, <1>11 DEF after, y, t

\* A delete() that has no rows to delete.
LEMMA NothingToDelete ==
  ASSUME NEW ch, NEW c, NEW b, NEW x, IsImage(ch, b), c.op = "delete",
         Reached(ch, c, b, x, {}), Matching(b[Last(ch)], c.where) = {}
  PROVE  Reached(ch, c, b, x, Range(ch))
<1>1. ASSUME NEW t \in Range(ch) PROVE Meant(ch, c, b)[t] = Values(b)[t]
  <2>1. t \in DOMAIN b
    BY DEF IsImage
  <2>2. Meant(ch, c, b)[t]
          = [k \in DOMAIN b[t] \ Matching(b[Last(ch)], c.where) |-> Values(b)[t][k]]
    BY <2>1 DEF Meant
  <2>3. Values(b)[t] = [k \in DOMAIN b[t] |-> b[t][k].val]
        /\ \A k \in DOMAIN b[t] : Values(b)[t][k] = b[t][k].val
    BY <2>1, ValuesFacts
  <2> QED
    BY <2>2, <2>3
<1> QED
  BY <1>1 DEF Reached

LEMMA DeleteCollectInCall ==
  ASSUME RunInv, CallInv, NEW p \in Proc, DeleteCollect(p)
  PROVE  InCall(p)
<1> DEFINE c == Call(p)
           x == Image(p, "find")
           b == run[p].before
           chosen == Matching(x[Own], c.where)
           empty == Len(chain) > 1 /\ chosen = {}
           next == IF empty THEN Ended(p, "returned", 0)
                   ELSE [run[p] EXCEPT !.pc = "delete", !.ids = chosen, !.i = Len(chain)]
<1>0. run[p].pc = "collect" /\ run[p].pc \notin {"idle", "done", "exit"}
  BY DEF DeleteCollect, At
<1>1. /\ IsChain(chain) /\ chain # <<>> /\ DOMAIN run[p] = RunFields
      /\ CallTyped(chain, c, run[p]) /\ IsCall(c, chain) /\ IsImage(chain, b)
      /\ IsImage(chain, x) /\ x = Seen(p)
      /\ Undisturbed(p) =>
           run[p].outcome = "none" /\ UnderWay(chain, encrypted, c, run[p], x)
  BY <1>0, CallFacts
<1>2. c.op = "delete"
  BY <1>0, <1>1 DEF CallTyped
<1>3. run' = [run EXCEPT ![p] = next] /\ UNCHANGED <<docs, txn, chain, encrypted, prog>>
  BY DEF DeleteCollect, Fixed, RunInv
<1>4. Undisturbed(p) =>
        /\ Reached(chain, c, b, x, {}) /\ chosen = Chosen(chain, c, run[p])
        /\ run[p].rows = 0
  <2> SUFFICES ASSUME Undisturbed(p)
               PROVE  /\ Reached(chain, c, b, x, {}) /\ chosen = Chosen(chain, c, run[p])
                      /\ run[p].rows = 0
    OBVIOUS
  <2>1. Reached(chain, c, b, x, {}) /\ run[p].rows = 0
    BY <1>0, <1>1 DEF UnderWay, DoneTables, DeleteFits
  <2>2. PICK r : r = run[p]
    OBVIOUS
  <2>3. IsImage(chain, r.before) /\ IsImage(chain, x) /\ Reached(chain, c, r.before, x, {})
    BY <1>1, <2>1, <2>2
  <2>4. Matching(x[Last(chain)], c.where) = Chosen(chain, c, r)
    <3> HIDE DEF c, x, b, chosen, next
    <3> QED
      BY <1>1, <2>3, OwnTable
  <2> QED
    BY <2>1, <2>2, <2>4 DEF Own
<1>5. Len(chain) \in Nat /\ Len(chain) \in DOMAIN chain /\ DOMAIN chain = 1 .. Len(chain)
  BY <1>1, ChainFacts
<1> HIDE DEF chosen
<1>6. CASE empty
  <2>1. next = Ended(p, "returned", 0)
    BY <1>6
  <2> HIDE DEF next
  <2>2. /\ Kept(p, next) /\ next.pc \in {"idle", "exit", "done"}
        /\ next.outcome = "returned" /\ next.rows = 0
    BY <1>0, <2>1, EndedShape
  <2>3. next.before = b
    BY <2>2 DEF Kept
  <2>4. ASSUME Undisturbed(p) PROVE Settled(chain, c, next, x)
    <3>1. Matching(b[Last(chain)], c.where) = {}
      BY <1>4, <1>6, <2>4 DEF Chosen
    <3>2. Reached(chain, c, b, x, {})
      BY <1>4, <2>4
    <3> HIDE DEF c, b, x
    <3>3. Reached(chain, c, b, x, Range(chain))
      BY <1>1, <1>2, <3>1, <3>2, NothingToDelete
    <3>4. MeantRows(chain, c, b) = 0
      <4>1. MeantRows(chain, c, b) = Len(chain) * 0
        BY <1>2, <3>1, FS_EmptySet DEF MeantRows
      <4> QED
        BY <1>5, <4>1
    <3> QED
      BY <2>2, <2>3, <3>3, <3>4 DEF Settled, b
  <2>5. Undisturbed(p) => Holds(p, next, x)
    BY <2>2, <2>4 DEF Holds, CallHolds
  <2>6. Looks(p, next)
    BY <1>1, <1>3, <2>2, <2>5 DEF Looks
  <2> QED
    BY <1>0, <1>3, <2>6 DEF InCall
<1>7. CASE ~empty
  <2>1. next = [run[p] EXCEPT !.pc = "delete", !.ids = chosen, !.i = Len(chain)]
    BY <1>7
  <2> HIDE DEF next
  <2>2. /\ DOMAIN next = RunFields /\ next.pc = "delete" /\ next.ids = chosen
        /\ next.i = Len(chain) /\ next.rows = run[p].rows
        /\ next.at = run[p].at /\ next.before = b /\ next.alone = run[p].alone
        /\ next.outcome = run[p].outcome
    BY <1>1, <2>1 DEF RunFields
  <2>3. CallTyped(chain, c, next)
    BY <1>2, <1>5, <2>2 DEF CallTyped
  <2>4. Kept(p, next)
    BY <2>2, <2>3 DEF Kept
  <2>5. ASSUME Undisturbed(p) PROVE Holds(p, next, x)
    <3>1. DoneTables(chain, c, next) = {}
      <4>1. Len(chain) + 1 .. Len(chain) = {}
        BY <1>5
      <4> QED
        BY <2>2, <4>1 DEF DoneTables
    <3>2. DeleteFits(chain, c, next)
      <4>1. Chosen(chain, c, next) = Chosen(chain, c, run[p])
        BY <2>2 DEF Chosen
      <4>2. Cardinality(Chosen(chain, c, next)) \in Nat
        <5>1. IsImage(chain, next.before)
          BY <1>1, <2>2
        <5> HIDE DEF c, b, x
        <5> QED
          BY <1>1, <5>1, ChosenIsFinite
      <4>3. next.rows = (Len(chain) - next.i) * Cardinality(Chosen(chain, c, next))
        <5>1. PICK n \in Nat : n = Cardinality(Chosen(chain, c, next))
          BY <4>2
        <5>2. PICK l \in Nat : l = Len(chain)
          BY <1>5
        <5>3. (l - l) * n = 0
          <6>1. l - l = 0 /\ 0 * n = 0
            OBVIOUS
          <6> QED
            BY <6>1
        <5>4. next.rows = 0 /\ next.i = l
          BY <1>4, <2>2, <2>5, <5>2
        <5> QED
          BY <5>1, <5>2, <5>3, <5>4
      <4> QED
        BY <1>4, <2>2, <2>5, <4>1, <4>3 DEF DeleteFits
    <3>3. SaveFits(chain, encrypted, c, next) /\ UpdateFits(chain, c, next)
      BY <2>2 DEF SaveFits, UpdateFits
    <3>4. UnderWay(chain, encrypted, c, next, x)
      BY <1>4, <2>2, <2>3, <2>5, <3>1, <3>2, <3>3 DEF UnderWay
    <3> QED
      BY <1>1, <2>2, <2>5, <3>4 DEF Holds, CallHolds
  <2>6. Looks(p, next)
    BY <1>1, <1>3, <2>4, <2>5 DEF Looks
  <2> QED
    BY <1>0, <1>3, <2>6 DEF InCall
<1> QED
  BY <1>6, <1>7

LEMMA DeleteManyInCall ==
  ASSUME RunInv, CallInv, NEW p \in Proc, DeleteMany(p)
  PROVE  InCall(p)
<1> DEFINE c == Call(p)
           i == run[p].i
           t == chain[run[p].i]
           x == Image(p, "delete")
           b == run[p].before
           keys == IF Len(chain) = 1 THEN Matching(x[Own], c.where)
                   ELSE run[p].ids \cap DOMAIN x[t]
           rows == run[p].rows + Cardinality(keys)
           y == Without(x, t, keys)
           next == IF t = Top THEN Ended(p, "returned", rows)
                   ELSE [run[p] EXCEPT !.i = @ - 1, !.rows = rows]
<1>0. run[p].pc = "delete" /\ run[p].pc \notin {"idle", "done", "exit"}
  BY DEF DeleteMany, At
<1>1. /\ IsChain(chain) /\ chain # <<>> /\ DOMAIN run[p] = RunFields
      /\ CallTyped(chain, c, run[p]) /\ IsCall(c, chain) /\ IsImage(chain, b)
      /\ IsImage(chain, x) /\ x = Seen(p)
      /\ Undisturbed(p) =>
           run[p].outcome = "none" /\ UnderWay(chain, encrypted, c, run[p], x)
  BY <1>0, CallFacts
<1>2. c.op = "delete" /\ i \in DOMAIN chain
  BY <1>0, <1>1 DEF CallTyped
<1>3. Command(p, "delete", y, Cells(t, keys), next) /\ UNCHANGED <<chain, encrypted, prog>>
  BY DEF DeleteMany, DeletedKeys, Fixed
<1>4. /\ DOMAIN chain = 1 .. Len(chain) /\ Len(chain) \in Nat /\ t \in Range(chain)
      /\ \A j, l \in DOMAIN chain : chain[j] = chain[l] => j = l
      /\ 1 \in DOMAIN chain /\ Last(chain) = chain[Len(chain)]
  BY <1>1, <1>2, ChainFacts
<1>5. i \in Nat /\ i >= 1 /\ i <= Len(chain) /\ (t = Top <=> i = 1)
  BY <1>2, <1>4 DEF Top
<1>6. PICK n : n = Cardinality(Chosen(chain, c, run[p]))
  OBVIOUS
<1>7. n \in Nat
  <2>1. PICK r : r = run[p] /\ IsImage(chain, r.before)
    BY <1>1
  <2>2. Cardinality(Chosen(chain, c, r)) \in Nat
    <3> HIDE DEF c
    <3> QED
      BY <1>1, <2>1, ChosenIsFinite
  <2> QED
    BY <1>6, <2>1, <2>2
<1>8. ASSUME Undisturbed(p)
      PROVE  /\ Reached(chain, c, b, x, {chain[j] : j \in i + 1 .. Len(chain)})
             /\ keys = Matching(b[Last(chain)], c.where) \cap DOMAIN x[t]
             /\ Whole(chain, b) => Cardinality(keys) = n /\ run[p].rows = (Len(chain) - i) * n
  <2>1. /\ Reached(chain, c, b, x, {chain[j] : j \in i + 1 .. Len(chain)})
        /\ run[p].ids = Chosen(chain, c, run[p])
        /\ Whole(chain, b) => run[p].rows = (Len(chain) - i) * n
    BY <1>0, <1>1, <1>6, <1>8 DEF UnderWay, DoneTables, DeleteFits
  <2>2. PICK r : r = run[p]
    OBVIOUS
  <2>3. keys = Chosen(chain, c, r) \cap DOMAIN x[t]
    <3>1. CASE Len(chain) = 1
      <4>1. i = 1 /\ t = Last(chain)
        BY <1>4, <1>5, <3>1
      <4>2. {chain[j] : j \in i + 1 .. Len(chain)} = {}
        BY <3>1, <4>1
      <4>3. IsImage(chain, r.before) /\ Reached(chain, c, r.before, x, {})
        BY <1>1, <2>1, <2>2, <4>2
      <4>4. /\ Matching(x[Last(chain)], c.where) = Chosen(chain, c, r)
            /\ Chosen(chain, c, r) \cap DOMAIN x[Last(chain)] = Chosen(chain, c, r)
        <5> HIDE DEF c, x, b, t, i
        <5> QED
          BY <1>1, <4>3, OwnTable
      <4> QED
        BY <3>1, <4>1, <4>4 DEF Own
    <3>2. CASE Len(chain) # 1
      BY <2>1, <2>2, <3>2
    <3> QED
      BY <3>1, <3>2
  <2>4. keys = Matching(b[Last(chain)], c.where) \cap DOMAIN x[t]
    BY <2>2, <2>3 DEF Chosen
  <2>5. DOMAIN x[t] = DOMAIN b[t]
    <3> HIDE DEF c, x, b, keys, next
    <3>1. Reached(chain, c, b, x, {chain[j] : j \in i + 1 .. Len(chain)})
      BY <2>1
    <3>2. t = chain[i] /\ keys = Matching(b[Last(chain)], c.where) \cap DOMAIN x[chain[i]]
      BY <2>4
    <3>4. IsImage(chain, b) /\ IsImage(chain, x) /\ IsChain(chain)
      BY <1>1
    <3> HIDE DEF t, i
    <3>5. PICK tables : tables = {chain[j] : j \in i + 1 .. Len(chain)}
      OBVIOUS
    <3>7. PICK u : u = t
      OBVIOUS
    <3>6. u \in Range(chain) \ tables
      <4>1. \A j \in i + 1 .. Len(chain) : j \in DOMAIN chain /\ j # i
        BY <1>4, <1>5
      <4> QED
        BY <1>2, <1>4, <3>2, <3>5, <3>7, <4>1
    <3>8. Reached(chain, c, b, x, tables)
      BY <3>1, <3>5
    <3>9. DOMAIN x[u] = DOMAIN b[u]
      BY <3>4, <3>6, <3>8, ReachedAt
    <3> QED
      BY <3>7, <3>9
  <2>6. Whole(chain, b) => Chosen(chain, c, r) \cap DOMAIN r.before[t] = Chosen(chain, c, r)
    <3>1. PICK u : u = t /\ u \in Range(chain)
      BY <1>4
    <3>2. Whole(chain, r.before) =>
            Chosen(chain, c, r) \cap DOMAIN r.before[u] = Chosen(chain, c, r)
      <4> HIDE DEF c, x, b, keys, next, t, i
      <4> QED
        BY <1>1, <3>1, ChosenEverywhere
    <3> QED
      BY <2>2, <3>1, <3>2
  <2>7. Whole(chain, b) => Cardinality(keys) = n
    BY <1>6, <2>2, <2>3, <2>5, <2>6
  <2> QED
    BY <2>1, <2>4, <2>7
<1> HIDE DEF keys
<1>9. IsImage(chain, y)
  <2>1. PICK u : u = t /\ u \in Range(chain)
    BY <1>4
  <2>2. IsImage(chain, Without(x, u, keys))
    <3> HIDE DEF x, t
    <3> QED
      BY <1>1, <2>1, WithoutFacts
  <2> QED
    BY <2>1, <2>2
<1>10. ASSUME Undisturbed(p) PROVE Reached(chain, c, b, y, {chain[j] : j \in i .. Len(chain)})
  <2>1. /\ Reached(chain, c, b, x, {chain[j] : j \in i + 1 .. Len(chain)})
        /\ keys = Matching(b[Last(chain)], c.where) \cap DOMAIN x[t]
    BY <1>8, <1>10
  <2>2. t = chain[i] /\ y = Without(x, t, keys)
    OBVIOUS
  <2> HIDE DEF c, x, b, t, i, y, next
  <2>3. Reached(chain, c, b, Without(x, chain[i], keys), {chain[j] : j \in i .. Len(chain)})
    BY <1>1, <1>2, <2>1, <2>2, DeleteTable
  <2> QED
    BY <2>2, <2>3
<1>11. ASSUME Undisturbed(p), Whole(chain, b) PROVE rows = (Len(chain) - (i - 1)) * n
  <2>1. PICK l \in Nat : l = Len(chain)
    BY <1>4
  <2>2. rows = (l - i) * n + n /\ i \in Nat
    BY <1>5, <1>8, <1>11, <2>1
  <2>3. \A j \in Nat : (l - j) * n + n = (l - (j - 1)) * n
    <3> SUFFICES ASSUME NEW j \in Nat PROVE (l - j) * n + n = (l - (j - 1)) * n
      OBVIOUS
    <3>1. \A m \in Int : m * n + n = (m + 1) * n
      BY <1>7
    <3>2. l - (j - 1) = (l - j) + 1 /\ l - j \in Int
      OBVIOUS
    <3> QED
      BY <3>1, <3>2
  <2> QED
    BY <2>1, <2>2, <2>3
<1> HIDE DEF rows, y
<1>12. Kept(p, next) /\ (Undisturbed(p) => Holds(p, next, y))
  <2>1. CASE i = 1
    <3>1. next = Ended(p, "returned", rows)
      BY <1>5, <2>1
    <3> HIDE DEF next
    <3>2. /\ Kept(p, next) /\ next.pc \in {"idle", "exit", "done"}
          /\ next.outcome = "returned" /\ next.rows = rows
      BY <1>0, <3>1, EndedShape
    <3>3. next.before = b
      BY <3>2 DEF Kept
    <3>4. ASSUME Undisturbed(p) PROVE Settled(chain, c, next, y)
      <4>1. {chain[j] : j \in i .. Len(chain)} = Range(chain)
        BY <1>4, <2>1 DEF Range
      <4>2. Reached(chain, c, b, y, Range(chain))
        BY <1>10, <3>4, <4>1
      <4>3. MeantRows(chain, c, b) = Len(chain) * n
        BY <1>2, <1>6 DEF MeantRows, Chosen
      <4>4. Whole(chain, b) => rows = Len(chain) * n
        <5>1. Len(chain) - (1 - 1) = Len(chain)
          BY <1>4
        <5> QED
          BY <1>11, <2>1, <3>4, <5>1
      <4> QED
        BY <3>2, <3>3, <4>2, <4>3, <4>4 DEF Settled
    <3>5. Undisturbed(p) => Holds(p, next, y)
      BY <3>2, <3>4 DEF Holds, CallHolds
    <3> QED
      BY <3>2, <3>5
  <2>2. CASE i # 1
    <3>1. next = [run[p] EXCEPT !.i = i - 1, !.rows = rows]
      BY <1>5, <2>2
    <3> HIDE DEF next
    <3>2. /\ DOMAIN next = RunFields /\ next.pc = "delete" /\ next.ids = run[p].ids
          /\ next.i = i - 1 /\ next.rows = rows
          /\ next.at = run[p].at /\ next.before = b /\ next.alone = run[p].alone
          /\ next.outcome = run[p].outcome
      BY <1>0, <1>1, <3>1 DEF RunFields
    <3>3. i - 1 \in DOMAIN chain
      <4>1. PICK l \in Nat : l = Len(chain)
        BY <1>4
      <4>2. i - 1 \in 1 .. l
        BY <1>5, <2>2, <4>1
      <4> QED
        BY <1>4, <4>1, <4>2
    <3>4. CallTyped(chain, c, next)
      BY <1>2, <3>2, <3>3 DEF CallTyped
    <3>5. Kept(p, next)
      BY <3>2, <3>4 DEF Kept
    <3>6. ASSUME Undisturbed(p) PROVE Holds(p, next, y)
      <4>1. DoneTables(chain, c, next) = {chain[j] : j \in i .. Len(chain)}
        <5>1. next.i + 1 = i
          BY <1>5, <3>2
        <5> QED
          BY <3>2, <5>1 DEF DoneTables
      <4>2. Chosen(chain, c, next) = Chosen(chain, c, run[p])
        BY <3>2 DEF Chosen
      <4>3. DeleteFits(chain, c, next)
        <5>1. run[p].ids = Chosen(chain, c, run[p])
          BY <1>0, <1>1, <3>6 DEF UnderWay, DeleteFits
        <5> QED
          BY <1>6, <1>11, <3>2, <3>6, <4>2, <5>1 DEF DeleteFits
      <4>4. SaveFits(chain, encrypted, c, next) /\ UpdateFits(chain, c, next)
        BY <3>2 DEF SaveFits, UpdateFits
      <4>5. Reached(chain, c, b, y, DoneTables(chain, c, next))
        BY <1>10, <3>6, <4>1
      <4>6. UnderWay(chain, encrypted, c, next, y)
        BY <3>2, <3>4, <4>3, <4>4, <4>5 DEF UnderWay
      <4> QED
        BY <1>1, <3>2, <3>6, <4>6 DEF Holds, CallHolds
    <3> QED
      BY <3>5, <3>6
  <2> QED
    BY <2>1, <2>2
<1>13. Command(p, "delete", y, Cells(t, keys), next)
  BY <1>3 DEF y, keys
<1> HIDE DEF next
<1> QED
  BY <1>0, <1>3, <1>9, <1>12, <1>13, CommandInCall

-----------------------------------------------------------------------------
(* All steps.                                                              *)

LEMMA FaultInCall ==
  ASSUME RunInv, CallInv, NEW p \in Proc, Fault(p)
  PROVE  InCall(p)
<1>1. /\ run[p].pc \notin {"idle", "done"}
      /\ Raises(p, "server") /\ UNCHANGED <<chain, encrypted, prog>>
  BY DEF Fault
<1>2. Refuses(p)
  BY <1>1 DEF Refuses
<1> QED
  BY <1>1, <1>2 DEF InCall

LEMMA BreaksInCall ==
  ASSUME RunInv, CallInv, NEW p \in Proc, run[p].pc \notin {"idle", "done", "exit"},
         UNCHANGED <<chain, encrypted, prog>>,
         NEW verb, NEW image, NEW targets, Breaks(p, verb, image, targets),
         IsImage(chain, image),
         Undisturbed(p) => PartDone(chain, Call(p), run[p].before, image)
  PROVE  InCall(p)
<1> DEFINE c == Call(p)
           ended == Ended(p, "raised", 0)
           next == [ended EXCEPT !.cause = "server"]
<1>1. /\ ~Session(p, verb) /\ Execute(p, verb, image, targets) /\ Moves(p, next)
  BY DEF Breaks
<1>2. ~prog[p].atomic
  BY <1>1 DEF RunInv, Session
<1>3. Kept(p, ended) /\ ended.pc \in {"idle", "done"} /\ ended.outcome = "raised"
  BY <1>2, EndedShape
<1> HIDE DEF next, ended
<1>4. /\ DOMAIN next = RunFields /\ next.pc = ended.pc /\ next.outcome = "raised"
      /\ next.at = ended.at /\ next.before = ended.before /\ next.alone = ended.alone
      /\ next.cause = "server"
  BY <1>3 DEF Kept, RunFields, next
<1>5. CallTyped(chain, c, next)
  BY <1>3, <1>4 DEF CallTyped
<1>6. Kept(p, next) /\ next.before = run[p].before
  BY <1>3, <1>4, <1>5 DEF Kept
<1>7. Undisturbed(p) => Holds(p, next, image)
  BY <1>3, <1>4, <1>6 DEF Holds, CallHolds
<1>8. Sends(p, image, next)
  BY <1>1, <1>6, <1>7 DEF Sends
<1> QED
  BY <1>8 DEF InCall

\* What a process sees whose command is cut short.
LEMMA CutFacts ==
  ASSUME RunInv, CallInv, NEW p \in Proc, run[p].pc \notin {"idle", "done", "exit"},
         NEW verb, NEW image, NEW targets, Breaks(p, verb, image, targets)
  PROVE  /\ IsChain(chain) /\ chain # <<>> /\ IsCall(Call(p), chain)
         /\ CallTyped(chain, Call(p), run[p])
         /\ IsImage(chain, run[p].before) /\ IsImage(chain, docs)
         /\ Undisturbed(p) => UnderWay(chain, encrypted, Call(p), run[p], docs)
<1>1. Seen(p) = docs
  BY DEF Breaks, Session, Seen
<1> QED
  BY <1>1, CallFacts

LEMMA CutSaveInCall ==
  ASSUME RunInv, CallInv, NEW p \in Proc, NEW some, CutSave(p, some),
         UNCHANGED <<chain, encrypted, prog>>
  PROVE  InCall(p)
<1> DEFINE c == Call(p)
           r == run[p]
           b == run[p].before
           t == chain[run[p].i]
           keys == some \cap IF At(p, "update") THEN {c.key} \cap DOMAIN docs[t]
                             ELSE {c.key} \ DOMAIN docs[t]
           stored == [k \in keys |-> Stored(p, t, c.vals[t])]
           vals == [k \in DOMAIN stored |-> stored[k].val]
           y == Put(docs, t, stored)
<1>1. Breaks(p, run[p].pc, y, Cells(t, keys)) /\ run[p].pc \in {"update", "insert"}
  BY DEF CutSave, At
<1>2. /\ IsChain(chain) /\ chain # <<>> /\ IsCall(c, chain) /\ CallTyped(chain, c, r)
      /\ IsImage(chain, b) /\ IsImage(chain, docs)
      /\ Undisturbed(p) => UnderWay(chain, encrypted, c, r, docs)
  BY <1>1, CutFacts
<1>3. /\ c.op \in {"save", "create"} /\ run[p].i \in DOMAIN chain
  BY <1>1, <1>2 DEF CallTyped
<1>4. c.key \in Key
  BY <1>2, <1>3 DEF IsCall
<1>5. t \in Range(chain) /\ t = Current(chain, c, r)
  BY <1>1, <1>2, <1>3, ChainFacts DEF Current
<1>6. /\ DOMAIN stored = keys /\ keys \subseteq {c.key} /\ keys \subseteq Key
      /\ \A k \in keys : "val" \in DOMAIN stored[k] /\ stored[k].val = c.vals[t]
  BY <1>4 DEF Stored
<1>7. DOMAIN vals = keys /\ \A k \in keys : vals[k] = c.vals[t]
  BY <1>6
<1> HIDE DEF stored, t, keys
<1>8. /\ IsImage(chain, y)
      /\ \A u \in Range(chain) \ {t} : Values(y)[u] = Values(docs)[u]
      /\ Values(y)[t] = Over(vals, Values(docs)[t])
  BY <1>2, <1>5, <1>6, PutFacts
<1> HIDE DEF c, b, y, vals, r
<1>9. ASSUME Undisturbed(p) PROVE PartDone(chain, c, r.before, y)
  <2>1. UnderWay(chain, encrypted, c, r, docs) /\ IsImage(chain, r.before)
        /\ r.pc \in {"update", "insert"}
    BY <1>1, <1>2, <1>9 DEF r, b
  <2>2. Values(docs)[t] = Values(r.before)[t]
    BY <1>2, <1>5, <2>1, CurrentIsNext
  <2>3. t \in DOMAIN y /\ t \in DOMAIN r.before
    BY <1>5, <1>8, <2>1 DEF IsImage
  <2>4. PICK old : old = Values(r.before)[t]
    OBVIOUS
  <2>5. PICK new : /\ new = Meant(chain, c, r.before)[t]
                   /\ DOMAIN new = {c.key} \cup DOMAIN old
                   /\ new[c.key] = c.vals[t]
    <3>1. PICK one : one = [k \in {c.key} |-> c.vals[t]]
      OBVIOUS
    <3>2. Meant(chain, c, r.before)[t] = Over(one, old)
      BY <1>3, <2>3, <2>4, <3>1 DEF Meant
    <3>3. /\ DOMAIN Over(one, old) = DOMAIN one \cup DOMAIN old
          /\ \A k \in DOMAIN one : Over(one, old)[k] = one[k]
      BY OverFacts
    <3>4. DOMAIN one = {c.key} /\ one[c.key] = c.vals[t]
      BY <3>1
    <3> QED
      BY <3>2, <3>3, <3>4
  <2>6. PICK now : /\ now = Values(y)[t]
                   /\ DOMAIN now = keys \cup DOMAIN old
                   /\ \A k \in keys : now[k] = c.vals[t]
                   /\ \A k \in DOMAIN old \ keys : now[k] = old[k]
    <3>1. /\ DOMAIN Over(vals, old) = DOMAIN vals \cup DOMAIN old
          /\ \A k \in DOMAIN vals : Over(vals, old)[k] = vals[k]
          /\ \A k \in DOMAIN old \ DOMAIN vals : Over(vals, old)[k] = old[k]
      BY OverFacts
    <3>2. Values(y)[t] = Over(vals, old)
      BY <1>8, <2>2, <2>4
    <3> QED
      BY <1>7, <3>1, <3>2
  <2>7. ASSUME NEW k \in Key
        PROVE  Agrees(y, Values(r.before), t, k) \/ Agrees(y, Meant(chain, c, r.before), t, k)
    <3>1. CASE k \in keys
      <4>1. k = c.key /\ k \in DOMAIN now /\ k \in DOMAIN new /\ now[k] = new[k]
        BY <1>6, <2>5, <2>6, <3>1
      <4>2. Agrees(y, Meant(chain, c, r.before), t, k)
        BY <2>3, <2>5, <2>6, <4>1, AgreesAt
      <4> QED
        BY <4>2
    <3>2. CASE k \notin keys
      <4>1. (k \in DOMAIN now <=> k \in DOMAIN old) /\ (k \in DOMAIN old => now[k] = old[k])
        BY <2>6, <3>2
      <4>2. Agrees(y, Values(r.before), t, k)
        BY <2>3, <2>4, <2>6, <4>1, AgreesAt
      <4> QED
        BY <4>2
    <3> QED
      BY <3>1, <3>2
  <2> QED
    BY <1>2, <1>5, <1>8, <2>1, <2>7, CutIsPart
<1>10. run[p].pc \notin {"idle", "done", "exit"}
  BY <1>1
<1> QED
  BY <1>1, <1>8, <1>9, <1>10, BreaksInCall DEF c, r

LEMMA CutUpdateInCall ==
  ASSUME RunInv, CallInv, NEW p \in Proc, NEW some, CutUpdate(p, some),
         UNCHANGED <<chain, encrypted, prog>>
  PROVE  InCall(p)
<1> DEFINE c == Call(p)
           r == run[p]
           t == IF At(p, "primary") THEN Own ELSE c.related[run[p].i]
           all == IF At(p, "primary") THEN OwnKeys(p, docs) ELSE run[p].ids \cap DOMAIN docs[t]
           keys == some \cap all
           y == Reset(docs, t, keys, c.sets[t])
<1>1. /\ Breaks(p, "update", y, Cells(t, keys)) /\ run[p].pc \in {"primary", "related"}
      /\ t \in DOMAIN c.sets
  BY DEF CutUpdate, At
<1>2. /\ IsChain(chain) /\ chain # <<>> /\ IsCall(c, chain) /\ CallTyped(chain, c, r)
      /\ IsImage(chain, r.before) /\ IsImage(chain, docs)
      /\ Undisturbed(p) => UnderWay(chain, encrypted, c, r, docs)
  BY <1>1, CutFacts
<1>3. c.op = "update" /\ (r.pc = "related" => r.i \in DOMAIN c.related)
  BY <1>1, <1>2 DEF CallTyped
<1>4. t \in Range(chain) /\ t = Current(chain, c, r) /\ (r.pc = "related" => c.related # <<>>)
  <2>1. /\ DOMAIN c.sets \subseteq Range(chain)
        /\ Len(c.related) \in Nat /\ DOMAIN c.related = 1 .. Len(c.related)
    BY <1>2, <1>3, UpdateFacts
  <2>2. t = Current(chain, c, r)
    BY <1>1 DEF Current, At, Own
  <2>3. c.related = <<>> => Len(c.related) = 0
    OBVIOUS
  <2> QED
    BY <1>1, <1>3, <2>1, <2>2, <2>3
<1>5. all = IF r.pc = "primary" /\ c.related = <<>> THEN Matching(docs[t], c.where)
            ELSE r.ids \cap DOMAIN docs[t]
  BY <1>1, <1>4 DEF OwnKeys, At
<1> HIDE DEF t, all
<1>6. /\ IsImage(chain, y)
      /\ \A u \in Range(chain) \ {t} : Values(y)[u] = Values(docs)[u]
      /\ Values(y)[t]
           = [k \in DOMAIN docs[t] |-> IF k \in keys THEN c.sets[t] ELSE Values(docs)[t][k]]
  BY <1>2, <1>4, ResetFacts
<1> HIDE DEF c, y, r
<1>7. ASSUME Undisturbed(p) PROVE PartDone(chain, c, r.before, y)
  <2>1. UnderWay(chain, encrypted, c, r, docs) /\ r.pc \in {"primary", "related"}
    BY <1>1, <1>2, <1>7 DEF r
  <2>2. /\ Values(docs)[t] = Values(r.before)[t]
        /\ DOMAIN docs[t] = DOMAIN r.before[t]
        /\ \A v : Matching(docs[t], v) = Matching(r.before[t], v)
    BY <1>2, <1>4, <2>1, CurrentIsNext
  <2>3. t \in DOMAIN y /\ t \in DOMAIN r.before
    BY <1>2, <1>4, <1>6 DEF IsImage
  <2>4. PICK chosen : chosen = Matching(r.before[Last(chain)], c.where)
    OBVIOUS
  <2>5. keys \subseteq chosen
    <3>1. CASE r.pc = "primary" /\ c.related = <<>>
      <4>1. t = Last(chain)
        BY <1>4, <3>1 DEF Current
      <4> QED
        BY <1>5, <2>2, <2>4, <3>1, <4>1
    <3>2. CASE c.related # <<>>
      <4>1. r.ids = chosen
        BY <2>1, <2>4, <3>2 DEF UnderWay, UpdateFits, Chosen
      <4> QED
        BY <1>5, <3>2, <4>1
    <3> QED
      BY <1>4, <2>1, <3>1, <3>2
  <2>6. PICK old : old = Values(r.before)[t] /\ DOMAIN old = DOMAIN r.before[t]
    BY <2>3, ValuesAt
  <2>7. PICK new : /\ new = Meant(chain, c, r.before)[t]
                   /\ new = [k \in DOMAIN old |->
                                IF k \in chosen /\ t \in DOMAIN c.sets THEN c.sets[t] ELSE old[k]]
    <3>1. Meant(chain, c, r.before)[t]
            = [k \in DOMAIN r.before[t] |->
                 IF k \in Matching(r.before[Last(chain)], c.where) /\ t \in DOMAIN c.sets
                 THEN c.sets[t] ELSE Values(r.before)[t][k]]
      BY <1>3, <2>3, MeantUpdate
    <3>2. Meant(chain, c, r.before)[t]
            = [k \in DOMAIN old |->
                 IF k \in chosen /\ t \in DOMAIN c.sets THEN c.sets[t] ELSE old[k]]
      BY <2>4, <2>6, <3>1
    <3> QED
      BY <3>2
  <2>8. PICK now : /\ now = Values(y)[t]
                   /\ now = [k \in DOMAIN old |-> IF k \in keys THEN c.sets[t] ELSE old[k]]
    BY <1>6, <2>2, <2>6
  <2>9. ASSUME NEW k \in Key
        PROVE  Agrees(y, Values(r.before), t, k) \/ Agrees(y, Meant(chain, c, r.before), t, k)
    <3>1. DOMAIN now = DOMAIN old /\ DOMAIN new = DOMAIN old
      BY <2>7, <2>8
    <3>2. CASE k \in keys
      <4>1. k \in DOMAIN old => now[k] = c.sets[t] /\ new[k] = c.sets[t]
        BY <1>1, <2>5, <2>7, <2>8, <3>2
      <4>2. Agrees(y, Meant(chain, c, r.before), t, k)
        BY <2>3, <2>7, <2>8, <3>1, <4>1, AgreesAt
      <4> QED
        BY <4>2
    <3>3. CASE k \notin keys
      <4>1. k \in DOMAIN old => now[k] = old[k]
        BY <2>8, <3>3
      <4>2. Agrees(y, Values(r.before), t, k)
        BY <2>3, <2>6, <2>8, <3>1, <4>1, AgreesAt
      <4> QED
        BY <4>2
    <3> QED
      BY <3>2, <3>3
  <2> QED
    BY <1>2, <1>4, <1>6, <2>1, <2>9, CutIsPart
<1>8. run[p].pc \notin {"idle", "done", "exit"}
  BY <1>1
<1> QED
  BY <1>1, <1>6, <1>7, <1>8, BreaksInCall DEF c, r

LEMMA CutDeleteInCall ==
  ASSUME RunInv, CallInv, NEW p \in Proc, NEW some, CutDelete(p, some),
         UNCHANGED <<chain, encrypted, prog>>
  PROVE  InCall(p)
<1> DEFINE c == Call(p)
           r == run[p]
           t == chain[run[p].i]
           all == DeletedKeys(p, docs, t)
           keys == some \cap all
           y == Without(docs, t, keys)
<1>1. /\ Breaks(p, "delete", y, Cells(t, keys)) /\ run[p].pc = "delete"
  BY DEF CutDelete, At
<1>2. /\ IsChain(chain) /\ chain # <<>> /\ IsCall(c, chain) /\ CallTyped(chain, c, r)
      /\ IsImage(chain, r.before) /\ IsImage(chain, docs)
      /\ Undisturbed(p) => UnderWay(chain, encrypted, c, r, docs)
  BY <1>1, CutFacts
<1>3. c.op = "delete" /\ r.i \in DOMAIN chain
  BY <1>1, <1>2 DEF CallTyped
<1>4. t \in Range(chain) /\ t = Current(chain, c, r) /\ (Len(chain) = 1 => t = Last(chain))
  <2>1. /\ Len(chain) \in Nat /\ DOMAIN chain = 1 .. Len(chain)
        /\ t \in Range(chain) /\ Last(chain) = chain[Len(chain)]
    BY <1>2, <1>3, ChainFacts
  <2>2. Len(chain) = 1 => r.i = 1
    BY <1>3, <2>1
  <2> QED
    BY <1>1, <2>1, <2>2 DEF Current
<1>5. all = IF Len(chain) = 1 THEN Matching(docs[Last(chain)], c.where)
            ELSE r.ids \cap DOMAIN docs[t]
  BY DEF DeletedKeys, Own
<1> HIDE DEF t, all
<1>6. /\ IsImage(chain, y)
      /\ \A u \in Range(chain) \ {t} : Values(y)[u] = Values(docs)[u]
      /\ Values(y)[t] = [k \in DOMAIN docs[t] \ keys |-> Values(docs)[t][k]]
  <2>1. PICK gone, ch, x, u : gone = keys /\ ch = chain /\ x = docs /\ u = t
    OBVIOUS
  <2>2. IsImage(ch, x) /\ u \in Range(ch)
    BY <1>2, <1>4, <2>1
  <2>3. IsImage(ch, Without(x, u, gone))
    BY ONLY <2>2, WithoutFacts
  <2>4. ASSUME NEW v \in Range(ch) \ {u} PROVE Values(Without(x, u, gone))[v] = Values(x)[v]
    <3>1. PICK w : w = Without(x, u, gone)
      OBVIOUS
    <3>2. v \in DOMAIN w \cap DOMAIN x /\ w[v] = x[v]
      BY <2>2, <2>4, <3>1 DEF Without, IsImage
    <3> QED
      BY <3>1, <3>2, SameValues
  <2>5. Values(Without(x, u, gone))[u] = [k \in DOMAIN x[u] \ gone |-> Values(x)[u][k]]
    BY ONLY <2>2, WithoutFacts
  <2> HIDE DEF keys
  <2> QED
    BY <2>1, <2>3, <2>4, <2>5
<1> HIDE DEF c, y, r
<1>7. ASSUME Undisturbed(p) PROVE PartDone(chain, c, r.before, y)
  <2>1. UnderWay(chain, encrypted, c, r, docs) /\ r.pc = "delete"
    BY <1>1, <1>2, <1>7 DEF r
  <2>2. /\ Values(docs)[t] = Values(r.before)[t]
        /\ DOMAIN docs[t] = DOMAIN r.before[t]
        /\ \A v : Matching(docs[t], v) = Matching(r.before[t], v)
    BY <1>2, <1>4, <2>1, CurrentIsNext
  <2>3. t \in DOMAIN y /\ t \in DOMAIN r.before
    BY <1>2, <1>4, <1>6 DEF IsImage
  <2>4. PICK chosen : chosen = Matching(r.before[Last(chain)], c.where)
    OBVIOUS
  <2>5. keys \subseteq chosen
    <3>1. r.ids = chosen
      BY <2>1, <2>4 DEF UnderWay, DeleteFits, Chosen
    <3> QED
      BY <1>4, <1>5, <2>2, <2>4, <3>1
  <2>6. PICK old : old = Values(r.before)[t] /\ DOMAIN old = DOMAIN r.before[t]
    BY <2>3, ValuesAt
  <2>7. PICK new : /\ new = Meant(chain, c, r.before)[t]
                   /\ new = [k \in DOMAIN old \ chosen |-> old[k]]
    <3>1. Meant(chain, c, r.before)[t]
            = [k \in DOMAIN r.before[t] \ Matching(r.before[Last(chain)], c.where) |->
                 Values(r.before)[t][k]]
      BY <1>3, <2>3, MeantDelete
    <3>2. Meant(chain, c, r.before)[t] = [k \in DOMAIN old \ chosen |-> old[k]]
      BY <2>4, <2>6, <3>1
    <3> QED
      BY <3>2
  <2>8. PICK now : now = Values(y)[t] /\ now = [k \in DOMAIN old \ keys |-> old[k]]
    BY <1>6, <2>2, <2>6
  <2>9. ASSUME NEW k \in Key
        PROVE  Agrees(y, Values(r.before), t, k) \/ Agrees(y, Meant(chain, c, r.before), t, k)
    <3>1. CASE k \in keys
      <4>1. k \notin DOMAIN now /\ k \notin DOMAIN new
        BY <2>5, <2>7, <2>8, <3>1
      <4>2. Agrees(y, Meant(chain, c, r.before), t, k)
        BY <2>3, <2>7, <2>8, <4>1, AgreesAt
      <4> QED
        BY <4>2
    <3>2. CASE k \notin keys
      <4>1. (k \in DOMAIN now <=> k \in DOMAIN old) /\ (k \in DOMAIN old => now[k] = old[k])
        BY <2>8, <3>2
      <4>2. Agrees(y, Values(r.before), t, k)
        BY <2>3, <2>6, <2>8, <4>1, AgreesAt
      <4> QED
        BY <4>2
    <3> QED
      BY <3>1, <3>2
  <2> QED
    BY <1>2, <1>4, <1>6, <2>1, <2>9, CutIsPart
<1>8. run[p].pc \notin {"idle", "done", "exit"}
  BY <1>1
<1> QED
  BY <1>1, <1>6, <1>7, <1>8, BreaksInCall DEF c, r

LEMMA CutInsertManyInCall ==
  ASSUME RunInv, CallInv, NEW p \in Proc, CutInsertMany(p),
         UNCHANGED <<chain, encrypted, prog>>
  PROVE  InCall(p)
<1> DEFINE c == Call(p)
           objs == c.objs
           r == run[p]
           first(n) == StoredOf(objs, DOMAIN docs[Top]) \cap 1 .. n
<1>1. PICK n \in 0 .. Len(objs) :
        /\ Breaks(p, "insert", PutObjects(p, docs, first(n)),
                  Cells(Top, {objs[i].key : i \in first(n)}))
        /\ run[p].pc = "insert_many"
  BY DEF CutInsertMany, At
<1> DEFINE these == first(n)
           keys == {objs[i].key : i \in these}
           valOf(k) == objs[CHOOSE i \in these : objs[i].key = k].val
           stored == [k \in keys |-> Stored(p, Top, valOf(k))]
           y == Put(docs, Top, stored)
<1>2. /\ IsChain(chain) /\ chain # <<>> /\ IsCall(c, chain) /\ CallTyped(chain, c, r)
      /\ IsImage(chain, r.before) /\ IsImage(chain, docs)
      /\ Undisturbed(p) => UnderWay(chain, encrypted, c, r, docs)
  BY <1>1, CutFacts
<1>3. c.op = "bulk" /\ PutObjects(p, docs, these) = y
  BY <1>1, <1>2 DEF CallTyped, PutObjects
<1>4. Len(chain) = 1 /\ IsObjects(objs)
  BY <1>2, <1>3 DEF IsCall, IsObjects
<1>5. /\ DOMAIN stored = keys
      /\ \A k \in keys : "val" \in DOMAIN stored[k] /\ stored[k].val = valOf(k)
  BY DEF Stored
<1>6. IsStart(these, objs, DOMAIN docs[chain[1]])
  <2>1. n \in Nat
    BY <1>4, ObjectsFacts
  <2> QED
    BY <1>4, <2>1, StoredIsStart DEF Top
<1>7. BulkStored(objs, these, stored)
  BY <1>5 DEF BulkStored, KeysOf
<1>8. IsImage(chain, y)
  <2>1. DOMAIN stored \subseteq Key
    <3>1. \A i \in these : i \in DOMAIN objs
      BY DEF StoredOf
    <3>2. \A i \in DOMAIN objs : objs[i].key \in Key
      BY <1>4, ObjectsFacts
    <3> QED
      BY <1>5, <3>1, <3>2
  <2>2. Top \in Range(chain)
    BY <1>2, ChainFacts DEF Top
  <2> HIDE DEF stored, keys
  <2> QED
    BY <1>2, <1>5, <2>1, <2>2, PutFacts
<1>9. y = Put(docs, chain[1], stored)
  BY DEF Top
<1> HIDE DEF these, stored, keys, r, c, y
<1>10. ASSUME Undisturbed(p) PROVE PartDone(chain, c, r.before, y)
  <2>1. Reached(chain, c, r.before, docs, {})
    BY <1>1, <1>2, <1>10 DEF UnderWay, DoneTables, r
  <2> QED
    BY <1>2, <1>3, <1>4, <1>6, <1>7, <1>9, <2>1, BulkTable
<1>11. run[p].pc \notin {"idle", "done", "exit"}
  BY <1>1
<1>12. \E targets : Breaks(p, "insert", y, targets)
  BY <1>1, <1>3 DEF these
<1> QED
  BY <1>8, <1>10, <1>11, <1>12, BreaksInCall DEF c, r

LEMMA CutShortInCall ==
  ASSUME RunInv, CallInv, NEW p \in Proc, CutShort(p)
  PROVE  InCall(p)
  BY CutSaveInCall, CutUpdateInCall, CutDeleteInCall, CutInsertManyInCall DEF CutShort

\* A call begins: nothing is done, and what it sees is what there was before.
LEMMA BeginFits ==
  ASSUME NEW c, IsCall(c, chain), IsChain(chain), chain # <<>>, NEW encrypts,
         NEW r, r.pc = FirstStep(c.op), r.i = 1, r.rows = 0, r.outcome = "none",
         NEW atomic, IsImage(chain, r.before)
  PROVE  /\ CallTyped(chain, c, r)
         /\ CallHolds(chain, encrypts, c, r, r.before, atomic)
<1>1. /\ 1 \in DOMAIN chain /\ Last(chain) = chain[Len(chain)]
  BY ChainFacts
<1>2. \/ c.op \in {"save", "create"} /\ r.pc \in {"update", "insert"}
      \/ c.op = "bulk" /\ r.pc = "insert_many"
      \/ c.op = "update" /\ r.pc = "select"
      \/ c.op = "delete" /\ r.pc = "collect"
  BY DEF IsCall, FirstStep
<1>3. CallTyped(chain, c, r) /\ r.pc \notin {"idle", "exit", "done"}
  <2>1. r.pc = "update" /\ c.op = "create" => r.i # Len(chain)
    BY DEF FirstStep
  <2> QED
    BY <1>1, <1>2, <2>1 DEF CallTyped
<1>4. DoneTables(chain, c, r) = {}
  <2>1. 1 .. r.i - 1 = {}
    OBVIOUS
  <2> QED
    BY <1>2, <2>1 DEF DoneTables
<1>5. Reached(chain, c, r.before, r.before, DoneTables(chain, c, r))
  BY <1>4 DEF Reached
<1>6. SaveFits(chain, encrypts, c, r)
  <2> SUFFICES ASSUME r.pc = "insert", Possible(chain, encrypts, c, r)
               PROVE  c.key \notin DOMAIN r.before[chain[r.i]]
    BY DEF SaveFits
  <2>1. c.op = "create" /\ Len(chain) = 1
    BY DEF IsCall, FirstStep
  <2>2. c.key \notin DOMAIN r.before[Last(chain)]
    BY <2>1 DEF Possible, Allowed
  <2> QED
    BY <1>1, <2>1, <2>2
<1>7. UpdateFits(chain, c, r) /\ DeleteFits(chain, c, r)
  BY <1>2 DEF UpdateFits, DeleteFits
<1>8. UnderWay(chain, encrypts, c, r, r.before)
  BY <1>3, <1>5, <1>6, <1>7 DEF UnderWay
<1> QED
  BY <1>3, <1>8 DEF CallHolds

LEMMA BeginState ==
  ASSUME RunInv, CallInv, NEW p \in Proc, Begin(p)
  PROVE  CallInv'
<1> DEFINE opens == prog[p].atomic /\ run[p].at = 0
           calls == prog[p].calls
           n == run[p].at + 1
           c == calls[n]
           now == IF opens THEN docs ELSE Seen(p)
           r == [run[p] EXCEPT !.at = run[p].at + 1,
                               !.pc = FirstStep(prog[p].calls[run[p].at + 1].op),
                               !.i = 1, !.ids = {}, !.rows = 0, !.outcome = "none",
                               !.cause = "none", !.alone = TRUE,
                               !.before = IF opens THEN docs ELSE Image(p, "find")]
<1>1. /\ run' = [run EXCEPT ![p] = r] /\ docs' = docs
      /\ UNCHANGED <<chain, encrypted, prog>> /\ run[p].pc = "idle"
  BY DEF Begin, Fixed, At
<1>2. CallState(chain, encrypted, prog[p], run[p], txn[p], docs) /\ IsProgram(chain, calls)
  BY DEF CallInv
<1>3. /\ IsChain(chain) /\ chain # <<>> /\ IsImage(chain, docs)
      /\ run[p].at \in Nat /\ DOMAIN run = Proc /\ txn[p].open \in BOOLEAN
  BY DEF CallInv, RunInv
<1>4. /\ DOMAIN r = RunFields /\ r.at = n /\ r.pc = FirstStep(c.op) /\ r.i = 1
      /\ r.rows = 0 /\ r.outcome = "none" /\ r.alone = TRUE /\ r.before = now
  <2>1. DOMAIN run[p] = RunFields
    BY <1>2 DEF CallState
  <2> QED
    BY <2>1 DEF RunFields, Image, Session, Seen
<1> HIDE DEF r
<1>5. n \in 1 .. Len(calls) /\ n \in DOMAIN calls /\ IsCall(c, chain)
  <2>1. calls \in Seq(Range(calls)) /\ \A i \in DOMAIN calls : IsCall(calls[i], chain)
    BY <1>2 DEF IsProgram
  <2>2. PICK l \in Nat : l = Len(calls) /\ DOMAIN calls = 1 .. l
    BY <2>1
  <2>3. run[p].at \in 0 .. l /\ run[p].at # l
    BY <1>1, <1>2, <2>2 DEF CallState
  <2>4. n \in 1 .. l
    BY <1>3, <2>3
  <2> QED
    BY <2>1, <2>2, <2>4
<1>6. IsImage(chain, now)
  <2>1. txn[p].open => IsImage(chain, txn[p].view)
    BY <1>2 DEF CallState
  <2> QED
    BY <1>3, <2>1 DEF Seen
<1>7. IF opens THEN txn'[p] = [open |-> TRUE, base |-> docs, view |-> docs, wrote |-> {}]
      ELSE txn'[p] = txn[p]
  BY BeginRuns
<1>8. /\ now = IF txn'[p].open THEN txn'[p].view ELSE docs
      /\ txn'[p].open => prog[p].atomic /\ IsImage(chain, txn'[p].view)
  <2>1. CASE opens
    BY <1>3, <1>7, <2>1
  <2>2. CASE ~opens
    BY <1>2, <1>7, <2>2 DEF Seen, CallState
  <2> QED
    BY <2>1, <2>2
<1> HIDE DEF now, opens, c
<1>9. CallTyped(chain, c, r) /\ CallHolds(chain, encrypted, c, r, now, prog[p].atomic)
  <2>1. IsImage(chain, r.before) /\ r.before = now
    BY <1>4, <1>6
  <2> QED
    BY <1>3, <1>4, <1>5, <2>1, BeginFits
<1>10. CallState(chain, encrypted, prog[p], r, txn'[p], docs)
  <2>1. r.pc # "idle"
    BY <1>4 DEF FirstStep
  <2>2. r.at \in 0 .. Len(prog[p].calls)
    BY <1>4, <1>5
  <2>3. IsImage(chain, r.before)
    BY <1>4, <1>6
  <2>4. c = prog[p].calls[r.at]
    BY <1>4 DEF c
  <2> HIDE DEF calls, n
  <2> QED
    BY <1>4, <1>8, <1>9, <2>1, <2>2, <2>3, <2>4 DEF CallState
<1>11. \A q \in Proc \ {p} : txn'[q] = txn[q] /\ run'[q] = run[q]
  BY BeginRuns
<1>12. run'[p] = r
  BY <1>1, <1>3
<1> QED
  BY <1>1, <1>3, <1>10, <1>11, <1>12, CallInvAfter

LEMMA CommitState ==
  ASSUME RunInv, CallInv, NEW p \in Proc, Commit(p)
  PROVE  CallInv'
<1> DEFINE r == [run[p] EXCEPT !.pc = "done", !.alone = FALSE]
           view == txn[p].view
<1>1. /\ Moves(p, r) /\ UNCHANGED <<chain, encrypted, prog>> /\ run[p].pc = "exit"
  BY DEF Commit, Fixed, At
<1>2. CallState(chain, encrypted, prog[p], run[p], txn[p], docs) /\ IsImage(chain, docs)
  BY DEF CallInv
<1>3. txn[p].open /\ run[p].at # 0
  BY <1>1 DEF RunInv
<1>4. IsImage(chain, view)
  BY <1>2, <1>3 DEF CallState
<1>5. /\ DOMAIN r = RunFields /\ r.pc = "done" /\ r.alone = FALSE
      /\ r.at = run[p].at /\ r.outcome = run[p].outcome /\ r.before = run[p].before
  BY <1>2 DEF CallState, RunFields
<1> HIDE DEF r, view
<1>6. IsImage(chain, docs')
  <2>1. DOMAIN docs' = DOMAIN docs /\ DOMAIN docs = Range(chain) /\ DOMAIN view = Range(chain)
    BY <1>2, <1>4 DEF Commit, IsImage
  <2>2. ASSUME NEW t \in Range(chain)
        PROVE  /\ DOMAIN docs'[t] \subseteq Key
               /\ \A k \in DOMAIN docs'[t] : "val" \in DOMAIN docs'[t][k]
    <3> DEFINE kept == {k \in Key : <<t, k>> \notin txn[p].wrote}
               mine == DOMAIN view[t] \ kept
    <3>1. /\ DOMAIN docs'[t] = (DOMAIN docs[t] \cap kept) \cup mine
          /\ \A k \in DOMAIN docs'[t] :
               docs'[t][k] = IF k \in kept THEN docs[t][k] ELSE view[t][k]
      BY <2>1, CommitMerges DEF view
    <3> HIDE DEF kept
    <3>2. /\ DOMAIN docs[t] \subseteq Key /\ DOMAIN view[t] \subseteq Key
          /\ \A k \in DOMAIN docs[t] : "val" \in DOMAIN docs[t][k]
          /\ \A k \in DOMAIN view[t] : "val" \in DOMAIN view[t][k]
      BY <1>2, <1>4, <2>1 DEF IsImage
    <3> QED
      BY <3>1, <3>2
  <2> QED
    BY <2>1, <2>2 DEF IsImage
<1>7. /\ run'[p] = r
      /\ \A q \in Proc \ {p} :
           /\ run'[q] \in {run[q], [run[q] EXCEPT !.alone = FALSE]}
           /\ docs' = docs \/ run'[q].alone = FALSE
  BY <1>1, MovesOthers
<1>8. txn'[p] = NoTxn /\ \A q \in Proc \ {p} : txn'[q] = txn[q]
  BY CommitRuns
<1>9. CallTyped(chain, prog[p].calls[r.at], r)
  BY <1>5 DEF CallTyped
<1>10. CallState(chain, encrypted, prog[p], r, NoTxn, docs')
  BY <1>2, <1>3, <1>5, <1>9, NoTxnShape DEF CallState
<1> QED
  BY <1>1, <1>6, <1>7, <1>8, <1>10, CallInvAfter

LEMMA StepCallInv == RunInv /\ CallInv /\ [Next]_vars => CallInv'
<1> SUFFICES ASSUME RunInv, CallInv, [Next]_vars PROVE CallInv'
  OBVIOUS
<1>1. ASSUME NEW p \in Proc, Step(p) PROVE CallInv'
  <2>1. CASE Begin(p)
    BY <2>1, BeginState
  <2>2. CASE Commit(p)
    BY <2>2, CommitState
  <2>3. CASE ~Begin(p) /\ ~Commit(p)
    <3>1. InCall(p)
      BY <1>1, <2>3, FaultInCall, CutShortInCall, SaveUpdateInCall, SaveInsertInCall, InsertManyInCall,
         UpdateSelectInCall, UpdatePrimaryInCall, UpdateRelatedInCall, DeleteCollectInCall,
         DeleteManyInCall DEF Step
    <3> QED
      BY <3>1, InCallState
  <2> QED
    BY <2>1, <2>2, <2>3
<1>2. CASE UNCHANGED vars
  <2>1. /\ chain' = chain /\ encrypted' = encrypted /\ prog' = prog /\ docs' = docs
        /\ txn' = txn /\ run' = run
    BY <1>2 DEF vars
  <2> QED
    BY <2>1 DEF CallInv
<1> QED
  BY <1>1, <1>2 DEF Next, AllDone

LEMMA InitCallInv == Init => CallInv
<1> SUFFICES ASSUME Init PROVE CallInv
  OBVIOUS
<1>1. PICK s \in Programs :
        /\ chain = s.chain /\ docs = s.docs /\ prog = s.progs
        /\ txn = [p \in Proc |-> NoTxn]
        /\ run = [p \in Proc |->
             [pc |-> IF s.progs[p].calls = <<>> THEN "done" ELSE "idle",
              at |-> 0, i |-> 1, ids |-> {}, rows |-> 0,
              outcome |-> "none", cause |-> "none", alone |-> FALSE, before |-> s.docs]]
  BY DEF Init
<1>2. IsChain(chain) /\ chain # <<>>
  BY <1>1, ProgramsAssumption
<1>3. IsImage(chain, docs)
  BY <1>1, ProgramsAssumption DEF IsImage
<1>4. \A p \in Proc : IsProgram(chain, prog[p].calls)
  BY <1>1, ProgramsAssumption DEF IsProgram
<1>5. ASSUME NEW p \in Proc
      PROVE  CallState(chain, encrypted, prog[p], run[p], txn[p], docs)
  <2>1. /\ DOMAIN run[p] = RunFields /\ run[p].at = 0 /\ run[p].outcome = "none"
        /\ run[p].before = docs
        /\ run[p].pc = (IF prog[p].calls = <<>> THEN "done" ELSE "idle")
        /\ txn[p] = NoTxn
    BY <1>1 DEF RunFields
  <2>2. prog[p].calls \in Seq(Range(prog[p].calls))
    BY <1>4 DEF IsProgram
  <2>3. PICK n \in Nat : n = Len(prog[p].calls)
    BY <2>2
  <2>4. run[p].at \in 0 .. n /\ (prog[p].calls # <<>> => n # 0)
    BY <2>1, <2>2, <2>3
  <2>5. ~txn[p].open
    BY <2>1, NoTxnShape
  <2> QED
    BY <1>3, <2>1, <2>3, <2>4, <2>5 DEF CallState
<1> QED
  BY <1>2, <1>3, <1>4, <1>5 DEF CallInv

-----------------------------------------------------------------------------

\* What has been shown of a call that has ended.
LEMMA JudgedCall ==
  ASSUME RunInv, CallInv, NEW p \in Proc, Judged(p)
  PROVE  /\ run[p].outcome \in {"returned", "raised"}
         /\ run[p].outcome = "returned" =>
              Settled(chain, Call(p), run[p], Image(p, "find"))
         /\ run[p].outcome = "raised" =>
              /\ run[p].cause = "server" \/ ~Possible(chain, encrypted, Call(p), run[p])
              /\ prog[p].atomic \/ PartDone(chain, Call(p), run[p].before, Image(p, "find"))
         /\ IsImage(chain, run[p].before) /\ IsImage(chain, Image(p, "find"))
<1>1. CallState(chain, encrypted, prog[p], run[p], txn[p], docs) /\ IsImage(chain, docs)
  BY DEF CallInv
<1>2. /\ run[p].outcome # "none" /\ run[p].pc \in {"idle", "exit", "done"}
      /\ txn[p].open \/ run[p].alone
  BY DEF Judged
<1>3. Image(p, "find") = IF txn[p].open THEN txn[p].view ELSE docs
  BY DEF Image, Session
<1>4. CallHolds(chain, encrypted, Call(p), run[p], Image(p, "find"), prog[p].atomic)
  BY <1>1, <1>2, <1>3 DEF CallState, Call
<1>5. IsImage(chain, run[p].before) /\ IsImage(chain, Image(p, "find"))
  BY <1>1, <1>3 DEF CallState
<1> QED
  BY <1>2, <1>4, <1>5 DEF CallHolds

LEMMA MeantEverywhere ==
  ASSUME NEW ch, NEW c, NEW b, NEW x, IsImage(ch, b), IsImage(ch, x),
         c.op \in {"save", "create", "bulk", "update", "delete"},
         Reached(ch, c, b, x, Range(ch))
  PROVE  Values(x) = Meant(ch, c, b)
<1>1. \A t \in Range(ch) : Values(x)[t] = Meant(ch, c, b)[t]
  BY DEF Reached
<1>2. DOMAIN x = Range(ch) /\ DOMAIN b = Range(ch)
  BY DEF IsImage
<1>3. Values(x) = [t \in Range(ch) |-> Values(x)[t]]
  BY <1>2 DEF Values
<1>4. Meant(ch, c, b) = [t \in Range(ch) |-> Meant(ch, c, b)[t]]
  BY <1>2 DEF Meant
<1> QED
  BY <1>1, <1>3, <1>4

LEMMA CallInvImplies == RunInv /\ CallInv => CallsMatchSQL /\ FailedCallsLeaveParts
<1> SUFFICES ASSUME RunInv, CallInv PROVE CallsMatchSQL /\ FailedCallsLeaveParts
  OBVIOUS
<1>1. CallsMatchSQL
  <2> SUFFICES ASSUME NEW p \in Proc, Judged(p), Whole(chain, run[p].before),
                      Allowed(chain, encrypted, Call(p), run[p].before),
                      run[p].cause # "server"
               PROVE  /\ run[p].outcome = "returned"
                      /\ Values(Image(p, "find")) = Meant(chain, Call(p), run[p].before)
                      /\ run[p].rows = MeantRows(chain, Call(p), run[p].before)
    BY DEF CallsMatchSQL
  <2> DEFINE c == Call(p)
             b == run[p].before
             x == Image(p, "find")
  <2>1. /\ run[p].outcome = "returned" /\ Settled(chain, c, run[p], x)
        /\ IsImage(chain, b) /\ IsImage(chain, x)
    BY JudgedCall DEF Possible
  <2>2. c.op \in {"save", "create", "bulk", "update", "delete"}
    <3>1. run[p].at \in 0 .. Len(prog[p].calls) /\ run[p].at # 0
      BY DEF CallInv, CallState, Judged
    <3>2. IsProgram(chain, prog[p].calls)
      BY DEF CallInv
    <3>3. run[p].at \in DOMAIN prog[p].calls
      BY <3>1, <3>2 DEF IsProgram
    <3>4. IsCall(c, chain)
      BY <3>2, <3>3 DEF IsProgram, Call
    <3> HIDE DEF c
    <3> QED
      BY <3>4 DEF IsCall
  <2>3. Reached(chain, c, b, x, Range(chain))
    BY <2>1 DEF Settled
  <2>4. run[p].rows = MeantRows(chain, c, b)
    BY <2>1 DEF Settled
  <2>5. Values(x) = Meant(chain, c, b)
    <3> HIDE DEF c, b, x
    <3> QED
      BY <2>1, <2>2, <2>3, MeantEverywhere
  <2> QED
    BY <2>1, <2>4, <2>5
<1>2. FailedCallsLeaveParts
  <2> SUFFICES ASSUME NEW p \in Proc, Judged(p), run[p].outcome = "raised", ~prog[p].atomic
               PROVE  PartDone(chain, Call(p), run[p].before, Image(p, "find"))
    BY DEF FailedCallsLeaveParts
  <2> QED
    BY JudgedCall
<1> QED
  BY <1>1, <1>2

LEMMA CallInvHolds == Spec => [](RunInv /\ CallInv)
<1>1. Init => RunInv /\ DataInv /\ CallInv
  BY InitRunInv, InitDataInv, InitCallInv
<1>2. RunInv /\ DataInv /\ CallInv /\ [Next]_vars => (RunInv /\ DataInv /\ CallInv)'
  BY StepRunInv, StepDataInv, StepCallInv
<1> QED
  BY <1>1, <1>2, PTL DEF Spec

\* A call that SQL allows, that nobody disturbs and that the server does not refuse
\* leaves in all tables of the model what one SQL statement or transaction would have
\* left, and reports its rows: for any tables, keys, values, calls and other processes.
THEOREM CallsMatchSQLCorrect == Spec => []CallsMatchSQL
  BY CallInvHolds, CallInvImplies, PTL

\* A call that raises outside of a block leaves no more behind than PartDone tells,
\* whichever of its commands failed and however many documents that had written.
THEOREM FailedCallsLeavePartsCorrect == Spec => []FailedCallsLeaveParts
  BY CallInvHolds, CallInvImplies, PTL
=============================================================================
