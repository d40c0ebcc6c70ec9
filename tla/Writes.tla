-------------------------------- MODULE Writes --------------------------------
(***************************************************************************)
(* save(), bulk_create(), update() and delete() of a model and of the      *)
(* models it inherits from.  Django turns each call into several commands, *)
(* the compilers of this backend send them one by one, and django's own    *)
(* atomic() around them does nothing (features.py): other processes run    *)
(* between two commands, and a command may fail when earlier ones are done.*)
(* Only a block of django_mongodb_backend.transaction.atomic() gives the   *)
(* commands a session that joins them in one transaction.                  *)
(***************************************************************************)
EXTENDS Integers, Sequences, FiniteSets, SequencesExt

CONSTANTS
  Proc,        \* processes, each with a connection of its own
  Key,         \* primary keys
  ObjectId,    \* those that are ObjectIds
  Val,         \* values of the one field that each model adds
  None,        \* no value
  Programs,    \* what the processes do: [chain, encrypted, docs, progs]
  MaxFaults    \* commands that fail in a behaviour

ASSUME NoneAssumption == None \notin Val \cup Proc

\* A key is a BSON value, whose size is limited.
ASSUME KeyAssumption == IsFiniteSet(Key) /\ ObjectId \subseteq Key

\* A list of distinct tables.
IsChain(ch) == ch \in Seq(Range(ch)) /\ IsInjective(ch)

\* The calls that Django makes of those of a program: save() has a value for each
\* table, bulk_create() is refused for models with parents, and update() has values
\* for some tables, of which those of parents are updated by queries of their own.
IsCall(c, ch) ==
  \/ /\ c.op \in {"save", "create"}
     /\ c.key \in Key /\ c.vals \in [Range(ch) -> Val \cup {None}]
  \/ /\ c.op = "bulk"
     /\ Len(ch) = 1 /\ c.objs \in Seq([key : Key, val : Val \cup {None}])
  \/ /\ c.op = "update"
     /\ DOMAIN c.sets \in (SUBSET Range(ch)) \ {{}}
     /\ IsChain(c.related) /\ Range(c.related) = DOMAIN c.sets \ {Last(ch)}
  \/ c.op = "delete"

\* Whatever the collections hold before, it is not one of the programs' instances.
ASSUME ProgramsAssumption ==
  \A s \in Programs :
    /\ IsChain(s.chain) /\ s.chain # <<>>
    /\ DOMAIN s.docs = Range(s.chain)
    /\ \A t \in DOMAIN s.docs :
         /\ DOMAIN s.docs[t] \subseteq Key
         /\ \A k \in DOMAIN s.docs[t] :
              s.docs[t][k] \in [val : Val, of : {None}, created : {0}]
    /\ \A p \in Proc :
         /\ s.progs[p].atomic \in BOOLEAN
         /\ s.progs[p].calls \in Seq(Range(s.progs[p].calls))
         /\ \A i \in DOMAIN s.progs[p].calls : IsCall(s.progs[p].calls[i], s.chain)

VARIABLES
  chain,       \* the tables of the model, that of its topmost parent first
  encrypted,   \* connection.auto_encryption_opts is set
  prog,        \* of each process, [atomic, calls]
  docs,        \* the collections: of each table, from keys to documents
  txn,         \* of each process, its open transaction or NoTxn
  emb,         \* of each process, the embedded instance that it saves
  run,         \* of each process, where it is
  faults

vars == <<chain, encrypted, prog, docs, txn, emb, run, faults>>

\* A document has the value of its model's field, and in the topmost table the
\* embedded document: whose instance it is, and when that was created.
NoTxn == [open |-> FALSE]

Top == chain[1]
Own == Last(chain)
Call(p) == prog[p].calls[run[p].at]
At(p, pc) == run[p].pc = pc

-----------------------------------------------------------------------------
(* The server.                                                             *)

Sessionless(p, verb) == txn[p].open /\ verb # "delete"   \* mutant: a verb without it

\* session=self.connection.session.
Session(p, verb) == txn[p].open

Image(p, verb) == IF Session(p, verb) THEN txn[p].view ELSE docs

\* A transaction may not write what another one wrote, or what has changed since
\* it began; a write outside of transactions waits for them.
Locked(p, targets) == \E q \in Proc \ {p} : txn[q].open /\ targets \cap txn[q].wrote # {}
Stale(p, targets) ==
  \E w \in targets : LET t == w[1]  k == w[2] IN
    \/ (k \in DOMAIN docs[t]) # (k \in DOMAIN txn[p].base[t])
    \/ k \in DOMAIN docs[t] /\ docs[t][k] # txn[p].base[t][k]
Waits(p, verb, targets) == ~Session(p, verb) /\ Locked(p, targets)
Conflicts(p, verb, targets) ==
  Session(p, verb) /\ (Locked(p, targets) \/ Stale(p, targets))

Cells(t, keys) == {<<t, k>> : k \in keys}

Over(new, old) ==
  [k \in DOMAIN new \cup DOMAIN old |-> IF k \in DOMAIN new THEN new[k] ELSE old[k]]
Put(image, t, stored) == [image EXCEPT ![t] = Over(stored, image[t])]
Without(image, t, keys) ==
  [image EXCEPT ![t] = Restrict(image[t], DOMAIN image[t] \ keys)]

\* The documents of t that still are there, with another value.
Reset(image, t, keys, val) ==
  Put(image, t, [k \in keys \cap DOMAIN image[t] |-> [image[t][k] EXCEPT !.val = val]])

-----------------------------------------------------------------------------
(* Steps of a call.                                                        *)

Others(p) == [q \in Proc |-> IF q = p THEN run[p] ELSE [run[q] EXCEPT !.alone = FALSE]]

\* p's command leaves image behind, having written the targets.
Execute(p, verb, image, targets) ==
  IF Session(p, verb)
  THEN /\ txn' = [txn EXCEPT ![p].view = image, ![p].wrote = @ \cup targets]
       /\ docs' = docs
  ELSE docs' = image /\ txn' = txn

\* What the others know of p's step: their calls are no longer alone.
Moves(p, mine) ==
  run' = [(IF docs' = docs THEN run ELSE Others(p)) EXCEPT ![p] = mine]

\* Behind a call comes the next one, or the end of the block.
Following(p) ==
  IF run[p].at < Len(prog[p].calls) THEN "idle"
  ELSE IF prog[p].atomic THEN "exit" ELSE "done"
Ended(p, outcome, rows) ==
  [run[p] EXCEPT !.pc = Following(p), !.outcome = outcome, !.rows = rows]

\* An exception leaves the block, which rolls back; without a block the program
\* catches it and goes on.
Raises(p, cause) ==
  /\ txn' = [txn EXCEPT ![p] = NoTxn]
  /\ run' = [run EXCEPT ![p] =
       [Ended(p, "raised", 0) EXCEPT !.pc = IF prog[p].atomic THEN "done" ELSE @,
                                     !.cause = cause]]
  /\ UNCHANGED docs

\* One command, or its refusal.
Command(p, verb, image, targets, mine) ==
  /\ ~Waits(p, verb, targets)
  /\ IF Conflicts(p, verb, targets) THEN Raises(p, "server")
     ELSE Execute(p, verb, image, targets) /\ Moves(p, mine)

Fixed == UNCHANGED <<chain, encrypted, prog, faults>>

\* create() is save(force_insert=True), which holds for the model's own table.
\* The last one is delete().
FirstStep(op) ==
  CASE op = "create" -> IF Len(chain) = 1 THEN "insert" ELSE "update"
    [] op = "save" -> "update"
    [] op = "bulk" -> "insert_many"
    [] op = "update" -> "select"
    [] OTHER -> "collect"

Begin(p) ==
  /\ At(p, "idle")
  /\ LET opens == prog[p].atomic /\ run[p].at = 0
     IN /\ txn' = IF ~opens THEN txn
                  ELSE [txn EXCEPT ![p] = [open |-> TRUE, base |-> docs, view |-> docs,
                                           wrote |-> {}]]
        /\ run' = [run EXCEPT ![p] =
             [run[p] EXCEPT !.at = run[p].at + 1,
                            !.pc = FirstStep(prog[p].calls[run[p].at + 1].op),
                            !.i = 1, !.ids = {}, !.rows = 0, !.outcome = "none",
                            !.cause = "none", !.alone = TRUE,
                            !.before = IF opens THEN docs ELSE Image(p, "find")]]
  /\ UNCHANGED <<docs, emb>> /\ Fixed

Commit(p) ==
  /\ At(p, "exit")
  /\ docs' = [t \in DOMAIN docs |->
       LET kept == {k \in Key : <<t, k>> \notin txn[p].wrote}
       IN Over(Restrict(docs[t], DOMAIN docs[t] \cap kept),
               Restrict(txn[p].view[t], DOMAIN txn[p].view[t] \ kept))]
  /\ txn' = [txn EXCEPT ![p] = NoTxn]
  /\ Moves(p, [run[p] EXCEPT !.pc = "done", !.alone = FALSE])
  /\ UNCHANGED emb /\ Fixed

-----------------------------------------------------------------------------
(* The embedded instance.                                                  *)

NeverStored(e, n) == IF e.adding THEN [adding |-> TRUE, created |-> n] ELSE e
   \* mutant: adding is not reset

\* get_db_prep_save(): auto_now_add sets its field in an instance that is new.
Prepared(e, n) == [adding |-> FALSE, created |-> IF e.adding THEN n ELSE e.created]

\* The n-th call of p prepares its instance.
PreparedBy(p) == Prepared(emb[p], run[p].at)

-----------------------------------------------------------------------------
(* save(), create() and bulk_create().                                     *)

\* The topmost model has the embedded model field.
Stored(p, t, val) ==
  LET e == PreparedBy(p)
  IN IF t = Top THEN [val |-> val, of |-> p, created |-> e.created]
     ELSE [val |-> val, of |-> None, created |-> 0]
Prepares(p, t) == emb' = IF t = Top THEN [emb EXCEPT ![p] = PreparedBy(p)] ELSE emb

\* The columns of the criteria: a filter on the key names the column of the key,
\* which is "_id" in the topmost table and a reference to it in the others.
KeyColumn(t) == IF t = Top THEN "_id" ELSE "ptr_id"

\* The column of the criteria, and what it is compared with.
UpdateMethod(column, value) ==
  IF column = "_id" /\ value \in ObjectId THEN "update_one" ELSE "update_many"
Refused(method) == encrypted /\ method = "update_many"

\* A table below one that was inserted into is inserted into as well.
AfterTable(p, inserted) ==
  LET next == run[p].i + 1
      forced == inserted \/ (Call(p).op = "create" /\ next = Len(chain))
  IN IF run[p].i = Len(chain) THEN Ended(p, "returned", 0)
     ELSE [run[p] EXCEPT !.i = next, !.pc = IF forced THEN "insert" ELSE "update"]

\* Of each table, parents first: update the document with this key, and insert it
\* if none was matched.
SaveUpdate(p) ==
  /\ At(p, "update")
  /\ LET t == chain[run[p].i]
         c == Call(p)
         image == Image(p, "update")
         found == {c.key} \cap DOMAIN image[t]
         next == IF found = {} THEN [run[p] EXCEPT !.pc = "insert"]
                 ELSE AfterTable(p, FALSE)
     IN /\ IF Refused(UpdateMethod(KeyColumn(t), c.key)) THEN Raises(p, "code")
           ELSE Command(p, "update", Put(image, t, [k \in found |-> Stored(p, t, c.vals[t])]),
                        Cells(t, found), next)
        /\ Prepares(p, t)
  /\ Fixed

RefusesNull(val) == val = None

SaveInsert(p) ==
  /\ At(p, "insert")
  /\ LET t == chain[run[p].i]
         c == Call(p)
         image == Image(p, "insert")
     IN /\ IF RefusesNull(c.vals[t]) THEN Raises(p, "code")
           ELSE IF c.key \in DOMAIN image[t] /\ ~Waits(p, "insert", Cells(t, {c.key}))
           THEN Raises(p, "duplicate")
           ELSE Command(p, "insert", Put(image, t, [k \in {c.key} |-> Stored(p, t, c.vals[t])]),
                        Cells(t, {c.key}), AfterTable(p, TRUE))
        /\ Prepares(p, t)
  /\ Fixed

\* insert_many() is ordered: without a transaction, the objects before the first
\* whose key is taken are stored.
Taken(objs, keys, i) == objs[i].key \in keys \cup {objs[j].key : j \in 1 .. i - 1}
Unordered(objs, keys) ==   \* mutant: those behind it are stored, too
  {i \in DOMAIN objs : ~Taken(objs, keys, i)}
StoredOf(objs, keys) == {i \in DOMAIN objs : \A j \in 1 .. i : ~Taken(objs, keys, j)}

\* The first object with each key, of those whose places are given.
PutObjects(p, image, places) ==
  LET objs == Call(p).objs
  IN Put(image, Top, [k \in {objs[i].key : i \in places} |->
                        Stored(p, Top, objs[CHOOSE i \in places : objs[i].key = k].val)])

InsertMany(p) ==
  /\ At(p, "insert_many")
  /\ LET objs == Call(p).objs
         image == Image(p, "insert")
         stored == StoredOf(objs, DOMAIN image[Top])
         keys == {objs[i].key : i \in stored}
         complete == stored = DOMAIN objs
         end == IF complete THEN Ended(p, "returned", Len(objs))
                ELSE [Ended(p, "raised", 0) EXCEPT !.cause = "duplicate"]
     IN /\ IF \E i \in DOMAIN objs : RefusesNull(objs[i].val) THEN Raises(p, "code")
           ELSE IF ~complete /\ Session(p, "insert") THEN Raises(p, "duplicate")
           ELSE Command(p, "insert", PutObjects(p, image, stored), Cells(Top, keys), end)
        /\ Prepares(p, Top)
  /\ Fixed

-----------------------------------------------------------------------------
(* update().                                                               *)

Matching(rows, val) == {k \in DOMAIN rows : rows[k].val = val}

\* The columns of parents are updated by queries of their own, to which the keys
\* are given; without such columns the filter is evaluated by the update itself.
UpdateSelect(p) ==
  /\ At(p, "select")
  /\ LET c == Call(p)
         chosen == IF c.related = <<>> THEN {} ELSE Matching(Image(p, "find")[Own], c.where)
         empty == c.related # <<>> /\ chosen = {}
     IN run' = [run EXCEPT ![p] = IF empty THEN Ended(p, "returned", 0)
                                  ELSE [@ EXCEPT !.pc = "primary", !.ids = chosen]]
  /\ UNCHANGED <<docs, txn, emb>> /\ Fixed

\* The keys of the model's own table that update() writes.
OwnKeys(p, image) ==
  IF Call(p).related = <<>> THEN Matching(image[Own], Call(p).where)
  ELSE run[p].ids \cap DOMAIN image[Own]

\* is_empty: the query has no values of its own table.
UpdatePrimary(p) ==
  /\ At(p, "primary")
  /\ LET c == Call(p)
         image == Image(p, "update")
         keys == OwnKeys(p, image)
         after(rows) == IF c.related = <<>> THEN Ended(p, "returned", rows)
                        ELSE [run[p] EXCEPT !.pc = "related", !.rows = rows, !.i = 1]
     IN IF encrypted /\ c.expression THEN Raises(p, "code")
        ELSE IF Own \notin DOMAIN c.sets
        THEN run' = [run EXCEPT ![p] = after(0)] /\ UNCHANGED <<docs, txn>>
        ELSE IF Refused(UpdateMethod("other", None)) THEN Raises(p, "code")
        ELSE Command(p, "update", Reset(image, Own, keys, c.sets[Own]),
                     Cells(Own, keys), after(Cardinality(keys)))
  /\ UNCHANGED emb /\ Fixed

OwnRows(p, aux) == run[p].rows   \* mutant: updates of parents only count nothing

\* The rows of the first query that is not empty and updates something.
RowsWith(p, aux) ==
  IF Own \notin DOMAIN Call(p).sets /\ run[p].rows = 0 THEN aux ELSE run[p].rows

UpdateRelated(p) ==
  /\ At(p, "related")
  /\ LET c == Call(p)
         t == c.related[run[p].i]
         image == Image(p, "update")
         keys == run[p].ids \cap DOMAIN image[t]
         rows == RowsWith(p, Cardinality(keys))
     IN IF Refused(UpdateMethod("other", None)) THEN Raises(p, "code")
        ELSE Command(p, "update", Reset(image, t, keys, c.sets[t]), Cells(t, keys),
               IF run[p].i = Len(c.related) THEN Ended(p, "returned", rows)
               ELSE [run[p] EXCEPT !.i = @ + 1, !.rows = rows])
  /\ UNCHANGED emb /\ Fixed

-----------------------------------------------------------------------------
(* delete().                                                               *)

\* Django deletes by the filter if the model has no parents; otherwise it reads
\* the keys and deletes them table by table, those of children first.
DeleteCollect(p) ==
  /\ At(p, "collect")
  /\ LET chosen == Matching(Image(p, "find")[Own], Call(p).where)
     IN run' = [run EXCEPT ![p] =
          IF Len(chain) > 1 /\ chosen = {} THEN Ended(p, "returned", 0)
          ELSE [@ EXCEPT !.pc = "delete", !.ids = chosen, !.i = Len(chain)]]
  /\ UNCHANGED <<docs, txn, emb>> /\ Fixed

DeletedKeys(p, image, t) ==
  IF Len(chain) = 1 THEN Matching(image[Own], Call(p).where)
  ELSE run[p].ids \cap DOMAIN image[t]

DeleteMany(p) ==
  /\ At(p, "delete")
  /\ LET t == chain[run[p].i]
         image == Image(p, "delete")
         keys == DeletedKeys(p, image, t)
         rows == run[p].rows + Cardinality(keys)
     IN Command(p, "delete", Without(image, t, keys), Cells(t, keys),
                IF t = Top THEN Ended(p, "returned", rows)
                ELSE [run[p] EXCEPT !.i = @ - 1, !.rows = rows])
  /\ UNCHANGED emb /\ Fixed

-----------------------------------------------------------------------------
(* Commands that fail.                                                     *)

\* The server refuses the command, or the connection fails before it is executed.
Fault(p) ==
  /\ run[p].pc \notin {"idle", "done"}
  /\ faults < MaxFaults /\ faults' = faults + 1
  /\ Raises(p, "server")
  /\ IF run[p].pc \in {"update", "insert", "insert_many"} THEN Prepares(p, chain[run[p].i])
     ELSE UNCHANGED emb
  /\ UNCHANGED <<chain, encrypted, prog>>

\* The server fails while it executes the command, or its answer is lost: without a
\* transaction it keeps the documents that it has written by then.
Breaks(p, verb, image, targets) ==
  /\ ~Session(p, verb) /\ ~Waits(p, verb, targets)
  /\ Execute(p, verb, image, targets)
  /\ Moves(p, [Ended(p, "raised", 0) EXCEPT !.cause = "server"])

\* Those are some of the documents that the command would have written,
CutSave(p, some) ==
  LET t == chain[run[p].i]
      c == Call(p)
      keys == some \cap IF At(p, "update") THEN {c.key} \cap DOMAIN docs[t]
                        ELSE {c.key} \ DOMAIN docs[t]
  IN /\ \/ At(p, "update") /\ ~Refused(UpdateMethod(KeyColumn(t), c.key))
        \/ At(p, "insert") /\ ~RefusesNull(c.vals[t])
     /\ Breaks(p, run[p].pc, Put(docs, t, [k \in keys |-> Stored(p, t, c.vals[t])]),
               Cells(t, keys))
     /\ Prepares(p, t)

CutUpdate(p, some) ==
  LET c == Call(p)
      t == IF At(p, "primary") THEN Own ELSE c.related[run[p].i]
      keys == some \cap IF At(p, "primary") THEN OwnKeys(p, docs)
                        ELSE run[p].ids \cap DOMAIN docs[t]
  IN /\ At(p, "primary") \/ At(p, "related")
     /\ t \in DOMAIN c.sets /\ ~Refused(UpdateMethod("other", None))
     /\ Breaks(p, "update", Reset(docs, t, keys, c.sets[t]), Cells(t, keys))
     /\ UNCHANGED emb

CutDelete(p, some) ==
  LET t == chain[run[p].i]
      keys == some \cap DeletedKeys(p, docs, t)
  IN /\ At(p, "delete")
     /\ Breaks(p, "delete", Without(docs, t, keys), Cells(t, keys))
     /\ UNCHANGED emb

\* and of an ordered insert_many() the first n.
CutInsertMany(p) ==
  LET objs == Call(p).objs
      first(n) == StoredOf(objs, DOMAIN docs[Top]) \cap 1 .. n
  IN /\ At(p, "insert_many") /\ \A i \in DOMAIN objs : ~RefusesNull(objs[i].val)
     /\ \E n \in 0 .. Len(objs) :
          Breaks(p, "insert", PutObjects(p, docs, first(n)),
                 Cells(Top, {objs[i].key : i \in first(n)}))
     /\ Prepares(p, Top)

CutShort(p) ==
  /\ faults < MaxFaults /\ faults' = faults + 1
  /\ \/ \E some \in SUBSET Key : CutSave(p, some) \/ CutUpdate(p, some) \/ CutDelete(p, some)
     \/ CutInsertMany(p)
  /\ UNCHANGED <<chain, encrypted, prog>>

-----------------------------------------------------------------------------

Init ==
  \E s \in Programs :
    /\ chain = s.chain /\ encrypted = s.encrypted /\ docs = s.docs /\ prog = s.progs
    /\ txn = [p \in Proc |-> NoTxn]
    /\ emb = [p \in Proc |-> [adding |-> TRUE, created |-> 0]]
    /\ run = [p \in Proc |->
         [pc |-> IF s.progs[p].calls = <<>> THEN "done" ELSE "idle",
          at |-> 0, i |-> 1, ids |-> {}, rows |-> 0,
          outcome |-> "none", cause |-> "none", alone |-> FALSE, before |-> s.docs]]
    /\ faults = 0

Step(p) ==
  \/ Begin(p) \/ Commit(p) \/ Fault(p) \/ CutShort(p)
  \/ SaveUpdate(p) \/ SaveInsert(p) \/ InsertMany(p)
  \/ UpdateSelect(p) \/ UpdatePrimary(p) \/ UpdateRelated(p)
  \/ DeleteCollect(p) \/ DeleteMany(p)

AllDone == (\A p \in Proc : At(p, "done")) /\ UNCHANGED vars

Next == (\E p \in Proc : Step(p)) \/ AllDone

Spec == Init /\ [][Next]_vars

-----------------------------------------------------------------------------
(* What the calls mean in SQL, for a model of the tables ch.               *)

\* The first of several objects with the same key.
FirstOf(objs, k) ==
  CHOOSE i \in DOMAIN objs : objs[i].key = k /\ \A j \in 1 .. i - 1 : objs[j].key # k

Values(image) == [t \in DOMAIN image |-> [k \in DOMAIN image[t] |-> image[t][k].val]]

\* The values after call c, if nothing else happens.
Meant(ch, c, image) ==
  LET chosen == Matching(image[Last(ch)], c.where)
      old == Values(image)
  IN CASE c.op \in {"save", "create"} ->
            [t \in DOMAIN image |-> Over([k \in {c.key} |-> c.vals[t]], old[t])]
       [] c.op = "bulk" ->
            [t \in DOMAIN image |->
               Over([k \in {c.objs[i].key : i \in DOMAIN c.objs} |->
                       c.objs[FirstOf(c.objs, k)].val], old[t])]
       [] c.op = "update" ->
            [t \in DOMAIN image |-> [k \in DOMAIN image[t] |->
               IF k \in chosen /\ t \in DOMAIN c.sets THEN c.sets[t] ELSE old[t][k]]]
       [] c.op = "delete" ->
            [t \in DOMAIN image |-> [k \in DOMAIN image[t] \ chosen |-> old[t][k]]]

\* Rows of a child without their parents are not part of any program's model.
Whole(ch, image) ==
  \A i, j \in DOMAIN ch : i <= j => DOMAIN image[ch[j]] \subseteq DOMAIN image[ch[i]]

MeantRows(ch, c, image) ==
  LET chosen == Cardinality(Matching(image[Last(ch)], c.where))
  IN CASE c.op = "update" -> chosen
       [] c.op = "delete" -> Len(ch) * chosen
       [] c.op = "bulk" -> Len(c.objs)
       [] OTHER -> 0

\* Nothing in the call is refused by SQL or, with encryption, by the documentation.
Allowed(ch, encrypts, c, image) ==
  CASE c.op \in {"save", "create"} ->
            /\ \A i \in DOMAIN ch : c.vals[ch[i]] # None
            /\ c.op = "create" => c.key \notin DOMAIN image[Last(ch)]
            /\ encrypts => Len(ch) = 1 /\ (c.op = "create" \/ c.key \in ObjectId)
    [] c.op = "bulk" -> /\ \A i \in DOMAIN c.objs : c.objs[i].val # None
                        /\ StoredOf(c.objs, DOMAIN image[ch[1]]) = DOMAIN c.objs
    [] c.op = "update" -> ~encrypts
    [] c.op = "delete" -> TRUE

\* In the table t, key k is as the values say.
Agrees(image, values, t, k) ==
  IF k \in DOMAIN values[t] THEN k \in DOMAIN image[t] /\ image[t][k].val = values[t][k]
  ELSE k \notin DOMAIN image[t]

\* The tables in the order in which the call writes to them: save() begins with the
\* topmost parent, delete() with the model's own table, and so does update(), which
\* goes on with those of the parents that have columns in it.
Order(ch, c) ==
  CASE c.op = "update" -> <<Last(ch)>> \o c.related
    [] c.op = "delete" -> Reverse(ch)
    [] OTHER -> ch

\* What part of a call may do: each document is as before or as the call would have
\* it, a stored child has its parents, the objects of a bulk_create() are stored in
\* their order, and a table has changed only if the call is done in those before it.
PartDone(ch, c, before, now) ==
  LET old == Values(before)
      new == Meant(ch, c, before)
      order == Order(ch, c)
      first(i) == FirstOf(c.objs, c.objs[i].key) = i
  IN /\ \A t \in DOMAIN before : \A k \in Key : Agrees(now, old, t, k) \/ Agrees(now, new, t, k)
     /\ Whole(ch, before) => Whole(ch, now)
     /\ c.op = "bulk" => \A i \in DOMAIN c.objs :
          first(i) /\ ~Agrees(now, old, ch[1], c.objs[i].key) =>
            \A j \in 1 .. i : Agrees(now, new, ch[1], c.objs[j].key)
     /\ \A i, j \in DOMAIN order : i < j /\ Values(now)[order[j]] # old[order[j]] =>
          \A k \in Key : Agrees(now, new, order[i], k)

\* p's last call has ended, and nobody wrote to what it sees since it began.
Judged(p) ==
  /\ run[p].outcome # "none"
  /\ run[p].pc \in {"idle", "exit", "done"}
  /\ txn[p].open \/ run[p].alone

-----------------------------------------------------------------------------

\* A call that nobody disturbs and that is not refused does to all tables what SQL
\* does in one statement or transaction, and reports the same number of rows: save()
\* as an update or as an insert, update() of columns of several models, whose rows
\* are counted by the first query that has something to do, and delete() of children
\* and their parents.  With encryption no command may be an update_many():
\* save() is one where it updates by a key that is no ObjectId, or a parent's reference.
CallsMatchSQL ==
  \A p \in Proc : LET c == Call(p)  before == run[p].before IN
    Judged(p) /\ Whole(chain, before) /\ Allowed(chain, encrypted, c, before)
      /\ run[p].cause # "server" =>
        /\ run[p].outcome = "returned"
        /\ Values(Image(p, "find")) = Meant(chain, c, before)
        /\ run[p].rows = MeantRows(chain, c, before)

\* A call that raises outside of a block leaves parts behind, but only such parts as
\* PartDone tells, whichever command failed and however many documents it had written.
FailedCallsLeaveParts ==
  \A p \in Proc :
    Judged(p) /\ run[p].outcome = "raised" /\ ~prog[p].atomic =>
      PartDone(chain, Call(p), run[p].before, Image(p, "find"))

Moved(p) == [run'[p] EXCEPT !.alone = TRUE] # [run[p] EXCEPT !.alone = TRUE]

\* What a block writes reaches the collections when it commits, all of it in one
\* step, and never otherwise: every command of every compiler carries the session.
WrittenByCommit ==
  \A p \in Proc : prog[p].atomic /\ docs' # docs /\ Moved(p) =>
    /\ At(p, "exit")
    /\ \A t \in DOMAIN docs : \A k \in Key : <<t, k>> \in txn[p].wrote =>
         /\ (k \in DOMAIN docs'[t]) = (k \in DOMAIN txn[p].view[t])
         /\ k \in DOMAIN docs'[t] => docs'[t][k] = txn[p].view[t][k]
BlocksAreAtomic == [][WrittenByCommit]_vars

\* An embedded instance is marked as stored when its document is prepared, before the
\* command that may fail: whatever is retried, and wherever the instance is stored,
\* all documents that hold it have its time of creation, and the same.
CreatedOnce ==
  LET images == {docs} \cup {txn[p].view : p \in {q \in Proc : txn[q].open}}
  IN \A image \in images : \A k \in DOMAIN image[Top] :
       LET d == image[Top][k]
       IN d.of # None => d.created # 0 /\ d.created = emb[d.of].created
=============================================================================
