----------------------------- MODULE MongoAtomic -----------------------------
(***************************************************************************)
(* django_mongodb_backend.transaction.atomic and the transaction half of   *)
(* DatabaseWrapper (base.py), for one connection, that is, one thread.     *)
(*                                                                         *)
(* The program using it is arbitrary: it opens and leaves atomic blocks of *)
(* the backend and of Django, writes documents, registers on_commit()      *)
(* hooks, raises and catches exceptions, and so do its hooks.  What it is  *)
(* in the middle of is a stack of frames: a frame is a with-block, or a    *)
(* call that runs hooks.                                                   *)
(***************************************************************************)
EXTENDS ClientSession, Integers, Sequences, FiniteSets, Functions

CONSTANTS
  MaxHooks,             \* bound: how many hooks are ever registered
  Robust,               \* the hooks registered with robust=True
  MaxDepth,             \* bound: how many frames are open at once
  Faults                \* what may go wrong around the wrapper, see Fault

Hook == 1 .. MaxHooks   \* numbered in the order of registration

\* "commit"     commit_transaction() raises though the transaction was open
\* "swallow"    a block goes on, or ends normally, after the server aborted
\*              its transaction
\* "start"      session.start_transaction() raises
\* "close_pool" close_pool() is called inside a block
\* "django"     Django's own atomic() is used
Fault == {"commit", "swallow", "start", "close_pool", "django"}

ASSUME MongoAtomicAssumption ==
  /\ MaxHooks \in Nat
  /\ MaxDepth \in Nat
  /\ Robust \subseteq Hook
  /\ Faults \subseteq Fault

VARIABLES
  in_atomic_block_mongo,  \* DatabaseWrapper.in_atomic_block_mongo
  nested_atomics,         \* DatabaseWrapper.nested_atomics
  run_on_commit,          \* DatabaseWrapper.run_on_commit
  connected,              \* DatabaseWrapper.connection is not None
  in_atomic_block,        \* the flag of Django's own atomic()
  stack,                  \* the frames the thread is in, innermost last
  raising,                \* the exception in flight
  nextHook,               \* the number the next hook will have
  ran,                    \* history: the hooks that were called
  fate                    \* history: what its block told each write

wrapper == <<session, in_atomic_block_mongo, nested_atomics, run_on_commit>>
django == <<connected, in_atomic_block>>
vars == <<wrapper, django, txn, durable, stack, raising, nextHook, ran, fate>>

NoError == "no error"
Error == {"DatabaseError", "OtherError"}   \* django.db's, and all others,
                                           \* pymongo's own among them
NoHook == 0

Frame == [kind : {"mongo", "django", "hooks", "on_commit"},
          queue : Seq(Hook), hook : Hook \cup {NoHook}]

Block(kind) == [kind |-> kind, queue |-> <<>>, hook |-> NoHook]

\* "current"    acknowledged in the atomic block that is still open
\* "kept"       its block was committed, or it was written outside a block
\* "undone"     its block ended with an exception, or close_pool() ended it
\* "unresolved" the commit of its block raised, or the process died
Fate == {"new", "current", "kept", "undone", "unresolved"}

Settle(f) == [w \in Write |-> IF fate[w] = "current" THEN f ELSE fate[w]]

TypeOK ==
  /\ SessionTypeOK
  /\ in_atomic_block_mongo \in BOOLEAN
  /\ nested_atomics \in Nat
  /\ run_on_commit \in Seq(Hook)
  /\ connected \in BOOLEAN
  /\ in_atomic_block \in BOOLEAN
  /\ stack \in Seq(Frame)
  /\ raising \in Error \cup {NoError}
  /\ nextHook \in Hook \cup {MaxHooks + 1}
  /\ ran \subseteq Hook
  /\ fate \in [Write -> Fate]

WrapperInit ==
  /\ session = NoSession
  /\ in_atomic_block_mongo = FALSE
  /\ nested_atomics = 0
  /\ run_on_commit = <<>>
  /\ connected = FALSE
  /\ in_atomic_block = FALSE

Init ==
  /\ WrapperInit
  /\ txn = NoTxn
  /\ durable = {}
  /\ stack = <<>>
  /\ raising = NoError
  /\ nextHook = 1
  /\ ran = {}
  /\ fate = [w \in Write |-> "new"]

-----------------------------------------------------------------------------
(* The call stack.                                                         *)

Top == stack[Len(stack)]
Below == SubSeq(stack, 1, Len(stack) - 1)
Push(frame) == stack' = Append(stack, frame)
Retop(frame) == stack' = Append(Below, frame)
CanPush == Len(stack) < MaxDepth

InFrame(kinds) == stack # <<>> /\ Top.kind \in kinds

\* The program's own code is running: its top level, a block or a hook.
InUserCode ==
  IF stack = <<>> THEN TRUE
                  ELSE Top.kind \in {"mongo", "django"} \/ Top.hook # NoHook
Running == raising = NoError /\ InUserCode

InDjangoBlock == \E i \in DOMAIN stack : stack[i].kind = "django"

\* The connection is used: BaseDatabaseWrapper.connect() makes one if there is
\* none, and starts that one outside Django's atomic() and without hooks.
UseConnection ==
  /\ connected' = TRUE
  /\ in_atomic_block' = (connected /\ in_atomic_block)
  /\ run_on_commit' = IF connected THEN run_on_commit ELSE <<>>

KeepHooks == UNCHANGED <<django, run_on_commit>>

-----------------------------------------------------------------------------
(* transaction.Atomic                                                      *)

\* Atomic.__enter__ inside another block of the backend.
EnterInner ==
  /\ Running /\ CanPush
  /\ in_atomic_block_mongo
  /\ nested_atomics' = nested_atomics + 1
  /\ Push(Block("mongo"))
  /\ UNCHANGED <<django, session, in_atomic_block_mongo, run_on_commit, txn,
                 durable, raising, nextHook, ran, fate>>

\* Atomic.__enter__ of an outermost block: start_transaction_mongo() starts a
\* transaction only if the connection has no session yet.
EnterOuter ==
  /\ Running /\ CanPush
  /\ ~in_atomic_block_mongo
  /\ session' = IF session = NoSession THEN "starting" ELSE session
  /\ IF session = NoSession THEN UseConnection ELSE KeepHooks
  /\ in_atomic_block_mongo' = TRUE
  /\ Push(Block("mongo"))
  /\ UNCHANGED <<nested_atomics, txn, durable, raising,
                 nextHook, ran, fate>>

\* start_transaction_mongo(): start_session() succeeded and was stored, then
\* session.start_transaction() raised.
EnterFails ==
  /\ Running /\ CanPush
  /\ "start" \in Faults
  /\ ~in_atomic_block_mongo /\ session = NoSession
  /\ UseConnection
  /\ session' = "none"
  /\ raising' = "OtherError"
  /\ UNCHANGED <<in_atomic_block_mongo, nested_atomics, txn, durable,
                 stack, nextHook, ran, fate>>

RollbackKeepsHooks(e) ==   \* mutant: run_on_commit is not reset
  /\ raising' = e
  /\ session' = NoSession
  /\ txn' = NoTxn
  /\ UNCHANGED run_on_commit

\* DatabaseWrapper.rollback_mongo(), called while exception e is handled.  If
\* abort_transaction() raises, its error replaces e and the rest is skipped.
RollbackMongo(e) ==
  IF AbortRejected
  THEN /\ raising' = "OtherError"
       /\ UNCHANGED <<session, txn, run_on_commit>>
  ELSE /\ raising' = e
       /\ session' = NoSession
       /\ txn' = NoTxn
       /\ run_on_commit' = <<>>

InsideEvenIfZero == nested_atomics >= 0   \* mutant
InsideTwo == nested_atomics > 1           \* mutant

\* Atomic.__exit__: `if connection.nested_atomics`.
InsideAnother == nested_atomics > 0

\* Atomic.__exit__ of an inner block, with or without an exception.
ExitInner ==
  /\ InFrame({"mongo"})
  /\ InsideAnother
  /\ nested_atomics' = nested_atomics - 1
  /\ stack' = Below
  /\ UNCHANGED <<django, session, in_atomic_block_mongo, run_on_commit, txn,
                 durable, raising, nextHook, ran, fate>>

LeaveOuter ==
  /\ InFrame({"mongo"})
  /\ ~InsideAnother
  /\ in_atomic_block_mongo' = FALSE
  /\ UNCHANGED <<django, nested_atomics, nextHook, ran>>

\* Atomic.__exit__ of the outermost block, left by an exception.
ExitError ==
  /\ raising # NoError
  /\ LeaveOuter
  /\ stack' = Below
  /\ RollbackMongo(raising)
  /\ fate' = Settle("undone")
  /\ UNCHANGED durable

CommitForgotten == UNCHANGED durable   \* mutant: only the session is ended

\* The transaction half of commit_mongo(), when nothing raises.
CommitMongo == IF session = NoSession THEN UNCHANGED durable ELSE CommitReturns

NothingTaken == run_on_commit   \* mutant: the list is not reset

\* run_and_clear_commit_hooks() leaves this of run_on_commit behind.
HooksLeft == <<>>

\* Atomic.__exit__ of the outermost block, left normally: commit_mongo() ends
\* the session, if there is one, and run_and_clear_commit_hooks() takes the
\* hooks over.  Inside Django's atomic() it raises TransactionManagementError
\* instead, a DatabaseError, and rollback_mongo() follows with no session left.
ExitCommit ==
  /\ Running
  /\ LeaveOuter
  /\ CommitMongo
  /\ session' = NoSession
  /\ txn' = NoTxn
  /\ run_on_commit' = HooksLeft
  /\ fate' = Settle("kept")
  /\ IF in_atomic_block
     THEN /\ stack' = Below
          /\ raising' = "DatabaseError"
     ELSE /\ Retop([kind |-> "hooks", queue |-> run_on_commit, hook |-> NoHook])
          /\ UNCHANGED raising

\* Atomic.__exit__ of the outermost block, left normally: commit_transaction()
\* raises a PyMongoError, which `except DatabaseError` does not catch.
ExitCommitFails ==
  /\ Running
  /\ LeaveOuter
  /\ \/ CommitRejected /\ UNCHANGED <<session, txn, durable>>
     \/ (txn.status = "aborted" \/ "commit" \in Faults) /\ CommitRaises
  /\ raising' = "OtherError"
  /\ stack' = Below
  /\ fate' = Settle("unresolved")
  /\ UNCHANGED run_on_commit

-----------------------------------------------------------------------------
(* Queries, exceptions, hooks.                                             *)

\* A model is saved: an insert with session=connection.session.
Save(w) ==
  /\ Running
  /\ fate[w] = "new"
  /\ UseConnection
  /\ Insert(w)
  /\ fate' = [fate EXCEPT ![w] =
                IF in_atomic_block_mongo THEN "current" ELSE "kept"]
  /\ UNCHANGED <<in_atomic_block_mongo, nested_atomics, stack, raising,
                 nextHook, ran>>

\* The server refuses it; wrap_database_errors() makes that a DatabaseError.
SaveFails ==
  /\ Running
  /\ UseConnection
  /\ RefusedOperation
  /\ raising' = "DatabaseError"
  /\ UNCHANGED <<in_atomic_block_mongo, nested_atomics, stack, nextHook,
                 ran, fate>>

\* Code in a block or a hook raises.
Raise ==
  /\ Running
  /\ stack # <<>>
  /\ raising' \in Error
  /\ UNCHANGED <<django, wrapper, txn, durable, stack, nextHook, ran, fate>>

\* The code around a block, a query or an on_commit() call catches.  Going on
\* inside a block whose transaction the server aborted is a fault of its own.
Catch ==
  /\ raising # NoError
  /\ InUserCode
  /\ (txn.status = "aborted" /\ in_atomic_block_mongo) => ("swallow" \in Faults)
  /\ raising' = NoError
  /\ UNCHANGED <<django, wrapper, txn, durable, stack, nextHook, ran, fate>>

DefersInDjangoBlock == in_atomic_block   \* mutant: the wrong flag

\* DatabaseWrapper.on_commit() asks whether a block of the backend is open.
Defers == in_atomic_block_mongo

NewestFirst == <<nextHook>> \o run_on_commit   \* mutant

HooksWithNext == Append(run_on_commit, nextHook)

\* DatabaseWrapper.on_commit(): inside a block the hook is put off ...
OnCommitDeferred ==
  /\ Running
  /\ nextHook \in Hook
  /\ Defers
  /\ run_on_commit' = HooksWithNext
  /\ nextHook' = nextHook + 1
  /\ UNCHANGED <<django, session, in_atomic_block_mongo, nested_atomics, txn,
                 durable, stack, raising, ran, fate>>

\* ... outside it is called at once.
OnCommitNow ==
  /\ Running /\ CanPush
  /\ nextHook \in Hook
  /\ ~Defers
  /\ Push([kind |-> "on_commit", queue |-> <<>>, hook |-> nextHook])
  /\ ran' = ran \cup {nextHook}
  /\ nextHook' = nextHook + 1
  /\ UNCHANGED <<django, wrapper, txn, durable, raising, fate>>

\* run_and_clear_commit_hooks(): the next hook of the list is called.
NextHook ==
  /\ raising = NoError
  /\ InFrame({"hooks"})
  /\ Top.hook = NoHook
  /\ Top.queue # <<>>
  /\ Retop([kind |-> "hooks", queue |-> Tail(Top.queue), hook |-> Head(Top.queue)])
  /\ ran' = ran \cup {Head(Top.queue)}
  /\ UNCHANGED <<django, wrapper, txn, durable, raising, nextHook, fate>>

\* The list is empty: run_and_clear_commit_hooks(), commit_mongo() and
\* Atomic.__exit__ return.
HooksDone ==
  /\ raising = NoError
  /\ InFrame({"hooks"})
  /\ Top.hook = NoHook
  /\ Top.queue = <<>>
  /\ stack' = Below
  /\ UNCHANGED <<django, wrapper, txn, durable, raising, nextHook, ran, fate>>

\* A hook returns, or raises and is robust: the exception is logged.
HookReturns ==
  /\ InFrame({"hooks", "on_commit"})
  /\ Top.hook # NoHook
  /\ raising = NoError \/ Top.hook \in Robust
  /\ raising' = NoError
  /\ IF Top.kind = "hooks" THEN Retop([Top EXCEPT !.hook = NoHook])
                           ELSE stack' = Below
  /\ UNCHANGED <<django, wrapper, txn, durable, nextHook, ran, fate>>

\* A hook raises out of on_commit(), or, if commit_mongo() was running it,
\* drops the hooks after it and reaches the handler in Atomic.__exit__.
HookRaises ==
  /\ raising # NoError
  /\ InFrame({"hooks", "on_commit"})
  /\ Top.hook \notin Robust \cup {NoHook}
  /\ stack' = Below
  /\ IF Top.kind = "hooks" /\ raising = "DatabaseError"
     THEN RollbackMongo(raising)
     ELSE UNCHANGED <<raising, session, txn, run_on_commit>>
  /\ UNCHANGED <<django, in_atomic_block_mongo, nested_atomics, durable,
                 nextHook, ran, fate>>

-----------------------------------------------------------------------------
(* Django's atomic(), close_pool() and the end of the process.             *)

\* django.db.transaction.Atomic.__enter__: to this backend only a flag.
\* Its blocks do not nest in this model.
EnterDjango ==
  /\ Running /\ CanPush
  /\ "django" \in Faults
  /\ ~InDjangoBlock
  /\ connected' = TRUE
  /\ in_atomic_block' = TRUE
  /\ run_on_commit' = IF connected THEN run_on_commit ELSE <<>>
  /\ Push(Block("django"))
  /\ UNCHANGED <<session, in_atomic_block_mongo, nested_atomics, txn, durable,
                 raising, nextHook, ran, fate>>

\* Its __exit__: commit() reaches the no-op _commit(); rollback() reaches the
\* no-op _rollback() and then resets run_on_commit.
ExitDjango ==
  /\ InFrame({"django"})
  /\ stack' = Below
  /\ in_atomic_block' = FALSE
  /\ run_on_commit' = IF raising = NoError THEN run_on_commit ELSE <<>>
  /\ UNCHANGED <<session, connected, in_atomic_block_mongo, nested_atomics,
                 txn, durable, raising, nextHook, ran, fate>>

\* DatabaseWrapper.close_pool(): end_session() aborts what is in progress.
ClosePool ==
  /\ Running
  /\ in_atomic_block_mongo => ("close_pool" \in Faults)
  /\ connected' = FALSE
  /\ run_on_commit' = <<>>
  /\ session' = NoSession
  /\ txn' = NoTxn
  /\ fate' = Settle("undone")
  /\ UNCHANGED <<in_atomic_block, in_atomic_block_mongo, nested_atomics,
                 durable, stack, raising, nextHook, ran>>

\* The process dies and another starts: only the database survives, and the
\* server aborts what was not committed.
Restart ==
  /\ session' = NoSession
  /\ in_atomic_block_mongo' = FALSE
  /\ nested_atomics' = 0
  /\ run_on_commit' = <<>>
  /\ connected' = FALSE
  /\ in_atomic_block' = FALSE
  /\ txn' = NoTxn
  /\ stack' = <<>>
  /\ raising' = NoError
  /\ fate' = Settle("unresolved")
  /\ UNCHANGED <<durable, nextHook, ran>>

Next ==
  \/ EnterInner \/ EnterOuter \/ EnterFails
  \/ ExitInner \/ ExitError \/ ExitCommit \/ ExitCommitFails
  \/ \E w \in Write : Save(w)
  \/ SaveFails \/ Raise \/ Catch
  \/ OnCommitDeferred \/ OnCommitNow
  \/ NextHook \/ HooksDone \/ HookReturns \/ HookRaises
  \/ EnterDjango \/ ExitDjango \/ ClosePool \/ Restart

Spec == Init /\ [][Next]_vars

-----------------------------------------------------------------------------
(* Properties of any program, whatever fails.                              *)

MongoBlocks(frames) == {i \in DOMAIN frames : frames[i].kind = "mongo"}

\* in_atomic_block_mongo and nested_atomics count the atomic blocks the thread
\* is really in, through every exception, hook and restart: an __exit__ that
\* missed its decrement would commit too early or never.
NestingMatchesBlocks ==
  /\ Cardinality(MongoBlocks(stack)) =
       nested_atomics + (IF in_atomic_block_mongo THEN 1 ELSE 0)
  /\ ~in_atomic_block_mongo => nested_atomics = 0

\* A hook is never called while an atomic block is open around it, so what a
\* hook opens is an outermost block and commits by itself.
HooksOutsideBlocks ==
  \A i \in DOMAIN stack : stack[i].kind \in {"hooks", "on_commit"} =>
    \A j \in 1 .. i : stack[j].kind # "mongo"

\* A block that was left normally, and whose commit was acknowledged, keeps all
\* its writes: no leaked session, lost reply or nested exit loses one silently.
KeptIsDurable == {w \in Write : fate[w] = "kept"} \subseteq durable

Queues == {stack[i].queue : i \in DOMAIN stack}

\* Hooks wait in the order of their registration, so the calls of one block's
\* hooks follow that order although hooks open blocks with hooks of their own.
HooksInOrder ==
  \A q \in Queues \cup {run_on_commit} :
    \A i, j \in DOMAIN q : i < j => q[i] < q[j]

\* No hook that was called waits to be called again, and no hook waits in two
\* places, although run_on_commit is handed over while hooks add to it.
NoHookTwice ==
  LET due(i) == Range(stack[i].queue)
  IN /\ \A i \in DOMAIN stack : due(i) \cap (ran \cup Range(run_on_commit)) = {}
     /\ Range(run_on_commit) \cap ran = {}
     /\ \A i, j \in DOMAIN stack : i # j => due(i) \cap due(j) = {}

-----------------------------------------------------------------------------
(* Properties of a program without Faults.                                 *)

\* What is in the database is what finished blocks were told is kept: a block
\* that ended with an exception left nothing, one still open shows nothing.
DurableIsKept == durable = {w \in Write : fate[w] = "kept"}

\* Between blocks the connection holds no session and no hook of an earlier
\* block: the next atomic() starts its own transaction.
CleanBetweenBlocks ==
  ~in_atomic_block_mongo => session = NoSession /\ run_on_commit = <<>>

\* The backend's blocks and hooks keep the documented promise.
Promise == INSTANCE AtomicPromise WITH
  open <- in_atomic_block_mongo,
  buffered <- {w \in Write : fate[w] = "current"},
  hooks <- Range(run_on_commit),
  due <- UNION {Range(q) : q \in Queues}

KeepsPromise == Promise!Spec

-----------------------------------------------------------------------------
(* What the documentation says and the code does not do.                   *)

\* "If there is an exception, the changes are rolled back"
\* (docs/topics/transactions.rst:31): a write of a block that was left by an
\* exception is not in the database.
ExceptionRollsBack == \A w \in Write : fate[w] = "undone" => w \notin durable
=============================================================================
