-------------------------- MODULE MongoAtomicProofs --------------------------
(***************************************************************************)
(* Invariants of MongoAtomic for every program, every set of documents and *)
(* hooks, every depth and every combination of faults; and, for a program  *)
(* without faults in the wrapper, the promise of the documentation: whatever *)
(* blocks, queries and hooks raise, and whenever the process dies.         *)
(***************************************************************************)
EXTENDS MongoAtomic, TLAPS, FiniteSetTheorems

-----------------------------------------------------------------------------
(* Types.                                                                  *)

LEMMA InitTypeOK == Init => TypeOK
<1> SUFFICES ASSUME Init PROVE TypeOK
  OBVIOUS
<1> USE DEF Init, WrapperInit
<1>1. SessionTypeOK
  BY DEF SessionTypeOK, SessionState, Txn, NoTxn
<1>2. nextHook \in Hook \cup {MaxHooks + 1}
  BY MongoAtomicAssumption DEF Hook
<1>3. fate \in [Write -> Fate]
  BY DEF Fate
<1>4. stack \in Seq(Frame) /\ run_on_commit \in Seq(Hook)
  OBVIOUS
<1> QED
  BY <1>1, <1>2, <1>3, <1>4 DEF TypeOK

\* A settled fate is a fate.
LEMMA SettleType ==
  ASSUME fate \in [Write -> Fate], NEW f \in Fate
  PROVE  Settle(f) \in [Write -> Fate]
  BY DEF Settle

\* What remains below the top frame is a stack.
LEMMA BelowType ==
  ASSUME stack \in Seq(Frame), stack # <<>>
  PROVE  /\ Below \in Seq(Frame)
         /\ Top \in Frame
         /\ Len(Below) = Len(stack) - 1
         /\ \A i \in 1 .. Len(stack) - 1 : Below[i] = stack[i]
<1> Len(stack) \in Nat \ {0}
  OBVIOUS
<1>1. Below \in Seq(Frame) /\ Len(Below) = Len(stack) - 1
  BY DEF Below
<1>2. Top \in Frame
  BY DEF Top
<1>3. \A i \in 1 .. Len(stack) - 1 : Below[i] = stack[i]
  BY DEF Below
<1> QED
  BY <1>1, <1>2, <1>3

LEMMA PushType ==
  ASSUME stack \in Seq(Frame), NEW f \in Frame
  PROVE  /\ Append(stack, f) \in Seq(Frame)
         /\ stack # <<>> => Append(Below, f) \in Seq(Frame)
  BY BelowType

LEMMA BlockType == Block("mongo") \in Frame /\ Block("django") \in Frame
  BY DEF Block, Frame, NoHook

\* What the server and the driver do to a session keeps its type.
LEMMA SessionSteps ==
  ASSUME SessionTypeOK
  PROVE  /\ \A w \in Write : Insert(w) => SessionTypeOK'
         /\ RefusedOperation => SessionTypeOK'
         /\ CommitRaises => SessionTypeOK'
         /\ CommitReturns => durable' \subseteq Write
<1> USE DEF SessionTypeOK, SessionState, Txn, NoTxn
<1>1. ASSUME NEW w \in Write, Insert(w) PROVE SessionTypeOK'
  BY <1>1 DEF Insert, LeaveTransaction
<1>2. RefusedOperation => SessionTypeOK'
  BY DEF RefusedOperation, LeaveTransaction
<1>3. CommitRaises => SessionTypeOK'
  BY DEF CommitRaises
<1>4. CommitReturns => durable' \subseteq Write
  BY DEF CommitReturns
<1> QED
  BY <1>1, <1>2, <1>3, <1>4

LEMMA RollbackType ==
  ASSUME TypeOK, NEW e \in Error, RollbackMongo(e), durable' = durable
  PROVE  /\ SessionTypeOK'
         /\ run_on_commit' \in Seq(Hook)
         /\ raising' \in Error
<1>1. CASE AbortRejected
  BY <1>1 DEF TypeOK, RollbackMongo, SessionTypeOK, Error
<1>2. CASE ~AbortRejected
  <2>1. NoTxn \in Txn
    BY DEF NoTxn, Txn
  <2> QED
    BY <1>2, <2>1 DEF TypeOK, RollbackMongo, SessionTypeOK
<1> QED
  BY <1>1, <1>2

LEMMA StepTypeOK == TypeOK /\ [Next]_vars => TypeOK'
<1> SUFFICES ASSUME TypeOK, [Next]_vars PROVE TypeOK'
  OBVIOUS
<1>0. SessionTypeOK
  BY DEF TypeOK
<1>f. ASSUME NEW f \in Fate, fate' = Settle(f) PROVE fate' \in [Write -> Fate]
  BY <1>f, SettleType DEF TypeOK
<1> USE DEF django
<1>c. ASSUME UseConnection \/ KeepHooks
      PROVE  /\ connected' \in BOOLEAN /\ in_atomic_block' \in BOOLEAN
             /\ run_on_commit' \in Seq(Hook)
  <2>1. CASE UseConnection
    <3>1. in_atomic_block' \in BOOLEAN
      BY <2>1 DEF UseConnection
    <3>2. run_on_commit' \in Seq(Hook)
      BY <2>1 DEF UseConnection, TypeOK
    <3> QED
      BY <2>1, <3>1, <3>2 DEF UseConnection
  <2>2. CASE KeepHooks
    BY <2>2 DEF KeepHooks, TypeOK
  <2> QED
    BY <1>c, <2>1, <2>2
<1>1. CASE EnterInner \/ EnterOuter \/ EnterFails
  <2>1. stack' \in Seq(Frame)
    BY <1>1, PushType, BlockType DEF TypeOK, EnterInner, EnterOuter, EnterFails, Push
  <2>2. SessionTypeOK'
    <3>1. txn' = txn /\ durable' = durable
      BY <1>1 DEF EnterInner, EnterOuter, EnterFails
    <3>2. session' \in {session, "starting", "none"}
      BY <1>1 DEF EnterInner, EnterOuter, EnterFails
    <3> QED
      BY <1>0, <3>1, <3>2 DEF SessionTypeOK, SessionState
  <2> QED
    <3>1. CASE EnterInner
      BY <3>1, <2>1, <2>2 DEF TypeOK, EnterInner
    <3>2. CASE EnterOuter
      BY <3>2, <2>1, <2>2, <1>c DEF TypeOK, EnterOuter
    <3>3. CASE EnterFails
      BY <3>3, <2>1, <2>2, <1>c DEF TypeOK, EnterFails, Error
    <3> QED
      BY <1>1, <3>1, <3>2, <3>3
<1>2. CASE ExitInner
  BY <1>2, <1>0, BelowType DEF TypeOK, ExitInner, InsideAnother, InFrame, SessionTypeOK
<1>3. CASE ExitError
  <2>1. raising \in Error
    BY <1>3 DEF ExitError, TypeOK
  <2>2. SessionTypeOK' /\ run_on_commit' \in Seq(Hook) /\ raising' \in Error
    BY <1>3, <2>1, RollbackType DEF ExitError
  <2>3. fate' \in [Write -> Fate]
    BY <1>3, <1>f DEF ExitError, Fate
  <2> QED
    BY <1>3, <2>2, <2>3, BelowType DEF ExitError, LeaveOuter, InFrame, TypeOK
<1>4. CASE ExitCommit
  <2>1. stack' \in Seq(Frame)
    <3>1. [kind |-> "hooks", queue |-> run_on_commit, hook |-> NoHook] \in Frame
      BY DEF TypeOK, Frame, NoHook
    <3> QED
      BY <1>4, <3>1, PushType, BelowType
      DEF ExitCommit, LeaveOuter, InFrame, Retop, TypeOK
  <2>2. SessionTypeOK'
    BY <1>4, <1>0, SessionSteps
    DEF ExitCommit, CommitMongo, SessionTypeOK, SessionState, Txn, NoTxn
  <2>3. fate' \in [Write -> Fate]
    BY <1>4, <1>f DEF ExitCommit, Fate
  <2>4. run_on_commit' \in Seq(Hook) /\ raising' \in Error \cup {NoError}
    BY <1>4 DEF ExitCommit, HooksLeft, TypeOK, Error
  <2> QED
    BY <1>4, <2>1, <2>2, <2>3, <2>4 DEF ExitCommit, LeaveOuter, TypeOK
<1>5. CASE ExitCommitFails
  <2>1. SessionTypeOK'
    BY <1>5, <1>0, SessionSteps DEF ExitCommitFails, SessionTypeOK
  <2>2. fate' \in [Write -> Fate]
    BY <1>5, <1>f DEF ExitCommitFails, Fate
  <2> QED
    BY <1>5, <2>1, <2>2, BelowType
    DEF ExitCommitFails, LeaveOuter, InFrame, TypeOK, Error
<1>6. ASSUME NEW w \in Write, Save(w) PROVE TypeOK'
  <2>1. SessionTypeOK'
    BY <1>6, <1>0, SessionSteps DEF Save
  <2>2. fate' \in [Write -> Fate]
    BY <1>6 DEF Save, TypeOK, Fate
  <2> QED
    BY <1>6, <2>1, <2>2, <1>c DEF Save, TypeOK
<1>7. CASE SaveFails
  BY <1>7, <1>0, <1>c, SessionSteps DEF SaveFails, TypeOK, Error
<1>8. CASE Raise \/ Catch
  BY <1>8, <1>0 DEF Raise, Catch, wrapper, TypeOK, SessionTypeOK
<1>9. CASE OnCommitDeferred \/ OnCommitNow
  <2>1. nextHook \in Hook
    BY <1>9 DEF OnCommitDeferred, OnCommitNow
  <2>2. nextHook' \in Hook \cup {MaxHooks + 1}
    BY <1>9, <2>1, MongoAtomicAssumption DEF OnCommitDeferred, OnCommitNow, Hook
  <2>3. [kind |-> "on_commit", queue |-> <<>>, hook |-> nextHook] \in Frame
    BY <2>1 DEF Frame
  <2>4. stack' \in Seq(Frame)
    BY <1>9, <2>3, PushType DEF OnCommitDeferred, OnCommitNow, Push, TypeOK
  <2>5. run_on_commit' \in Seq(Hook)
    BY <1>9, <2>1 DEF OnCommitDeferred, OnCommitNow, HooksWithNext, wrapper, TypeOK
  <2> QED
    BY <1>9, <1>0, <2>1, <2>2, <2>4, <2>5
    DEF OnCommitDeferred, OnCommitNow, wrapper, TypeOK, SessionTypeOK
<1>10. CASE NextHook
  <2>1. Top \in Frame
    BY <1>10, BelowType DEF NextHook, InFrame, TypeOK
  <2>2. Head(Top.queue) \in Hook /\ Tail(Top.queue) \in Seq(Hook)
    BY <1>10, <2>1 DEF NextHook, Frame
  <2>3. stack' \in Seq(Frame)
    <3>1. [kind |-> "hooks", queue |-> Tail(Top.queue), hook |-> Head(Top.queue)] \in Frame
      BY <2>2 DEF Frame
    <3> QED
      BY <1>10, <3>1, PushType DEF NextHook, InFrame, Retop, TypeOK
  <2> QED
    BY <1>10, <1>0, <2>2, <2>3 DEF NextHook, wrapper, TypeOK, SessionTypeOK
<1>11. CASE HooksDone
  BY <1>11, <1>0, BelowType DEF HooksDone, InFrame, wrapper, TypeOK, SessionTypeOK
<1>12. CASE HookReturns
  <2>1. Top \in Frame /\ Below \in Seq(Frame)
    BY <1>12, BelowType DEF HookReturns, InFrame, TypeOK
  <2>2. [Top EXCEPT !.hook = NoHook] \in Frame
    BY <2>1 DEF Frame
  <2>3. stack' \in Seq(Frame)
    BY <1>12, <2>1, <2>2, PushType DEF HookReturns, InFrame, Retop, TypeOK
  <2> QED
    BY <1>12, <1>0, <2>3 DEF HookReturns, wrapper, TypeOK, SessionTypeOK
<1>13. CASE HookRaises
  <2>1. raising \in Error
    BY <1>13 DEF HookRaises, TypeOK
  <2>2. SessionTypeOK' /\ run_on_commit' \in Seq(Hook) /\ raising' \in Error
    BY <1>13, <1>0, <2>1, RollbackType DEF HookRaises, TypeOK, SessionTypeOK
  <2> QED
    BY <1>13, <2>2, BelowType DEF HookRaises, InFrame, TypeOK
<1>14. CASE EnterDjango
  BY <1>14, <1>0, PushType, BlockType
  DEF EnterDjango, Push, wrapper, TypeOK, SessionTypeOK
<1>15. CASE ExitDjango
  <2>1. run_on_commit' \in Seq(Hook)
    BY <1>15 DEF ExitDjango, TypeOK
  <2>2. stack' \in Seq(Frame)
    BY <1>15, BelowType DEF ExitDjango, InFrame, TypeOK
  <2> QED
    BY <1>15, <1>0, <2>1, <2>2 DEF ExitDjango, TypeOK, SessionTypeOK
<1>16. CASE ClosePool \/ Restart
  <2>1. fate' \in [Write -> Fate]
    BY <1>16, <1>f DEF ClosePool, Restart, Fate
  <2>2. SessionTypeOK'
    <3>1. session' = NoSession /\ txn' = NoTxn /\ durable' = durable
      BY <1>16 DEF ClosePool, Restart
    <3>2. NoTxn \in Txn
      BY DEF NoTxn, Txn
    <3> QED
      BY <1>0, <3>1, <3>2 DEF SessionTypeOK
  <2> QED
    <3>1. CASE ClosePool
      <4>1. run_on_commit' \in Seq(Hook)
        BY <3>1 DEF ClosePool
      <4> QED
        BY <3>1, <2>1, <2>2, <4>1 DEF ClosePool, TypeOK
    <3>2. CASE Restart
      <4>1. stack' \in Seq(Frame)
        BY <3>2 DEF Restart
      <4>2. run_on_commit' \in Seq(Hook)
        BY <3>2 DEF Restart
      <4> QED
        BY <3>2, <2>1, <2>2, <4>1, <4>2 DEF Restart, TypeOK
    <3> QED
      BY <1>16, <3>1, <3>2
<1>17. CASE UNCHANGED vars
  BY <1>17 DEF vars, wrapper, TypeOK, SessionTypeOK
<1> QED
  BY <1>1, <1>2, <1>3, <1>4, <1>5, <1>6, <1>7, <1>8, <1>9, <1>10, <1>11, <1>12,
     <1>13, <1>14, <1>15, <1>16, <1>17 DEF Next

\* Every variable of the wrapper, the driver, the server and the program keeps
\* its type.
THEOREM TypeCorrect == Spec => []TypeOK
  BY InitTypeOK, StepTypeOK, PTL DEF Spec

-----------------------------------------------------------------------------
(* The counter and the flag agree with the blocks the thread is in.        *)

StackInv == NestingMatchesBlocks /\ HooksOutsideBlocks

LEMMA MongoBlocksFinite ==
  ASSUME NEW frames \in Seq(Frame)
  PROVE  /\ MongoBlocks(frames) \subseteq 1 .. Len(frames)
         /\ IsFiniteSet(MongoBlocks(frames))
         /\ Cardinality(MongoBlocks(frames)) \in Nat
<1>1. MongoBlocks(frames) \subseteq 1 .. Len(frames)
  BY DEF MongoBlocks
<1>2. IsFiniteSet(MongoBlocks(frames))
  BY <1>1, FS_Interval, FS_Subset
<1> QED
  BY <1>1, <1>2, FS_CardinalityType

\* Pushing a frame adds one block or none.
LEMMA PushBlocks ==
  ASSUME NEW frames \in Seq(Frame), NEW f \in Frame
  PROVE  /\ MongoBlocks(Append(frames, f)) =
              MongoBlocks(frames) \cup
                (IF f.kind = "mongo" THEN {Len(frames) + 1} ELSE {})
         /\ Cardinality(MongoBlocks(Append(frames, f))) =
              Cardinality(MongoBlocks(frames)) + (IF f.kind = "mongo" THEN 1 ELSE 0)
<1>1. MongoBlocks(Append(frames, f)) =
        MongoBlocks(frames) \cup (IF f.kind = "mongo" THEN {Len(frames) + 1} ELSE {})
  BY DEF MongoBlocks
<1>2. Len(frames) + 1 \notin MongoBlocks(frames)
  BY MongoBlocksFinite
<1> QED
  <2>1. CASE f.kind = "mongo"
    <3>1. Cardinality(MongoBlocks(frames) \cup {Len(frames) + 1}) =
            Cardinality(MongoBlocks(frames)) + 1
      BY <1>2, MongoBlocksFinite, FS_AddElement
    <3> QED
      BY <1>1, <2>1, <3>1
  <2>2. CASE f.kind # "mongo"
    <3>1. MongoBlocks(Append(frames, f)) = MongoBlocks(frames)
      BY <1>1, <2>2
    <3> QED
      BY <1>1, <2>2, <3>1, MongoBlocksFinite
  <2> QED
    BY <2>1, <2>2

\* Popping the top frame takes away its block, if it is one.
LEMMA PopBlocks ==
  ASSUME stack \in Seq(Frame), stack # <<>>
  PROVE  /\ MongoBlocks(Below) = MongoBlocks(stack) \ {Len(stack)}
         /\ Cardinality(MongoBlocks(Below)) =
              Cardinality(MongoBlocks(stack)) - (IF Top.kind = "mongo" THEN 1 ELSE 0)
<1>1. MongoBlocks(Below) = MongoBlocks(stack) \ {Len(stack)}
  <2>1. DOMAIN stack = 1 .. Len(stack) /\ DOMAIN Below = 1 .. Len(stack) - 1
    BY BelowType
  <2> QED
    BY <2>1, BelowType DEF MongoBlocks
<1>2. Len(stack) \in MongoBlocks(stack) <=> Top.kind = "mongo"
  BY DEF MongoBlocks, Top
<1> QED
  <2>1. Cardinality(MongoBlocks(stack) \ {Len(stack)}) =
          IF Len(stack) \in MongoBlocks(stack)
          THEN Cardinality(MongoBlocks(stack)) - 1 ELSE Cardinality(MongoBlocks(stack))
    BY MongoBlocksFinite, FS_RemoveElement
  <2>2. Cardinality(MongoBlocks(stack)) \in Nat
    BY MongoBlocksFinite
  <2> QED
    BY <1>1, <1>2, <2>1, <2>2

\* A thread that is running a hook is in no block of the backend.
LEMMA HookFrameOnTop ==
  ASSUME TypeOK, StackInv, InFrame({"hooks", "on_commit"})
  PROVE  /\ MongoBlocks(stack) = {}
         /\ ~in_atomic_block_mongo
         /\ nested_atomics = 0
<1>1. Len(stack) \in DOMAIN stack /\ Top.kind \in {"hooks", "on_commit"}
  BY DEF InFrame, TypeOK
<1>2. MongoBlocks(stack) = {}
  <2>1. DOMAIN stack = 1 .. Len(stack)
    BY DEF TypeOK
  <2>2. \A j \in 1 .. Len(stack) : stack[j].kind # "mongo"
    BY <1>1 DEF StackInv, HooksOutsideBlocks, Top
  <2> QED
    BY <2>1, <2>2 DEF MongoBlocks
<1>3. Cardinality(MongoBlocks(stack)) = 0
  BY <1>2, FS_EmptySet
<1> QED
  BY <1>2, <1>3 DEF StackInv, NestingMatchesBlocks, TypeOK

\* A stack that is popped, or pushed on with a frame that calls no hooks, keeps
\* its hooks outside of blocks; so does one that had no block.
LEMMA HooksStayOutside ==
  ASSUME TypeOK, HooksOutsideBlocks
  PROVE  /\ stack # <<>> /\ stack' = Below => HooksOutsideBlocks'
         /\ \A f \in Frame :
              /\ stack' = Append(stack, f)
              /\ f.kind \in {"mongo", "django"} \/ (f.kind # "mongo" /\ MongoBlocks(stack) = {})
              => HooksOutsideBlocks'
         /\ \A f \in Frame :
              /\ stack # <<>> /\ stack' = Append(Below, f)
              /\ f.kind # "mongo" /\ MongoBlocks(Below) = {}
              => HooksOutsideBlocks'
<1> USE DEF TypeOK
<1>1. ASSUME stack # <<>>, stack' = Below PROVE HooksOutsideBlocks'
  <2>1. /\ DOMAIN Below = 1 .. Len(stack) - 1
        /\ DOMAIN stack = 1 .. Len(stack)
        /\ Len(stack) \in Nat
        /\ \A i \in 1 .. Len(stack) - 1 : Below[i] = stack[i]
    BY <1>1, BelowType
  <2>2. ASSUME NEW i \in 1 .. Len(stack) - 1, Below[i].kind \in {"hooks", "on_commit"},
               NEW j \in 1 .. i
        PROVE  Below[j].kind # "mongo"
    <3>1. i \in 1 .. Len(stack) /\ j \in 1 .. Len(stack) - 1
      BY <2>1
    <3>2. stack[i].kind \in {"hooks", "on_commit"}
      BY <2>1, <2>2
    <3>3. stack[j].kind # "mongo"
      BY <2>1, <3>1, <3>2 DEF HooksOutsideBlocks
    <3> QED
      BY <2>1, <3>1, <3>3
  <2> QED
    BY <1>1, <2>1, <2>2 DEF HooksOutsideBlocks
<1>2. ASSUME NEW f \in Frame, stack' = Append(stack, f),
             f.kind \in {"mongo", "django"} \/ (f.kind # "mongo" /\ MongoBlocks(stack) = {})
      PROVE  HooksOutsideBlocks'
  <2> DEFINE g == Append(stack, f)
  <2>1. /\ DOMAIN g = 1 .. Len(stack) + 1
        /\ \A i \in 1 .. Len(stack) : g[i] = stack[i]
        /\ g[Len(stack) + 1] = f
    OBVIOUS
  <2>2. DOMAIN stack = 1 .. Len(stack) /\ Len(stack) \in Nat
    OBVIOUS
  <2>3. ASSUME NEW i \in 1 .. Len(stack) + 1, g[i].kind \in {"hooks", "on_commit"},
               NEW j \in 1 .. i
        PROVE  g[j].kind # "mongo"
    <3>1. CASE i \in 1 .. Len(stack)
      BY <2>1, <2>2, <2>3, <3>1 DEF HooksOutsideBlocks
    <3>2. CASE i = Len(stack) + 1
      BY <1>2, <2>1, <2>2, <2>3, <3>2 DEF MongoBlocks
    <3> QED
      BY <2>2, <3>1, <3>2
  <2> QED
    BY <1>2, <2>1, <2>3 DEF HooksOutsideBlocks
<1>3. ASSUME NEW f \in Frame, stack # <<>>, stack' = Append(Below, f),
             f.kind # "mongo", MongoBlocks(Below) = {}
      PROVE  HooksOutsideBlocks'
  <2> DEFINE g == Append(Below, f)
  <2>1. /\ DOMAIN g = 1 .. Len(stack)
        /\ \A i \in 1 .. Len(stack) - 1 : g[i] = stack[i]
        /\ g[Len(stack)] = f
    BY <1>3, BelowType
  <2>2. DOMAIN stack = 1 .. Len(stack) /\ Len(stack) \in Nat
    OBVIOUS
  <2>3. \A j \in 1 .. Len(stack) - 1 : stack[j].kind # "mongo"
    <3>1. DOMAIN Below = 1 .. Len(stack) - 1
      BY <1>3, BelowType
    <3>2. \A j \in 1 .. Len(stack) - 1 : Below[j].kind # "mongo"
      BY <1>3, <3>1 DEF MongoBlocks
    <3> QED
      BY <1>3, <3>2, BelowType
  <2>4. \A j \in 1 .. Len(stack) : g[j].kind # "mongo"
    <3> SUFFICES ASSUME NEW j \in 1 .. Len(stack) PROVE g[j].kind # "mongo"
      OBVIOUS
    <3>1. CASE j \in 1 .. Len(stack) - 1
      BY <2>1, <2>3, <3>1
    <3>2. CASE j = Len(stack)
      BY <1>3, <2>1, <3>2
    <3>3. j \in 1 .. Len(stack) - 1 \/ j = Len(stack)
      <4> HIDE DEF TypeOK
      <4> DEFINE n == Len(stack)
      <4>1. n \in Nat
        BY <2>2
      <4>2. j \in 1 .. n
        OBVIOUS
      <4> HIDE DEF n
      <4> QED
        BY <4>1, <4>2 DEF n
    <3> QED
      BY <3>1, <3>2, <3>3
  <2> QED
    BY <1>3, <2>1, <2>4 DEF HooksOutsideBlocks
<1> QED
  BY <1>1, <1>2, <1>3

\* The frames the actions push.
LEMMA FrameTypes ==
  ASSUME TypeOK
  PROVE  /\ Block("mongo") \in Frame /\ Block("mongo").kind = "mongo"
         /\ Block("django") \in Frame /\ Block("django").kind = "django"
         /\ [kind |-> "hooks", queue |-> run_on_commit, hook |-> NoHook] \in Frame
         /\ nextHook \in Hook =>
              [kind |-> "on_commit", queue |-> <<>>, hook |-> nextHook] \in Frame
  BY BlockType DEF Block, Frame, NoHook, TypeOK

LEMMA StepStackInv == TypeOK /\ StackInv /\ [Next]_vars => StackInv'
<1> SUFFICES ASSUME TypeOK, StackInv, [Next]_vars PROVE StackInv'
  OBVIOUS
<1> DEFINE n == Cardinality(MongoBlocks(stack))
<1>t. stack \in Seq(Frame) /\ nested_atomics \in Nat /\ in_atomic_block_mongo \in BOOLEAN
  BY DEF TypeOK
<1>n. n \in Nat
  BY <1>t, MongoBlocksFinite
<1>h. HooksOutsideBlocks
  BY DEF StackInv
<1>c. /\ in_atomic_block_mongo => n = nested_atomics + 1
      /\ ~in_atomic_block_mongo => n = 0 /\ nested_atomics = 0
  BY <1>n, <1>t DEF StackInv, NestingMatchesBlocks
<1>z. ~in_atomic_block_mongo => MongoBlocks(stack) = {}
  BY <1>c, <1>t, MongoBlocksFinite, FS_EmptySet
\* Popping a frame that is not a block of the backend.
<1>p. ASSUME stack # <<>>, Top.kind # "mongo", stack' = Below,
             UNCHANGED <<in_atomic_block_mongo, nested_atomics>>
      PROVE  StackInv'
  BY <1>p, <1>t, <1>h, <1>c, <1>n, PopBlocks, HooksStayOutside
  DEF StackInv, NestingMatchesBlocks
\* Replacing a hook frame by another one.
<1>q. ASSUME InFrame({"hooks", "on_commit"}), NEW f \in Frame, f.kind = "hooks",
             stack' = Append(Below, f),
             UNCHANGED <<in_atomic_block_mongo, nested_atomics>>
      PROVE  StackInv'
  <2>1. MongoBlocks(stack) = {} /\ ~in_atomic_block_mongo /\ nested_atomics = 0
    BY <1>q, HookFrameOnTop
  <2>2. stack # <<>> /\ Below \in Seq(Frame)
    BY <1>q, <1>t, BelowType DEF InFrame
  <2>3. MongoBlocks(Below) = {}
    BY <2>1, <2>2, <1>t, PopBlocks
  <2>4. HooksOutsideBlocks'
    BY <1>q, <2>2, <2>3, <1>h, HooksStayOutside
  <2>5. Cardinality(MongoBlocks(stack')) = 0
    BY <1>q, <2>2, <2>3, PushBlocks, FS_EmptySet
  <2> QED
    BY <1>q, <2>1, <2>4, <2>5 DEF StackInv, NestingMatchesBlocks
<1>1. CASE EnterInner
  BY <1>1, <1>t, <1>h, <1>c, <1>n, FrameTypes, PushBlocks, HooksStayOutside
  DEF EnterInner, Push, StackInv, NestingMatchesBlocks
<1>2. CASE EnterOuter
  BY <1>2, <1>t, <1>h, <1>c, <1>n, FrameTypes, PushBlocks, HooksStayOutside
  DEF EnterOuter, Push, StackInv, NestingMatchesBlocks
<1>3. CASE ExitInner
  <2>1. stack # <<>> /\ Top.kind = "mongo"
    BY <1>3 DEF ExitInner, InFrame
  <2>2. HooksOutsideBlocks'
    BY <1>3, <2>1, <1>h, HooksStayOutside DEF ExitInner
  <2>3. Cardinality(MongoBlocks(stack')) = n - 1
    BY <1>3, <2>1, <1>t, PopBlocks DEF ExitInner
  <2> QED
    BY <1>3, <2>2, <2>3, <1>t, <1>c, <1>n DEF ExitInner, InsideAnother, StackInv, NestingMatchesBlocks
\* An outermost block that is left was the only one.
<1>o. ASSUME LeaveOuter
      PROVE  /\ stack # <<>> /\ Below \in Seq(Frame)
             /\ MongoBlocks(Below) = {}
             /\ ~in_atomic_block_mongo' /\ nested_atomics' = 0
  <2>1. stack # <<>> /\ Top.kind = "mongo" /\ nested_atomics = 0
    BY <1>o DEF LeaveOuter, InsideAnother, InFrame, TypeOK
  <2>2. Cardinality(MongoBlocks(Below)) = n - 1 /\ Below \in Seq(Frame)
    BY <2>1, <1>t, PopBlocks, BelowType
  <2>3. n <= 1
    BY <2>1, <1>c
  <2>4. Cardinality(MongoBlocks(Below)) = 0
    BY <2>2, <2>3, <1>n, MongoBlocksFinite
  <2> QED
    BY <1>o, <2>1, <2>2, <2>4, MongoBlocksFinite, FS_EmptySet DEF LeaveOuter
<1>l. ASSUME LeaveOuter, stack' = Below PROVE StackInv'
  <2>1. HooksOutsideBlocks'
    BY <1>l, <1>o, <1>h, HooksStayOutside
  <2>2. Cardinality(MongoBlocks(stack')) = 0
    BY <1>l, <1>o, FS_EmptySet
  <2> QED
    BY <1>l, <1>o, <2>1, <2>2 DEF StackInv, NestingMatchesBlocks
<1>4. CASE ExitError \/ ExitCommitFails
  BY <1>4, <1>l DEF ExitError, ExitCommitFails
<1>5. CASE ExitCommit
  <2>1. CASE stack' = Below
    BY <1>5, <2>1, <1>l DEF ExitCommit
  <2>2. CASE stack' # Below
    <3> DEFINE f == [kind |-> "hooks", queue |-> run_on_commit, hook |-> NoHook]
    <3>1. stack' = Append(Below, f) /\ LeaveOuter
      BY <1>5, <2>2 DEF ExitCommit, Retop
    <3>2. f \in Frame /\ f.kind = "hooks"
      BY FrameTypes
    <3>3. HooksOutsideBlocks'
      BY <3>1, <3>2, <1>o, <1>h, HooksStayOutside
    <3>4. Cardinality(MongoBlocks(stack')) = 0
      BY <3>1, <3>2, <1>o, PushBlocks, FS_EmptySet
    <3> QED
      BY <3>1, <3>3, <3>4, <1>o DEF StackInv, NestingMatchesBlocks
  <2> QED
    BY <2>1, <2>2
<1>6. CASE OnCommitNow
  <2> DEFINE f == [kind |-> "on_commit", queue |-> <<>>, hook |-> nextHook]
  <2>1. f \in Frame /\ f.kind = "on_commit" /\ stack' = Append(stack, f)
    BY <1>6, FrameTypes DEF OnCommitNow, Push
  <2>2. HooksOutsideBlocks'
    BY <1>6, <2>1, <1>h, <1>z, HooksStayOutside DEF OnCommitNow, Defers
  <2>3. Cardinality(MongoBlocks(stack')) = n
    BY <2>1, <1>t, <1>n, PushBlocks
  <2> QED
    BY <1>6, <2>2, <2>3, <1>t, <1>c DEF OnCommitNow, wrapper, StackInv, NestingMatchesBlocks
<1>7. CASE NextHook
  <2>1. Top \in Frame
    BY <1>7, <1>t, BelowType DEF NextHook, InFrame
  <2>2. [kind |-> "hooks", queue |-> Tail(Top.queue), hook |-> Head(Top.queue)] \in Frame
    BY <1>7, <2>1 DEF NextHook, Frame
  <2> QED
    BY <1>7, <2>2, <1>q DEF NextHook, InFrame, Retop, wrapper
<1>8. CASE HooksDone \/ HookRaises
  BY <1>8, <1>p DEF HooksDone, HookRaises, InFrame, wrapper
<1>9. CASE HookReturns
  <2>1. Top \in Frame
    BY <1>9, <1>t, BelowType DEF HookReturns, InFrame
  <2>2. CASE Top.kind = "hooks"
    <3>1. [Top EXCEPT !.hook = NoHook] \in Frame /\ [Top EXCEPT !.hook = NoHook].kind = "hooks"
      BY <2>1, <2>2 DEF Frame
    <3> QED
      BY <1>9, <2>2, <3>1, <1>q DEF HookReturns, Retop, wrapper
  <2>3. CASE Top.kind # "hooks"
    BY <1>9, <2>3, <1>p DEF HookReturns, InFrame, wrapper
  <2> QED
    BY <2>2, <2>3
<1>10. CASE EnterDjango
  <2>1. HooksOutsideBlocks'
    BY <1>10, <1>h, FrameTypes, HooksStayOutside DEF EnterDjango, Push
  <2>2. Cardinality(MongoBlocks(stack')) = n
    BY <1>10, <1>t, <1>n, FrameTypes, PushBlocks DEF EnterDjango, Push
  <2> QED
    BY <1>10, <2>1, <2>2, <1>t, <1>c DEF EnterDjango, wrapper, StackInv, NestingMatchesBlocks
<1>11. CASE ExitDjango
  BY <1>11, <1>p DEF ExitDjango, InFrame
<1>12. CASE Restart
  <2>1. stack' = <<>> /\ in_atomic_block_mongo' = FALSE /\ nested_atomics' = 0
    BY <1>12 DEF Restart
  <2>2. MongoBlocks(stack') = {}
    BY <2>1 DEF MongoBlocks
  <2> QED
    BY <2>1, <2>2, FS_EmptySet DEF StackInv, NestingMatchesBlocks, HooksOutsideBlocks
<1>13. ASSUME UNCHANGED <<stack, in_atomic_block_mongo, nested_atomics>> PROVE StackInv'
  BY <1>13 DEF StackInv, NestingMatchesBlocks, HooksOutsideBlocks
<1>14. CASE \/ EnterFails \/ SaveFails \/ Raise \/ Catch \/ OnCommitDeferred
            \/ ClosePool \/ UNCHANGED vars \/ \E w \in Write : Save(w)
  BY <1>14, <1>13
  DEF EnterFails, SaveFails, Raise, Catch, OnCommitDeferred, ClosePool, Save, vars, wrapper
<1> QED
  BY <1>1, <1>2, <1>3, <1>4, <1>5, <1>6, <1>7, <1>8, <1>9, <1>10, <1>11, <1>12, <1>14
  DEF Next

LEMMA InitStackInv == Init => StackInv
<1> SUFFICES ASSUME Init PROVE StackInv
  OBVIOUS
<1>1. MongoBlocks(stack) = {} /\ ~in_atomic_block_mongo /\ nested_atomics = 0
  BY DEF Init, WrapperInit, MongoBlocks
<1> QED
  BY <1>1, FS_EmptySet DEF Init, StackInv, NestingMatchesBlocks, HooksOutsideBlocks

LEMMA StackInvariant == Spec => []StackInv
<1>1. TypeOK /\ StackInv /\ [Next]_vars => (TypeOK /\ StackInv)'
  BY StepTypeOK, StepStackInv
<1>2. Init => TypeOK /\ StackInv
  BY InitTypeOK, InitStackInv
<1> QED
  BY <1>1, <1>2, PTL DEF Spec

\* in_atomic_block_mongo and nested_atomics always count the open blocks.
THEOREM NestingCorrect == Spec => []NestingMatchesBlocks
  BY StackInvariant, PTL DEF StackInv

\* No hook of on_commit() is called inside a block.
THEOREM HooksOutsideBlocksCorrect == Spec => []HooksOutsideBlocks
  BY StackInvariant, PTL DEF StackInv

-----------------------------------------------------------------------------
(* What was acknowledged is not lost.                                      *)

Current == {w \in Write : fate[w] = "current"}
Kept == {w \in Write : fate[w] = "kept"}

\* The writes of the open block are in the server's transaction while that can
\* still commit, and otherwise already in the database: a session in any other
\* state wrote them in autocommit mode.  A transaction is only ever in progress
\* inside a block, or a write outside could be kept and not yet be committed.
DurabilityInv ==
  /\ Kept \subseteq durable
  /\ InTransaction => in_atomic_block_mongo
  /\ session \in {NoSession, "none", "starting"} => txn = NoTxn
  /\ session # "in_progress" => Current \subseteq durable
  /\ session = "in_progress" /\ txn.status # "aborted" =>
       Current \subseteq durable \cup txn.writes

LEMMA StepDurabilityInv ==
  TypeOK /\ StackInv /\ DurabilityInv /\ [Next]_vars => DurabilityInv'
<1> SUFFICES ASSUME TypeOK, StackInv, DurabilityInv, [Next]_vars PROVE DurabilityInv'
  OBVIOUS
<1>t. /\ session \in SessionState \cup {NoSession}
      /\ txn \in Txn
      /\ durable \subseteq Write
      /\ fate \in [Write -> Fate]
  BY DEF TypeOK, SessionTypeOK
\* Settling leaves no current write, and only "kept" adds to the kept ones.
<1>s. ASSUME NEW f \in Fate \ {"current"}, fate' = Settle(f)
      PROVE  /\ Current' = {}
             /\ Kept' \subseteq Kept \cup (IF f = "kept" THEN Current ELSE {})
  BY <1>s, <1>t DEF Settle, Current, Kept, Fate
<1>k. ASSUME UNCHANGED fate PROVE Current' = Current /\ Kept' = Kept
  BY <1>k DEF Current, Kept
<1>r. ASSUME NEW e \in Error, RollbackMongo(e)
      PROVE  \/ UNCHANGED <<session, txn>> /\ session \in {"none", "committed"}
             \/ session' = NoSession /\ txn' = NoTxn /\ session \notin {"none", "committed"}
  BY <1>r DEF RollbackMongo, AbortRejected
<1>1. CASE EnterInner \/ EnterOuter \/ EnterFails
  BY <1>1, <1>k DEF EnterInner, EnterOuter, EnterFails, DurabilityInv, InTransaction, NoSession
<1>2. CASE ExitInner \/ Raise \/ Catch \/ OnCommitDeferred \/ OnCommitNow
  BY <1>2, <1>k
  DEF ExitInner, Raise, Catch, OnCommitDeferred, OnCommitNow, wrapper, DurabilityInv,
      InTransaction
<1>3. CASE ExitError
  <2>1. Current' = {} /\ Kept' \subseteq Kept /\ durable' = durable
    BY <1>3, <1>s DEF ExitError, Fate
  <2>2. \/ UNCHANGED <<session, txn>> /\ session \in {"none", "committed"}
        \/ session' = NoSession /\ txn' = NoTxn
    BY <1>3, <1>r DEF ExitError, TypeOK
  <2> QED
    BY <2>1, <2>2 DEF DurabilityInv, InTransaction, NoSession
<1>4. CASE ExitCommit
  <2>1. Current' = {} /\ Kept' \subseteq Kept \cup Current
    BY <1>4, <1>s DEF ExitCommit, Fate
  <2>2. Kept \cup Current \subseteq durable'
    BY <1>4 DEF ExitCommit, CommitMongo, CommitReturns, CanCommit, DurabilityInv, NoSession
  <2>3. session' = NoSession /\ txn' = NoTxn
    BY <1>4 DEF ExitCommit
  <2> QED
    BY <2>1, <2>2, <2>3 DEF DurabilityInv, InTransaction, NoSession
<1>5. CASE ExitCommitFails
  <2>1. Current' = {} /\ Kept' \subseteq Kept
    BY <1>5, <1>s DEF ExitCommitFails, Fate
  <2>2. durable \subseteq durable'
    BY <1>5 DEF ExitCommitFails, CommitRaises
  <2>3. \/ session' = "committed"
        \/ session = "none" /\ UNCHANGED <<session, txn>>
    BY <1>5 DEF ExitCommitFails, CommitRaises, CommitRejected
  <2> QED
    BY <2>1, <2>2, <2>3 DEF DurabilityInv, InTransaction, NoSession
<1>6. ASSUME NEW w \in Write, Save(w) PROVE DurabilityInv'
  <2>1. CASE in_atomic_block_mongo
    <3>1. Current' \subseteq Current \cup {w} /\ Kept' = Kept
      BY <1>6, <2>1, <1>t DEF Save, Current, Kept
    <3>2. in_atomic_block_mongo'
      BY <1>6, <2>1 DEF Save
    <3>3. CASE InTransaction
      <4>1. /\ session' = "in_progress" /\ UNCHANGED durable
            /\ txn.status # "aborted" /\ txn'.writes = txn.writes \cup {w}
        BY <1>6, <3>3, <1>t DEF Save, Insert
      <4>2. Current \subseteq durable \cup txn.writes
        BY <3>3, <4>1 DEF InTransaction, DurabilityInv
      <4> QED
        BY <3>1, <3>2, <4>1, <4>2 DEF DurabilityInv, NoSession
    <3>4. CASE ~InTransaction
      BY <1>6, <3>1, <3>2, <3>4
      DEF Save, Insert, LeaveTransaction, InTransaction, DurabilityInv, NoSession
    <3> QED
      BY <3>3, <3>4
  <2>2. CASE ~in_atomic_block_mongo
    <3>1. Current' = Current /\ Kept' = Kept \cup {w}
      BY <1>6, <2>2, <1>t DEF Save, Current, Kept
    <3>2. ~InTransaction
      BY <2>2 DEF DurabilityInv
    <3> QED
      BY <1>6, <3>1, <3>2
      DEF Save, Insert, LeaveTransaction, InTransaction, DurabilityInv, NoSession
  <2> QED
    BY <2>1, <2>2
<1>7. CASE SaveFails
  <2>1. UNCHANGED <<fate, durable, in_atomic_block_mongo>>
    BY <1>7 DEF SaveFails, RefusedOperation
  <2>2. CASE InTransaction
    <3>1. session' = "in_progress" /\ txn'.status = "aborted"
      BY <1>7, <2>2 DEF SaveFails, RefusedOperation
    <3> QED
      BY <2>1, <2>2, <3>1, <1>k DEF DurabilityInv, InTransaction, NoSession
  <2>3. CASE ~InTransaction
    <3>1. session' \in {NoSession, "none"} /\ txn' = NoTxn
      BY <1>7, <2>3 DEF SaveFails, RefusedOperation, LeaveTransaction
    <3> QED
      BY <2>1, <2>3, <3>1, <1>k DEF DurabilityInv, InTransaction, NoSession
  <2> QED
    BY <2>2, <2>3
<1>8. CASE NextHook \/ HooksDone \/ HookReturns \/ EnterDjango \/ ExitDjango
  BY <1>8, <1>k
  DEF NextHook, HooksDone, HookReturns, EnterDjango, ExitDjango, wrapper, DurabilityInv,
      InTransaction
<1>9. CASE HookRaises
  <2>1. UNCHANGED <<fate, durable, in_atomic_block_mongo>>
    BY <1>9 DEF HookRaises
  <2>2. \/ UNCHANGED <<session, txn>>
        \/ session' = NoSession /\ txn' = NoTxn /\ session \notin {"none", "committed"}
    BY <1>9, <1>r DEF HookRaises, TypeOK
  <2>3. Current \subseteq durable
    BY <1>9, HookFrameOnTop DEF HookRaises, DurabilityInv, InTransaction
  <2> QED
    BY <2>1, <2>2, <2>3, <1>k DEF DurabilityInv, InTransaction, NoSession
<1>10. CASE ClosePool \/ Restart
  <2>1. Current' = {} /\ Kept' \subseteq Kept
    BY <1>10, <1>s DEF ClosePool, Restart, Fate
  <2>2. session' = NoSession /\ txn' = NoTxn /\ durable' = durable
    BY <1>10 DEF ClosePool, Restart
  <2> QED
    BY <2>1, <2>2 DEF DurabilityInv, InTransaction, NoSession
<1>11. CASE UNCHANGED vars
  BY <1>11, <1>k DEF vars, wrapper, DurabilityInv, InTransaction
<1> QED
  BY <1>1, <1>2, <1>3, <1>4, <1>5, <1>6, <1>7, <1>8, <1>9, <1>10, <1>11 DEF Next

\* What a block, or a query outside one, was told is kept is in the database:
\* nothing acknowledged is lost, whatever fails and whatever session leaks.
THEOREM KeptIsDurableCorrect == Spec => []KeptIsDurable
<1>1. Init => DurabilityInv
  BY DEF Init, WrapperInit, DurabilityInv, Kept, Current, InTransaction, NoSession
<1>2. DurabilityInv => KeptIsDurable
  BY DEF DurabilityInv, KeptIsDurable, Kept
<1> QED
  BY <1>1, <1>2, InitTypeOK, StepTypeOK, InitStackInv, StepStackInv,
     StepDurabilityInv, PTL DEF Spec

-----------------------------------------------------------------------------
(* The hooks of on_commit() wait in the order of their registration, and    *)
(* each in one place until it is called.                                   *)

Ordered(q) == \A i, j \in DOMAIN q : i < j => q[i] < q[j]

\* The hooks registered so far are those before `next`: the waiting ones are in the
\* list of the wrapper or in that of a frame, in order, apart from each other and from
\* those that were called.
QueuesInv(frames, run, called, next) ==
  /\ Ordered(run)
  /\ Range(run) \cup called \subseteq 1 .. next - 1
  /\ Range(run) \cap called = {}
  /\ \A i \in DOMAIN frames :
       /\ Ordered(frames[i].queue)
       /\ Range(frames[i].queue) \subseteq 1 .. next - 1
       /\ Range(frames[i].queue) \cap (called \cup Range(run)) = {}
  /\ \A i, j \in DOMAIN frames :
       i # j => Range(frames[i].queue) \cap Range(frames[j].queue) = {}

HooksInv == QueuesInv(stack, run_on_commit, ran, nextHook)

-----------------------------------------------------------------------------
(* Sequences of hooks.                                                     *)

LEMMA NoQueue == Ordered(<<>>) /\ Range(<<>>) = {}
  BY DEF Ordered, Range

\* The hook that on_commit() appends is younger than all that wait.
LEMMA AppendOrdered ==
  ASSUME NEW q \in Seq(Hook), NEW next \in Hook, Ordered(q), Range(q) \subseteq 1 .. next - 1
  PROVE  /\ Ordered(Append(q, next))
         /\ Range(Append(q, next)) = Range(q) \cup {next}
<1>1. /\ DOMAIN q = 1 .. Len(q) /\ Len(q) \in Nat
      /\ DOMAIN Append(q, next) = 1 .. Len(q) + 1
      /\ \A i \in 1 .. Len(q) : Append(q, next)[i] = q[i]
      /\ Append(q, next)[Len(q) + 1] = next
  OBVIOUS
<1>2. next \in Int /\ \A i \in 1 .. Len(q) : q[i] \in Int /\ q[i] < next
  <2>1. \A i \in 1 .. Len(q) : q[i] \in 1 .. next - 1
    BY <1>1 DEF Range
  <2> QED
    BY <2>1 DEF Hook
<1>3. Ordered(Append(q, next))
  BY <1>1, <1>2 DEF Ordered
<1>4. Range(Append(q, next)) = Range(q) \cup {next}
  BY <1>1 DEF Range
<1> QED
  BY <1>3, <1>4

\* The hook that is taken from the front waits no more.
LEMMA TailOrdered ==
  ASSUME NEW q \in Seq(Hook), q # <<>>, Ordered(q)
  PROVE  /\ Ordered(Tail(q))
         /\ Head(q) \in Range(q)
         /\ Range(Tail(q)) \subseteq Range(q) \ {Head(q)}
<1>1. /\ Len(q) \in Nat \ {0} /\ DOMAIN q = 1 .. Len(q)
      /\ DOMAIN Tail(q) = 1 .. Len(q) - 1
      /\ \A i \in 1 .. Len(q) - 1 : Tail(q)[i] = q[i + 1]
      /\ Head(q) = q[1]
      /\ \A i \in 1 .. Len(q) : q[i] \in Hook
  OBVIOUS
<1>2. Ordered(Tail(q))
  BY <1>1 DEF Ordered
<1>3. Head(q) \in Range(q)
  BY <1>1 DEF Range
<1>4. \A i \in 1 .. Len(q) - 1 : q[1] < q[i + 1] /\ q[1] # q[i + 1]
  <2>1. \A i \in 1 .. Len(q) - 1 : q[1] < q[i + 1]
    BY <1>1 DEF Ordered
  <2> QED
    BY <1>1, <2>1 DEF Hook
<1>5. Range(Tail(q)) \subseteq Range(q) \ {Head(q)}
  BY <1>1, <1>4 DEF Range
<1> QED
  BY <1>2, <1>3, <1>5

-----------------------------------------------------------------------------
(* Changes of the stack.                                                   *)

\* Dropping the hooks of the wrapper, or frames, leaves the others as they were.
LEMMA FewerQueues ==
  ASSUME NEW frames, NEW fewer, NEW run, NEW called, NEW next,
         QueuesInv(frames, run, called, next),
         DOMAIN fewer \subseteq DOMAIN frames,
         \A i \in DOMAIN fewer : fewer[i] = frames[i]
  PROVE  QueuesInv(fewer, run, called, next) /\ QueuesInv(fewer, <<>>, called, next)
<1> USE NoQueue DEF QueuesInv
<1>1. QueuesInv(fewer, run, called, next)
  OBVIOUS
<1>2. QueuesInv(fewer, <<>>, called, next)
  OBVIOUS
<1> QED
  BY <1>1, <1>2

\* A frame on top with a queue that is apart from the others.
LEMMA AnotherQueue ==
  ASSUME NEW frames \in Seq(Frame), NEW f \in Frame, NEW run, NEW called, NEW next,
         QueuesInv(frames, run, called, next),
         Ordered(f.queue), Range(f.queue) \subseteq 1 .. next - 1,
         Range(f.queue) \cap (called \cup Range(run)) = {},
         \A i \in DOMAIN frames : Range(f.queue) \cap Range(frames[i].queue) = {}
  PROVE  QueuesInv(Append(frames, f), run, called, next)
<1> DEFINE more == Append(frames, f)
<1>1. /\ DOMAIN frames = 1 .. Len(frames) /\ Len(frames) \in Nat
      /\ DOMAIN more = 1 .. Len(frames) + 1
      /\ \A i \in 1 .. Len(frames) : more[i] = frames[i]
      /\ more[Len(frames) + 1] = f
  OBVIOUS
<1>2. \A i \in DOMAIN more : i \in DOMAIN frames \/ i = Len(frames) + 1
  BY <1>1
<1> HIDE DEF more
<1>3. \A i \in DOMAIN more :
        /\ Ordered(more[i].queue)
        /\ Range(more[i].queue) \subseteq 1 .. next - 1
        /\ Range(more[i].queue) \cap (called \cup Range(run)) = {}
  BY <1>1, <1>2 DEF QueuesInv
<1>4. \A i, j \in DOMAIN more :
        i # j => Range(more[i].queue) \cap Range(more[j].queue) = {}
  BY <1>1, <1>2 DEF QueuesInv
<1> QED
  BY <1>3, <1>4 DEF QueuesInv, more

\* A hook that was not registered before is called at once, or appended to the list.
LEMMA OneMoreHook ==
  ASSUME NEW frames, NEW run \in Seq(Hook), NEW called, NEW next \in Hook,
         QueuesInv(frames, run, called, next)
  PROVE  /\ QueuesInv(frames, run, called \cup {next}, next + 1)
         /\ QueuesInv(frames, Append(run, next), called, next + 1)
<1>1. 1 .. next - 1 \subseteq 1 .. (next + 1) - 1 /\ next \in 1 .. (next + 1) - 1
      /\ next \notin 1 .. next - 1
  BY DEF Hook
<1> USE <1>1 DEF QueuesInv
<1>2. QueuesInv(frames, run, called \cup {next}, next + 1)
  OBVIOUS
<1>3. Ordered(Append(run, next)) /\ Range(Append(run, next)) = Range(run) \cup {next}
  BY AppendOrdered
<1>4. QueuesInv(frames, Append(run, next), called, next + 1)
  BY <1>3
<1> QED
  BY <1>2, <1>4

\* The queue of the innermost frame is apart from those below it.
LEMMA TopQueue ==
  ASSUME TypeOK, HooksInv, stack # <<>>
  PROVE  /\ Below \in Seq(Frame) /\ Top \in Frame
         /\ QueuesInv(Below, run_on_commit, ran, nextHook)
         /\ QueuesInv(Below, <<>>, ran, nextHook)
         /\ Ordered(Top.queue)
         /\ Range(Top.queue) \subseteq 1 .. nextHook - 1
         /\ Range(Top.queue) \cap (ran \cup Range(run_on_commit)) = {}
         /\ \A i \in DOMAIN Below : Range(Top.queue) \cap Range(Below[i].queue) = {}
<1>1. /\ Below \in Seq(Frame) /\ Top \in Frame
      /\ Len(Below) = Len(stack) - 1
      /\ \A i \in 1 .. Len(stack) - 1 : Below[i] = stack[i]
  BY BelowType DEF TypeOK
<1>2. /\ Len(stack) \in Nat \ {0} /\ DOMAIN stack = 1 .. Len(stack)
      /\ DOMAIN Below = 1 .. Len(stack) - 1
  BY <1>1 DEF TypeOK
<1>3. DOMAIN Below \subseteq DOMAIN stack /\ \A i \in DOMAIN Below : Below[i] = stack[i]
  BY <1>1, <1>2
<1>4. /\ QueuesInv(Below, run_on_commit, ran, nextHook)
      /\ QueuesInv(Below, <<>>, ran, nextHook)
  BY <1>3, FewerQueues DEF HooksInv
<1>5. Len(stack) \in DOMAIN stack /\ Top = stack[Len(stack)] /\ Len(stack) \notin DOMAIN Below
  BY <1>2 DEF Top
<1>6. /\ Ordered(Top.queue)
      /\ Range(Top.queue) \subseteq 1 .. nextHook - 1
      /\ Range(Top.queue) \cap (ran \cup Range(run_on_commit)) = {}
  BY <1>5 DEF HooksInv, QueuesInv
<1>7. \A i \in DOMAIN Below : Range(Top.queue) \cap Range(Below[i].queue) = {}
  BY <1>3, <1>5 DEF HooksInv, QueuesInv
<1> QED
  BY <1>1, <1>4, <1>6, <1>7

-----------------------------------------------------------------------------
(* Every step.                                                             *)

LEMMA InitHooksInv == Init => HooksInv
  BY NoQueue DEF Init, WrapperInit, HooksInv, QueuesInv

LEMMA StepHooksInv == TypeOK /\ HooksInv /\ [Next]_vars => HooksInv'
<1> SUFFICES ASSUME TypeOK, HooksInv, [Next]_vars PROVE HooksInv'
  OBVIOUS
<1>t. stack \in Seq(Frame) /\ run_on_commit \in Seq(Hook)
  BY DEF TypeOK
\* Whether the list of the wrapper is kept or dropped.
<1>u. ASSUME run_on_commit' \in {run_on_commit, <<>>}
      PROVE  /\ QueuesInv(stack, run_on_commit', ran, nextHook)
             /\ stack # <<>> => QueuesInv(Below, run_on_commit', ran, nextHook)
  <2>1. QueuesInv(stack, run_on_commit', ran, nextHook)
    BY <1>u, FewerQueues DEF HooksInv
  <2>2. stack # <<>> => QueuesInv(Below, run_on_commit', ran, nextHook)
    BY <1>u, TopQueue
  <2> QED
    BY <2>1, <2>2
\* Pushing a frame that calls no hooks of a list.
<1>p. ASSUME NEW f \in Frame, f.queue = <<>>, stack' = Append(stack, f),
             QueuesInv(stack, run_on_commit', ran', nextHook')
      PROVE  HooksInv'
  <2>1. Ordered(f.queue) /\ Range(f.queue) = {}
    BY <1>p, NoQueue
  <2> QED
    BY <1>p, <1>t, <2>1, AnotherQueue DEF HooksInv
<1>c. UseConnection \/ KeepHooks => run_on_commit' \in {run_on_commit, <<>>}
  BY DEF UseConnection, KeepHooks
<1>r. ASSUME NEW e, RollbackMongo(e) PROVE run_on_commit' \in {run_on_commit, <<>>}
  BY <1>r DEF RollbackMongo
<1>1. CASE EnterInner \/ EnterOuter \/ EnterDjango
  <2>1. run_on_commit' \in {run_on_commit, <<>>} /\ UNCHANGED <<ran, nextHook>>
    BY <1>1, <1>c DEF EnterInner, EnterOuter, EnterDjango
  <2>2. PICK kind \in {"mongo", "django"} : stack' = Append(stack, Block(kind))
    BY <1>1 DEF EnterInner, EnterOuter, EnterDjango, Push
  <2>3. Block(kind) \in Frame /\ Block(kind).queue = <<>>
    BY BlockType DEF Block
  <2> QED
    BY <2>1, <2>2, <2>3, <1>u, <1>p
<1>2. CASE ExitInner \/ ExitError \/ ExitCommitFails \/ HooksDone \/ HookRaises \/ ExitDjango
  <2>1. stack # <<>> /\ stack' = Below /\ UNCHANGED <<ran, nextHook>>
    BY <1>2
    DEF ExitInner, ExitError, ExitCommitFails, HooksDone, HookRaises, ExitDjango, LeaveOuter,
        InFrame
  <2>2. run_on_commit' \in {run_on_commit, <<>>}
    BY <1>2, <1>r
    DEF ExitInner, ExitError, ExitCommitFails, HooksDone, HookRaises, ExitDjango, wrapper
  <2> QED
    BY <2>1, <2>2, <1>u DEF HooksInv
\* The list is handed over to the call that runs the hooks.
<1>3. CASE ExitCommit
  <2>1. stack # <<>> /\ run_on_commit' = <<>> /\ UNCHANGED <<ran, nextHook>>
    BY <1>3 DEF ExitCommit, LeaveOuter, InFrame, HooksLeft
  <2>2. CASE stack' = Below
    BY <2>1, <2>2, <1>u DEF HooksInv
  <2>3. CASE stack' # Below
    <3> DEFINE f == [kind |-> "hooks", queue |-> run_on_commit, hook |-> NoHook]
    <3>1. stack' = Append(Below, f)
      BY <1>3, <2>3 DEF ExitCommit, Retop
    <3>2. f \in Frame /\ f.queue = run_on_commit
      BY FrameTypes
    <3>3. QueuesInv(Below, run_on_commit, ran, nextHook) /\ Below \in Seq(Frame)
          /\ QueuesInv(Below, <<>>, ran, nextHook)
      BY <2>1, TopQueue
    <3>4. /\ Ordered(run_on_commit) /\ Range(run_on_commit) \subseteq 1 .. nextHook - 1
          /\ Range(run_on_commit) \cap (ran \cup Range(<<>>)) = {}
          /\ \A i \in DOMAIN Below : Range(run_on_commit) \cap Range(Below[i].queue) = {}
      BY <3>3, NoQueue DEF QueuesInv
    <3> HIDE DEF f
    <3>5. QueuesInv(Append(Below, f), <<>>, ran, nextHook)
      BY <3>2, <3>3, <3>4, AnotherQueue
    <3> QED
      BY <2>1, <3>1, <3>5 DEF HooksInv
  <2> QED
    BY <2>2, <2>3
<1>4. CASE OnCommitDeferred
  <2>1. QueuesInv(stack, HooksWithNext, ran, nextHook + 1)
    BY <1>4, <1>t, OneMoreHook DEF OnCommitDeferred, HooksInv, HooksWithNext
  <2> QED
    BY <1>4, <2>1 DEF OnCommitDeferred, HooksInv
<1>5. CASE OnCommitNow
  <2> DEFINE f == [kind |-> "on_commit", queue |-> <<>>, hook |-> nextHook]
  <2>1. f \in Frame /\ f.queue = <<>> /\ stack' = Append(stack, f)
    BY <1>5, FrameTypes DEF OnCommitNow, Push
  <2>2. QueuesInv(stack, run_on_commit, ran \cup {nextHook}, nextHook + 1)
    BY <1>5, <1>t, OneMoreHook DEF OnCommitNow, HooksInv
  <2>3. QueuesInv(stack, run_on_commit', ran', nextHook')
    BY <1>5, <2>2 DEF OnCommitNow, wrapper
  <2> HIDE DEF f
  <2> QED
    BY <2>1, <2>3, <1>p
<1>6. CASE NextHook
  <2> DEFINE h == Head(Top.queue)
             f == [kind |-> "hooks", queue |-> Tail(Top.queue), hook |-> h]
  <2>1. /\ stack # <<>> /\ Top.queue # <<>> /\ stack' = Append(Below, f)
        /\ ran' = ran \cup {h} /\ UNCHANGED <<run_on_commit, nextHook>>
    BY <1>6 DEF NextHook, InFrame, Retop, wrapper
  <2>2. Top.queue \in Seq(Hook)
    BY <2>1, TopQueue DEF Frame
  <2>3. /\ Ordered(Tail(Top.queue)) /\ h \in Range(Top.queue)
        /\ Range(Tail(Top.queue)) \subseteq Range(Top.queue) \ {h}
    BY <2>1, <2>2, TopQueue, TailOrdered
  <2>4. f \in Frame /\ f.queue = Tail(Top.queue)
    BY <2>1, <2>2 DEF Frame
  <2> HIDE DEF f, h
  <2>5. QueuesInv(Below, run_on_commit, ran \cup {h}, nextHook)
    <3>1. h \in 1 .. nextHook - 1 /\ h \notin Range(run_on_commit)
          /\ \A i \in DOMAIN Below : h \notin Range(Below[i].queue)
      BY <2>1, <2>3, TopQueue
    <3>2. QueuesInv(Below, run_on_commit, ran, nextHook)
      BY <2>1, TopQueue
    <3> QED
      BY <3>1, <3>2 DEF QueuesInv
  <2>6. /\ Range(f.queue) \subseteq 1 .. nextHook - 1
        /\ Range(f.queue) \cap ((ran \cup {h}) \cup Range(run_on_commit)) = {}
        /\ \A i \in DOMAIN Below : Range(f.queue) \cap Range(Below[i].queue) = {}
    BY <2>1, <2>3, <2>4, TopQueue
  <2>7. QueuesInv(Append(Below, f), run_on_commit, ran \cup {h}, nextHook)
    BY <2>1, <2>3, <2>4, <2>5, <2>6, TopQueue, AnotherQueue
  <2> QED
    BY <2>1, <2>7 DEF HooksInv
<1>7. CASE HookReturns
  <2>1. stack # <<>> /\ UNCHANGED <<run_on_commit, ran, nextHook>>
    BY <1>7 DEF HookReturns, InFrame, wrapper
  <2>2. CASE Top.kind = "hooks"
    <3> DEFINE f == [Top EXCEPT !.hook = NoHook]
    <3>1. f \in Frame /\ f.queue = Top.queue
      BY <2>1, TopQueue DEF Frame
    <3>2. stack' = Append(Below, f)
      BY <1>7, <2>2 DEF HookReturns, Retop
    <3> HIDE DEF f
    <3>3. QueuesInv(Append(Below, f), run_on_commit, ran, nextHook)
      BY <2>1, <3>1, TopQueue, AnotherQueue
    <3> QED
      BY <2>1, <3>2, <3>3 DEF HooksInv
  <2>3. CASE Top.kind # "hooks"
    BY <1>7, <2>1, <2>3, <1>u DEF HookReturns, HooksInv
  <2> QED
    BY <2>2, <2>3
<1>8. CASE Restart
  <2>1. stack' = <<>> /\ run_on_commit' = <<>> /\ UNCHANGED <<ran, nextHook>>
    BY <1>8 DEF Restart
  <2>2. QueuesInv(<<>>, <<>>, ran, nextHook)
    BY NoQueue DEF HooksInv, QueuesInv
  <2> QED
    BY <2>1, <2>2 DEF HooksInv
<1>9. CASE \/ EnterFails \/ SaveFails \/ Raise \/ Catch \/ ClosePool \/ UNCHANGED vars
           \/ \E w \in Write : Save(w)
  <2>1. UNCHANGED <<stack, ran, nextHook>>
    BY <1>9 DEF EnterFails, SaveFails, Raise, Catch, ClosePool, Save, vars, wrapper
  <2>2. run_on_commit' \in {run_on_commit, <<>>}
    BY <1>9, <1>c DEF EnterFails, SaveFails, Raise, Catch, ClosePool, Save, vars, wrapper
  <2> QED
    BY <2>1, <2>2, <1>u DEF HooksInv
<1> QED
  BY <1>1, <1>2, <1>3, <1>4, <1>5, <1>6, <1>7, <1>8, <1>9 DEF Next

LEMMA HooksInvariant == Spec => []HooksInv
  BY InitTypeOK, StepTypeOK, InitHooksInv, StepHooksInv, PTL DEF Spec

\* on_commit() keeps its hooks in the order of their registration, in the list
\* of the wrapper and in every call of run_and_clear_commit_hooks() that hooks
\* opened inside each other.
THEOREM HooksInOrderCorrect == Spec => []HooksInOrder
<1>1. HooksInv => HooksInOrder
  BY DEF HooksInv, QueuesInv, HooksInOrder, Queues, Ordered
<1> QED
  BY <1>1, HooksInvariant, PTL

\* A hook that was called is called no more, and one that waits waits in one
\* place: handing run_on_commit over duplicates none.
THEOREM NoHookTwiceCorrect == Spec => []NoHookTwice
<1>1. HooksInv => NoHookTwice
  BY DEF HooksInv, QueuesInv, NoHookTwice
<1> QED
  BY <1>1, HooksInvariant, PTL

-----------------------------------------------------------------------------
(* A program without Faults keeps the promise of the documentation.        *)

NoDjango(frames) == \A i \in DOMAIN frames : frames[i].kind # "django"

\* Only the calls that run a list of hooks have one.
OnlyHooksQueue(frames) ==
  \A i \in DOMAIN frames : frames[i].kind # "hooks" => frames[i].queue = <<>>

\* Outside of blocks the wrapper is clean.  In a block it is connected and its
\* session is in a transaction, which holds what the block wrote until an
\* exception that nobody catches inside of the block ends it.
CleanInv ==
  /\ ~in_atomic_block_mongo => session = NoSession /\ run_on_commit = <<>> /\ Current = {}
  /\ in_atomic_block_mongo => InTransaction /\ connected
  /\ session # "in_progress" => txn = NoTxn
  /\ session = "starting" => Current = {}
  /\ session = "in_progress" =>
       \/ txn.status = "open" /\ txn.writes = Current
       \/ txn.status = "aborted" /\ raising # NoError
  /\ durable = Kept
  /\ ~in_atomic_block

FramesInv == NoDjango(stack) /\ OnlyHooksQueue(stack)

-----------------------------------------------------------------------------
(* Frames.                                                                 *)

LEMMA PushFrame ==
  ASSUME NEW frames \in Seq(Frame), NEW f \in Frame,
         NoDjango(frames), OnlyHooksQueue(frames),
         f.kind # "django", f.kind # "hooks" => f.queue = <<>>
  PROVE  NoDjango(Append(frames, f)) /\ OnlyHooksQueue(Append(frames, f))
<1>1. /\ DOMAIN frames = 1 .. Len(frames) /\ Len(frames) \in Nat
      /\ DOMAIN Append(frames, f) = 1 .. Len(frames) + 1
      /\ \A i \in 1 .. Len(frames) : Append(frames, f)[i] = frames[i]
      /\ Append(frames, f)[Len(frames) + 1] = f
  OBVIOUS
<1>2. \A i \in 1 .. Len(frames) + 1 : i \in 1 .. Len(frames) \/ i = Len(frames) + 1
  BY <1>1
<1> QED
  BY <1>1, <1>2 DEF NoDjango, OnlyHooksQueue

LEMMA PopFrame ==
  ASSUME TypeOK, FramesInv, stack # <<>>
  PROVE  /\ NoDjango(Below) /\ OnlyHooksQueue(Below)
         /\ Top.kind # "django"
         /\ Top.kind # "hooks" => Top.queue = <<>>
<1>1. /\ Below \in Seq(Frame) /\ Len(Below) = Len(stack) - 1
      /\ \A i \in 1 .. Len(stack) - 1 : Below[i] = stack[i]
  BY BelowType DEF TypeOK
<1>2. /\ Len(stack) \in Nat \ {0} /\ DOMAIN stack = 1 .. Len(stack)
      /\ DOMAIN Below = 1 .. Len(stack) - 1
  BY <1>1 DEF TypeOK
<1>3. Len(stack) \in DOMAIN stack /\ Top = stack[Len(stack)]
  BY <1>2 DEF Top
<1> QED
  BY <1>1, <1>2, <1>3 DEF FramesInv, NoDjango, OnlyHooksQueue

\* Without Faults no action of Django's atomic() is taken.
LEMMA StepFramesInv ==
  ASSUME Faults = {}
  PROVE  TypeOK /\ FramesInv /\ [Next]_vars => FramesInv'
<1> SUFFICES ASSUME TypeOK, FramesInv, [Next]_vars PROVE FramesInv'
  OBVIOUS
<1>t. stack \in Seq(Frame) /\ run_on_commit \in Seq(Hook)
  BY DEF TypeOK
<1>1. CASE EnterInner \/ EnterOuter
  <2>1. /\ Block("mongo") \in Frame
        /\ Block("mongo").kind = "mongo" /\ Block("mongo").queue = <<>>
    BY BlockType DEF Block
  <2>2. stack' = Append(stack, Block("mongo"))
    BY <1>1 DEF EnterInner, EnterOuter, Push
  <2> QED
    BY <1>t, <2>1, <2>2, PushFrame DEF FramesInv
<1>2. CASE stack # <<>> /\ stack' = Below
  BY <1>2, PopFrame DEF FramesInv
<1>3. CASE ExitInner \/ ExitError \/ ExitCommitFails \/ HooksDone \/ HookRaises \/ ExitDjango
  BY <1>3, <1>2
  DEF ExitInner, ExitError, ExitCommitFails, HooksDone, HookRaises, ExitDjango, LeaveOuter,
      InFrame
<1>4. CASE ExitCommit /\ stack' # Below
  <2> DEFINE f == [kind |-> "hooks", queue |-> run_on_commit, hook |-> NoHook]
  <2>1. stack # <<>> /\ stack' = Append(Below, f)
    BY <1>4 DEF ExitCommit, LeaveOuter, InFrame, Retop
  <2>2. f \in Frame /\ f.kind = "hooks"
    BY FrameTypes
  <2>3. Below \in Seq(Frame) /\ NoDjango(Below) /\ OnlyHooksQueue(Below)
    BY <1>t, <2>1, BelowType, PopFrame
  <2> HIDE DEF f
  <2> QED
    BY <2>1, <2>2, <2>3, PushFrame DEF FramesInv
<1>5. CASE ExitCommit /\ stack' = Below
  BY <1>5, <1>2 DEF ExitCommit, LeaveOuter, InFrame
<1>6. CASE OnCommitNow
  <2> DEFINE f == [kind |-> "on_commit", queue |-> <<>>, hook |-> nextHook]
  <2>1. f \in Frame /\ f.kind = "on_commit" /\ f.queue = <<>> /\ stack' = Append(stack, f)
    BY <1>6, FrameTypes DEF OnCommitNow, Push
  <2> HIDE DEF f
  <2> QED
    BY <1>t, <2>1, PushFrame DEF FramesInv
<1>7. CASE NextHook
  <2> DEFINE f == [kind |-> "hooks", queue |-> Tail(Top.queue), hook |-> Head(Top.queue)]
  <2>1. stack # <<>> /\ Top.queue # <<>> /\ stack' = Append(Below, f)
    BY <1>7 DEF NextHook, InFrame, Retop
  <2>2. Top \in Frame /\ Below \in Seq(Frame) /\ NoDjango(Below) /\ OnlyHooksQueue(Below)
    BY <1>t, <2>1, BelowType, PopFrame
  <2>3. f \in Frame /\ f.kind = "hooks"
    BY <2>1, <2>2 DEF Frame
  <2> HIDE DEF f
  <2> QED
    BY <2>1, <2>2, <2>3, PushFrame DEF FramesInv
<1>8. CASE HookReturns /\ Top.kind = "hooks"
  <2> DEFINE f == [Top EXCEPT !.hook = NoHook]
  <2>1. stack # <<>> /\ stack' = Append(Below, f)
    BY <1>8 DEF HookReturns, InFrame, Retop
  <2>2. Top \in Frame /\ Below \in Seq(Frame) /\ NoDjango(Below) /\ OnlyHooksQueue(Below)
    BY <1>t, <2>1, BelowType, PopFrame
  <2>3. f \in Frame /\ f.kind = "hooks"
    BY <1>8, <2>2 DEF Frame
  <2> HIDE DEF f
  <2> QED
    BY <2>1, <2>2, <2>3, PushFrame DEF FramesInv
<1>9. CASE HookReturns /\ Top.kind # "hooks"
  BY <1>9, <1>2 DEF HookReturns, InFrame
<1>10. CASE Restart
  BY <1>10 DEF Restart, FramesInv, NoDjango, OnlyHooksQueue
<1>11. CASE UNCHANGED stack
  BY <1>11 DEF FramesInv
<1>12. CASE \/ EnterFails \/ SaveFails \/ Raise \/ Catch \/ OnCommitDeferred \/ ClosePool
            \/ UNCHANGED vars \/ \E w \in Write : Save(w)
  BY <1>11, <1>12
  DEF EnterFails, SaveFails, Raise, Catch, OnCommitDeferred, ClosePool, Save, vars
<1>13. ~EnterDjango
  BY DEF EnterDjango
<1> QED
  BY <1>1, <1>3, <1>4, <1>5, <1>6, <1>7, <1>8, <1>9, <1>10, <1>12, <1>13 DEF Next

-----------------------------------------------------------------------------
(* The wrapper between the blocks, and what the database holds.            *)

\* A block of the backend that is on top of the stack is counted.
LEMMA BlockIsOpen ==
  ASSUME TypeOK, StackInv, InFrame({"mongo"})
  PROVE  in_atomic_block_mongo
<1>1. stack \in Seq(Frame) /\ Len(stack) \in DOMAIN stack /\ Top.kind = "mongo"
  BY DEF InFrame, TypeOK
<1>2. Len(stack) \in MongoBlocks(stack)
  BY <1>1 DEF MongoBlocks, Top
<1>3. Cardinality(MongoBlocks(stack)) # 0
  BY <1>1, <1>2, MongoBlocksFinite, FS_EmptySet
<1> QED
  BY <1>3 DEF StackInv, NestingMatchesBlocks, TypeOK

\* The commit of a block adds what the block wrote, and nothing else.
LEMMA CommitAddsCurrent ==
  ASSUME CleanInv, in_atomic_block_mongo, raising = NoError, CommitMongo
  PROVE  durable' = durable \cup Current
<1>1. session # NoSession /\ CommitReturns
  BY DEF CommitMongo, CleanInv, InTransaction, NoSession
<1>2. CASE session = "starting"
  BY <1>1, <1>2 DEF CommitReturns, CanCommit, CleanInv
<1>3. CASE session = "in_progress"
  BY <1>1, <1>3 DEF CommitReturns, CleanInv
<1> QED
  BY <1>2, <1>3 DEF CleanInv, InTransaction

\* A commit is not refused: the transaction is open, and not aborted.
LEMMA CommitAccepted ==
  ASSUME Faults = {}, TypeOK, StackInv, CleanInv
  PROVE  ~ExitCommitFails
<1> SUFFICES ASSUME ExitCommitFails PROVE FALSE
  OBVIOUS
<1>1. in_atomic_block_mongo /\ raising = NoError
  BY BlockIsOpen DEF ExitCommitFails, LeaveOuter, Running
<1>2. session \in {"starting", "in_progress"}
  BY <1>1 DEF CleanInv, InTransaction
<1>3. txn.status # "aborted"
  BY <1>1, <1>2 DEF CleanInv, NoTxn
<1> QED
  BY <1>2, <1>3 DEF ExitCommitFails, CommitRejected

LEMMA StepCleanInv ==
  ASSUME Faults = {}
  PROVE  TypeOK /\ StackInv /\ FramesInv /\ CleanInv /\ [Next]_vars => CleanInv'
<1> SUFFICES ASSUME TypeOK, StackInv, FramesInv, CleanInv, [Next]_vars PROVE CleanInv'
  OBVIOUS
<1>t. /\ session \in SessionState \cup {NoSession}
      /\ txn \in Txn
      /\ fate \in [Write -> Fate]
      /\ in_atomic_block_mongo \in BOOLEAN
      /\ raising \in Error \cup {NoError}
  BY DEF TypeOK, SessionTypeOK
<1>e. NoError \notin Error
  BY DEF NoError, Error
<1>s. ASSUME NEW f \in Fate \ {"current"}, fate' = Settle(f)
      PROVE  /\ Current' = {}
             /\ Kept' = Kept \cup (IF f = "kept" THEN Current ELSE {})
  BY <1>s, <1>t DEF Settle, Current, Kept, Fate
<1>k. ASSUME UNCHANGED fate PROVE Current' = Current /\ Kept' = Kept
  BY <1>k DEF Current, Kept
<1>h. InFrame({"hooks", "on_commit"}) => ~in_atomic_block_mongo
  BY HookFrameOnTop
\* Leaving the outermost block without session and hooks.
<1>l. ASSUME ~in_atomic_block_mongo', session' = NoSession, txn' = NoTxn,
             run_on_commit' = <<>>, Current' = {}, durable' = Kept', ~in_atomic_block'
      PROVE  CleanInv'
  BY <1>l DEF CleanInv, NoSession
\* Nothing happens to the database, the session and the hooks.
<1>n. ASSUME UNCHANGED <<session, txn, durable, fate>>,
             UNCHANGED <<in_atomic_block_mongo, in_atomic_block>>,
             run_on_commit' \in {run_on_commit, <<>>} \/ in_atomic_block_mongo,
             connected' \/ UNCHANGED connected \/ ~in_atomic_block_mongo,
             session = "in_progress" => raising' = raising \/ raising' # NoError
                                        \/ txn.status # "aborted"
      PROVE  CleanInv'
  BY <1>n, <1>k DEF CleanInv, InTransaction
<1>1. CASE EnterInner
  BY <1>1, <1>n DEF EnterInner, django
<1>2. CASE EnterOuter
  <2>1. /\ session = NoSession /\ session' = "starting" /\ UNCHANGED <<txn, durable, fate>>
        /\ in_atomic_block_mongo' /\ connected' /\ ~in_atomic_block'
    BY <1>2 DEF EnterOuter, UseConnection, CleanInv
  <2>2. txn' = NoTxn /\ Current' = {} /\ durable' = Kept'
    BY <1>2, <2>1, <1>k DEF EnterOuter, CleanInv, NoSession
  <2> QED
    BY <2>1, <2>2 DEF CleanInv, InTransaction
<1>3. CASE ExitInner
  BY <1>3, <1>n DEF ExitInner, django
<1>4. CASE ExitError
  <2>1. in_atomic_block_mongo /\ ~in_atomic_block_mongo'
    BY <1>4, BlockIsOpen DEF ExitError, LeaveOuter
  <2>2. session' = NoSession /\ txn' = NoTxn /\ run_on_commit' = <<>>
    BY <1>4, <2>1 DEF ExitError, RollbackMongo, AbortRejected, CleanInv, InTransaction
  <2>3. Current' = {} /\ Kept' = Kept /\ durable' = durable
    BY <1>4, <1>s DEF ExitError, Fate
  <2> QED
    BY <1>4, <1>l, <2>1, <2>2, <2>3 DEF ExitError, LeaveOuter, django, CleanInv
<1>5. CASE ExitCommit
  <2>1. in_atomic_block_mongo /\ ~in_atomic_block_mongo' /\ raising = NoError
    BY <1>5, BlockIsOpen DEF ExitCommit, LeaveOuter, Running
  <2>2. session' = NoSession /\ txn' = NoTxn /\ run_on_commit' = <<>>
    BY <1>5 DEF ExitCommit, HooksLeft
  <2>3. Current' = {} /\ Kept' = Kept \cup Current
    BY <1>5, <1>s DEF ExitCommit, Fate
  <2>4. durable' = durable \cup Current
    BY <1>5, <2>1, CommitAddsCurrent DEF ExitCommit
  <2> QED
    BY <1>5, <1>l, <2>1, <2>2, <2>3, <2>4 DEF ExitCommit, LeaveOuter, django, CleanInv
<1>6. ~ExitCommitFails
  BY CommitAccepted
<1>7. ASSUME NEW w \in Write, Save(w) PROVE CleanInv'
  <2>1. /\ in_atomic_block_mongo' = in_atomic_block_mongo /\ connected' /\ ~in_atomic_block'
        /\ run_on_commit' \in {run_on_commit, <<>>} /\ raising = NoError
        /\ raising' = raising
    BY <1>7 DEF Save, UseConnection, CleanInv, Running
  <2>2. CASE in_atomic_block_mongo
    <3>1. Current' = Current \cup {w} /\ Kept' = Kept
      BY <1>7, <2>2, <1>t DEF Save, Current, Kept
    <3>2. /\ session' = "in_progress" /\ UNCHANGED durable
          /\ txn' = [status |-> "open", writes |-> txn.writes \cup {w}]
      BY <1>7, <2>2 DEF Save, Insert, CleanInv
    <3>3. txn.writes = Current
      <4>1. CASE session = "starting"
        <5>1. txn = NoTxn /\ Current = {}
          BY <4>1 DEF CleanInv
        <5>2. NoTxn.writes = {}
          BY DEF NoTxn
        <5> QED
          BY <5>1, <5>2
      <4>2. CASE session = "in_progress"
        BY <2>1, <4>2 DEF CleanInv
      <4> QED
        BY <2>2, <4>1, <4>2 DEF CleanInv, InTransaction
    <3> QED
      BY <2>1, <2>2, <3>1, <3>2, <3>3 DEF CleanInv, InTransaction
  <2>3. CASE ~in_atomic_block_mongo
    <3>1. Current' = Current /\ Kept' = Kept \cup {w}
      BY <1>7, <2>3, <1>t DEF Save, Current, Kept
    <3>2. session' = NoSession /\ txn' = NoTxn /\ durable' = durable \cup {w}
      BY <1>7, <2>3 DEF Save, Insert, LeaveTransaction, CleanInv, InTransaction, NoSession
    <3>3. run_on_commit' = <<>>
      BY <2>1, <2>3 DEF CleanInv
    <3> QED
      BY <1>l, <2>1, <2>3, <3>1, <3>2, <3>3 DEF CleanInv
  <2> QED
    BY <2>2, <2>3
<1>8. CASE SaveFails
  <2>1. /\ in_atomic_block_mongo' = in_atomic_block_mongo /\ connected' /\ ~in_atomic_block'
        /\ run_on_commit' \in {run_on_commit, <<>>} /\ raising' # NoError
        /\ UNCHANGED <<durable, fate>>
    BY <1>8 DEF SaveFails, UseConnection, CleanInv, RefusedOperation, NoError
  <2>2. CASE in_atomic_block_mongo
    <3>1. session' = "in_progress" /\ txn'.status = "aborted"
      BY <1>8, <2>2 DEF SaveFails, RefusedOperation, CleanInv
    <3> QED
      BY <1>k, <2>1, <2>2, <3>1 DEF CleanInv, InTransaction
  <2>3. CASE ~in_atomic_block_mongo
    <3>1. session' = NoSession /\ txn' = NoTxn
      BY <1>8, <2>3
      DEF SaveFails, RefusedOperation, LeaveTransaction, CleanInv, InTransaction, NoSession
    <3>2. run_on_commit' = <<>> /\ Current = {}
      BY <2>1, <2>3 DEF CleanInv
    <3> QED
      BY <1>k, <1>l, <2>1, <2>3, <3>1, <3>2 DEF CleanInv
  <2> QED
    BY <2>2, <2>3
<1>9. CASE Raise
  <2>1. raising' # NoError
    BY <1>9, <1>e DEF Raise
  <2> QED
    BY <1>9, <1>n, <2>1 DEF Raise, wrapper, django
<1>10. CASE Catch
  <2>1. session = "in_progress" => txn.status # "aborted"
    BY <1>10 DEF Catch, CleanInv, NoSession
  <2> QED
    BY <1>10, <1>n, <2>1 DEF Catch, wrapper, django
<1>11. CASE OnCommitDeferred
  BY <1>11, <1>n DEF OnCommitDeferred, Defers, django
<1>12. CASE OnCommitNow \/ NextHook \/ HooksDone
  BY <1>12, <1>n DEF OnCommitNow, NextHook, HooksDone, wrapper, django
<1>13. CASE HookReturns
  <2>1. session # "in_progress"
    BY <1>13, <1>h DEF HookReturns, CleanInv, NoSession
  <2> QED
    BY <1>13, <1>n, <2>1 DEF HookReturns, wrapper, django
<1>14. CASE HookRaises
  <2>1. ~in_atomic_block_mongo /\ session = NoSession /\ run_on_commit = <<>> /\ txn = NoTxn
    BY <1>14, <1>h DEF HookRaises, CleanInv, NoSession
  <2>2. session' = NoSession /\ run_on_commit' = <<>> /\ txn' = NoTxn
    BY <1>14, <2>1 DEF HookRaises, RollbackMongo, AbortRejected, NoSession
  <2> QED
    BY <1>14, <1>k, <1>l, <2>1, <2>2 DEF HookRaises, django, CleanInv
<1>15. ~EnterFails /\ ~EnterDjango
  BY DEF EnterFails, EnterDjango
<1>16. ~ExitDjango
  BY PopFrame DEF ExitDjango, InFrame
<1>17. CASE ClosePool
  <2>1. ~in_atomic_block_mongo
    BY <1>17 DEF ClosePool
  <2>2. Current' = {} /\ Kept' = Kept
    <3>1. fate' = Settle("undone")
      BY <1>17 DEF ClosePool
    <3>2. "undone" \in Fate \ {"current"} /\ "undone" # "kept"
      BY DEF Fate
    <3> QED
      BY <1>s, <3>1, <3>2
  <2>3. durable = Kept /\ ~in_atomic_block
    BY DEF CleanInv
  <2> QED
    BY <1>17, <1>l, <2>1, <2>2, <2>3 DEF ClosePool
<1>18. CASE Restart
  <2>1. Current' = {} /\ Kept' = Kept
    <3>1. fate' = Settle("unresolved")
      BY <1>18 DEF Restart
    <3>2. "unresolved" \in Fate \ {"current"} /\ "unresolved" # "kept"
      BY DEF Fate
    <3> QED
      BY <1>s, <3>1, <3>2
  <2>2. durable = Kept
    BY DEF CleanInv
  <2> QED
    BY <1>18, <1>l, <2>1, <2>2 DEF Restart
<1>19. CASE UNCHANGED vars
  BY <1>19, <1>n DEF vars, wrapper, django
<1> QED
  BY <1>1, <1>2, <1>3, <1>4, <1>5, <1>6, <1>7, <1>8, <1>9, <1>10, <1>11, <1>12, <1>13, <1>14,
     <1>15, <1>16, <1>17, <1>18, <1>19 DEF Next

LEMMA InitCleanInv == Init => FramesInv /\ CleanInv
<1> SUFFICES ASSUME Init PROVE FramesInv /\ CleanInv
  OBVIOUS
<1>1. FramesInv
  BY DEF Init, FramesInv, NoDjango, OnlyHooksQueue
<1>2. Current = {} /\ Kept = {}
  BY DEF Init, Current, Kept
<1>3. CleanInv
  BY <1>2 DEF Init, WrapperInit, CleanInv, NoSession
<1> QED
  BY <1>1, <1>3

IInv == TypeOK /\ StackInv /\ HooksInv /\ FramesInv /\ CleanInv

LEMMA StepIInv ==
  ASSUME Faults = {}
  PROVE  IInv /\ [Next]_vars => IInv'
  BY StepTypeOK, StepStackInv, StepHooksInv, StepFramesInv, StepCleanInv DEF IInv

LEMMA InitIInv == Init => IInv
  BY InitTypeOK, InitStackInv, InitHooksInv, InitCleanInv DEF IInv

\* A program in which no call of the driver fails and no block goes on after the
\* server aborted its transaction sees in the database what finished blocks were
\* told is kept, and no more: nothing of a block that raised or is still open.
THEOREM DurableIsKeptCorrect ==
  ASSUME Faults = {}
  PROVE  Spec => []DurableIsKept
<1>1. IInv => DurableIsKept
  BY DEF IInv, CleanInv, DurableIsKept, Kept
<1> QED
  BY <1>1, InitIInv, StepIInv, PTL DEF Spec

\* It finds the connection without session and hooks between its blocks.
THEOREM CleanBetweenBlocksCorrect ==
  ASSUME Faults = {}
  PROVE  Spec => []CleanBetweenBlocks
<1>1. IInv => CleanBetweenBlocks
  BY DEF IInv, CleanInv, CleanBetweenBlocks
<1> QED
  BY <1>1, InitIInv, StepIInv, PTL DEF Spec

-----------------------------------------------------------------------------
(* The promise is kept.                                                    *)

Due(frames) == UNION {Range(frames[i].queue) : i \in DOMAIN frames}

\* What the promise calls buffered, hooks and due.
Seen == <<in_atomic_block_mongo, Current, Range(run_on_commit), Due(stack), durable, ran>>

LEMMA DueIsDue == Due(stack) = UNION {Range(q) : q \in Queues}
  BY DEF Due, Queues

LEMMA PushDue ==
  ASSUME NEW frames \in Seq(Frame), NEW f \in Frame
  PROVE  Due(Append(frames, f)) = Due(frames) \cup Range(f.queue)
<1>1. /\ DOMAIN frames = 1 .. Len(frames) /\ Len(frames) \in Nat
      /\ DOMAIN Append(frames, f) = 1 .. Len(frames) + 1
      /\ \A i \in 1 .. Len(frames) : Append(frames, f)[i] = frames[i]
      /\ Append(frames, f)[Len(frames) + 1] = f
  OBVIOUS
<1>2. \A i \in 1 .. Len(frames) + 1 : i \in 1 .. Len(frames) \/ i = Len(frames) + 1
  BY <1>1
<1>3. \A i \in 1 .. Len(frames) : i \in 1 .. Len(frames) + 1
  BY <1>1
<1>4. Len(frames) + 1 \in 1 .. Len(frames) + 1
  BY <1>1
<1> QED
  BY <1>1, <1>2, <1>3, <1>4 DEF Due

LEMMA PopDue ==
  ASSUME TypeOK, stack # <<>>
  PROVE  Due(stack) = Due(Below) \cup Range(Top.queue)
<1>1. Below \in Seq(Frame) /\ Top \in Frame /\ stack = Append(Below, Top)
  <2>1. /\ Below \in Seq(Frame) /\ Top \in Frame /\ Len(Below) = Len(stack) - 1
        /\ \A i \in 1 .. Len(stack) - 1 : Below[i] = stack[i]
    BY BelowType DEF TypeOK
  <2>2. stack \in Seq(Frame) /\ Len(stack) \in Nat \ {0} /\ Top = stack[Len(stack)]
    BY DEF TypeOK, Top
  <2>3. Append(Below, Top) \in Seq(Frame) /\ Len(Append(Below, Top)) = Len(stack)
    BY <2>1, <2>2
  <2>4. \A i \in 1 .. Len(stack) : Append(Below, Top)[i] = stack[i]
    BY <2>1, <2>2
  <2> QED
    BY <2>1, <2>2, <2>3, <2>4
<1> QED
  BY <1>1, PushDue

\* Pushing, popping and replacing frames.
LEMMA DueSteps ==
  ASSUME TypeOK
  PROVE  /\ \A f \in Frame :
              stack' = Append(stack, f) /\ f.queue = <<>> => UNCHANGED Due(stack)
         /\ stack # <<>> /\ stack' = Below =>
              /\ Due(stack)' \subseteq Due(stack)
              /\ Top.queue = <<>> => UNCHANGED Due(stack)
         /\ \A f \in Frame : stack # <<>> /\ stack' = Append(Below, f) =>
              Due(stack)' = Due(Below) \cup Range(f.queue)
<1>1. Range(<<>>) = {}
  BY NoQueue
<1>2. stack \in Seq(Frame) /\ (stack # <<>> => Below \in Seq(Frame))
  BY BelowType DEF TypeOK
<1>3. Due(stack)' = Due(stack')
  BY DEF Due
<1>4. ASSUME NEW f \in Frame, stack' = Append(stack, f), f.queue = <<>>
      PROVE  UNCHANGED Due(stack)
  BY <1>1, <1>2, <1>3, <1>4, PushDue
<1>5. ASSUME stack # <<>>, stack' = Below
      PROVE  /\ Due(stack)' \subseteq Due(stack)
             /\ Top.queue = <<>> => UNCHANGED Due(stack)
  BY <1>1, <1>3, <1>5, PopDue
<1>6. ASSUME NEW f \in Frame, stack # <<>>, stack' = Append(Below, f)
      PROVE  Due(stack)' = Due(Below) \cup Range(f.queue)
  BY <1>2, <1>3, <1>6, PushDue
<1> QED
  BY <1>4, <1>5, <1>6

\* The steps of the promise in the variables of the backend.
LEMMA PromiseSteps ==
  /\ UNCHANGED Seen => UNCHANGED Promise!vars
  /\ /\ ~in_atomic_block_mongo /\ in_atomic_block_mongo' = TRUE
     /\ UNCHANGED <<Current, Range(run_on_commit), Due(stack), durable, ran>>
     => Promise!Begin
  /\ /\ in_atomic_block_mongo /\ in_atomic_block_mongo' = FALSE
     /\ Current' = {} /\ Range(run_on_commit)' = {}
     /\ UNCHANGED <<durable, Due(stack), ran>>
     => Promise!RollBack
  /\ /\ in_atomic_block_mongo /\ in_atomic_block_mongo' = FALSE
     /\ Current' = {} /\ Range(run_on_commit)' = {} /\ durable' = durable \cup Current
     /\ Due(stack)' = Due(stack) \cup Range(run_on_commit) /\ UNCHANGED ran
     => Promise!Commit
  /\ /\ ~in_atomic_block_mongo /\ Due(stack)' \subseteq Due(stack)
     /\ UNCHANGED <<in_atomic_block_mongo, Current, Range(run_on_commit), durable, ran>>
     => Promise!DropHooks
  /\ /\ in_atomic_block_mongo' = FALSE
     /\ Current' = {} /\ Range(run_on_commit)' = {} /\ Due(stack)' = {}
     /\ UNCHANGED <<durable, ran>>
     => Promise!Crash
<1> USE DueIsDue DEF Current
<1>0. Due(stack)' = UNION {Range(q) : q \in Queues'}
  BY DEF Due, Queues
<1>1. UNCHANGED Seen => UNCHANGED Promise!vars
  BY <1>0 DEF Seen, Promise!vars
<1>2. /\ ~in_atomic_block_mongo /\ in_atomic_block_mongo' = TRUE
      /\ UNCHANGED <<Current, Range(run_on_commit), Due(stack), durable, ran>>
      => Promise!Begin
  BY <1>0 DEF Promise!Begin
<1>3. /\ in_atomic_block_mongo /\ in_atomic_block_mongo' = FALSE
      /\ Current' = {} /\ Range(run_on_commit)' = {}
      /\ UNCHANGED <<durable, Due(stack), ran>>
      => Promise!RollBack
  BY <1>0 DEF Promise!RollBack, Promise!End
<1>4. /\ in_atomic_block_mongo /\ in_atomic_block_mongo' = FALSE
      /\ Current' = {} /\ Range(run_on_commit)' = {} /\ durable' = durable \cup Current
      /\ Due(stack)' = Due(stack) \cup Range(run_on_commit) /\ UNCHANGED ran
      => Promise!Commit
  BY <1>0 DEF Promise!Commit, Promise!End
<1>5. /\ ~in_atomic_block_mongo /\ Due(stack)' \subseteq Due(stack)
      /\ UNCHANGED <<in_atomic_block_mongo, Current, Range(run_on_commit), durable, ran>>
      => Promise!DropHooks
  BY <1>0 DEF Promise!DropHooks
<1>6. /\ in_atomic_block_mongo' = FALSE
      /\ Current' = {} /\ Range(run_on_commit)' = {} /\ Due(stack)' = {}
      /\ UNCHANGED <<durable, ran>>
      => Promise!Crash
  BY <1>0 DEF Promise!Crash
<1> QED
  BY <1>1, <1>2, <1>3, <1>4, <1>5, <1>6

LEMMA PromiseDoes ==
  /\ \A w \in Write :
       /\ w \notin Current \cup durable
       /\ IF in_atomic_block_mongo
          THEN Current' = Current \cup {w} /\ UNCHANGED durable
          ELSE durable' = durable \cup {w} /\ UNCHANGED Current
       /\ UNCHANGED <<in_atomic_block_mongo, Range(run_on_commit), Due(stack), ran>>
       => Promise!DoWrite(w)
  /\ \A h \in Hook :
       /\ h \notin Range(run_on_commit) \cup Due(stack) \cup ran
       /\ IF in_atomic_block_mongo
          THEN Range(run_on_commit)' = Range(run_on_commit) \cup {h} /\ UNCHANGED ran
          ELSE ran' = ran \cup {h} /\ UNCHANGED Range(run_on_commit)
       /\ UNCHANGED <<in_atomic_block_mongo, Current, Due(stack), durable>>
       => Promise!Register(h)
  /\ \A h \in Hook :
       /\ ~in_atomic_block_mongo /\ h \in Due(stack)
       /\ Due(stack)' = Due(stack) \ {h} /\ ran' = ran \cup {h}
       /\ UNCHANGED <<in_atomic_block_mongo, Current, Range(run_on_commit), durable>>
       => Promise!CallHook(h)
<1>0. Due(stack)' = UNION {Range(q) : q \in Queues'}
  BY DEF Due, Queues
<1> USE <1>0, DueIsDue DEF Current
<1>1. ASSUME NEW w \in Write, w \notin Current \cup durable,
             IF in_atomic_block_mongo
             THEN Current' = Current \cup {w} /\ UNCHANGED durable
             ELSE durable' = durable \cup {w} /\ UNCHANGED Current,
             UNCHANGED <<in_atomic_block_mongo, Range(run_on_commit), Due(stack), ran>>
      PROVE  Promise!DoWrite(w)
  BY <1>1 DEF Promise!DoWrite
<1>2. ASSUME NEW h \in Hook, h \notin Range(run_on_commit) \cup Due(stack) \cup ran,
             IF in_atomic_block_mongo
             THEN Range(run_on_commit)' = Range(run_on_commit) \cup {h} /\ UNCHANGED ran
             ELSE ran' = ran \cup {h} /\ UNCHANGED Range(run_on_commit),
             UNCHANGED <<in_atomic_block_mongo, Current, Due(stack), durable>>
      PROVE  Promise!Register(h)
  BY <1>2 DEF Promise!Register
<1>3. ASSUME NEW h \in Hook, ~in_atomic_block_mongo, h \in Due(stack),
             Due(stack)' = Due(stack) \ {h}, ran' = ran \cup {h},
             UNCHANGED <<in_atomic_block_mongo, Current, Range(run_on_commit), durable>>
      PROVE  Promise!CallHook(h)
  BY <1>3 DEF Promise!CallHook
<1> QED
  BY <1>1, <1>2, <1>3

\* The hook that is taken from the front leaves the others.
LEMMA HeadAndTail ==
  ASSUME NEW q \in Seq(Hook), q # <<>>
  PROVE  Range(q) = {Head(q)} \cup Range(Tail(q))
<1>1. /\ Len(q) \in Nat \ {0} /\ DOMAIN q = 1 .. Len(q)
      /\ DOMAIN Tail(q) = 1 .. Len(q) - 1
      /\ \A i \in 1 .. Len(q) - 1 : Tail(q)[i] = q[i + 1]
      /\ Head(q) = q[1]
  OBVIOUS
<1>2. \A i \in 1 .. Len(q) : i = 1 \/ \E j \in 1 .. Len(q) - 1 : i = j + 1
  <2> SUFFICES ASSUME NEW i \in 1 .. Len(q), i # 1 PROVE \E j \in 1 .. Len(q) - 1 : i = j + 1
    OBVIOUS
  <2>1. i - 1 \in 1 .. Len(q) - 1 /\ i = (i - 1) + 1
    BY <1>1
  <2> QED
    BY <2>1
<1>3. \A j \in 1 .. Len(q) - 1 : j + 1 \in 1 .. Len(q)
  BY <1>1
<1>4. 1 \in 1 .. Len(q)
  BY <1>1
<1>5. Range(q) = {q[i] : i \in 1 .. Len(q)}
  BY <1>1 DEF Range
<1>6. Range(Tail(q)) = {q[j + 1] : j \in 1 .. Len(q) - 1}
  BY <1>1 DEF Range
<1>7. Range(q) \subseteq {Head(q)} \cup Range(Tail(q))
  <2> SUFFICES ASSUME NEW i \in 1 .. Len(q) PROVE q[i] \in {Head(q)} \cup Range(Tail(q))
    BY <1>5
  <2>1. CASE i = 1
    BY <1>1, <2>1
  <2>2. ASSUME NEW j \in 1 .. Len(q) - 1, i = j + 1 PROVE q[i] \in Range(Tail(q))
    BY <1>6, <2>2
  <2> QED
    BY <1>2, <2>1, <2>2
<1>8. {Head(q)} \cup Range(Tail(q)) \subseteq Range(q)
  BY <1>1, <1>3, <1>4, <1>5, <1>6
<1> QED
  BY <1>7, <1>8

\* In which place a hook waits.
LEMMA WhereHooksAre ==
  ASSUME TypeOK, HooksInv
  PROVE  /\ Due(stack) \subseteq 1 .. nextHook - 1
         /\ Range(run_on_commit) \cup ran \subseteq 1 .. nextHook - 1
         /\ stack # <<>> => Range(Top.queue) \cap Due(Below) = {}
<1>1. Due(stack) \subseteq 1 .. nextHook - 1
  BY DEF HooksInv, QueuesInv, Due
<1>2. Range(run_on_commit) \cup ran \subseteq 1 .. nextHook - 1
  BY DEF HooksInv, QueuesInv
<1>3. stack # <<>> => Range(Top.queue) \cap Due(Below) = {}
  BY TopQueue DEF Due
<1> QED
  BY <1>1, <1>2, <1>3

\* Each step of the backend is one of the promise, or none.
LEMMA StepKeepsPromise ==
  ASSUME Faults = {}
  PROVE  IInv /\ [Next]_vars => [Promise!Next]_(Promise!vars)
<1> SUFFICES ASSUME IInv, [Next]_vars PROVE Promise!Next \/ UNCHANGED Promise!vars
  OBVIOUS
<1>i. TypeOK /\ StackInv /\ HooksInv /\ FramesInv /\ CleanInv
  BY DEF IInv
<1>t. /\ stack \in Seq(Frame) /\ run_on_commit \in Seq(Hook)
      /\ fate \in [Write -> Fate] /\ in_atomic_block_mongo \in BOOLEAN
  BY <1>i DEF TypeOK
<1>0. Range(<<>>) = {}
  BY NoQueue
<1>s. ASSUME NEW f \in Fate \ {"current"}, fate' = Settle(f) PROVE Current' = {}
  BY <1>s, <1>t DEF Settle, Current, Fate
<1>k. UNCHANGED fate => UNCHANGED Current
  BY DEF Current
\* A stutter, outside or inside of a block: hooks are dropped only outside, where
\* there are none.
<1>q. ASSUME UNCHANGED <<in_atomic_block_mongo, Current, durable, ran>>,
             UNCHANGED Due(stack),
             \/ UNCHANGED run_on_commit
             \/ ~in_atomic_block_mongo /\ run_on_commit' = <<>>
      PROVE  UNCHANGED Promise!vars
  <2>1. UNCHANGED Range(run_on_commit)
    <3>1. CASE UNCHANGED run_on_commit
      BY <3>1
    <3>2. CASE ~in_atomic_block_mongo /\ run_on_commit' = <<>>
      <4>1. run_on_commit = <<>>
        BY <1>i, <3>2 DEF CleanInv
      <4> QED
        BY <3>2, <4>1
    <3> QED
      BY <1>q, <3>1, <3>2
  <2> QED
    BY <1>q, <2>1, PromiseSteps DEF Seen
<1>d. UNCHANGED stack => UNCHANGED Due(stack)
  BY DEF Due
\* The connection is used: inside of a block it is there.
<1>c. ASSUME UseConnection
      PROVE  \/ UNCHANGED run_on_commit
             \/ ~in_atomic_block_mongo /\ run_on_commit' = <<>>
  BY <1>c, <1>i, <1>t DEF UseConnection, CleanInv
<1>1. CASE EnterInner
  <2>1. UNCHANGED Due(stack)
    BY <1>1, <1>i, BlockType, DueSteps DEF EnterInner, Push, Block
  <2> QED
    BY <1>1, <1>k, <1>q, <2>1 DEF EnterInner
<1>2. CASE EnterOuter
  <2>1. UNCHANGED Due(stack)
    BY <1>2, <1>i, BlockType, DueSteps DEF EnterOuter, Push, Block
  <2>2. run_on_commit = <<>> /\ run_on_commit' = <<>>
    BY <1>2, <1>i DEF EnterOuter, UseConnection, KeepHooks, CleanInv
  <2>3. Promise!Begin
    BY <1>2, <1>k, <2>1, <2>2, PromiseSteps DEF EnterOuter
  <2> QED
    BY <2>3 DEF Promise!Next
<1>3. CASE ExitInner
  <2>1. Top.queue = <<>> /\ stack # <<>> /\ stack' = Below
    BY <1>3, <1>i, PopFrame DEF ExitInner, InFrame
  <2>2. UNCHANGED Due(stack)
    BY <1>i, <2>1, DueSteps
  <2> QED
    BY <1>3, <1>k, <1>q, <2>2 DEF ExitInner
<1>4. CASE ExitError
  <2>1. in_atomic_block_mongo /\ in_atomic_block_mongo' = FALSE
    BY <1>4, <1>i, BlockIsOpen DEF ExitError, LeaveOuter
  <2>2. run_on_commit' = <<>>
    BY <1>4, <1>i, <2>1 DEF ExitError, RollbackMongo, AbortRejected, CleanInv, InTransaction
  <2>3. Current' = {}
    BY <1>4, <1>s DEF ExitError, Fate
  <2>4. Top.queue = <<>> /\ stack # <<>> /\ stack' = Below
    BY <1>4, <1>i, PopFrame DEF ExitError, LeaveOuter, InFrame
  <2>5. UNCHANGED Due(stack)
    BY <1>i, <2>4, DueSteps
  <2>6. UNCHANGED <<durable, ran>>
    BY <1>4 DEF ExitError, LeaveOuter
  <2>7. Promise!RollBack
    BY <1>0, <2>1, <2>2, <2>3, <2>5, <2>6, PromiseSteps
  <2> QED
    BY <2>7 DEF Promise!Next
<1>5. CASE ExitCommit
  <2> DEFINE f == [kind |-> "hooks", queue |-> run_on_commit, hook |-> NoHook]
  <2>1. /\ in_atomic_block_mongo /\ in_atomic_block_mongo' = FALSE
        /\ raising = NoError /\ UNCHANGED ran
    BY <1>5, <1>i, BlockIsOpen DEF ExitCommit, LeaveOuter, Running
  <2>2. run_on_commit' = <<>>
    BY <1>5 DEF ExitCommit, HooksLeft
  <2>3. Current' = {}
    BY <1>5, <1>s DEF ExitCommit, Fate
  <2>4. durable' = durable \cup Current
    BY <1>5, <1>i, <2>1, CommitAddsCurrent DEF ExitCommit
  <2>5. stack # <<>> /\ stack' = Append(Below, f) /\ Top.queue = <<>>
    BY <1>5, <1>i, PopFrame DEF ExitCommit, LeaveOuter, InFrame, Retop, CleanInv
  <2>6. f \in Frame /\ f.queue = run_on_commit
    BY <1>i, FrameTypes
  <2> HIDE DEF f
  <2>7. Due(stack)' = Due(stack) \cup Range(run_on_commit)
    BY <1>0, <1>i, <2>5, <2>6, DueSteps, PopDue
  <2>8. Promise!Commit
    BY <1>0, <2>1, <2>2, <2>3, <2>4, <2>7, PromiseSteps
  <2> QED
    BY <2>8 DEF Promise!Next
<1>6. ~ExitCommitFails
  BY <1>i, CommitAccepted
<1>7. ASSUME NEW w \in Write, Save(w) PROVE Promise!Next
  <2>1. UNCHANGED <<in_atomic_block_mongo, ran, stack>> /\ fate[w] = "new"
    BY <1>7 DEF Save
  <2>2. w \notin Current \cup durable
    BY <1>i, <2>1 DEF Current, Kept, CleanInv
  <2>3. UNCHANGED Range(run_on_commit)
    BY <1>7, <1>c, <1>i DEF Save, CleanInv
  <2>4. CASE in_atomic_block_mongo
    <3>1. Current' = Current \cup {w}
      BY <1>7, <2>4, <1>t DEF Save, Current
    <3>2. UNCHANGED durable
      BY <1>7, <1>i, <2>4 DEF Save, Insert, CleanInv
    <3>3. Promise!DoWrite(w)
      BY <1>d, <2>1, <2>2, <2>3, <2>4, <3>1, <3>2, PromiseDoes
    <3> QED
      BY <3>3 DEF Promise!Next
  <2>5. CASE ~in_atomic_block_mongo
    <3>1. UNCHANGED Current
      BY <1>7, <2>1, <2>5, <1>t DEF Save, Current
    <3>2. durable' = durable \cup {w}
      BY <1>7, <1>i, <2>5 DEF Save, Insert, CleanInv, InTransaction, NoSession
    <3>3. Promise!DoWrite(w)
      BY <1>d, <2>1, <2>2, <2>3, <2>5, <3>1, <3>2, PromiseDoes
    <3> QED
      BY <3>3 DEF Promise!Next
  <2> QED
    BY <2>4, <2>5
<1>8. CASE SaveFails
  BY <1>8, <1>c, <1>d, <1>k, <1>q DEF SaveFails, RefusedOperation
<1>9. CASE Raise \/ Catch
  BY <1>9, <1>d, <1>k, <1>q DEF Raise, Catch, wrapper
\* A hook that was not registered before.
<1>10. ASSUME nextHook \in Hook
       PROVE  nextHook \notin Range(run_on_commit) \cup Due(stack) \cup ran
  <2>1. nextHook \notin 1 .. nextHook - 1
    BY <1>10 DEF Hook
  <2> QED
    BY <1>i, <2>1, WhereHooksAre
<1>11. CASE OnCommitDeferred
  <2>1. in_atomic_block_mongo /\ nextHook \in Hook
    BY <1>11 DEF OnCommitDeferred, Defers
  <2>2. Range(run_on_commit)' = Range(run_on_commit) \cup {nextHook}
    <3>1. Ordered(run_on_commit) /\ Range(run_on_commit) \subseteq 1 .. nextHook - 1
      BY <1>i DEF HooksInv, QueuesInv
    <3>2. Range(Append(run_on_commit, nextHook)) = Range(run_on_commit) \cup {nextHook}
      BY <1>t, <2>1, <3>1, AppendOrdered
    <3>3. run_on_commit' = Append(run_on_commit, nextHook)
      BY <1>11 DEF OnCommitDeferred, HooksWithNext
    <3>4. Range(run_on_commit)' = Range(run_on_commit')
      BY DEF Range
    <3> QED
      BY <3>2, <3>3, <3>4
  <2>3. UNCHANGED <<in_atomic_block_mongo, durable, ran, stack, fate>>
    BY <1>11 DEF OnCommitDeferred
  <2>4. Promise!Register(nextHook)
    BY <1>10, <1>d, <1>k, <2>1, <2>2, <2>3, PromiseDoes
  <2> QED
    BY <2>1, <2>4 DEF Promise!Next
<1>12. CASE OnCommitNow
  <2> DEFINE f == [kind |-> "on_commit", queue |-> <<>>, hook |-> nextHook]
  <2>1. ~in_atomic_block_mongo /\ nextHook \in Hook /\ ran' = ran \cup {nextHook}
    BY <1>12 DEF OnCommitNow, Defers
  <2>2. f \in Frame /\ f.queue = <<>> /\ stack' = Append(stack, f)
    BY <1>12, <1>i, FrameTypes DEF OnCommitNow, Push
  <2> HIDE DEF f
  <2>3. UNCHANGED Due(stack)
    BY <1>i, <2>2, DueSteps
  <2>4. UNCHANGED <<in_atomic_block_mongo, durable, run_on_commit, fate>>
    BY <1>12 DEF OnCommitNow, wrapper
  <2>5. UNCHANGED Range(run_on_commit)
    BY <2>4
  <2>6. Promise!Register(nextHook)
    BY <1>10, <1>k, <2>1, <2>3, <2>4, <2>5, PromiseDoes
  <2> QED
    BY <2>1, <2>6 DEF Promise!Next
<1>13. CASE NextHook
  <2> DEFINE h == Head(Top.queue)
             f == [kind |-> "hooks", queue |-> Tail(Top.queue), hook |-> h]
  <2>1. /\ stack # <<>> /\ Top.queue # <<>> /\ stack' = Append(Below, f)
        /\ ran' = ran \cup {h} /\ ~in_atomic_block_mongo
        /\ UNCHANGED <<in_atomic_block_mongo, run_on_commit, fate, durable>>
    <3>1. InFrame({"hooks", "on_commit"})
      BY <1>13 DEF NextHook, InFrame
    <3> QED
      BY <1>13, <1>i, <3>1, HookFrameOnTop DEF NextHook, InFrame, Retop, wrapper
  <2>2. Top.queue \in Seq(Hook)
    BY <1>i, <2>1, TopQueue DEF Frame
  <2>3. h \in Hook /\ f \in Frame /\ f.queue = Tail(Top.queue)
    BY <2>1, <2>2 DEF Frame
  <2>4. /\ h \in Range(Top.queue)
        /\ Range(Tail(Top.queue)) = Range(Top.queue) \ {h}
    BY <1>i, <2>1, <2>2, TopQueue, TailOrdered, HeadAndTail
  <2> HIDE DEF f, h
  <2>5. Due(stack)' = Due(stack) \ {h} /\ h \in Due(stack)
    BY <1>i, <2>1, <2>3, <2>4, DueSteps, PopDue, WhereHooksAre
  <2>6. UNCHANGED <<Current, Range(run_on_commit)>>
    BY <1>k, <2>1
  <2>7. Promise!CallHook(h)
    BY <2>1, <2>3, <2>5, <2>6, PromiseDoes
  <2> QED
    BY <2>3, <2>7 DEF Promise!Next
<1>14. CASE HooksDone
  <2>1. stack # <<>> /\ Top.queue = <<>> /\ stack' = Below
    BY <1>14 DEF HooksDone, InFrame
  <2>2. UNCHANGED Due(stack)
    BY <1>i, <2>1, DueSteps
  <2> QED
    BY <1>14, <1>k, <1>q, <2>2 DEF HooksDone, wrapper
<1>15. CASE HookReturns
  <2>1. UNCHANGED Due(stack)
    <3>1. stack # <<>>
      BY <1>15 DEF HookReturns, InFrame
    <3>2. CASE Top.kind = "hooks"
      <4> DEFINE f == [Top EXCEPT !.hook = NoHook]
      <4>1. f \in Frame /\ f.queue = Top.queue
        BY <1>i, <3>1, TopQueue DEF Frame
      <4>2. stack' = Append(Below, f)
        BY <1>15, <3>2 DEF HookReturns, Retop
      <4> HIDE DEF f
      <4> QED
        BY <1>i, <3>1, <4>1, <4>2, DueSteps, PopDue
    <3>3. CASE Top.kind # "hooks"
      <4>1. Top.queue = <<>> /\ stack' = Below
        BY <1>15, <1>i, <3>1, <3>3, PopFrame DEF HookReturns
      <4> QED
        BY <1>i, <3>1, <4>1, DueSteps
    <3> QED
      BY <3>2, <3>3
  <2> QED
    BY <1>15, <1>k, <1>q, <2>1 DEF HookReturns, wrapper
<1>16. CASE HookRaises
  <2>1. ~in_atomic_block_mongo /\ run_on_commit = <<>>
    BY <1>16, <1>i, HookFrameOnTop DEF HookRaises, CleanInv
  <2>2. run_on_commit' = <<>>
    BY <1>16, <2>1 DEF HookRaises, RollbackMongo
  <2>3. Due(stack)' \subseteq Due(stack)
    BY <1>16, <1>i, DueSteps DEF HookRaises, InFrame
  <2>4. UNCHANGED <<in_atomic_block_mongo, fate, durable, ran>>
    BY <1>16 DEF HookRaises
  <2>5. UNCHANGED Range(run_on_commit)
    BY <2>1, <2>2
  <2>6. Promise!DropHooks
    BY <1>k, <2>1, <2>3, <2>4, <2>5, PromiseSteps
  <2> QED
    BY <2>6 DEF Promise!Next
<1>17. ~EnterFails /\ ~EnterDjango /\ ~ExitDjango
  BY <1>i, PopFrame DEF EnterFails, EnterDjango, ExitDjango, InFrame
<1>18. CASE ClosePool
  <2>1. ~in_atomic_block_mongo /\ Current = {} /\ run_on_commit' = <<>>
    BY <1>18, <1>i DEF ClosePool, CleanInv
  <2>2. Current' = {}
    <3>1. fate' = Settle("undone") /\ "undone" \in Fate \ {"current"}
      BY <1>18 DEF ClosePool, Fate
    <3> QED
      BY <1>s, <3>1
  <2>3. UNCHANGED <<in_atomic_block_mongo, durable, ran, stack>>
    BY <1>18 DEF ClosePool
  <2> QED
    BY <1>d, <1>q, <2>1, <2>2, <2>3
<1>19. CASE Restart
  <2>1. /\ in_atomic_block_mongo' = FALSE /\ run_on_commit' = <<>> /\ stack' = <<>>
        /\ UNCHANGED <<durable, ran>>
    BY <1>19 DEF Restart
  <2>2. Current' = {}
    <3>1. fate' = Settle("unresolved") /\ "unresolved" \in Fate \ {"current"}
      BY <1>19 DEF Restart, Fate
    <3> QED
      BY <1>s, <3>1
  <2>3. Due(stack)' = {}
    BY <2>1 DEF Due
  <2>4. Range(run_on_commit)' = {}
    BY <1>0, <2>1
  <2>5. Promise!Crash
    BY <2>1, <2>2, <2>3, <2>4, PromiseSteps
  <2> QED
    BY <2>5 DEF Promise!Next
<1>20. CASE UNCHANGED vars
  BY <1>20, <1>d, <1>k, <1>q DEF vars, wrapper
<1> QED
  BY <1>1, <1>2, <1>3, <1>4, <1>5, <1>6, <1>7, <1>8, <1>9, <1>11, <1>12, <1>13, <1>14,
     <1>15, <1>16, <1>17, <1>18, <1>19, <1>20 DEF Next

LEMMA InitKeepsPromise == Init => Promise!Init
<1> SUFFICES ASSUME Init PROVE Promise!Init
  OBVIOUS
<1>1. {w \in Write : fate[w] = "current"} = {} /\ Range(run_on_commit) = {}
  BY NoQueue DEF Init, WrapperInit
<1>2. UNION {Range(q) : q \in Queues} = {}
  BY DEF Init, Queues
<1> QED
  BY <1>1, <1>2 DEF Promise!Init, Init, WrapperInit

\* Without Faults the backend implements what docs/topics/transactions.rst says:
\* blocks become durable as a whole or not at all, and every hook is called at
\* most once, after its block was committed and never if it was not.
THEOREM KeepsPromiseCorrect ==
  ASSUME Faults = {}
  PROVE  Spec => KeepsPromise
  BY InitIInv, StepIInv, InitKeepsPromise, StepKeepsPromise, PTL
  DEF Spec, KeepsPromise, Promise!Spec
=============================================================================
