---------------------------- MODULE AtomicPromise ----------------------------
(***************************************************************************)
(* What docs/topics/transactions.rst promises of atomic() and on_commit(): *)
(* the writes of a block become durable together or not at all, inner      *)
(* blocks have no effect, and the hooks of a block are called, each at     *)
(* most once, after it committed and never if it did not.                  *)
(***************************************************************************)
CONSTANTS Write, Hook

VARIABLES
  open,      \* an atomic block is open
  buffered,  \* its writes
  hooks,     \* the hooks registered in it
  due,       \* hooks of committed blocks that were not called yet
  durable,   \* what readers see
  ran        \* the hooks that were called

vars == <<open, buffered, hooks, due, durable, ran>>

TypeOK ==
  /\ open \in BOOLEAN
  /\ buffered \subseteq Write
  /\ hooks \subseteq Hook
  /\ due \subseteq Hook
  /\ durable \subseteq Write
  /\ ran \subseteq Hook

Init ==
  /\ open = FALSE
  /\ buffered = {} /\ hooks = {} /\ due = {} /\ durable = {} /\ ran = {}

Begin ==
  /\ ~open
  /\ open' = TRUE
  /\ UNCHANGED <<buffered, hooks, due, durable, ran>>

\* A write outside a block is its own transaction.
DoWrite(w) ==
  /\ w \notin buffered \cup durable
  /\ IF open THEN buffered' = buffered \cup {w} /\ UNCHANGED durable
             ELSE durable' = durable \cup {w} /\ UNCHANGED buffered
  /\ UNCHANGED <<open, hooks, due, ran>>

Register(h) ==
  /\ h \notin hooks \cup due \cup ran
  /\ IF open THEN hooks' = hooks \cup {h} /\ UNCHANGED ran
             ELSE ran' = ran \cup {h} /\ UNCHANGED hooks
  /\ UNCHANGED <<open, buffered, due, durable>>

End(nowDurable, nowDue) ==
  /\ open
  /\ open' = FALSE
  /\ buffered' = {}
  /\ hooks' = {}
  /\ durable' = nowDurable
  /\ due' = nowDue
  /\ UNCHANGED ran

Commit == End(durable \cup buffered, due \cup hooks)

RollBack == End(durable, due)

CallHook(h) ==
  /\ ~open
  /\ h \in due
  /\ due' = due \ {h}
  /\ ran' = ran \cup {h}
  /\ UNCHANGED <<open, buffered, hooks, durable>>

\* An exception in a hook keeps the hooks after it from being called.
DropHooks ==
  /\ ~open
  /\ due' \in SUBSET due
  /\ UNCHANGED <<open, buffered, hooks, durable, ran>>

\* The process dies: an open block is rolled back, hooks are forgotten.
Crash ==
  /\ open' = FALSE
  /\ buffered' = {} /\ hooks' = {} /\ due' = {}
  /\ UNCHANGED <<durable, ran>>

Next ==
  \/ Begin \/ Commit \/ RollBack \/ DropHooks \/ Crash
  \/ \E w \in Write : DoWrite(w)
  \/ \E h \in Hook : Register(h) \/ CallHook(h)

Spec == Init /\ [][Next]_vars
=============================================================================
