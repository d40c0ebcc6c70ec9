---------------------------- MODULE ClientSession ----------------------------
(***************************************************************************)
(* The driver's ClientSession and the server transaction behind it, as the *)
(* backend uses them: DatabaseWrapper.session is handed to every insert,   *)
(* update, delete and aggregate.  Neither is under src/; both are modelled *)
(* from the calls the backend makes and the outcomes it can see.           *)
(***************************************************************************)
CONSTANT Write          \* the documents a program may write, each at most once

VARIABLES
  session,              \* DatabaseWrapper.session: NoSession or the driver's state
  txn,                  \* the server transaction of that session
  durable               \* the writes every later reader sees

NoSession == "no session"

\* The driver's transaction states the backend can leave a session in.  A
\* session that was aborted, or committed while empty, is ended in the same
\* call and is never seen again.
SessionState == {"none", "starting", "in_progress", "committed"}

\* "open" holds uncommitted writes; "aborted" is what a failed operation
\* leaves: the server has discarded the writes and refuses everything else.
Txn == [status : {"none", "open", "committed", "aborted"}, writes : SUBSET Write]

NoTxn == [status |-> "none", writes |-> {}]

InTransaction == session \in {"starting", "in_progress"}

SessionTypeOK ==
  /\ session \in SessionState \cup {NoSession}
  /\ txn \in Txn
  /\ durable \subseteq Write

SessionInit ==
  /\ session = NoSession
  /\ txn = NoTxn
  /\ durable = {}

-----------------------------------------------------------------------------

\* The first operation after commit or abort takes the session out of its
\* transaction: the operation, and all that follow, run in autocommit mode.
LeaveTransaction ==
  /\ session' = IF session = NoSession THEN NoSession ELSE "none"
  /\ txn' = NoTxn

\* An insert the server accepts.
InsertWithoutSession(w) ==   \* mutant: session= was forgotten
  /\ UNCHANGED <<session, txn>>
  /\ durable' = durable \cup {w}

Insert(w) ==
  \/ /\ InTransaction
     /\ txn.status # "aborted"
     /\ session' = "in_progress"
     /\ txn' = [status |-> "open", writes |-> txn.writes \cup {w}]
     /\ UNCHANGED durable
  \/ /\ ~InTransaction
     /\ LeaveTransaction
     /\ durable' = durable \cup {w}

\* An operation the server refuses (a duplicate key, a write conflict): inside
\* a transaction the server aborts the transaction, but the driver does not
\* know and still calls it in progress.
RefusedOperation ==
  /\ UNCHANGED durable
  /\ \/ /\ InTransaction
        /\ session' = "in_progress"
        /\ txn' = [status |-> "aborted", writes |-> {}]
     \/ /\ ~InTransaction
        /\ LeaveTransaction

-----------------------------------------------------------------------------

\* commit_transaction() has something to send, or to send again: the driver
\* treats a second commit of the same transaction as a retry.
CanCommit == session \in {"in_progress", "committed"}

\* session.commit_transaction() returns; an empty transaction sends nothing.
CommitReturns ==
  \/ /\ session = "starting"
     /\ UNCHANGED durable
  \/ /\ CanCommit
     /\ txn.status # "aborted"
     /\ durable' = durable \cup txn.writes

\* session.commit_transaction() raises.  The driver marks the session
\* committed whatever happened: the server may have applied the commit, may
\* never have seen it, or may have aborted the transaction.
CommitRaises ==
  /\ CanCommit
  /\ session' = "committed"
  /\ \/ /\ txn.status = "open"
        /\ txn' = [txn EXCEPT !.status = "committed"]
        /\ durable' = durable \cup txn.writes
     \/ /\ txn.status = "open"
        /\ txn' = [status |-> "aborted", writes |-> {}]
        /\ UNCHANGED durable
     \/ UNCHANGED <<txn, durable>>

\* Both calls refuse a session that is in no transaction, abort also one
\* whose commit was tried: InvalidOperation, and nothing changes.
CommitRejected == session = "none"

AbortRejected == session \in {"none", "committed"}
=============================================================================
