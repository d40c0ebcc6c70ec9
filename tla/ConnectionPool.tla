---------------------------- MODULE ConnectionPool ----------------------------
(***************************************************************************)
(* The MongoClient of one database alias.  Every thread has a              *)
(* DatabaseWrapper of its own for the alias; all of them share the client  *)
(* in DatabaseWrapper._connection_pools (base.py).  No lock protects that  *)
(* dictionary: each of its operations is atomic, and threads interleave    *)
(* between them.                                                           *)
(***************************************************************************)
EXTENDS Functions

CONSTANTS
  Thread,
  Client,               \* bound: the MongoClients that are ever made
  NoClient

ASSUME ConnectionPoolAssumption == NoClient \notin Client

VARIABLES
  pool,                 \* _connection_pools[alias], or NoClient
  made,                 \* the clients made so far
  open,                 \* those that close() was not called on
  connection,           \* DatabaseWrapper.connection of each thread
  pc,                   \* the step of connect() or close_pool() it is at
  conn,                 \* the client that call is about
  closers               \* the threads that ever call close_pool()

vars == <<pool, made, open, connection, pc, conn, closers>>

Step == {"idle", "make", "publish", "look up", "unlist", "close"}

TypeOK ==
  /\ pool \in Client \cup {NoClient}
  /\ made \subseteq Client
  /\ open \subseteq made
  /\ connection \in [Thread -> Client \cup {NoClient}]
  /\ pc \in [Thread -> Step]
  /\ conn \in [Thread -> Client \cup {NoClient}]
  /\ closers \subseteq Thread

Init ==
  /\ pool = NoClient
  /\ made = {}
  /\ open = {}
  /\ connection = [t \in Thread |-> NoClient]
  /\ pc = [t \in Thread |-> "idle"]
  /\ conn = [t \in Thread |-> NoClient]
  /\ closers \in SUBSET Thread

Goto(t, step) == pc' = [pc EXCEPT ![t] = step]

-----------------------------------------------------------------------------
(* get_new_connection(), called by the first query of a thread.            *)

\* `if self.alias not in self._connection_pools`
Connect(t) ==
  /\ pc[t] = "idle"
  /\ connection[t] = NoClient
  /\ Goto(t, IF pool = NoClient THEN "make" ELSE "look up")
  /\ UNCHANGED <<pool, made, open, connection, conn>>

MakeClient(t) ==
  /\ pc[t] = "make"
  /\ \E c \in Client \ made :
       /\ made' = made \cup {c}
       /\ open' = open \cup {c}
       /\ conn' = [conn EXCEPT ![t] = c]
  /\ Goto(t, "publish")
  /\ UNCHANGED <<pool, connection>>

PoolOverwritten(c) == c   \* mutant: an assignment in place of setdefault()
PoolNotSet(c) == pool     \* mutant: get() in place of setdefault()

\* What setdefault() leaves in the dictionary.
PoolWith(c) == IF pool = NoClient THEN c ELSE pool

Publish(t) ==
  /\ pc[t] = "publish"
  /\ pool' = PoolWith(conn[t])
  /\ Goto(t, "look up")
  /\ UNCHANGED <<made, open, connection, conn>>

PoolOrOwn(t) == IF conn[t] = NoClient THEN pool ELSE conn[t]  \* mutant: return conn

\* `return self._connection_pools[self.alias]`
LookedUp(t) == pool

\* A KeyError leaves the wrapper without a connection.
LookUp(t) ==
  /\ pc[t] = "look up"
  /\ connection' = [connection EXCEPT ![t] = LookedUp(t)]
  /\ conn' = [conn EXCEPT ![t] = NoClient]
  /\ Goto(t, "idle")
  /\ UNCHANGED <<pool, made, open>>

-----------------------------------------------------------------------------
(* close_pool()                                                            *)

\* The wrapper forgets the client ...
ClosePool(t) ==
  /\ t \in closers
  /\ pc[t] = "idle"
  /\ connection[t] # NoClient
  /\ conn' = [conn EXCEPT ![t] = connection[t]]
  /\ connection' = [connection EXCEPT ![t] = NoClient]
  /\ Goto(t, "unlist")
  /\ UNCHANGED <<pool, made, open>>

PoolUntouched == pool   \* mutant: del is forgotten

\* What `del self._connection_pools[self.alias]` leaves: it removes the entry
\* of the alias, whichever client that is by now.
PoolWithout == NoClient

\* ... and so does the dictionary.  A KeyError ends the call here.
Unlist(t) ==
  /\ pc[t] = "unlist"
  /\ pool' = PoolWithout
  /\ IF pool = NoClient
     THEN Goto(t, "idle") /\ conn' = [conn EXCEPT ![t] = NoClient]
     ELSE Goto(t, "close") /\ UNCHANGED conn
  /\ UNCHANGED <<made, open, connection>>

CloseClient(t) ==
  /\ pc[t] = "close"
  /\ open' = open \ {conn[t]}
  /\ conn' = [conn EXCEPT ![t] = NoClient]
  /\ Goto(t, "idle")
  /\ UNCHANGED <<pool, made, connection>>

Next ==
  /\ \E t \in Thread :
       \/ Connect(t) \/ MakeClient(t) \/ Publish(t) \/ LookUp(t)
       \/ ClosePool(t) \/ Unlist(t) \/ CloseClient(t)
  /\ UNCHANGED closers

Spec == Init /\ [][Next]_vars

-----------------------------------------------------------------------------
(* Properties.                                                             *)

\* The dictionary never hands out a client that is closed, however calls of
\* close_pool() and of get_new_connection() interleave: a thread that connects
\* after close_pool() returned gets a client it can use.
PoolHoldsOpenClient == pool # NoClient => pool \in open

\* Why it never does.  The client a thread is about to publish is open and known
\* to that thread alone, and the one a thread is about to close is not in the
\* dictionary; as a client is published by the thread that made it, and once,
\* it does not come back.
PoolInv ==
  /\ TypeOK
  /\ PoolHoldsOpenClient
  /\ {pool} \cup Range(connection) \cup Range(conn) \subseteq made \cup {NoClient}
  /\ \A t \in Thread :
       /\ pc[t] = "publish" =>
            /\ conn[t] \in open
            /\ conn[t] # pool
            /\ \A s \in Thread :
                 conn[t] # connection[s] /\ (s # t => conn[t] # conn[s])
       /\ pc[t] \in {"unlist", "close"} => conn[t] \in Client
       /\ pc[t] = "close" => conn[t] # pool

\* While nobody calls close_pool(), all threads use one client although several
\* may have made one: setdefault() keeps the first and every caller takes that.
OneClient ==
  closers = {} =>
    \A s, t \in Thread :
      connection[s] # NoClient /\ connection[t] # NoClient
        => connection[s] = connection[t]

\* While nobody calls close_pool(), the entry tested for or just set is still
\* there when get_new_connection() returns it: no KeyError.
NoKeyError ==
  closers = {} => \A t \in Thread : pc[t] = "look up" => pool # NoClient
=============================================================================
