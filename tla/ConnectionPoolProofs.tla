------------------------- MODULE ConnectionPoolProofs -------------------------
(***************************************************************************)
(* The invariants of ConnectionPool for any number of threads and clients, *)
(* whichever of the threads call close_pool().                             *)
(***************************************************************************)
EXTENDS ConnectionPool, TLAPS

\* What PoolInv says of thread t.
ThreadInv(t) ==
  /\ connection[t] \in made \cup {NoClient}
  /\ conn[t] \in made \cup {NoClient}
  /\ pc[t] = "publish" =>
       /\ conn[t] \in open
       /\ conn[t] # pool
       /\ \A s \in Thread :
            conn[t] # connection[s] /\ (s # t => conn[t] # conn[s])
  /\ pc[t] \in {"unlist", "close"} => conn[t] \in Client
  /\ pc[t] = "close" => conn[t] # pool

LEMMA PoolInvByThread ==
  PoolInv <=> /\ TypeOK
              /\ PoolHoldsOpenClient
              /\ pool \in made \cup {NoClient}
              /\ \A t \in Thread : ThreadInv(t)
<1>1. ASSUME TypeOK
      PROVE  /\ Range(connection) = {connection[t] : t \in Thread}
             /\ Range(conn) = {conn[t] : t \in Thread}
  BY <1>1 DEF TypeOK, Range
<1> QED
  BY <1>1 DEF PoolInv, ThreadInv

LEMMA InitPoolInv == Init => PoolInv
<1> SUFFICES ASSUME Init PROVE PoolInv
  OBVIOUS
<1>1. TypeOK
  BY DEF Init, TypeOK, Step
<1>2. PoolHoldsOpenClient /\ \A t \in Thread : ThreadInv(t)
  BY DEF Init, PoolHoldsOpenClient, ThreadInv
<1> QED
  BY <1>1, <1>2, PoolInvByThread DEF Init

-----------------------------------------------------------------------------

LEMMA NextPoolInv == PoolInv /\ [Next]_vars => PoolInv'
<1> SUFFICES ASSUME PoolInv, [Next]_vars PROVE PoolInv'
  OBVIOUS
<1>1. TypeOK /\ PoolHoldsOpenClient /\ pool \in made \cup {NoClient}
  BY PoolInvByThread
<1>2. \A t \in Thread : ThreadInv(t)
  BY PoolInvByThread
<1>0. closers' = closers
  BY DEF Next, vars
<1>3. SUFFICES /\ TypeOK'
               /\ PoolHoldsOpenClient'
               /\ pool' \in made' \cup {NoClient}
               /\ \A s \in Thread : ThreadInv(s)'
  <2> SUFFICES ASSUME TypeOK', PoolHoldsOpenClient',
                      pool' \in made' \cup {NoClient},
                      \A s \in Thread : ThreadInv(s)'
               PROVE  PoolInv'
    OBVIOUS
  <2>1. /\ Range(connection)' = {connection'[t] : t \in Thread}
        /\ Range(conn)' = {conn'[t] : t \in Thread}
    BY DEF TypeOK, Range
  <2> QED
    BY <2>1 DEF PoolInv, ThreadInv
<1> USE ConnectionPoolAssumption, <1>0 DEF TypeOK, Step, Goto
<1>4. ASSUME NEW t \in Thread, Connect(t)
      PROVE  /\ TypeOK' /\ PoolHoldsOpenClient'
             /\ pool' \in made' \cup {NoClient}
             /\ \A s \in Thread : ThreadInv(s)'
  BY <1>1, <1>2, <1>4 DEF Connect, ThreadInv, PoolHoldsOpenClient
<1>5. ASSUME NEW t \in Thread, MakeClient(t)
      PROVE  /\ TypeOK' /\ PoolHoldsOpenClient'
             /\ pool' \in made' \cup {NoClient}
             /\ \A s \in Thread : ThreadInv(s)'
  <2>1. PICK c \in Client \ made :
          /\ made' = made \cup {c}
          /\ open' = open \cup {c}
          /\ conn' = [conn EXCEPT ![t] = c]
    BY <1>5 DEF MakeClient
  <2>2. pc' = [pc EXCEPT ![t] = "publish"] /\ UNCHANGED <<pool, connection>>
    BY <1>5 DEF MakeClient
  <2>3. c # NoClient
    OBVIOUS
  <2>4. TypeOK' /\ pool' \in made' \cup {NoClient} /\ PoolHoldsOpenClient'
    BY <1>1, <2>1, <2>2 DEF PoolHoldsOpenClient
  <2>5. ASSUME NEW s \in Thread PROVE ThreadInv(s)'
    <3>1. \A u \in Thread :
            connection[u] \in made \cup {NoClient} /\ conn[u] \in made \cup {NoClient}
      BY <1>2 DEF ThreadInv
    <3>2. CASE s = t
      <4>1. conn'[s] = c /\ pc'[s] = "publish" /\ c \in open' /\ c # pool'
        BY <1>1, <2>1, <2>2, <2>3, <3>2
      <4>2. \A u \in Thread : c # connection'[u] /\ (u # s => c # conn'[u])
        BY <1>1, <2>1, <2>2, <2>3, <3>1, <3>2
      <4> QED
        BY <2>1, <2>2, <3>1, <4>1, <4>2 DEF ThreadInv
    <3>3. CASE s # t
      BY <1>1, <1>2, <2>1, <2>2, <2>3, <3>1, <3>3 DEF ThreadInv
    <3> QED
      BY <3>2, <3>3
  <2> QED
    BY <2>4, <2>5
<1>6. ASSUME NEW t \in Thread, Publish(t)
      PROVE  /\ TypeOK' /\ PoolHoldsOpenClient'
             /\ pool' \in made' \cup {NoClient}
             /\ \A s \in Thread : ThreadInv(s)'
  BY <1>1, <1>2, <1>6 DEF Publish, PoolWith, ThreadInv, PoolHoldsOpenClient
<1>7. ASSUME NEW t \in Thread, LookUp(t)
      PROVE  /\ TypeOK' /\ PoolHoldsOpenClient'
             /\ pool' \in made' \cup {NoClient}
             /\ \A s \in Thread : ThreadInv(s)'
  BY <1>1, <1>2, <1>7 DEF LookUp, LookedUp, ThreadInv, PoolHoldsOpenClient
<1>8. ASSUME NEW t \in Thread, ClosePool(t)
      PROVE  /\ TypeOK' /\ PoolHoldsOpenClient'
             /\ pool' \in made' \cup {NoClient}
             /\ \A s \in Thread : ThreadInv(s)'
  BY <1>1, <1>2, <1>8 DEF ClosePool, ThreadInv, PoolHoldsOpenClient
<1>9. ASSUME NEW t \in Thread, Unlist(t)
      PROVE  /\ TypeOK' /\ PoolHoldsOpenClient'
             /\ pool' \in made' \cup {NoClient}
             /\ \A s \in Thread : ThreadInv(s)'
  <2>1. TypeOK' /\ pool' \in made' \cup {NoClient} /\ PoolHoldsOpenClient'
    BY <1>1, <1>2, <1>9 DEF Unlist, PoolWithout, ThreadInv, PoolHoldsOpenClient
  <2>2. ASSUME NEW s \in Thread PROVE ThreadInv(s)'
    <3>1. ThreadInv(s) /\ ThreadInv(t)
      BY <1>2
    <3>2. CASE s = t
      BY <1>1, <1>2, <1>9, <3>1, <3>2 DEF Unlist, PoolWithout, ThreadInv
    <3>3. CASE s # t
      BY <1>1, <1>2, <1>9, <3>1, <3>3 DEF Unlist, PoolWithout, ThreadInv
    <3> QED
      BY <3>2, <3>3
  <2> QED
    BY <2>1, <2>2
<1>10. ASSUME NEW t \in Thread, CloseClient(t)
      PROVE  /\ TypeOK' /\ PoolHoldsOpenClient'
             /\ pool' \in made' \cup {NoClient}
             /\ \A s \in Thread : ThreadInv(s)'
  BY <1>1, <1>2, <1>10 DEF CloseClient, ThreadInv, PoolHoldsOpenClient
<1>11. CASE UNCHANGED vars
  BY <1>1, <1>2, <1>11 DEF vars, ThreadInv, PoolHoldsOpenClient
<1> QED
  BY <1>4, <1>5, <1>6, <1>7, <1>8, <1>9, <1>10, <1>11 DEF Next

\* The dictionary is never left with a closed client, and no client a thread is
\* about to publish or to close is another's: DatabaseWrapper.close_pool() and
\* get_new_connection() need no lock for that.
THEOREM PoolInvariant == Spec => []PoolInv
<1> QED
  BY InitPoolInv, NextPoolInv, PTL DEF Spec

\* A thread that connects is never handed a client that close_pool() closed.
THEOREM PoolHoldsOpenClientCorrect == Spec => []PoolHoldsOpenClient
<1>1. PoolInv => PoolHoldsOpenClient
  BY DEF PoolInv
<1> QED
  BY <1>1, PoolInvariant, PTL

-----------------------------------------------------------------------------
(* Without close_pool().                                                   *)

\* Every connection is the client in the dictionary, which is never replaced.
SharingInv ==
  closers = {} =>
    \A t \in Thread :
      /\ pc[t] \notin {"unlist", "close"}
      /\ connection[t] \in {NoClient, pool}
      /\ pc[t] = "look up" => pool # NoClient

LEMMA NextSharingInv ==
  ASSUME PoolInv, SharingInv, [Next]_vars
  PROVE  SharingInv'
<1>1. TypeOK /\ \A t \in Thread : ThreadInv(t)
  BY PoolInvByThread
<1>2. \A t \in Thread : pc[t] = "publish" => conn[t] # NoClient
  BY <1>1, ConnectionPoolAssumption DEF ThreadInv, TypeOK
<1> SUFFICES ASSUME closers = {}, closers' = {} PROVE SharingInv'
  BY DEF Next, vars, SharingInv
<1> USE DEF SharingInv, TypeOK, Goto
<1>3. ASSUME NEW t \in Thread, Publish(t) PROVE SharingInv'
  BY <1>1, <1>2, <1>3 DEF Publish, PoolWith
<1>4. ASSUME NEW t \in Thread, LookUp(t) PROVE SharingInv'
  BY <1>1, <1>4 DEF LookUp, LookedUp
<1>5. ASSUME NEW t \in Thread, Connect(t) \/ MakeClient(t) PROVE SharingInv'
  BY <1>1, <1>5 DEF Connect, MakeClient
<1>6. ASSUME NEW t \in Thread, ClosePool(t) \/ Unlist(t) \/ CloseClient(t)
      PROVE  SharingInv'
  BY <1>6 DEF ClosePool, Unlist, CloseClient
<1>7. CASE UNCHANGED vars
  BY <1>7 DEF vars
<1> QED
  BY <1>3, <1>4, <1>5, <1>6, <1>7 DEF Next

LEMMA SharingInvariant == Spec => []SharingInv
<1>1. Init => SharingInv
  BY DEF Init, SharingInv
<1>2. PoolInv /\ SharingInv /\ [Next]_vars => SharingInv'
  BY NextSharingInv
<1> QED
  BY <1>1, <1>2, PoolInvariant, PTL DEF Spec

\* setdefault() does what its comment says: as long as no thread closes the
\* pool, all threads share one client.
THEOREM OneClientCorrect == Spec => []OneClient
<1>1. SharingInv => OneClient
  BY DEF SharingInv, OneClient
<1> QED
  BY <1>1, SharingInvariant, PTL

\* And get_new_connection() finds the entry that it saw or set.
THEOREM NoKeyErrorCorrect == Spec => []NoKeyError
<1>1. SharingInv => NoKeyError
  BY DEF SharingInv, NoKeyError
<1> QED
  BY <1>1, SharingInvariant, PTL
=============================================================================
