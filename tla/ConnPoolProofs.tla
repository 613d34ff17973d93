--------------------------- MODULE ConnPoolProofs ---------------------------
(***************************************************************************)
(* The pool's map is never stale, for any number of threads, endpoints and *)
(* handles; and a process with one sending thread, as the Data Source is,  *)
(* always writes to the endpoint it means.                                 *)
(***************************************************************************)
EXTENDS ConnPool, TLAPS

\* The inductive invariant of the map.
PoolInv == TypeOK /\ PooledIsConnected /\ NoHandleLeak

\* connections_init yields an empty pool.
LEMMA PoolInit == Init => PoolInv
BY ConnPoolAssumption
   DEF Init, PoolInv, TypeOK, PooledIsConnected, NoHandleLeak, Closed, Idle

\* Every step of a sending thread, a peer and connections_cleanup preserves the
\* invariant of the map.
LEMMA PoolNext == PoolInv /\ [Next]_vars => PoolInv'
<1> SUFFICES ASSUME PoolInv, [Next]_vars PROVE PoolInv'
  OBVIOUS
<1> USE ConnPoolAssumption
        DEF PoolInv, TypeOK, PooledIsConnected, NoHandleLeak, Closed, Idle
<1>1. ASSUME NEW t \in Thread, NEW n \in Node, ReuseConnection(t, n)
      PROVE  PoolInv'
  BY <1>1 DEF ReuseConnection
<1>2. ASSUME NEW t \in Thread, NEW n \in Node, NEW h \in Handle,
             CreateConnection(t, n, h)
      PROVE  PoolInv'
  <2>1. TypeOK'
    BY <1>2 DEF CreateConnection
  <2>2. PooledIsConnected'
    BY <1>2 DEF CreateConnection
  <2>3. NoHandleLeak'
    BY <1>2 DEF CreateConnection
  <2> QED
    BY <2>1, <2>2, <2>3
<1>3. ASSUME NEW t \in Thread, SendSucceeds(t)
      PROVE  PoolInv'
  BY <1>3 DEF SendSucceeds
<1>4. ASSUME NEW t \in Thread, NoBuffer(t)
      PROVE  PoolInv'
  BY <1>4 DEF NoBuffer
<1>5. ASSUME NEW t \in Thread, SendFails(t)
      PROVE  PoolInv'
  BY <1>5 DEF SendFails
<1>6. ASSUME NEW t \in Thread, close_connection(t)
      PROVE  PoolInv'
  <2>1. TypeOK'
    BY <1>6 DEF close_connection, closesocket
  <2>2. PooledIsConnected'
    BY <1>6 DEF close_connection, closesocket
  <2>3. NoHandleLeak'
    BY <1>6 DEF close_connection, closesocket
  <2> QED
    BY <2>1, <2>2, <2>3
<1>7. ASSUME NEW h \in Handle, PeerBreaks(h)
      PROVE  PoolInv'
  BY <1>7 DEF PeerBreaks
<1>8. CASE connections_cleanup
  <2>1. TypeOK'
    BY <1>8 DEF connections_cleanup
  <2>2. PooledIsConnected'
    BY <1>8 DEF connections_cleanup
  <2>3. NoHandleLeak'
    BY <1>8 DEF connections_cleanup
  <2> QED
    BY <2>1, <2>2, <2>3
<1>9. CASE UNCHANGED vars
  BY <1>9 DEF vars
<1> QED
  BY <1>1, <1>2, <1>3, <1>4, <1>5, <1>6, <1>7, <1>8, <1>9
     DEF Next, send_warning_to, get_or_create_connection, ConnectFails

\* The invariant of the map holds in every reachable state.
LEMMA PoolInvHolds == Spec => []PoolInv
BY PoolInit, PoolNext, PTL DEF Spec

\* Type correctness of the connection pool.
THEOREM PoolTypeCorrect == Spec => []TypeOK
BY PoolInvHolds, PTL DEF PoolInv

\* A pooled socket is open and leads to its endpoint, for any number of threads
\* that look up, break and close each other's connections.
THEOREM PooledIsConnectedHolds == Spec => []PooledIsConnected
BY PoolInvHolds, PTL DEF PoolInv

\* Every open socket is in the pool.
THEOREM NoHandleLeakHolds == Spec => []NoHandleLeak
BY PoolInvHolds, PTL DEF PoolInv

-----------------------------------------------------------------------------
(* One sending thread *)

\* The process has at most one thread that sends.
Alone == \A t, u \in Thread : t = u

\* Nobody can close the socket that the only thread is about to write to.
AloneInv ==
    /\ PoolInv
    /\ \A t \in Thread : thread[t].pc = "send" => map[thread[t].n] = thread[t].s
    /\ SendReachesHop

\* With one thread, the handle that a lookup returned is the pooled one until
\* the send is over.
LEMMA AloneNext ==
    ASSUME Alone, AloneInv, [Next]_vars
    PROVE  AloneInv'
<1>0. PoolInv'
  BY PoolNext DEF AloneInv
<1> USE DEF AloneInv
<1> DEFINE Fresh == \A t \in Thread : thread[t].pc = "send" => map[thread[t].n] = thread[t].s
<1>1. ASSUME NEW t \in Thread, SendSucceeds(t)
      PROVE  SendReachesHop' /\ Fresh'
  <2>1. thread[t].n \in Node /\ thread[t].s \in Handle
    BY <1>1 DEF SendSucceeds, PoolInv, TypeOK
  <2>2. map[thread[t].n] = thread[t].s
    BY <1>1 DEF SendSucceeds
  <2>3. peer[thread[t].s] = thread[t].n
    BY <2>1, <2>2, ConnPoolAssumption DEF PoolInv, PooledIsConnected
  <2>4. SendReachesHop'
    BY <1>1, <2>3 DEF SendSucceeds, SendReachesHop
  <2>5. Fresh'
    BY <1>1 DEF SendSucceeds, Idle, PoolInv, TypeOK
  <2> QED
    BY <2>4, <2>5
<1>2. ASSUME NEW t \in Thread, send_warning_to(t), ~SendSucceeds(t)
      PROVE  SendReachesHop' /\ Fresh'
  <2>1. delivered' = delivered
    BY <1>2 DEF send_warning_to, get_or_create_connection, ReuseConnection,
       CreateConnection, ConnectFails, NoBuffer, SendFails, close_connection, vars
  <2>2. SendReachesHop'
    BY <2>1 DEF SendReachesHop
  <2>3. \A u \in Thread : u = t
    BY DEF Alone
  <2>4. CASE \E n \in Node : ReuseConnection(t, n)
    BY <2>2, <2>3, <2>4 DEF ReuseConnection, PoolInv, TypeOK
  <2>5. CASE \E n \in Node, h \in Handle : CreateConnection(t, n, h)
    BY <2>2, <2>3, <2>5 DEF CreateConnection, PoolInv, TypeOK
  <2>6. CASE UNCHANGED vars
    BY <2>2, <2>6 DEF vars
  <2>7. CASE NoBuffer(t) \/ close_connection(t)
    BY <2>2, <2>3, <2>7 DEF NoBuffer, close_connection, Idle, PoolInv, TypeOK
  <2>8. CASE SendFails(t)
    BY <2>2, <2>3, <2>8 DEF SendFails, PoolInv, TypeOK
  <2> QED
    BY <1>2, <2>4, <2>5, <2>6, <2>7, <2>8
       DEF send_warning_to, get_or_create_connection, ConnectFails
<1>3. ASSUME NEW h \in Handle, PeerBreaks(h)
      PROVE  SendReachesHop' /\ Fresh'
  BY <1>3 DEF PeerBreaks, SendReachesHop
<1>4. CASE connections_cleanup
  BY <1>0, <1>4 DEF connections_cleanup, Idle, SendReachesHop
<1>5. CASE UNCHANGED vars
  BY <1>0, <1>5 DEF vars, SendReachesHop
<1> QED
  BY <1>0, <1>1, <1>2, <1>3, <1>4, <1>5 DEF Next

\* In a process with one sending thread, a warning is always written to the
\* endpoint that it is meant for, however often peers break connections and
\* handles are reused.
THEOREM AloneSendReachesHop ==
    ASSUME Alone
    PROVE  Spec => []SendReachesHop
<1>1. Init => AloneInv
  BY PoolInit DEF Init, AloneInv, Idle, SendReachesHop
<1>2. AloneInv /\ [Next]_vars => AloneInv'
  BY AloneNext
<1>3. AloneInv => SendReachesHop
  BY DEF AloneInv
<1> QED
  BY <1>1, <1>2, <1>3, PTL DEF Spec
=============================================================================
