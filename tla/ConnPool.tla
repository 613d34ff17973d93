------------------------------ MODULE ConnPool ------------------------------
(***************************************************************************)
(* The connection pool of one process and the threads that send through    *)
(* it (propagator_connections.c and send_warning_to).                      *)
(*                                                                         *)
(* The map of the pool is guarded by conn_mutex, so looking a connection   *)
(* up, making it and removing it are one action each.  The socket handle   *)
(* that a lookup returns is used after the mutex is released.  The system  *)
(* may give the number of a closed handle to the next socket.              *)
(***************************************************************************)
EXTENDS Naturals

CONSTANTS
    Thread,     \* the threads that call send_warning_to
    Node,       \* the endpoints they send to
    Handle,     \* the socket handles the system can give out
    INVALID     \* INVALID_SOCKET; also: no endpoint

ASSUME ConnPoolAssumption == INVALID \notin Handle /\ INVALID \notin Node

VARIABLES
    initialized,    \* connections_init has run and connections_cleanup has not
    map,            \* map[n]: the pooled socket for n, or INVALID
    peer,           \* peer[h]: whom the open socket h is connected to, or INVALID
    broken,         \* the open sockets whose connection the peer has ended
    thread,         \* thread[t]: where t is in send_warning_to, for whom, on what
    delivered       \* the pairs <<meant for, written to>> of all sends (history)

vars == <<initialized, map, peer, broken, thread, delivered>>

Idle == [pc |-> "idle", n |-> INVALID, s |-> INVALID]

\* connections_init.
Init ==
    /\ initialized = TRUE
    /\ map = [n \in Node |-> INVALID]
    /\ peer = [h \in Handle |-> INVALID]
    /\ broken = {}
    /\ thread = [t \in Thread |-> Idle]
    /\ delivered = {}

Closed(h) == peer[h] = INVALID

\* closesocket.
closesocket(h) ==
    /\ peer' = [peer EXCEPT ![h] = INVALID]
    /\ broken' = broken \ {h}

\* Mutant: what the map returns is not tested.
ReuseWithoutTest(t, n) ==
    /\ thread[t] = Idle /\ initialized
    /\ thread' = [thread EXCEPT ![t] = [pc |-> "send", n |-> n, s |-> map[n]]]
    /\ UNCHANGED <<initialized, map, peer, broken, delivered>>

\* get_or_create_connection finds a pooled socket.
ReuseConnection(t, n) ==
    /\ thread[t] = Idle /\ initialized
    /\ map[n] # INVALID
    /\ thread' = [thread EXCEPT ![t] = [pc |-> "send", n |-> n, s |-> map[n]]]
    /\ UNCHANGED <<initialized, map, peer, broken, delivered>>

\* Mutant: the new socket is returned and not pooled.
CreateWithoutPooling(t, n, h) ==
    /\ thread[t] = Idle /\ initialized
    /\ map[n] = INVALID
    /\ Closed(h)
    /\ peer' = [peer EXCEPT ![h] = n]
    /\ thread' = [thread EXCEPT ![t] = [pc |-> "send", n |-> n, s |-> h]]
    /\ UNCHANGED <<initialized, map, broken, delivered>>

\* It finds none, gets a handle from the system, connects and pools it.
CreateConnection(t, n, h) ==
    /\ thread[t] = Idle /\ initialized
    /\ map[n] = INVALID
    /\ Closed(h)
    /\ peer' = [peer EXCEPT ![h] = n]
    /\ map' = [map EXCEPT ![n] = h]
    /\ thread' = [thread EXCEPT ![t] = [pc |-> "send", n |-> n, s |-> h]]
    /\ UNCHANGED <<initialized, broken, delivered>>

\* socket, connect or an allocation fails: the handle is closed again and the
\* call of send_warning_to returns false.
ConnectFails(t, n, h) ==
    /\ thread[t] = Idle /\ initialized
    /\ map[n] = INVALID
    /\ Closed(h)
    /\ UNCHANGED vars

\* send takes the whole warning; it goes wherever the handle leads now.
SendSucceeds(t) ==
    /\ thread[t].pc = "send"
    /\ LET s == thread[t].s IN
       /\ ~Closed(s)
       /\ s \notin broken
       /\ delivered' = delivered \cup {<<thread[t].n, peer[s]>>}
    /\ thread' = [thread EXCEPT ![t] = Idle]
    /\ UNCHANGED <<initialized, map, peer, broken>>

\* There is no memory for the buffer: send_warning_to returns false.
NoBuffer(t) ==
    /\ thread[t].pc = "send"
    /\ thread' = [thread EXCEPT ![t] = Idle]
    /\ UNCHANGED <<initialized, map, peer, broken, delivered>>

\* send fails: the handle is closed, or the connection is broken.
SendFails(t) ==
    /\ thread[t].pc = "send"
    /\ Closed(thread[t].s) \/ thread[t].s \in broken
    /\ thread' = [thread EXCEPT ![t].pc = "close"]
    /\ UNCHANGED <<initialized, map, peer, broken, delivered>>

\* Mutant: the failed socket is closed and its entry stays in the map.
CloseKeepsEntry(t) ==
    /\ thread[t].pc = "close"
    /\ IF map[thread[t].n] # INVALID
       THEN closesocket(map[thread[t].n])
       ELSE UNCHANGED <<peer, broken>>
    /\ thread' = [thread EXCEPT ![t] = Idle]
    /\ UNCHANGED <<initialized, map, delivered>>

\* close_connection removes what the map holds for the endpoint now, and
\* free_socket closes it.
close_connection(t) ==
    /\ thread[t].pc = "close"
    /\ LET n == thread[t].n IN
       IF map[n] # INVALID
       THEN closesocket(map[n]) /\ map' = [map EXCEPT ![n] = INVALID]
       ELSE UNCHANGED <<map, peer, broken>>
    /\ thread' = [thread EXCEPT ![t] = Idle]
    /\ UNCHANGED <<initialized, delivered>>

\* The peer ends a connection.
PeerBreaks(h) ==
    /\ ~Closed(h)
    /\ h \notin broken
    /\ broken' = broken \cup {h}
    /\ UNCHANGED <<initialized, map, peer, thread, delivered>>

\* connections_cleanup, once the sending threads have been joined.
connections_cleanup ==
    /\ initialized
    /\ \A t \in Thread : thread[t] = Idle
    /\ initialized' = FALSE
    /\ peer' = [h \in Handle |->
                  IF \E n \in Node : map[n] = h THEN INVALID ELSE peer[h]]
    /\ broken' = {h \in broken : \A n \in Node : map[n] # h}
    /\ map' = [n \in Node |-> INVALID]
    /\ UNCHANGED <<thread, delivered>>

get_or_create_connection(t, n) ==
    \/ ReuseConnection(t, n)
    \/ \E h \in Handle : CreateConnection(t, n, h) \/ ConnectFails(t, n, h)

send_warning_to(t) ==
    \/ \E n \in Node : get_or_create_connection(t, n)
    \/ SendSucceeds(t)
    \/ NoBuffer(t)
    \/ SendFails(t)
    \/ close_connection(t)

Next ==
    \/ \E t \in Thread : send_warning_to(t)
    \/ \E h \in Handle : PeerBreaks(h)
    \/ connections_cleanup

Spec == Init /\ [][Next]_vars
-----------------------------------------------------------------------------
(* Properties *)

\* Every variable has its type, and a thread that is sending has an endpoint and
\* a handle.
TypeOK ==
    /\ initialized \in BOOLEAN
    /\ map \in [Node -> Handle \cup {INVALID}]
    /\ peer \in [Handle -> Node \cup {INVALID}]
    /\ broken \subseteq Handle
    /\ thread \in [Thread -> [pc : {"idle", "send", "close"},
                              n : Node \cup {INVALID}, s : Handle \cup {INVALID}]]
    /\ \A t \in Thread : thread[t].pc # "idle" =>
          thread[t].n \in Node /\ thread[t].s \in Handle
    /\ delivered \subseteq Node \X Node

\* The pool never holds a stale handle: a pooled socket is open and leads to the
\* endpoint it is pooled for, so that no two endpoints share one, whatever the
\* threads do to each other's sockets between lookup, send and close.
PooledIsConnected == \A n \in Node : map[n] # INVALID => peer[map[n]] = n

\* No socket is forgotten: one that is open is in the pool, so close_connection
\* or connections_cleanup will close it.
NoHandleLeak == \A h \in Handle : ~Closed(h) => \E n \in Node : map[n] = h

\* A warning is written to the endpoint it is meant for.
SendReachesHop == \A d \in delivered : d[1] = d[2]
=============================================================================
