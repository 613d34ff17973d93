----------------------- MODULE DataDestinationProofs -----------------------
(***************************************************************************)
(* dd_destroy frees nothing that is in use and loses no warning that was   *)
(* received, for any set of warnings and any number of connections.        *)
(***************************************************************************)
EXTENDS DataDestination, TLAPS

\* A thread has a warning in its hands exactly where its code has one.
HandsInv ==
    /\ listener.pc = "enqueue" => listener.w \in Warning
    /\ listener.pc # "enqueue" => listener.w = NULL
    /\ processor.pc = "log" => processor.w \in Warning
    /\ processor.pc # "log" => processor.w = NULL

\* A warning that was received is in the processor's hands, in the queue or
\* logged, and those places hold no other warning.
AccountInv ==
    /\ \A w \in received : \/ w \in logged
                           \/ w = processor.w
                           \/ \E i \in 1..Len(queue) : queue[i] = w
    /\ logged \subseteq received
    /\ processor.w \in received \cup {NULL}
    /\ \A i \in 1..Len(queue) : queue[i] \in received \cup {NULL}

\* The listener has ended when the sentinel is sent, the sentinel is the last
\* item, and the processor ends by taking it.
SentinelInv ==
    /\ main \in {"sentinel", "joinProcessor", "release", "exit"} => listener.pc = "done"
    /\ main \notin {"joinProcessor", "release", "exit"} =>
          /\ processor.pc # "done"
          /\ \A i \in 1..Len(queue) : queue[i] # NULL
    /\ \A i \in 1..Len(queue) : queue[i] = NULL => i = Len(queue)
    /\ processor.pc = "done" => queue = <<>>
    /\ main \in {"release", "exit"} => processor.pc = "done"
    /\ main \in {"create", "createProcessor"} => processor.pc = "none"
    /\ main \notin {"failed", "exit"} => context

\* The inductive invariant.
Inv == TypeOK /\ HandsInv /\ AccountInv /\ SentinelInv

-----------------------------------------------------------------------------
(* Queue operations. *)

\* What tsqueue_enqueue makes of the queue's items.
LEMMA AppendItems ==
    ASSUME NEW T, NEW s \in Seq(T), NEW e \in T
    PROVE  /\ Append(s, e) \in Seq(T)
           /\ Len(Append(s, e)) = Len(s) + 1
           /\ Len(s) \in Nat
           /\ \A i \in 1..Len(s) : Append(s, e)[i] = s[i]
           /\ Append(s, e)[Len(s) + 1] = e
OBVIOUS

\* What tsqueue_dequeue leaves of the queue's items.
LEMMA TailItems ==
    ASSUME NEW T, NEW s \in Seq(T), s # <<>>
    PROVE  /\ Tail(s) \in Seq(T)
           /\ Head(s) \in T
           /\ Head(s) = s[1]
           /\ Len(s) \in Nat \ {0}
           /\ Len(Tail(s)) = Len(s) - 1
           /\ \A i \in 1..(Len(s) - 1) : Tail(s)[i] = s[i + 1]
OBVIOUS

-----------------------------------------------------------------------------

\* The started process satisfies the invariant.
LEMMA InitInv == Init => Inv
<1> SUFFICES ASSUME Init PROVE Inv
  OBVIOUS
<1> USE DEF Init, At
<1>1. connections \in 0..MaxConnections /\ warning_count \in Nat
  BY DataDestinationAssumption
<1>2. TypeOK
  <2>1. /\ queue \in Seq(Warning \cup {NULL})
        /\ stream \in Seq(Warning \cup {CONNECT, EOF})
    OBVIOUS
  <2>2. /\ listener \in [pc : {"none", "start", "accept", "recv", "enqueue", "done"},
                         w : Warning \cup {NULL}]
        /\ processor \in [pc : {"none", "dequeue", "log", "done"},
                          w : Warning \cup {NULL}]
    OBVIOUS
  <2> QED
    BY <1>1, <2>1, <2>2 DEF TypeOK
<1>3. HandsInv
  BY DEF HandsInv
<1>4. AccountInv
  BY DEF AccountInv
<1>5. SentinelInv
  BY DEF SentinelInv
<1> QED
  BY <1>2, <1>3, <1>4, <1>5 DEF Inv

\* The parent's steps and the exit request touch neither threads nor queue.
LEMMA OutsideInv == Inv /\ (RequestExit \/ ParentStep) => Inv'
<1> SUFFICES ASSUME Inv, RequestExit \/ ParentStep PROVE Inv'
  OBVIOUS
<1> USE DEF Inv, TypeOK
<1>1. UNCHANGED <<main, context, queue, listener, processor, received, logged>>
  BY DEF RequestExit, ParentStep, Connect, Disconnect, Arrive, mainVars
<1>2. HandsInv' /\ AccountInv' /\ SentinelInv'
  BY <1>1 DEF HandsInv, AccountInv, SentinelInv
<1>3. CASE RequestExit
  BY <1>2, <1>3 DEF RequestExit, netVars
<1>4. CASE Connect
  <2>1. connections' \in 0..MaxConnections
    BY <1>4, DataDestinationAssumption DEF Connect
  <2>2. stream' \in Seq(Warning \cup {CONNECT, EOF})
    BY <1>4, AppendItems DEF Connect
  <2>3. TypeOK'
    BY <1>4, <2>1, <2>2 DEF Connect, mainVars
  <2> QED
    BY <1>2, <2>3
<1>5. CASE Disconnect
  <2>1. stream' \in Seq(Warning \cup {CONNECT, EOF})
    BY <1>5, AppendItems DEF Disconnect
  <2>2. TypeOK'
    <3>1. open' \in BOOLEAN
      BY <1>5 DEF Disconnect
    <3> QED
      BY <1>5, <2>1, <3>1 DEF Disconnect, mainVars
  <2> QED
    BY <1>2, <2>2
<1>6. ASSUME NEW w \in Warning, Arrive(w) PROVE Inv'
  BY <1>2, <1>6 DEF Arrive, mainVars
<1> QED
  BY <1>3, <1>4, <1>5, <1>6 DEF ParentStep

\* Every step of listener_fn preserves the invariant.
LEMMA ListenerInv == Inv /\ listener_fn => Inv'
<1> SUFFICES ASSUME Inv, listener_fn PROVE Inv'
  OBVIOUS
<1> USE DEF Inv, At
<1>1. CASE ListenerStart \/ ListenerAccept \/ ListenerAcceptFails \/ ListenerClientGone
  <2>1. /\ UNCHANGED <<mainVars, queue, processor, received, logged>>
        /\ listener.pc \notin {"enqueue", "done"}
        /\ listener'.w = NULL
        /\ listener'.pc # "enqueue"
    BY <1>1 DEF ListenerStart, ListenerAccept, ListenerAcceptFails, ListenerClientGone
  <2>2. TypeOK'
    <3>1. CASE ListenerStart \/ ListenerAcceptFails
      <4>1. listener' \in [pc : {"none", "start", "accept", "recv", "enqueue", "done"},
                            w : Warning \cup {NULL}]
        BY <3>1 DEF ListenerStart, ListenerAcceptFails
      <4>2. listen_sock' \in {"garbage", "open", "closed"}
        BY <3>1 DEF TypeOK, ListenerStart, ListenerAcceptFails
      <4>3. UNCHANGED <<mainVars, queue, processor, warning_count, netVars,
                        received, logged>>
        BY <3>1 DEF ListenerStart, ListenerAcceptFails
      <4> QED
        BY <4>1, <4>2, <4>3 DEF TypeOK, mainVars, netVars
    <3>2. CASE ListenerAccept \/ ListenerClientGone
      <4>1. stream' \in Seq(Warning \cup {CONNECT, EOF})
        <5>1. stream # <<>> /\ stream' = Tail(stream)
          BY <3>2 DEF ListenerAccept, ListenerClientGone
        <5> QED
          BY <5>1, TailItems DEF TypeOK
      <4>2. listener' \in [pc : {"none", "start", "accept", "recv", "enqueue", "done"},
                            w : Warning \cup {NULL}]
        BY <3>2 DEF ListenerAccept, ListenerClientGone
      <4>3. UNCHANGED <<mainVars, listen_sock, queue, processor, warning_count,
                        open, connections, arrived, received, logged>>
        BY <3>2 DEF ListenerAccept, ListenerClientGone
      <4> QED
        BY <4>1, <4>2, <4>3 DEF TypeOK, mainVars
    <3> QED
      BY <1>1, <3>1, <3>2
  <2>3. HandsInv' /\ AccountInv' /\ SentinelInv'
    BY <2>1 DEF HandsInv, AccountInv, SentinelInv, mainVars
  <2> QED
    BY <2>2, <2>3
<1>2. CASE ListenerReceive
  <2>1. TypeOK'
    <3>1. stream' \in Seq(Warning \cup {CONNECT, EOF})
      BY <1>2, TailItems DEF TypeOK, ListenerReceive
    <3> QED
      BY <1>2, <3>1 DEF TypeOK, ListenerReceive, mainVars
  <2>2. HandsInv'
    BY <1>2 DEF ListenerReceive, HandsInv
  <2>3. AccountInv'
    BY <1>2 DEF ListenerReceive, AccountInv
  <2>4. SentinelInv'
    BY <1>2 DEF ListenerReceive, SentinelInv, mainVars
  <2> QED
    BY <2>1, <2>2, <2>3, <2>4
<1>3. CASE ListenerEnqueue /\ UNCHANGED <<queue, received>>
  <2>1. HandsInv' /\ AccountInv' /\ SentinelInv'
    BY <1>3 DEF ListenerEnqueue, HandsInv, AccountInv, SentinelInv, mainVars
  <2>2. TypeOK'
    BY <1>3 DEF ListenerEnqueue, TypeOK, mainVars, netVars
  <2> QED
    BY <2>1, <2>2
<1>4. CASE /\ ListenerEnqueue
           /\ queue' = Append(queue, listener.w)
           /\ received' = received \cup {listener.w}
  <2>1. queue \in Seq(Warning \cup {NULL}) /\ listener.w \in Warning
    BY <1>4 DEF TypeOK, HandsInv, ListenerEnqueue
  <2>2. /\ Len(queue) \in Nat
        /\ Len(queue') = Len(queue) + 1
        /\ queue' \in Seq(Warning \cup {NULL})
        /\ \A i \in 1..Len(queue) : queue'[i] = queue[i]
        /\ queue'[Len(queue) + 1] = listener.w
    BY <1>4, <2>1, AppendItems DEF ListenerEnqueue
  <2>3. TypeOK'
    <3>1. received' \subseteq Warning
      BY <1>4, <2>1 DEF TypeOK
    <3>2. listener' \in [pc : {"none", "start", "accept", "recv", "enqueue", "done"},
                         w : Warning \cup {NULL}]
      BY <1>4 DEF ListenerEnqueue
    <3>3. UNCHANGED <<mainVars, listen_sock, processor, warning_count, netVars, logged>>
      BY <1>4 DEF ListenerEnqueue
    <3> QED
      BY <2>2, <3>1, <3>2, <3>3 DEF TypeOK, mainVars, netVars
  <2>4. HandsInv'
    BY <1>4 DEF HandsInv, ListenerEnqueue
  <2>5. AccountInv'
    <3>1. \A i \in 1..Len(queue) : i \in 1..Len(queue') /\ queue'[i] = queue[i]
      BY <2>2
    <3>2. Len(queue) + 1 \in 1..Len(queue') /\ queue'[Len(queue) + 1] = listener.w
      BY <2>2
    <3>3. \A i \in 1..Len(queue') : queue'[i] \in received' \cup {NULL}
      <4>1. \A i \in 1..Len(queue') : i \in 1..Len(queue) \/ i = Len(queue) + 1
        BY <2>2
      <4> QED
        BY <1>4, <4>1, <2>2 DEF AccountInv
    <3> QED
      BY <1>4, <3>1, <3>2, <3>3 DEF AccountInv, ListenerEnqueue
  <2>6. SentinelInv'
    <3>1. main \notin {"sentinel", "joinProcessor", "release", "exit"}
      BY <1>4 DEF SentinelInv, ListenerEnqueue
    <3>2. \A i \in 1..Len(queue') : queue'[i] # NULL
      <4>1. \A i \in 1..Len(queue') : i \in 1..Len(queue) \/ i = Len(queue) + 1
        BY <2>2
      <4> QED
        BY <4>1, <2>1, <2>2, <3>1, DataDestinationAssumption DEF SentinelInv
    <3> QED
      BY <1>4, <3>1, <3>2 DEF SentinelInv, ListenerEnqueue, mainVars
  <2> QED
    BY <2>3, <2>4, <2>5, <2>6
<1>5. CASE ListenerGivesUp
  <2>1. stream' \in Seq(Warning \cup {CONNECT, EOF}) /\ open' \in BOOLEAN
    <3>1. CASE stream' = <<>> /\ open' = FALSE
      <4>1. <<>> \in Seq(Warning \cup {CONNECT, EOF})
        OBVIOUS
      <4> QED
        BY <3>1, <4>1, Zenon
    <3>2. ASSUME NEW i \in DOMAIN stream,
                 stream' = SubSeq(stream, i + 1, Len(stream)),
                 UNCHANGED open
          PROVE  stream' \in Seq(Warning \cup {CONNECT, EOF}) /\ open' \in BOOLEAN
      BY <3>2 DEF TypeOK
    <3> QED
      BY <1>5, <3>1, <3>2 DEF ListenerGivesUp
  <2>2. /\ listener.pc = "recv" /\ listener' = [pc |-> "accept", w |-> NULL]
        /\ UNCHANGED <<mainVars, listen_sock, queue, processor, warning_count,
                       connections, arrived, received, logged>>
    BY <1>5 DEF ListenerGivesUp
  <2>3. TypeOK'
    BY <2>1, <2>2 DEF TypeOK, mainVars
  <2>4. HandsInv' /\ AccountInv' /\ SentinelInv'
    BY <2>2 DEF HandsInv, AccountInv, SentinelInv, mainVars
  <2> QED
    BY <2>3, <2>4
<1> QED
  BY <1>1, <1>2, <1>3, <1>4, <1>5 DEF listener_fn, ListenerEnqueue

\* Every step of processor_fn preserves the invariant.
LEMMA ProcessorInv == Inv /\ processor_fn => Inv'
<1> SUFFICES ASSUME Inv, processor_fn PROVE Inv'
  OBVIOUS
<1> USE DEF Inv, At
<1>1. CASE ProcessorDequeue
  <2>1. queue \in Seq(Warning \cup {NULL}) /\ queue # <<>>
    BY <1>1 DEF TypeOK, ProcessorDequeue
  <2>2. /\ Len(queue) \in Nat \ {0}
        /\ Len(queue') = Len(queue) - 1
        /\ queue' \in Seq(Warning \cup {NULL})
        /\ queue[1] \in Warning \cup {NULL}
        /\ Head(queue) = queue[1]
        /\ \A i \in 1..(Len(queue) - 1) : queue'[i] = queue[i + 1]
    BY <1>1, <2>1, TailItems DEF ProcessorDequeue
  <2>3. processor.w = NULL /\ processor'.w = queue[1]
    BY <1>1, <2>2 DEF ProcessorDequeue, HandsInv
  <2>4. TypeOK'
    BY <1>1, <2>2 DEF TypeOK, ProcessorDequeue, mainVars, netVars
  <2>5. HandsInv'
    BY <1>1, <2>2, DataDestinationAssumption DEF HandsInv, ProcessorDequeue
  <2>6. AccountInv'
    <3>1. \A i \in 1..Len(queue) : queue[i] = queue[1]
                                   \/ \E j \in 1..Len(queue') : queue'[j] = queue[i]
      <4> SUFFICES ASSUME NEW i \in 1..Len(queue), i # 1
                   PROVE  \E j \in 1..Len(queue') : queue'[j] = queue[i]
        OBVIOUS
      <4>1. /\ i - 1 \in 1..(Len(queue) - 1)
            /\ i - 1 \in 1..Len(queue')
            /\ (i - 1) + 1 = i
        BY <2>2
      <4>2. queue'[i - 1] = queue[(i - 1) + 1]
        BY <2>2, <4>1
      <4> QED
        BY <4>1, <4>2
    <3>2. \A j \in 1..Len(queue') : queue'[j] \in received \cup {NULL}
      <4>1. \A j \in 1..Len(queue') : j + 1 \in 1..Len(queue) /\ queue'[j] = queue[j + 1]
        BY <2>2
      <4> QED
        BY <4>1 DEF AccountInv
    <3>3. queue[1] \in received \cup {NULL}
      BY <2>2 DEF AccountInv
    <3>4. UNCHANGED <<received, logged>>
      BY <1>1 DEF ProcessorDequeue
    <3>5. ASSUME NEW w \in received
          PROVE  \/ w \in logged \/ w = processor'.w
                 \/ \E j \in 1..Len(queue') : queue'[j] = w
      <4>1. w # NULL
        BY DataDestinationAssumption DEF TypeOK
      <4> QED
        BY <4>1, <2>3, <3>1 DEF AccountInv
    <3> QED
      BY <2>3, <3>2, <3>3, <3>4, <3>5 DEF AccountInv
  <2>7. SentinelInv'
    <3>1. \A j \in 1..Len(queue') : j + 1 \in 1..Len(queue) /\ queue'[j] = queue[j + 1]
      BY <2>2
    <3>2. processor.pc # "done" /\ UNCHANGED <<main, context, listener>>
      BY <1>1 DEF ProcessorDequeue, mainVars
    <3>3. \A j \in 1..Len(queue') : queue'[j] = NULL => j = Len(queue')
      BY <3>1, <2>2 DEF SentinelInv
    <3>4. processor'.pc = "done" => queue[1] = NULL
      BY <1>1, <2>2 DEF ProcessorDequeue
    <3>5. queue[1] = NULL => Len(queue) = 1 /\ main \in {"joinProcessor", "release", "exit"}
      BY <2>2 DEF SentinelInv
    <3>6. Len(queue) = 1 => queue' = <<>>
      BY <2>2
    <3>7. main \notin {"create", "createProcessor", "release", "exit"}
      BY <1>1, <3>2 DEF SentinelInv, ProcessorDequeue
    <3> QED
      BY <3>1, <3>2, <3>3, <3>4, <3>5, <3>6, <3>7 DEF SentinelInv
  <2> QED
    BY <2>4, <2>5, <2>6, <2>7
<1>2. CASE ProcessorLog
  <2>1. processor.w \in Warning
    BY <1>2 DEF ProcessorLog, HandsInv
  <2>2. TypeOK'
    BY <1>2, <2>1 DEF TypeOK, ProcessorLog, mainVars, netVars
  <2>3. HandsInv' /\ SentinelInv'
    BY <1>2 DEF ProcessorLog, HandsInv, SentinelInv, mainVars
  <2>4. AccountInv'
    BY <1>2, <2>1, DataDestinationAssumption DEF ProcessorLog, AccountInv
  <2> QED
    BY <2>2, <2>3, <2>4
<1> QED
  BY <1>1, <1>2 DEF processor_fn

\* Every step of main, those of dd_destroy included, preserves the invariant.
LEMMA MainInv == Inv /\ MainStep => Inv'
<1> SUFFICES ASSUME Inv, MainStep PROVE Inv'
  OBVIOUS
<1> USE DEF Inv
<1>1. CASE MainCreatesEvent \/ MainWakes \/ MainWritesCount \/ MainClosesSocket
           \/ MainJoinsListener \/ MainJoinsProcessor
  <2>1. UNCHANGED <<context, queue, listener, processor, received, logged>>
    BY <1>1 DEF MainCreatesEvent, MainWakes, MainWritesCount, MainClosesSocket,
                MainJoinsListener, MainJoinsProcessor
  <2>2. TypeOK'
    <3>1. untold' \subseteq {"listener", "processor"}
      BY <1>1 DEF TypeOK, MainCreatesEvent, MainWakes, MainWritesCount,
                  MainClosesSocket, MainJoinsListener, MainJoinsProcessor
    <3>2. listen_sock' \in {"garbage", "open", "closed"}
      BY <1>1 DEF TypeOK, MainCreatesEvent, MainWakes, MainWritesCount,
                  MainClosesSocket, MainJoinsListener, MainJoinsProcessor
    <3> QED
      BY <1>1, <3>1, <3>2
         DEF TypeOK, MainCreatesEvent, MainWakes, MainWritesCount,
             MainClosesSocket, MainJoinsListener, MainJoinsProcessor, netVars
  <2>3. HandsInv' /\ AccountInv'
    BY <2>1 DEF HandsInv, AccountInv
  <2>4. SentinelInv'
    BY <1>1, <2>1 DEF SentinelInv, MainCreatesEvent, MainWakes, MainWritesCount,
                      MainClosesSocket, MainJoinsListener, MainJoinsProcessor
  <2> QED
    BY <2>2, <2>3, <2>4
<1>2. CASE MainSendsSentinel /\ queue' = Append(queue, NULL) /\ UNCHANGED untold
  <2>1. queue \in Seq(Warning \cup {NULL})
    BY DEF TypeOK
  <2>2. /\ Len(queue) \in Nat
        /\ Len(queue') = Len(queue) + 1
        /\ queue' \in Seq(Warning \cup {NULL})
        /\ \A i \in 1..Len(queue) : queue'[i] = queue[i]
        /\ queue'[Len(queue) + 1] = NULL
    BY <1>2, <2>1, AppendItems DEF MainSendsSentinel
  <2>3. \A i \in 1..Len(queue') : i \in 1..Len(queue) \/ i = Len(queue')
    BY <2>2
  <2>4. TypeOK'
    BY <1>2, <2>2 DEF TypeOK, MainSendsSentinel, netVars
  <2>5. HandsInv'
    BY <1>2 DEF HandsInv, MainSendsSentinel
  <2>6. AccountInv'
    <3>1. \A i \in 1..Len(queue) : i \in 1..Len(queue') /\ queue'[i] = queue[i]
      BY <2>2
    <3>2. \A i \in 1..Len(queue') : queue'[i] \in received \cup {NULL}
      BY <2>2, <2>3 DEF AccountInv
    <3> QED
      BY <1>2, <3>1, <3>2 DEF AccountInv, MainSendsSentinel
  <2>7. SentinelInv'
    <3>1. processor.pc # "done" /\ listener.pc = "done" /\ context
          /\ \A i \in 1..Len(queue) : queue[i] # NULL
      BY <1>2 DEF SentinelInv, MainSendsSentinel
    <3>2. \A i \in 1..Len(queue') : queue'[i] = NULL => i = Len(queue')
      BY <2>2, <2>3, <3>1
    <3> QED
      BY <1>2, <3>1, <3>2 DEF SentinelInv, MainSendsSentinel
  <2> QED
    BY <2>4, <2>5, <2>6, <2>7
<1>6. CASE /\ MainSendsSentinel
           /\ untold' = untold \cup {"processor"}
           /\ UNCHANGED queue
  <2>1. untold' \subseteq {"listener", "processor"}
    BY <1>6 DEF TypeOK
  <2>2. TypeOK'
    BY <1>6, <2>1 DEF TypeOK, MainSendsSentinel, netVars
  <2>3. HandsInv' /\ AccountInv' /\ SentinelInv'
    BY <1>6 DEF MainSendsSentinel, HandsInv, AccountInv, SentinelInv
  <2> QED
    BY <2>2, <2>3
<1>3. CASE MainReleases
  <2>1. queue = <<>> /\ queue' = <<>>
    BY <1>3 DEF MainReleases, SentinelInv
  <2>2. TypeOK'
    <3>1. queue' \in Seq(Warning \cup {NULL})
      BY <2>1
    <3>2. context' \in BOOLEAN
      BY <1>3 DEF MainReleases
    <3> QED
      BY <1>3, <3>1, <3>2 DEF TypeOK, MainReleases, netVars
  <2>3. HandsInv' /\ AccountInv' /\ SentinelInv'
    BY <1>3, <2>1 DEF MainReleases, HandsInv, AccountInv, SentinelInv
  <2> QED
    BY <2>2, <2>3
<1>4. CASE MainCreatesListener \/ MainCreatesProcessor
  <2>1. /\ UNCHANGED <<queue, received, logged>>
        /\ listener' = listener \/ listener' = [pc |-> "start", w |-> NULL]
        /\ processor' = processor \/ processor' = [pc |-> "dequeue", w |-> NULL]
        /\ processor.pc = "none"
    BY <1>4 DEF MainCreatesListener, MainCreatesProcessor, At, SentinelInv
  <2>2. TypeOK'
    <3>1. /\ listener' \in [pc : {"none", "start", "accept", "recv", "enqueue", "done"},
                             w : Warning \cup {NULL}]
          /\ processor' \in [pc : {"none", "dequeue", "log", "done"},
                              w : Warning \cup {NULL}]
      BY <2>1 DEF TypeOK
    <3>2. context' \in BOOLEAN
      BY <1>4 DEF MainCreatesListener, MainCreatesProcessor, TypeOK
    <3> QED
      BY <1>4, <3>1, <3>2 DEF TypeOK, MainCreatesListener, MainCreatesProcessor, netVars
  <2>3. HandsInv' /\ AccountInv'
    BY <2>1 DEF HandsInv, AccountInv
  <2>4. SentinelInv'
    BY <1>4, <2>1 DEF SentinelInv, MainCreatesListener, MainCreatesProcessor
  <2> QED
    BY <2>2, <2>3, <2>4
<1>5. CASE MainAbandonsListener
  <2>1. queue' = <<>> /\ received' = logged /\ processor.w = NULL
    BY <1>5 DEF MainAbandonsListener, HandsInv, SentinelInv
  <2>2. TypeOK'
    <3>1. queue' \in Seq(Warning \cup {NULL}) /\ received' \subseteq Warning
      BY <2>1 DEF TypeOK
    <3>2. context' \in BOOLEAN /\ listen_sock' \in {"garbage", "open", "closed"}
      BY <1>5 DEF MainAbandonsListener, TypeOK
    <3> QED
      BY <1>5, <3>1, <3>2 DEF TypeOK, MainAbandonsListener, netVars
  <2>3. HandsInv' /\ AccountInv' /\ SentinelInv'
    BY <1>5, <2>1 DEF MainAbandonsListener, HandsInv, AccountInv, SentinelInv
  <2> QED
    BY <2>2, <2>3
<1> QED
  BY <1>1, <1>2, <1>3, <1>4, <1>5, <1>6
     DEF MainStep, dd_destroy, dd_create, MainSendsSentinel

\* The invariant holds in every reachable state.
LEMMA InvHolds == Spec => []Inv
<1>1. Inv /\ [Next]_vars => Inv'
  <2> SUFFICES ASSUME Inv, [Next]_vars PROVE Inv'
    OBVIOUS
  <2>1. CASE UNCHANGED vars
    BY <2>1 DEF vars, mainVars, netVars, Inv, TypeOK, HandsInv, AccountInv, SentinelInv
  <2> QED
    BY <2>1, OutsideInv, ListenerInv, ProcessorInv, MainInv DEF Next
<1> QED
  BY <1>1, InitInv, PTL DEF Spec

\* Every variable of the destination keeps its type, for any set of warnings.
THEOREM DestinationTypeCorrect == Spec => []TypeOK
BY InvHolds, PTL DEF Inv

\* No thread of the destination uses the context or the queue after dd_destroy
\* has freed them.
THEOREM ThreadsUseLiveContextHolds == Spec => []ThreadsUseLiveContext
<1>1. Inv => ThreadsUseLiveContext
  BY DEF Inv, SentinelInv, ThreadsUseLiveContext
<1> QED
  BY <1>1, InvHolds, PTL

\* Whatever the listener has received is logged when dd_destroy has joined the
\* processor.
THEOREM DrainedAtExitHolds == Spec => []DrainedAtExit
<1>1. Inv => DrainedAtExit
  <2> SUFFICES ASSUME Inv, main \in {"release", "exit"} PROVE logged = received
    BY DEF DrainedAtExit
  <2>1. listener.w = NULL /\ processor.w = NULL /\ Len(queue) = 0
    BY DEF Inv, HandsInv, SentinelInv
  <2>2. \A w \in received : w # NULL
    BY DataDestinationAssumption DEF Inv, TypeOK
  <2> QED
    BY <2>1, <2>2 DEF Inv, AccountInv
<1> QED
  BY <1>1, InvHolds, PTL
=============================================================================
