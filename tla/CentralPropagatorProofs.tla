---------------------- MODULE CentralPropagatorProofs ----------------------
(***************************************************************************)
(* The shutdown of a Central Propagator, whatever the number of workers    *)
(* and of warnings: the workers are gone before anything they use is       *)
(* freed, every warning has one owner that frees it once, and the tasks    *)
(* that were accepted before the exit request are dispatched.              *)
(***************************************************************************)
EXTENDS CentralPropagator, FiniteSetTheorems, SequenceTheorems, TLAPS

-----------------------------------------------------------------------------
(* Sequences of warnings *)

\* The warnings in a queue or a stream, and that none of them is there twice.
In(s) == {s[i] : i \in 1..Len(s)} \cap Warning
Once(s) == \A i, j \in 1..Len(s) : s[i] = s[j] /\ s[i] \in Warning => i = j

\* What is appended to a queue or a stream is in it, once if it was not there.
LEMMA InAppend ==
    ASSUME NEW T, NEW s \in Seq(T), NEW e
    PROVE  /\ In(Append(s, e)) = In(s) \cup ({e} \cap Warning)
           /\ Once(s) /\ e \notin In(s) => Once(Append(s, e))
<1> DEFINE t == Append(s, e)
<1>1. /\ Len(t) = Len(s) + 1 /\ Len(s) \in Nat
      /\ \A i \in 1..Len(s) : t[i] = s[i]
      /\ t[Len(s) + 1] = e
  OBVIOUS
<1> HIDE DEF t
<1>2. In(t) = In(s) \cup ({e} \cap Warning)
  <2>1. \A i \in 1..Len(t) : i \in 1..Len(s) \/ i = Len(s) + 1
    BY <1>1
  <2>2. \A i \in 1..Len(s) : i \in 1..Len(t)
    BY <1>1
  <2>3. Len(s) + 1 \in 1..Len(t)
    BY <1>1
  <2> QED
    BY <1>1, <2>1, <2>2, <2>3 DEF In
<1>3. ASSUME Once(s), e \notin In(s) PROVE Once(t)
  <2> SUFFICES ASSUME NEW i \in 1..Len(t), NEW j \in 1..Len(t), t[i] = t[j], t[i] \in Warning
               PROVE  i = j
    BY DEF Once
  <2>1. CASE i \in 1..Len(s) /\ j \in 1..Len(s)
    BY <1>1, <1>3, <2>1 DEF Once
  <2>2. \A k \in 1..Len(s) : s[k] \in Warning => s[k] # e
    BY <1>3 DEF In
  <2> QED
    BY <1>1, <2>1, <2>2
<1> QED
  BY <1>2, <1>3 DEF t

\* A mark or a sentinel changes nothing in that.
LEMMA InAppendMark ==
    ASSUME NEW T, NEW s \in Seq(T), NEW e, e \notin Warning
    PROVE  /\ In(Append(s, e)) = In(s)
           /\ Once(s) => Once(Append(s, e))
<1>1. e \notin In(s)
  BY DEF In
<1>2. /\ In(Append(s, e)) = In(s) \cup ({e} \cap Warning)
      /\ Once(s) /\ e \notin In(s) => Once(Append(s, e))
  BY InAppend
<1> QED
  BY <1>1, <1>2

\* What is taken from the front is not in the rest.
LEMMA InTail ==
    ASSUME NEW T, NEW s \in Seq(T), s # <<>>
    PROVE  /\ In(s) = In(Tail(s)) \cup ({Head(s)} \cap Warning)
           /\ Once(s) => Once(Tail(s)) /\ Head(s) \notin In(Tail(s))
<1> DEFINE t == Tail(s)
<1>1. /\ Len(s) = Len(t) + 1 /\ Len(t) \in Nat
      /\ \A i \in 1..Len(t) : t[i] = s[i + 1]
      /\ Head(s) = s[1]
  OBVIOUS
<1> HIDE DEF t
<1>2. In(s) = In(t) \cup ({Head(s)} \cap Warning)
  <2>1. ASSUME NEW e \in In(s), e # Head(s)
        PROVE  e \in In(t)
    <3>1. PICK i \in 1..Len(s) : s[i] = e
      BY DEF In
    <3>2. i - 1 \in 1..Len(t) /\ t[i - 1] = e
      BY <1>1, <2>1, <3>1
    <3> QED
      BY <2>1, <3>2 DEF In
  <2>2. ASSUME NEW e \in In(t)
        PROVE  e \in In(s)
    <3>1. PICK i \in 1..Len(t) : t[i] = e
      BY DEF In
    <3>2. i + 1 \in 1..Len(s) /\ s[i + 1] = e
      BY <1>1, <3>1
    <3> QED
      BY <3>2 DEF In
  <2>3. 1 \in 1..Len(s)
    BY <1>1
  <2>4. Head(s) \in Warning => Head(s) \in In(s)
    BY <1>1, <2>3 DEF In
  <2>5. In(s) \subseteq Warning
    BY DEF In
  <2> QED
    BY <2>1, <2>2, <2>4, <2>5
<1>3. ASSUME Once(s) PROVE Once(t) /\ Head(s) \notin In(t)
  <2>1. Once(t)
    BY <1>1, <1>3 DEF Once
  <2>2. \A i \in 1..Len(t) : t[i] \in Warning => t[i] # Head(s)
    BY <1>1, <1>3 DEF Once
  <2> QED
    BY <2>1, <2>2 DEF In
<1> QED
  BY <1>2, <1>3 DEF t

\* The empty sequence holds nothing.
LEMMA InEmpty == In(<<>>) = {} /\ Once(<<>>)
BY DEF In, Once

\* The warnings in a queue are what is not a sentinel.
LEMMA NonNull ==
    ASSUME NEW q \in Seq(Warning \cup {NULL})
    PROVE  {q[i] : i \in DOMAIN q} \ {NULL} = In(q)
BY CentralPropagatorAssumption DEF In

\* No warning is a mark of a stream or a sentinel, and the clients differ.
LEMMA Marks ==
    /\ NULL \notin Warning /\ CONNECT \notin Warning /\ EOF \notin Warning
    /\ UP # SELF /\ Client = {UP, SELF}
BY CentralPropagatorAssumption DEF Client

\* The contiguous parts of a sequence.
Part(s) == {SubSeq(s, m, n) : m \in 1..(Len(s) + 1), n \in 0..Len(s)}

\* A part of a stream holds no warning that the stream does not hold.
LEMMA InPart ==
    ASSUME NEW T, NEW s \in Seq(T), NEW t \in Part(s)
    PROVE  /\ t \in Seq(T)
           /\ In(t) \subseteq In(s)
           /\ Once(s) => Once(t)
<1>1. PICK m \in 1..(Len(s) + 1), n \in 0..Len(s) : t = SubSeq(s, m, n)
  BY DEF Part
<1>2. Len(s) \in Nat /\ m \in Nat /\ n \in Nat
  BY <1>1
<1>3. /\ t \in Seq(T)
      /\ Len(t) \in Nat
      /\ \A i \in 1..Len(t) : i + m - 1 \in 1..Len(s) /\ t[i] = s[i + m - 1]
  BY <1>1, <1>2
<1> HIDE DEF Part
<1>4. In(t) \subseteq In(s)
  <2> SUFFICES ASSUME NEW e \in In(t) PROVE e \in In(s)
    OBVIOUS
  <2>1. PICK i \in 1..Len(t) : t[i] = e
    BY DEF In
  <2>2. i + m - 1 \in 1..Len(s) /\ s[i + m - 1] = e
    BY <1>3, <2>1
  <2> QED
    BY <2>2 DEF In
<1>5. ASSUME Once(s) PROVE Once(t)
  <2> SUFFICES ASSUME NEW i \in 1..Len(t), NEW j \in 1..Len(t), t[i] = t[j],
                      t[i] \in Warning
               PROVE  i = j
    BY DEF Once
  <2>1. i + m - 1 = j + m - 1
    BY <1>3, <1>5 DEF Once
  <2> QED
    BY <1>2, <2>1
<1> QED
  BY <1>3, <1>4, <1>5

\* When the listener gives a client up, a part of what the client has sent is left.
LEMMA GivesUpLeaves ==
    ASSUME stream \in [Client -> Seq(Warning \cup {CONNECT, EOF})],
           listener.client \in Client, ListenerGivesUp
    PROVE  \E t \in Part(stream[listener.client]) :
              stream' = [stream EXCEPT ![listener.client] = t]
<1> DEFINE c == listener.client
           s == stream[c]
<1>1. s \in Seq(Warning \cup {CONNECT, EOF})
  OBVIOUS
<1>2. PICK k \in 1..Len(s) :
         \/ stream' = [stream EXCEPT ![c] = <<>>]
         \/ k < Len(s) /\ stream' = [stream EXCEPT ![c] = SubSeq(s, k + 2, Len(s))]
  BY Zenon DEF ListenerGivesUp
<1> HIDE DEF s
<1>3. /\ Len(s) \in Nat
      /\ 1 \in 1..(Len(s) + 1) /\ 0 \in 0..Len(s) /\ Len(s) \in 0..Len(s)
      /\ k < Len(s) => k + 2 \in 1..(Len(s) + 1)
  BY <1>1
<1>4. SubSeq(s, 1, 0) = <<>>
  BY <1>1
<1>5. <<>> \in Part(s)
  BY <1>3, <1>4 DEF Part
<1>6. ASSUME k < Len(s) PROVE SubSeq(s, k + 2, Len(s)) \in Part(s)
  <2>1. PICK m : m = k + 2
    OBVIOUS
  <2>2. PICK n : n = Len(s)
    OBVIOUS
  <2>3. m \in 1..(Len(s) + 1) /\ n \in 0..Len(s)
    BY <1>3, <1>6, <2>1, <2>2
  <2>4. SubSeq(s, m, n) \in Part(s)
    BY <2>3 DEF Part
  <2> QED
    BY <2>1, <2>2, <2>4
<1> QED
  BY <1>2, <1>5, <1>6, Zenon DEF s

\* What the node's own connection may hold after a send with the warning w.
AfterSend(s, w) == {s, Append(s, w)} \cup {Append(t, EOF) : t \in Part(s)}

\* send_warning_to leaves one of these on the node's own stream.
LEMMA SendToItselfLeaves ==
    ASSUME stream \in [Client -> Seq(Warning \cup {CONNECT, EOF})],
           NEW w, SendToItself(w)
    PROVE  \E u \in AfterSend(SelfConnected, w) :
              stream' = [stream EXCEPT ![SELF] = u]
<1> DEFINE s == SelfConnected
<1>1. s \in Seq(Warning \cup {CONNECT, EOF})
  BY DEF SelfConnected, Client
<1>2. \/ stream' = [stream EXCEPT ![SELF] = Append(s, w)]
      \/ stream' = [stream EXCEPT ![SELF] = s]
      \/ \E k \in 0..Len(s) :
            stream' = [stream EXCEPT ![SELF] = Append(SubSeq(s, 1, k), EOF)]
  BY Zenon DEF SendToItself
<1> HIDE DEF s
<1>3. 1 \in 1..(Len(s) + 1)
  BY <1>1
<1>4. \A k \in 0..Len(s) : SubSeq(s, 1, k) \in Part(s)
  BY <1>3 DEF Part
<1> QED
  BY <1>2, <1>4, Zenon DEF AfterSend, s

\* It holds at most the new warning besides what was there.
LEMMA InAfterSend ==
    ASSUME NEW s \in Seq(Warning \cup {CONNECT, EOF}), NEW w \in Warning,
           NEW u \in AfterSend(s, w)
    PROVE  /\ u \in Seq(Warning \cup {CONNECT, EOF})
           /\ In(u) \subseteq In(s) \cup {w}
           /\ Once(s) /\ w \notin In(s) => Once(u)
<1>1. CASE u = s
  BY <1>1
<1>2. CASE u = Append(s, w)
  <2>1. u \in Seq(Warning \cup {CONNECT, EOF})
    BY <1>2
  <2> QED
    BY <1>2, <2>1, InAppend
<1>3. ASSUME NEW t \in Part(s), u = Append(t, EOF)
      PROVE  /\ u \in Seq(Warning \cup {CONNECT, EOF})
             /\ In(u) \subseteq In(s) \cup {w}
             /\ Once(s) /\ w \notin In(s) => Once(u)
  <2>1. /\ t \in Seq(Warning \cup {CONNECT, EOF})
        /\ In(t) \subseteq In(s)
        /\ Once(s) => Once(t)
    BY InPart
  <2>2. In(u) = In(t) /\ (Once(t) => Once(u))
    BY <1>3, <2>1, InAppendMark, Marks
  <2>3. u \in Seq(Warning \cup {CONNECT, EOF})
    BY <1>3, <2>1
  <2> QED
    BY <2>1, <2>2, <2>3
<1> QED
  BY <1>1, <1>2, <1>3, Zenon DEF AfterSend

-----------------------------------------------------------------------------
(* The threads, and what they use *)

\* While main is here, tp_shutdown has not finished joining.
Joining == {"wait", "sentinels", "join"}

\* A thread that is to handle a warning has one in its hands.
HandsInv ==
    /\ listener.pc = "recv" => listener.client \in Client
    /\ listener.pc \in {"log", "submit", "enqueue"} =>
          listener.w \in Warning /\ listener.client \in Client
    /\ \A k \in Worker : worker[k].pc = "send" => worker[k].w \in Warning

\* Past the join every worker has ended, and up to the destruction of the queue
\* nothing has been freed.
JoinInv ==
    /\ main \notin Joining => \A k \in Worker : worker[k].pc = "done"
    /\ main \in Joining \cup {"queue"} => alive = Object

\* The inductive invariant.
Inv == TypeOK /\ HandsInv /\ JoinInv

\* The started propagator satisfies Inv.
LEMMA InitInv == Init => Inv
<1>1. Cardinality(Worker) \in Nat
  BY CentralPropagatorAssumption, FS_CardinalityType
<1> SUFFICES ASSUME Init PROVE Inv
  OBVIOUS
<1>2. TypeOK
  <2>1. MaxConnections \in Nat
    BY CentralPropagatorAssumption
  <2>2. /\ sentinels \in 0..Cardinality(Worker) /\ missing \in 0..sentinels
        /\ connections \in 0..MaxConnections
    BY <1>1, <2>1 DEF Init
  <2>3. /\ queue \in Seq(Warning \cup {NULL})
        /\ stream \in [Client -> Seq(Warning \cup {CONNECT, EOF})]
    BY DEF Init
  <2>4. worker \in [Worker -> [pc : {"dequeue", "send", "done"},
                               w : Warning \cup {NULL}]]
    BY DEF Init, At
  <2> QED
    BY <2>2, <2>3, <2>4 DEF Init, TypeOK
<1>3. HandsInv
  BY DEF Init, HandsInv, At
<1>4. JoinInv
  BY DEF Init, JoinInv, Joining
<1> QED
  BY <1>2, <1>3, <1>4 DEF Inv

\* What the outside does preserves Inv.
LEMMA OutsideInv == Inv /\ Outside => Inv'
<1> SUFFICES ASSUME Inv, Outside PROVE Inv'
  OBVIOUS
<1> USE DEF Inv, TypeOK, HandsInv, JoinInv, Joining, shutdownVars, netVars,
        heapVars
<1>1. CASE RequestExit
  BY <1>1 DEF RequestExit
<1>2. CASE Connect
  BY <1>2, CentralPropagatorAssumption DEF Connect, Client
<1>3. CASE Disconnect
  BY <1>3 DEF Disconnect, Client
<1>4. ASSUME NEW w \in Warning, Arrive(w)
      PROVE  Inv'
  BY <1>4 DEF Arrive, Client
<1> QED
  BY <1>1, <1>2, <1>3, <1>4 DEF Outside

\* The listener preserves Inv: it never changes a worker or frees an object.
LEMMA ListenerInv == Inv /\ ListenerStep => Inv'
<1> SUFFICES ASSUME Inv, ListenerStep PROVE Inv'
  OBVIOUS
<1> USE DEF Inv, TypeOK, HandsInv, JoinInv, Joining, shutdownVars, netVars,
        heapVars, ListenerAt
<1>1. CASE ListenerDangles
  BY <1>1 DEF ListenerDangles
<1>2. CASE ListenerCheck
  BY <1>2 DEF ListenerCheck
<1>3. ASSUME NEW c \in Client, ListenerAccept(c)
      PROVE  Inv'
  <2>1. stream' \in [Client -> Seq(Warning \cup {CONNECT, EOF})]
    BY <1>3 DEF ListenerAccept
  <2>2. listener' = [listener EXCEPT !.pc = "recv", !.client = c]
    BY <1>3 DEF ListenerAccept
  <2> QED
    BY <1>3, <2>1, <2>2 DEF ListenerAccept
<1>4. CASE ListenerAcceptFails
  BY <1>4 DEF ListenerAcceptFails
<1>5. CASE ListenerReceive
  <2>1. listener.client \in Client
    BY <1>5 DEF ListenerReceive
  <2>2. /\ Head(stream[listener.client]) \in Warning
        /\ stream' = [stream EXCEPT ![listener.client] = Tail(@)]
        /\ stream[listener.client] # <<>>
        /\ listener' = [listener EXCEPT !.pc = "log",
                                        !.w = Head(stream[listener.client])]
        /\ allocated' = allocated \cup {Head(stream[listener.client])}
    BY <1>5 DEF ListenerReceive
  <2>3. stream' \in [Client -> Seq(Warning \cup {CONNECT, EOF})]
    BY <2>1, <2>2
  <2> QED
    BY <1>5, <2>1, <2>2, <2>3 DEF ListenerReceive
<1>6. CASE ListenerClientGone
  <2>1. listener.client \in Client
    BY <1>6 DEF ListenerClientGone
  <2>2. stream' \in [Client -> Seq(Warning \cup {CONNECT, EOF})]
    <3>1. CASE stream' = stream
      BY <3>1
    <3>2. CASE /\ stream[listener.client] # <<>>
               /\ stream' = [stream EXCEPT ![listener.client] = Tail(@)]
      BY <2>1, <3>2
    <3> QED
      BY <1>6, <3>1, <3>2 DEF ListenerClientGone
  <2>3. listener' = [listener EXCEPT !.pc = "check", !.client = NULL]
    BY <1>6 DEF ListenerClientGone
  <2> QED
    BY <1>6, <2>2, <2>3 DEF ListenerClientGone
<1>7. CASE ListenerLog
  BY <1>7 DEF ListenerLog
<1>8. CASE ListenerSubmit
  BY <1>8 DEF ListenerSubmit
<1>9. CASE ListenerDrop
  BY <1>9 DEF ListenerDrop, warning_destroy
<1>10. CASE ListenerEnqueue
  <2>1. queue' \in Seq(Warning \cup {NULL})
    BY <1>10 DEF ListenerEnqueue
  <2>2. listener' = [listener EXCEPT !.pc = "recv", !.w = NULL]
    BY <1>10 DEF ListenerEnqueue
  <2> QED
    BY <1>10, <2>1, <2>2 DEF ListenerEnqueue
<1>11. CASE ListenerGivesUp
  <2>1. listener.client \in Client
    BY <1>11 DEF ListenerGivesUp
  <2>2. stream' \in [Client -> Seq(Warning \cup {CONNECT, EOF})]
    <3>1. stream \in [Client -> Seq(Warning \cup {CONNECT, EOF})]
      OBVIOUS
    <3> HIDE DEF Inv, TypeOK, HandsInv, JoinInv
    <3>2. PICK t \in Part(stream[listener.client]) :
             stream' = [stream EXCEPT ![listener.client] = t]
      BY <1>11, <2>1, <3>1, GivesUpLeaves
    <3>3. t \in Seq(Warning \cup {CONNECT, EOF})
      BY <2>1, <3>1, InPart
    <3> QED
      BY <2>1, <3>1, <3>2, <3>3
  <2>3. listener' = [listener EXCEPT !.pc = "check", !.client = NULL]
    BY <1>11 DEF ListenerGivesUp
  <2>4. open' \subseteq Client
    BY <1>11 DEF ListenerGivesUp
  <2>5. UNCHANGED <<shutdownVars, queue, worker, connections, arrived, heapVars,
                    dispatched, dangling>>
    BY <1>11 DEF ListenerGivesUp
  <2> QED
    BY <2>2, <2>3, <2>4, <2>5
<1>12. CASE ListenerStrands
  BY <1>12 DEF ListenerStrands
<1> QED
  BY <1>1, <1>2, <1>3, <1>4, <1>5, <1>6, <1>7, <1>8, <1>9, <1>10, <1>11, <1>12
     DEF ListenerStep

\* The workers preserve Inv: a worker that has ended stays so.
LEMMA WorkerInv ==
    ASSUME Inv, NEW k \in Worker, WorkerStep(k)
    PROVE  Inv'
<1> USE DEF Inv, TypeOK, HandsInv, JoinInv, Joining, shutdownVars, netVars,
        heapVars, At
<1>1. CASE WorkerDequeue(k)
  BY <1>1 DEF WorkerDequeue
<1>2. CASE dispatch_job_fn(k)
  <2>1. worker[k].w \in Warning
    BY <1>2 DEF dispatch_job_fn
  <2>2. /\ stream' \in [Client -> Seq(Warning \cup {CONNECT, EOF})]
        /\ open' \subseteq Client
    <3>1. CASE UNCHANGED <<stream, open>>
      BY <3>1
    <3>2. CASE SendToItself(worker[k].w)
      <4>1. /\ SELF \in Client
            /\ stream \in [Client -> Seq(Warning \cup {CONNECT, EOF})]
        BY DEF Client
      <4>2. open' \subseteq Client
        BY <3>2, <4>1 DEF SendToItself
      <4>3. SelfConnected \in Seq(Warning \cup {CONNECT, EOF})
        BY <4>1 DEF SelfConnected
      <4> HIDE DEF Inv, TypeOK, HandsInv, JoinInv
      <4>4. PICK u \in AfterSend(SelfConnected, worker[k].w) :
               stream' = [stream EXCEPT ![SELF] = u]
        BY <3>2, <4>1, SendToItselfLeaves
      <4>5. u \in Seq(Warning \cup {CONNECT, EOF})
        BY <2>1, <4>3, InAfterSend
      <4> QED
        BY <4>1, <4>2, <4>4, <4>5
    <3> QED
      BY <1>2, <3>1, <3>2 DEF dispatch_job_fn
  <2>3. /\ allocated' \subseteq Warning /\ freedTwice' \subseteq Warning
        /\ UNCHANGED stranded
    BY <1>2, <2>1 DEF dispatch_job_fn, warning_destroy
  <2>4. worker' = [worker EXCEPT ![k] = [pc |-> "dequeue", w |-> NULL]]
    BY <1>2 DEF dispatch_job_fn
  <2> QED
    BY <1>2, <2>1, <2>2, <2>3, <2>4 DEF dispatch_job_fn
<1> QED
  BY <1>1, <1>2 DEF WorkerStep

\* A sentinel leaves the queue a sequence of warnings and sentinels.
LEMMA SentinelQueued ==
    ASSUME queue \in Seq(Warning \cup {NULL}), MainSendsSentinel
    PROVE  queue' \in Seq(Warning \cup {NULL})
  <1>1. queue' = queue \/ queue' = Append(queue, NULL)
    BY DEF MainSendsSentinel
  <1>2. Append(queue, NULL) \in Seq(Warning \cup {NULL})
    OBVIOUS
  <1> QED
    BY <1>1, <1>2

\* The main thread preserves Inv: it leaves the join only when all workers have
\* ended, and frees only after that.
LEMMA MainInv == Inv /\ MainStep => Inv'
<1> SUFFICES ASSUME Inv, MainStep PROVE Inv'
  OBVIOUS
<1> USE DEF Inv, TypeOK, HandsInv, JoinInv, Joining, shutdownVars, netVars,
        heapVars
<1>0. Cardinality(Worker) \in Nat
  BY CentralPropagatorAssumption, FS_CardinalityType
<1>1. CASE MainWakes
  <2>1. Pooled \ {NULL} \subseteq Warning
    BY DEF Pooled
  <2> QED
    BY <1>1, <2>1 DEF MainWakes
<1>2. CASE MainSendsSentinel
  <2>1. queue' \in Seq(Warning \cup {NULL})
    <3>1. queue \in Seq(Warning \cup {NULL})
      OBVIOUS
    <3> HIDE DEF Inv, TypeOK, HandsInv, JoinInv
    <3> QED
      BY <1>2, <3>1, SentinelQueued
  <2>2. sentinels' \in 0..Cardinality(Worker) /\ missing' \in 0..sentinels'
    BY <1>0, <1>2 DEF MainSendsSentinel
  <2> QED
    BY <1>2, <2>1, <2>2 DEF MainSendsSentinel
<1>3. CASE MainJoins
  BY <1>3 DEF MainJoins
<1>4. CASE MainDestroysQueue
  BY <1>4 DEF MainDestroysQueue, Release
<1>5. CASE MainFreesPool
  BY <1>5 DEF MainFreesPool, Release
<1>6. CASE MainFreesDispatcher
  BY <1>6 DEF MainFreesDispatcher, Release
<1>7. CASE cp_context_destroy
  BY <1>7 DEF cp_context_destroy, Release
<1>8. CASE connections_cleanup
  BY <1>8 DEF connections_cleanup, Release, Client
<1>9. CASE WSACleanup
  BY <1>9 DEF WSACleanup, Release
<1>10. CASE MainReturns
  BY <1>10 DEF MainReturns, Release
<1> QED
  BY <1>1, <1>2, <1>3, <1>4, <1>5, <1>6, <1>7, <1>8, <1>9, <1>10 DEF MainStep

\* Inv holds in every reachable state.
LEMMA InvHolds == Spec => []Inv
<1>1. Inv /\ [Next]_vars => Inv'
  <2> SUFFICES ASSUME Inv, [Next]_vars PROVE Inv'
    OBVIOUS
  <2>1. CASE UNCHANGED vars
    BY <2>1 DEF vars, Inv, TypeOK, HandsInv, JoinInv, shutdownVars, netVars,
       heapVars
  <2> QED
    BY <2>1, OutsideInv, ListenerInv, WorkerInv, MainInv DEF Next
<1> QED
  BY <1>1, InitInv, PTL DEF Spec

\* Type correctness of a Central Propagator.
THEOREM CentralTypeCorrect == Spec => []TypeOK
BY InvHolds, PTL DEF Inv

\* For any number of workers, tp_shutdown frees the pool, and main the context
\* and the connections, only when no worker can use them any more.
THEOREM WorkersUseLiveObjectsHolds == Spec => []WorkersUseLiveObjects
<1>1. Inv => WorkersUseLiveObjects
  <2> SUFFICES ASSUME Inv, NEW k \in Worker
               PROVE  WorkerNeeds(k) \subseteq alive
    BY DEF WorkersUseLiveObjects
  <2>1. worker[k].pc \in {"dequeue", "send", "done"}
    BY DEF Inv, TypeOK
  <2>2. CASE worker[k].pc = "done"
    BY <2>2, Zenon DEF WorkerNeeds
  <2>3. CASE worker[k].pc # "done"
    <3>1. alive = Object
      BY <2>3 DEF Inv, JoinInv
    <3>2. WorkerNeeds(k) \subseteq Object
      BY <2>1, <2>3, Zenon DEF WorkerNeeds, Object
    <3> QED
      BY <3>1, <3>2
  <2> QED
    BY <2>2, <2>3
<1> QED
  BY <1>1, InvHolds, PTL

-----------------------------------------------------------------------------
(* Who owns a Warning *)

\* The warnings that are still on a connection.
Streams == In(stream[UP]) \cup In(stream[SELF])

\* A thread has a warning in its hands only where its code has one.
EmptyHandsInv ==
    /\ listener.pc \in {"check", "accept", "recv", "done"} => listener.w = NULL
    /\ \A k \in Worker : worker[k].pc # "send" => worker[k].w = NULL

\* A warning is in one place: on a stream, with the listener, in the queue or
\* with a worker.
OnePlaceInv ==
    /\ Once(stream[UP]) /\ Once(stream[SELF]) /\ Once(queue)
    /\ In(stream[UP]) \cap In(stream[SELF]) = {}
    /\ In(queue) \cap Streams = {}
    /\ listener.w \notin Streams \cup In(queue)
    /\ \A k \in Worker : worker[k].w \in Warning =>
          worker[k].w \notin Streams \cup In(queue) \cup {listener.w}
    /\ \A k, l \in Worker : worker[k].w \in Warning /\ worker[k].w = worker[l].w => k = l

\* A warning that the outside has not sent is in none of them.
ArrivedInv ==
    /\ Streams \cup In(queue) \subseteq arrived
    /\ listener.w \in Warning => listener.w \in arrived
    /\ \A k \in Worker : worker[k].w \in Warning => worker[k].w \in arrived

\* What a thread or the queue holds is allocated.
HeapInv ==
    /\ In(queue) \subseteq allocated
    /\ listener.w \in Warning => listener.w \in allocated
    /\ \A k \in Worker : worker[k].w \in Warning => worker[k].w \in allocated
    /\ NoDoubleFree

\* Every warning has one owner, and is allocated while it has one.
OwnerInv == EmptyHandsInv /\ OnePlaceInv /\ ArrivedInv /\ HeapInv /\ NothingLeaked

-----------------------------------------------------------------------------
(* What tp_shutdown has accepted *)

\* Before the exit request there are no sentinels.
BeforeShutdown ==
    /\ ~shutting_down
    /\ \A k \in Worker : worker[k].pc # "done"
    /\ \A i \in 1..Len(queue) : queue[i] # NULL

\* The tasks of the moment are dispatched, with a worker, or in the queue ahead
\* of every sentinel, so that none is left when a worker has met one.
DuringShutdown ==
    /\ accepted \subseteq dispatched \cup InWorkers \cup In(queue)
    /\ \A i, j \in 1..Len(queue) : queue[i] \in accepted /\ queue[j] = NULL => i < j
    /\ (\E k \in Worker : worker[k].pc = "done") => In(queue) \cap accepted = {}

\* A task that the listener is still to enqueue is none of them.
LateInv ==
    /\ shutting_down
    /\ listener.pc = "enqueue" => listener.w \notin accepted

\* What tp_shutdown still has to see done, by the position of main.
ShutdownInv ==
    /\ main = "wait" => BeforeShutdown
    /\ main # "wait" => LateInv
    /\ main \in {"sentinels", "join"} => DuringShutdown
    /\ main \notin Joining => accepted \subseteq dispatched

\* The inductive invariant of the three theorems below.
IInv == Inv /\ OwnerInv /\ ShutdownInv

-----------------------------------------------------------------------------
(* Every step keeps the owners apart *)

\* A step that does not touch the streams, the queue, the threads' hands or the
\* heap leaves all owners as they are.
LEMMA OwnerFrame ==
    ASSUME OwnerInv, UNCHANGED <<stream, queue, listener, worker, arrived, heapVars>>,
           alive' \subseteq alive
    PROVE  OwnerInv'
BY DEF OwnerInv, EmptyHandsInv, OnePlaceInv, ArrivedInv, HeapInv, NoDoubleFree,
   NothingLeaked, InWorkers, InQueue, Streams, heapVars

\* In the started propagator there are no warnings.
LEMMA InitOwner == Init => OwnerInv
<1> SUFFICES ASSUME Init PROVE OwnerInv
  OBVIOUS
<1>1. /\ stream[UP] = <<>> /\ stream[SELF] = <<>> /\ queue = <<>>
      /\ listener.w = NULL
      /\ \A k \in Worker : worker[k].w = NULL
      /\ allocated = {} /\ freedTwice = {}
  BY DEF Init, Client, At
<1> QED
  BY <1>1, InEmpty, Marks DEF OwnerInv, EmptyHandsInv, OnePlaceInv, ArrivedInv,
     HeapInv, NoDoubleFree, NothingLeaked, InWorkers, InQueue, Streams

\* The parent appends to its stream marks and warnings that are new.
LEMMA OutsideOwner == Inv /\ OwnerInv /\ Outside => OwnerInv'
<1> SUFFICES ASSUME Inv, OwnerInv, Outside PROVE OwnerInv'
  OBVIOUS
<1>1. CASE RequestExit
  BY <1>1, OwnerFrame DEF RequestExit, netVars
<1> DEFINE s == stream[UP]
<1>2. s \in Seq(Warning \cup {CONNECT, EOF})
  BY Marks DEF Inv, TypeOK
<1>3. ASSUME NEW e, stream' = [stream EXCEPT ![UP] = Append(@, e)]
      PROVE  stream'[UP] = Append(s, e) /\ stream'[SELF] = stream[SELF]
  BY <1>3, Marks DEF Inv, TypeOK
<1>4. ASSUME NEW e, e \notin Warning,
             stream' = [stream EXCEPT ![UP] = Append(@, e)],
             UNCHANGED <<queue, listener, worker, arrived, heapVars, alive>>
      PROVE  OwnerInv'
  <2>1. stream'[UP] = Append(s, e) /\ stream'[SELF] = stream[SELF]
    BY <1>3, <1>4
  <2>2. e \notin In(s)
    BY <1>4 DEF In
  <2>3. In(Append(s, e)) = In(s) /\ (Once(s) => Once(Append(s, e)))
    BY <1>2, <1>4, <2>2, InAppend
  <2> QED
    BY <1>4, <2>1, <2>3 DEF OwnerInv, EmptyHandsInv, OnePlaceInv,
       ArrivedInv, HeapInv, NoDoubleFree, NothingLeaked, InWorkers, InQueue,
       Streams, heapVars
<1>5. CASE Connect
  BY <1>4, <1>5, Marks DEF Connect, shutdownVars
<1>6. CASE Disconnect
  BY <1>4, <1>6, Marks DEF Disconnect, shutdownVars
<1>7. ASSUME NEW w \in Warning, Arrive(w)
      PROVE  OwnerInv'
  <2>1. /\ w \notin arrived /\ arrived' = arrived \cup {w}
        /\ UNCHANGED <<queue, listener, worker, heapVars, alive>>
        /\ stream' = [stream EXCEPT ![UP] = Append(@, w)]
    BY <1>7 DEF Arrive, shutdownVars
  <2>2. w \notin Streams \cup In(queue) \cup {listener.w}
    BY <1>7, <2>1 DEF OwnerInv, ArrivedInv
  <2>3. \A k \in Worker : worker[k].w # w
    BY <1>7, <2>1 DEF OwnerInv, ArrivedInv
  <2>4. stream'[UP] = Append(s, w) /\ stream'[SELF] = stream[SELF]
    BY <1>3, <2>1
  <2>5. In(stream'[UP]) = In(s) \cup {w}
    BY <1>2, <1>7, <2>4, InAppend
  <2>6. Once(stream'[UP])
    BY <1>2, <2>2, <2>4, InAppend DEF OwnerInv, OnePlaceInv, Streams
  <2>7. EmptyHandsInv' /\ HeapInv' /\ NothingLeaked'
    BY <2>1 DEF OwnerInv, EmptyHandsInv, HeapInv, NoDoubleFree, NothingLeaked,
       InWorkers, InQueue, heapVars
  <2>8. OnePlaceInv'
    BY <2>1, <2>2, <2>3, <2>4, <2>5, <2>6 DEF OwnerInv, OnePlaceInv, Streams
  <2>9. ArrivedInv'
    BY <2>1, <2>4, <2>5 DEF OwnerInv, ArrivedInv, Streams
  <2> QED
    BY <2>7, <2>8, <2>9 DEF OwnerInv
<1> QED
  BY <1>1, <1>5, <1>6, <1>7 DEF Outside

\* A warning goes from a stream to the listener, and from the listener to the
\* queue or away.
LEMMA ListenerOwner == Inv /\ OwnerInv /\ ListenerStep => OwnerInv'
<1> SUFFICES ASSUME Inv, OwnerInv, ListenerStep PROVE OwnerInv'
  OBVIOUS
<1>1. ASSUME UNCHANGED <<stream, queue, worker, arrived, heapVars, alive>>,
             listener'.w = listener.w,
             listener'.pc \in {"check", "accept", "recv", "done"} => listener.w = NULL
      PROVE  OwnerInv'
  BY <1>1 DEF OwnerInv, EmptyHandsInv, OnePlaceInv, ArrivedInv, HeapInv,
     NoDoubleFree, NothingLeaked, InWorkers, InQueue, Streams, heapVars
<1>2. listener.pc \in {"check", "accept", "recv"} => listener.w = NULL
  BY DEF OwnerInv, EmptyHandsInv
<1> USE DEF Inv, TypeOK
<1>3. CASE ListenerDangles \/ ListenerCheck \/ ListenerAcceptFails \/ ListenerLog
           \/ ListenerSubmit
  BY <1>1, <1>2, <1>3 DEF ListenerDangles, ListenerCheck, ListenerAcceptFails,
     ListenerLog, ListenerSubmit, ListenerAt, shutdownVars, netVars
<1>4. ASSUME NEW c \in Client, stream[c] # <<>>
      PROVE  /\ stream[c] \in Seq(Warning \cup {CONNECT, EOF})
             /\ In(stream[c]) = In(Tail(stream[c])) \cup ({Head(stream[c])} \cap Warning)
             /\ Once(Tail(stream[c]))
             /\ Head(stream[c]) \notin In(Tail(stream[c]))
  <2>1. stream[c] \in Seq(Warning \cup {CONNECT, EOF})
    OBVIOUS
  <2>2. Once(stream[c])
    BY Marks DEF OwnerInv, OnePlaceInv
  <2> QED
    BY <1>4, <2>1, <2>2, InTail
<1>5. ASSUME NEW c \in Client, stream[c] # <<>>,
             stream' = [stream EXCEPT ![c] = Tail(@)]
      PROVE  \A d \in Client : stream'[d] = IF d = c THEN Tail(stream[c]) ELSE stream[d]
  BY <1>5
<1>6. ASSUME NEW c \in Client, stream[c] # <<>>, Head(stream[c]) \notin Warning,
             stream' = [stream EXCEPT ![c] = Tail(@)],
             UNCHANGED <<queue, worker, arrived, heapVars, alive>>,
             listener.w = NULL, listener'.w = NULL
      PROVE  OwnerInv'
  <2>1. \A d \in Client : /\ In(stream'[d]) = In(stream[d])
                          /\ Once(stream'[d])
    <3>1. /\ In(stream[c]) = In(Tail(stream[c]))
          /\ Once(Tail(stream[c]))
      <4>1. {Head(stream[c])} \cap Warning = {}
        BY <1>6
      <4> HIDE DEF Inv, TypeOK
      <4> QED
        BY <1>4, <1>6, <4>1
    <3>2. \A d \in Client : stream'[d] = IF d = c THEN Tail(stream[c]) ELSE stream[d]
      BY <1>5, <1>6
    <3>3. \A d \in Client : Once(stream[d])
      BY Marks DEF OwnerInv, OnePlaceInv
    <3> QED
      BY <3>1, <3>2, <3>3
  <2>2. Streams' = Streams
    BY <2>1, Marks DEF Streams
  <2>3. EmptyHandsInv' /\ ArrivedInv' /\ HeapInv' /\ NothingLeaked'
    BY <1>6, <2>2, Marks DEF OwnerInv, EmptyHandsInv, ArrivedInv, HeapInv,
       NoDoubleFree, NothingLeaked, InWorkers, InQueue, heapVars
  <2>4. OnePlaceInv'
    BY <1>6, <2>1, <2>2, Marks DEF OwnerInv, OnePlaceInv
  <2> QED
    BY <2>3, <2>4 DEF OwnerInv
<1>7. ASSUME NEW c \in Client, ListenerAccept(c)
      PROVE  OwnerInv'
  BY <1>2, <1>6, <1>7, Marks DEF ListenerAccept, ListenerAt, shutdownVars
<1>8. CASE ListenerClientGone
  <2>1. listener.client \in Client /\ listener.w = NULL /\ listener'.w = NULL
    BY <1>2, <1>8 DEF ListenerClientGone, ListenerAt, HandsInv
  <2>2. UNCHANGED <<queue, worker, arrived, heapVars, alive>>
    BY <1>8 DEF ListenerClientGone, shutdownVars
  <2>3. CASE UNCHANGED stream
    BY <1>1, <2>1, <2>2, <2>3
  <2>4. CASE /\ stream[listener.client] # <<>> /\ Head(stream[listener.client]) = EOF
             /\ stream' = [stream EXCEPT ![listener.client] = Tail(@)]
    BY <1>6, <2>1, <2>2, <2>4, Marks
  <2> QED
    BY <1>8, <2>3, <2>4 DEF ListenerClientGone
<1>9. CASE ListenerReceive
  <2> DEFINE c == listener.client
             w == Head(stream[c])
  <2>1. /\ c \in Client /\ stream[c] # <<>> /\ w \in Warning /\ listener.w = NULL
        /\ stream' = [stream EXCEPT ![c] = Tail(@)]
        /\ listener' = [listener EXCEPT !.pc = "log", !.w = w]
        /\ allocated' = allocated \cup {w}
        /\ UNCHANGED <<queue, worker, arrived, freedTwice, stranded, alive>>
    BY <1>2, <1>9 DEF ListenerReceive, ListenerAt, HandsInv, shutdownVars
  <2>2. listener'.w = w /\ listener'.pc = "log"
    BY <2>1
  <2>3. /\ In(stream[c]) = In(Tail(stream[c])) \cup {w}
        /\ Once(Tail(stream[c])) /\ w \notin In(Tail(stream[c]))
    BY <1>4, <2>1
  <2>4. \A d \in Client : stream'[d] = IF d = c THEN Tail(stream[c]) ELSE stream[d]
    BY <1>5, <2>1
  <2> HIDE DEF w, c
  <2>5. w \in Streams /\ w \in Streams
    BY <2>1, <2>3, Marks DEF Streams
  <2>6. \A d \in Client : /\ In(stream'[d]) = In(stream[d]) \ {w}
                          /\ Once(stream'[d])
    BY <2>1, <2>3, <2>4, Marks DEF OwnerInv, OnePlaceInv
  <2>7. Streams' = Streams \ {w}
    BY <2>6, Marks DEF Streams
  <2>8. EmptyHandsInv' /\ ArrivedInv' /\ HeapInv' /\ NothingLeaked'
    BY <2>1, <2>2, <2>5, <2>7, Marks DEF OwnerInv, EmptyHandsInv, ArrivedInv,
       HeapInv, NoDoubleFree, NothingLeaked, InWorkers, InQueue
  <2>9. OnePlaceInv'
    BY <2>1, <2>2, <2>5, <2>6, <2>7, Marks DEF OwnerInv, OnePlaceInv
  <2> QED
    BY <2>8, <2>9 DEF OwnerInv
<1>10. CASE ListenerDrop
  <2>1. /\ listener.w \in Warning /\ listener'.w = NULL
        /\ allocated' = allocated \ {listener.w}
        /\ freedTwice' = IF listener.w \in allocated THEN freedTwice
                         ELSE freedTwice \cup {listener.w}
        /\ UNCHANGED <<stream, queue, worker, arrived, stranded, alive>>
    BY <1>10 DEF ListenerDrop, ListenerAt, HandsInv, warning_destroy, shutdownVars,
       netVars
  <2> QED
    BY <2>1, Marks DEF OwnerInv, EmptyHandsInv, OnePlaceInv, ArrivedInv, HeapInv,
       NoDoubleFree, NothingLeaked, InWorkers, InQueue, Streams
<1>11. CASE ListenerEnqueue
  <2> DEFINE w == listener.w
  <2>1. /\ w \in Warning /\ listener'.w = NULL
        /\ queue' = Append(queue, w)
        /\ UNCHANGED <<stream, worker, arrived, heapVars, alive>>
    BY <1>11 DEF ListenerEnqueue, ListenerAt, HandsInv, shutdownVars, netVars
  <2>2. w \notin In(queue) /\ Once(queue)
    BY DEF OwnerInv, OnePlaceInv
  <2>3. In(queue') = In(queue) \cup {w} /\ Once(queue')
    BY <2>1, <2>2, InAppend
  <2>4. InQueue' = In(queue')
    <3>1. queue' \in Seq(Warning \cup {NULL})
      BY <2>1
    <3> QED
      BY <3>1, NonNull DEF InQueue
  <2>5. InQueue = In(queue)
    BY NonNull DEF InQueue
  <2> QED
    BY <2>1, <2>2, <2>3, <2>4, <2>5, Marks DEF OwnerInv, EmptyHandsInv,
       OnePlaceInv, ArrivedInv, HeapInv, NoDoubleFree, NothingLeaked, InWorkers,
       Streams, heapVars
<1>12. CASE ListenerGivesUp
  <2> DEFINE c == listener.client
  <2>1. c \in Client /\ listener.w = NULL /\ listener'.w = NULL
    BY <1>2, <1>12 DEF ListenerGivesUp, ListenerAt, HandsInv
  <2>2. UNCHANGED <<queue, worker, arrived, heapVars, alive>>
    BY <1>12 DEF ListenerGivesUp, shutdownVars
  <2>3. stream \in [Client -> Seq(Warning \cup {CONNECT, EOF})]
    OBVIOUS
  <2> HIDE DEF Inv, TypeOK
  <2>4. PICK t \in Part(stream[c]) : stream' = [stream EXCEPT ![c] = t]
    BY <1>12, <2>1, <2>3, GivesUpLeaves
  <2>5. \A d \in Client : Once(stream[d])
    BY Marks DEF OwnerInv, OnePlaceInv
  <2>6. In(t) \subseteq In(stream[c]) /\ Once(t)
    <3>1. stream[c] \in Seq(Warning \cup {CONNECT, EOF})
      BY <2>1, <2>3
    <3> QED
      BY <2>1, <2>5, <3>1, InPart
  <2>7. \A d \in Client : stream'[d] = IF d = c THEN t ELSE stream[d]
    BY <2>1, <2>3, <2>4
  <2>8. \A d \in Client : In(stream'[d]) \subseteq In(stream[d]) /\ Once(stream'[d])
    BY <2>5, <2>6, <2>7
  <2>9. Streams' \subseteq Streams
    BY <2>8, Marks DEF Streams
  <2>10. EmptyHandsInv' /\ ArrivedInv' /\ HeapInv' /\ NothingLeaked'
    BY <2>1, <2>2, <2>9, Marks DEF OwnerInv, EmptyHandsInv, ArrivedInv, HeapInv,
       NoDoubleFree, NothingLeaked, InWorkers, InQueue, heapVars
  <2>11. OnePlaceInv'
    BY <2>1, <2>2, <2>8, <2>9, Marks DEF OwnerInv, OnePlaceInv
  <2> QED
    BY <2>10, <2>11 DEF OwnerInv
<1>13. CASE ListenerStrands
  <2>1. /\ listener.w \in Warning /\ listener'.w = NULL
        /\ stranded' = stranded \cup {listener.w}
        /\ UNCHANGED <<stream, queue, worker, arrived, allocated, freedTwice, alive>>
    BY <1>13 DEF ListenerStrands, ListenerAt, HandsInv, shutdownVars, netVars
  <2> QED
    BY <2>1, Marks DEF OwnerInv, EmptyHandsInv, OnePlaceInv, ArrivedInv, HeapInv,
       NoDoubleFree, NothingLeaked, InWorkers, InQueue, Streams
<1> QED
  BY <1>3, <1>7, <1>8, <1>9, <1>10, <1>11, <1>12, <1>13 DEF ListenerStep

\* A warning goes from the queue to a worker, and from the worker away, perhaps
\* to the propagator's own stream.
LEMMA WorkerOwner ==
    ASSUME Inv, OwnerInv, NEW k \in Worker, WorkerStep(k)
    PROVE  OwnerInv'
<1> USE DEF Inv, TypeOK
<1>1. CASE WorkerDequeue(k)
  <2> DEFINE e == Head(queue)
  <2>1. /\ queue # <<>> /\ queue' = Tail(queue)
        /\ worker[k].pc = "dequeue" /\ worker[k].w = NULL
        /\ UNCHANGED <<stream, listener, arrived, heapVars, alive>>
    BY <1>1 DEF WorkerDequeue, OwnerInv, EmptyHandsInv, shutdownVars, netVars
  <2>2. e \in Warning \cup {NULL} /\ queue' \in Seq(Warning \cup {NULL})
    BY <2>1
  <2>3. /\ In(queue) = In(queue') \cup ({e} \cap Warning)
        /\ Once(queue') /\ e \notin In(queue')
    BY <2>1, InTail DEF OwnerInv, OnePlaceInv
  <2>4. /\ worker'[k].w = e /\ (worker'[k].pc = "send" <=> e # NULL)
        /\ \A l \in Worker : l # k => worker'[l] = worker[l]
    BY <1>1 DEF WorkerDequeue, At
  <2>5. InQueue = In(queue) /\ InQueue' = In(queue')
    BY <2>2, NonNull DEF InQueue
  <2> HIDE DEF e
  <2>6. InWorkers' = InWorkers \cup ({e} \cap Warning)
    <3> HIDE DEF Inv, TypeOK
    <3>1. {worker'[l].w : l \in Worker} \ {NULL} = InWorkers \cup ({e} \ {NULL})
      BY <2>1, <2>4 DEF InWorkers
    <3>2. {e} \ {NULL} = {e} \cap Warning
      BY <2>2, Marks
    <3> QED
      BY <3>1, <3>2 DEF InWorkers
  <2>7. EmptyHandsInv'
    BY <2>1, <2>4 DEF OwnerInv, EmptyHandsInv
  <2>8. OnePlaceInv'
    <3> HIDE DEF Inv, TypeOK
    <3>1. e \in Warning => e \in In(queue)
      BY <2>3
    <3>2. \A l \in Worker : worker'[l].w \in Warning =>
             worker'[l].w \notin Streams \cup In(queue') \cup {listener.w}
      BY <2>1, <2>3, <2>4, <3>1 DEF OwnerInv, OnePlaceInv
    <3>3. \A l \in Worker : l # k /\ worker[l].w \in Warning => worker[l].w # e
      BY <3>1 DEF OwnerInv, OnePlaceInv
    <3>4. \A l, m \in Worker :
             worker'[l].w \in Warning /\ worker'[l].w = worker'[m].w => l = m
      BY <2>4, <3>3 DEF OwnerInv, OnePlaceInv
    <3>5. Streams' = Streams
      BY <2>1 DEF Streams
    <3> QED
      BY <2>1, <2>3, <3>2, <3>4, <3>5 DEF OwnerInv, OnePlaceInv
  <2>9. ArrivedInv' /\ HeapInv'
    BY <2>1, <2>2, <2>3, <2>4 DEF OwnerInv, ArrivedInv, HeapInv, NoDoubleFree,
       Streams, heapVars
  <2>10. NothingLeaked'
    BY <2>1, <2>3, <2>5, <2>6 DEF OwnerInv, NothingLeaked, heapVars
  <2> QED
    BY <2>7, <2>8, <2>9, <2>10 DEF OwnerInv
<1>2. CASE dispatch_job_fn(k)
  <2> DEFINE w == worker[k].w
  <2>1. /\ w \in Warning
        /\ UNCHANGED <<queue, listener, arrived, stranded, alive>>
        /\ allocated' = allocated \ {w}
        /\ freedTwice' = IF w \in allocated THEN freedTwice ELSE freedTwice \cup {w}
        /\ SendToItself(w) \/ UNCHANGED stream
    BY <1>2 DEF dispatch_job_fn, HandsInv, warning_destroy, shutdownVars
  <2>2. /\ worker'[k].w = NULL /\ worker'[k].pc = "dequeue"
        /\ \A l \in Worker : l # k => worker'[l] = worker[l]
    BY <1>2 DEF dispatch_job_fn, At
  <2>3. /\ w \notin Streams \cup In(queue) \cup {listener.w}
        /\ w \in arrived /\ w \in allocated
    BY <2>1 DEF OwnerInv, OnePlaceInv, ArrivedInv, HeapInv
  <2>4. \A l \in Worker : l # k => worker[l].w # w
    BY <2>1 DEF OwnerInv, OnePlaceInv
  <2>5. /\ stream'[UP] = stream[UP]
        /\ In(stream'[SELF]) \subseteq In(stream[SELF]) \cup {w}
        /\ Once(stream'[SELF])
    <3>1. CASE UNCHANGED stream
      BY <3>1 DEF OwnerInv, OnePlaceInv
    <3>2. CASE SendToItself(w)
      <4> DEFINE s == stream[SELF]
                 t == SelfConnected
      <4>1. s \in Seq(Warning \cup {CONNECT, EOF}) /\ Once(s) /\ w \notin In(s)
        BY <2>3, Marks DEF OwnerInv, OnePlaceInv, Streams
      <4>2. t \in Seq(Warning \cup {CONNECT, EOF}) /\ In(t) = In(s) /\ Once(t)
        <5>1. CASE SELF \in open
          BY <4>1, <5>1 DEF SelfConnected
        <5>2. CASE SELF \notin open
          <6>1. t = Append(s, CONNECT)
            BY <5>2 DEF SelfConnected
          <6> QED
            BY <4>1, <6>1, InAppendMark, Marks
        <5> QED
          BY <5>1, <5>2
      <4>3. /\ SELF \in Client /\ UP \in Client /\ UP # SELF
            /\ stream \in [Client -> Seq(Warning \cup {CONNECT, EOF})]
        BY Marks
      <4> HIDE DEF t, s, w, Inv, TypeOK
      <4>4. PICK u \in AfterSend(t, w) : stream' = [stream EXCEPT ![SELF] = u]
        BY <3>2, <4>3, SendToItselfLeaves DEF t
      <4>5. In(u) \subseteq In(t) \cup {w} /\ Once(u)
        BY <2>1, <4>1, <4>2, InAfterSend
      <4>6. stream'[SELF] = u /\ stream'[UP] = stream[UP]
        BY <4>3, <4>4
      <4> QED
        BY <4>2, <4>5, <4>6 DEF s
    <3> QED
      BY <2>1, <3>1, <3>2
  <2> HIDE DEF w
  <2>6. InWorkers \subseteq InWorkers' \cup {w}
    BY <2>2 DEF InWorkers, w
  <2>7. InQueue' = InQueue
    BY <2>1 DEF InQueue
  <2>8. EmptyHandsInv'
    BY <2>1, <2>2 DEF OwnerInv, EmptyHandsInv
  <2>9. OnePlaceInv'
    <3> HIDE DEF Inv, TypeOK
    <3>1. \A l \in Worker : worker'[l].w \in Warning =>
             worker'[l].w \notin Streams' \cup In(queue') \cup {listener'.w}
      BY <2>1, <2>2, <2>4, <2>5, Marks DEF OwnerInv, OnePlaceInv, Streams
    <3>2. \A l, m \in Worker :
             worker'[l].w \in Warning /\ worker'[l].w = worker'[m].w => l = m
      BY <2>2, Marks DEF OwnerInv, OnePlaceInv
    <3>3. /\ In(stream'[UP]) \cap In(stream'[SELF]) = {}
          /\ In(queue') \cap Streams' = {}
          /\ listener'.w \notin Streams' \cup In(queue')
      BY <2>1, <2>3, <2>5 DEF OwnerInv, OnePlaceInv, Streams
    <3> QED
      BY <2>1, <2>5, <3>1, <3>2, <3>3 DEF OwnerInv, OnePlaceInv
  <2>10. ArrivedInv' /\ HeapInv'
    BY <2>1, <2>2, <2>3, <2>4, <2>5, Marks DEF OwnerInv, ArrivedInv, HeapInv,
       NoDoubleFree, Streams
  <2>11. NothingLeaked'
    BY <2>1, <2>6, <2>7 DEF OwnerInv, NothingLeaked
  <2> QED
    BY <2>8, <2>9, <2>10, <2>11 DEF OwnerInv
<1> QED
  BY <1>1, <1>2 DEF WorkerStep

\* The main thread adds sentinels to the queue, destroys it, and closes the
\* propagator's own connection.
LEMMA MainOwner == Inv /\ OwnerInv /\ MainStep => OwnerInv'
<1> SUFFICES ASSUME Inv, OwnerInv, MainStep PROVE OwnerInv'
  OBVIOUS
<1> USE DEF Inv, TypeOK
<1>1. CASE MainWakes \/ MainJoins
  BY <1>1, OwnerFrame DEF MainWakes, MainJoins, netVars
<1>2. CASE MainFreesPool \/ MainFreesDispatcher \/ cp_context_destroy \/ WSACleanup
           \/ MainReturns
  BY <1>2, OwnerFrame DEF MainFreesPool, MainFreesDispatcher, cp_context_destroy,
     WSACleanup, MainReturns, Release, netVars
<1>3. CASE MainSendsSentinel
  <2>1. /\ UNCHANGED <<stream, listener, worker, arrived, heapVars, alive>>
        /\ queue' = queue \/ queue' = Append(queue, NULL)
    BY <1>3 DEF MainSendsSentinel, netVars
  <2>2. /\ In(Append(queue, NULL)) = In(queue)
        /\ Once(queue) => Once(Append(queue, NULL))
    BY InAppendMark, Marks
  <2>3. In(queue') = In(queue) /\ Once(queue')
    BY <2>1, <2>2 DEF OwnerInv, OnePlaceInv
  <2>4. queue' \in Seq(Warning \cup {NULL})
    BY <1>3, SentinelQueued
  <2>5. InQueue' = InQueue
    BY <2>3, <2>4, NonNull DEF InQueue
  <2> QED
    BY <2>1, <2>3, <2>5 DEF OwnerInv, EmptyHandsInv, OnePlaceInv, ArrivedInv,
       HeapInv, NoDoubleFree, NothingLeaked, InWorkers, Streams, heapVars
<1>4. CASE MainDestroysQueue
  <2>1. /\ UNCHANGED <<stream, listener, worker, arrived, heapVars>>
        /\ queue' = <<>> /\ "queue" \notin alive'
    BY <1>4 DEF MainDestroysQueue, Release, netVars
  <2> QED
    BY <2>1, InEmpty DEF OwnerInv, EmptyHandsInv, OnePlaceInv, ArrivedInv,
       HeapInv, NoDoubleFree, NothingLeaked, Streams, heapVars
<1>5. CASE connections_cleanup
  <2>1. /\ UNCHANGED <<queue, listener, worker, arrived, heapVars>>
        /\ alive' \subseteq alive
        /\ UNCHANGED stream \/ stream' = [stream EXCEPT ![SELF] = Append(@, EOF)]
    BY <1>5 DEF connections_cleanup, Release
  <2>2. CASE UNCHANGED stream
    BY <2>1, <2>2, OwnerFrame
  <2>3. CASE stream' = [stream EXCEPT ![SELF] = Append(@, EOF)]
    <3>1. /\ stream'[UP] = stream[UP] /\ stream'[SELF] = Append(stream[SELF], EOF)
          /\ stream[SELF] \in Seq(Warning \cup {CONNECT, EOF})
      BY <2>3, Marks
    <3>3. In(stream'[SELF]) = In(stream[SELF]) /\ Once(stream'[SELF])
      BY <3>1, InAppendMark, Marks DEF OwnerInv, OnePlaceInv
    <3> HIDE DEF Inv, TypeOK
    <3> QED
      BY <2>1, <3>1, <3>3 DEF OwnerInv, EmptyHandsInv, OnePlaceInv, ArrivedInv,
         HeapInv, NoDoubleFree, NothingLeaked, InWorkers, InQueue, Streams, heapVars
  <2> QED
    BY <2>1, <2>2, <2>3
<1> QED
  BY <1>1, <1>2, <1>3, <1>4, <1>5 DEF MainStep

-----------------------------------------------------------------------------
(* Every step keeps the accepted tasks ahead of the sentinels *)

\* The started propagator is not shutting down.
LEMMA InitShutdown == Init => ShutdownInv
BY DEF Init, ShutdownInv, BeforeShutdown, At, Joining

\* Nothing outside the process touches what the shutdown relies on.
LEMMA OutsideShutdown == ShutdownInv /\ Outside => ShutdownInv'
<1> SUFFICES ASSUME ShutdownInv, Outside PROVE ShutdownInv'
  OBVIOUS
<1>1. UNCHANGED <<main, shutting_down, queue, listener, worker, dispatched, accepted>>
  BY DEF Outside, RequestExit, Connect, Disconnect, Arrive, shutdownVars
<1> QED
  BY <1>1 DEF ShutdownInv, BeforeShutdown, LateInv, DuringShutdown, InWorkers

\* The listener adds to the queue only tasks that are not among the accepted.
LEMMA ListenerShutdown == Inv /\ OwnerInv /\ ShutdownInv /\ ListenerStep => ShutdownInv'
<1> SUFFICES ASSUME Inv, OwnerInv, ShutdownInv, ListenerStep PROVE ShutdownInv'
  OBVIOUS
<1>1. UNCHANGED <<main, shutting_down, worker, accepted>>
  BY DEF ListenerStep, ListenerDangles, ListenerCheck, ListenerAccept,
     ListenerAcceptFails, ListenerReceive, ListenerClientGone, ListenerGivesUp,
     ListenerLog, ListenerSubmit, ListenerDrop, ListenerEnqueue, ListenerStrands,
     shutdownVars
<1>2. CASE ListenerEnqueue
  <2> DEFINE w == listener.w
  <2>1. /\ w \in Warning /\ listener.pc = "enqueue" /\ listener'.pc = "recv"
        /\ queue' = Append(queue, w)
        /\ dispatched' = dispatched \ {w}
    BY <1>2 DEF ListenerEnqueue, ListenerAt, Inv, HandsInv, TypeOK
  <2>2. queue \in Seq(Warning \cup {NULL})
    BY DEF Inv, TypeOK
  <2>3. /\ Len(queue') = Len(queue) + 1 /\ Len(queue) \in Nat
        /\ \A i \in 1..Len(queue) : queue'[i] = queue[i]
        /\ queue'[Len(queue) + 1] = w
    BY <2>1, <2>2
  <2>4. In(queue') = In(queue) \cup {w}
    BY <2>1, <2>2, InAppend
  <2>5. w # NULL
    BY <2>1, Marks
  <2> HIDE DEF w
  <2>6. CASE main = "wait"
    <3>1. BeforeShutdown'
      BY <1>1, <2>3, <2>5, <2>6 DEF ShutdownInv, BeforeShutdown
    <3> QED
      BY <1>1, <2>6, <3>1 DEF ShutdownInv, Joining
  <2>7. CASE main # "wait"
    <3>1. w \notin accepted
      BY <2>1, <2>7 DEF ShutdownInv, LateInv, w
    <3>2. LateInv'
      BY <1>1, <2>1, <2>7 DEF ShutdownInv, LateInv
    <3>3. ASSUME DuringShutdown PROVE DuringShutdown'
      <4>1. accepted' \subseteq dispatched' \cup InWorkers' \cup In(queue')
        BY <1>1, <2>1, <2>4, <3>1, <3>3 DEF DuringShutdown, InWorkers
      <4>2. \A i, j \in 1..Len(queue') :
               queue'[i] \in accepted /\ queue'[j] = NULL => i < j
        BY <2>3, <2>5, <3>1, <3>3 DEF DuringShutdown
      <4>3. (\E k \in Worker : worker[k].pc = "done") => In(queue') \cap accepted = {}
        BY <2>4, <3>1, <3>3 DEF DuringShutdown
      <4> QED
        BY <1>1, <4>1, <4>2, <4>3 DEF DuringShutdown
    <3> QED
      BY <1>1, <2>1, <2>7, <3>1, <3>2, <3>3 DEF ShutdownInv
  <2> QED
    BY <2>6, <2>7
<1>3. CASE ~ListenerEnqueue
  <2>1. UNCHANGED <<queue, dispatched>>
    BY <1>3 DEF ListenerStep, ListenerDangles, ListenerCheck, ListenerAccept,
       ListenerAcceptFails, ListenerReceive, ListenerClientGone, ListenerGivesUp,
       ListenerLog, ListenerSubmit, ListenerDrop, ListenerStrands, shutdownVars
  <2>2. listener'.pc = "enqueue" => ~shutting_down
    BY <1>3 DEF ListenerStep, ListenerDangles, ListenerCheck, ListenerAccept,
       ListenerAcceptFails, ListenerReceive, ListenerClientGone, ListenerGivesUp,
       ListenerLog, ListenerSubmit, ListenerDrop, ListenerStrands, Inv, TypeOK
  <2> QED
    BY <1>1, <2>1, <2>2 DEF ShutdownInv, BeforeShutdown, LateInv, DuringShutdown,
       InWorkers
<1> QED
  BY <1>2, <1>3

\* A worker takes tasks from the front of the queue, and dispatches what it took;
\* one that meets a sentinel leaves no accepted task behind.
LEMMA WorkerShutdown ==
    ASSUME Inv, OwnerInv, ShutdownInv, NEW k \in Worker, WorkerStep(k)
    PROVE  ShutdownInv'
<1>0. /\ queue \in Seq(Warning \cup {NULL})
      /\ worker \in [Worker -> [pc : {"dequeue", "send", "done"}, w : Warning \cup {NULL}]]
      /\ accepted \subseteq Warning
  BY DEF Inv, TypeOK
<1>1. CASE WorkerDequeue(k)
  <2> DEFINE e == Head(queue)
  <2>1. /\ queue # <<>> /\ queue' = Tail(queue)
        /\ UNCHANGED <<main, shutting_down, listener, dispatched, accepted>>
        /\ worker[k].pc = "dequeue" /\ worker[k].w = NULL
    BY <1>1 DEF WorkerDequeue, shutdownVars, OwnerInv, EmptyHandsInv
  <2>2. /\ Len(queue) = Len(queue') + 1 /\ Len(queue') \in Nat
        /\ \A i \in 1..Len(queue') : queue'[i] = queue[i + 1]
        /\ e = queue[1] /\ e \in Warning \cup {NULL}
    BY <1>0, <2>1
  <2>3. In(queue) = In(queue') \cup ({e} \cap Warning)
    BY <1>0, <2>1, InTail
  <2>4. /\ worker'[k].w = e
        /\ worker'[k].pc = IF e = NULL THEN "done" ELSE "send"
        /\ \A l \in Worker : l # k => worker'[l] = worker[l]
    BY <1>0, <1>1 DEF WorkerDequeue, At
  <2> HIDE DEF e
  <2>5. InWorkers \cup ({e} \cap Warning) \subseteq InWorkers'
    BY <2>1, <2>4, Marks DEF InWorkers
  <2>6. ASSUME main = "wait" PROVE BeforeShutdown'
    <3>1. e # NULL
      BY <2>2, <2>6 DEF ShutdownInv, BeforeShutdown
    <3> QED
      BY <2>1, <2>2, <2>4, <2>6, <3>1 DEF ShutdownInv, BeforeShutdown
  <2>7. ASSUME DuringShutdown PROVE DuringShutdown'
    <3>1. accepted' \subseteq dispatched' \cup InWorkers' \cup In(queue')
      BY <2>1, <2>3, <2>5, <2>7 DEF DuringShutdown
    <3>2. \A i, j \in 1..Len(queue') :
             queue'[i] \in accepted /\ queue'[j] = NULL => i < j
      <4> SUFFICES ASSUME NEW i \in 1..Len(queue'), NEW j \in 1..Len(queue'),
                          queue'[i] \in accepted, queue'[j] = NULL
                   PROVE  i < j
        OBVIOUS
      <4>1. i + 1 \in 1..Len(queue) /\ j + 1 \in 1..Len(queue)
        BY <2>2
      <4>2. queue[i + 1] \in accepted /\ queue[j + 1] = NULL
        BY <2>2
      <4>3. i + 1 < j + 1
        BY <2>7, <4>1, <4>2 DEF DuringShutdown
      <4> QED
        BY <4>3
    <3>3. CASE e = NULL
      <4>1. ASSUME NEW i \in 1..Len(queue), queue[i] \in accepted
            PROVE  FALSE
        <5>1. 1 \in 1..Len(queue) /\ queue[1] = NULL
          BY <2>2, <3>3
        <5>2. i < 1
          BY <2>7, <4>1, <5>1 DEF DuringShutdown
        <5> QED
          BY <5>2
      <4>2. In(queue') \cap accepted = {}
        BY <2>3, <4>1 DEF In
      <4> QED
        BY <2>1, <3>1, <3>2, <4>2 DEF DuringShutdown
    <3>4. CASE e # NULL
      <4>1. (\E l \in Worker : worker'[l].pc = "done") => In(queue') \cap accepted = {}
        BY <2>3, <2>4, <2>7, <3>4 DEF DuringShutdown
      <4> QED
        BY <2>1, <3>1, <3>2, <4>1 DEF DuringShutdown
    <3> QED
      BY <3>3, <3>4
  <2> QED
    BY <2>1, <2>6, <2>7 DEF ShutdownInv, LateInv
<1>2. CASE dispatch_job_fn(k)
  <2> DEFINE w == worker[k].w
  <2>1. /\ UNCHANGED <<main, shutting_down, queue, listener, accepted>>
        /\ dispatched' = dispatched \cup {w}
        /\ worker[k].pc = "send"
    BY <1>2 DEF dispatch_job_fn, shutdownVars
  <2>2. /\ worker'[k].pc = "dequeue"
        /\ \A l \in Worker : l # k => worker'[l] = worker[l]
    BY <1>0, <1>2 DEF dispatch_job_fn, At
  <2>3. InWorkers \subseteq InWorkers' \cup {w}
    BY <2>2 DEF InWorkers
  <2> HIDE DEF w
  <2>4. BeforeShutdown => BeforeShutdown'
    BY <2>1, <2>2 DEF BeforeShutdown
  <2>5. DuringShutdown => DuringShutdown'
    BY <2>1, <2>2, <2>3 DEF DuringShutdown
  <2> QED
    BY <2>1, <2>4, <2>5 DEF ShutdownInv, LateInv
<1> QED
  BY <1>1, <1>2 DEF WorkerStep

\* The main thread puts its sentinels behind what it has accepted, and leaves the
\* join when every worker has met one.
LEMMA MainShutdown == Inv /\ OwnerInv /\ ShutdownInv /\ MainStep => ShutdownInv'
<1> SUFFICES ASSUME Inv, OwnerInv, ShutdownInv, MainStep PROVE ShutdownInv'
  OBVIOUS
<1>0. /\ queue \in Seq(Warning \cup {NULL})
      /\ accepted \subseteq Warning
  BY DEF Inv, TypeOK
<1>1. CASE MainWakes
  <2>1. /\ main = "wait" /\ main' = "sentinels" /\ shutting_down'
        /\ accepted' = Pooled \ {NULL}
        /\ UNCHANGED <<queue, listener, worker, dispatched>>
    BY <1>1 DEF MainWakes
  <2>2. Pooled \ {NULL} = In(queue) \cup InWorkers
    <3>1. {queue[i] : i \in DOMAIN queue} \ {NULL} = In(queue)
      BY <1>0, NonNull
    <3> QED
      BY <3>1 DEF Pooled, InWorkers
  <2>3. listener.pc = "enqueue" => listener.w \notin In(queue) \cup InWorkers
    BY DEF Inv, HandsInv, OwnerInv, OnePlaceInv, InWorkers
  <2>4. BeforeShutdown
    BY <2>1 DEF ShutdownInv
  <2>5. DuringShutdown'
    BY <2>1, <2>2, <2>4 DEF DuringShutdown, BeforeShutdown, InWorkers
  <2> QED
    BY <2>1, <2>2, <2>3, <2>5 DEF ShutdownInv, LateInv, Joining
<1>2. CASE MainSendsSentinel
  <2>1. /\ main = "sentinels" /\ main' \in {"sentinels", "join"}
        /\ UNCHANGED <<shutting_down, listener, worker, dispatched, accepted>>
        /\ \/ queue' = queue
           \/ queue' = Append(queue, NULL)
    BY <1>2 DEF MainSendsSentinel
  <2>2. DuringShutdown /\ LateInv
    BY <2>1 DEF ShutdownInv
  <2>3. CASE queue' = queue
    BY <2>1, <2>2, <2>3 DEF ShutdownInv, LateInv, DuringShutdown, InWorkers, Joining
  <2>4. CASE queue' = Append(queue, NULL)
    <3>1. In(queue') = In(queue)
      BY <1>0, <2>4, InAppendMark, Marks
    <3>2. /\ Len(queue') = Len(queue) + 1 /\ Len(queue) \in Nat
          /\ \A i \in 1..Len(queue) : queue'[i] = queue[i]
          /\ queue'[Len(queue) + 1] = NULL
      BY <1>0, <2>4
    <3>3. NULL \notin accepted
      BY <1>0, Marks
    <3>4. \A i, j \in 1..Len(queue') :
             queue'[i] \in accepted /\ queue'[j] = NULL => i < j
      BY <2>2, <3>2, <3>3 DEF DuringShutdown
    <3> QED
      BY <2>1, <2>2, <3>1, <3>4 DEF ShutdownInv, LateInv, DuringShutdown, InWorkers,
         Joining
  <2> QED
    BY <2>1, <2>3, <2>4
<1>3. CASE MainJoins
  <2>1. /\ main = "join" /\ main' = "queue"
        /\ \A k \in Worker : worker[k].pc = "done"
        /\ UNCHANGED <<shutting_down, listener, dispatched, accepted>>
    BY <1>3 DEF MainJoins
  <2>2. DuringShutdown /\ LateInv
    BY <2>1 DEF ShutdownInv
  <2>3. InWorkers = {}
    BY <2>1 DEF OwnerInv, EmptyHandsInv, InWorkers
  <2>4. In(queue) \cap accepted = {}
    BY <2>1, <2>2, CentralPropagatorAssumption DEF DuringShutdown
  <2>5. accepted \subseteq dispatched
    BY <2>2, <2>3, <2>4 DEF DuringShutdown
  <2> QED
    BY <2>1, <2>2, <2>5 DEF ShutdownInv, LateInv
<1>4. CASE MainDestroysQueue \/ MainFreesPool \/ MainFreesDispatcher \/ cp_context_destroy
           \/ connections_cleanup \/ WSACleanup \/ MainReturns
  <2>1. /\ main \notin Joining /\ main' \notin Joining
        /\ UNCHANGED <<shutting_down, listener, dispatched, accepted>>
    BY <1>4 DEF MainDestroysQueue, MainFreesPool, MainFreesDispatcher,
       cp_context_destroy, connections_cleanup, WSACleanup, MainReturns, Release, Joining
  <2> QED
    BY <2>1 DEF ShutdownInv, LateInv, Joining
<1> QED
  BY <1>1, <1>2, <1>3, <1>4 DEF MainStep

\* IInv holds in every reachable state.
LEMMA IInvHolds == Spec => []IInv
<1>1. Init => IInv
  BY InitInv, InitOwner, InitShutdown DEF IInv
<1>2. Inv /\ Inv' /\ OwnerInv /\ ShutdownInv /\ [Next]_vars => OwnerInv' /\ ShutdownInv'
  <2> SUFFICES ASSUME Inv, OwnerInv, ShutdownInv, [Next]_vars
               PROVE  OwnerInv' /\ ShutdownInv'
    OBVIOUS
  <2>1. CASE UNCHANGED vars
    <3>1. OwnerInv'
      BY <2>1, OwnerFrame DEF vars, netVars, shutdownVars
    <3>2. ShutdownInv'
      BY <2>1 DEF vars, shutdownVars, ShutdownInv, BeforeShutdown, LateInv,
         DuringShutdown, InWorkers
    <3> QED
      BY <3>1, <3>2
  <2>2. CASE Outside
    BY <2>2, OutsideOwner, OutsideShutdown
  <2>3. CASE ListenerStep
    BY <2>3, ListenerOwner, ListenerShutdown
  <2>4. CASE \E k \in Worker : WorkerStep(k)
    BY <2>4, WorkerOwner, WorkerShutdown
  <2>5. CASE MainStep
    BY <2>5, MainOwner, MainShutdown
  <2> QED
    BY <2>1, <2>2, <2>3, <2>4, <2>5 DEF Next
<1> QED
  BY <1>1, <1>2, InvHolds, PTL DEF Spec, IInv

\* However the exit interleaves with the listener and the workers, no Warning is
\* destroyed twice: from the stream to its destruction it has one owner.
THEOREM NoDoubleFreeHolds == Spec => []NoDoubleFree
<1>1. IInv => NoDoubleFree
  BY DEF IInv, OwnerInv, HeapInv
<1> QED
  BY <1>1, IInvHolds, PTL

\* Until the queue is destroyed no Warning is leaked.
THEOREM NothingLeakedHolds == Spec => []NothingLeaked
<1>1. IInv => NothingLeaked
  BY DEF IInv, OwnerInv
<1> QED
  BY <1>1, IInvHolds, PTL

\* For any number of workers (but at least one) tp_shutdown returns only when
\* every task that was in the pool has been dispatched.
THEOREM AcceptedIsDispatchedHolds == Spec => []AcceptedIsDispatched
<1>1. IInv => AcceptedIsDispatched
  BY DEF IInv, ShutdownInv, AcceptedIsDispatched, Joining
<1> QED
  BY <1>1, IInvHolds, PTL
=============================================================================
