---------------------------- MODULE Propagation ----------------------------
(***************************************************************************)
(* The running system, from the generator of the Data Source to the        *)
(* counters of the Data Destinations.  Every process is already listening; *)
(* shutting processes down is the subject of other modules.                *)
(*                                                                         *)
(*   generator --globalQ--> sender --TCP--> CP listener --pool--> workers  *)
(*      --TCP--> ... --TCP--> DD listener --queue--> processor             *)
(*                                                                         *)
(* Each action is one iteration of a thread's loop, or the part of it      *)
(* between two calls that may block.  A thread-safe queue is a sequence    *)
(* here (module TSQueue shows that it behaves as one).                     *)
(*                                                                         *)
(* A TCP connection is a stretch CONNECT, warnings, EOF of the channel     *)
(* from one process to one node: a listener serves one client until its    *)
(* connection ends and a sender opens a connection to a node only after    *)
(* closing the previous one, so the stretches follow each other.           *)
(*                                                                         *)
(* Every call that may fail, fails: sockets, sends, and malloc wherever it *)
(* is called while a warning is under way.  The warnings that are lost by  *)
(* it are collected in lost; at most MaxFailures steps fail.               *)
(*                                                                         *)
(* A call of send_warning_to is one action here.  What two workers of one  *)
(* process can do to each other's socket between the lookup and the send   *)
(* is the subject of module ConnPool; this module takes for granted that a *)
(* send reaches the node it is meant for or fails.                         *)
(***************************************************************************)
EXTENDS Topology, Naturals, Sequences, FiniteSets

CONSTANTS
    NUMBER_OF_WARNINGS, \* how many warnings the generator makes, with those that
                        \* it has no memory to print and does not count
    Worker,             \* the worker threads of one thread pool
    DS,                 \* the Data Source process, as a peer of connections
    NULL,               \* the sentinel in a queue
    CONNECT, EOF,       \* the two ends of a connection
    MaxFailures         \* bound: in how many steps a call of the system fails

ASSUME PropagationAssumption ==
    /\ NUMBER_OF_WARNINGS \in Nat
    /\ MaxFailures \in Nat
    /\ DS \notin Node
    /\ DS # NoNode

Number == 1..NUMBER_OF_WARNINGS

\* A Warning, without the fields that nothing depends on.
Warning == [id : Number, dest_node : Node]

ASSUME MarkAssumption ==
    /\ NULL \notin Warning
    /\ CONNECT \notin Warning
    /\ EOF \notin Warning
    /\ CONNECT # EOF

Process == Node \cup {DS}

VARIABLES
    stopEvent,      \* hStop of the Data Source
    counter,        \* how many warnings have been generated
    generator,      \* Data Source: where the generator thread is
    globalQ,        \* Data Source: generator to sender
    sender,         \* Data Source: the sender thread
    open,           \* open[p]: the keys of p's connections_map
    severed,        \* severed[p]: those whose connection the peer has closed
    chan,           \* chan[p][n]: what p has sent to n and n has not read
    client,         \* client[n]: the peer that n's listener serves
    pool,           \* pool[n]: the task queue of n's thread pool
    worker,         \* worker[n][k]: worker thread k of n
    queue,          \* queue[d]: the queue of Data Destination d
    warning_log,    \* warning_log[d]: the lines that d has printed
    warning_count,  \* warning_count[d]: d's counter
    failures,       \* how many steps have failed (bounds the model)
    lost            \* the warnings that no destination will print (history)

dsVars  == <<stopEvent, counter, generator, globalQ, sender>>
poolVars == <<open, severed>>
lossVars == <<failures, lost>>
netVars == <<poolVars, chan, lossVars>>
cpVars  == <<pool, worker>>
ddVars  == <<queue, warning_log, warning_count>>
vars    == <<dsVars, netVars, client, cpVars, ddVars>>

\* A thread at some point of its loop, with nothing in hand.
At(point) == [pc |-> point, w |-> NULL, x |-> NoNode]

Init ==
    /\ stopEvent = FALSE
    /\ counter = 0
    /\ generator = "check"
    /\ globalQ = <<>>
    /\ sender = At("check")
    /\ open = [p \in Process |-> {}]
    /\ severed = [p \in Process |-> {}]
    /\ chan = [p \in Process |-> [n \in Node |-> <<>>]]
    /\ client = [n \in Node |-> NoNode]
    /\ pool = [n \in Central |-> <<>>]
    /\ worker = [n \in Central |-> [k \in Worker |-> At("dequeue")]]
    /\ queue = [d \in Destination |-> <<>>]
    /\ warning_log = [d \in Destination |-> <<>>]
    /\ warning_count = [d \in Destination |-> 0]
    /\ failures = 0
    /\ lost = {}

Fails == failures < MaxFailures /\ failures' = failures + 1

Loses(S) == lost' = lost \cup S

-----------------------------------------------------------------------------
(* Sending: send_warning_to and the connection pool. *)

\* What get_or_create_connection leaves in the channel from p to n.
Connected(p, n) ==
    IF n \in open[p] THEN chan[p][n] ELSE Append(chan[p][n], CONNECT)

\* Mutant: the pool compares keys so loosely that any pooled connection fits.
SendsToAnyPooled(p, n, w) ==
    LET m == IF open[p] # {} THEN CHOOSE m \in open[p] : TRUE ELSE n IN
    /\ open' = [open EXCEPT ![p] = @ \cup {m}]
    /\ chan' = [chan EXCEPT ![p][m] = Append(Connected(p, m), w)]
    /\ UNCHANGED <<severed, lossVars>>

\* The connection is in the pool or can be made, and send takes all bytes.
SendSucceeds(p, n, w) ==
    /\ n \notin severed[p]
    /\ open' = [open EXCEPT ![p] = @ \cup {n}]
    /\ chan' = [chan EXCEPT ![p][n] = Append(Connected(p, n), w)]
    /\ UNCHANGED <<severed, lossVars>>

\* get_or_create_connection fails: it has no memory for the key, not even to look
\* it up, or cannot connect.  The pool stays as it is and the caller drops the
\* warning.
ConnectFails(p, n, w) ==
    /\ Fails
    /\ Loses({w})
    /\ UNCHANGED <<poolVars, chan>>

\* There is a connection, old or new, and no memory for the frame.
FrameFails(p, n, w) ==
    /\ Fails
    /\ Loses({w})
    /\ open' = [open EXCEPT ![p] = @ \cup {n}]
    /\ chan' = [chan EXCEPT ![p][n] = Connected(p, n)]
    /\ UNCHANGED severed

\* Mutant: a send whose result is unknown is repeated on a new connection.
SendFailsAndRetries(p, n, w) ==
    /\ Fails
    /\ open' = [open EXCEPT ![p] = @ \cup {n}]
    /\ chan' = [chan EXCEPT ![p][n] = Connected(p, n) \o <<w, EOF, CONNECT, w>>]
    /\ UNCHANGED <<severed, lost>>

\* send fails: close_connection ends the connection, and with it goes what
\* the peer has not received of what was sent on it.  (A new connection that
\* cannot be pooled is closed likewise.)
SendFails(p, n, w) ==
    /\ n \notin severed[p]
    /\ Fails
    /\ open' = [open EXCEPT ![p] = @ \ {n}]
    /\ LET s == Connected(p, n) IN
       \E k \in 0..Len(s) :
          /\ \A i \in (k + 1)..Len(s) : s[i] \in Warning
          /\ chan' = [chan EXCEPT ![p][n] = Append(SubSeq(s, 1, k), EOF)]
          /\ Loses({w} \cup {s[i] : i \in (k + 1)..Len(s)})
    /\ UNCHANGED severed

\* The peer has closed the connection: send takes the bytes for nothing, or fails,
\* and close_connection takes the connection out of the pool.
SendOnSevered(p, n, w) ==
    /\ n \in severed[p]
    /\ Loses({w})
    /\ \/ UNCHANGED poolVars
       \/ /\ open' = [open EXCEPT ![p] = @ \ {n}]
          /\ severed' = [severed EXCEPT ![p] = @ \ {n}]
    /\ UNCHANGED <<chan, failures>>

send_warning_to(p, n, w) ==
    \/ SendSucceeds(p, n, w)
    \/ ConnectFails(p, n, w)
    \/ FrameFails(p, n, w)
    \/ SendFails(p, n, w)
    \/ SendOnSevered(p, n, w)

-----------------------------------------------------------------------------
(* Data Source *)

\* The user presses Enter: SetEvent(hStop).
Stop ==
    /\ ~stopEvent
    /\ stopEvent' = TRUE
    /\ UNCHANGED <<counter, generator, globalQ, sender,
                   netVars, client, cpVars, ddVars>>

\* Mutant: one warning too many.
GeneratesOneMore ==
    /\ generator = "check"
    /\ Destination # {}
    /\ ~stopEvent /\ counter <= NUMBER_OF_WARNINGS
    /\ generator' = "enqueue"
    /\ UNCHANGED <<stopEvent, counter, globalQ, sender,
                   netVars, client, cpVars, ddVars>>

\* Mutant: the generator returns without leaving a sentinel.
GeneratorLeavesNoSentinel ==
    /\ generator = "check"
    /\ Destination # {}
    /\ stopEvent \/ counter = NUMBER_OF_WARNINGS
    /\ generator' = "done"
    /\ UNCHANGED <<stopEvent, counter, globalQ, sender,
                   netVars, client, cpVars, ddVars>>

\* The generator's loop goes on.
GeneratorCheck ==
    /\ generator = "check"
    /\ Destination # {}
    /\ ~stopEvent /\ counter < NUMBER_OF_WARNINGS
    /\ generator' = "enqueue"
    /\ UNCHANGED <<stopEvent, counter, globalQ, sender,
                   netVars, client, cpVars, ddVars>>

\* The loop ends and the thread leaves a sentinel.
GeneratorEnds ==
    /\ generator = "check"
    /\ Destination # {}
    /\ stopEvent \/ counter = NUMBER_OF_WARNINGS
    /\ generator' = "done"
    /\ globalQ' = Append(globalQ, NULL)
    /\ UNCHANGED <<stopEvent, counter, sender, netVars, client, cpVars, ddVars>>

\* The thread returns and there is no sentinel: without a destination it returns
\* before the loop, and the result of the last tsqueue_enqueue is not tested.
GeneratorEndsMute ==
    /\ generator = "check"
    /\ \/ Destination = {} /\ UNCHANGED failures
       \/ Destination # {} /\ (stopEvent \/ counter = NUMBER_OF_WARNINGS) /\ Fails
    /\ generator' = "mute"
    /\ UNCHANGED <<stopEvent, counter, globalQ, sender,
                   poolVars, chan, lost, client, cpVars, ddVars>>

\* A new warning for some destination.
Made(w) ==
    /\ w \in [id : {counter + 1}, dest_node : Destination]
    /\ counter' = counter + 1

\* The loop body: a warning is made and enqueued.
Generate ==
    /\ generator = "enqueue"
    /\ \E w \in Warning : Made(w) /\ globalQ' = Append(globalQ, w)
    /\ generator' = "check"
    /\ UNCHANGED <<stopEvent, sender, netVars, client, cpVars, ddVars>>

\* The loop body when memory is short.  Without a warning, NULL is enqueued, the
\* sender's sentinel, and nothing is counted.  The result of tsqueue_enqueue is
\* not tested: what should be in the queue may not be there.
GenerateFails ==
    /\ generator = "enqueue"
    /\ Fails
    /\ \/ /\ globalQ' \in {globalQ, Append(globalQ, NULL)}
          /\ UNCHANGED <<counter, lost>>
       \/ /\ \E w \in Warning : Made(w) /\ Loses({w})
          /\ UNCHANGED globalQ
    /\ generator' = "check"
    /\ UNCHANGED <<stopEvent, sender, poolVars, chan, client, cpVars, ddVars>>

\* The loop condition of the sender.
SenderCheck ==
    /\ sender.pc = "check"
    /\ sender' = At(IF stopEvent THEN "done" ELSE "dequeue")
    /\ UNCHANGED <<stopEvent, counter, generator, globalQ,
                   netVars, client, cpVars, ddVars>>

\* The blocking dequeue and the test for the sentinel.  Every destination is
\* in the table, so node_find_by_id finds it.
SenderDequeue ==
    /\ sender.pc = "dequeue"
    /\ globalQ # <<>>
    /\ globalQ' = Tail(globalQ)
    /\ LET w == Head(globalQ) IN
       sender' = IF w = NULL
                 THEN At("done")
                 ELSE [pc |-> "climb", w |-> w, x |-> w.dest_node]
    /\ UNCHANGED <<stopEvent, counter, generator,
                   netVars, client, cpVars, ddVars>>

\* One iteration of the loop of find_root, or its exit.
find_root ==
    /\ sender.pc = "climb"
    /\ sender' = IF Parent[sender.x] # NoNode
                 THEN [sender EXCEPT !.x = Parent[@]]
                 ELSE [sender EXCEPT !.pc = "send"]
    /\ UNCHANGED <<stopEvent, counter, generator, globalQ,
                   netVars, client, cpVars, ddVars>>

SenderSend ==
    /\ sender.pc = "send"
    /\ send_warning_to(DS, sender.x, sender.w)
    /\ sender' = At("check")
    /\ UNCHANGED <<stopEvent, counter, generator, globalQ,
                   client, cpVars, ddVars>>

-----------------------------------------------------------------------------
(* Listeners *)

\* accept: a listener without a client takes a pending connection.
Accept(n, p) ==
    /\ client[n] = NoNode
    /\ chan[p][n] # <<>>
    /\ Head(chan[p][n]) = CONNECT
    /\ client' = [client EXCEPT ![n] = p]
    /\ chan' = [chan EXCEPT ![p][n] = Tail(@)]
    /\ UNCHANGED <<dsVars, poolVars, lossVars, cpVars, ddVars>>

\* Mutant: at the end of a stream the listener keeps waiting for that client.
KeepsDeadClient(n, p) ==
    /\ client[n] = p
    /\ chan[p][n] # <<>>
    /\ Head(chan[p][n]) = EOF
    /\ chan' = [chan EXCEPT ![p][n] = Tail(@)]
    /\ UNCHANGED <<dsVars, poolVars, lossVars, client, cpVars, ddVars>>

\* deserialize_warning meets the end of the stream: closesocket(client).
ClientGone(n, p) ==
    /\ client[n] = p
    /\ chan[p][n] # <<>>
    /\ Head(chan[p][n]) = EOF
    /\ client' = [client EXCEPT ![n] = NoNode]
    /\ chan' = [chan EXCEPT ![p][n] = Tail(@)]
    /\ UNCHANGED <<dsVars, poolVars, lossVars, cpVars, ddVars>>

\* The client's stream holds a whole warning.
HasWarning(n, p) ==
    /\ client[n] = p
    /\ chan[p][n] # <<>>
    /\ Head(chan[p][n]) \in Warning

\* deserialize_warning returns NULL for want of memory and closesocket ends the
\* connection: the warning is lost, with what else the connection holds.
ListenerGivesUp(n, p) ==
    /\ HasWarning(n, p)
    /\ Fails
    /\ client' = [client EXCEPT ![n] = NoNode]
    /\ LET s == chan[p][n] IN
       \E k \in 1..Len(s) :
          /\ \A i \in 1..k : s[i] \in Warning
          /\ Loses({s[i] : i \in 1..k})
          /\ \/ /\ k = Len(s)
                /\ chan' = [chan EXCEPT ![p][n] = <<>>]
                /\ severed' = [severed EXCEPT ![p] = @ \cup {n}]
             \/ /\ k < Len(s) /\ s[k + 1] = EOF
                /\ chan' = [chan EXCEPT ![p][n] = SubSeq(s, k + 2, Len(s))]
                /\ UNCHANGED severed
    /\ UNCHANGED <<dsVars, open, cpVars, ddVars>>

\* A listener takes a warning from its client, and it gets no further: there is
\* no memory for the job, the task or the node of the queue.
ListenerDrops(n, p) ==
    /\ HasWarning(n, p)
    /\ Fails
    /\ Loses({Head(chan[p][n])})
    /\ chan' = [chan EXCEPT ![p][n] = Tail(@)]
    /\ UNCHANGED <<dsVars, poolVars, client, cpVars, ddVars>>

\* A Central Propagator reads a warning and submits it to its thread pool.
cp_listener_run(n, p) ==
    /\ HasWarning(n, p)
    /\ pool' = [pool EXCEPT ![n] = Append(@, Head(chan[p][n]))]
    /\ chan' = [chan EXCEPT ![p][n] = Tail(@)]
    /\ UNCHANGED <<dsVars, poolVars, lossVars, client, worker, ddVars>>

\* A Data Destination reads a warning and queues it for its processor.
listener_fn(n, p) ==
    /\ HasWarning(n, p)
    /\ queue' = [queue EXCEPT ![n] = Append(@, Head(chan[p][n]))]
    /\ chan' = [chan EXCEPT ![p][n] = Tail(@)]
    /\ UNCHANGED <<dsVars, poolVars, lossVars, client,
                   cpVars, warning_log, warning_count>>

-----------------------------------------------------------------------------
(* Workers of a Central Propagator: dispatch_job_fn *)

\* The warning that a worker of n takes, and where its climb begins: an
\* unknown destination and n itself both leave hop = n.
StartRouting(n, w) ==
    IF w.dest_node \notin Subtree[n] \/ w.dest_node = n
    THEN [pc |-> "send", w |-> w, x |-> n]
    ELSE [pc |-> "climb", w |-> w, x |-> w.dest_node]

WorkerDequeue(n, k) ==
    /\ worker[n][k].pc = "dequeue"
    /\ pool[n] # <<>>
    /\ pool' = [pool EXCEPT ![n] = Tail(@)]
    /\ worker' = [worker EXCEPT ![n][k] = StartRouting(n, Head(pool[n]))]
    /\ UNCHANGED <<dsVars, netVars, client, ddVars>>

\* One iteration of the climb, or its exit with hop = x.
WorkerClimb(n, k) ==
    /\ worker[n][k].pc = "climb"
    /\ worker' = IF ClimbStops(worker[n][k].x, n)
                 THEN [worker EXCEPT ![n][k].pc = "send"]
                 ELSE [worker EXCEPT ![n][k].x = Parent[@]]
    /\ UNCHANGED <<dsVars, netVars, client, pool, ddVars>>

WorkerSend(n, k) ==
    /\ worker[n][k].pc = "send"
    /\ send_warning_to(n, worker[n][k].x, worker[n][k].w)
    /\ worker' = [worker EXCEPT ![n][k] = At("dequeue")]
    /\ UNCHANGED <<dsVars, client, pool, ddVars>>

-----------------------------------------------------------------------------
(* Processor of a Data Destination: log the warning, then count it. *)

processor_fn(d) ==
    /\ queue[d] # <<>>
    /\ queue' = [queue EXCEPT ![d] = Tail(@)]
    /\ warning_log' = [warning_log EXCEPT ![d] = Append(@, Head(queue[d]))]
    /\ warning_count' = [warning_count EXCEPT ![d] = @ + 1]
    /\ UNCHANGED <<dsVars, netVars, client, cpVars>>

\* Without memory for its text the warning is counted and not printed.
ProcessorPrintsNothing(d) ==
    /\ queue[d] # <<>>
    /\ Fails
    /\ Loses({Head(queue[d])})
    /\ queue' = [queue EXCEPT ![d] = Tail(@)]
    /\ warning_count' = [warning_count EXCEPT ![d] = @ + 1]
    /\ UNCHANGED <<dsVars, poolVars, chan, client, cpVars, warning_log>>

-----------------------------------------------------------------------------

GeneratorStep ==
    GeneratorCheck \/ GeneratorEnds \/ GeneratorEndsMute \/ Generate \/ GenerateFails

SenderStep == SenderCheck \/ SenderDequeue \/ find_root \/ SenderSend

ListenerStep(n) ==
    \E p \in Process :
        \/ Accept(n, p)
        \/ ClientGone(n, p)
        \/ ListenerGivesUp(n, p)
        \/ ListenerDrops(n, p)
        \/ n \in Central /\ cp_listener_run(n, p)
        \/ n \in Destination /\ listener_fn(n, p)

ProcessorStep(d) == processor_fn(d) \/ ProcessorPrintsNothing(d)

WorkerStep(n, k) == WorkerDequeue(n, k) \/ WorkerClimb(n, k) \/ WorkerSend(n, k)

Next ==
    \/ Stop
    \/ GeneratorStep
    \/ SenderStep
    \/ \E n \in Node : ListenerStep(n)
    \/ \E n \in Central, k \in Worker : WorkerStep(n, k)
    \/ \E d \in Destination : ProcessorStep(d)

\* Every thread that can run eventually does.  The user need never stop.
Fairness ==
    /\ WF_vars(GeneratorStep)
    /\ WF_vars(SenderStep)
    /\ \A n \in Node : WF_vars(ListenerStep(n))
    /\ \A n \in Central, k \in Worker : WF_vars(WorkerStep(n, k))
    /\ \A d \in Destination : WF_vars(ProcessorStep(d))

Spec == Init /\ [][Next]_vars

FairSpec == Spec /\ Fairness
-----------------------------------------------------------------------------
(* Properties *)

Mark == {CONNECT, EOF}
Thread == [pc : {"check", "dequeue", "climb", "send", "done"},
           w : Warning \cup {NULL}, x : Node \cup {NoNode}]

SourceType ==
    /\ counter \in 0..NUMBER_OF_WARNINGS
    /\ generator \in {"check", "enqueue", "done", "mute"}
    /\ generator = "enqueue" => counter < NUMBER_OF_WARNINGS
    /\ globalQ \in Seq(Warning \cup {NULL})
    /\ sender \in Thread

NetType ==
    /\ open \in [Process -> SUBSET Node]
    /\ severed \in [Process -> SUBSET Node]
    /\ chan \in [Process -> [Node -> Seq(Warning \cup Mark)]]
    /\ failures \in 0..MaxFailures
    /\ lost \subseteq Warning

ClientType == client \in [Node -> Process \cup {NoNode}]

PropagatorType ==
    /\ pool \in [Central -> Seq(Warning)]
    /\ worker \in [Central -> [Worker -> Thread]]

DestinationType ==
    /\ queue \in [Destination -> Seq(Warning)]
    /\ warning_log \in [Destination -> Seq(Warning)]
    /\ warning_count \in [Destination -> Nat]

\* Every variable has its type.
TypeOK ==
    /\ stopEvent \in BOOLEAN
    /\ SourceType
    /\ NetType
    /\ ClientType
    /\ PropagatorType
    /\ DestinationType

\* What a Data Destination logs and counts is addressed to it: routing
\* through any number of Central Propagators, each climbing from the
\* destination, never leads a warning to the wrong leaf (dispatch_job_fn), as
\* long as a send reaches the node it is meant for.
NoMisdelivery ==
    \A d \in Destination : \A i \in DOMAIN warning_log[d] :
        warning_log[d][i].dest_node = d

\* Warnings only ever travel along the edges of the tree: a process has a
\* connection to a node, or something for it in flight, only if it is the
\* node's parent, or the Data Source and the node is a root.  In particular no
\* propagator sends to itself and none sends to a grandchild.
AlongTreeEdges ==
    \A p \in Process, n \in Node :
        n \in open[p] \/ chan[p][n] # <<>> =>
            Parent[n] = IF p = DS THEN NoNode ELSE p

\* The places that hold warning number i.
Holds(s, i) == {j \in DOMAIN s : s[j] \in Warning /\ s[j].id = i}
Has(t, i) == t.w # NULL /\ t.w.id = i
GlobalPlaces(i) == {<<"globalQ", j>> : j \in Holds(globalQ, i)}
SenderPlaces(i) == IF Has(sender, i) THEN {<<"sender">>} ELSE {}
ChanPlaces(i) ==
    UNION {UNION {{<<"chan", p, n, j>> : j \in Holds(chan[p][n], i)}
                    : n \in Node} : p \in Process}
PoolPlaces(i) ==
    UNION {{<<"pool", n, j>> : j \in Holds(pool[n], i)} : n \in Central}
WorkerPlaces(i) ==
    UNION {{<<"worker", n, k>> : k \in {j \in Worker : Has(worker[n][j], i)}}
             : n \in Central}
QueuePlaces(i) ==
    UNION {{<<"queue", d, j>> : j \in Holds(queue[d], i)} : d \in Destination}
LogPlaces(i) ==
    UNION {{<<"log", d, j>> : j \in Holds(warning_log[d], i)} : d \in Destination}
LostPlaces(i) == {<<"lost", w>> : w \in {v \in lost : v.id = i}}

Holders(i) ==
    GlobalPlaces(i) \cup SenderPlaces(i) \cup ChanPlaces(i) \cup PoolPlaces(i)
    \cup WorkerPlaces(i) \cup QueuePlaces(i) \cup LogPlaces(i) \cup LostPlaces(i)

\* Every generated warning is in exactly one place: in a queue, in a thread's
\* hands, on the wire, logged, or lost, and none is lost before a call has failed.
\* None is duplicated by the pool, the reconnects or the queues, and none vanishes
\* on the way, whichever of send, connect and malloc fails in whichever process.
ExactlyOnePlace ==
    /\ \A i \in Number : Cardinality(Holders(i)) = IF i <= counter THEN 1 ELSE 0
    /\ failures = 0 => lost = {}

Logged(i) == \E d \in Destination : Holds(warning_log[d], i) # {}

\* The sender has returned, because the user stopped it or because it took a
\* warning that could not be allocated for the sentinel, and left i behind.
LeftBehind(i) == sender.pc = "done" /\ Holds(globalQ, i) # {}

Lost(i) == \E w \in lost : w.id = i

\* Every warning that is generated is logged by a destination in the end,
\* unless a failing call of a process on its way lost it (a send, or malloc in
\* send_warning_to, deserialize_warning, cp_dispatcher_submit or queue_enqueue)
\* or the sender returned before it.
EventuallyLogged ==
    \A i \in Number : counter >= i ~> Logged(i) \/ LeftBehind(i) \/ Lost(i)

\* A warning the Data Source has sent into the tree arrives even when the
\* user stops the Data Source meanwhile, unless a failing call of a process on
\* its way loses it.
InTree(i) == \E n \in Node : Holds(chan[DS][n], i) # {}
SentIsLogged == \A i \in Number : InTree(i) ~> Logged(i) \/ Lost(i)

\* The warnings in some queue, in a thread's hands or on the wire.
Elements(q) == {q[i] : i \in DOMAIN q}
Pending ==
    Warning \cap (Elements(globalQ) \cup {sender.w}
                 \cup (UNION {UNION {Elements(chan[p][n]) : n \in Node} : p \in Process})
                 \cup (UNION {Elements(pool[n]) : n \in Central})
                 \cup (UNION {{worker[n][k].w : k \in Worker} : n \in Central})
                 \cup (UNION {Elements(queue[d]) : d \in Destination}))

Addressed == [id : Number, dest_node : Destination]

Service == INSTANCE Delivery
    WITH Warning <- Addressed, pending <- Pending, delivered <- warning_log

\* The processes together implement the delivery service: at every step, a
\* warning that leaves the Data Source stays on its way until exactly one
\* destination, its own, logs it, or a failing call of a process loses it; what is
\* lost or logged does not turn up again behind a reconnect.
ImplementsDelivery == Service!Spec

\* The sender waits at an empty queue for a sentinel that nobody could leave.
SenderStranded == generator = "mute" /\ globalQ = <<>> /\ sender.pc = "dequeue"

\* Generator and sender threads both return, as main's two joins require, and
\* only a generator that could not leave a sentinel strands the sender
\* (data_generator.c ignores the result of tsqueue_enqueue, line 58).
SourceFinishes ==
    <>(generator \in {"done", "mute"} /\ (sender.pc = "done" \/ SenderStranded))
=============================================================================
