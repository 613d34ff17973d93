------------------------- MODULE CentralPropagator -------------------------
(***************************************************************************)
(* One Central Propagator process, from the moment it listens until it     *)
(* exits: the main thread that takes the process down, the listener thread *)
(* and the workers of the thread pool, and the heap objects they share.    *)
(*                                                                         *)
(* An action is the part of a thread's code between two calls that block   *)
(* or take a lock.  Routing is reduced to what it decides: the next hop is *)
(* a child, or the propagator itself.                                      *)
(*                                                                         *)
(* When the listener touches a freed object, dangling becomes TRUE.  What  *)
(* happens next is undefined, and the model does not follow the listener   *)
(* any further.                                                            *)
(***************************************************************************)
EXTENDS Naturals, Sequences, FiniteSets

CONSTANTS
    Worker,         \* the threads of the pool
    Warning,        \* the warnings that the outside sends
    Below,          \* those of them whose destination is below this node
    UP, SELF,       \* the clients: the parent (or Data Source) and the node
    NULL,           \* no warning; in the queue, the sentinel
    CONNECT, EOF,   \* the two ends of a connection
    MaxConnections  \* bound: how often the outside connects

ASSUME CentralPropagatorAssumption ==
    /\ IsFiniteSet(Worker) /\ Worker # {}
    /\ Below \subseteq Warning
    /\ UP # SELF
    /\ {NULL, CONNECT, EOF} \cap Warning = {}
    /\ Cardinality({NULL, CONNECT, EOF}) = 3
    /\ MaxConnections \in Nat

Client == {UP, SELF}

\* What cp_dispatcher_shutdown, cp_context_destroy, connections_cleanup and
\* main release.
Object == {"queue", "pool", "dispatcher", "ctx", "connections", "winsock", "event"}

VARIABLES
    exitEvent,      \* g_exitEvent is set
    main,           \* where the main thread is
    sentinels,      \* how many sentinels tp_shutdown has tried to enqueue
    missing,        \* for how many of them there was no memory (history)
    shutting_down,  \* the flag of the pool
    alive,          \* the objects that are not released
    queue,          \* the task queue of the pool
    listener,       \* the listener thread
    worker,         \* worker[k]: a worker thread
    stream,         \* stream[c]: what client c has sent
    open,           \* the clients with a connection that neither side has closed
    connections,    \* how often the outside has connected
    arrived,        \* the warnings that the outside has sent
    allocated,      \* the Warning objects that are allocated
    dispatched,     \* the warnings passed to send_warning_to (history)
    accepted,       \* the tasks in the pool when shutdown began (history)
    dangling,       \* the listener has touched a freed object (history)
    freedTwice,     \* the Warnings destroyed when not allocated (history)
    stranded        \* the Warnings whose task found no node in the queue (history)

shutdownVars == <<exitEvent, main, sentinels, missing, shutting_down, alive, accepted>>
netVars      == <<stream, open, connections, arrived>>
heapVars     == <<allocated, freedTwice, stranded>>
vars == <<shutdownVars, queue, listener, worker, netVars, heapVars, dispatched, dangling>>

At(point) == [pc |-> point, w |-> NULL]

\* main has started the pool and the listener.
Init ==
    /\ exitEvent = FALSE
    /\ main = "wait"
    /\ sentinels = 0
    /\ missing = 0
    /\ shutting_down = FALSE
    /\ alive = Object
    /\ queue = <<>>
    /\ listener = [pc |-> "check", w |-> NULL, client |-> NULL]
    /\ worker = [k \in Worker |-> At("dequeue")]
    /\ stream = [c \in Client |-> <<>>]
    /\ open = {}
    /\ connections = 0
    /\ arrived = {}
    /\ allocated = {}
    /\ dispatched = {}
    /\ accepted = {}
    /\ dangling = FALSE
    /\ freedTwice = {}
    /\ stranded = {}

\* The process ends when main returns.
Running == main # "exit"

warning_destroy(w) ==
    /\ allocated' = allocated \ {w}
    /\ freedTwice' = IF w \in allocated THEN freedTwice ELSE freedTwice \cup {w}
    /\ UNCHANGED stranded

-----------------------------------------------------------------------------
(* The outside: the parent process and whoever requests the exit *)

\* The Data Source sets the named event, or console_handler does.
RequestExit ==
    /\ Running /\ ~exitEvent
    /\ exitEvent' = TRUE
    /\ UNCHANGED <<main, sentinels, missing, shutting_down, alive, accepted, queue,
                   listener, worker, netVars, heapVars, dispatched, dangling>>

Connect ==
    /\ Running /\ "winsock" \in alive
    /\ UP \notin open /\ connections < MaxConnections
    /\ connections' = connections + 1
    /\ open' = open \cup {UP}
    /\ stream' = [stream EXCEPT ![UP] = Append(@, CONNECT)]
    /\ UNCHANGED <<shutdownVars, queue, listener, worker, arrived, heapVars,
                   dispatched, dangling>>

Arrive(w) ==
    /\ Running /\ UP \in open
    /\ w \notin arrived
    /\ arrived' = arrived \cup {w}
    /\ stream' = [stream EXCEPT ![UP] = Append(@, w)]
    /\ UNCHANGED <<shutdownVars, queue, listener, worker, open, connections,
                   heapVars, dispatched, dangling>>

Disconnect ==
    /\ Running /\ UP \in open
    /\ open' = open \ {UP}
    /\ stream' = [stream EXCEPT ![UP] = Append(@, EOF)]
    /\ UNCHANGED <<shutdownVars, queue, listener, worker, connections, arrived,
                   heapVars, dispatched, dangling>>

-----------------------------------------------------------------------------
(* The listener thread: cp_listener_run and cp_dispatcher_submit *)

\* What the listener reads before it blocks again.
ListenerNeeds ==
    CASE listener.pc = "log"     -> {"ctx"}
      [] listener.pc = "submit"  -> {"dispatcher", "pool"}
      [] listener.pc = "enqueue" -> {"pool", "queue"}
      [] OTHER                   -> {}

\* The listener is at a point of its loop, and what it reads there exists.
ListenerAt(point) == Running /\ listener.pc = point /\ ListenerNeeds \subseteq alive

\* The listener touches what has been freed.
ListenerDangles ==
    /\ Running
    /\ ~(ListenerNeeds \subseteq alive)
    /\ dangling' = TRUE
    /\ listener' = [listener EXCEPT !.pc = "undefined"]
    /\ UNCHANGED <<shutdownVars, queue, worker, netVars, heapVars, dispatched>>

\* The exit event is tested between two clients only.
ListenerCheck ==
    /\ ListenerAt("check")
    /\ listener' = [listener EXCEPT
                      !.pc = IF exitEvent /\ "event" \in alive THEN "done" ELSE "accept"]
    /\ UNCHANGED <<shutdownVars, queue, worker, netVars, heapVars, dispatched, dangling>>

\* accept returns a client, or fails once WSACleanup has been called.
ListenerAccept(c) ==
    /\ ListenerAt("accept")
    /\ "winsock" \in alive
    /\ stream[c] # <<>> /\ Head(stream[c]) = CONNECT
    /\ listener' = [listener EXCEPT !.pc = "recv", !.client = c]
    /\ stream' = [stream EXCEPT ![c] = Tail(@)]
    /\ UNCHANGED <<shutdownVars, queue, worker, open, connections, arrived,
                   heapVars, dispatched, dangling>>

ListenerAcceptFails ==
    /\ ListenerAt("accept")
    /\ "winsock" \notin alive
    /\ listener' = [listener EXCEPT !.pc = "check"]
    /\ UNCHANGED <<shutdownVars, queue, worker, netVars, heapVars, dispatched, dangling>>

\* deserialize_warning allocates the next warning of the client.
ListenerReceive ==
    /\ ListenerAt("recv")
    /\ "winsock" \in alive
    /\ LET s == stream[listener.client] IN
       /\ s # <<>> /\ Head(s) \in Warning
       /\ listener' = [listener EXCEPT !.pc = "log", !.w = Head(s)]
       /\ allocated' = allocated \cup {Head(s)}
    /\ stream' = [stream EXCEPT ![listener.client] = Tail(@)]
    /\ UNCHANGED <<shutdownVars, queue, worker, open, connections, arrived,
                   freedTwice, stranded, dispatched, dangling>>

\* deserialize_warning returns NULL: the stream has ended, or Winsock has.
ListenerClientGone ==
    /\ ListenerAt("recv")
    /\ LET s == stream[listener.client] IN
       \/ /\ "winsock" \notin alive
          /\ UNCHANGED stream
       \/ /\ "winsock" \in alive
          /\ s # <<>> /\ Head(s) = EOF
          /\ stream' = [stream EXCEPT ![listener.client] = Tail(@)]
    /\ listener' = [listener EXCEPT !.pc = "check", !.client = NULL]
    /\ UNCHANGED <<shutdownVars, queue, worker, open, connections, arrived,
                   heapVars, dispatched, dangling>>

\* deserialize_warning returns NULL for want of memory: closesocket ends the
\* connection, and what else the client has sent on it is lost.
ListenerGivesUp ==
    /\ ListenerAt("recv")
    /\ "winsock" \in alive
    /\ LET c == listener.client
           s == stream[c]
       IN /\ s # <<>> /\ Head(s) \in Warning
          /\ \E k \in 1..Len(s) :
                /\ \A i \in 1..k : s[i] \in Warning
                /\ \/ /\ k = Len(s)
                      /\ stream' = [stream EXCEPT ![c] = <<>>]
                      /\ open' = open \ {c}
                   \/ /\ k < Len(s) /\ s[k + 1] = EOF
                      /\ stream' = [stream EXCEPT ![c] = SubSeq(s, k + 2, Len(s))]
                      /\ UNCHANGED open
    /\ listener' = [listener EXCEPT !.pc = "check", !.client = NULL]
    /\ UNCHANGED <<shutdownVars, queue, worker, connections, arrived, heapVars,
                   dispatched, dangling>>

\* The log line names ctx->me.
ListenerLog ==
    /\ ListenerAt("log")
    /\ listener' = [listener EXCEPT !.pc = "submit"]
    /\ UNCHANGED <<shutdownVars, queue, worker, netVars, heapVars, dispatched, dangling>>

\* cp_dispatcher_submit up to the test in tp_submit.
ListenerSubmit ==
    /\ ListenerAt("submit")
    /\ ~shutting_down
    /\ listener' = [listener EXCEPT !.pc = "enqueue"]
    /\ UNCHANGED <<shutdownVars, queue, worker, netVars, heapVars, dispatched, dangling>>

\* Mutant: cp_dispatcher_submit ignores that tp_submit refused the task.
DropWithoutDestroying ==
    /\ ListenerAt("submit")
    /\ listener' = [listener EXCEPT !.pc = "recv", !.w = NULL]
    /\ UNCHANGED <<shutdownVars, queue, worker, netVars, heapVars, dispatched, dangling>>

\* The pool is shutting down or malloc fails: the warning is dropped.
ListenerDrop ==
    /\ ListenerAt("submit")
    /\ warning_destroy(listener.w)
    /\ listener' = [listener EXCEPT !.pc = "recv", !.w = NULL]
    /\ UNCHANGED <<shutdownVars, queue, worker, netVars, dispatched, dangling>>

\* Mutant: tp_submit enqueues the task and then reports failure when the pool is
\* shutting down, so that its caller destroys the warning.
EnqueueThenRefuse ==
    /\ ListenerAt("enqueue")
    /\ queue' = Append(queue, listener.w)
    /\ IF shutting_down THEN warning_destroy(listener.w) ELSE UNCHANGED heapVars
    /\ dispatched' = dispatched \ {listener.w}
    /\ listener' = [listener EXCEPT !.pc = "recv", !.w = NULL]
    /\ UNCHANGED <<shutdownVars, worker, netVars, dangling>>

\* The rest of tp_submit: the flag is not tested again.
ListenerEnqueue ==
    /\ ListenerAt("enqueue")
    /\ queue' = Append(queue, listener.w)
    /\ dispatched' = dispatched \ {listener.w}
    /\ listener' = [listener EXCEPT !.pc = "recv", !.w = NULL]
    /\ UNCHANGED <<shutdownVars, worker, netVars, heapVars, dangling>>

\* There is no memory for the node.  tp_submit does not test the result of
\* tsqueue_enqueue and reports success: nobody has the warning any more.
ListenerStrands ==
    /\ ListenerAt("enqueue")
    /\ stranded' = stranded \cup {listener.w}
    /\ listener' = [listener EXCEPT !.pc = "recv", !.w = NULL]
    /\ UNCHANGED <<shutdownVars, queue, worker, netVars, allocated, freedTwice,
                   dispatched, dangling>>

-----------------------------------------------------------------------------
(* The workers: worker_thread and dispatch_job_fn *)

\* Mutant: a worker looks at the flag and leaves the remaining tasks alone.
WorkerDequeueUnlessShutdown(k) ==
    /\ Running /\ worker[k].pc = "dequeue"
    /\ queue # <<>>
    /\ queue' = Tail(queue)
    /\ worker' = [worker EXCEPT ![k] =
                    IF shutting_down \/ Head(queue) = NULL
                    THEN At("done")
                    ELSE [pc |-> "send", w |-> Head(queue)]]
    /\ UNCHANGED <<shutdownVars, listener, netVars, heapVars, dispatched, dangling>>

WorkerDequeue(k) ==
    /\ Running /\ worker[k].pc = "dequeue"
    /\ queue # <<>>
    /\ queue' = Tail(queue)
    /\ worker' = [worker EXCEPT ![k] = IF Head(queue) = NULL
                                       THEN At("done")
                                       ELSE [pc |-> "send", w |-> Head(queue)]]
    /\ UNCHANGED <<shutdownVars, listener, netVars, heapVars, dispatched, dangling>>

\* What get_or_create_connection leaves of the node's connection to its own port.
SelfConnected ==
    IF SELF \in open THEN stream[SELF] ELSE Append(stream[SELF], CONNECT)

\* send_warning_to with a warning whose next hop is this node.  Without memory
\* for the frame there is only the connection; when send fails, the connection is
\* closed, and what the listener has not received of it may be lost.
SendToItself(w) ==
    \/ /\ stream' \in {[stream EXCEPT ![SELF] = Append(SelfConnected, w)],
                       [stream EXCEPT ![SELF] = SelfConnected]}
       /\ open' = open \cup {SELF}
    \/ /\ LET s == SelfConnected IN
          \E k \in 0..Len(s) :
             /\ \A i \in (k + 1)..Len(s) : s[i] \in Warning
             /\ stream' = [stream EXCEPT ![SELF] = Append(SubSeq(s, 1, k), EOF)]
       /\ open' = open \ {SELF}

\* dispatch_job_fn: look the destination up, choose the hop, send, destroy.
dispatch_job_fn(k) ==
    /\ Running /\ worker[k].pc = "send"
    /\ LET w == worker[k].w IN
       /\ \/ /\ w \notin Below
             /\ SendToItself(w)
          \/ UNCHANGED <<stream, open>>  \* to a child, or without a connection
       /\ dispatched' = dispatched \cup {w}
       /\ warning_destroy(w)
    /\ worker' = [worker EXCEPT ![k] = At("dequeue")]
    /\ UNCHANGED <<shutdownVars, queue, listener, connections, arrived, dangling>>

-----------------------------------------------------------------------------
(* The main thread *)

\* A step of main that only moves on and releases an object.
Release(from, object, to) ==
    /\ main = from
    /\ main' = to
    /\ alive' = alive \ {object}
    /\ UNCHANGED <<exitEvent, sentinels, missing, shutting_down, accepted, listener,
                   worker, heapVars, dispatched, dangling>>

Pooled == {queue[i] : i \in DOMAIN queue} \cup {worker[k].w : k \in Worker}

\* The shutdown thread has seen the event.  main closes the listener's handle,
\* does not wait for the listener, and tp_shutdown sets the flag.
MainWakes ==
    /\ main = "wait" /\ exitEvent
    /\ main' = "sentinels"
    /\ shutting_down' = TRUE
    /\ accepted' = Pooled \ {NULL}
    /\ UNCHANGED <<exitEvent, sentinels, missing, alive, queue, listener, worker, netVars,
                   heapVars, dispatched, dangling>>

\* Mutant: one sentinel too few.
MainSendsOneLess ==
    /\ main = "sentinels"
    /\ IF sentinels + 1 < Cardinality(Worker)
       THEN /\ sentinels' = sentinels + 1
            /\ \/ queue' = Append(queue, NULL) /\ UNCHANGED missing
               \/ missing' = missing + 1 /\ UNCHANGED queue
            /\ UNCHANGED main
       ELSE /\ main' = "join"
            /\ UNCHANGED <<sentinels, missing, queue>>
    /\ UNCHANGED <<exitEvent, shutting_down, alive, accepted, listener, worker,
                   netVars, heapVars, dispatched, dangling>>

\* Mutant: one sentinel too many.
MainSendsOneMore ==
    /\ main = "sentinels"
    /\ IF sentinels <= Cardinality(Worker)
       THEN /\ sentinels' = sentinels + 1
            /\ \/ queue' = Append(queue, NULL) /\ UNCHANGED missing
               \/ missing' = missing + 1 /\ UNCHANGED queue
            /\ UNCHANGED main
       ELSE /\ main' = "join"
            /\ UNCHANGED <<sentinels, missing, queue>>
    /\ UNCHANGED <<exitEvent, shutting_down, alive, accepted, listener, worker,
                   netVars, heapVars, dispatched, dangling>>

\* tp_shutdown enqueues a sentinel for every worker, and does not test whether
\* there was memory for it.
MainSendsSentinel ==
    /\ main = "sentinels"
    /\ IF sentinels < Cardinality(Worker)
       THEN /\ sentinels' = sentinels + 1
            /\ \/ queue' = Append(queue, NULL) /\ UNCHANGED missing
               \/ missing' = missing + 1 /\ UNCHANGED queue
            /\ UNCHANGED main
       ELSE /\ main' = "join"
            /\ UNCHANGED <<sentinels, missing, queue>>
    /\ UNCHANGED <<exitEvent, shutting_down, alive, accepted, listener, worker,
                   netVars, heapVars, dispatched, dangling>>

\* Mutant: main closes the thread handles without waiting for the threads.
MainDoesNotJoin ==
    /\ main = "join"
    /\ main' = "queue"
    /\ UNCHANGED <<exitEvent, sentinels, missing, shutting_down, alive, accepted, queue,
                   listener, worker, netVars, heapVars, dispatched, dangling>>

\* It waits for all of them.
MainJoins ==
    /\ main = "join"
    /\ \A k \in Worker : worker[k].pc = "done"
    /\ main' = "queue"
    /\ UNCHANGED <<exitEvent, sentinels, missing, shutting_down, alive, accepted, queue,
                   listener, worker, netVars, heapVars, dispatched, dangling>>

\* tsqueue_destroy frees the tasks that are left, not what they refer to.
MainDestroysQueue ==
    /\ Release("queue", "queue", "pool")
    /\ queue' = <<>>
    /\ UNCHANGED netVars

MainFreesPool == Release("pool", "pool", "dispatcher") /\ UNCHANGED <<queue, netVars>>

MainFreesDispatcher ==
    Release("dispatcher", "dispatcher", "ctx") /\ UNCHANGED <<queue, netVars>>

cp_context_destroy == Release("ctx", "ctx", "connections") /\ UNCHANGED <<queue, netVars>>

\* connections_cleanup closes the pooled sockets.
connections_cleanup ==
    /\ Release("connections", "connections", "winsock")
    /\ open' = open \ {SELF}
    /\ stream' = IF SELF \in open
                 THEN [stream EXCEPT ![SELF] = Append(@, EOF)]
                 ELSE stream
    /\ UNCHANGED <<queue, connections, arrived>>

WSACleanup == Release("winsock", "winsock", "event") /\ UNCHANGED <<queue, netVars>>

\* main closes the event and returns, which ends the process.
MainReturns == Release("event", "event", "exit") /\ UNCHANGED <<queue, netVars>>

-----------------------------------------------------------------------------

Outside == RequestExit \/ Connect \/ Disconnect \/ \E w \in Warning : Arrive(w)

ListenerStep ==
    \/ ListenerDangles
    \/ ListenerCheck
    \/ \E c \in Client : ListenerAccept(c)
    \/ ListenerAcceptFails
    \/ ListenerReceive
    \/ ListenerClientGone
    \/ ListenerGivesUp
    \/ ListenerLog
    \/ ListenerSubmit
    \/ ListenerDrop
    \/ ListenerEnqueue
    \/ ListenerStrands

WorkerStep(k) == WorkerDequeue(k) \/ dispatch_job_fn(k)

MainStep ==
    \/ MainWakes
    \/ MainSendsSentinel
    \/ MainJoins
    \/ MainDestroysQueue
    \/ MainFreesPool
    \/ MainFreesDispatcher
    \/ cp_context_destroy
    \/ connections_cleanup
    \/ WSACleanup
    \/ MainReturns

Next == Outside \/ ListenerStep \/ (\E k \in Worker : WorkerStep(k)) \/ MainStep

Spec == Init /\ [][Next]_vars

\* Every thread of the process that can run eventually does.  The outside need
\* not do anything.
Fairness ==
    /\ WF_vars(MainStep)
    /\ WF_vars(ListenerStep)
    /\ \A k \in Worker : WF_vars(WorkerStep(k))

FairSpec == Spec /\ Fairness
-----------------------------------------------------------------------------
(* Properties *)

InWorkers == {worker[k].w : k \in Worker} \ {NULL}
InQueue == {queue[i] : i \in DOMAIN queue} \ {NULL}

\* Every variable has its type.
TypeOK ==
    /\ exitEvent \in BOOLEAN
    /\ main \in {"wait", "sentinels", "join", "queue", "pool", "dispatcher",
                 "ctx", "connections", "winsock", "event", "exit"}
    /\ sentinels \in 0..Cardinality(Worker)
    /\ missing \in 0..sentinels
    /\ shutting_down \in BOOLEAN
    /\ alive \subseteq Object
    /\ queue \in Seq(Warning \cup {NULL})
    /\ listener \in [pc : {"check", "accept", "recv", "log", "submit", "enqueue",
                           "done", "undefined"},
                     w : Warning \cup {NULL}, client : Client \cup {NULL}]
    /\ worker \in [Worker -> [pc : {"dequeue", "send", "done"},
                              w : Warning \cup {NULL}]]
    /\ stream \in [Client -> Seq(Warning \cup {CONNECT, EOF})]
    /\ open \subseteq Client
    /\ connections \in 0..MaxConnections
    /\ arrived \subseteq Warning
    /\ allocated \subseteq Warning
    /\ dispatched \subseteq Warning
    /\ accepted \subseteq Warning
    /\ dangling \in BOOLEAN
    /\ freedTwice \subseteq Warning
    /\ stranded \subseteq Warning

\* What a worker uses from where it is until it ends.
WorkerNeeds(k) ==
    CASE worker[k].pc = "dequeue" -> {"pool", "queue"}
      [] worker[k].pc = "send"    -> {"pool", "queue", "ctx", "connections", "winsock"}
      [] worker[k].pc = "done"    -> {}

\* tp_shutdown joins the workers before anything they use is freed, so no
\* worker ever touches a freed queue, context or connection map, however the
\* exit request, late submissions and the workers' own progress interleave.
WorkersUseLiveObjects == \A k \in Worker : WorkerNeeds(k) \subseteq alive

\* A Warning has one owner at a time: the listener that dropped it and the
\* worker that dispatched it never destroy the same object.
NoDoubleFree == freedTwice = {}

\* Up to the destruction of the queue a Warning that is allocated is in the hands
\* of a thread or in the queue, also when tp_submit refuses it; the only ones that
\* leak are those whose task finds no memory for its node, because tp_submit
\* ignores the result of tsqueue_enqueue (thread_pool.c, line 57).
\* (tsqueue_destroy then frees the tasks that arrived late and not the Warnings
\* they refer to.)
NothingLeaked ==
    "queue" \in alive =>
        allocated \subseteq {listener.w} \cup InWorkers \cup InQueue \cup stranded

\* Whatever was in the pool when the exit was requested is dispatched before
\* the pool is taken down: the sentinels come last in the queue, and a worker
\* leaves only when it meets one.
AcceptedIsDispatched ==
    main \in {"queue", "pool", "dispatcher", "ctx", "connections", "winsock",
              "event", "exit"} => accepted \subseteq dispatched

\* main waits for workers that wait for a sentinel, and every one of these workers
\* is one for whose sentinel there was no memory.
JoinsForEver ==
    /\ main = "join" /\ queue = <<>>
    /\ missing > 0
    /\ missing = Cardinality({k \in Worker : worker[k].pc = "dequeue"})

\* A request to exit takes the process down: every worker gets its sentinel and
\* main is never left waiting for one of them, unless tp_shutdown could not
\* enqueue a sentinel, which it does not notice (thread_pool.c, line 66).
ShutdownCompletes == exitEvent ~> main = "exit" \/ JoinsForEver

\* "Graceful shutdown: listeners exited, queues were drained, worker threads
\* joined": no thread uses what main has freed (main.c 107-112).
NoUseAfterFree == ~dangling
=============================================================================
