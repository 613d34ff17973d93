-------------------------- MODULE DataDestination --------------------------
(***************************************************************************)
(* One Data Destination process: the main thread, which calls dd_create,   *)
(* waits for the exit event, writes the count file and calls dd_destroy;   *)
(* the listener thread; the processor thread; and the parent propagator as *)
(* the listener's only client.                                             *)
(*                                                                         *)
(* An action is the part of a thread's code between two calls that block   *)
(* or touch what another thread uses.  dd_create leaves listen_sock        *)
(* uninitialized until the listener thread has run; closing the garbage it *)
(* holds by then fails.  When dd_create has freed the context under a      *)
(* running listener, the model does not follow the listener's next use of  *)
(* the context.                                                            *)
(***************************************************************************)
EXTENDS Naturals, Sequences, FiniteSets

CONSTANTS
    Warning,        \* the warnings that the parent sends
    NULL,           \* no warning; in the queue, the sentinel
    CONNECT, EOF,   \* the two ends of a connection
    NoFile,         \* the count file has not been written
    MaxConnections  \* bound: how often the parent connects

ASSUME DataDestinationAssumption ==
    /\ {NULL, CONNECT, EOF} \cap Warning = {}
    /\ Cardinality({NULL, CONNECT, EOF}) = 3
    /\ NoFile \notin Nat
    /\ MaxConnections \in Nat

VARIABLES
    exitEvent,      \* "none" before CreateEventA, then "reset" or "set"
    main,           \* where the main thread is
    file,           \* what the count file holds
    context,        \* ctx, its queue and Winsock are not yet released
    untold,         \* the threads that dd_destroy failed to tell to end (history)
    listen_sock,    \* "garbage", "open" or "closed"
    queue,          \* from the listener to the processor
    listener,       \* the listener thread
    processor,      \* the processor thread
    warning_count,  \* how many warnings the processor has counted
    stream,         \* what the parent has sent and the listener has not read
    open,           \* the parent's connection is open on its side
    connections,    \* how often the parent has connected
    arrived,        \* the warnings that the parent has sent
    received,       \* the warnings queued for the processor (history)
    logged          \* the warnings that the processor has printed (history)

mainVars == <<exitEvent, main, file, context, untold>>
netVars  == <<stream, open, connections, arrived>>
vars == <<mainVars, listen_sock, queue, listener, processor, warning_count,
          netVars, received, logged>>

At(point) == [pc |-> point, w |-> NULL]

Init ==
    /\ exitEvent = "none"
    /\ main = "create"
    /\ file = NoFile
    /\ context = TRUE
    /\ untold = {}
    /\ listen_sock = "garbage"
    /\ queue = <<>>
    /\ listener = At("none")
    /\ processor = At("none")
    /\ warning_count = 0
    /\ stream = <<>>
    /\ open = FALSE
    /\ connections = 0
    /\ arrived = {}
    /\ received = {}
    /\ logged = {}

-----------------------------------------------------------------------------
(* The outside: the parent propagator and whoever requests the exit *)

\* The Data Source opens the named event and sets it, or console_handler does.
RequestExit ==
    /\ exitEvent = "reset" /\ main # "exit"
    /\ exitEvent' = "set"
    /\ UNCHANGED <<main, file, context, untold, listen_sock, queue, listener,
                   processor, warning_count, netVars, received, logged>>

Connect ==
    /\ listen_sock = "open"
    /\ ~open /\ connections < MaxConnections
    /\ connections' = connections + 1
    /\ open' = TRUE
    /\ stream' = Append(stream, CONNECT)
    /\ UNCHANGED <<mainVars, listen_sock, queue, listener, processor,
                   warning_count, arrived, received, logged>>

Arrive(w) ==
    /\ open
    /\ w \notin arrived
    /\ arrived' = arrived \cup {w}
    /\ stream' = Append(stream, w)
    /\ UNCHANGED <<mainVars, listen_sock, queue, listener, processor,
                   warning_count, open, connections, received, logged>>

\* The parent closes the connection after a failed send, or exits.
Disconnect ==
    /\ open
    /\ open' = FALSE
    /\ stream' = Append(stream, EOF)
    /\ UNCHANGED <<mainVars, listen_sock, queue, listener, processor,
                   warning_count, connections, arrived, received, logged>>

-----------------------------------------------------------------------------
(* listener_fn *)

\* It makes the socket, stores it in the context and listens.
ListenerStart ==
    /\ listener.pc = "start" /\ context
    /\ listener' = At("accept")
    /\ listen_sock' = "open"
    /\ UNCHANGED <<mainVars, queue, processor, warning_count, netVars, received,
                   logged>>

ListenerAccept ==
    /\ listener.pc = "accept" /\ listen_sock = "open"
    /\ stream # <<>> /\ Head(stream) = CONNECT
    /\ listener' = At("recv")
    /\ stream' = Tail(stream)
    /\ UNCHANGED <<mainVars, listen_sock, queue, processor, warning_count, open,
                   connections, arrived, received, logged>>

\* accept fails once main has closed the socket: the thread returns.
ListenerAcceptFails ==
    /\ listener.pc = "accept" /\ listen_sock = "closed"
    /\ listener' = At("done")
    /\ UNCHANGED <<mainVars, listen_sock, queue, processor, warning_count,
                   netVars, received, logged>>

\* Mutant: the results of recv_all are not tested.
ReceivesAnything ==
    /\ listener.pc = "recv" /\ stream # <<>>
    /\ listener' = [pc |-> "enqueue", w |-> Head(stream)]
    /\ stream' = Tail(stream)
    /\ UNCHANGED <<mainVars, listen_sock, queue, processor, warning_count, open,
                   connections, arrived, received, logged>>

\* deserialize_warning returns a warning.
ListenerReceive ==
    /\ listener.pc = "recv"
    /\ stream # <<>> /\ Head(stream) \in Warning
    /\ listener' = [pc |-> "enqueue", w |-> Head(stream)]
    /\ stream' = Tail(stream)
    /\ UNCHANGED <<mainVars, listen_sock, queue, processor, warning_count, open,
                   connections, arrived, received, logged>>

\* deserialize_warning returns NULL: the stream has ended.
ListenerClientGone ==
    /\ listener.pc = "recv"
    /\ stream # <<>> /\ Head(stream) = EOF
    /\ listener' = At("accept")
    /\ stream' = Tail(stream)
    /\ UNCHANGED <<mainVars, listen_sock, queue, processor, warning_count, open,
                   connections, arrived, received, logged>>

\* deserialize_warning returns NULL for want of memory: closesocket resets the
\* connection, and what it still held is gone.
ListenerGivesUp ==
    /\ listener.pc = "recv"
    /\ stream # <<>> /\ Head(stream) \in Warning
    /\ LET ends == {i \in DOMAIN stream : stream[i] = EOF} IN
       \/ /\ ends = {}
          /\ stream' = <<>>
          /\ open' = FALSE
       \/ \E i \in ends :
             /\ \A j \in ends : i <= j
             /\ stream' = SubSeq(stream, i + 1, Len(stream))
             /\ UNCHANGED open
    /\ listener' = At("accept")
    /\ UNCHANGED <<mainVars, listen_sock, queue, processor, warning_count,
                   connections, arrived, received, logged>>

\* tsqueue_enqueue, whose result is not tested: the warning may be left behind.
ListenerEnqueue ==
    /\ listener.pc = "enqueue" /\ context
    /\ \/ /\ queue' = Append(queue, listener.w)
          /\ received' = received \cup {listener.w}
       \/ UNCHANGED <<queue, received>>
    /\ listener' = At("recv")
    /\ UNCHANGED <<mainVars, listen_sock, processor, warning_count, netVars, logged>>

-----------------------------------------------------------------------------
(* processor_fn *)

ProcessorDequeue ==
    /\ processor.pc = "dequeue"
    /\ queue # <<>>
    /\ queue' = Tail(queue)
    /\ processor' = IF Head(queue) = NULL
                    THEN At("done")
                    ELSE [pc |-> "log", w |-> Head(queue)]
    /\ UNCHANGED <<mainVars, listen_sock, listener, warning_count, netVars,
                   received, logged>>

\* It prints the warning, counts it and destroys it.
ProcessorLog ==
    /\ processor.pc = "log"
    /\ logged' = logged \cup {processor.w}
    /\ warning_count' = warning_count + 1
    /\ processor' = At("dequeue")
    /\ UNCHANGED <<mainVars, listen_sock, queue, listener, netVars, received>>

-----------------------------------------------------------------------------
(* dd_create, main and dd_destroy *)

\* dd_create up to the first thread; without memory or a thread it undoes its
\* work, and main returns.
MainCreatesListener ==
    /\ main = "create"
    /\ \/ main' = "createProcessor" /\ listener' = At("start") /\ UNCHANGED context
       \/ main' = "failed" /\ context' = FALSE /\ UNCHANGED listener
    /\ UNCHANGED <<exitEvent, file, untold, listen_sock, queue, processor,
                   warning_count, netVars, received, logged>>

MainCreatesProcessor ==
    /\ main = "createProcessor"
    /\ main' = "event"
    /\ processor' = At("dequeue")
    /\ UNCHANGED <<exitEvent, file, context, untold, listen_sock, queue, listener,
                   warning_count, netVars, received, logged>>

\* The second thread cannot be created: the socket is closed and the context is
\* freed, although the listener runs until main has returned.
MainAbandonsListener ==
    /\ main = "createProcessor"
    /\ main' = "failed"
    /\ listen_sock' = IF listen_sock = "open" THEN "closed" ELSE listen_sock
    /\ queue' = <<>>
    /\ received' = logged
    /\ context' = FALSE
    /\ UNCHANGED <<exitEvent, file, untold, listener, processor, warning_count,
                   netVars, logged>>

MainCreatesEvent ==
    /\ main = "event"
    /\ \/ exitEvent' = "reset" /\ main' = "wait"
       \/ UNCHANGED exitEvent /\ main' = "close"    \* CreateEventA fails
    /\ UNCHANGED <<file, context, untold, listen_sock, queue, listener, processor,
                   warning_count, netVars, received, logged>>

MainWakes ==
    /\ main = "wait" /\ exitEvent = "set"
    /\ main' = "file"
    /\ UNCHANGED <<exitEvent, file, context, untold, listen_sock, queue, listener,
                   processor, warning_count, netVars, received, logged>>

\* The count goes into the file, if that can be opened.
MainWritesCount ==
    /\ main = "file"
    /\ file' = warning_count \/ UNCHANGED file
    /\ main' = "close"
    /\ UNCHANGED <<exitEvent, context, untold, listen_sock, queue, listener,
                   processor, warning_count, netVars, received, logged>>

\* Mutant: dd_destroy leaves the listening socket open.
MainClosesNothing ==
    /\ main = "close"
    /\ main' = "joinListener"
    /\ UNCHANGED <<exitEvent, file, context, untold, listen_sock, queue, listener,
                   processor, warning_count, netVars, received, logged>>

\* closesocket(ctx->listen_sock) fails when the field holds garbage: the listener
\* will not learn of it.
MainClosesSocket ==
    /\ main = "close"
    /\ \/ listen_sock = "open" /\ listen_sock' = "closed" /\ UNCHANGED untold
       \/ /\ listen_sock = "garbage" /\ UNCHANGED listen_sock
          /\ untold' = untold \cup {"listener"}
    /\ main' = "joinListener"
    /\ UNCHANGED <<exitEvent, file, context, queue, listener, processor,
                   warning_count, netVars, received, logged>>

\* Mutant: the sentinel is sent without waiting for the listener.
MainSkipsListener ==
    /\ main = "joinListener"
    /\ main' = "sentinel"
    /\ UNCHANGED <<exitEvent, file, context, untold, listen_sock, queue, listener,
                   processor, warning_count, netVars, received, logged>>

MainJoinsListener ==
    /\ main = "joinListener"
    /\ listener.pc = "done"
    /\ main' = "sentinel"
    /\ UNCHANGED <<exitEvent, file, context, untold, listen_sock, queue, listener,
                   processor, warning_count, netVars, received, logged>>

\* The result of tsqueue_enqueue is not tested: the sentinel may be left out.
MainSendsSentinel ==
    /\ main = "sentinel"
    /\ \/ queue' = Append(queue, NULL) /\ UNCHANGED untold
       \/ untold' = untold \cup {"processor"} /\ UNCHANGED queue
    /\ main' = "joinProcessor"
    /\ UNCHANGED <<exitEvent, file, context, listen_sock, listener, processor,
                   warning_count, netVars, received, logged>>

\* Mutant: dd_destroy does not wait for the processor.
MainSkipsProcessor ==
    /\ main = "joinProcessor"
    /\ main' = "release"
    /\ UNCHANGED <<exitEvent, file, context, untold, listen_sock, queue, listener,
                   processor, warning_count, netVars, received, logged>>

MainJoinsProcessor ==
    /\ main = "joinProcessor"
    /\ processor.pc = "done"
    /\ main' = "release"
    /\ UNCHANGED <<exitEvent, file, context, untold, listen_sock, queue, listener,
                   processor, warning_count, netVars, received, logged>>

\* The queue, the context and Winsock go; what is left in the queue is destroyed.
MainReleases ==
    /\ main = "release"
    /\ context' = FALSE
    /\ queue' = <<>>
    /\ main' = "exit"
    /\ UNCHANGED <<exitEvent, file, untold, listen_sock, listener, processor,
                   warning_count, netVars, received, logged>>

-----------------------------------------------------------------------------

ParentStep == Connect \/ Disconnect \/ \E w \in Warning : Arrive(w)

listener_fn ==
    \/ ListenerStart
    \/ ListenerAccept
    \/ ListenerAcceptFails
    \/ ListenerReceive
    \/ ListenerClientGone
    \/ ListenerGivesUp
    \/ ListenerEnqueue

processor_fn == ProcessorDequeue \/ ProcessorLog

dd_destroy ==
    \/ MainClosesSocket
    \/ MainJoinsListener
    \/ MainSendsSentinel
    \/ MainJoinsProcessor
    \/ MainReleases

dd_create == MainCreatesListener \/ MainCreatesProcessor \/ MainAbandonsListener

MainStep ==
    dd_create \/ MainCreatesEvent \/ MainWakes \/ MainWritesCount \/ dd_destroy

Next == RequestExit \/ ParentStep \/ listener_fn \/ processor_fn \/ MainStep

Spec == Init /\ [][Next]_vars

\* Every thread of the process that can run eventually does.
Fairness == WF_vars(listener_fn) /\ WF_vars(processor_fn) /\ WF_vars(MainStep)

FairSpec == Spec /\ Fairness

\* The parent exits too, as it does when the Data Source stops the system, and
\* its end closes the connection.
ParentExitsSpec == FairSpec /\ WF_vars(Disconnect)
-----------------------------------------------------------------------------
(* Properties *)

\* Every variable has its type.
TypeOK ==
    /\ exitEvent \in {"none", "reset", "set"}
    /\ main \in {"create", "createProcessor", "failed", "event", "wait", "file",
                 "close", "joinListener", "sentinel", "joinProcessor", "release",
                 "exit"}
    /\ file \in Nat \cup {NoFile}
    /\ context \in BOOLEAN
    /\ untold \subseteq {"listener", "processor"}
    /\ listen_sock \in {"garbage", "open", "closed"}
    /\ queue \in Seq(Warning \cup {NULL})
    /\ listener \in [pc : {"none", "start", "accept", "recv", "enqueue", "done"},
                     w : Warning \cup {NULL}]
    /\ processor \in [pc : {"none", "dequeue", "log", "done"},
                      w : Warning \cup {NULL}]
    /\ warning_count \in Nat
    /\ stream \in Seq(Warning \cup {CONNECT, EOF})
    /\ open \in BOOLEAN
    /\ connections \in 0..MaxConnections
    /\ arrived \subseteq Warning
    /\ received \subseteq Warning
    /\ logged \subseteq Warning

\* dd_destroy joins both threads before it frees the context and the queue
\* that they use, whenever the exit is requested.  (A dd_create that fails does
\* not: main then returns at once.)
ThreadsUseLiveContext ==
    main # "failed" /\ (listener.pc # "done" \/ processor.pc # "done") => context

\* dd_destroy loses nothing that was queued: the listener is joined before
\* the sentinel is enqueued, so the sentinel is the last item and the
\* processor has logged every warning when it meets it.
DrainedAtExit == main \in {"release", "exit"} => logged = received

\* The two waits of dd_destroy that never end: the listener had not stored its
\* socket when dd_destroy closed the field (data_destination.c, line 173), or there
\* was no memory for the sentinel of the processor (line 177).
ListenerUntold ==
    main = "joinListener" /\ "listener" \in untold /\ listener.pc = "accept"
ProcessorUntold ==
    /\ main = "joinProcessor" /\ "processor" \in untold
    /\ processor.pc = "dequeue" /\ queue = <<>>

\* dd_destroy returns whenever it is called, unless it failed to tell a thread to
\* end: the listener leaves accept, and recv when the parent is gone; the processor
\* meets the sentinel behind whatever was queued.
DestroyReturns ==
    main = "close" ~> main = "exit" \/ ListenerUntold \/ ProcessorUntold

\* "the Data Destination wrote its final count file": the file that is left
\* behind counts every warning that was received (main.c 82-96).
CountFileIsFinal ==
    main = "exit" /\ file # NoFile => file = Cardinality(received)
=============================================================================
