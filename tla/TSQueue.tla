------------------------------ MODULE TSQueue ------------------------------
(***************************************************************************)
(* The thread-safe queue of tsqueue.c: a FIFO guarded by a critical        *)
(* section, with one condition variable for its consumers and one for its  *)
(* producers.                                                              *)
(*                                                                         *)
(* A thread holds the critical section from the moment it enters or wakes  *)
(* up until it sleeps or returns, so each such stretch is one action.  A   *)
(* thread sleeping on a condition variable is in the variable's set; a     *)
(* wakeup moves it to the set of the threads that have been woken and have *)
(* not yet got the critical section back.  Condition variables wake an     *)
(* arbitrary sleeper and may wake one spuriously.                          *)
(***************************************************************************)
EXTENDS Naturals, Sequences, FiniteSets

CONSTANTS
    Producer,       \* threads that call tsqueue_enqueue
    Consumer,       \* threads that call tsqueue_dequeue, again and again
    Poller,         \* threads that call tsqueue_try_dequeue
    Data,           \* the pointers that are enqueued, other than NULL
    NULL,           \* the NULL pointer: a sentinel is enqueued like data
    Capacities,     \* values of bufferSize in calls of tsqueue_create
    MaxCalls,       \* bound: how many calls of tsqueue_enqueue are made
    MaxAllocFailures \* bound: how many calls of malloc may fail

ASSUME TSQueueAssumption ==
    /\ IsFiniteSet(Producer)
    /\ IsFiniteSet(Consumer)
    /\ NULL \notin Data
    /\ Capacities \subseteq Nat
    /\ MaxCalls \in Nat
    /\ MaxAllocFailures \in Nat

VARIABLES
    capacity,       \* how many items the queue takes; 0 is no limit
    inner,          \* the items, front first
    cvNotFull,      \* producers asleep in SleepConditionVariableCS
    wokenNotFull,   \* producers woken, not yet inside the critical section
    cvNotEmpty,     \* consumers asleep
    wokenNotEmpty,  \* consumers woken
    arg,            \* arg[p]: the data of the call that p sleeps in
    calls,          \* how many calls of tsqueue_enqueue have been made
    allocFailures,  \* how many calls of malloc have failed
    unannounced     \* history: free slots no producer was, or stays, woken for

vars == <<capacity, inner, cvNotFull, wokenNotFull, cvNotEmpty, wokenNotEmpty,
          arg, calls, allocFailures, unannounced>>

\* tsqueue_create.
Init ==
    /\ capacity \in Capacities
    /\ inner = <<>>
    /\ cvNotFull = {}
    /\ wokenNotFull = {}
    /\ cvNotEmpty = {}
    /\ wokenNotEmpty = {}
    /\ arg = [p \in Producer |-> NULL]
    /\ calls = 0
    /\ allocFailures = 0
    /\ unannounced = 0

\* WakeConditionVariable(&cvNotEmpty): one sleeper, if there is one.
WakeNotEmpty ==
    \/ /\ cvNotEmpty = {}
       /\ UNCHANGED <<cvNotEmpty, wokenNotEmpty>>
    \/ \E c \in cvNotEmpty :
          /\ cvNotEmpty' = cvNotEmpty \ {c}
          /\ wokenNotEmpty' = wokenNotEmpty \cup {c}

\* Mutant: a woken producer stays in the list of sleepers.
WakeKeepsSleeper ==
    \/ /\ cvNotFull = {}
       /\ UNCHANGED <<cvNotFull, wokenNotFull>>
    \/ \E p \in cvNotFull :
          /\ wokenNotFull' = wokenNotFull \cup {p}
          /\ UNCHANGED cvNotFull

\* WakeConditionVariable(&cvNotFull).
WakeNotFull ==
    \/ /\ cvNotFull = {}
       /\ UNCHANGED <<cvNotFull, wokenNotFull>>
    \/ \E p \in cvNotFull :
          /\ cvNotFull' = cvNotFull \ {p}
          /\ wokenNotFull' = wokenNotFull \cup {p}

\* The loop condition of tsqueue_enqueue.
Full == capacity > 0 /\ Len(inner) >= capacity

\* queue_enqueue.  It stores nothing when malloc fails.
queue_enqueue(v) ==
    \/ /\ inner' = Append(inner, v)
       /\ UNCHANGED allocFailures
    \/ /\ allocFailures < MaxAllocFailures
       /\ allocFailures' = allocFailures + 1
       /\ UNCHANGED inner

\* Mutant: only the first item of an empty queue wakes a consumer.
PutWakesIfEmpty(v) ==
    /\ queue_enqueue(v)
    /\ IF inner = <<>> THEN WakeNotEmpty ELSE UNCHANGED <<cvNotEmpty, wokenNotEmpty>>

\* Mutant: enqueuing wakes nobody.
PutWakesNobody(v) == queue_enqueue(v) /\ UNCHANGED <<cvNotEmpty, wokenNotEmpty>>

\* The rest of tsqueue_enqueue once there is room.
Put(v) == queue_enqueue(v) /\ WakeNotEmpty

\* A producer that has no call under way calls tsqueue_enqueue(q, v).
Calls(p) ==
    /\ p \notin cvNotFull \cup wokenNotFull
    /\ calls < MaxCalls
    /\ calls' = calls + 1

\* The call finds room and returns.
EnqueueAtOnce(p, v) ==
    /\ Calls(p)
    /\ ~Full
    /\ Put(v)
    /\ UNCHANGED <<capacity, cvNotFull, wokenNotFull, arg, unannounced>>

\* The call finds the queue full and sleeps.
EnqueueSleeps(p, v) ==
    /\ Calls(p)
    /\ Full
    /\ cvNotFull' = cvNotFull \cup {p}
    /\ arg' = [arg EXCEPT ![p] = v]
    /\ UNCHANGED <<capacity, inner, wokenNotFull, cvNotEmpty, wokenNotEmpty,
                   allocFailures, unannounced>>

\* Mutant: a woken producer takes for granted that there is room.
EnqueueWakesWithoutTest(p) ==
    /\ p \in wokenNotFull
    /\ wokenNotFull' = wokenNotFull \ {p}
    /\ Put(arg[p])
    /\ arg' = [arg EXCEPT ![p] = NULL]
    /\ UNCHANGED <<capacity, cvNotFull, calls, unannounced>>

\* A woken producer evaluates the loop condition again.  When there is room but
\* no memory for the node, the slot it was woken for stays free and it wakes no
\* other producer.
EnqueueWakes(p) ==
    /\ p \in wokenNotFull
    /\ wokenNotFull' = wokenNotFull \ {p}
    /\ \/ /\ Full
          /\ cvNotFull' = cvNotFull \cup {p}
          /\ UNCHANGED <<inner, cvNotEmpty, wokenNotEmpty, arg, allocFailures,
                         unannounced>>
       \/ /\ ~Full
          /\ Put(arg[p])
          /\ arg' = [arg EXCEPT ![p] = NULL]
          /\ unannounced' = unannounced + (allocFailures' - allocFailures)
          /\ UNCHANGED cvNotFull
    /\ UNCHANGED <<capacity, calls>>

\* Mutant: only an item taken from a full queue wakes a producer.
TakeWakesIfFull ==
    /\ inner # <<>>
    /\ inner' = Tail(inner)
    /\ IF Full THEN WakeNotFull ELSE UNCHANGED <<cvNotFull, wokenNotFull>>

\* The rest of tsqueue_dequeue once there is an item.
Take == inner # <<>> /\ inner' = Tail(inner) /\ WakeNotFull

\* A consumer that is not asleep calls tsqueue_dequeue and gets an item.
DequeueAtOnce(c) ==
    /\ c \notin cvNotEmpty \cup wokenNotEmpty
    /\ Take
    /\ UNCHANGED <<capacity, cvNotEmpty, wokenNotEmpty, arg, calls, allocFailures,
                   unannounced>>

\* It finds the queue empty and sleeps.
DequeueSleeps(c) ==
    /\ c \notin cvNotEmpty \cup wokenNotEmpty
    /\ inner = <<>>
    /\ cvNotEmpty' = cvNotEmpty \cup {c}
    /\ UNCHANGED <<capacity, inner, cvNotFull, wokenNotFull, wokenNotEmpty, arg,
                   calls, allocFailures, unannounced>>

\* A woken consumer evaluates the loop condition again.
DequeueWakes(c) ==
    /\ c \in wokenNotEmpty
    /\ wokenNotEmpty' = wokenNotEmpty \ {c}
    /\ \/ /\ inner = <<>>
          /\ cvNotEmpty' = cvNotEmpty \cup {c}
          /\ UNCHANGED <<inner, cvNotFull, wokenNotFull>>
       \/ /\ Take
          /\ UNCHANGED cvNotEmpty
    /\ UNCHANGED <<capacity, arg, calls, allocFailures, unannounced>>

\* tsqueue_try_dequeue takes an item if there is one.  It tells a removed
\* NULL from an empty queue no better than its caller can: only a non-NULL
\* item wakes a producer.
tsqueue_try_dequeue(t) ==
    /\ inner # <<>>
    /\ inner' = Tail(inner)
    /\ \/ /\ Head(inner) # NULL
          /\ WakeNotFull
          /\ UNCHANGED unannounced
       \/ /\ Head(inner) = NULL
          /\ unannounced' = unannounced + 1
          /\ UNCHANGED <<cvNotFull, wokenNotFull>>
    /\ UNCHANGED <<capacity, cvNotEmpty, wokenNotEmpty, arg, calls, allocFailures>>

\* A sleeper wakes up although nobody woke it.
SpuriousNotFull(p) ==
    /\ p \in cvNotFull
    /\ cvNotFull' = cvNotFull \ {p}
    /\ wokenNotFull' = wokenNotFull \cup {p}
    /\ UNCHANGED <<capacity, inner, cvNotEmpty, wokenNotEmpty, arg, calls,
                   allocFailures, unannounced>>

SpuriousNotEmpty(c) ==
    /\ c \in cvNotEmpty
    /\ cvNotEmpty' = cvNotEmpty \ {c}
    /\ wokenNotEmpty' = wokenNotEmpty \cup {c}
    /\ UNCHANGED <<capacity, inner, cvNotFull, wokenNotFull, arg, calls,
                   allocFailures, unannounced>>

tsqueue_enqueue(p) ==
    \/ \E v \in Data \cup {NULL} : EnqueueAtOnce(p, v) \/ EnqueueSleeps(p, v)
    \/ EnqueueWakes(p)

tsqueue_dequeue(c) == DequeueAtOnce(c) \/ DequeueSleeps(c) \/ DequeueWakes(c)

Next ==
    \/ \E p \in Producer : tsqueue_enqueue(p) \/ SpuriousNotFull(p)
    \/ \E c \in Consumer : tsqueue_dequeue(c) \/ SpuriousNotEmpty(c)
    \/ \E t \in Poller : tsqueue_try_dequeue(t)

Spec == Init /\ [][Next]_vars

\* A woken thread gets the critical section in the end, and consumers come
\* back for the next item.  Nothing makes producers call, pollers poll or
\* sleepers wake by themselves.
Fairness ==
    /\ \A p \in Producer : WF_vars(EnqueueWakes(p))
    /\ \A c \in Consumer : WF_vars(tsqueue_dequeue(c))

FairSpec == Spec /\ Fairness
-----------------------------------------------------------------------------
(* Properties *)

\* Every variable has its type, and a thread is asleep or woken, not both.
TypeOK ==
    /\ capacity \in Capacities
    /\ inner \in Seq(Data \cup {NULL})
    /\ cvNotFull \subseteq Producer
    /\ wokenNotFull \subseteq Producer
    /\ cvNotFull \cap wokenNotFull = {}
    /\ cvNotEmpty \subseteq Consumer
    /\ wokenNotEmpty \subseteq Consumer
    /\ cvNotEmpty \cap wokenNotEmpty = {}
    /\ arg \in [Producer -> Data \cup {NULL}]
    /\ calls \in 0..MaxCalls
    /\ allocFailures \in 0..MaxAllocFailures
    /\ unannounced \in Nat

\* A bounded queue never holds more than its capacity, although a producer
\* that was woken for a free slot may find that another one has taken it
\* (the while loop of tsqueue_enqueue).
WithinCapacity == capacity > 0 => Len(inner) <= capacity

\* No lost wakeup on the consumers' side: while a consumer sleeps, every item
\* has a woken consumer on its way to it.
NoLostItem == cvNotEmpty # {} => Len(inner) <= Cardinality(wokenNotEmpty)

\* No lost wakeup on the producers' side: while a producer sleeps, every free
\* slot has a woken producer on its way to it, but for one slot for each time
\* tsqueue_try_dequeue took a NULL for an empty queue or a woken producer failed
\* to allocate its node.
NoLostSlot ==
    cvNotFull # {} =>
        capacity <= Len(inner) + Cardinality(wokenNotFull) + unannounced

\* Whatever is enqueued is taken out: with consumers that keep calling, the
\* queue is empty again and again.
Drains == []<>(inner = <<>>)

\* A call of tsqueue_enqueue that sleeps returns, unless a wakeup was missed.
EnqueueReturns ==
    \A p \in Producer :
        p \in cvNotFull ~> p \notin cvNotFull \cup wokenNotFull \/ unannounced > 0
=============================================================================
