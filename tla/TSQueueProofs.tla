--------------------------- MODULE TSQueueProofs ---------------------------
(***************************************************************************)
(* The thread-safe queue keeps to its capacity and loses no wakeup, for    *)
(* any number of threads, any capacity and any number of calls.            *)
(***************************************************************************)
EXTENDS TSQueue, FiniteSetTheorems, TLAPS

\* Waking one more thread, or letting a woken one go, counts exactly one.
LEMMA WokenCount ==
    ASSUME NEW T, IsFiniteSet(T), NEW S \in SUBSET T, NEW x \in T
    PROVE  /\ Cardinality(S) \in Nat
           /\ x \notin S => Cardinality(S \cup {x}) = Cardinality(S) + 1
           /\ x \in S => Cardinality(S \ {x}) = Cardinality(S) - 1
<1>1. IsFiniteSet(S)
  BY FS_Subset
<1> QED
  BY <1>1, FS_CardinalityType, FS_AddElement, FS_RemoveElement

\* tsqueue_create yields a queue with its variables in their types.
LEMMA InitType == Init => TypeOK
BY TSQueueAssumption DEF Init, TypeOK

\* Every call of the queue keeps the variables in their types.
LEMMA NextType == TypeOK /\ [Next]_vars => TypeOK'
<1> SUFFICES ASSUME TypeOK, [Next]_vars PROVE TypeOK'
  OBVIOUS
<1> USE TSQueueAssumption DEF TypeOK
<1>1. ASSUME NEW p \in Producer, NEW v \in Data \cup {NULL}, EnqueueAtOnce(p, v)
      PROVE  TypeOK'
  BY <1>1 DEF EnqueueAtOnce, Calls, Put, queue_enqueue, WakeNotEmpty
<1>2. ASSUME NEW p \in Producer, NEW v \in Data \cup {NULL}, EnqueueSleeps(p, v)
      PROVE  TypeOK'
  BY <1>2 DEF EnqueueSleeps, Calls
<1>3. ASSUME NEW p \in Producer, EnqueueWakes(p)
      PROVE  TypeOK'
  <2>1. CASE Full /\ UNCHANGED <<inner, unannounced>>
    BY <1>3, <2>1 DEF EnqueueWakes, Put, queue_enqueue, WakeNotEmpty
  <2>2. CASE Put(arg[p]) /\ unannounced' = unannounced + (allocFailures' - allocFailures)
    <3>0. /\ arg[p] \in Data \cup {NULL}
          /\ unannounced \in Nat /\ allocFailures \in Nat /\ MaxAllocFailures \in Nat
      OBVIOUS
    <3>1. /\ unannounced' \in Nat
          /\ allocFailures' \in 0..MaxAllocFailures
          /\ inner' \in Seq(Data \cup {NULL})
      <4>1. CASE inner' = Append(inner, arg[p]) /\ allocFailures' = allocFailures
        BY <2>2, <3>0, <4>1
      <4>2. CASE /\ inner' = inner
                 /\ allocFailures < MaxAllocFailures
                 /\ allocFailures' = allocFailures + 1
        BY <2>2, <3>0, <4>2
      <4> QED
        BY <2>2, <4>1, <4>2 DEF Put, queue_enqueue
    <3>2. /\ cvNotEmpty' \subseteq Consumer
          /\ wokenNotEmpty' \subseteq Consumer
          /\ cvNotEmpty' \cap wokenNotEmpty' = {}
      BY <2>2 DEF Put, WakeNotEmpty
    <3>3. /\ cvNotFull' \subseteq Producer
          /\ wokenNotFull' \subseteq Producer
          /\ cvNotFull' \cap wokenNotFull' = {}
          /\ arg' \in [Producer -> Data \cup {NULL}]
          /\ UNCHANGED <<capacity, calls>>
      BY <1>3 DEF EnqueueWakes
    <3> QED
      BY <3>1, <3>2, <3>3
  <2> QED
    BY <1>3, <2>1, <2>2 DEF EnqueueWakes
<1>4. ASSUME NEW p \in Producer, SpuriousNotFull(p)
      PROVE  TypeOK'
  BY <1>4 DEF SpuriousNotFull
<1>5. ASSUME NEW c \in Consumer, DequeueAtOnce(c)
      PROVE  TypeOK'
  BY <1>5 DEF DequeueAtOnce, Take, WakeNotFull
<1>6. ASSUME NEW c \in Consumer, DequeueSleeps(c)
      PROVE  TypeOK'
  BY <1>6 DEF DequeueSleeps
<1>7. ASSUME NEW c \in Consumer, DequeueWakes(c)
      PROVE  TypeOK'
  BY <1>7 DEF DequeueWakes, Take, WakeNotFull
<1>8. ASSUME NEW c \in Consumer, SpuriousNotEmpty(c)
      PROVE  TypeOK'
  BY <1>8 DEF SpuriousNotEmpty
<1>9. ASSUME NEW t \in Poller, tsqueue_try_dequeue(t)
      PROVE  TypeOK'
  BY <1>9 DEF tsqueue_try_dequeue, WakeNotFull
<1>10. CASE UNCHANGED vars
  BY <1>10 DEF vars
<1> QED
  BY <1>1, <1>2, <1>3, <1>4, <1>5, <1>6, <1>7, <1>8, <1>9, <1>10
     DEF Next, tsqueue_enqueue, tsqueue_dequeue

\* The variables of the queue keep their types.
THEOREM QueueTypeCorrect == Spec => []TypeOK
BY InitType, NextType, PTL DEF Spec
-----------------------------------------------------------------------------
(* Capacity *)

\* queue_enqueue makes the queue at most one longer.
LEMMA PutLength ==
    ASSUME TypeOK, NEW v \in Data \cup {NULL}, Put(v)
    PROVE  Len(inner') \in {Len(inner), Len(inner) + 1}
BY DEF TypeOK, Put, queue_enqueue

\* queue_dequeue makes the queue one shorter.
LEMMA TailLength ==
    ASSUME TypeOK, inner # <<>>, inner' = Tail(inner)
    PROVE  Len(inner) \in Nat /\ Len(inner) > 0 /\ Len(inner') = Len(inner) - 1
BY DEF TypeOK

\* The capacity stays what tsqueue_create was given.
LEMMA CapacityFixed == [Next]_vars => capacity' = capacity
BY DEF Next, tsqueue_enqueue, EnqueueAtOnce, EnqueueSleeps, EnqueueWakes,
       tsqueue_dequeue, DequeueAtOnce, DequeueSleeps, DequeueWakes,
       tsqueue_try_dequeue, SpuriousNotFull, SpuriousNotEmpty, vars

\* Every call of the queue respects the capacity.
LEMMA NextCapacity == TypeOK /\ WithinCapacity /\ [Next]_vars => WithinCapacity'
<1> SUFFICES ASSUME TypeOK, WithinCapacity, [Next]_vars, capacity > 0
             PROVE  Len(inner') <= capacity
  BY CapacityFixed DEF WithinCapacity
<1>0. Len(inner) \in Nat /\ capacity \in Nat /\ Len(inner) <= capacity
  BY TSQueueAssumption DEF TypeOK, WithinCapacity
<1>1. ASSUME NEW v \in Data \cup {NULL}, Put(v), ~Full
      PROVE  Len(inner') <= capacity
  BY <1>0, <1>1, PutLength DEF Full
<1>2. ASSUME NEW p \in Producer, tsqueue_enqueue(p)
      PROVE  Len(inner') <= capacity
  <2>1. arg[p] \in Data \cup {NULL}
    BY DEF TypeOK
  <2> QED
    BY <1>0, <1>1, <1>2, <2>1
       DEF tsqueue_enqueue, EnqueueAtOnce, EnqueueSleeps, EnqueueWakes
<1>3. ASSUME NEW c \in Consumer, tsqueue_dequeue(c)
      PROVE  Len(inner') <= capacity
  BY <1>0, <1>3, TailLength
     DEF tsqueue_dequeue, DequeueAtOnce, DequeueSleeps, DequeueWakes, Take
<1>4. ASSUME NEW t \in Poller, tsqueue_try_dequeue(t)
      PROVE  Len(inner') <= capacity
  BY <1>0, <1>4, TailLength DEF tsqueue_try_dequeue
<1>5. CASE inner' = inner
  BY <1>0, <1>5
<1> QED
  BY <1>2, <1>3, <1>4, <1>5 DEF Next, SpuriousNotFull, SpuriousNotEmpty, vars

\* A bounded queue never holds more items than its capacity.
THEOREM WithinCapacityHolds == Spec => []WithinCapacity
<1>1. Init => WithinCapacity
  BY TSQueueAssumption DEF Init, WithinCapacity
<1> QED
  BY <1>1, NextCapacity, QueueTypeCorrect, PTL DEF Spec

-----------------------------------------------------------------------------
(* Wakeups of consumers *)

\* An enqueue brings at most one item and wakes one sleeping consumer.
LEMMA PutItem ==
    ASSUME TypeOK, NoLostItem, NEW v \in Data \cup {NULL}, Put(v)
    PROVE  NoLostItem'
<1>1. Len(inner) \in Nat /\ Len(inner') \in {Len(inner), Len(inner) + 1}
  BY PutLength DEF TypeOK
<1>2. CASE cvNotEmpty = {}
  BY <1>2 DEF Put, WakeNotEmpty, NoLostItem
<1>3. CASE cvNotEmpty # {}
  <2>1. PICK c \in cvNotEmpty : wokenNotEmpty' = wokenNotEmpty \cup {c}
    BY <1>3 DEF Put, WakeNotEmpty
  <2>2. c \in Consumer /\ c \notin wokenNotEmpty /\ wokenNotEmpty \in SUBSET Consumer
    BY DEF TypeOK
  <2>3. /\ Cardinality(wokenNotEmpty) \in Nat
        /\ Cardinality(wokenNotEmpty') = Cardinality(wokenNotEmpty) + 1
    BY <2>1, <2>2, WokenCount, TSQueueAssumption
  <2> QED
    BY <1>1, <1>3, <2>3 DEF NoLostItem
<1> QED
  BY <1>2, <1>3

\* No call of the queue leaves an item to a sleeping consumer.
LEMMA NextItem == TypeOK /\ NoLostItem /\ [Next]_vars => NoLostItem'
<1> SUFFICES ASSUME TypeOK, NoLostItem, [Next]_vars PROVE NoLostItem'
  OBVIOUS
<1>0. /\ Len(inner) \in Nat
      /\ wokenNotEmpty \in SUBSET Consumer
      /\ Cardinality(wokenNotEmpty) \in Nat
  <2>1. IsFiniteSet(wokenNotEmpty)
    BY TSQueueAssumption, FS_Subset DEF TypeOK
  <2> QED
    BY <2>1, FS_CardinalityType DEF TypeOK
<1>1. ASSUME NEW p \in Producer, tsqueue_enqueue(p)
      PROVE  NoLostItem'
  <2>1. arg[p] \in Data \cup {NULL}
    BY DEF TypeOK
  <2>2. CASE UNCHANGED <<inner, cvNotEmpty, wokenNotEmpty>>
    BY <2>2 DEF NoLostItem
  <2> QED
    BY <1>1, <2>1, <2>2, PutItem
       DEF tsqueue_enqueue, EnqueueAtOnce, EnqueueSleeps, EnqueueWakes
<1>2. ASSUME NEW c \in Consumer, DequeueAtOnce(c)
      PROVE  NoLostItem'
  <2>1. Len(inner') = Len(inner) - 1 /\ UNCHANGED <<cvNotEmpty, wokenNotEmpty>>
    BY <1>2, TailLength DEF DequeueAtOnce, Take
  <2> QED
    BY <1>0, <2>1 DEF NoLostItem
<1>3. ASSUME NEW c \in Consumer, DequeueSleeps(c)
      PROVE  NoLostItem'
  <2>1. Len(inner') = 0 /\ wokenNotEmpty' = wokenNotEmpty
    BY <1>3 DEF DequeueSleeps
  <2> QED
    BY <1>0, <2>1 DEF NoLostItem
<1>4. ASSUME NEW c \in Consumer, DequeueWakes(c)
      PROVE  NoLostItem'
  <2>1. /\ wokenNotEmpty' = wokenNotEmpty \ {c}
        /\ Cardinality(wokenNotEmpty') = Cardinality(wokenNotEmpty) - 1
        /\ Cardinality(wokenNotEmpty') \in Nat
    <3>1. c \in wokenNotEmpty /\ wokenNotEmpty' = wokenNotEmpty \ {c}
      BY <1>4 DEF DequeueWakes
    <3> QED
      BY <1>0, <3>1, WokenCount, TSQueueAssumption
  <2>2. CASE inner = <<>> /\ inner' = inner
    BY <1>0, <2>1, <2>2 DEF NoLostItem
  <2>3. CASE Take /\ UNCHANGED cvNotEmpty
    <3>1. Len(inner') = Len(inner) - 1
      BY <2>3, TailLength DEF Take
    <3> QED
      BY <1>0, <2>1, <2>3, <3>1 DEF NoLostItem
  <2> QED
    BY <1>4, <2>2, <2>3 DEF DequeueWakes
<1>5. ASSUME NEW c \in Consumer, SpuriousNotEmpty(c)
      PROVE  NoLostItem'
  <2>1. c \notin wokenNotEmpty /\ cvNotEmpty # {}
    BY <1>5 DEF SpuriousNotEmpty, TypeOK
  <2>2. Cardinality(wokenNotEmpty') = Cardinality(wokenNotEmpty) + 1
    BY <1>0, <1>5, <2>1, WokenCount, TSQueueAssumption DEF SpuriousNotEmpty
  <2>3. inner' = inner
    BY <1>5 DEF SpuriousNotEmpty
  <2> QED
    BY <1>0, <2>1, <2>2, <2>3 DEF NoLostItem
<1>6. ASSUME NEW t \in Poller, tsqueue_try_dequeue(t)
      PROVE  NoLostItem'
  <2>1. Len(inner') = Len(inner) - 1 /\ UNCHANGED <<cvNotEmpty, wokenNotEmpty>>
    BY <1>6, TailLength DEF tsqueue_try_dequeue
  <2> QED
    BY <1>0, <2>1 DEF NoLostItem
<1>7. CASE UNCHANGED <<inner, cvNotEmpty, wokenNotEmpty>>
  BY <1>7 DEF NoLostItem
<1> QED
  BY <1>1, <1>2, <1>3, <1>4, <1>5, <1>6, <1>7
     DEF Next, tsqueue_dequeue, SpuriousNotFull, vars

\* An enqueue always reaches a sleeping consumer: with any number of threads,
\* also when malloc fails, threads poll or wake up spuriously, no item is left
\* in the queue while consumers sleep and none of them is on its way.
THEOREM NoLostItemHolds == Spec => []NoLostItem
<1>1. Init => NoLostItem
  BY DEF Init, NoLostItem
<1> QED
  BY <1>1, NextItem, QueueTypeCorrect, PTL DEF Spec

-----------------------------------------------------------------------------
(* Wakeups of producers *)

\* A dequeue frees one slot and wakes one sleeping producer.
LEMMA TakeSlot ==
    ASSUME TypeOK, NoLostSlot, Take, UNCHANGED <<capacity, unannounced>>
    PROVE  NoLostSlot'
<1>1. /\ Len(inner) \in Nat /\ Len(inner') = Len(inner) - 1 /\ Len(inner) > 0
      /\ capacity \in Nat /\ unannounced \in Nat
  BY TailLength, TSQueueAssumption DEF Take, TypeOK
<1>2. CASE cvNotFull = {}
  BY <1>2 DEF Take, WakeNotFull, NoLostSlot
<1>3. CASE cvNotFull # {}
  <2>1. PICK p \in cvNotFull : wokenNotFull' = wokenNotFull \cup {p}
    BY <1>3 DEF Take, WakeNotFull
  <2>2. p \in Producer /\ p \notin wokenNotFull /\ wokenNotFull \in SUBSET Producer
    BY DEF TypeOK
  <2>3. /\ Cardinality(wokenNotFull) \in Nat
        /\ Cardinality(wokenNotFull') = Cardinality(wokenNotFull) + 1
    BY <2>1, <2>2, WokenCount, TSQueueAssumption
  <2> QED
    BY <1>1, <1>3, <2>3, TSQueueAssumption DEF NoLostSlot
<1> QED
  BY <1>2, <1>3

\* No call of the queue leaves an announced slot to a sleeping producer.
LEMMA NextSlot ==
    ASSUME TypeOK, NoLostSlot, [Next]_vars
    PROVE  NoLostSlot'
<1>0. /\ Len(inner) \in Nat
      /\ capacity \in Nat
      /\ unannounced \in Nat
      /\ wokenNotFull \in SUBSET Producer
      /\ Cardinality(wokenNotFull) \in Nat
  <2>1. IsFiniteSet(wokenNotFull)
    BY TSQueueAssumption, FS_Subset DEF TypeOK
  <2> QED
    BY <2>1, FS_CardinalityType, TSQueueAssumption DEF TypeOK
<1>1. ASSUME NEW v \in Data \cup {NULL}, Put(v)
      PROVE  /\ allocFailures' - allocFailures \in {0, 1}
             /\ Len(inner') = Len(inner) + 1 - (allocFailures' - allocFailures)
  BY <1>1, TSQueueAssumption DEF TypeOK, Put, queue_enqueue
<1>2. ASSUME NEW p \in Producer, NEW v \in Data \cup {NULL}, EnqueueAtOnce(p, v)
      PROVE  NoLostSlot'
  <2>1. /\ Len(inner') \in {Len(inner), Len(inner) + 1}
        /\ UNCHANGED <<capacity, cvNotFull, wokenNotFull, unannounced>>
    BY <1>2, PutLength DEF EnqueueAtOnce
  <2> QED
    BY <1>0, <2>1 DEF NoLostSlot
<1>3. ASSUME NEW p \in Producer, NEW v \in Data \cup {NULL}, EnqueueSleeps(p, v)
      PROVE  NoLostSlot'
  <2>1. /\ capacity <= Len(inner)
        /\ UNCHANGED <<capacity, inner, wokenNotFull, unannounced>>
    BY <1>0, <1>3 DEF EnqueueSleeps, Full
  <2> QED
    BY <1>0, <2>1 DEF NoLostSlot
<1>4. ASSUME NEW p \in Producer, EnqueueWakes(p)
      PROVE  NoLostSlot'
  <2>1. /\ wokenNotFull' = wokenNotFull \ {p}
        /\ Cardinality(wokenNotFull') = Cardinality(wokenNotFull) - 1
        /\ Cardinality(wokenNotFull') \in Nat
    <3>1. p \in wokenNotFull /\ wokenNotFull' = wokenNotFull \ {p}
      BY <1>4 DEF EnqueueWakes
    <3> QED
      BY <1>0, <3>1, WokenCount, TSQueueAssumption
  <2>2. CASE Full /\ UNCHANGED <<capacity, inner, unannounced>>
    BY <1>0, <2>1, <2>2 DEF NoLostSlot, Full
  <2>3. CASE /\ Put(arg[p])
             /\ unannounced' = unannounced + (allocFailures' - allocFailures)
             /\ UNCHANGED <<capacity, cvNotFull>>
    <3>1. /\ allocFailures' - allocFailures \in {0, 1}
          /\ Len(inner') = Len(inner) + 1 - (allocFailures' - allocFailures)
      BY <1>1, <2>3 DEF TypeOK
    <3> QED
      BY <1>0, <2>1, <2>3, <3>1 DEF NoLostSlot
  <2> QED
    BY <1>4, <2>2, <2>3 DEF EnqueueWakes
<1>5. ASSUME NEW p \in Producer, SpuriousNotFull(p)
      PROVE  NoLostSlot'
  <2>1. p \notin wokenNotFull /\ cvNotFull # {}
    BY <1>5 DEF SpuriousNotFull, TypeOK
  <2>2. Cardinality(wokenNotFull') = Cardinality(wokenNotFull) + 1
    BY <1>0, <1>5, <2>1, WokenCount, TSQueueAssumption DEF SpuriousNotFull
  <2>3. UNCHANGED <<capacity, inner, unannounced>>
    BY <1>5 DEF SpuriousNotFull
  <2> QED
    BY <1>0, <2>1, <2>2, <2>3 DEF NoLostSlot
<1>6. CASE UNCHANGED <<capacity, inner, cvNotFull, wokenNotFull, unannounced>>
  BY <1>6 DEF NoLostSlot
<1>7. ASSUME NEW c \in Consumer, tsqueue_dequeue(c)
      PROVE  NoLostSlot'
  BY <1>6, <1>7, TakeSlot
     DEF tsqueue_dequeue, DequeueAtOnce, DequeueSleeps, DequeueWakes
<1>8. ASSUME NEW t \in Poller, tsqueue_try_dequeue(t)
      PROVE  NoLostSlot'
  <2>1. CASE WakeNotFull /\ UNCHANGED unannounced
    BY <1>8, <2>1, TakeSlot DEF tsqueue_try_dequeue, Take
  <2>2. CASE unannounced' = unannounced + 1 /\ UNCHANGED <<cvNotFull, wokenNotFull>>
    <3>1. Len(inner') = Len(inner) - 1 /\ capacity' = capacity
      BY <1>8, TailLength DEF tsqueue_try_dequeue
    <3> QED
      BY <1>0, <2>2, <3>1 DEF NoLostSlot
  <2> QED
    BY <1>8, <2>1, <2>2 DEF tsqueue_try_dequeue
<1> QED
  BY <1>2, <1>3, <1>4, <1>5, <1>6, <1>7, <1>8
     DEF Next, tsqueue_enqueue, SpuriousNotEmpty, vars

\* A dequeue always reaches a sleeping producer: with any number of threads and
\* any capacity, a slot stays free while producers sleep and none of them is on
\* its way only where tsqueue_try_dequeue polled a NULL or malloc failed.
THEOREM NoLostSlotHolds == Spec => []NoLostSlot
<1>1. Init => NoLostSlot
  BY DEF Init, NoLostSlot
<1>2. TypeOK /\ NoLostSlot /\ [Next]_vars => NoLostSlot'
  BY NextSlot
<1> QED
  BY <1>1, <1>2, QueueTypeCorrect, PTL DEF Spec
=============================================================================
