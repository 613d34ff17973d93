-------------------------- MODULE PropagationProofs --------------------------
(***************************************************************************)
(* Warnings never leave the path to their destination, each is in one      *)
(* place, and the system implements the delivery service, for every tree,  *)
(* every number of warnings and workers and every number of failed calls.  *)
(***************************************************************************)
EXTENDS Propagation, FiniteSetTheorems, TLAPS

-----------------------------------------------------------------------------
(* The subtree map of collect_subtree, for every node table *)

\* A node is in its own subtree.
LEMMA SubtreeSelf ==
    ASSUME NEW n \in Node
    PROVE  n \in Subtree[n]
BY DEF Subtree, collect_subtree

\* Subtrees hold nodes only.
LEMMA SubtreeNodes ==
    ASSUME NEW n \in Node
    PROVE  Subtree[n] \subseteq Node
BY DEF Subtree, collect_subtree

\* Below its top node, a subtree holds the parent of each of its nodes.  This
\* is what lets dispatch_job_fn climb from the destination and never meet the
\* end of the parent chain before it meets its own node.
LEMMA SubtreeParent ==
    ASSUME NEW n \in Node, NEW m \in Subtree[n], m # n
    PROVE  Parent[m] \in Subtree[n]
<1> DEFINE T == {x \in Subtree[n] : x = n \/ Parent[x] \in Subtree[n]}
<1>1. T \in SUBSET Node
  BY SubtreeNodes
<1>2. n \in T
  BY SubtreeSelf
<1>3. ChildClosed(T)
  <2> SUFFICES ASSUME NEW x \in Node, Parent[x] \in T
               PROVE  x \in T
    BY DEF ChildClosed
  <2>1. Parent[x] \in Subtree[n]
    OBVIOUS
  <2>2. x \in Subtree[n]
    BY <2>1 DEF Subtree, collect_subtree, ChildClosed
  <2> QED
    BY <2>1, <2>2
<1>4. m \in T
  BY <1>1, <1>2, <1>3 DEF Subtree, collect_subtree
<1> QED
  BY <1>4

\* One step of a climb keeps the destination below the node reached.
LEMMA SubtreeClimb ==
    ASSUME NEW x \in Node, Parent[x] \in Node, NEW d \in Subtree[x]
    PROVE  d \in Subtree[Parent[x]]
<1> SUFFICES ASSUME NEW S \in SUBSET Node, Parent[x] \in S, ChildClosed(S)
             PROVE  d \in S
  BY DEF Subtree, collect_subtree
<1>1. x \in S
  BY DEF ChildClosed
<1> QED
  BY <1>1 DEF Subtree, collect_subtree

\* The subtree of a destination is the destination alone.
LEMMA LeafSubtree ==
    ASSUME NEW d \in Destination, NEW m \in Subtree[d]
    PROVE  m = d
<1>1. d \in Node /\ Children(d) = {}
  <2>1. d \in Node /\ NodeType(d) = "DESTINATION"
    BY DEF Destination
  <2> QED
    BY <2>1 DEF NodeType
<1>2. {d} \in SUBSET Node /\ ChildClosed({d})
  BY <1>1 DEF ChildClosed, Children
<1> QED
  BY <1>1, <1>2 DEF Subtree, collect_subtree

-----------------------------------------------------------------------------
(* Where a warning can be *)

\* Every warning in s is for a destination in the subtree of n.
Routed(n, s) ==
    \A i \in 1..Len(s) : s[i] \in Warning =>
        s[i].dest_node \in Destination /\ s[i].dest_node \in Subtree[n]

\* A thread that routes a warning: the warning is for a destination, and the
\* node that the climb has reached is the destination or above it.
Climbing(t) ==
    /\ t.w \in Warning
    /\ t.x \in Node
    /\ t.w.dest_node \in Destination
    /\ t.w.dest_node \in Subtree[t.x]

\* The sender climbs from the destination and sends to a root.
SenderInv ==
    /\ sender.pc \in {"climb", "send"} => Climbing(sender)
    /\ sender.pc = "send" => Parent[sender.x] = NoNode

\* A worker of node n climbs strictly below n and sends to a child of n.
WorkerOK(n, t) ==
    /\ t.pc = "climb" => Climbing(t) /\ t.x \in Subtree[n] /\ t.x # n
    /\ t.pc = "send"  => Climbing(t) /\ Parent[t.x] = n

WorkerInv == \A n \in Central, k \in Worker : WorkerOK(n, worker[n][k])

\* Wherever a warning is, its destination is a leaf of the subtree below.
GlobalRouted == \A i \in 1..Len(globalQ) : globalQ[i] \in Warning =>
                    globalQ[i].dest_node \in Destination
ChanRouted   == \A p \in Process, n \in Node : Routed(n, chan[p][n])
PoolRouted   == \A n \in Central : Routed(n, pool[n])
DestRouted   == \A d \in Destination :
                    Routed(d, queue[d]) /\ Routed(d, warning_log[d])

SourceInv == SourceType /\ GlobalRouted /\ SenderInv
NetInv    == NetType /\ ChanRouted /\ AlongTreeEdges
PropInv   == PropagatorType /\ PoolRouted /\ WorkerInv
DestInv   == DestinationType /\ DestRouted

\* The inductive invariant, by the part of the state it is about.
Inv == stopEvent \in BOOLEAN /\ SourceInv /\ NetInv /\ ClientType /\ PropInv /\ DestInv

-----------------------------------------------------------------------------
(* Sequences of routed warnings. *)

\* Appending a routed warning, or a mark, to a channel or a queue keeps it routed.
LEMMA RoutedAppend ==
    ASSUME NEW T, NEW s \in Seq(T), NEW n, Routed(n, s), NEW e,
           e \in Warning => e.dest_node \in Destination /\ e.dest_node \in Subtree[n]
    PROVE  Routed(n, Append(s, e))
BY DEF Routed

\* What a thread takes from a routed queue or channel is routed, and so is the
\* rest.
LEMMA RoutedTail ==
    ASSUME NEW T, NEW s \in Seq(T), NEW n, Routed(n, s), s # <<>>
    PROVE  /\ Routed(n, Tail(s))
           /\ Head(s) \in Warning => /\ Head(s).dest_node \in Destination
                                     /\ Head(s).dest_node \in Subtree[n]
BY DEF Routed

\* What is left of a channel when a failed send, or a listener that gives its
\* client up, cuts it is routed.
LEMMA RoutedPart ==
    ASSUME NEW T, NEW s \in Seq(T), NEW n, Routed(n, s),
           NEW l \in 1..(Len(s) + 1), NEW k \in 0..Len(s)
    PROVE  /\ SubSeq(s, l, k) \in Seq(T)
           /\ Routed(n, SubSeq(s, l, k))
<1>1. PICK r : r = SubSeq(s, l, k)
  OBVIOUS
<1>2. /\ r \in Seq(T)
      /\ \A i \in 1..Len(r) : i + l - 1 \in 1..Len(s) /\ r[i] = s[i + l - 1]
  BY <1>1
<1>3. Routed(n, r)
  BY <1>2 DEF Routed
<1> QED
  BY <1>1, <1>2, <1>3

-----------------------------------------------------------------------------
\* The started system, with empty queues and no connections, satisfies Inv.
LEMMA InitInv == Init => Inv
<1> SUFFICES ASSUME Init PROVE Inv
  OBVIOUS
<1> USE NodeAssumption, PropagationAssumption DEF Init, At
<1>1. stopEvent \in BOOLEAN
  OBVIOUS
<1>2. SourceInv
  BY DEF SourceInv, SourceType, GlobalRouted, SenderInv, Thread
<1>3. NetInv
  BY DEF NetInv, NetType, ChanRouted, AlongTreeEdges, Routed, Process
<1>4. ClientType
  BY DEF ClientType
<1>5. PropInv
  BY DEF PropInv, PropagatorType, PoolRouted, WorkerInv, WorkerOK, Routed, Thread
<1>6. DestInv
  BY DEF DestInv, DestinationType, DestRouted, Routed
<1> QED
  BY <1>1, <1>2, <1>3, <1>4, <1>5, <1>6 DEF Inv

-----------------------------------------------------------------------------
(* Sending a routed warning along a tree edge keeps the network in order. *)

\* get_or_create_connection adds at most the CONNECT mark to a channel.
LEMMA ConnectedRouted ==
    ASSUME NetInv, NEW p \in Process, NEW n \in Node
    PROVE  /\ Connected(p, n) \in Seq(Warning \cup Mark)
           /\ Routed(n, Connected(p, n))
<1>1. chan[p][n] \in Seq(Warning \cup Mark) /\ Routed(n, chan[p][n])
  BY DEF NetInv, NetType, ChanRouted
<1>2. CONNECT \in Mark /\ CONNECT \notin Warning
  BY MarkAssumption DEF Mark
<1>3. Routed(n, Append(chan[p][n], CONNECT))
  BY <1>1, <1>2, RoutedAppend
<1> QED
  BY <1>1, <1>2, <1>3 DEF Connected

\* What a new value s of one channel, with p's new pool, must satisfy.
LEMMA ChanUpdate ==
    ASSUME NetInv, NEW p \in Process, NEW n \in Node,
           Parent[n] = IF p = DS THEN NoNode ELSE p,
           NEW s \in Seq(Warning \cup Mark), Routed(n, s),
           NEW S \in SUBSET Node, S \subseteq open[p] \cup {n},
           open' = [open EXCEPT ![p] = S],
           severed' \in [Process -> SUBSET Node],
           chan' = [chan EXCEPT ![p][n] = s],
           failures' \in 0..MaxFailures,
           lost' \subseteq Warning
    PROVE  NetInv'
<1> USE DEF NetInv
<1>1. NetType'
  BY DEF NetType
<1>2. ChanRouted'
  <2> SUFFICES ASSUME NEW q \in Process, NEW m \in Node
               PROVE  Routed(m, chan'[q][m])
    BY DEF ChanRouted, Routed
  <2>1. chan'[q][m] = IF q = p /\ m = n THEN s ELSE chan[q][m]
    BY DEF NetType
  <2> QED
    BY <2>1 DEF ChanRouted
<1>3. AlongTreeEdges'
  <2> SUFFICES ASSUME NEW q \in Process, NEW m \in Node,
                      m \in open'[q] \/ chan'[q][m] # <<>>
               PROVE  Parent[m] = IF q = DS THEN NoNode ELSE q
    BY DEF AlongTreeEdges
  <2>1. chan'[q][m] = IF q = p /\ m = n THEN s ELSE chan[q][m]
    BY DEF NetType
  <2>2. open'[q] = IF q = p THEN S ELSE open[q]
    BY DEF NetType
  <2>3. CASE q = p /\ m = n
    BY <2>3
  <2>4. CASE ~(q = p /\ m = n)
    BY <2>1, <2>2, <2>4 DEF AlongTreeEdges
  <2> QED
    BY <2>3, <2>4
<1> QED
  BY <1>1, <1>2, <1>3

\* Connections that go, and warnings that are lost, leave the network in order.
LEMMA NetShrinks ==
    ASSUME NetInv, UNCHANGED chan,
           open' \in [Process -> SUBSET Node], \A q \in Process : open'[q] \subseteq open[q],
           severed' \in [Process -> SUBSET Node],
           failures' \in 0..MaxFailures,
           lost' \subseteq Warning
    PROVE  NetInv'
<1>1. NetType'
  BY DEF NetInv, NetType
<1>2. ChanRouted'
  BY DEF NetInv, ChanRouted
<1>3. AlongTreeEdges'
  BY DEF NetInv, AlongTreeEdges
<1> QED
  BY <1>1, <1>2, <1>3 DEF NetInv

\* A failing step counts as one.
LEMMA FailsType ==
    ASSUME NetInv, Fails
    PROVE  failures' \in 0..MaxFailures /\ failures' > 0
<1>1. failures \in 0..MaxFailures /\ MaxFailures \in Nat
  BY PropagationAssumption DEF NetInv, NetType
<1>2. failures < MaxFailures /\ failures' = failures + 1
  BY DEF Fails
<1> QED
  BY <1>1, <1>2

\* All outcomes of send_warning_to keep the network in order when the warning is
\* for a leaf below the child (or the root) it is sent to.
LEMMA SendNet ==
    ASSUME NetInv, NEW p \in Process, NEW n \in Node,
           Parent[n] = IF p = DS THEN NoNode ELSE p,
           NEW w \in Warning,
           w.dest_node \in Destination, w.dest_node \in Subtree[n],
           send_warning_to(p, n, w)
    PROVE  NetInv'
<1> DEFINE s == Connected(p, n)
<1>1. s \in Seq(Warning \cup Mark) /\ Routed(n, s)
  BY ConnectedRouted
<1>2. /\ open \in [Process -> SUBSET Node] /\ open[p] \subseteq Node
      /\ severed \in [Process -> SUBSET Node]
      /\ failures \in 0..MaxFailures /\ lost \subseteq Warning
  BY DEF NetInv, NetType
<1>3. CASE SendSucceeds(p, n, w)
  <2>1. Append(s, w) \in Seq(Warning \cup Mark) /\ Routed(n, Append(s, w))
    BY <1>1, RoutedAppend
  <2>2. open[p] \cup {n} \in SUBSET Node
    BY <1>2
  <2>3. /\ open' = [open EXCEPT ![p] = open[p] \cup {n}]
        /\ severed' \in [Process -> SUBSET Node]
        /\ chan' = [chan EXCEPT ![p][n] = Append(s, w)]
        /\ failures' \in 0..MaxFailures
        /\ lost' \subseteq Warning
    BY <1>2, <1>3 DEF SendSucceeds, lossVars
  <2> HIDE DEF s
  <2> QED
    BY <2>1, <2>2, <2>3, ChanUpdate
<1>4. CASE ConnectFails(p, n, w)
  <2>1. failures' \in 0..MaxFailures
    BY <1>4, FailsType DEF ConnectFails
  <2>2. lost' \subseteq Warning /\ UNCHANGED <<open, severed, chan>>
    BY <1>2, <1>4 DEF ConnectFails, Loses, poolVars
  <2> QED
    BY <1>2, <2>1, <2>2, NetShrinks
<1>5. CASE FrameFails(p, n, w)
  <2>1. failures' \in 0..MaxFailures
    BY <1>5, FailsType DEF FrameFails
  <2>2. open[p] \cup {n} \in SUBSET Node
    BY <1>2
  <2>3. /\ open' = [open EXCEPT ![p] = open[p] \cup {n}]
        /\ severed' \in [Process -> SUBSET Node]
        /\ chan' = [chan EXCEPT ![p][n] = s]
        /\ lost' \subseteq Warning
    BY <1>2, <1>5 DEF FrameFails, Loses
  <2> HIDE DEF s
  <2> QED
    BY <1>1, <2>1, <2>2, <2>3, ChanUpdate
<1>6. CASE SendFails(p, n, w)
  <2>1. PICK k \in 0..Len(s) :
          /\ \A i \in (k + 1)..Len(s) : s[i] \in Warning
          /\ chan' = [chan EXCEPT ![p][n] = Append(SubSeq(s, 1, k), EOF)]
          /\ Loses({w} \cup {s[i] : i \in (k + 1)..Len(s)})
    BY <1>6 DEF SendFails
  <2> DEFINE r == SubSeq(s, 1, k)
             t == Append(r, EOF)
  <2>2. r \in Seq(Warning \cup Mark) /\ Routed(n, r)
    <3> HIDE DEF s
    <3>1. 1 \in 1..(Len(s) + 1)
      BY <1>1
    <3> QED
      BY <1>1, <3>1, RoutedPart
  <2>3. EOF \in Mark /\ EOF \notin Warning
    BY MarkAssumption DEF Mark
  <2>4. t \in Seq(Warning \cup Mark) /\ Routed(n, t)
    <3> HIDE DEF r
    <3> QED
      BY <2>2, <2>3, RoutedAppend
  <2>5. open[p] \ {n} \in SUBSET Node
    BY <1>2
  <2>6. failures' \in 0..MaxFailures
    BY <1>6, FailsType DEF SendFails
  <2>7. /\ open' = [open EXCEPT ![p] = open[p] \ {n}]
        /\ severed' \in [Process -> SUBSET Node]
    BY <1>2, <1>6 DEF SendFails
  <2>8. chan' = [chan EXCEPT ![p][n] = t]
    BY <2>1
  <2>9. lost' \subseteq Warning
    BY <1>2, <2>1 DEF Loses
  <2> HIDE DEF t
  <2> QED
    BY <2>4, <2>5, <2>6, <2>7, <2>8, <2>9, ChanUpdate
<1>7. CASE SendOnSevered(p, n, w)
  <2>1. /\ UNCHANGED <<chan, failures>>
        /\ lost' \subseteq Warning
    BY <1>2, <1>7 DEF SendOnSevered, Loses
  <2>2. /\ open' \in [Process -> SUBSET Node]
        /\ \A q \in Process : open'[q] \subseteq open[q]
        /\ severed' \in [Process -> SUBSET Node]
    BY <1>2, <1>7 DEF SendOnSevered, poolVars
  <2> QED
    BY <1>2, <2>1, <2>2, NetShrinks
<1> QED
  BY <1>3, <1>4, <1>5, <1>6, <1>7 DEF send_warning_to

-----------------------------------------------------------------------------
(* Data Source steps *)

\* The user, the generator and the sender of the Data Source preserve Inv: the
\* sender climbs to a root that is above the destination.
LEMMA SourceStepInv == Inv /\ (Stop \/ GeneratorStep \/ SenderStep) => Inv'
<1> SUFFICES ASSUME Inv, Stop \/ GeneratorStep \/ SenderStep
             PROVE  Inv'
  OBVIOUS
<1> USE DEF Inv
<1>1. CASE Stop
  BY <1>1 DEF Stop, SourceInv, SourceType, GlobalRouted, SenderInv, NetInv,
     NetType, ChanRouted, AlongTreeEdges, netVars, poolVars, lossVars, ClientType, PropInv,
     PropagatorType, PoolRouted, WorkerInv, cpVars, DestInv, DestinationType,
     DestRouted, ddVars
<1>2. ASSUME UNCHANGED <<netVars, client, cpVars, ddVars>>
      PROVE  NetInv' /\ ClientType' /\ PropInv' /\ DestInv'
  BY <1>2 DEF NetInv, NetType, ChanRouted, AlongTreeEdges, netVars, poolVars, lossVars, ClientType,
     PropInv, PropagatorType, PoolRouted, WorkerInv, cpVars, DestInv,
     DestinationType, DestRouted, ddVars
<1>3. CASE GeneratorCheck \/ GeneratorEnds
  <2>1. globalQ' = globalQ \/ globalQ' = Append(globalQ, NULL)
    BY <1>3 DEF GeneratorCheck, GeneratorEnds
  <2>2. SourceType'
    BY <1>3, <2>1 DEF GeneratorCheck, GeneratorEnds, SourceInv, SourceType
  <2>3. GlobalRouted'
    BY <2>1, MarkAssumption DEF SourceInv, SourceType, GlobalRouted
  <2>4. SenderInv'
    BY <1>3 DEF GeneratorCheck, GeneratorEnds, SourceInv, SenderInv
  <2> QED
    BY <1>2, <1>3, <2>2, <2>3, <2>4 DEF GeneratorCheck, GeneratorEnds, SourceInv
<1>4. CASE Generate
  <2>1. PICK w \in Warning : Made(w) /\ globalQ' = Append(globalQ, w)
    BY <1>4 DEF Generate
  <2>2. /\ counter \in 0..NUMBER_OF_WARNINGS /\ counter < NUMBER_OF_WARNINGS
        /\ counter' = counter + 1 /\ w.dest_node \in Destination
    BY <1>4, <2>1 DEF Generate, Made, SourceInv, SourceType
  <2>3. SourceType'
    BY <1>4, <2>1, <2>2, PropagationAssumption DEF Generate, SourceInv, SourceType
  <2>4. GlobalRouted'
    BY <2>1, <2>2 DEF SourceInv, SourceType, GlobalRouted
  <2>5. SenderInv'
    BY <1>4 DEF Generate, SourceInv, SenderInv
  <2> QED
    BY <1>2, <1>4, <2>3, <2>4, <2>5 DEF Generate, SourceInv
<1>5. CASE SenderCheck
  <2>1. SourceInv'
    BY <1>5 DEF SenderCheck, SourceInv, SourceType, GlobalRouted, SenderInv,
       Thread, At
  <2> QED
    BY <1>2, <1>5, <2>1 DEF SenderCheck
<1>6. CASE SenderDequeue
  <2>1. /\ globalQ' = Tail(globalQ)
        /\ Head(globalQ) \in Warning \cup {NULL}
        /\ Head(globalQ) \in Warning => Head(globalQ).dest_node \in Destination
        /\ GlobalRouted'
        /\ globalQ' \in Seq(Warning \cup {NULL})
    BY <1>6 DEF SenderDequeue, SourceInv, SourceType, GlobalRouted
  <2>2. CASE Head(globalQ) = NULL
    <3>1. sender' = At("done")
      BY <1>6, <2>2 DEF SenderDequeue
    <3>2. SourceInv'
      BY <1>6, <2>1, <3>1 DEF SenderDequeue, SourceInv, SourceType, SenderInv,
         Thread, At
    <3> QED
      BY <1>2, <1>6, <3>2 DEF SenderDequeue
  <2>3. CASE Head(globalQ) # NULL
    <3> DEFINE w == Head(globalQ)
    <3>1. sender' = [pc |-> "climb", w |-> w, x |-> w.dest_node]
      BY <1>6, <2>3 DEF SenderDequeue
    <3>2. w \in Warning /\ w.dest_node \in Destination /\ w.dest_node \in Node
      BY <2>1, <2>3 DEF Destination
    <3>3. w.dest_node \in Subtree[w.dest_node]
      BY <3>2, SubtreeSelf
    <3> HIDE DEF w
    <3>4. SourceType'
      BY <1>6, <2>1, <3>1, <3>2 DEF SenderDequeue, SourceInv, SourceType, Thread
    <3>5. SenderInv'
      BY <3>1, <3>2, <3>3 DEF SenderInv, Climbing
    <3> QED
      BY <1>2, <1>6, <2>1, <3>4, <3>5 DEF SenderDequeue, SourceInv
  <2> QED
    BY <2>2, <2>3
<1>7. CASE find_root
  <2>1. Climbing(sender) /\ sender \in Thread
    BY <1>7 DEF find_root, SourceInv, SourceType, SenderInv
  <2>2. CASE Parent[sender.x] # NoNode
    <3>1. sender' = [sender EXCEPT !.x = Parent[@]]
      BY <1>7, <2>2 DEF find_root
    <3>2. Parent[sender.x] \in Node
      BY <2>1, <2>2, NodeAssumption DEF Climbing
    <3>3. sender.w.dest_node \in Subtree[Parent[sender.x]]
      BY <2>1, <3>2, SubtreeClimb DEF Climbing
    <3>4. /\ sender' \in Thread
          /\ sender'.w = sender.w
          /\ sender'.x = Parent[sender.x]
          /\ sender'.pc = "climb"
      BY <1>7, <2>1, <3>1, <3>2 DEF find_root, Thread
    <3>5. SourceInv'
      BY <1>7, <2>1, <3>2, <3>3, <3>4
         DEF find_root, SourceInv, SourceType, GlobalRouted, SenderInv, Climbing
    <3> QED
      BY <1>2, <1>7, <3>5 DEF find_root
  <2>3. CASE Parent[sender.x] = NoNode
    <3>1. sender' = [sender EXCEPT !.pc = "send"]
      BY <1>7, <2>3 DEF find_root
    <3>2. /\ sender' \in Thread
          /\ sender'.w = sender.w
          /\ sender'.x = sender.x
          /\ sender'.pc = "send"
      BY <2>1, <3>1 DEF Thread
    <3>3. SourceInv'
      BY <1>7, <2>1, <2>3, <3>2
         DEF find_root, SourceInv, SourceType, GlobalRouted, SenderInv, Climbing
    <3> QED
      BY <1>2, <1>7, <3>3 DEF find_root
  <2> QED
    BY <2>2, <2>3
<1>8. CASE SenderSend
  <2>1. Climbing(sender) /\ Parent[sender.x] = NoNode
    BY <1>8 DEF SenderSend, SourceInv, SenderInv
  <2>2. NetInv'
    BY <1>8, <2>1, SendNet DEF SenderSend, Climbing, Process
  <2>3. SourceInv'
    BY <1>8 DEF SenderSend, SourceInv, SourceType, GlobalRouted, SenderInv,
       Thread, At
  <2>4. ClientType' /\ PropInv' /\ DestInv'
    BY <1>8 DEF SenderSend, ClientType, PropInv, PropagatorType, PoolRouted,
       WorkerInv, cpVars, DestInv, DestinationType, DestRouted, ddVars
  <2> QED
    BY <1>8, <2>2, <2>3, <2>4 DEF SenderSend
<1>9. ASSUME UNCHANGED <<poolVars, chan, client, cpVars, ddVars>>,
             failures' \in 0..MaxFailures, lost' \subseteq Warning
      PROVE  NetInv' /\ ClientType' /\ PropInv' /\ DestInv'
  <2>1. NetInv'
    BY <1>9, NetShrinks DEF NetInv, NetType, poolVars
  <2> QED
    BY <1>9, <2>1 DEF ClientType, PropInv, PropagatorType, PoolRouted, WorkerInv,
       cpVars, DestInv, DestinationType, DestRouted, ddVars
<1>10. CASE GenerateFails
  <2>1. /\ globalQ' = globalQ \/ globalQ' = Append(globalQ, NULL)
        /\ counter' = counter \/ counter' = counter + 1
        /\ generator' = "check"
        /\ UNCHANGED <<sender, stopEvent>>
    BY <1>10 DEF GenerateFails, Made
  <2>2. counter \in 0..NUMBER_OF_WARNINGS /\ counter < NUMBER_OF_WARNINGS
    BY <1>10 DEF GenerateFails, SourceInv, SourceType
  <2>3. SourceType'
    <3>1. counter' \in 0..NUMBER_OF_WARNINGS
      BY <2>1, <2>2, PropagationAssumption
    <3>2. globalQ' \in Seq(Warning \cup {NULL})
      BY <2>1 DEF SourceInv, SourceType
    <3> QED
      BY <2>1, <3>1, <3>2 DEF SourceInv, SourceType
  <2>4. GlobalRouted'
    BY <2>1, MarkAssumption DEF SourceInv, SourceType, GlobalRouted
  <2>5. SenderInv'
    BY <2>1 DEF SourceInv, SenderInv
  <2>6. failures' \in 0..MaxFailures
    BY <1>10, FailsType DEF GenerateFails
  <2>7. lost' \subseteq Warning
    BY <1>10 DEF GenerateFails, Loses, NetInv, NetType
  <2>8. NetInv' /\ ClientType' /\ PropInv' /\ DestInv'
    BY <1>9, <1>10, <2>6, <2>7 DEF GenerateFails
  <2> QED
    BY <2>1, <2>3, <2>4, <2>5, <2>8 DEF SourceInv
<1>11. CASE GeneratorEndsMute
  <2>1. /\ UNCHANGED <<stopEvent, counter, globalQ, sender, poolVars, chan, lost,
                       client, cpVars, ddVars>>
        /\ generator' = "mute"
    BY <1>11 DEF GeneratorEndsMute
  <2>2. SourceInv'
    BY <2>1 DEF SourceInv, SourceType, GlobalRouted, SenderInv
  <2>3. failures' \in 0..MaxFailures
    BY <1>11, FailsType DEF GeneratorEndsMute, NetInv, NetType
  <2>4. lost' \subseteq Warning
    BY <2>1 DEF NetInv, NetType
  <2>5. NetInv' /\ ClientType' /\ PropInv' /\ DestInv'
    BY <1>9, <2>1, <2>3, <2>4
  <2> QED
    BY <2>1, <2>2, <2>5
<1> QED
  BY <1>1, <1>3, <1>4, <1>5, <1>6, <1>7, <1>8, <1>10, <1>11
     DEF GeneratorStep, SenderStep

-----------------------------------------------------------------------------
(* Listener steps *)

\* A listener takes the head of a channel.
LEMMA ChanTail ==
    ASSUME NetInv, NEW p \in Process, NEW n \in Node, chan[p][n] # <<>>,
           chan' = [chan EXCEPT ![p][n] = Tail(@)],
           UNCHANGED <<open, severed>>,
           failures' \in 0..MaxFailures, lost' \subseteq Warning
    PROVE  /\ NetInv'
           /\ Head(chan[p][n]) \in Warning =>
                /\ Head(chan[p][n]).dest_node \in Destination
                /\ Head(chan[p][n]).dest_node \in Subtree[n]
<1>1. chan[p][n] \in Seq(Warning \cup Mark) /\ Routed(n, chan[p][n])
  BY DEF NetInv, NetType, ChanRouted
<1> DEFINE s == Tail(chan[p][n])
<1>2. s \in Seq(Warning \cup Mark)
  BY <1>1
<1>3. Routed(n, s)
  BY <1>1, RoutedTail
<1>4. Parent[n] = IF p = DS THEN NoNode ELSE p
  BY DEF NetInv, AlongTreeEdges
<1>5. /\ open' = [open EXCEPT ![p] = open[p]]
      /\ open[p] \in SUBSET Node
      /\ severed' \in [Process -> SUBSET Node]
  BY DEF NetInv, NetType
<1>6. chan' = [chan EXCEPT ![p][n] = s]
  OBVIOUS
<1>7. NetInv'
  <2> HIDE DEF s
  <2> QED
    BY <1>2, <1>3, <1>4, <1>5, <1>6, ChanUpdate
<1> QED
  BY <1>1, <1>7, RoutedTail

\* A listener that gives its client up takes warnings from the front of a channel.
LEMMA GivesUpNet ==
    ASSUME NetInv, NEW p \in Process, NEW n \in Node, ListenerGivesUp(n, p)
    PROVE  NetInv'
<1> DEFINE s == chan[p][n]
<1>1. s \in Seq(Warning \cup Mark) /\ Routed(n, s)
  BY DEF NetInv, NetType, ChanRouted
<1>2. PICK k \in 1..Len(s) :
         /\ \A i \in 1..k : s[i] \in Warning
         /\ Loses({s[i] : i \in 1..k})
         /\ \/ /\ chan' = [chan EXCEPT ![p][n] = <<>>]
               /\ severed' = [severed EXCEPT ![p] = @ \cup {n}]
            \/ /\ k < Len(s)
               /\ chan' = [chan EXCEPT ![p][n] = SubSeq(s, k + 2, Len(s))]
               /\ UNCHANGED severed
  BY Zenon DEF ListenerGivesUp
<1>3. Parent[n] = IF p = DS THEN NoNode ELSE p
  BY DEF ListenerGivesUp, HasWarning, NetInv, AlongTreeEdges
<1>4. /\ open' = [open EXCEPT ![p] = open[p]]
      /\ open[p] \in SUBSET Node
      /\ severed' \in [Process -> SUBSET Node]
  <2>1. open \in [Process -> SUBSET Node] /\ severed \in [Process -> SUBSET Node]
    BY DEF NetInv, NetType
  <2>2. open' = open
    BY DEF ListenerGivesUp
  <2>3. severed' = severed \/ severed' = [severed EXCEPT ![p] = @ \cup {n}]
    BY <1>2
  <2>4. severed' \in [Process -> SUBSET Node]
    BY <2>1, <2>3
  <2> QED
    BY <2>1, <2>2, <2>4
<1>5. failures' \in 0..MaxFailures
  BY FailsType DEF ListenerGivesUp
<1>6. lost' \subseteq Warning
  BY <1>2 DEF Loses, NetInv, NetType
<1> HIDE DEF s
<1>7. CASE chan' = [chan EXCEPT ![p][n] = <<>>]
  <2>1. PICK e : e = <<>>
    OBVIOUS
  <2>2. e \in Seq(Warning \cup Mark) /\ Routed(n, e)
    BY <2>1 DEF Routed
  <2>3. chan' = [chan EXCEPT ![p][n] = e]
    BY <1>7, <2>1
  <2> QED
    BY <1>3, <1>4, <1>5, <1>6, <2>2, <2>3, ChanUpdate
<1>8. CASE /\ k < Len(s)
           /\ chan' = [chan EXCEPT ![p][n] = SubSeq(s, k + 2, Len(s))]
  <2>1. k + 2 \in 1..(Len(s) + 1) /\ Len(s) \in 0..Len(s)
    BY <1>1, <1>8
  <2>2. PICK e : e = SubSeq(s, k + 2, Len(s))
    OBVIOUS
  <2>3. e \in Seq(Warning \cup Mark) /\ Routed(n, e)
    BY <1>1, <2>1, <2>2, RoutedPart
  <2>4. chan' = [chan EXCEPT ![p][n] = e]
    BY <1>8, <2>2
  <2> QED
    BY <1>3, <1>4, <1>5, <1>6, <2>3, <2>4, ChanUpdate
<1> QED
  BY <1>2, <1>7, <1>8

\* The listeners of propagators and destinations preserve Inv: they only move a
\* warning from a channel to the queue of the same node, or lose some.
LEMMA ListenerStepInv ==
    ASSUME Inv, NEW n \in Node, ListenerStep(n)
    PROVE  Inv'
<1> USE DEF Inv
<1>0. PICK p \in Process :
        \/ Accept(n, p)
        \/ ClientGone(n, p)
        \/ ListenerGivesUp(n, p)
        \/ ListenerDrops(n, p)
        \/ n \in Central /\ cp_listener_run(n, p)
        \/ n \in Destination /\ listener_fn(n, p)
  BY DEF ListenerStep
<1>1. /\ NetInv'
      /\ ~ListenerGivesUp(n, p) /\ Head(chan[p][n]) \in Warning =>
            /\ Head(chan[p][n]).dest_node \in Destination
            /\ Head(chan[p][n]).dest_node \in Subtree[n]
  <2>1. failures \in 0..MaxFailures /\ lost \subseteq Warning
    BY DEF NetInv, NetType
  <2>2. CASE ListenerGivesUp(n, p)
    BY <2>2, GivesUpNet
  <2>3. CASE ListenerDrops(n, p)
    <3>1. failures' \in 0..MaxFailures
      BY <2>3, FailsType DEF ListenerDrops
    <3>2. lost' \subseteq Warning
      BY <2>1, <2>3 DEF ListenerDrops, Loses, HasWarning
    <3> QED
      BY <2>3, <3>1, <3>2, ChanTail DEF ListenerDrops, HasWarning, poolVars
  <2>4. CASE ~ListenerGivesUp(n, p) /\ ~ListenerDrops(n, p)
    <3>1. /\ chan[p][n] # <<>> /\ chan' = [chan EXCEPT ![p][n] = Tail(@)]
          /\ UNCHANGED <<open, severed, failures, lost>>
      BY <1>0, <2>4 DEF Accept, ClientGone, cp_listener_run, listener_fn, HasWarning,
         poolVars, lossVars
    <3> QED
      BY <2>1, <3>1, ChanTail
  <2> QED
    BY <2>2, <2>3, <2>4
<1>2. UNCHANGED dsVars
  BY <1>0 DEF Accept, ClientGone, ListenerGivesUp, ListenerDrops, cp_listener_run,
     listener_fn
<1>3. stopEvent' \in BOOLEAN /\ SourceInv'
  BY <1>2 DEF dsVars, SourceInv, SourceType, GlobalRouted, SenderInv
<1>4. ClientType'
  BY <1>0 DEF Accept, ClientGone, ListenerGivesUp, ListenerDrops, cp_listener_run,
     listener_fn, ClientType
<1>5. CASE \/ Accept(n, p) \/ ClientGone(n, p)
           \/ ListenerGivesUp(n, p) \/ ListenerDrops(n, p)
  <2>1. UNCHANGED <<cpVars, ddVars>>
    BY <1>5 DEF Accept, ClientGone, ListenerGivesUp, ListenerDrops
  <2>2. PropInv' /\ DestInv'
    BY <2>1 DEF cpVars, ddVars, PropInv, PropagatorType,
       PoolRouted, WorkerInv, DestInv, DestinationType, DestRouted
  <2> QED
    BY <1>1, <1>3, <1>4, <2>2
<1>6. CASE n \in Central /\ cp_listener_run(n, p)
  <2> DEFINE w == Head(chan[p][n])
  <2>1. /\ w \in Warning
        /\ w.dest_node \in Destination /\ w.dest_node \in Subtree[n]
        /\ pool' = [pool EXCEPT ![n] = Append(@, w)]
    <3>1. ~ListenerGivesUp(n, p)
      BY <1>6 DEF cp_listener_run, ListenerGivesUp, lossVars, Fails, NetInv, NetType
    <3> QED
      BY <1>1, <1>6, <3>1 DEF cp_listener_run, HasWarning
  <2>2. pool[n] \in Seq(Warning) /\ Routed(n, pool[n])
    BY <1>6 DEF PropInv, PropagatorType, PoolRouted
  <2> HIDE DEF w
  <2>3. Routed(n, Append(pool[n], w))
    BY <2>1, <2>2, RoutedAppend
  <2>4. PropagatorType'
    BY <1>6, <2>1 DEF cp_listener_run, PropInv, PropagatorType
  <2>5. PoolRouted'
    BY <2>1, <2>3 DEF PropInv, PropagatorType, PoolRouted
  <2>6. WorkerInv' /\ DestInv'
    BY <1>6 DEF cp_listener_run, ddVars, PropInv, WorkerInv, DestInv,
       DestinationType, DestRouted
  <2> QED
    BY <1>1, <1>3, <1>4, <2>4, <2>5, <2>6 DEF PropInv
<1>7. CASE n \in Destination /\ listener_fn(n, p)
  <2> DEFINE w == Head(chan[p][n])
  <2>1. /\ w \in Warning
        /\ w.dest_node \in Destination /\ w.dest_node \in Subtree[n]
        /\ queue' = [queue EXCEPT ![n] = Append(@, w)]
        /\ UNCHANGED <<warning_log, warning_count>>
    <3>1. ~ListenerGivesUp(n, p)
      BY <1>7 DEF listener_fn, ListenerGivesUp, lossVars, Fails, NetInv, NetType
    <3> QED
      BY <1>1, <1>7, <3>1 DEF listener_fn, HasWarning
  <2>2. queue[n] \in Seq(Warning) /\ Routed(n, queue[n])
    BY <1>7 DEF DestInv, DestinationType, DestRouted
  <2> HIDE DEF w
  <2>3. Routed(n, Append(queue[n], w))
    BY <2>1, <2>2, RoutedAppend
  <2>4. DestinationType'
    BY <1>7, <2>1 DEF DestInv, DestinationType
  <2>5. DestRouted'
    BY <2>1, <2>3 DEF DestInv, DestinationType, DestRouted
  <2>6. PropInv'
    BY <1>7 DEF listener_fn, cpVars, PropInv, PropagatorType, PoolRouted, WorkerInv
  <2> QED
    BY <1>1, <1>3, <1>4, <2>4, <2>5, <2>6 DEF DestInv
<1> QED
  BY <1>0, <1>5, <1>6, <1>7

-----------------------------------------------------------------------------
(* Worker steps *)

\* A worker of one node changes only its own state.
LEMMA WorkerUpdate ==
    ASSUME PropInv, NEW n \in Central, NEW k \in Worker,
           NEW t \in Thread, WorkerOK(n, t),
           worker' = [worker EXCEPT ![n][k] = t]
    PROVE  worker' \in [Central -> [Worker -> Thread]] /\ WorkerInv'
<1>1. worker' \in [Central -> [Worker -> Thread]]
  BY DEF PropInv, PropagatorType
<1>2. ASSUME NEW m \in Central, NEW j \in Worker
      PROVE  WorkerOK(m, worker'[m][j])
  <2>1. worker'[m][j] = IF m = n /\ j = k THEN t ELSE worker[m][j]
    BY DEF PropInv, PropagatorType
  <2> QED
    BY <2>1 DEF PropInv, WorkerInv
<1> QED
  BY <1>1, <1>2 DEF WorkerInv, WorkerOK, Climbing

\* The workers of dispatch_job_fn preserve Inv: a climb that starts at a leaf
\* below node n ends at the child of n above that leaf.
LEMMA WorkerStepInv ==
    ASSUME Inv, NEW n \in Central, NEW k \in Worker, WorkerStep(n, k)
    PROVE  Inv'
<1> USE DEF Inv
<1> DEFINE u == worker[n][k]
<1>1. u \in Thread /\ WorkerOK(n, u)
  BY DEF PropInv, PropagatorType, WorkerInv
<1>2. ASSUME UNCHANGED <<dsVars, client, ddVars>>
      PROVE  stopEvent' \in BOOLEAN /\ SourceInv' /\ ClientType' /\ DestInv'
  BY <1>2 DEF dsVars, SourceInv, SourceType, GlobalRouted, SenderInv,
     ClientType, DestInv, DestinationType, DestRouted, ddVars
<1>3. ASSUME UNCHANGED netVars
      PROVE  NetInv'
  BY <1>3 DEF netVars, poolVars, lossVars, NetInv, NetType, ChanRouted, AlongTreeEdges
<1>4. n \in Node
  BY DEF Central
<1>5. CASE WorkerDequeue(n, k)
  <2> DEFINE w == Head(pool[n])
             t == [pc |-> "climb", w |-> w, x |-> w.dest_node]
  <2>1. pool[n] \in Seq(Warning) /\ pool[n] # <<>> /\ Routed(n, pool[n])
    BY <1>5 DEF WorkerDequeue, PropInv, PropagatorType, PoolRouted
  <2>2. w \in Warning /\ w.dest_node \in Destination /\ w.dest_node \in Subtree[n]
    BY <2>1, RoutedTail
  <2>3. w.dest_node \in Node /\ w.dest_node # n
    BY <2>2 DEF Central, Destination
  <2>4. worker' = [worker EXCEPT ![n][k] = t]
    BY <1>5, <2>2, <2>3 DEF WorkerDequeue, StartRouting
  <2>5. w.dest_node \in Subtree[w.dest_node]
    BY <2>3, SubtreeSelf
  <2>6. t \in Thread /\ WorkerOK(n, t)
    <3> HIDE DEF w
    <3> QED
      BY <2>2, <2>3, <2>5 DEF Thread, WorkerOK, Climbing
  <2>7. worker' \in [Central -> [Worker -> Thread]] /\ WorkerInv'
    <3> HIDE DEF t
    <3> QED
      BY <2>4, <2>6, WorkerUpdate
  <2>8. pool' = [pool EXCEPT ![n] = Tail(@)]
    BY <1>5 DEF WorkerDequeue
  <2>9. pool' \in [Central -> Seq(Warning)] /\ PoolRouted'
    BY <2>1, <2>8, RoutedTail DEF PropInv, PropagatorType, PoolRouted
  <2> QED
    BY <1>2, <1>3, <1>5, <2>7, <2>9 DEF WorkerDequeue, PropInv, PropagatorType
<1>6. CASE WorkerClimb(n, k)
  <2>1. u.pc = "climb" /\ Climbing(u) /\ u.x \in Subtree[n] /\ u.x # n
    BY <1>1, <1>6 DEF WorkerClimb, WorkerOK
  <2>2. Parent[u.x] \in Subtree[n] /\ Parent[u.x] \in Node
    BY <1>4, <2>1, SubtreeParent, SubtreeNodes
  <2>3. CASE ClimbStops(u.x, n)
    <3> DEFINE t == [u EXCEPT !.pc = "send"]
    <3>1. Parent[u.x] = n
      BY <2>2, <2>3, NodeAssumption DEF ClimbStops
    <3>2. /\ t \in Thread
          /\ t.pc = "send" /\ t.w = u.w /\ t.x = u.x
      BY <1>1 DEF Thread
    <3>3. WorkerOK(n, t)
      BY <2>1, <3>1, <3>2 DEF WorkerOK, Climbing
    <3>4. worker' = [worker EXCEPT ![n][k] = t]
      BY <1>6, <2>3 DEF WorkerClimb
    <3>5. worker' \in [Central -> [Worker -> Thread]] /\ WorkerInv'
      <4> HIDE DEF t
      <4> QED
        BY <3>2, <3>3, <3>4, WorkerUpdate
    <3> QED
      BY <1>2, <1>3, <1>6, <3>5 DEF WorkerClimb, PropInv, PropagatorType, PoolRouted
  <2>4. CASE ~ClimbStops(u.x, n)
    <3> DEFINE t == [u EXCEPT !.x = Parent[u.x]]
    <3>1. Parent[u.x] # n
      BY <2>4 DEF ClimbStops
    <3>2. /\ t \in Thread
          /\ t.pc = "climb" /\ t.w = u.w /\ t.x = Parent[u.x]
      BY <1>1, <2>1, <2>2 DEF Thread
    <3>3. u.w.dest_node \in Subtree[Parent[u.x]]
      BY <2>1, <2>2, SubtreeClimb DEF Climbing
    <3>4. WorkerOK(n, t)
      BY <2>1, <2>2, <3>1, <3>2, <3>3 DEF WorkerOK, Climbing
    <3>5. worker' = [worker EXCEPT ![n][k] = t]
      BY <1>6, <2>4 DEF WorkerClimb
    <3>6. worker' \in [Central -> [Worker -> Thread]] /\ WorkerInv'
      <4> HIDE DEF t
      <4> QED
        BY <3>2, <3>4, <3>5, WorkerUpdate
    <3> QED
      BY <1>2, <1>3, <1>6, <3>6 DEF WorkerClimb, PropInv, PropagatorType, PoolRouted
  <2> QED
    BY <2>3, <2>4
<1>7. CASE WorkerSend(n, k)
  <2>1. Climbing(u) /\ Parent[u.x] = n
    BY <1>1, <1>7 DEF WorkerSend, WorkerOK
  <2>2. n \in Process /\ n # DS
    BY <1>4, PropagationAssumption DEF Process
  <2>3. NetInv'
    BY <1>7, <2>1, <2>2, SendNet DEF WorkerSend, Climbing
  <2>4. At("dequeue") \in Thread /\ WorkerOK(n, At("dequeue"))
    BY DEF At, Thread, WorkerOK
  <2>5. worker' \in [Central -> [Worker -> Thread]] /\ WorkerInv'
    BY <1>7, <2>4, WorkerUpdate DEF WorkerSend
  <2> QED
    BY <1>2, <1>7, <2>3, <2>5 DEF WorkerSend, PropInv, PropagatorType, PoolRouted
<1> QED
  BY <1>5, <1>6, <1>7 DEF WorkerStep

-----------------------------------------------------------------------------
(* The processor of a Data Destination *)

\* The processor of a Data Destination preserves Inv.
LEMMA ProcessorInv ==
    ASSUME Inv, NEW d \in Destination, ProcessorStep(d)
    PROVE  Inv'
<1> USE DEF Inv
<1>1. stopEvent' \in BOOLEAN /\ SourceInv' /\ NetInv' /\ ClientType' /\ PropInv'
  <2>1. UNCHANGED <<dsVars, poolVars, chan, client, cpVars>>
    BY DEF ProcessorStep, processor_fn, ProcessorPrintsNothing, netVars
  <2>2. failures' \in 0..MaxFailures
    BY FailsType DEF ProcessorStep, processor_fn, ProcessorPrintsNothing, netVars, lossVars,
       NetInv, NetType
  <2>3. lost' \subseteq Warning
    BY DEF ProcessorStep, processor_fn, ProcessorPrintsNothing, Loses, netVars, lossVars,
       NetInv, NetType, DestInv, DestinationType
  <2>4. NetInv'
    BY <2>1, <2>2, <2>3, NetShrinks DEF NetInv, NetType, poolVars
  <2> QED
    BY <2>1, <2>4 DEF dsVars, SourceInv, SourceType, GlobalRouted, SenderInv,
       ClientType, cpVars, PropInv, PropagatorType, PoolRouted, WorkerInv
<1> DEFINE w == Head(queue[d])
<1>2. /\ queue[d] \in Seq(Warning) /\ queue[d] # <<>> /\ Routed(d, queue[d])
      /\ warning_log[d] \in Seq(Warning) /\ Routed(d, warning_log[d])
  BY DEF ProcessorStep, processor_fn, ProcessorPrintsNothing, DestInv, DestinationType,
     DestRouted
<1>3. w \in Warning /\ Routed(d, Tail(queue[d])) /\ Tail(queue[d]) \in Seq(Warning)
  BY <1>2, RoutedTail
<1>4. w.dest_node \in Destination /\ w.dest_node \in Subtree[d]
  BY <1>2, <1>3, RoutedTail
<1>5. /\ queue' = [queue EXCEPT ![d] = Tail(queue[d])]
      /\ \/ warning_log' = [warning_log EXCEPT ![d] = Append(warning_log[d], w)]
         \/ UNCHANGED warning_log
      /\ warning_count' = [warning_count EXCEPT ![d] = @ + 1]
  BY DEF ProcessorStep, processor_fn, ProcessorPrintsNothing
<1> HIDE DEF w
<1>6. Routed(d, Append(warning_log[d], w))
  BY <1>2, <1>3, <1>4, RoutedAppend
<1>7. DestinationType'
  <2>1. queue' \in [Destination -> Seq(Warning)]
    BY <1>3, <1>5 DEF DestInv, DestinationType
  <2>2. warning_log' \in [Destination -> Seq(Warning)]
    <3>1. Append(warning_log[d], w) \in Seq(Warning)
      BY <1>2, <1>3
    <3>2. warning_log \in [Destination -> Seq(Warning)]
      BY DEF DestInv, DestinationType
    <3> QED
      BY <1>5, <3>1, <3>2
  <2>3. warning_count' \in [Destination -> Nat]
    BY <1>5 DEF DestInv, DestinationType
  <2> QED
    BY <2>1, <2>2, <2>3 DEF DestinationType
<1>8. DestRouted'
  BY <1>3, <1>5, <1>6 DEF DestInv, DestinationType, DestRouted
<1> QED
  BY <1>1, <1>7, <1>8 DEF DestInv

-----------------------------------------------------------------------------
\* Every step of the system preserves Inv.
LEMMA NextInv == Inv /\ [Next]_vars => Inv'
<1> SUFFICES ASSUME Inv, [Next]_vars PROVE Inv'
  OBVIOUS
<1>1. CASE Stop \/ GeneratorStep \/ SenderStep
  BY <1>1, SourceStepInv
<1>2. CASE \E n \in Node : ListenerStep(n)
  BY <1>2, ListenerStepInv
<1>3. CASE \E n \in Central, k \in Worker : WorkerStep(n, k)
  BY <1>3, WorkerStepInv
<1>4. CASE \E d \in Destination : ProcessorStep(d)
  BY <1>4, ProcessorInv
<1>5. CASE UNCHANGED vars
  BY <1>5 DEF vars, Inv, dsVars, SourceInv, SourceType, GlobalRouted, SenderInv,
     netVars, poolVars, lossVars, NetInv, NetType, ChanRouted, AlongTreeEdges, ClientType, cpVars,
     PropInv, PropagatorType, PoolRouted, WorkerInv, ddVars, DestInv,
     DestinationType, DestRouted
<1> QED
  BY <1>1, <1>2, <1>3, <1>4, <1>5 DEF Next

\* Inv holds in every reachable state.
LEMMA InvHolds == Spec => []Inv
BY InitInv, NextInv, PTL DEF Spec

\* Type correctness of the whole system.
THEOREM TypeCorrect == Spec => []TypeOK
<1>1. Inv => TypeOK
  BY DEF Inv, SourceInv, NetInv, PropInv, DestInv, TypeOK
<1> QED
  BY <1>1, InvHolds, PTL

\* Whatever the tree, the schedule of the threads and the failures, a Data
\* Destination only logs and counts warnings that are addressed to it.
THEOREM NoMisdeliveryHolds == Spec => []NoMisdelivery
<1>1. Inv => NoMisdelivery
  <2> SUFFICES ASSUME Inv, NEW d \in Destination, NEW i \in DOMAIN warning_log[d]
               PROVE  warning_log[d][i].dest_node = d
    BY DEF NoMisdelivery
  <2>1. warning_log[d] \in Seq(Warning) /\ Routed(d, warning_log[d])
    BY DEF Inv, DestInv, DestinationType, DestRouted
  <2>2. warning_log[d][i] \in Warning /\ i \in 1..Len(warning_log[d])
    BY <2>1
  <2>3. warning_log[d][i].dest_node \in Subtree[d]
    BY <2>1, <2>2 DEF Routed
  <2> QED
    BY <2>3, LeafSubtree
<1> QED
  BY <1>1, InvHolds, PTL

\* Warnings only travel from a node to its child, and from the Data Source to a
\* root: no propagator ever sends to itself or skips a level.
THEOREM AlongTreeEdgesHolds == Spec => []AlongTreeEdges
<1>1. Inv => AlongTreeEdges
  BY DEF Inv, NetInv
<1> QED
  BY <1>1, InvHolds, PTL

-----------------------------------------------------------------------------
(* Where a warning is *)

\* What a queue or a channel holds.
In(s) == {s[j] : j \in 1..Len(s)}

\* A queue or a channel holds a warning at one position.
Once(s) == \A i, j \in 1..Len(s) : s[i] \in Warning /\ s[i] = s[j] => i = j

\* Warning v is in the place of kind t that a and b tell from the others.
Sits(v, t, a, b) ==
    \/ t = "globalQ" /\ a = DS /\ b = DS /\ v \in In(globalQ)
    \/ t = "sender" /\ a = DS /\ b = DS /\ v = sender.w
    \/ t = "chan" /\ a \in Process /\ b \in Node /\ v \in In(chan[a][b])
    \/ t = "pool" /\ a \in Central /\ b = DS /\ v \in In(pool[a])
    \/ t = "worker" /\ a \in Central /\ b \in Worker /\ v = worker[a][b].w
    \/ t = "queue" /\ a \in Destination /\ b = DS /\ v \in In(queue[a])
    \/ t = "log" /\ a \in Destination /\ b = DS /\ v \in In(warning_log[a])
    \/ t = "lost" /\ a = DS /\ b = DS /\ v \in lost

\* Warning v is somewhere.
Present(v) == \E t, a, b : Sits(v, t, a, b)

\* It is neither logged nor lost.
OnWay(v) == \E t, a, b : t \notin {"log", "lost"} /\ Sits(v, t, a, b)

\* One number is in one place.
OnlyOne ==
    \A v, u \in Warning : \A t, a, b, q, c, d :
        v.id = u.id /\ Sits(v, t, a, b) /\ Sits(u, q, c, d)
            => v = u /\ t = q /\ a = c /\ b = d

\* The numbers that are somewhere are those that the generator has given.
Numbered == \A i \in Nat : i \in 1..counter <=> \E v \in Warning : v.id = i /\ Present(v)

\* No queue, channel or log holds a warning twice.
OnceInv ==
    /\ Once(globalQ)
    /\ \A p \in Process, n \in Node : Once(chan[p][n])
    /\ \A n \in Central : Once(pool[n])
    /\ \A d \in Destination : Once(queue[d]) /\ Once(warning_log[d])

\* A thread that does not route has nothing in hand.
HandInv ==
    /\ sender.pc \notin {"climb", "send"} => sender.w = NULL
    /\ \A n \in Central, k \in Worker :
          worker[n][k].pc \notin {"climb", "send"} => worker[n][k].w = NULL

\* The inductive invariant about places; it needs Inv for the types.
PlaceInv == OnceInv /\ HandInv /\ OnlyOne /\ Numbered

\* A step takes the warnings of M, wherever they were, to one place, and leaves
\* the others where they are.
Moves(M, t, a, b) ==
    \A v \in Warning : \A q, c, d :
        Sits(v, q, c, d)' <=> IF v \in M THEN q = t /\ c = a /\ d = b ELSE Sits(v, q, c, d)

\* A step loses some of the warnings that are on their way, possibly none.
LosesSome ==
    \E M \in SUBSET Warning :
        /\ \A v \in M : OnWay(v)
        /\ \A v \in Warning : /\ OnWay(v)' <=> OnWay(v) /\ v \notin M
                              /\ v \in lost' <=> v \in lost \/ v \in M

-----------------------------------------------------------------------------
(* Sequences of warnings *)

\* What is appended is in the queue, with what was there.
LEMMA InAppend ==
    ASSUME NEW T, NEW s \in Seq(T), NEW x, NEW e
    PROVE  e \in In(Append(s, x)) <=> e \in In(s) \/ e = x
<1> DEFINE r == Append(s, x)
<1>1. /\ Len(r) = Len(s) + 1 /\ Len(s) \in Nat /\ r[Len(s) + 1] = x
      /\ \A j \in 1..Len(s) : r[j] = s[j]
  OBVIOUS
<1> HIDE DEF r
<1>2. 1..Len(r) = (1..Len(s)) \cup {Len(s) + 1}
  BY <1>1
<1> QED
  BY <1>1, <1>2 DEF In, r

\* Appending what is not there, or a mark, duplicates nothing.
LEMMA OnceAppend ==
    ASSUME NEW T, NEW s \in Seq(T), Once(s), NEW x, x \in Warning => x \notin In(s)
    PROVE  Once(Append(s, x))
<1> DEFINE r == Append(s, x)
<1>1. /\ Len(r) = Len(s) + 1 /\ Len(s) \in Nat /\ r[Len(s) + 1] = x
      /\ \A j \in 1..Len(s) : r[j] = s[j]
  OBVIOUS
<1> HIDE DEF r
<1>2. 1..Len(r) = (1..Len(s)) \cup {Len(s) + 1}
  BY <1>1
<1>3. \A j \in 1..Len(s) : s[j] = x => x \notin Warning
  BY DEF In
<1> QED
  BY <1>1, <1>2, <1>3 DEF Once, r

\* What is taken from a queue is not in it any more.
LEMMA InTail ==
    ASSUME NEW T, NEW s \in Seq(T), Once(s), s # <<>>
    PROVE  /\ Once(Tail(s))
           /\ Head(s) \in In(s)
           /\ \A v \in Warning : v \in In(Tail(s)) <=> v \in In(s) /\ v # Head(s)
<1> DEFINE r == Tail(s)
<1>1. /\ Len(s) = Len(r) + 1 /\ Len(r) \in Nat /\ Head(s) = s[1]
      /\ \A j \in 1..Len(r) : j + 1 \in 1..Len(s) /\ r[j] = s[j + 1]
  OBVIOUS
<1>2. \A j \in 1..Len(s) : j # 1 => j - 1 \in 1..Len(r) /\ s[j] = r[j - 1]
  OBVIOUS
<1> HIDE DEF r
<1>3. 1 \in 1..Len(s)
  BY <1>1
<1>4. Once(r)
  <2> SUFFICES ASSUME NEW i \in 1..Len(r), NEW j \in 1..Len(r), r[i] \in Warning, r[i] = r[j]
               PROVE  i = j
    BY DEF Once
  <2>1. i + 1 = j + 1
    BY <1>1 DEF Once
  <2> QED
    BY <2>1
<1>5. ASSUME NEW v \in Warning PROVE v \in In(r) <=> v \in In(s) /\ v # Head(s)
  <2>1. ASSUME NEW j \in 1..Len(r), r[j] = v PROVE v \in In(s) /\ v # Head(s)
    <3>1. j + 1 \in 1..Len(s) /\ s[j + 1] = v /\ j + 1 # 1
      BY <1>1, <2>1
    <3> QED
      BY <1>1, <1>3, <3>1 DEF Once, In
  <2>2. ASSUME NEW j \in 1..Len(s), s[j] = v, v # Head(s) PROVE v \in In(r)
    BY <1>1, <1>2, <2>2 DEF In
  <2> QED
    BY <2>1, <2>2 DEF In
<1> QED
  BY <1>1, <1>3, <1>4, <1>5 DEF In, r

\* A listener that gives its client up takes C, the first k items, from the
\* channel s, with the mark that follows, and leaves r.
CutsIn(s, k, r, C) ==
    /\ C = {s[i] : i \in 1..k}
    /\ \/ k = Len(s) /\ r = <<>>
       \/ k < Len(s) /\ s[k + 1] = EOF /\ r = SubSeq(s, k + 2, Len(s))

\* It loses exactly these.
LEMMA InSuffix ==
    ASSUME NEW s \in Seq(Warning \cup Mark), Once(s), NEW k \in 1..Len(s),
           NEW r, NEW C, CutsIn(s, k, r, C)
    PROVE  /\ Once(r)
           /\ \A v \in Warning : v \in In(r) <=> v \in In(s) /\ v \notin C
<1>1. Len(s) \in Nat /\ k \in Nat /\ EOF \notin Warning
  BY MarkAssumption
<1>2. CASE k = Len(s) /\ r = <<>>
  <2>1. C = In(s)
    BY <1>2 DEF CutsIn, In
  <2>2. In(r) = {} /\ Once(r)
    BY <1>2 DEF In, Once
  <2> QED
    BY <2>1, <2>2
<1>3. CASE k < Len(s) /\ s[k + 1] = EOF /\ r = SubSeq(s, k + 2, Len(s))
  <2>1. /\ Len(r) = Len(s) - k - 1 /\ Len(r) \in Nat
        /\ \A j \in 1..Len(r) : r[j] = s[j + k + 1]
    BY <1>1, <1>3
  <2>2. \A j \in 1..Len(r) : j + k + 1 \in 1..Len(s) /\ j + k + 1 > k
    BY <1>1, <2>1
  <2>3. Once(r)
    <3> SUFFICES ASSUME NEW i \in 1..Len(r), NEW j \in 1..Len(r), r[i] \in Warning, r[i] = r[j]
                 PROVE  i = j
      BY DEF Once
    <3>1. i + k + 1 = j + k + 1
      BY <2>1, <2>2 DEF Once
    <3> QED
      BY <1>1, <3>1
  <2>4. ASSUME NEW v \in In(r), v \in Warning PROVE v \in In(s) /\ v \notin C
    <3>1. PICK j \in 1..Len(r) : r[j] = v
      BY DEF In
    <3>2. PICK m : m = j + k + 1
      OBVIOUS
    <3>3. m \in 1..Len(s) /\ m > k /\ s[m] = v
      BY <2>1, <2>2, <3>1, <3>2
    <3>4. \A i \in 1..k : i \in 1..Len(s) /\ i # m
      BY <1>1, <3>3
    <3> QED
      BY <2>4, <3>3, <3>4 DEF In, Once, CutsIn
  <2>5. ASSUME NEW v \in In(s), v \in Warning, v \notin C PROVE v \in In(r)
    <3>1. PICK m \in 1..Len(s) : s[m] = v
      BY DEF In
    <3>2. m \notin 1..k
      BY <2>5, <3>1 DEF CutsIn
    <3>3. m # k + 1
      BY <1>1, <1>3, <2>5, <3>1
    <3>4. m - k - 1 \in 1..Len(r)
      BY <1>1, <2>1, <3>2, <3>3
    <3>5. PICK j \in 1..Len(r) : m = j + k + 1
      BY <1>1, <3>4
    <3>6. r[j] = v
      BY <2>1, <3>1, <3>5
    <3> QED
      BY <3>6 DEF In
  <2> QED
    BY <2>3, <2>4, <2>5
<1> QED
  BY <1>2, <1>3 DEF CutsIn

\* A failed send leaves r of the channel s and loses C.
CutsOff(s, k, r, C) == r = SubSeq(s, 1, k) /\ C = {s[i] : i \in (k + 1)..Len(s)}

\* A failed send cuts off exactly what it loses.
LEMMA InPrefix ==
    ASSUME NEW s \in Seq(Warning \cup Mark), Once(s), NEW k \in 0..Len(s),
           NEW r, NEW C, CutsOff(s, k, r, C)
    PROVE  /\ r \in Seq(Warning \cup Mark)
           /\ Once(r)
           /\ \A v \in Warning : v \in In(r) <=> v \in In(s) /\ v \notin C
<1>1. /\ r \in Seq(Warning \cup Mark) /\ Len(r) = k /\ Len(s) \in Nat
      /\ \A j \in 1..k : r[j] = s[j]
  BY DEF CutsOff
<1>2. 1..k \subseteq 1..Len(s)
  BY <1>1
<1>3. Once(r)
  BY <1>1, <1>2 DEF Once
<1>4. ASSUME NEW v \in Warning PROVE v \in In(r) <=> v \in In(s) /\ v \notin C
  <2>1. ASSUME NEW j \in 1..k, s[j] = v PROVE v \notin C
    <3>1. \A i \in (k + 1)..Len(s) : i \in 1..Len(s) /\ j \in 1..Len(s) /\ i # j
      BY <1>1, <1>2
    <3> QED
      BY <2>1, <3>1 DEF Once, CutsOff
  <2>2. \A i \in 1..Len(s) : i \in 1..k \/ i \in (k + 1)..Len(s)
    BY <1>1
  <2> QED
    BY <1>1, <1>2, <2>1, <2>2 DEF In, CutsOff
<1> QED
  BY <1>1, <1>3, <1>4

-----------------------------------------------------------------------------
(* Moving warnings *)

\* A step that leaves every warning on its way loses none.
LEMMA LosesNone ==
    ASSUME \A v \in Warning : OnWay(v)' <=> OnWay(v),
           \A v \in Warning : v \in lost' <=> v \in lost
    PROVE  LosesSome
<1> SUFFICES \E M \in SUBSET Warning :
        /\ \A v \in M : OnWay(v)
        /\ \A v \in Warning : /\ OnWay(v)' <=> OnWay(v) /\ v \notin M
                              /\ v \in lost' <=> v \in lost \/ v \in M
  BY DEF LosesSome
<1> WITNESS {} \in SUBSET Warning
<1> QED
  OBVIOUS

\* What is moved was in one place, and is in one place.
LEMMA MovesKeep ==
    ASSUME OnlyOne, Numbered, NEW M, NEW t, NEW a, NEW b, Moves(M, t, a, b),
           \A v \in Warning : v \in M => OnWay(v), counter' = counter
    PROVE  /\ OnlyOne' /\ Numbered'
           /\ \A v \in Warning :
                 OnWay(v)' <=> IF v \in M THEN t \notin {"log", "lost"} ELSE OnWay(v)
           /\ t \notin {"log", "lost"} /\ lost' = lost => LosesSome
<1>0. \A v \in Warning : v \in M => Present(v)
  BY DEF OnWay, Present
<1>1. OnlyOne'
  <2> SUFFICES ASSUME NEW v \in Warning, NEW u \in Warning, v.id = u.id,
                      NEW q, NEW c, NEW d, NEW x, NEW y, NEW z,
                      Sits(v, q, c, d)', Sits(u, x, y, z)'
               PROVE  v = u /\ q = x /\ c = y /\ d = z
    BY DEF OnlyOne
  <2>1. Present(v) /\ Present(u)
    BY <1>0 DEF Moves, Present
  <2>2. v = u
    BY <2>1 DEF OnlyOne, Present
  <2>3. CASE v \in M
    BY <2>2, <2>3 DEF Moves
  <2>4. CASE v \notin M
    BY <2>2, <2>4 DEF Moves, OnlyOne
  <2> QED
    BY <2>2, <2>3, <2>4
<1>2. \A v \in Warning : Present(v)' <=> Present(v)
  BY <1>0 DEF Moves, Present
<1>3. Numbered'
  BY <1>2 DEF Numbered
<1>4. \A v \in Warning :
         OnWay(v)' <=> IF v \in M THEN t \notin {"log", "lost"} ELSE OnWay(v)
  BY DEF Moves, OnWay
<1>5. ASSUME t \notin {"log", "lost"}, lost' = lost PROVE LosesSome
  <2>1. \A v \in Warning : OnWay(v)' <=> OnWay(v)
    BY <1>4, <1>5
  <2> QED
    BY <1>5, <2>1, LosesNone
<1> QED
  BY <1>1, <1>3, <1>4, <1>5

\* What is moved to the lost warnings is lost by the step.
LEMMA MovesAway ==
    ASSUME OnlyOne, Numbered, NEW M, M \subseteq Warning, Moves(M, "lost", DS, DS),
           \A v \in M : OnWay(v), counter' = counter, lost' = lost \cup M
    PROVE  OnlyOne' /\ Numbered' /\ LosesSome
<1>1. /\ OnlyOne' /\ Numbered'
      /\ \A v \in Warning :
            OnWay(v)' <=> IF v \in M THEN "lost" \notin {"log", "lost"} ELSE OnWay(v)
  BY MovesKeep
<1>2. \A v \in Warning : OnWay(v)' <=> OnWay(v) /\ v \notin M
  BY <1>1, Zenon
<1>3. \A v \in Warning : v \in lost' <=> v \in lost \/ v \in M
  OBVIOUS
<1> QED
  BY <1>1, <1>2, <1>3 DEF LosesSome

\* The places there are.
IsPlace(t, a, b) ==
    \/ t \in {"globalQ", "sender", "lost"} /\ a = DS /\ b = DS
    \/ t = "chan" /\ a \in Process /\ b \in Node
    \/ t = "pool" /\ a \in Central /\ b = DS
    \/ t = "worker" /\ a \in Central /\ b \in Worker
    \/ t \in {"queue", "log"} /\ a \in Destination /\ b = DS

\* Warning v is in one place and, family by family, in no other.
Only(v, t, a, b) ==
    /\ v \in In(globalQ) <=> t = "globalQ"
    /\ v = sender.w <=> t = "sender"
    /\ \A c \in Process, d \in Node : v \in In(chan[c][d]) <=> t = "chan" /\ c = a /\ d = b
    /\ \A c \in Central : v \in In(pool[c]) <=> t = "pool" /\ c = a
    /\ \A c \in Central, d \in Worker : v = worker[c][d].w <=> t = "worker" /\ c = a /\ d = b
    /\ \A c \in Destination : v \in In(queue[c]) <=> t = "queue" /\ c = a
    /\ \A c \in Destination : v \in In(warning_log[c]) <=> t = "log" /\ c = a
    /\ v \in lost <=> t = "lost"

\* A step leaves v where it is.
Same(v) ==
    /\ v \in In(globalQ') <=> v \in In(globalQ)
    /\ v = sender'.w <=> v = sender.w
    /\ \A c \in Process, d \in Node : v \in In(chan'[c][d]) <=> v \in In(chan[c][d])
    /\ \A c \in Central : v \in In(pool'[c]) <=> v \in In(pool[c])
    /\ \A c \in Central, d \in Worker : v = worker'[c][d].w <=> v = worker[c][d].w
    /\ \A c \in Destination : v \in In(queue'[c]) <=> v \in In(queue[c])
    /\ \A c \in Destination : v \in In(warning_log'[c]) <=> v \in In(warning_log[c])
    /\ v \in lost' <=> v \in lost

\* A warning that is in one place is in no other.
LEMMA Elsewhere ==
    ASSUME OnlyOne, NEW v \in Warning, NEW t, NEW a, NEW b, Sits(v, t, a, b)
    PROVE  Only(v, t, a, b) /\ (t \notin {"log", "lost"} => OnWay(v))
<1>1. \A q, c, d : Sits(v, q, c, d) => q = t /\ c = a /\ d = b
  BY DEF OnlyOne
<1>2. v \in In(globalQ) <=> t = "globalQ"
  BY <1>1 DEF Sits
<1>3. v = sender.w <=> t = "sender"
  BY <1>1 DEF Sits
<1>4. \A c \in Process, d \in Node : v \in In(chan[c][d]) <=> t = "chan" /\ c = a /\ d = b
  BY <1>1 DEF Sits
<1>5. \A c \in Central : v \in In(pool[c]) <=> t = "pool" /\ c = a
  BY <1>1 DEF Sits
<1>6. \A c \in Central, d \in Worker : v = worker[c][d].w <=> t = "worker" /\ c = a /\ d = b
  BY <1>1 DEF Sits
<1>7. \A c \in Destination : v \in In(queue[c]) <=> t = "queue" /\ c = a
  BY <1>1 DEF Sits
<1>8. \A c \in Destination : v \in In(warning_log[c]) <=> t = "log" /\ c = a
  BY <1>1 DEF Sits
<1>9. v \in lost <=> t = "lost"
  BY <1>1 DEF Sits
<1> QED
  BY <1>2, <1>3, <1>4, <1>5, <1>6, <1>7, <1>8, <1>9 DEF Only, OnWay

\* A step moves the warnings of M if they are in one place after it and the others
\* where they were.
LEMMA MovesIf ==
    ASSUME NEW M, NEW t, NEW a, NEW b, IsPlace(t, a, b),
           \A v \in Warning : v \in M => Only(v, t, a, b)',
           \A v \in Warning : v \notin M => Same(v)
    PROVE  Moves(M, t, a, b)
<1> SUFFICES ASSUME NEW v \in Warning, NEW q, NEW c, NEW d
             PROVE  Sits(v, q, c, d)' <=> IF v \in M THEN q = t /\ c = a /\ d = b ELSE Sits(v, q, c, d)
  BY DEF Moves
<1>1. CASE v \in M
  <2>1. Only(v, t, a, b)'
    BY <1>1
  <2> QED
    BY <1>1, <2>1 DEF Only, Sits, IsPlace
<1>2. CASE v \notin M
  <2>1. Same(v)
    BY <1>2
  <2> QED
    BY <1>2, <2>1 DEF Same, Sits
<1> QED
  BY <1>1, <1>2

\* The head x of a channel is read.
Reads(p, n, x) ==
    chan[p][n] # <<>> /\ x = Head(chan[p][n]) /\ chan' = [chan EXCEPT ![p][n] = Tail(@)]

\* A listener that reads takes the first item of one channel.
LEMMA ChanRead ==
    ASSUME Inv, OnceInv, NEW p \in Process, NEW n \in Node, NEW x, Reads(p, n, x)
    PROVE  /\ \A a \in Process, b \in Node : Once(chan'[a][b])
           /\ x \in In(chan[p][n])
           /\ \A v \in Warning : \A a \in Process, b \in Node :
                 v \in In(chan'[a][b]) <=>
                    v \in In(chan[a][b]) /\ ~(a = p /\ b = n /\ v = x)
<1> DEFINE s == chan[p][n]
<1>1. s \in Seq(Warning \cup Mark) /\ Once(s) /\ s # <<>>
  BY DEF Inv, NetInv, NetType, OnceInv, Reads
<1>2. \A a \in Process, b \in Node :
         chan'[a][b] = IF a = p /\ b = n THEN Tail(s) ELSE chan[a][b]
  BY DEF Inv, NetInv, NetType, Reads
<1>3. /\ Once(Tail(s)) /\ Head(s) \in In(s)
      /\ \A v \in Warning : v \in In(Tail(s)) <=> v \in In(s) /\ v # Head(s)
  <2> HIDE DEF s
  <2> QED
    BY <1>1, InTail
<1>4. \A a \in Process, b \in Node : Once(chan[a][b])
  BY DEF OnceInv
<1>5. x = Head(s)
  BY DEF Reads
<1> QED
  BY <1>2, <1>3, <1>4, <1>5

\* One channel is replaced.
LEMMA ChanReplaced ==
    ASSUME Inv, OnceInv, NEW p \in Process, NEW n \in Node, NEW s,
           chan' = [chan EXCEPT ![p][n] = s], Once(s)
    PROVE  /\ \A c \in Process, d \in Node : Once(chan'[c][d])
           /\ \A v : \A c \in Process, d \in Node :
                 v \in In(chan'[c][d]) <=> IF c = p /\ d = n THEN v \in In(s) ELSE v \in In(chan[c][d])
<1>1. \A c \in Process, d \in Node :
         chan'[c][d] = IF c = p /\ d = n THEN s ELSE chan[c][d]
  BY DEF Inv, NetInv, NetType
<1> QED
  BY <1>1 DEF OnceInv

\* A listener that gives its client up loses what it takes from the channel.
LEMMA GivesUpMoves ==
    ASSUME Inv, PlaceInv, NEW n \in Node, NEW p \in Process, ListenerGivesUp(n, p)
    PROVE  PlaceInv' /\ LosesSome
<1> DEFINE s == chan[p][n]
<1>1. s = chan[p][n]
  OBVIOUS
<1>2. s \in Seq(Warning \cup Mark) /\ Once(s)
  BY DEF Inv, NetInv, NetType, PlaceInv, OnceInv
<1>3. PICK k \in 1..Len(s) :
         /\ \A i \in 1..k : s[i] \in Warning
         /\ Loses({s[i] : i \in 1..k})
         /\ \/ k = Len(s) /\ chan' = [chan EXCEPT ![p][n] = <<>>]
            \/ /\ k < Len(s) /\ s[k + 1] = EOF
               /\ chan' = [chan EXCEPT ![p][n] = SubSeq(s, k + 2, Len(s))]
  BY Zenon DEF ListenerGivesUp
<1> HIDE DEF s
<1>4. UNCHANGED <<counter, globalQ, sender, pool, worker, queue, warning_log>>
  BY DEF ListenerGivesUp, dsVars, cpVars, ddVars
<1>5. PICK C : C = {s[i] : i \in 1..k}
  OBVIOUS
<1>6. PICK r : CutsIn(s, k, r, C) /\ chan' = [chan EXCEPT ![p][n] = r]
  BY <1>3, <1>5 DEF CutsIn
<1>7. /\ Once(r)
      /\ \A v \in Warning : v \in In(r) <=> v \in In(s) /\ v \notin C
  BY <1>2, <1>6, InSuffix
<1>8. C \subseteq Warning /\ (\A v \in C : v \in In(s)) /\ lost' = lost \cup C
  <2>1. 1..k \subseteq 1..Len(s)
    BY <1>2
  <2> QED
    BY <1>3, <1>5, <2>1 DEF In, Loses
<1>9. /\ \A c \in Process, d \in Node : Once(chan'[c][d])
      /\ \A v : \A c \in Process, d \in Node :
            v \in In(chan'[c][d]) <=> IF c = p /\ d = n THEN v \in In(r) ELSE v \in In(chan[c][d])
  BY <1>6, <1>7, ChanReplaced DEF PlaceInv
<1>10. ASSUME NEW v \in C PROVE Only(v, "chan", p, n) /\ OnWay(v)
  <2>1. v \in Warning /\ Sits(v, "chan", p, n)
    BY <1>1, <1>8 DEF Sits
  <2> QED
    BY <2>1, Elsewhere DEF PlaceInv
<1>11. Moves(C, "lost", DS, DS)
  <2>1. ASSUME NEW v \in Warning, v \in C PROVE Only(v, "lost", DS, DS)'
    <3>1. Only(v, "chan", p, n)
      BY <1>10, <2>1
    <3>2. \A c \in Process, d \in Node : v \notin In(chan'[c][d])
      BY <1>7, <1>9, <2>1, <3>1 DEF Only
    <3>3. v \in lost'
      BY <1>8, <2>1
    <3> QED
      BY <1>4, <3>1, <3>2, <3>3 DEF Only
  <2>2. ASSUME NEW v \in Warning, v \notin C PROVE Same(v)
    <3>1. \A c \in Process, d \in Node : v \in In(chan'[c][d]) <=> v \in In(chan[c][d])
      BY <1>1, <1>7, <1>9, <2>2
    <3> QED
      BY <1>4, <1>8, <2>2, <3>1 DEF Same
  <2>3. IsPlace("lost", DS, DS)
    BY DEF IsPlace
  <2> QED
    BY <2>1, <2>2, <2>3, MovesIf
<1>12. OnlyOne' /\ Numbered' /\ LosesSome
  BY <1>4, <1>8, <1>10, <1>11, MovesAway DEF PlaceInv
<1>13. OnceInv' /\ HandInv'
  BY <1>4, <1>9 DEF OnceInv, HandInv, PlaceInv
<1> QED
  BY <1>12, <1>13 DEF PlaceInv

\* The listeners take a warning from the wire to the queue of their node, or lose
\* some.
LEMMA ListenerMoves ==
    ASSUME Inv, PlaceInv, NEW n \in Node, ListenerStep(n)
    PROVE  PlaceInv' /\ LosesSome
<1>00. PICK p \in Process :
        \/ Accept(n, p)
        \/ ClientGone(n, p)
        \/ ListenerGivesUp(n, p)
        \/ ListenerDrops(n, p)
        \/ n \in Central /\ cp_listener_run(n, p)
        \/ n \in Destination /\ listener_fn(n, p)
  BY DEF ListenerStep
<1>01. CASE ListenerGivesUp(n, p)
  BY <1>01, GivesUpMoves
<1> SUFFICES ASSUME ~ListenerGivesUp(n, p) PROVE PlaceInv' /\ LosesSome
  BY <1>01
<1>0. \/ Accept(n, p)
      \/ ClientGone(n, p)
      \/ ListenerDrops(n, p)
      \/ n \in Central /\ cp_listener_run(n, p)
      \/ n \in Destination /\ listener_fn(n, p)
  BY <1>00
<1>h. PICK x : x = Head(chan[p][n])
  OBVIOUS
<1>1. /\ chan[p][n] # <<>> /\ chan' = [chan EXCEPT ![p][n] = Tail(@)]
      /\ UNCHANGED <<counter, globalQ, sender, worker, warning_log>>
  BY <1>0 DEF Accept, ClientGone, ListenerDrops, cp_listener_run, listener_fn, HasWarning,
     dsVars, cpVars, ddVars
<1>2. /\ \A a \in Process, b \in Node : Once(chan'[a][b])
      /\ x \in In(chan[p][n])
      /\ \A v \in Warning : \A a \in Process, b \in Node :
            v \in In(chan'[a][b]) <=> v \in In(chan[a][b]) /\ ~(a = p /\ b = n /\ v = x)
  <2>1. Reads(p, n, x)
    BY <1>1, <1>h DEF Reads
  <2> QED
    BY <2>1, ChanRead DEF PlaceInv
<1>3. HandInv'
  BY <1>1 DEF PlaceInv, HandInv
<1>4. CASE Accept(n, p) \/ ClientGone(n, p)
  <2>1. x \notin Warning /\ UNCHANGED <<pool, queue, lost>>
    BY <1>4, <1>h, MarkAssumption DEF Accept, ClientGone, cpVars, ddVars, lossVars
  <2>2. Moves({}, "globalQ", DS, DS)
    <3>1. \A v \in Warning : Same(v)
      BY <1>1, <1>2, <2>1 DEF Same
    <3> QED
      BY <3>1, MovesIf DEF IsPlace
  <2>3. OnlyOne' /\ Numbered' /\ LosesSome
    BY <1>1, <2>1, <2>2, MovesKeep DEF PlaceInv
  <2>4. OnceInv'
    BY <1>1, <1>2, <2>1 DEF OnceInv, PlaceInv
  <2> QED
    BY <1>3, <2>3, <2>4 DEF PlaceInv
<1>5. CASE n \in Central /\ cp_listener_run(n, p)
  <2>1. x \in Warning /\ pool' = [pool EXCEPT ![n] = Append(@, x)] /\ UNCHANGED <<queue, lost>>
    BY <1>5, <1>h DEF cp_listener_run, HasWarning, ddVars, lossVars
  <2>2. Only(x, "chan", p, n) /\ OnWay(x)
    <3>1. Sits(x, "chan", p, n)
      BY <1>2 DEF Sits
    <3> QED
      BY <2>1, <3>1, Elsewhere DEF PlaceInv
  <2>3. \A a \in Central : pool[a] \in Seq(Warning) /\ Once(pool[a]) /\ x \notin In(pool[a])
    BY <2>2 DEF Inv, PropInv, PropagatorType, PlaceInv, OnceInv, Only
  <2>4. \A a \in Central : pool'[a] = IF a = n THEN Append(pool[n], x) ELSE pool[a]
    BY <2>1 DEF Inv, PropInv, PropagatorType
  <2>5. Once(Append(pool[n], x)) /\ \A v : v \in In(Append(pool[n], x)) <=> v \in In(pool[n]) \/ v = x
    BY <1>5, <2>3, OnceAppend, InAppend
  <2>6. \A a \in Central : Once(pool'[a])
    BY <2>3, <2>4, <2>5
  <2>7. \A v \in Warning : \A a \in Central :
          v \in In(pool'[a]) <=> v \in In(pool[a]) \/ (a = n /\ v = x)
    BY <2>4, <2>5
  <2>8. Moves({x}, "pool", n, DS)
    <3>1. Only(x, "pool", n, DS)'
      BY <1>1, <1>2, <1>5, <2>1, <2>2, <2>7 DEF Only
    <3>2. \A v \in Warning : v # x => Same(v)
      BY <1>1, <1>2, <2>1, <2>7 DEF Same
    <3>3. IsPlace("pool", n, DS)
      BY <1>5 DEF IsPlace
    <3> QED
      BY <3>1, <3>2, <3>3, MovesIf
  <2>9. OnlyOne' /\ Numbered' /\ LosesSome
    BY <1>1, <2>1, <2>2, <2>8, MovesKeep DEF PlaceInv
  <2>10. OnceInv'
    BY <1>1, <1>2, <2>1, <2>6 DEF OnceInv, PlaceInv
  <2> QED
    BY <1>3, <2>9, <2>10 DEF PlaceInv
<1>6. CASE n \in Destination /\ listener_fn(n, p)
  <2>1. x \in Warning /\ queue' = [queue EXCEPT ![n] = Append(@, x)] /\ UNCHANGED <<pool, lost>>
    BY <1>6, <1>h DEF listener_fn, HasWarning, cpVars, lossVars
  <2>2. Only(x, "chan", p, n) /\ OnWay(x)
    <3>1. Sits(x, "chan", p, n)
      BY <1>2 DEF Sits
    <3> QED
      BY <2>1, <3>1, Elsewhere DEF PlaceInv
  <2>3. \A a \in Destination : queue[a] \in Seq(Warning) /\ Once(queue[a]) /\ x \notin In(queue[a])
    BY <2>2 DEF Inv, DestInv, DestinationType, PlaceInv, OnceInv, Only
  <2>4. \A a \in Destination : queue'[a] = IF a = n THEN Append(queue[n], x) ELSE queue[a]
    BY <2>1 DEF Inv, DestInv, DestinationType
  <2>5. Once(Append(queue[n], x)) /\ \A v : v \in In(Append(queue[n], x)) <=> v \in In(queue[n]) \/ v = x
    BY <1>6, <2>3, OnceAppend, InAppend
  <2>6. \A a \in Destination : Once(queue'[a])
    BY <2>3, <2>4, <2>5
  <2>7. \A v \in Warning : \A a \in Destination :
          v \in In(queue'[a]) <=> v \in In(queue[a]) \/ (a = n /\ v = x)
    BY <2>4, <2>5
  <2>8. Moves({x}, "queue", n, DS)
    <3>1. Only(x, "queue", n, DS)'
      BY <1>1, <1>2, <1>6, <2>1, <2>2, <2>7 DEF Only
    <3>2. \A v \in Warning : v # x => Same(v)
      BY <1>1, <1>2, <2>1, <2>7 DEF Same
    <3>3. IsPlace("queue", n, DS)
      BY <1>6 DEF IsPlace
    <3> QED
      BY <3>1, <3>2, <3>3, MovesIf
  <2>9. OnlyOne' /\ Numbered' /\ LosesSome
    BY <1>1, <2>1, <2>2, <2>8, MovesKeep DEF PlaceInv
  <2>10. OnceInv'
    BY <1>1, <1>2, <2>1, <2>6 DEF OnceInv, PlaceInv
  <2> QED
    BY <1>3, <2>9, <2>10 DEF PlaceInv
<1>7. CASE ListenerDrops(n, p)
  <2>1. x \in Warning /\ lost' = lost \cup {x} /\ UNCHANGED <<pool, queue>>
    BY <1>7, <1>h DEF ListenerDrops, HasWarning, Loses, cpVars, ddVars
  <2>2. Only(x, "chan", p, n) /\ OnWay(x)
    <3>1. Sits(x, "chan", p, n)
      BY <1>2 DEF Sits
    <3> QED
      BY <2>1, <3>1, Elsewhere DEF PlaceInv
  <2>3. Moves({x}, "lost", DS, DS)
    <3>1. Only(x, "lost", DS, DS)'
      BY <1>1, <1>2, <2>1, <2>2 DEF Only
    <3>2. \A v \in Warning : v # x => Same(v)
      BY <1>1, <1>2, <2>1 DEF Same
    <3>3. IsPlace("lost", DS, DS)
      BY DEF IsPlace
    <3> QED
      BY <3>1, <3>2, <3>3, MovesIf
  <2>4. OnlyOne' /\ Numbered' /\ LosesSome
    BY <1>1, <2>1, <2>2, <2>3, MovesAway DEF PlaceInv
  <2>5. OnceInv'
    BY <1>1, <1>2, <2>1 DEF OnceInv, PlaceInv
  <2> QED
    BY <1>3, <2>4, <2>5 DEF PlaceInv
<1> QED
  BY <1>0, <1>4, <1>5, <1>6, <1>7

\* What send_warning_to does to the wire: it takes the warnings of M, among them
\* w, to one place, which is the channel or, when it fails, nowhere.
WireMoves(w, p, n, M, t, a, b) ==
    /\ w \in M /\ IsPlace(t, a, b) /\ t \in {"chan", "lost"}
    /\ \A v \in M : v = w \/ (v \in Warning /\ v \in In(chan[p][n]))
    /\ \A c \in Process, d \in Node : Once(chan'[c][d])
    /\ \A v \in Warning : \A c \in Process, d \in Node :
          v \in In(chan'[c][d]) <=>
             IF v \in M THEN t = "chan" /\ c = a /\ d = b ELSE v \in In(chan[c][d])
    /\ \A v \in Warning : v \in lost' <=> IF v \in M THEN t = "lost" ELSE v \in lost

\* Opening a connection adds no warning to the channel.
LEMMA ConnectedIn ==
    ASSUME Inv, OnceInv, NEW p \in Process, NEW n \in Node
    PROVE  /\ Connected(p, n) \in Seq(Warning \cup Mark)
           /\ Once(Connected(p, n))
           /\ \A v \in Warning : v \in In(Connected(p, n)) <=> v \in In(chan[p][n])
<1>1. chan[p][n] \in Seq(Warning \cup Mark) /\ Once(chan[p][n])
  BY DEF Inv, NetInv, NetType, OnceInv
<1>2. CONNECT \in Mark /\ CONNECT \notin Warning
  BY MarkAssumption DEF Mark
<1>3. Once(Append(chan[p][n], CONNECT))
  BY <1>1, <1>2, OnceAppend
<1>4. \A v : v \in In(Append(chan[p][n], CONNECT)) <=> v \in In(chan[p][n]) \/ v = CONNECT
  BY <1>1, InAppend
<1> QED
  BY <1>1, <1>2, <1>3, <1>4 DEF Connected

\* A call of send_warning_to takes its warning to the channel, or loses it, with a
\* part of what the channel held.
LEMMA SendMoves ==
    ASSUME Inv, PlaceInv, NEW p \in Process, NEW n \in Node, NEW w \in Warning,
           send_warning_to(p, n, w), w \notin lost,
           \A c \in Process, d \in Node : w \notin In(chan[c][d])
    PROVE  \E M, t, a, b : WireMoves(w, p, n, M, t, a, b)
<1> DEFINE s == Connected(p, n)
<1>2. /\ s \in Seq(Warning \cup Mark) /\ Once(s)
      /\ \A v \in Warning : v \in In(s) <=> v \in In(chan[p][n])
  BY ConnectedIn DEF PlaceInv
<1>3. w \notin In(s)
  BY <1>2
<1>4. CASE SendSucceeds(p, n, w)
  <2>1. PICK r : r = Append(s, w)
    OBVIOUS
  <2>2. Once(r) /\ \A v : v \in In(r) <=> v \in In(s) \/ v = w
    BY <1>2, <1>3, <2>1, OnceAppend, InAppend
  <2>3. chan' = [chan EXCEPT ![p][n] = r] /\ lost' = lost
    BY <1>4, <2>1 DEF SendSucceeds, lossVars
  <2>4. /\ \A c \in Process, d \in Node : Once(chan'[c][d])
        /\ \A v : \A c \in Process, d \in Node :
              v \in In(chan'[c][d]) <=> IF c = p /\ d = n THEN v \in In(r) ELSE v \in In(chan[c][d])
    BY <2>2, <2>3, ChanReplaced DEF PlaceInv
  <2>5. WireMoves(w, p, n, {w}, "chan", p, n)
    BY <1>2, <2>2, <2>3, <2>4 DEF WireMoves, IsPlace
  <2> QED
    BY <2>5
<1>5. CASE ConnectFails(p, n, w)
  <2>1. chan' = chan /\ lost' = lost \cup {w}
    BY <1>5 DEF ConnectFails, Loses
  <2>2. WireMoves(w, p, n, {w}, "lost", DS, DS)
    BY <2>1 DEF WireMoves, IsPlace, PlaceInv, OnceInv
  <2> QED
    BY <2>2
<1>6. CASE SendFails(p, n, w)
  <2>1. PICK k \in 0..Len(s) :
          /\ \A i \in (k + 1)..Len(s) : s[i] \in Warning
          /\ chan' = [chan EXCEPT ![p][n] = Append(SubSeq(s, 1, k), EOF)]
          /\ lost' = lost \cup {w} \cup {s[i] : i \in (k + 1)..Len(s)}
    <3>1. PICK k \in 0..Len(s) :
             /\ \A i \in (k + 1)..Len(s) : s[i] \in Warning
             /\ chan' = [chan EXCEPT ![p][n] = Append(SubSeq(s, 1, k), EOF)]
             /\ Loses({w} \cup {s[i] : i \in (k + 1)..Len(s)})
      BY <1>6 DEF SendFails
    <3>2. lost' = lost \cup {w} \cup {s[i] : i \in (k + 1)..Len(s)}
      BY <3>1 DEF Loses
    <3> QED
      BY <3>1, <3>2
  <2> HIDE DEF s
  <2>2. PICK C : C = {s[i] : i \in (k + 1)..Len(s)}
    OBVIOUS
  <2>3. PICK r : r = SubSeq(s, 1, k)
    OBVIOUS
  <2>c. CutsOff(s, k, r, C)
    BY <2>2, <2>3 DEF CutsOff
  <2>4. /\ r \in Seq(Warning \cup Mark) /\ Once(r)
        /\ \A v \in Warning : v \in In(r) <=> v \in In(s) /\ v \notin C
    BY <1>2, <2>c, InPrefix
  <2>5. C \subseteq Warning /\ \A v \in C : v \in In(s)
    <3>1. (k + 1)..Len(s) \subseteq 1..Len(s)
      BY <1>2
    <3> QED
      BY <2>1, <2>2, <3>1 DEF In
  <2>6. EOF \in Mark /\ EOF \notin Warning
    BY MarkAssumption DEF Mark
  <2>7. PICK e : e = Append(r, EOF)
    OBVIOUS
  <2>8. Once(e) /\ \A v : v \in In(e) <=> v \in In(r) \/ v = EOF
    BY <2>4, <2>6, <2>7, OnceAppend, InAppend
  <2>9. chan' = [chan EXCEPT ![p][n] = e] /\ lost' = lost \cup {w} \cup C
    BY <2>1, <2>2, <2>3, <2>7
  <2>10. /\ \A c \in Process, d \in Node : Once(chan'[c][d])
         /\ \A v : \A c \in Process, d \in Node :
               v \in In(chan'[c][d]) <=> IF c = p /\ d = n THEN v \in In(e) ELSE v \in In(chan[c][d])
    BY <2>8, <2>9, ChanReplaced DEF PlaceInv
  <2>11. ASSUME NEW v \in C, NEW c \in Process, NEW d \in Node, v \in In(chan[c][d])
         PROVE  c = p /\ d = n
    <3>1. v \in Warning /\ Sits(v, "chan", c, d) /\ Sits(v, "chan", p, n)
      BY <1>2, <2>5, <2>11 DEF Sits
    <3> QED
      BY <3>1 DEF PlaceInv, OnlyOne
  <2>12. \A v \in Warning : \A c \in Process, d \in Node :
           v \in In(chan'[c][d]) <=> v \notin {w} \cup C /\ v \in In(chan[c][d])
    BY <1>2, <2>4, <2>5, <2>6, <2>8, <2>10, <2>11
  <2>13. WireMoves(w, p, n, {w} \cup C, "lost", DS, DS)
    BY <1>2, <2>5, <2>9, <2>10, <2>12 DEF WireMoves, IsPlace
  <2> QED
    BY <2>13
<1>7. CASE FrameFails(p, n, w)
  <2>1. chan' = [chan EXCEPT ![p][n] = s] /\ lost' = lost \cup {w}
    BY <1>7 DEF FrameFails, Loses
  <2> HIDE DEF s
  <2>2. /\ \A c \in Process, d \in Node : Once(chan'[c][d])
        /\ \A v : \A c \in Process, d \in Node :
              v \in In(chan'[c][d]) <=> IF c = p /\ d = n THEN v \in In(s) ELSE v \in In(chan[c][d])
    BY <1>2, <2>1, ChanReplaced DEF PlaceInv
  <2>3. \A v \in Warning : \A c \in Process, d \in Node :
           v \in In(chan'[c][d]) <=> v \in In(chan[c][d])
    BY <1>2, <2>2
  <2>4. WireMoves(w, p, n, {w}, "lost", DS, DS)
    BY <2>1, <2>2, <2>3 DEF WireMoves, IsPlace
  <2> QED
    BY <2>4
<1>8. CASE SendOnSevered(p, n, w)
  <2>1. chan' = chan /\ lost' = lost \cup {w}
    BY <1>8 DEF SendOnSevered, Loses
  <2>2. WireMoves(w, p, n, {w}, "lost", DS, DS)
    BY <2>1 DEF WireMoves, IsPlace, PlaceInv, OnceInv
  <2> QED
    BY <2>2
<1> QED
  BY <1>4, <1>5, <1>6, <1>7, <1>8 DEF send_warning_to

\* A thread sends what it has in hand.
LEMMA ThreadSends ==
    ASSUME Inv, PlaceInv, NEW w \in Warning, NEW x, NEW y, NEW z, Sits(w, x, y, z),
           x \in {"sender", "worker"},
           NEW p \in Process, NEW n \in Node, send_warning_to(p, n, w),
           UNCHANGED <<counter, globalQ, pool, queue, warning_log>>,
           \A v \in Warning : v = sender'.w <=> v = sender.w /\ v # w,
           \A v \in Warning : \A c \in Central, d \in Worker :
              v = worker'[c][d].w <=> v = worker[c][d].w /\ v # w
    PROVE  OnlyOne' /\ Numbered' /\ OnceInv' /\ LosesSome
<1>1. Only(w, x, y, z) /\ OnWay(w)
  BY Elsewhere DEF PlaceInv
<1>2. PICK M, t, a, b : WireMoves(w, p, n, M, t, a, b)
  BY <1>1, SendMoves DEF Only
<1>3. /\ w \in M /\ IsPlace(t, a, b) /\ t \in {"chan", "lost"}
      /\ \A v \in M : v = w \/ (v \in Warning /\ v \in In(chan[p][n]))
      /\ \A c \in Process, d \in Node : Once(chan'[c][d])
      /\ \A v \in Warning : \A c \in Process, d \in Node :
            v \in In(chan'[c][d]) <=>
               IF v \in M THEN t = "chan" /\ c = a /\ d = b ELSE v \in In(chan[c][d])
      /\ \A v \in Warning : v \in lost' <=> IF v \in M THEN t = "lost" ELSE v \in lost
  BY <1>2 DEF WireMoves
<1>4. ASSUME NEW v \in M, v # w
      PROVE  v \in Warning /\ Only(v, "chan", p, n) /\ OnWay(v)
  <2>1. v \in Warning /\ Sits(v, "chan", p, n)
    BY <1>3, <1>4 DEF Sits
  <2> QED
    BY <2>1, Elsewhere DEF PlaceInv
<1>5. ASSUME NEW v \in Warning, v \in M PROVE Only(v, t, a, b)'
  <2>1. /\ v \notin In(globalQ)
        /\ \A c \in Central : v \notin In(pool[c])
        /\ \A c \in Destination : v \notin In(queue[c]) /\ v \notin In(warning_log[c])
        /\ v # w => v # sender.w /\ \A c \in Central, d \in Worker : v # worker[c][d].w
    <3>1. CASE v = w
      BY <1>1, <3>1 DEF Only
    <3>2. CASE v # w
      BY <1>4, <1>5, <3>2 DEF Only
    <3> QED
      BY <3>1, <3>2
  <2> QED
    BY <1>3, <1>5, <2>1 DEF Only
<1>6. ASSUME NEW v \in Warning, v \notin M PROVE Same(v)
  BY <1>3, <1>6 DEF Same
<1>7. Moves(M, t, a, b)
  BY <1>3, <1>5, <1>6, MovesIf
<1>8. OnlyOne' /\ Numbered'
  <2>1. \A v \in Warning : v \in M => OnWay(v)
    BY <1>1, <1>4
  <2> QED
    BY <1>7, <2>1, MovesKeep DEF PlaceInv
<1>9. OnceInv'
  BY <1>3 DEF OnceInv, PlaceInv
<1>10. LosesSome
  <2>1. \A v \in M : v \in Warning /\ OnWay(v) /\ v \notin lost
    BY <1>1, <1>4 DEF Only
  <2>2. \A v \in Warning :
          OnWay(v)' <=> IF v \in M THEN t \notin {"log", "lost"} ELSE OnWay(v)
    BY <1>7, <2>1, MovesKeep DEF PlaceInv
  <2>3. CASE t = "chan"
    <3>1. \A v \in Warning : OnWay(v)' <=> OnWay(v)
      BY <1>3, <2>1, <2>2, <2>3
    <3>2. \A v \in Warning : v \in lost' <=> v \in lost
      BY <1>3, <2>1, <2>3
    <3> QED
      BY <3>1, <3>2, LosesNone
  <2>4. CASE t = "lost"
    BY <1>3, <2>1, <2>2, <2>4 DEF LosesSome
  <2> QED
    BY <1>3, <2>3, <2>4
<1> QED
  BY <1>8, <1>9, <1>10

\* The workers take a warning from the pool to the wire.
LEMMA WorkerMoves ==
    ASSUME Inv, PlaceInv, NEW n \in Central, NEW k \in Worker, WorkerStep(n, k)
    PROVE  PlaceInv' /\ LosesSome
<1>1. n \in Node /\ n \in Process
  BY DEF Central, Process
<1>2. worker \in [Central -> [Worker -> Thread]] /\ pool \in [Central -> Seq(Warning)]
  BY DEF Inv, PropInv, PropagatorType
<1>3. NULL \notin Warning
  BY MarkAssumption
<1>4. CASE WorkerDequeue(n, k)
  <2>1. PICK x : x = Head(pool[n])
    OBVIOUS
  <2>2. /\ worker[n][k].pc = "dequeue" /\ pool[n] # <<>> /\ pool' = [pool EXCEPT ![n] = Tail(@)]
        /\ worker' = [worker EXCEPT ![n][k] = StartRouting(n, x)]
        /\ UNCHANGED <<counter, globalQ, sender, chan, queue, warning_log, lost>>
    BY <1>4, <2>1 DEF WorkerDequeue, dsVars, netVars, poolVars, lossVars, ddVars
  <2>3. worker[n][k].w = NULL
    BY <2>2 DEF PlaceInv, HandInv
  <2>4. StartRouting(n, x).w = x /\ StartRouting(n, x).pc \in {"climb", "send"}
    BY DEF StartRouting
  <2>5. /\ Once(Tail(pool[n])) /\ x \in In(pool[n])
        /\ \A v \in Warning : v \in In(Tail(pool[n])) <=> v \in In(pool[n]) /\ v # x
    <3>1. pool[n] \in Seq(Warning) /\ Once(pool[n])
      BY <1>2 DEF PlaceInv, OnceInv
    <3> QED
      BY <2>1, <2>2, <3>1, InTail
  <2>6. \A c \in Central : pool'[c] = IF c = n THEN Tail(pool[n]) ELSE pool[c]
    BY <1>2, <2>2
  <2>7. \A c \in Central, d \in Worker :
          worker'[c][d] = IF c = n /\ d = k THEN StartRouting(n, x) ELSE worker[c][d]
    BY <1>2, <2>2
  <2>8. x \in Warning
    BY <1>2, <2>1, <2>2
  <2>9. Only(x, "pool", n, DS) /\ OnWay(x)
    <3>1. Sits(x, "pool", n, DS)
      BY <2>5 DEF Sits
    <3> QED
      BY <2>8, <3>1, Elsewhere DEF PlaceInv
  <2>10. \A v \in Warning : \A c \in Central :
           v \in In(pool'[c]) <=> v \in In(pool[c]) /\ ~(c = n /\ v = x)
    BY <2>5, <2>6
  <2>11. \A v \in Warning : \A c \in Central, d \in Worker :
           v = worker'[c][d].w <=> v = worker[c][d].w \/ (c = n /\ d = k /\ v = x)
    BY <1>3, <2>3, <2>4, <2>7
  <2>12. Moves({x}, "worker", n, k)
    <3>1. Only(x, "worker", n, k)'
      BY <2>2, <2>8, <2>9, <2>10, <2>11 DEF Only
    <3>2. \A v \in Warning : v # x => Same(v)
      BY <2>2, <2>10, <2>11 DEF Same
    <3>3. IsPlace("worker", n, k)
      BY DEF IsPlace
    <3> QED
      BY <3>1, <3>2, <3>3, MovesIf
  <2>13. OnlyOne' /\ Numbered' /\ LosesSome
    BY <2>2, <2>9, <2>12, MovesKeep DEF PlaceInv
  <2>14. OnceInv'
    BY <2>2, <2>5, <2>6 DEF OnceInv, PlaceInv
  <2>15. HandInv'
    BY <2>2, <2>4, <2>7 DEF HandInv, PlaceInv
  <2> QED
    BY <2>13, <2>14, <2>15 DEF PlaceInv
<1>5. CASE WorkerClimb(n, k)
  <2>1. /\ worker[n][k].pc = "climb"
        /\ UNCHANGED <<counter, globalQ, sender, chan, pool, queue, warning_log, lost>>
    BY <1>5 DEF WorkerClimb, dsVars, netVars, poolVars, lossVars, ddVars
  <2>2. \A c \in Central, d \in Worker :
          /\ worker'[c][d].w = worker[c][d].w
          /\ worker'[c][d].pc = worker[c][d].pc \/ (c = n /\ d = k /\ worker'[c][d].pc = "send")
    BY <1>2, <1>5 DEF WorkerClimb, Thread
  <2>3. \A v \in Warning : Same(v)
    BY <2>1, <2>2 DEF Same
  <2>4. Moves({}, "globalQ", DS, DS)
    BY <2>3, MovesIf DEF IsPlace
  <2>5. OnlyOne' /\ Numbered' /\ LosesSome
    BY <2>1, <2>4, MovesKeep DEF PlaceInv
  <2>6. OnceInv' /\ HandInv'
    BY <2>1, <2>2 DEF OnceInv, HandInv, PlaceInv
  <2> QED
    BY <2>5, <2>6 DEF PlaceInv
<1>6. CASE WorkerSend(n, k)
  <2>1. PICK w : w = worker[n][k].w
    OBVIOUS
  <2>2. PICK m : m = worker[n][k].x
    OBVIOUS
  <2>3. w \in Warning /\ m \in Node
    BY <1>6, <2>1, <2>2 DEF WorkerSend, Inv, PropInv, WorkerInv, WorkerOK, Climbing
  <2>4. /\ send_warning_to(n, m, w) /\ worker' = [worker EXCEPT ![n][k] = At("dequeue")]
        /\ UNCHANGED <<counter, globalQ, sender, pool, queue, warning_log>>
    BY <1>6, <2>1, <2>2 DEF WorkerSend, dsVars, ddVars
  <2>5. Sits(w, "worker", n, k)
    BY <2>1 DEF Sits
  <2>6. Only(w, "worker", n, k)
    BY <2>3, <2>5, Elsewhere DEF PlaceInv
  <2>7. \A c \in Central, d \in Worker :
          worker'[c][d] = IF c = n /\ d = k THEN At("dequeue") ELSE worker[c][d]
    BY <1>2, <2>4
  <2>8. \A v \in Warning : \A c \in Central, d \in Worker :
          v = worker'[c][d].w <=> v = worker[c][d].w /\ v # w
    BY <1>3, <2>1, <2>3, <2>6, <2>7 DEF At, Only
  <2>9. \A v \in Warning : v = sender'.w <=> v = sender.w /\ v # w
    BY <2>3, <2>4, <2>6 DEF Only
  <2>10. OnlyOne' /\ Numbered' /\ OnceInv' /\ LosesSome
    BY <1>1, <2>3, <2>4, <2>5, <2>8, <2>9, ThreadSends
  <2>11. HandInv'
    BY <2>4, <2>7 DEF HandInv, PlaceInv, At
  <2> QED
    BY <2>10, <2>11 DEF PlaceInv
<1> QED
  BY <1>4, <1>5, <1>6 DEF WorkerStep

\* A step delivers w.
Delivers(w) ==
    /\ OnWay(w) /\ w.dest_node \in Destination
    /\ \A v \in Warning : OnWay(v)' <=> OnWay(v) /\ v # w
    /\ warning_log' = [warning_log EXCEPT ![w.dest_node] = Append(@, w)]
    /\ lost' = lost

\* The processor of a Data Destination takes a warning from the queue to the log.
LEMMA ProcessorMoves ==
    ASSUME Inv, PlaceInv, NEW d \in Destination, processor_fn(d)
    PROVE  PlaceInv' /\ \E w \in Warning : Delivers(w)
<1>1. PICK x : x = Head(queue[d])
  OBVIOUS
<1>2. /\ queue \in [Destination -> Seq(Warning)] /\ warning_log \in [Destination -> Seq(Warning)]
      /\ queue[d] \in Seq(Warning) /\ Once(queue[d]) /\ Once(warning_log[d])
  BY DEF Inv, DestInv, DestinationType, PlaceInv, OnceInv
<1>3. /\ queue[d] # <<>> /\ queue' = [queue EXCEPT ![d] = Tail(@)]
      /\ warning_log' = [warning_log EXCEPT ![d] = Append(@, x)]
      /\ UNCHANGED <<counter, globalQ, sender, chan, pool, worker, lost>>
  BY <1>1 DEF processor_fn, dsVars, netVars, poolVars, lossVars, cpVars
<1>4. x \in Warning /\ x.dest_node = d
  <2>1. x \in Warning /\ x.dest_node \in Subtree[d]
    BY <1>1, <1>2, <1>3, RoutedTail DEF Inv, DestInv, DestRouted
  <2> QED
    BY <2>1, LeafSubtree
<1>5. /\ Once(Tail(queue[d])) /\ x \in In(queue[d])
      /\ \A v \in Warning : v \in In(Tail(queue[d])) <=> v \in In(queue[d]) /\ v # x
  BY <1>1, <1>2, <1>3, InTail
<1>6. Only(x, "queue", d, DS) /\ OnWay(x)
  <2>1. Sits(x, "queue", d, DS)
    BY <1>5 DEF Sits
  <2> QED
    BY <1>4, <2>1, Elsewhere DEF PlaceInv
<1>7. warning_log[d] \in Seq(Warning) /\ x \notin In(warning_log[d])
  BY <1>2, <1>6 DEF Only
<1>8. /\ Once(Append(warning_log[d], x))
      /\ \A v : v \in In(Append(warning_log[d], x)) <=> v \in In(warning_log[d]) \/ v = x
  BY <1>2, <1>7, OnceAppend, InAppend
<1>9. \A c \in Destination :
        /\ queue'[c] = IF c = d THEN Tail(queue[d]) ELSE queue[c]
        /\ warning_log'[c] = IF c = d THEN Append(warning_log[d], x) ELSE warning_log[c]
  BY <1>2, <1>3
<1>10. \A v \in Warning : \A c \in Destination :
         v \in In(queue'[c]) <=> v \in In(queue[c]) /\ ~(c = d /\ v = x)
  BY <1>5, <1>9
<1>11. \A v \in Warning : \A c \in Destination :
         v \in In(warning_log'[c]) <=> v \in In(warning_log[c]) \/ (c = d /\ v = x)
  BY <1>8, <1>9
<1>12. Moves({x}, "log", d, DS)
  <2>1. Only(x, "log", d, DS)'
    BY <1>3, <1>4, <1>6, <1>10, <1>11 DEF Only
  <2>2. \A v \in Warning : v # x => Same(v)
    BY <1>3, <1>10, <1>11 DEF Same
  <2>3. IsPlace("log", d, DS)
    BY DEF IsPlace
  <2> QED
    BY <2>1, <2>2, <2>3, MovesIf
<1>13. /\ OnlyOne' /\ Numbered'
       /\ \A v \in Warning : OnWay(v)' <=> IF v \in {x} THEN "log" \notin {"log", "lost"} ELSE OnWay(v)
  BY <1>3, <1>6, <1>12, MovesKeep DEF PlaceInv
<1>14. OnceInv'
  BY <1>3, <1>5, <1>8, <1>9 DEF OnceInv, PlaceInv
<1>15. HandInv'
  BY <1>3 DEF HandInv, PlaceInv
<1>16. Delivers(x)
  <2>1. \A v \in Warning : OnWay(v)' <=> OnWay(v) /\ v # x
    BY <1>13
  <2> QED
    BY <1>3, <1>4, <1>6, <2>1 DEF Delivers
<1> QED
  BY <1>4, <1>13, <1>14, <1>15, <1>16 DEF PlaceInv

\* A processor that cannot print a warning loses it.
LEMMA PrintsNothingMoves ==
    ASSUME Inv, PlaceInv, NEW d \in Destination, ProcessorPrintsNothing(d)
    PROVE  PlaceInv' /\ LosesSome
<1>1. PICK x : x = Head(queue[d])
  OBVIOUS
<1>2. /\ queue \in [Destination -> Seq(Warning)]
      /\ queue[d] \in Seq(Warning) /\ Once(queue[d])
  BY DEF Inv, DestInv, DestinationType, PlaceInv, OnceInv
<1>3. /\ queue[d] # <<>> /\ queue' = [queue EXCEPT ![d] = Tail(@)]
      /\ lost' = lost \cup {x}
      /\ UNCHANGED <<counter, globalQ, sender, chan, pool, worker, warning_log>>
  BY <1>1 DEF ProcessorPrintsNothing, Loses, dsVars, cpVars
<1>4. x \in Warning
  BY <1>1, <1>2, <1>3
<1>5. /\ Once(Tail(queue[d])) /\ x \in In(queue[d])
      /\ \A v \in Warning : v \in In(Tail(queue[d])) <=> v \in In(queue[d]) /\ v # x
  BY <1>1, <1>2, <1>3, InTail
<1>6. Only(x, "queue", d, DS) /\ OnWay(x)
  <2>1. Sits(x, "queue", d, DS)
    BY <1>5 DEF Sits
  <2> QED
    BY <1>4, <2>1, Elsewhere DEF PlaceInv
<1>7. \A c \in Destination : queue'[c] = IF c = d THEN Tail(queue[d]) ELSE queue[c]
  BY <1>2, <1>3
<1>8. \A v \in Warning : \A c \in Destination :
         v \in In(queue'[c]) <=> v \in In(queue[c]) /\ ~(c = d /\ v = x)
  BY <1>5, <1>7
<1>9. Moves({x}, "lost", DS, DS)
  <2>1. Only(x, "lost", DS, DS)'
    BY <1>3, <1>4, <1>6, <1>8 DEF Only
  <2>2. \A v \in Warning : v # x => Same(v)
    BY <1>3, <1>8 DEF Same
  <2>3. IsPlace("lost", DS, DS)
    BY DEF IsPlace
  <2> QED
    BY <2>1, <2>2, <2>3, MovesIf
<1>10. OnlyOne' /\ Numbered' /\ LosesSome
  BY <1>3, <1>4, <1>6, <1>9, MovesAway DEF PlaceInv
<1>11. OnceInv' /\ HandInv'
  BY <1>3, <1>5, <1>7 DEF OnceInv, HandInv, PlaceInv
<1> QED
  BY <1>10, <1>11 DEF PlaceInv

\* A step accepts w, whose number is new.
Accepts(w) ==
    /\ \A v \in Warning : Present(v) => v.id # w.id
    /\ \A v \in Warning : OnWay(v)' <=> OnWay(v) \/ v = w
    /\ UNCHANGED <<warning_log, lost>>

\* A step makes w and loses it.
Refuses(w) ==
    /\ \A v \in Warning : Present(v) => v.id # w.id
    /\ \A v \in Warning : OnWay(v)' <=> OnWay(v)
    /\ lost' = lost \cup {w}
    /\ UNCHANGED warning_log

\* What the generator makes is addressed to a destination, and has a number that
\* no warning has had.
LEMMA MadeIsNew ==
    ASSUME Inv, PlaceInv, NEW w \in Warning, Made(w)
    PROVE  /\ w \in Addressed
           /\ w.id = counter + 1 /\ counter' = counter + 1 /\ counter \in Nat
           /\ \A v \in Warning : Present(v) => v.id # w.id
<1>1. counter \in Nat
  BY PropagationAssumption DEF Inv, SourceInv, SourceType
<1>2. /\ w.id = counter + 1 /\ w.dest_node \in Destination /\ counter' = counter + 1
      /\ w \in Addressed
  BY DEF Made, Addressed, Warning
<1>3. \A v \in Warning : v.id \in Nat
  BY PropagationAssumption DEF Warning, Number
<1>4. \A v \in Warning : Present(v) => v.id \in 1..counter
  BY <1>3 DEF PlaceInv, Numbered
<1>5. \A v \in Warning : Present(v) => v.id # w.id
  BY <1>1, <1>2, <1>4
<1> QED
  BY <1>1, <1>2, <1>5

\* A new warning in one place leaves the others alone.
LEMMA NewPlace ==
    ASSUME Inv, PlaceInv, NEW w \in Warning, Made(w), NEW T,
           \A v \in Warning : \A t, a, b :
              Sits(v, t, a, b)' <=> Sits(v, t, a, b) \/ (v = w /\ t = T /\ a = DS /\ b = DS)
    PROVE  OnlyOne' /\ Numbered'
<1>1. /\ w.id = counter + 1 /\ counter' = counter + 1 /\ counter \in Nat
      /\ \A v \in Warning : Present(v) => v.id # w.id
  BY MadeIsNew
<1>2. \A t, a, b : ~Sits(w, t, a, b)
  BY <1>1 DEF Present
<1>3. OnlyOne'
  <2> SUFFICES ASSUME NEW v \in Warning, NEW u \in Warning, v.id = u.id,
                      NEW q, NEW c, NEW e, NEW x, NEW y, NEW z,
                      Sits(v, q, c, e)', Sits(u, x, y, z)'
               PROVE  v = u /\ q = x /\ c = y /\ e = z
    BY DEF OnlyOne
  <2>1. CASE v = w
    BY <1>1, <1>2, <2>1 DEF Present
  <2>2. CASE v # w
    <3>1. Sits(v, q, c, e)
      BY <2>2
    <3>2. u # w
      BY <1>1, <3>1 DEF Present
    <3>3. Sits(u, x, y, z)
      BY <3>2
    <3> QED
      BY <3>1, <3>3 DEF PlaceInv, OnlyOne
  <2> QED
    BY <2>1, <2>2
<1>4. \A v \in Warning : Present(v)' <=> Present(v) \/ v = w
  BY DEF Present
<1>5. Numbered'
  <2> SUFFICES ASSUME NEW i \in Nat
               PROVE  i \in 1..(counter + 1) <=> \E v \in Warning : v.id = i /\ Present(v)'
    BY <1>1 DEF Numbered
  <2>1. i \in 1..(counter + 1) <=> i \in 1..counter \/ i = w.id
    BY <1>1
  <2>2. i \in 1..counter <=> \E v \in Warning : v.id = i /\ Present(v)
    BY DEF PlaceInv, Numbered
  <2> QED
    BY <1>1, <1>4, <2>1, <2>2
<1> QED
  BY <1>3, <1>5

\* The generator puts a warning with a number of its own in the global queue.
LEMMA GenerateMoves ==
    ASSUME Inv, PlaceInv, Generate
    PROVE  PlaceInv' /\ \E w \in Addressed : Accepts(w)
<1>1. PICK w \in Warning : Made(w) /\ globalQ' = Append(globalQ, w)
  BY DEF Generate
<1>2. /\ w \in Addressed
      /\ \A v \in Warning : Present(v) => v.id # w.id
  BY <1>1, MadeIsNew
<1>3. UNCHANGED <<sender, chan, pool, worker, queue, warning_log, lost>>
  BY DEF Generate, netVars, poolVars, lossVars, cpVars, ddVars
<1>4. globalQ \in Seq(Warning \cup {NULL}) /\ Once(globalQ) /\ w \notin In(globalQ)
  <2>1. ~Sits(w, "globalQ", DS, DS)
    BY <1>2 DEF Present
  <2> QED
    BY <2>1 DEF Inv, SourceInv, SourceType, PlaceInv, OnceInv, Sits
<1>5. Once(globalQ') /\ \A v : v \in In(globalQ') <=> v \in In(globalQ) \/ v = w
  BY <1>1, <1>4, OnceAppend, InAppend
<1>6. ASSUME NEW v \in Warning, NEW t, NEW a, NEW b
      PROVE  Sits(v, t, a, b)' <=>
                Sits(v, t, a, b) \/ (v = w /\ t = "globalQ" /\ a = DS /\ b = DS)
  BY <1>3, <1>5 DEF Sits
<1>7. OnlyOne' /\ Numbered'
  BY <1>1, <1>6, NewPlace
<1>8. OnceInv' /\ HandInv'
  BY <1>3, <1>5 DEF OnceInv, HandInv, PlaceInv
<1>9. \A v \in Warning : OnWay(v)' <=> OnWay(v) \/ v = w
  BY <1>6 DEF OnWay
<1>10. Accepts(w)
  BY <1>2, <1>3, <1>9 DEF Accepts
<1> QED
  BY <1>2, <1>7, <1>8, <1>10 DEF PlaceInv

\* A warning that the generator cannot enqueue is lost at once.
LEMMA RefuseMoves ==
    ASSUME Inv, PlaceInv, NEW w \in Warning, Made(w), Loses({w}),
           UNCHANGED <<globalQ, sender, chan, pool, worker, queue, warning_log>>
    PROVE  PlaceInv' /\ \E v \in Addressed : Refuses(v)
<1>1. /\ w \in Addressed
      /\ \A v \in Warning : Present(v) => v.id # w.id
  BY MadeIsNew
<1>2. lost' = lost \cup {w}
  BY DEF Loses
<1>3. ASSUME NEW v \in Warning, NEW t, NEW a, NEW b
      PROVE  Sits(v, t, a, b)' <=>
                Sits(v, t, a, b) \/ (v = w /\ t = "lost" /\ a = DS /\ b = DS)
  BY <1>2 DEF Sits
<1>4. OnlyOne' /\ Numbered'
  BY <1>3, NewPlace
<1>5. OnceInv' /\ HandInv'
  BY DEF OnceInv, HandInv, PlaceInv
<1>6. \A v \in Warning : OnWay(v)' <=> OnWay(v)
  BY <1>3 DEF OnWay
<1>7. Refuses(w)
  BY <1>1, <1>2, <1>6 DEF Refuses
<1> QED
  BY <1>1, <1>4, <1>5, <1>7 DEF PlaceInv

\* A step that takes nothing anywhere.
LEMMA StaysPut ==
    ASSUME OnlyOne, Numbered, \A v \in Warning : Same(v), UNCHANGED <<counter, lost>>
    PROVE  OnlyOne' /\ Numbered' /\ LosesSome
<1>1. Moves({}, "globalQ", DS, DS)
  BY MovesIf DEF IsPlace
<1> QED
  BY <1>1, MovesKeep

\* The sentinel that the generator enqueues is no warning.
LEMMA SentinelMoves ==
    ASSUME Inv, PlaceInv, globalQ' = globalQ \/ globalQ' = Append(globalQ, NULL),
           UNCHANGED <<counter, sender, chan, pool, worker, queue, warning_log, lost>>
    PROVE  PlaceInv' /\ LosesSome
<1>1. globalQ \in Seq(Warning \cup {NULL}) /\ Once(globalQ) /\ NULL \notin Warning
  BY MarkAssumption DEF Inv, SourceInv, SourceType, PlaceInv, OnceInv
<1>2. /\ Once(Append(globalQ, NULL))
      /\ \A v : v \in In(Append(globalQ, NULL)) <=> v \in In(globalQ) \/ v = NULL
  BY <1>1, OnceAppend, InAppend
<1>3. Once(globalQ') /\ \A v \in Warning : v \in In(globalQ') <=> v \in In(globalQ)
  BY <1>1, <1>2
<1>4. \A v \in Warning : Same(v)
  BY <1>3 DEF Same
<1>5. OnlyOne' /\ Numbered' /\ LosesSome
  BY <1>4, StaysPut DEF PlaceInv
<1>6. OnceInv' /\ HandInv'
  BY <1>3 DEF OnceInv, HandInv, PlaceInv
<1> QED
  BY <1>5, <1>6 DEF PlaceInv

\* The sender takes a warning from the global queue to the wire.
LEMMA SenderMoves ==
    ASSUME Inv, PlaceInv, SenderStep
    PROVE  PlaceInv' /\ LosesSome
<1>1. sender \in Thread /\ globalQ \in Seq(Warning \cup {NULL}) /\ Once(globalQ)
  BY DEF Inv, SourceInv, SourceType, PlaceInv, OnceInv
<1>2. NULL \notin Warning
  BY MarkAssumption
<1>3. CASE SenderCheck \/ find_root
  <2>1. /\ UNCHANGED <<counter, globalQ, chan, pool, worker, queue, warning_log, lost>>
        /\ sender'.w = sender.w
    BY <1>1, <1>3 DEF SenderCheck, find_root, At, Thread, PlaceInv, HandInv, netVars, poolVars, lossVars, cpVars, ddVars
  <2>2. sender'.pc \notin {"climb", "send"} => sender'.w = NULL
    BY <1>1, <1>3 DEF SenderCheck, find_root, At, Thread
  <2>3. \A v \in Warning : Same(v)
    BY <2>1 DEF Same
  <2>4. OnlyOne' /\ Numbered' /\ LosesSome
    BY <2>1, <2>3, StaysPut DEF PlaceInv
  <2>5. OnceInv' /\ HandInv'
    BY <2>1, <2>2 DEF OnceInv, HandInv, PlaceInv
  <2> QED
    BY <2>4, <2>5 DEF PlaceInv
<1>4. CASE SenderDequeue
  <2>1. PICK x : x = Head(globalQ)
    OBVIOUS
  <2>2. /\ sender.pc = "dequeue" /\ globalQ # <<>> /\ globalQ' = Tail(globalQ)
        /\ sender' = IF x = NULL THEN At("done")
                     ELSE [pc |-> "climb", w |-> x, x |-> x.dest_node]
        /\ UNCHANGED <<counter, chan, pool, worker, queue, warning_log, lost>>
    BY <1>4, <2>1 DEF SenderDequeue, netVars, poolVars, lossVars, cpVars, ddVars
  <2>3. sender.w = NULL
    BY <2>2 DEF PlaceInv, HandInv
  <2>4. /\ Once(globalQ') /\ x \in In(globalQ)
        /\ \A v \in Warning : v \in In(globalQ') <=> v \in In(globalQ) /\ v # x
    BY <1>1, <2>1, <2>2, InTail
  <2>5. sender'.w = x /\ (sender'.pc \notin {"climb", "send"} => sender'.w = NULL)
    BY <2>2 DEF At
  <2>6. OnceInv' /\ HandInv'
    BY <2>2, <2>4, <2>5 DEF OnceInv, HandInv, PlaceInv
  <2>7. CASE x = NULL
    <3>1. \A v \in Warning : Same(v)
      BY <1>2, <2>2, <2>3, <2>4, <2>5, <2>7 DEF Same
    <3> QED
      BY <2>2, <2>6, <3>1, StaysPut DEF PlaceInv
  <2>8. CASE x # NULL
    <3>1. x \in Warning
      BY <1>1, <2>1, <2>2, <2>8
    <3>2. Only(x, "globalQ", DS, DS) /\ OnWay(x)
      <4>1. Sits(x, "globalQ", DS, DS)
        BY <2>4 DEF Sits
      <4> QED
        BY <3>1, <4>1, Elsewhere DEF PlaceInv
    <3>3. Moves({x}, "sender", DS, DS)
      <4>1. Only(x, "sender", DS, DS)'
        BY <2>2, <2>4, <2>5, <3>1, <3>2 DEF Only
      <4>2. \A v \in Warning : v # x => Same(v)
        BY <1>2, <2>2, <2>3, <2>4, <2>5 DEF Same
      <4>3. IsPlace("sender", DS, DS)
        BY DEF IsPlace
      <4> QED
        BY <4>1, <4>2, <4>3, MovesIf
    <3>4. OnlyOne' /\ Numbered' /\ LosesSome
      BY <2>2, <3>2, <3>3, MovesKeep DEF PlaceInv
    <3> QED
      BY <2>6, <3>4 DEF PlaceInv
  <2> QED
    BY <2>7, <2>8
<1>5. CASE SenderSend
  <2>1. PICK w : w = sender.w
    OBVIOUS
  <2>2. PICK m : m = sender.x
    OBVIOUS
  <2>3. w \in Warning /\ m \in Node /\ DS \in Process
    BY <1>5, <2>1, <2>2 DEF SenderSend, Inv, SourceInv, SenderInv, Climbing, Process
  <2>4. /\ send_warning_to(DS, m, w) /\ sender' = At("check")
        /\ UNCHANGED <<counter, globalQ, pool, worker, queue, warning_log>>
    BY <1>5, <2>1, <2>2 DEF SenderSend, cpVars, ddVars
  <2>5. Sits(w, "sender", DS, DS)
    BY <2>1 DEF Sits
  <2>6. Only(w, "sender", DS, DS)
    BY <2>3, <2>5, Elsewhere DEF PlaceInv
  <2>7. \A v \in Warning : v = sender'.w <=> v = sender.w /\ v # w
    BY <1>2, <2>1, <2>4 DEF At
  <2>8. \A v \in Warning : \A c \in Central, d \in Worker :
          v = worker'[c][d].w <=> v = worker[c][d].w /\ v # w
    BY <2>4, <2>6 DEF Only
  <2>9. OnlyOne' /\ Numbered' /\ OnceInv' /\ LosesSome
    BY <2>3, <2>4, <2>5, <2>7, <2>8, ThreadSends
  <2>10. HandInv'
    BY <2>4 DEF HandInv, PlaceInv, At
  <2> QED
    BY <2>9, <2>10 DEF PlaceInv
<1> QED
  BY <1>3, <1>4, <1>5 DEF SenderStep

-----------------------------------------------------------------------------
(* Every step *)

\* At the start there is no warning anywhere.
LEMMA InitPlace == Init => PlaceInv
<1> SUFFICES ASSUME Init PROVE PlaceInv
  OBVIOUS
<1> DEFINE none == <<>>
<1>1. In(none) = {} /\ Once(none)
  BY DEF In, Once
<1>2. NULL \notin Warning /\ DS \in Process
  BY MarkAssumption DEF Process
<1>3. OnceInv
  BY <1>1 DEF Init, OnceInv
<1>4. HandInv
  BY DEF Init, HandInv, At
<1>5. ASSUME NEW v \in Warning, NEW t, NEW a, NEW b PROVE ~Sits(v, t, a, b)
  BY <1>1, <1>2 DEF Init, Sits, At
<1>6. OnlyOne
  BY <1>5 DEF OnlyOne
<1>7. \A v \in Warning : ~Present(v)
  BY <1>5 DEF Present
<1>8. Numbered
  <2>1. counter = 0 /\ \A i \in Nat : i \notin 1..0
    BY DEF Init
  <2> QED
    BY <1>7, <2>1 DEF Numbered
<1> QED
  BY <1>3, <1>4, <1>6, <1>8 DEF PlaceInv

\* Every step accepts a warning, refuses or delivers one or loses some, and keeps
\* each in one place.
LEMMA NextPlace ==
    ASSUME Inv, PlaceInv, [Next]_vars
    PROVE  /\ PlaceInv'
           /\ \/ \E w \in Addressed : Accepts(w) \/ Refuses(w)
              \/ \E w \in Warning : Delivers(w)
              \/ LosesSome /\ UNCHANGED warning_log
<1>1. CASE Stop \/ GeneratorCheck \/ GeneratorEnds \/ GeneratorEndsMute
  <2>1. /\ globalQ' = globalQ \/ globalQ' = Append(globalQ, NULL)
        /\ UNCHANGED <<counter, sender, chan, pool, worker, queue, warning_log, lost>>
    BY <1>1 DEF Stop, GeneratorCheck, GeneratorEnds, GeneratorEndsMute, netVars, poolVars,
       lossVars, cpVars, ddVars
  <2> QED
    BY <2>1, SentinelMoves
<1>2. CASE Generate
  BY <1>2, GenerateMoves
<1>8. CASE GenerateFails
  <2>1. UNCHANGED <<sender, chan, pool, worker, queue, warning_log>>
    BY <1>8 DEF GenerateFails, cpVars, ddVars
  <2>2. CASE globalQ' \in {globalQ, Append(globalQ, NULL)} /\ UNCHANGED <<counter, lost>>
    BY <2>1, <2>2, SentinelMoves
  <2>3. CASE (\E w \in Warning : Made(w) /\ Loses({w})) /\ UNCHANGED globalQ
    BY <2>1, <2>3, RefuseMoves
  <2> QED
    BY <1>8, <2>2, <2>3 DEF GenerateFails
<1>3. CASE SenderStep
  <2>1. UNCHANGED warning_log
    BY <1>3 DEF SenderStep, SenderCheck, SenderDequeue, find_root, SenderSend, ddVars
  <2> QED
    BY <1>3, <2>1, SenderMoves
<1>4. CASE \E n \in Node : ListenerStep(n)
  <2>1. UNCHANGED warning_log
    BY <1>4 DEF ListenerStep, Accept, ClientGone, ListenerGivesUp, ListenerDrops,
       cp_listener_run, listener_fn, ddVars
  <2> QED
    BY <1>4, <2>1, ListenerMoves
<1>5. CASE \E n \in Central, k \in Worker : WorkerStep(n, k)
  <2>1. UNCHANGED warning_log
    BY <1>5 DEF WorkerStep, WorkerDequeue, WorkerClimb, WorkerSend, ddVars
  <2> QED
    BY <1>5, <2>1, WorkerMoves
<1>6. CASE \E d \in Destination : ProcessorStep(d)
  <2>1. PICK d \in Destination : processor_fn(d) \/ ProcessorPrintsNothing(d)
    BY <1>6 DEF ProcessorStep
  <2>2. CASE processor_fn(d)
    BY <2>2, ProcessorMoves
  <2>3. CASE ProcessorPrintsNothing(d)
    BY <2>3, PrintsNothingMoves DEF ProcessorPrintsNothing
  <2> QED
    BY <2>1, <2>2, <2>3
<1>7. CASE UNCHANGED vars
  <2>1. UNCHANGED <<counter, globalQ, sender, chan, pool, worker, queue, warning_log, lost>>
    BY <1>7 DEF vars, dsVars, netVars, poolVars, lossVars, cpVars, ddVars
  <2> QED
    BY <2>1, SentinelMoves
<1> QED
  BY <1>1, <1>2, <1>3, <1>4, <1>5, <1>6, <1>7, <1>8 DEF Next, GeneratorStep

\* Before the first failing call nothing is lost and no peer has closed a pooled
\* connection.
LossInv == failures = 0 => lost = {} /\ \A p \in Process : severed[p] = {}

\* A step loses a warning only if a call fails in it or has failed before it.
LEMMA NextLoss ==
    ASSUME Inv, LossInv, [Next]_vars
    PROVE  LossInv'
<1>1. CASE Fails
  <2>1. failures' > 0
    BY <1>1, FailsType DEF Inv
  <2> QED
    BY <2>1 DEF LossInv
<1>2. CASE UNCHANGED <<failures, lost, severed>>
  BY <1>2 DEF LossInv
<1>3. ASSUME NEW q \in Process, NEW n \in Node, NEW w, send_warning_to(q, n, w)
      PROVE  LossInv'
  <2>1. CASE SendSucceeds(q, n, w)
    BY <1>2, <2>1 DEF SendSucceeds, lossVars
  <2>2. CASE SendOnSevered(q, n, w)
    <3>1. severed[q] # {} /\ failures' = failures
      BY <2>2 DEF SendOnSevered
    <3> QED
      BY <3>1 DEF LossInv
  <2> QED
    BY <1>1, <1>3, <2>1, <2>2 DEF send_warning_to, ConnectFails, FrameFails, SendFails
<1>4. CASE Stop \/ GeneratorStep
  BY <1>1, <1>2, <1>4 DEF Stop, GeneratorStep, GeneratorCheck, GeneratorEnds,
     GeneratorEndsMute, Generate, GenerateFails, netVars, poolVars, lossVars
<1>5. CASE SenderStep
  <2>1. CASE SenderSend
    <3>1. sender.x \in Node /\ DS \in Process
      BY <2>1 DEF SenderSend, Inv, SourceInv, SenderInv, Climbing, Process
    <3> QED
      BY <1>3, <2>1, <3>1 DEF SenderSend
  <2>2. CASE ~SenderSend
    BY <1>2, <1>5, <2>2 DEF SenderStep, SenderCheck, SenderDequeue, find_root, netVars,
       poolVars, lossVars
  <2> QED
    BY <2>1, <2>2
<1>6. CASE \E n \in Node : ListenerStep(n)
  BY <1>1, <1>2, <1>6 DEF ListenerStep, Accept, ClientGone, ListenerGivesUp, ListenerDrops,
     cp_listener_run, listener_fn, poolVars, lossVars
<1>7. CASE \E n \in Central, k \in Worker : WorkerStep(n, k)
  <2>1. PICK n \in Central, k \in Worker : WorkerStep(n, k)
    BY <1>7
  <2>2. CASE WorkerSend(n, k)
    <3>1. worker[n][k].x \in Node /\ n \in Process
      BY <2>2 DEF WorkerSend, Inv, PropInv, WorkerInv, WorkerOK, Climbing, Process, Central
    <3> QED
      BY <1>3, <2>2, <3>1 DEF WorkerSend
  <2>3. CASE ~WorkerSend(n, k)
    BY <1>2, <2>1, <2>3 DEF WorkerStep, WorkerDequeue, WorkerClimb, netVars, poolVars, lossVars
  <2> QED
    BY <2>2, <2>3
<1>8. CASE \E d \in Destination : ProcessorStep(d)
  BY <1>1, <1>2, <1>8 DEF ProcessorStep, processor_fn, ProcessorPrintsNothing, netVars,
     poolVars, lossVars
<1>9. CASE UNCHANGED vars
  BY <1>2, <1>9 DEF vars, netVars, poolVars, lossVars
<1> QED
  BY <1>4, <1>5, <1>6, <1>7, <1>8, <1>9 DEF Next

\* Each warning is in one place in every reachable state, and none is lost before
\* a call has failed.
LEMMA PlaceInvHolds == Spec => [](Inv /\ PlaceInv /\ LossInv)
<1>1. Init => Inv /\ PlaceInv /\ LossInv
  BY InitInv, InitPlace DEF Init, LossInv
<1>2. Inv /\ PlaceInv /\ LossInv /\ [Next]_vars => Inv' /\ PlaceInv' /\ LossInv'
  BY NextInv, NextPlace, NextLoss
<1> QED
  BY <1>1, <1>2, PTL DEF Spec

-----------------------------------------------------------------------------
(* The places that hold a number *)

\* A queue holds number i as often as it holds the warning of that number.
LEMMA HoldsOnce ==
    ASSUME NEW T, NEW s \in Seq(T), Once(s), NEW i
    PROVE  /\ (\A u \in Warning : u.id = i => u \notin In(s)) => Holds(s, i) = {}
           /\ \A v \in Warning :
                 v.id = i /\ (\A u \in Warning : u.id = i /\ u \in In(s) => u = v)
                    => IF v \in In(s) THEN \E j : Holds(s, i) = {j} ELSE Holds(s, i) = {}
<1>1. DOMAIN s = 1..Len(s)
  OBVIOUS
<1>2. \A j \in Holds(s, i) : j \in 1..Len(s) /\ s[j] \in Warning /\ s[j].id = i /\ s[j] \in In(s)
  BY <1>1 DEF Holds, In
<1>3. ASSUME NEW v \in Warning, v.id = i, v \in In(s),
             \A u \in Warning : u.id = i /\ u \in In(s) => u = v
      PROVE  \E j : Holds(s, i) = {j}
  <2>1. PICK j \in 1..Len(s) : s[j] = v
    BY <1>3 DEF In
  <2>2. j \in Holds(s, i)
    BY <1>1, <1>3, <2>1 DEF Holds
  <2>3. \A m \in Holds(s, i) : m = j
    BY <1>2, <1>3, <2>1 DEF Once
  <2> QED
    BY <2>2, <2>3
<1>4. ASSUME NEW v \in Warning, v \notin In(s),
             \A u \in Warning : u.id = i /\ u \in In(s) => u = v
      PROVE  Holds(s, i) = {}
  BY <1>2, <1>4
<1> QED
  BY <1>2, <1>3, <1>4

\* A queue, channel or log has a type, so HoldsOnce applies to it.
LEMMA SeqTypes ==
    ASSUME Inv, PlaceInv
    PROVE  /\ globalQ \in Seq(Warning \cup {NULL}) /\ Once(globalQ)
           /\ \A p \in Process, n \in Node : chan[p][n] \in Seq(Warning \cup Mark) /\ Once(chan[p][n])
           /\ \A n \in Central : pool[n] \in Seq(Warning) /\ Once(pool[n])
           /\ \A d \in Destination : queue[d] \in Seq(Warning) /\ Once(queue[d])
           /\ \A d \in Destination : warning_log[d] \in Seq(Warning) /\ Once(warning_log[d])
           /\ sender.w \in Warning \cup {NULL}
           /\ \A n \in Central, k \in Worker : worker[n][k].w \in Warning \cup {NULL}
           /\ lost \subseteq Warning
           /\ NULL \notin Warning
BY MarkAssumption DEF Inv, SourceInv, SourceType, NetInv, NetType, PropInv, PropagatorType,
   DestInv, DestinationType, PlaceInv, OnceInv, Thread

\* A warning that is somewhere is the only holder of its number.
LEMMA OneHolder ==
    ASSUME Inv, PlaceInv, NEW v \in Warning, NEW t, NEW a, NEW b, Sits(v, t, a, b)
    PROVE  \E h : Holders(v.id) = {h}
<1> DEFINE i == v.id
<1>1. Only(v, t, a, b)
  BY Elsewhere DEF PlaceInv
<1>2. ASSUME NEW u \in Warning, u.id = i, NEW q, NEW c, NEW d, Sits(u, q, c, d)
      PROVE  u = v
  BY <1>2 DEF PlaceInv, OnlyOne
<1> HIDE DEF i
<1>3. /\ \A u \in Warning : u.id = i /\ u \in In(globalQ) => u = v
      /\ \A u \in Warning : u.id = i /\ u = sender.w => u = v
      /\ \A u \in Warning : u.id = i /\ u \in lost => u = v
  BY <1>2 DEF Sits
<1>4. /\ \A u \in Warning : \A p \in Process, n \in Node : u.id = i /\ u \in In(chan[p][n]) => u = v
      /\ \A u \in Warning : \A n \in Central : u.id = i /\ u \in In(pool[n]) => u = v
      /\ \A u \in Warning : \A n \in Central, k \in Worker : u.id = i /\ u = worker[n][k].w => u = v
      /\ \A u \in Warning : \A d \in Destination : u.id = i /\ u \in In(queue[d]) => u = v
      /\ \A u \in Warning : \A d \in Destination : u.id = i /\ u \in In(warning_log[d]) => u = v
  BY <1>2 DEF Sits
<1>5. v.id = i
  BY DEF i
<1>6. IsPlace(t, a, b)
  BY DEF Sits, IsPlace
<1>g. IF t = "globalQ" THEN \E h : GlobalPlaces(i) = {h} ELSE GlobalPlaces(i) = {}
  <2>1. IF t = "globalQ" THEN \E j : Holds(globalQ, i) = {j} ELSE Holds(globalQ, i) = {}
    BY <1>1, <1>3, <1>5, SeqTypes, HoldsOnce DEF Only
  <2>2. ASSUME NEW j, Holds(globalQ, i) = {j} PROVE GlobalPlaces(i) = {<<"globalQ", j>>}
    BY <2>2 DEF GlobalPlaces
  <2>3. ASSUME Holds(globalQ, i) = {} PROVE GlobalPlaces(i) = {}
    BY <2>3 DEF GlobalPlaces
  <2> QED
    BY <2>1, <2>2, <2>3
<1>s. IF t = "sender" THEN \E h : SenderPlaces(i) = {h} ELSE SenderPlaces(i) = {}
  <2>1. Has(sender, i) <=> t = "sender"
    BY <1>1, <1>3, <1>5, SeqTypes DEF Only, Has
  <2> QED
    BY <2>1 DEF SenderPlaces
<1>c. IF t = "chan" THEN \E h : ChanPlaces(i) = {h} ELSE ChanPlaces(i) = {}
  <2>1. ASSUME NEW p \in Process, NEW n \in Node
        PROVE  IF t = "chan" /\ p = a /\ n = b THEN \E j : Holds(chan[p][n], i) = {j}
                                               ELSE Holds(chan[p][n], i) = {}
    <3>1. v \in In(chan[p][n]) <=> t = "chan" /\ p = a /\ n = b
      BY <1>1 DEF Only
    <3>2. \A u \in Warning : u.id = i /\ u \in In(chan[p][n]) => u = v
      BY <1>4
    <3>3. IF v \in In(chan[p][n]) THEN \E j : Holds(chan[p][n], i) = {j} ELSE Holds(chan[p][n], i) = {}
      BY <1>5, <3>2, SeqTypes, HoldsOnce
    <3> QED
      BY <3>1, <3>3
  <2>2. CASE t = "chan"
    <3>1. a \in Process /\ b \in Node
      BY <1>6, <2>2 DEF IsPlace
    <3>2. PICK j : Holds(chan[a][b], i) = {j}
      BY <2>1, <2>2, <3>1
    <3>3. \A p \in Process, n \in Node : p # a \/ n # b => Holds(chan[p][n], i) = {}
      BY <2>1
    <3>4. ChanPlaces(i) = {<<"chan", a, b, j>>}
      <4>1. \A e : e \in ChanPlaces(i) <=>
              \E p \in Process, n \in Node : \E m \in Holds(chan[p][n], i) : e = <<"chan", p, n, m>>
        BY DEF ChanPlaces
      <4> QED
        BY <3>1, <3>2, <3>3, <4>1
    <3> QED
      BY <2>2, <3>4
  <2>3. CASE t # "chan"
    <3>1. \A p \in Process, n \in Node : Holds(chan[p][n], i) = {}
      BY <2>1, <2>3
    <3> QED
      BY <2>3, <3>1 DEF ChanPlaces
  <2> QED
    BY <2>2, <2>3
<1>p. IF t = "pool" THEN \E h : PoolPlaces(i) = {h} ELSE PoolPlaces(i) = {}
  <2>1. ASSUME NEW n \in Central
        PROVE  IF t = "pool" /\ n = a THEN \E j : Holds(pool[n], i) = {j} ELSE Holds(pool[n], i) = {}
    <3>1. v \in In(pool[n]) <=> t = "pool" /\ n = a
      BY <1>1 DEF Only
    <3>2. \A u \in Warning : u.id = i /\ u \in In(pool[n]) => u = v
      BY <1>4
    <3>3. IF v \in In(pool[n]) THEN \E j : Holds(pool[n], i) = {j} ELSE Holds(pool[n], i) = {}
      BY <1>5, <3>2, SeqTypes, HoldsOnce
    <3> QED
      BY <3>1, <3>3
  <2>2. CASE t = "pool"
    <3>1. a \in Central
      BY <1>6, <2>2 DEF IsPlace
    <3>2. PICK j : Holds(pool[a], i) = {j}
      BY <2>1, <2>2, <3>1
    <3>3. \A n \in Central : n # a => Holds(pool[n], i) = {}
      BY <2>1
    <3>4. PoolPlaces(i) = {<<"pool", a, j>>}
      BY <3>1, <3>2, <3>3 DEF PoolPlaces
    <3> QED
      BY <2>2, <3>4
  <2>3. CASE t # "pool"
    <3>1. \A n \in Central : Holds(pool[n], i) = {}
      BY <2>1, <2>3
    <3> QED
      BY <2>3, <3>1 DEF PoolPlaces
  <2> QED
    BY <2>2, <2>3
<1>w. IF t = "worker" THEN \E h : WorkerPlaces(i) = {h} ELSE WorkerPlaces(i) = {}
  <2>1. \A n \in Central, k \in Worker : Has(worker[n][k], i) <=> t = "worker" /\ n = a /\ k = b
    BY <1>1, <1>4, <1>5, SeqTypes DEF Only, Has
  <2>2. CASE t = "worker"
    <3>1. a \in Central /\ b \in Worker
      BY <1>6, <2>2 DEF IsPlace
    <3>2. WorkerPlaces(i) = {<<"worker", a, b>>}
      BY <2>1, <2>2, <3>1 DEF WorkerPlaces
    <3> QED
      BY <2>2, <3>2
  <2>3. CASE t # "worker"
    BY <2>1, <2>3 DEF WorkerPlaces
  <2> QED
    BY <2>2, <2>3
<1>q. IF t = "queue" THEN \E h : QueuePlaces(i) = {h} ELSE QueuePlaces(i) = {}
  <2>1. ASSUME NEW d \in Destination
        PROVE  IF t = "queue" /\ d = a THEN \E j : Holds(queue[d], i) = {j} ELSE Holds(queue[d], i) = {}
    <3>1. v \in In(queue[d]) <=> t = "queue" /\ d = a
      BY <1>1 DEF Only
    <3>2. \A u \in Warning : u.id = i /\ u \in In(queue[d]) => u = v
      BY <1>4
    <3>3. IF v \in In(queue[d]) THEN \E j : Holds(queue[d], i) = {j} ELSE Holds(queue[d], i) = {}
      BY <1>5, <3>2, SeqTypes, HoldsOnce
    <3> QED
      BY <3>1, <3>3
  <2>2. CASE t = "queue"
    <3>1. a \in Destination
      BY <1>6, <2>2 DEF IsPlace
    <3>2. PICK j : Holds(queue[a], i) = {j}
      BY <2>1, <2>2, <3>1
    <3>3. \A d \in Destination : d # a => Holds(queue[d], i) = {}
      BY <2>1
    <3>4. QueuePlaces(i) = {<<"queue", a, j>>}
      BY <3>1, <3>2, <3>3 DEF QueuePlaces
    <3> QED
      BY <2>2, <3>4
  <2>3. CASE t # "queue"
    <3>1. \A d \in Destination : Holds(queue[d], i) = {}
      BY <2>1, <2>3
    <3> QED
      BY <2>3, <3>1 DEF QueuePlaces
  <2> QED
    BY <2>2, <2>3
<1>l. IF t = "log" THEN \E h : LogPlaces(i) = {h} ELSE LogPlaces(i) = {}
  <2>1. ASSUME NEW d \in Destination
        PROVE  IF t = "log" /\ d = a THEN \E j : Holds(warning_log[d], i) = {j}
                                     ELSE Holds(warning_log[d], i) = {}
    <3>1. v \in In(warning_log[d]) <=> t = "log" /\ d = a
      BY <1>1 DEF Only
    <3>2. \A u \in Warning : u.id = i /\ u \in In(warning_log[d]) => u = v
      BY <1>4
    <3>3. IF v \in In(warning_log[d]) THEN \E j : Holds(warning_log[d], i) = {j} ELSE Holds(warning_log[d], i) = {}
      BY <1>5, <3>2, SeqTypes, HoldsOnce
    <3> QED
      BY <3>1, <3>3
  <2>2. CASE t = "log"
    <3>1. a \in Destination
      BY <1>6, <2>2 DEF IsPlace
    <3>2. PICK j : Holds(warning_log[a], i) = {j}
      BY <2>1, <2>2, <3>1
    <3>3. \A d \in Destination : d # a => Holds(warning_log[d], i) = {}
      BY <2>1
    <3>4. LogPlaces(i) = {<<"log", a, j>>}
      BY <3>1, <3>2, <3>3 DEF LogPlaces
    <3> QED
      BY <2>2, <3>4
  <2>3. CASE t # "log"
    <3>1. \A d \in Destination : Holds(warning_log[d], i) = {}
      BY <2>1, <2>3
    <3> QED
      BY <2>3, <3>1 DEF LogPlaces
  <2> QED
    BY <2>2, <2>3
<1>x. IF t = "lost" THEN \E h : LostPlaces(i) = {h} ELSE LostPlaces(i) = {}
  <2>1. {u \in lost : u.id = i} = IF t = "lost" THEN {v} ELSE {}
    BY <1>1, <1>3, <1>5, SeqTypes DEF Only
  <2>2. LostPlaces(i) = {<<"lost", u>> : u \in IF t = "lost" THEN {v} ELSE {}}
    BY <2>1 DEF LostPlaces
  <2>3. t = "lost" => LostPlaces(i) = {<<"lost", v>>}
    BY <2>2
  <2>4. t # "lost" => LostPlaces(i) = {}
    BY <2>2
  <2> QED
    BY <2>3, <2>4
<1>7. t \in {"globalQ", "sender", "chan", "pool", "worker", "queue", "log", "lost"}
  BY DEF Sits
<1>8. Holders(i) = GlobalPlaces(i) \cup SenderPlaces(i) \cup ChanPlaces(i) \cup PoolPlaces(i)
                   \cup WorkerPlaces(i) \cup QueuePlaces(i) \cup LogPlaces(i) \cup LostPlaces(i)
  BY DEF Holders
<1> QED
  BY <1>5, <1>7, <1>8, <1>g, <1>s, <1>c, <1>p, <1>w, <1>q, <1>l, <1>x

\* A number that no warning has has no holder.
LEMMA NoHolder ==
    ASSUME Inv, PlaceInv, NEW i, \A u \in Warning : u.id = i => ~Present(u)
    PROVE  Holders(i) = {}
<1>1. ASSUME NEW u \in Warning, u.id = i, NEW q, NEW c, NEW d PROVE ~Sits(u, q, c, d)
  BY <1>1 DEF Present
<1>2. ASSUME NEW u \in Warning, u.id = i
      PROVE  /\ u \notin In(globalQ) /\ u # sender.w /\ u \notin lost
             /\ \A p \in Process, n \in Node : u \notin In(chan[p][n])
             /\ \A n \in Central : u \notin In(pool[n])
             /\ \A n \in Central, k \in Worker : u # worker[n][k].w
             /\ \A d \in Destination : u \notin In(queue[d]) /\ u \notin In(warning_log[d])
  BY <1>1, <1>2 DEF Sits
<1>3. Holds(globalQ, i) = {}
  BY <1>2, SeqTypes, HoldsOnce
<1>4. ~Has(sender, i)
  BY <1>2, SeqTypes DEF Has
<1>5. \A p \in Process, n \in Node : Holds(chan[p][n], i) = {}
  BY <1>2, SeqTypes, HoldsOnce
<1>6. \A n \in Central : Holds(pool[n], i) = {}
  BY <1>2, SeqTypes, HoldsOnce
<1>7. \A n \in Central, k \in Worker : ~Has(worker[n][k], i)
  BY <1>2, SeqTypes DEF Has
<1>8. \A d \in Destination : Holds(queue[d], i) = {} /\ Holds(warning_log[d], i) = {}
  BY <1>2, SeqTypes, HoldsOnce
<1>9. \A u \in lost : u.id # i
  BY <1>2, SeqTypes
<1>10. GlobalPlaces(i) = {} /\ SenderPlaces(i) = {} /\ LostPlaces(i) = {}
  BY <1>3, <1>4, <1>9 DEF GlobalPlaces, SenderPlaces, LostPlaces
<1>11. ChanPlaces(i) = {} /\ PoolPlaces(i) = {} /\ WorkerPlaces(i) = {}
  BY <1>5, <1>6, <1>7 DEF ChanPlaces, PoolPlaces, WorkerPlaces
<1>12. QueuePlaces(i) = {} /\ LogPlaces(i) = {}
  BY <1>8 DEF QueuePlaces, LogPlaces
<1> QED
  BY <1>10, <1>11, <1>12 DEF Holders

\* Every generated warning is in exactly one place, for every tree, number of
\* warnings, of workers and of failures: no queue, climb, send or reconnect of the
\* code duplicates one, none vanishes unaccounted when a send, a connect or malloc
\* fails in the Data Source, a propagator or a destination, and none is lost before
\* such a call fails.
THEOREM ExactlyOnePlaceHolds == Spec => []ExactlyOnePlace
<1>1. ASSUME Inv, PlaceInv, LossInv PROVE ExactlyOnePlace
  <2> SUFFICES ASSUME NEW i \in Number
               PROVE  Cardinality(Holders(i)) = IF i <= counter THEN 1 ELSE 0
    BY <1>1 DEF ExactlyOnePlace, LossInv
  <2>1. i \in Nat /\ counter \in Nat /\ (i \in 1..counter <=> i <= counter)
    BY <1>1, PropagationAssumption DEF Inv, SourceInv, SourceType, Number
  <2>2. i \in 1..counter <=> \E v \in Warning : v.id = i /\ Present(v)
    BY <1>1, <2>1 DEF PlaceInv, Numbered
  <2>3. CASE i <= counter
    <3>1. PICK v \in Warning : v.id = i /\ Present(v)
      BY <2>1, <2>2, <2>3
    <3>2. PICK t, a, b : Sits(v, t, a, b)
      BY <3>1 DEF Present
    <3>3. PICK h : Holders(i) = {h}
      BY <1>1, <3>1, <3>2, OneHolder
    <3> QED
      BY <2>3, <3>3, FS_Singleton
  <2>4. CASE ~(i <= counter)
    <3>1. Holders(i) = {}
      BY <1>1, <2>1, <2>2, <2>4, NoHolder
    <3> QED
      BY <2>4, <3>1, FS_EmptySet
  <2> QED
    BY <2>3, <2>4
<1> QED
  BY <1>1, PlaceInvHolds, PTL

-----------------------------------------------------------------------------
(* The delivery service *)

\* The refinement mapping: what is pending is what is neither logged nor lost.
Mapped == Pending = {v \in Warning : OnWay(v)}

\* The mapping of the specification is the one that the steps are about.
LEMMA MappedHolds == Inv => Mapped
<1> SUFFICES ASSUME Inv, NEW v \in Warning
             PROVE  v \in Pending <=> OnWay(v)
  BY DEF Mapped, Pending
<1>1. /\ DOMAIN globalQ = 1..Len(globalQ)
      /\ \A p \in Process, n \in Node : DOMAIN chan[p][n] = 1..Len(chan[p][n])
      /\ \A n \in Central : DOMAIN pool[n] = 1..Len(pool[n])
      /\ \A d \in Destination : DOMAIN queue[d] = 1..Len(queue[d])
  BY DEF Inv, SourceInv, SourceType, NetInv, NetType, PropInv, PropagatorType, DestInv, DestinationType
<1>2. v \in Pending <=>
        \/ v \in In(globalQ) \/ v = sender.w
        \/ \E p \in Process, n \in Node : v \in In(chan[p][n])
        \/ \E n \in Central : v \in In(pool[n])
        \/ \E n \in Central, k \in Worker : v = worker[n][k].w
        \/ \E d \in Destination : v \in In(queue[d])
  <2>1. /\ Elements(globalQ) = In(globalQ)
        /\ \A p \in Process, n \in Node : Elements(chan[p][n]) = In(chan[p][n])
        /\ \A n \in Central : Elements(pool[n]) = In(pool[n])
        /\ \A d \in Destination : Elements(queue[d]) = In(queue[d])
    BY <1>1 DEF Elements, In
  <2>2. v \in Pending <=>
          \/ v \in Elements(globalQ) \/ v = sender.w
          \/ \E p \in Process, n \in Node : v \in Elements(chan[p][n])
          \/ \E n \in Central : v \in Elements(pool[n])
          \/ \E n \in Central, k \in Worker : v = worker[n][k].w
          \/ \E d \in Destination : v \in Elements(queue[d])
    BY DEF Pending
  <2> QED
    BY <2>1, <2>2
<1>3. ASSUME NEW t, NEW a, NEW b, t \notin {"log", "lost"}, Sits(v, t, a, b)
      PROVE  v \in Pending
  BY <1>2, <1>3 DEF Sits
<1>4. v \in In(globalQ) => OnWay(v)
  <2>1. v \in In(globalQ) => Sits(v, "globalQ", DS, DS)
    BY DEF Sits
  <2> QED
    BY <2>1 DEF OnWay
<1>5. v = sender.w => OnWay(v)
  <2>1. v = sender.w => Sits(v, "sender", DS, DS)
    BY DEF Sits
  <2> QED
    BY <2>1 DEF OnWay
<1>6. ASSUME NEW p \in Process, NEW n \in Node, v \in In(chan[p][n]) PROVE OnWay(v)
  <2>1. Sits(v, "chan", p, n)
    BY <1>6 DEF Sits
  <2> QED
    BY <2>1 DEF OnWay
<1>7. ASSUME NEW n \in Central, v \in In(pool[n]) PROVE OnWay(v)
  <2>1. Sits(v, "pool", n, DS)
    BY <1>7 DEF Sits
  <2> QED
    BY <2>1 DEF OnWay
<1>8. ASSUME NEW n \in Central, NEW k \in Worker, v = worker[n][k].w PROVE OnWay(v)
  <2>1. Sits(v, "worker", n, k)
    BY <1>8 DEF Sits
  <2> QED
    BY <2>1 DEF OnWay
<1>9. ASSUME NEW d \in Destination, v \in In(queue[d]) PROVE OnWay(v)
  <2>1. Sits(v, "queue", d, DS)
    BY <1>9 DEF Sits
  <2> QED
    BY <2>1 DEF OnWay
<1> QED
  BY <1>2, <1>3, <1>4, <1>5, <1>6, <1>7, <1>8, <1>9 DEF OnWay

\* What is lost or logged, or on its way, is somewhere.
LEMMA Numbers ==
    ASSUME Inv, NEW v
    PROVE  /\ v \in lost => v \in Warning /\ Present(v)
           /\ \A d \in Destination : \A i \in DOMAIN warning_log[d] :
                 warning_log[d][i] \in Warning /\ Present(warning_log[d][i])
           /\ OnWay(v) => Present(v)
<1>1. ASSUME v \in lost PROVE v \in Warning /\ Present(v)
  <2>1. Sits(v, "lost", DS, DS)
    BY <1>1 DEF Sits
  <2> QED
    BY <1>1, <2>1 DEF Present, Inv, NetInv, NetType
<1>2. ASSUME NEW d \in Destination, NEW i \in DOMAIN warning_log[d]
      PROVE  warning_log[d][i] \in Warning /\ Present(warning_log[d][i])
  <2>1. warning_log[d][i] \in Warning /\ warning_log[d][i] \in In(warning_log[d])
    BY DEF Inv, DestInv, DestinationType, In
  <2>2. PICK u : u = warning_log[d][i]
    OBVIOUS
  <2>3. Sits(u, "log", d, DS)
    BY <2>1, <2>2 DEF Sits
  <2>4. Present(u)
    BY <2>3 DEF Present
  <2> QED
    BY <2>1, <2>2, <2>4
<1>3. OnWay(v) => Present(v)
  BY DEF OnWay, Present
<1> QED
  BY <1>1, <1>2, <1>3

\* Every step is one of the delivery service's: the generator accepts or refuses,
\* the processor of a destination delivers, and every other step loses the warnings
\* of a failed call, or none.
LEMMA StepDelivers ==
    ASSUME Inv, PlaceInv, Inv', Mapped, Mapped', [Next]_vars
    PROVE  Service!Next
<1>1. /\ \A v : v \in Pending <=> v \in Warning /\ OnWay(v)
      /\ \A v : v \in Pending' <=> v \in Warning /\ OnWay(v)'
  BY DEF Mapped
<1>2. ASSUME NEW w, \A v \in Warning : Present(v) => v.id # w.id
      PROVE  Service!Fresh(w)
  <2>1. \A v \in Pending \cup lost : v.id # w.id
    BY <1>1, <1>2, Numbers
  <2>2. \A d \in Destination : \A i \in DOMAIN warning_log[d] : warning_log[d][i].id # w.id
    BY <1>2, Numbers
  <2> QED
    BY <2>1, <2>2 DEF Service!Fresh
<1>a. CASE \E w \in Addressed : Accepts(w)
  <2>1. PICK w \in Addressed : Accepts(w)
    BY <1>a
  <2>2. w \in Warning
    BY DEF Addressed, Warning, Destination
  <2>3. Pending' = Pending \cup {w}
    BY <1>1, <2>1, <2>2 DEF Accepts
  <2>4. Service!Accept(w)
    BY <1>2, <2>1, <2>3 DEF Accepts, Service!Accept
  <2> QED
    BY <2>4 DEF Service!Next
<1>b. CASE \E w \in Addressed : Refuses(w)
  <2>1. PICK w \in Addressed : Refuses(w)
    BY <1>b
  <2>2. Pending' = Pending
    BY <1>1, <2>1 DEF Refuses
  <2>3. Service!Refuse(w)
    BY <1>2, <2>1, <2>2 DEF Refuses, Service!Refuse
  <2> QED
    BY <2>3 DEF Service!Next
<1>3. CASE \E w \in Warning : Delivers(w)
  <2>1. PICK w \in Warning : Delivers(w)
    BY <1>3
  <2>2. w \in Pending /\ Pending' = Pending \ {w}
    BY <1>1, <2>1 DEF Delivers
  <2>3. Service!Deliver(w)
    BY <2>1, <2>2 DEF Delivers, Service!Deliver
  <2> QED
    BY <2>2, <2>3 DEF Service!Next
<1>4. CASE LosesSome /\ UNCHANGED warning_log
  <2>1. PICK M \in SUBSET Warning :
          /\ \A v \in M : OnWay(v)
          /\ \A v \in Warning : /\ OnWay(v)' <=> OnWay(v) /\ v \notin M
                                /\ v \in lost' <=> v \in lost \/ v \in M
    BY <1>4 DEF LosesSome
  <2>2. M \in SUBSET Pending /\ Pending' = Pending \ M
    BY <1>1, <2>1
  <2>3. lost \subseteq Warning /\ lost' \subseteq Warning
    BY DEF Inv, NetInv, NetType
  <2>4. lost' = lost \cup M
    BY <2>1, <2>3
  <2>5. Service!Lose(M)
    BY <1>4, <2>2, <2>4 DEF Service!Lose
  <2> QED
    BY <2>2, <2>5 DEF Service!Next
<1> QED
  BY <1>a, <1>b, <1>3, <1>4, NextPlace

\* The processes together implement the delivery service, for every tree, number
\* of warnings, of workers and of failures: what the generator enqueues stays on
\* its way until its own destination logs it, once, or a failing call loses it (a
\* send or connect, or malloc on the sending or the receiving side).
THEOREM ImplementsDeliveryHolds == Spec => ImplementsDelivery
<1>1. Init => Service!Init
  <2> SUFFICES ASSUME Init PROVE Service!Init
    OBVIOUS
  <2>1. Pending = {}
    <3>1. Inv /\ PlaceInv /\ Mapped
      BY InitInv, InitPlace, MappedHolds
    <3>2. \A v \in Warning : ~Present(v)
      <4>1. counter = 0 /\ \A i \in Nat : i \notin 1..0
        BY DEF Init
      <4>2. \A v \in Warning : v.id \in Nat
        BY PropagationAssumption DEF Warning, Number
      <4> QED
        BY <3>1, <4>1, <4>2 DEF PlaceInv, Numbered
    <3> QED
      BY <3>1, <3>2 DEF Mapped, OnWay, Present
  <2> QED
    BY <2>1 DEF Init, Service!Init
<1>2. Inv /\ PlaceInv /\ Inv' /\ Mapped /\ Mapped' /\ [Next]_vars => [Service!Next]_Service!vars
  BY StepDelivers
<1> QED
  BY <1>1, <1>2, MappedHolds, PlaceInvHolds, PTL
     DEF Spec, ImplementsDelivery, Service!Spec
=============================================================================
