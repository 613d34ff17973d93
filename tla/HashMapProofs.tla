--------------------------- MODULE HashMapProofs ---------------------------
(***************************************************************************)
(* The chains of hashmap.c are a map, for every hash function, every set   *)
(* of keys and every initial capacity.                                     *)
(***************************************************************************)
EXTENDS HashMap, FiniteSetTheorems, SequenceTheorems, TLAPS

\* The nodes of a chain.
Elems(s) == {s[j] : j \in 1..Len(s)}

\* A chain holds a key once.
Distinct(s) == \A i, j \in 1..Len(s) : s[i].key = s[j].key => i = j

\* A table of n chains, in which every node is where its key is searched.
Table(t, n) ==
    /\ t \in [0..(n - 1) -> Seq(Node)]
    /\ \A i \in 0..(n - 1) : Distinct(t[i])
    /\ \A i \in 0..(n - 1) : \A j \in 1..Len(t[i]) : Index(t[i][j].key, n) = i

\* Every node of a chain has its place in bucket i of n.
Belongs(c, n, i) == \A e \in Elems(c) : Index(e.key, n) = i

\* The chain of bucket i becomes c.
Relinked(u, t, i, c) == u = [t EXCEPT ![i] = c]

\* The chain of bucket i becomes one that lacks the node a.
Unlinks(u, t, n, i, a) ==
    /\ i \in 0..(n - 1) /\ a \in Elems(t[i])
    /\ \E c \in Seq(Node) :
         Distinct(c) /\ Elems(c) = Elems(t[i]) \ {a} /\ Relinked(u, t, i, c)

\* The node at p of a chain gets the value v.
Revalued(t, s, p, v) == t = [s EXCEPT ![p].value = v]

\* A set of nodes is a partial function from keys to values.
OnePerKey(N) == \A a, b \in N : a.key = b.key => a = b
\* The keys of a set of nodes.
KeysOf(N) == {a.key : a \in N}

-----------------------------------------------------------------------------
(* Chains *)

\* The hash of a key leads to a bucket.
LEMMA IndexRange ==
    ASSUME NEW k \in Key, NEW n \in Nat \ {0}
    PROVE  Index(k, n) \in 0..(n - 1)
<1>1. Hash[k] \in Nat
  BY HashMapAssumption
<1>2. \A h \in Nat : h % n \in 0..(n - 1)
  OBVIOUS
<1> QED
  BY <1>1, <1>2 DEF Index

\* A node with a new key becomes the head of a chain.
LEMMA ChainPrepend ==
    ASSUME NEW s \in Seq(Node), Distinct(s), NEW x \in Node,
           \A j \in 1..Len(s) : s[j].key # x.key
    PROVE  /\ <<x>> \o s \in Seq(Node)
           /\ Distinct(<<x>> \o s)
           /\ Elems(<<x>> \o s) = Elems(s) \cup {x}
<1> DEFINE t == <<x>> \o s
<1>1. /\ t \in Seq(Node) /\ Len(t) = Len(s) + 1 /\ Len(s) \in Nat
      /\ t[1] = x
      /\ \A j \in 1..Len(t) : j # 1 => j - 1 \in 1..Len(s) /\ t[j] = s[j - 1]
  OBVIOUS
<1>2. \A j \in 1..Len(s) : j + 1 \in 1..Len(t) /\ t[j + 1] = s[j]
  OBVIOUS
<1> HIDE DEF t
<1>3. Distinct(t)
  <2> SUFFICES ASSUME NEW i \in 1..Len(t), NEW j \in 1..Len(t), t[i].key = t[j].key
               PROVE  i = j
    BY DEF Distinct
  <2>1. CASE i = 1 \/ j = 1
    BY <1>1, <2>1
  <2>2. CASE i # 1 /\ j # 1
    <3>1. i - 1 = j - 1
      BY <1>1, <2>2 DEF Distinct
    <3> QED
      BY <1>1, <3>1
  <2> QED
    BY <2>1, <2>2
<1>4. ASSUME NEW e PROVE e \in Elems(t) <=> e \in Elems(s) \cup {x}
  <2>1. ASSUME NEW j \in 1..Len(t), t[j] = e PROVE e \in Elems(s) \cup {x}
    BY <1>1, <2>1 DEF Elems
  <2>2. ASSUME NEW j \in 1..Len(s), s[j] = e PROVE e \in Elems(t)
    BY <1>2, <2>2 DEF Elems
  <2>3. x \in Elems(t)
    BY <1>1 DEF Elems
  <2> QED
    BY <2>1, <2>2, <2>3 DEF Elems
<1> QED
  BY <1>1, <1>3, <1>4 DEF t

\* The head of a chain is unlinked.
LEMMA ChainTail ==
    ASSUME NEW s \in Seq(Node), Distinct(s), s # <<>>
    PROVE  /\ Tail(s) \in Seq(Node)
           /\ Distinct(Tail(s))
           /\ Elems(Tail(s)) = Elems(s) \ {Head(s)}
           /\ Head(s) \in Elems(s)
<1> DEFINE t == Tail(s)
<1>1. /\ t \in Seq(Node) /\ Len(s) = Len(t) + 1 /\ Len(t) \in Nat
      /\ Head(s) = s[1]
      /\ \A j \in 1..Len(t) : j + 1 \in 1..Len(s) /\ t[j] = s[j + 1]
  OBVIOUS
<1>2. \A j \in 1..Len(s) : j # 1 => j - 1 \in 1..Len(t) /\ s[j] = t[j - 1]
  OBVIOUS
<1> HIDE DEF t
<1>3. Distinct(t)
  <2> SUFFICES ASSUME NEW i \in 1..Len(t), NEW j \in 1..Len(t), t[i].key = t[j].key
               PROVE  i = j
    BY DEF Distinct
  <2>1. i + 1 = j + 1
    BY <1>1 DEF Distinct
  <2> QED
    BY <2>1
<1>4. ASSUME NEW e PROVE e \in Elems(t) <=> e \in Elems(s) \ {Head(s)}
  <2>1. ASSUME NEW j \in 1..Len(t), t[j] = e PROVE e \in Elems(s) /\ e # Head(s)
    <3>1. j + 1 \in 1..Len(s) /\ s[j + 1] = e
      BY <1>1, <2>1
    <3>2. 1 \in 1..Len(s) /\ j + 1 # 1
      BY <1>1
    <3>3. s[j + 1].key # s[1].key
      BY <3>1, <3>2 DEF Distinct
    <3> QED
      BY <1>1, <3>1, <3>3 DEF Elems
  <2>2. ASSUME NEW j \in 1..Len(s), s[j] = e, e # Head(s) PROVE e \in Elems(t)
    BY <1>1, <1>2, <2>2 DEF Elems
  <2> QED
    BY <2>1, <2>2 DEF Elems
<1>5. Head(s) \in Elems(s)
  BY <1>1 DEF Elems
<1> QED
  BY <1>1, <1>3, <1>4, <1>5 DEF t

\* A node is unlinked somewhere in a chain.
LEMMA ChainRemove ==
    ASSUME NEW s \in Seq(Node), Distinct(s), NEW p \in 1..Len(s)
    PROVE  LET t == SubSeq(s, 1, p - 1) \o SubSeq(s, p + 1, Len(s))
           IN  /\ t \in Seq(Node)
               /\ Distinct(t)
               /\ Elems(t) = Elems(s) \ {s[p]}
<1> DEFINE a == SubSeq(s, 1, p - 1)
           b == SubSeq(s, p + 1, Len(s))
           t == a \o b
<1>1. /\ a \in Seq(Node) /\ Len(a) = p - 1
      /\ \A j \in 1..(p - 1) : a[j] = s[j]
  OBVIOUS
<1>2. /\ b \in Seq(Node) /\ Len(b) = Len(s) - p
      /\ \A j \in 1..(Len(s) - p) : b[j] = s[p + j]
  OBVIOUS
<1> HIDE DEF a, b
<1>3. /\ t \in Seq(Node) /\ Len(t) = Len(s) - 1 /\ Len(s) \in Nat
      /\ \A j \in 1..Len(t) : t[j] = IF j < p THEN a[j] ELSE b[j - p + 1]
  <2>1. /\ t \in Seq(Node) /\ Len(t) = Len(a) + Len(b)
        /\ \A j \in 1..(Len(a) + Len(b)) : t[j] = IF j <= Len(a) THEN a[j] ELSE b[j - Len(a)]
    BY <1>1, <1>2, ConcatProperties
  <2> HIDE DEF t
  <2>2. Len(s) \in Nat
    OBVIOUS
  <2> QED
    BY <1>1, <1>2, <2>1, <2>2
<1> HIDE DEF t
<1>4. ASSUME NEW j \in 1..Len(t) PROVE t[j] = IF j < p THEN s[j] ELSE s[j + 1]
  <2>1. CASE j < p
    <3>1. j \in 1..(p - 1) /\ t[j] = a[j]
      BY <1>3, <2>1
    <3> QED
      BY <1>1, <2>1, <3>1
  <2>2. CASE ~(j < p)
    <3>1. j - p + 1 \in 1..(Len(s) - p) /\ t[j] = b[j - p + 1] /\ p + (j - p + 1) = j + 1
      BY <1>3, <2>2
    <3> QED
      BY <1>2, <2>2, <3>1
  <2> QED
    BY <2>1, <2>2
<1>5. Distinct(t)
  <2> SUFFICES ASSUME NEW i \in 1..Len(t), NEW j \in 1..Len(t), t[i].key = t[j].key
               PROVE  i = j
    BY DEF Distinct
  <2> DEFINE at(l) == IF l < p THEN l ELSE l + 1
  <2>1. \A l \in 1..Len(t) : at(l) \in 1..Len(s) /\ t[l] = s[at(l)]
    BY <1>3, <1>4
  <2>2. at(i) = at(j)
    BY <2>1 DEF Distinct
  <2> QED
    BY <1>3, <2>2
<1>6. ASSUME NEW e PROVE e \in Elems(t) <=> e \in Elems(s) \ {s[p]}
  <2>1. ASSUME NEW j \in 1..Len(t), t[j] = e PROVE e \in Elems(s) /\ e # s[p]
    <3>1. PICK l \in 1..Len(s) : l # p /\ s[l] = e
      BY <1>3, <1>4, <2>1
    <3>2. s[l].key # s[p].key
      BY <3>1 DEF Distinct
    <3> QED
      BY <3>1, <3>2 DEF Elems
  <2>2. ASSUME NEW l \in 1..Len(s), s[l] = e, e # s[p] PROVE e \in Elems(t)
    <3>1. PICK j \in 1..Len(t) : l = IF j < p THEN j ELSE j + 1
      <4>1. CASE l < p
        BY <1>3, <4>1
      <4>2. CASE l > p
        <5>1. l - 1 \in 1..Len(t) /\ ~(l - 1 < p) /\ l = (l - 1) + 1
          BY <1>3, <4>2
        <5> QED
          BY <5>1
      <4> QED
        BY <2>2, <4>1, <4>2
    <3> QED
      BY <1>4, <2>2, <3>1 DEF Elems
  <2> QED
    BY <2>1, <2>2 DEF Elems
<1> QED
  BY <1>3, <1>5, <1>6 DEF t, a, b

\* The value of a node is replaced.
LEMMA ChainReplace ==
    ASSUME NEW s \in Seq(Node), Distinct(s), NEW p \in 1..Len(s), NEW v \in Value,
           NEW t, Revalued(t, s, p, v)
    PROVE  /\ t \in Seq(Node)
           /\ Distinct(t)
           /\ Elems(t) = (Elems(s) \ {s[p]}) \cup {[key |-> s[p].key, value |-> v]}
<1> DEFINE x == [key |-> s[p].key, value |-> v]
<1>1. s[p] \in Node /\ [s[p] EXCEPT !.value = v] = x /\ x \in Node
  <2>1. s[p] \in Node
    OBVIOUS
  <2> QED
    BY <2>1 DEF Node
<1>2. t = [s EXCEPT ![p] = x]
  BY <1>1 DEF Revalued
<1> HIDE DEF x
<1>3. /\ t \in Seq(Node) /\ Len(t) = Len(s)
      /\ \A j \in 1..Len(s) : t[j] = IF j = p THEN x ELSE s[j]
  BY <1>1, <1>2
<1>4. x.key = s[p].key
  BY DEF x
<1>5. Distinct(t)
  <2>1. \A j \in 1..Len(s) : t[j].key = s[j].key
    BY <1>3, <1>4
  <2> QED
    BY <1>3, <2>1 DEF Distinct
<1>6. ASSUME NEW e PROVE e \in Elems(t) <=> e \in (Elems(s) \ {s[p]}) \cup {x}
  <2>1. \A j \in 1..Len(s) : j # p => s[j] # s[p]
    BY DEF Distinct
  <2> QED
    BY <1>3, <2>1 DEF Elems
<1> QED
  BY <1>3, <1>5, <1>6 DEF x

-----------------------------------------------------------------------------
(* Tables *)

\* The nodes of a table are those of its chains.
LEMMA ChainedIs ==
    ASSUME NEW n \in Nat, NEW t \in [0..(n - 1) -> Seq(Node)], NEW e
    PROVE  e \in Chained(t) <=> \E i \in 0..(n - 1) : e \in Elems(t[i])
<1>1. DOMAIN t = 0..(n - 1)
  OBVIOUS
<1>2. \A i \in 0..(n - 1) : DOMAIN t[i] = 1..Len(t[i])
  OBVIOUS
<1> QED
  BY <1>1, <1>2 DEF Chained, Elems

\* One chain of a table is replaced by another one for the same bucket.
LEMMA TableUpdate ==
    ASSUME NEW n \in Nat, NEW t, Table(t, n), NEW i \in 0..(n - 1),
           NEW c \in Seq(Node), Distinct(c), Belongs(c, n, i), NEW u, Relinked(u, t, i, c)
    PROVE  /\ Table(u, n)
           /\ Chained(u) = (Chained(t) \ Elems(t[i])) \cup Elems(c)
<1>1. t \in [0..(n - 1) -> Seq(Node)]
  BY DEF Table
<1>2. /\ u \in [0..(n - 1) -> Seq(Node)]
      /\ \A j \in 0..(n - 1) : u[j] = IF j = i THEN c ELSE t[j]
  BY <1>1 DEF Relinked
<1>3. Table(u, n)
  <2>1. \A j \in 1..Len(c) : Index(c[j].key, n) = i
    BY DEF Belongs, Elems
  <2>2. ASSUME NEW p \in 0..(n - 1)
        PROVE  Distinct(u[p]) /\ \A j \in 1..Len(u[p]) : Index(u[p][j].key, n) = p
    <3>1. CASE p = i
      BY <1>2, <2>1, <3>1
    <3>2. CASE p # i
      BY <1>2, <3>2 DEF Table
    <3> QED
      BY <3>1, <3>2
  <2> QED
    BY <1>2, <2>2 DEF Table
<1>4. \A j \in 0..(n - 1) : \A e \in Elems(t[j]) : Index(e.key, n) = j
  BY DEF Table, Elems
<1>5. ASSUME NEW e
      PROVE  e \in Chained(u) <=> e \in (Chained(t) \ Elems(t[i])) \cup Elems(c)
  <2>1. e \in Chained(t) <=> \E j \in 0..(n - 1) : e \in Elems(t[j])
    BY <1>1, ChainedIs
  <2>2. e \in Chained(u) <=> \E j \in 0..(n - 1) : e \in Elems(u[j])
    BY <1>2, ChainedIs
  <2> QED
    BY <1>2, <1>4, <2>1, <2>2
<1> QED
  BY <1>3, <1>5

\* Two nodes of a table have different keys: the chain tells equal hashes apart.
LEMMA TableOnePerKey ==
    ASSUME NEW n \in Nat, NEW t, Table(t, n)
    PROVE  /\ OnePerKey(Chained(t))
           /\ Chained(t) \subseteq Node
<1>1. t \in [0..(n - 1) -> Seq(Node)]
  BY DEF Table
<1>2. \A e \in Chained(t) : \E i \in 0..(n - 1) : \E j \in 1..Len(t[i]) : e = t[i][j]
  BY <1>1, ChainedIs DEF Elems
<1>3. Chained(t) \subseteq Node
  BY <1>1, <1>2
<1>4. ASSUME NEW a \in Chained(t), NEW b \in Chained(t), a.key = b.key PROVE a = b
  <2>1. PICK i \in 0..(n - 1) : \E j \in 1..Len(t[i]) : a = t[i][j]
    BY <1>2
  <2>2. PICK j \in 1..Len(t[i]) : a = t[i][j]
    BY <2>1
  <2>3. PICK p \in 0..(n - 1) : \E q \in 1..Len(t[p]) : b = t[p][q]
    BY <1>2
  <2>4. PICK q \in 1..Len(t[p]) : b = t[p][q]
    BY <2>3
  <2>5. i = p
    BY <1>4, <2>2, <2>4 DEF Table
  <2>6. Distinct(t[i])
    BY DEF Table
  <2>7. j = q
    BY <1>4, <2>2, <2>4, <2>5, <2>6 DEF Distinct
  <2> QED
    BY <2>2, <2>4, <2>5, <2>7
<1> QED
  BY <1>3, <1>4 DEF OnePerKey

\* The search of a key ends at its node, or there is none.
LEMMA Search ==
    ASSUME NEW n \in Nat \ {0}, NEW t, Table(t, n), NEW k \in Key
    PROVE  LET c == t[Index(k, n)]
               m == Matches(c, k)
           IN  /\ m = {} => \A e \in Chained(t) : e.key # k
               /\ m # {} => /\ First(m) \in 1..Len(c)
                            /\ c[First(m)].key = k
                            /\ c[First(m)] \in Chained(t)
<1> DEFINE i == Index(k, n)
           c == t[i]
           m == Matches(c, k)
<1>1. i \in 0..(n - 1)
  BY IndexRange
<1>2. t \in [0..(n - 1) -> Seq(Node)]
  BY DEF Table
<1>3. c \in Seq(Node) /\ DOMAIN c = 1..Len(c) /\ Distinct(c)
  BY <1>1, <1>2 DEF Table
<1>4. ASSUME m = {}, NEW e \in Chained(t) PROVE e.key # k
  <2>1. PICK j \in 0..(n - 1) : e \in Elems(t[j])
    BY <1>2, ChainedIs
  <2>2. PICK q \in 1..Len(t[j]) : e = t[j][q]
    BY <2>1 DEF Elems
  <2>3. Index(e.key, n) = j
    BY <2>2 DEF Table
  <2> QED
    BY <1>3, <1>4, <2>2, <2>3 DEF Matches
<1>5. ASSUME m # {}
      PROVE  First(m) \in 1..Len(c) /\ c[First(m)].key = k /\ c[First(m)] \in Chained(t)
  <2>1. PICK p \in 1..Len(c) : c[p].key = k
    BY <1>3, <1>5 DEF Matches
  <2>2. m = {p}
    BY <1>3, <2>1 DEF Matches, Distinct
  <2> HIDE DEF m
  <2>3. First(m) = p
    BY <2>2 DEF First
  <2>4. c[p] \in Elems(c)
    BY DEF Elems
  <2>5. c[p] \in Chained(t)
    BY <1>1, <1>2, <2>4, ChainedIs
  <2> QED
    BY <2>1, <2>3, <2>5
<1> QED
  BY <1>4, <1>5

\* A node with a new key is linked.
LEMMA TablePrepend ==
    ASSUME NEW n \in Nat \ {0}, NEW t, Table(t, n), NEW x \in Node,
           \A e \in Chained(t) : e.key # x.key,
           NEW u, Relinked(u, t, Index(x.key, n), <<x>> \o t[Index(x.key, n)])
    PROVE  Table(u, n) /\ Chained(u) = Chained(t) \cup {x}
<1> DEFINE i == Index(x.key, n)
           c == <<x>> \o t[i]
<1>1. i \in 0..(n - 1)
  BY IndexRange DEF Node
<1>2. t \in [0..(n - 1) -> Seq(Node)]
  BY DEF Table
<1>3. /\ t[i] \in Seq(Node) /\ Distinct(t[i])
      /\ \A e \in Elems(t[i]) : e \in Chained(t) /\ Index(e.key, n) = i
  <2>1. \A e \in Elems(t[i]) : e \in Chained(t)
    BY <1>1, <1>2, ChainedIs
  <2>2. \A e \in Elems(t[i]) : Index(e.key, n) = i
    BY <1>1 DEF Table, Elems
  <2> QED
    BY <1>1, <1>2, <2>1, <2>2 DEF Table
<1>4. \A j \in 1..Len(t[i]) : t[i][j].key # x.key
  BY <1>3 DEF Elems
<1>5. c \in Seq(Node) /\ Distinct(c) /\ Elems(c) = Elems(t[i]) \cup {x}
  BY <1>3, <1>4, ChainPrepend
<1>6. Relinked(u, t, i, c) /\ n \in Nat
  OBVIOUS
<1> HIDE DEF c, i
<1>7. Belongs(c, n, i)
  BY <1>3, <1>5 DEF i, Belongs
<1>8. /\ Table(u, n)
      /\ Chained(u) = (Chained(t) \ Elems(t[i])) \cup Elems(c)
  BY <1>1, <1>5, <1>6, <1>7, TableUpdate
<1>9. (Chained(t) \ Elems(t[i])) \cup Elems(c) = Chained(t) \cup {x}
  BY <1>3, <1>5
<1> QED
  BY <1>8, <1>9

\* A node is unlinked from its chain.
LEMMA TableUnlink ==
    ASSUME NEW n \in Nat, NEW t, Table(t, n), NEW i, NEW a, NEW u, Unlinks(u, t, n, i, a)
    PROVE  Table(u, n) /\ Chained(u) = Chained(t) \ {a}
<1>1. t \in [0..(n - 1) -> Seq(Node)] /\ i \in 0..(n - 1) /\ a \in Elems(t[i])
  BY DEF Table, Unlinks
<1>2. PICK c \in Seq(Node) : Distinct(c) /\ Elems(c) = Elems(t[i]) \ {a} /\ Relinked(u, t, i, c)
  BY DEF Unlinks
<1>3. \A e \in Elems(t[i]) : e \in Chained(t) /\ Index(e.key, n) = i
  <2>1. \A e \in Elems(t[i]) : e \in Chained(t)
    BY <1>1, ChainedIs
  <2> QED
    BY <1>1, <2>1 DEF Table, Elems
<1>4. Belongs(c, n, i)
  BY <1>2, <1>3 DEF Belongs
<1>5. /\ Table(u, n)
      /\ Chained(u) = (Chained(t) \ Elems(t[i])) \cup Elems(c)
  <2>1. i \in 0..(n - 1) /\ Distinct(c) /\ Relinked(u, t, i, c)
    BY <1>1, <1>2
  <2> QED
    BY <1>4, <2>1, TableUpdate
<1>6. (Chained(t) \ Elems(t[i])) \cup Elems(c) = Chained(t) \ {a}
  BY <1>1, <1>2, <1>3
<1> QED
  BY <1>5, <1>6

\* A node is exchanged for one with its key.
LEMMA TableExchange ==
    ASSUME NEW n \in Nat, NEW t, Table(t, n), NEW i \in 0..(n - 1), NEW a \in Elems(t[i]),
           NEW b \in Node, b.key = a.key,
           NEW c \in Seq(Node), Distinct(c), Elems(c) = (Elems(t[i]) \ {a}) \cup {b},
           NEW u, Relinked(u, t, i, c)
    PROVE  Table(u, n) /\ Chained(u) = (Chained(t) \ {a}) \cup {b}
<1>1. t \in [0..(n - 1) -> Seq(Node)]
  BY DEF Table
<1>2. \A e \in Elems(t[i]) : e \in Chained(t) /\ Index(e.key, n) = i
  <2>1. \A e \in Elems(t[i]) : e \in Chained(t)
    BY <1>1, ChainedIs
  <2> QED
    BY <2>1 DEF Table, Elems
<1>3. Belongs(c, n, i)
  BY <1>2 DEF Belongs
<1>4. /\ Table(u, n)
      /\ Chained(u) = (Chained(t) \ Elems(t[i])) \cup Elems(c)
  BY <1>3, TableUpdate
<1>5. (Chained(t) \ Elems(t[i])) \cup Elems(c) = (Chained(t) \ {a}) \cup {b}
  BY <1>2
<1> QED
  BY <1>4, <1>5

\* The table of hashmap_create, or of the rehashing.
LEMMA TableEmpty ==
    ASSUME NEW n \in Nat
    PROVE  Table(EmptyTable(n), n) /\ Chained(EmptyTable(n)) = {}
<1> DEFINE t == EmptyTable(n)
<1>1. t \in [0..(n - 1) -> Seq(Node)] /\ \A i \in 0..(n - 1) : t[i] = <<>>
  BY DEF EmptyTable
<1> HIDE DEF t
<1>2. \A i \in 0..(n - 1) : Elems(t[i]) = {} /\ 1..Len(t[i]) = {}
  BY <1>1 DEF Elems
<1>3. \A e : e \notin Chained(t)
  BY <1>1, <1>2, ChainedIs
<1> QED
  BY <1>1, <1>2, <1>3 DEF Table, Distinct, t

-----------------------------------------------------------------------------
(* The inductive invariant *)

NewCapacity == IF op.pc = "rehash" THEN 2 * capacity ELSE 0

\* Both arrays are searchable, each for its own capacity.
TablesInv == Table(buckets, capacity) /\ Table(newBuckets, NewCapacity)

\* A key is in one of the arrays only.
ApartInv == \A a \in Chained(buckets), b \in Chained(newBuckets) : a.key # b.key

\* The rows behind resize_if_needed are empty.
RowsInv == op.pc = "rehash" => \A i \in 0..(row - 1) : buckets[i] = <<>>

\* A call under way has a key and a value.
OpInv == op.pc \in {"rehash", "link"} => op.key \in Key /\ op.value \in Value

\* size counts the nodes.
SizeInv == IsFiniteSet(Nodes) /\ size = Cardinality(Nodes)

\* There is room for one more entry when a node is about to be linked.
LoadInv == IF op.pc = "link" THEN Fits ELSE 4 * size <= 3 * capacity

ChainsInv == TablesInv /\ ApartInv /\ RowsInv /\ OpInv

IInv == TypeOK /\ ChainsInv /\ SizeInv /\ LoadInv

\* Outside a rehashing there is no second array.
LEMMA NoNewNodes ==
    ASSUME TablesInv, op.pc # "rehash"
    PROVE  Chained(newBuckets) = {} /\ Nodes = Chained(buckets)
<1>1. Table(newBuckets, 0)
  BY DEF TablesInv, NewCapacity
<1>2. newBuckets \in [0..(0 - 1) -> Seq(Node)] /\ 0..(0 - 1) = {}
  BY <1>1 DEF Table
<1>3. \A e : e \notin Chained(newBuckets)
  BY <1>2, ChainedIs
<1> QED
  BY <1>3 DEF Nodes

\* The nodes of both arrays are a partial function.
LEMMA NodesOnePerKey ==
    ASSUME TypeOK, TablesInv, ApartInv
    PROVE  OnePerKey(Nodes) /\ Nodes \subseteq Node
<1>1. capacity \in Nat /\ NewCapacity \in Nat
  BY DEF TypeOK, NewCapacity
<1>2. OnePerKey(Chained(buckets)) /\ Chained(buckets) \subseteq Node
  BY <1>1, TableOnePerKey DEF TablesInv
<1>3. OnePerKey(Chained(newBuckets)) /\ Chained(newBuckets) \subseteq Node
  BY <1>1, TableOnePerKey DEF TablesInv
<1> QED
  BY <1>2, <1>3 DEF Nodes, OnePerKey, ApartInv

\* hashmap_put up to the rehashing.
LEMMA PutBeginsChains ==
    ASSUME TypeOK, ChainsInv, NEW k \in Key, NEW v \in Value, PutBegins(k, v)
    PROVE  ChainsInv' /\ Nodes' = Nodes
<1>1. op.pc = "idle" /\ buckets' = buckets /\ capacity' = capacity
  BY DEF PutBegins, tableVars
<1>2. Chained(newBuckets) = {} /\ Nodes = Chained(buckets)
  BY <1>1, NoNewNodes DEF ChainsInv
<1>3. CASE op' = [pc |-> "link", key |-> k, value |-> v] /\ UNCHANGED rehashVars
  <2>1. newBuckets' = newBuckets /\ op'.pc = "link" /\ op'.key = k /\ op'.value = v
    BY <1>3 DEF rehashVars
  <2>2. NewCapacity' = NewCapacity
    BY <1>1, <2>1 DEF NewCapacity
  <2> QED
    BY <1>1, <2>1, <2>2
       DEF ChainsInv, TablesInv, ApartInv, RowsInv, OpInv, Nodes
<1>4. CASE /\ op' = [pc |-> "rehash", key |-> k, value |-> v]
           /\ newBuckets' = EmptyTable(2 * capacity)
           /\ row' = 0
  <2>1. op'.pc = "rehash" /\ op'.key = k /\ op'.value = v
    BY <1>4
  <2>2. NewCapacity' = 2 * capacity /\ 2 * capacity \in Nat
    BY <1>1, <2>1 DEF NewCapacity, TypeOK
  <2>3. Table(newBuckets', NewCapacity') /\ Chained(newBuckets') = {}
    BY <1>4, <2>2, TableEmpty
  <2>4. 0..(row' - 1) = {}
    BY <1>4
  <2> QED
    BY <1>1, <1>2, <2>1, <2>3, <2>4
       DEF ChainsInv, TablesInv, ApartInv, RowsInv, OpInv, Nodes
<1>5. CASE UNCHANGED <<op, rehashVars>>
  BY <1>1, <1>5 DEF rehashVars, ChainsInv, TablesInv, ApartInv, RowsInv, OpInv, Nodes, NewCapacity
<1> QED
  BY <1>3, <1>4, <1>5 DEF PutBegins

\* A node is relinked: no node is lost or doubled.
LEMMA RehashNodeChains ==
    ASSUME TypeOK, ChainsInv, RehashNode
    PROVE  ChainsInv' /\ Nodes' = Nodes
<1> DEFINE s == buckets[row]
           x == Head(s)
           m == 2 * capacity
           i == Index(x.key, m)
<1>1. /\ op.pc = "rehash" /\ op' = op /\ capacity' = capacity /\ row' = row
      /\ row \in 0..(capacity - 1) /\ capacity \in Nat /\ m \in Nat \ {0}
  BY DEF RehashNode, TypeOK
<1>2. Table(buckets, capacity) /\ Table(newBuckets, m) /\ NewCapacity = m /\ NewCapacity' = m
  BY <1>1 DEF ChainsInv, TablesInv, NewCapacity
<1>3. s \in Seq(Node) /\ Distinct(s) /\ s # <<>>
  BY <1>1, <1>2 DEF RehashNode, Table
<1>4. Relinked(buckets', buckets, row, Tail(s))
  BY DEF RehashNode, Relinked
<1>5. Relinked(newBuckets', newBuckets, i, <<x>> \o newBuckets[i])
  BY DEF RehashNode, Relinked
<1>6. Tail(s) \in Seq(Node) /\ Distinct(Tail(s)) /\ Elems(Tail(s)) = Elems(s) \ {x} /\ x \in Elems(s)
  BY <1>3, ChainTail
<1>7. x \in Chained(buckets) /\ Chained(buckets) \subseteq Node /\ OnePerKey(Chained(buckets))
  BY <1>1, <1>2, <1>6, ChainedIs, TableOnePerKey DEF Table
<1>8. Unlinks(buckets', buckets, capacity, row, x)
  BY <1>1, <1>4, <1>6 DEF Unlinks
<1>9. Table(buckets', capacity) /\ Chained(buckets') = Chained(buckets) \ {x}
  <2> HIDE DEF s, x
  <2> QED
    BY <1>1, <1>2, <1>8, TableUnlink
<1>10. \A e \in Chained(newBuckets) : e.key # x.key
  BY <1>7 DEF ChainsInv, ApartInv
<1> HIDE DEF s, x, m
<1>11. Table(newBuckets', m) /\ Chained(newBuckets') = Chained(newBuckets) \cup {x}
  BY <1>1, <1>2, <1>5, <1>7, <1>10, TablePrepend
<1>12. Nodes' = Nodes
  BY <1>7, <1>9, <1>11 DEF Nodes
<1>13. ApartInv'
  BY <1>7, <1>9, <1>11 DEF ChainsInv, ApartInv, OnePerKey
<1>14. RowsInv'
  <2> SUFFICES ASSUME NEW j \in 0..(row - 1) PROVE buckets'[j] = <<>>
    BY <1>1 DEF RowsInv
  <2>1. buckets[j] = <<>>
    BY <1>1 DEF ChainsInv, RowsInv
  <2>2. j \in 0..(capacity - 1) /\ j # row
    BY <1>1
  <2> QED
    BY <1>2, <1>4, <2>1, <2>2 DEF Relinked, Table
<1> QED
  BY <1>1, <1>2, <1>9, <1>11, <1>12, <1>13, <1>14 DEF ChainsInv, TablesInv, OpInv

\* An old bucket that is empty is left behind.
LEMMA RehashNextRowChains ==
    ASSUME TypeOK, ChainsInv, RehashNextRow
    PROVE  ChainsInv' /\ Nodes' = Nodes
<1>1. /\ op' = op /\ capacity' = capacity /\ buckets' = buckets /\ newBuckets' = newBuckets
      /\ row' = row + 1 /\ row \in Nat /\ buckets[row] = <<>> /\ op.pc = "rehash"
  BY DEF RehashNextRow, tableVars, TypeOK
<1>2. RowsInv'
  BY <1>1 DEF RowsInv, ChainsInv
<1> QED
  BY <1>1, <1>2 DEF ChainsInv, TablesInv, ApartInv, OpInv, Nodes, NewCapacity

\* The new array replaces the old one, which is empty by then.
LEMMA RehashEndsChains ==
    ASSUME TypeOK, ChainsInv, RehashEnds
    PROVE  ChainsInv' /\ Nodes' = Nodes
<1>1. /\ op.pc = "rehash" /\ row = capacity /\ buckets' = newBuckets /\ capacity' = 2 * capacity
      /\ newBuckets' = EmptyTable(0) /\ op' = [op EXCEPT !.pc = "link"] /\ capacity \in Nat
  BY DEF RehashEnds, TypeOK
<1>2. op'.pc = "link" /\ op'.key = op.key /\ op'.value = op.value
  BY <1>1 DEF TypeOK
<1>3. \A e : e \notin Chained(buckets)
  <2>1. buckets \in [0..(capacity - 1) -> Seq(Node)]
    BY DEF TypeOK
  <2>2. \A i \in 0..(capacity - 1) : buckets[i] = <<>>
    BY <1>1 DEF ChainsInv, RowsInv
  <2>3. \A i \in 0..(capacity - 1) : Elems(buckets[i]) = {}
    BY <2>2 DEF Elems
  <2> QED
    BY <1>1, <2>1, <2>3, ChainedIs
<1>4. NewCapacity = 2 * capacity /\ NewCapacity' = 0
  BY <1>1, <1>2 DEF NewCapacity
<1>5. Table(newBuckets', 0) /\ Chained(newBuckets') = {}
  BY <1>1, TableEmpty
<1>6. TablesInv'
  BY <1>1, <1>4, <1>5 DEF TablesInv, ChainsInv
<1>7. Nodes' = Nodes
  BY <1>1, <1>3, <1>5 DEF Nodes
<1> QED
  BY <1>1, <1>2, <1>5, <1>6, <1>7 DEF ChainsInv, ApartInv, RowsInv, OpInv

\* The value of a key is replaced.
LEMMA PutReplacesChains ==
    ASSUME TypeOK, ChainsInv, PutReplaces
    PROVE  /\ ChainsInv'
           /\ \E a \in Nodes :
                /\ a.key = op.key
                /\ Nodes' = (Nodes \ {a}) \cup {[key |-> op.key, value |-> op.value]}
                /\ freed' = freed \cup {a.value}
<1> DEFINE i == Index(op.key, capacity)
           s == buckets[i]
           m == Matches(s, op.key)
           p == First(m)
           b == [key |-> op.key, value |-> op.value]
           c == [s EXCEPT ![p].value = op.value]
           a == s[p]
<1>1. /\ op.pc = "link" /\ op.key \in Key /\ op.value \in Value /\ op' = Idle
      /\ capacity' = capacity /\ capacity \in Nat \ {0} /\ newBuckets' = newBuckets /\ m # {}
  BY DEF PutReplaces, TypeOK, ChainsInv, OpInv, rehashVars
<1>2. op'.pc = "idle"
  BY <1>1 DEF Idle
<1>3. Table(buckets, capacity) /\ i \in 0..(capacity - 1)
  BY <1>1, IndexRange DEF ChainsInv, TablesInv
<1>4. s \in Seq(Node) /\ Distinct(s)
  BY <1>3 DEF Table
<1>5. p \in 1..Len(s) /\ a.key = op.key /\ a \in Chained(buckets)
  BY <1>1, <1>3, Search
<1>6. a \in Elems(s) /\ b \in Node /\ b.key = a.key
  BY <1>1, <1>5 DEF Elems, Node
<1>7. c \in Seq(Node) /\ Distinct(c) /\ Elems(c) = (Elems(s) \ {a}) \cup {b}
  <2>1. b = [key |-> s[p].key, value |-> op.value]
    BY <1>5
  <2>2. Revalued(c, s, p, op.value)
    BY DEF Revalued
  <2> HIDE DEF s, p, c
  <2>3. /\ c \in Seq(Node) /\ Distinct(c)
        /\ Elems(c) = (Elems(s) \ {s[p]}) \cup {[key |-> s[p].key, value |-> op.value]}
    BY <1>1, <1>4, <1>5, <2>2, ChainReplace
  <2> QED
    BY <2>1, <2>3
<1>8. Relinked(buckets', buckets, i, c)
  BY DEF PutReplaces, Relinked
<1>9. freed' = freed \cup {a.value}
  BY DEF PutReplaces
<1>10. Table(buckets', capacity) /\ Chained(buckets') = (Chained(buckets) \ {a}) \cup {b}
  <2>1. a \in Elems(buckets[i]) /\ Elems(c) = (Elems(buckets[i]) \ {a}) \cup {b}
    BY <1>6, <1>7
  <2> HIDE DEF i, s, m, p, a, b, c
  <2> QED
    BY <1>1, <1>3, <1>6, <1>7, <1>8, <2>1, TableExchange
<1>11. NewCapacity' = NewCapacity
  BY <1>1, <1>2 DEF NewCapacity
<1>12. Chained(newBuckets) = {} /\ Nodes = Chained(buckets)
  BY <1>1, NoNewNodes DEF ChainsInv
<1>13. Nodes' = (Nodes \ {a}) \cup {b}
  BY <1>1, <1>10, <1>12 DEF Nodes
<1>14. ChainsInv'
  BY <1>1, <1>2, <1>10, <1>11, <1>12 DEF ChainsInv, TablesInv, ApartInv, RowsInv, OpInv
<1> QED
  BY <1>5, <1>9, <1>12, <1>13, <1>14

\* A node is added.
LEMMA PutAddsChains ==
    ASSUME TypeOK, ChainsInv, PutAdds
    PROVE  /\ ChainsInv'
           /\ \A e \in Nodes : e.key # op.key
           /\ Nodes' = Nodes \cup {[key |-> op.key, value |-> op.value]}
<1> DEFINE i == Index(op.key, capacity)
           s == buckets[i]
           b == [key |-> op.key, value |-> op.value]
<1>1. /\ op.pc = "link" /\ op.key \in Key /\ op.value \in Value /\ op' = Idle
      /\ capacity' = capacity /\ capacity \in Nat \ {0} /\ newBuckets' = newBuckets
      /\ Matches(s, op.key) = {}
  BY DEF PutAdds, TypeOK, ChainsInv, OpInv, rehashVars
<1>2. op'.pc = "idle"
  BY <1>1 DEF Idle
<1>3. Table(buckets, capacity)
  BY DEF ChainsInv, TablesInv
<1>4. b \in Node /\ b.key = op.key
  BY <1>1 DEF Node
<1>5. \A e \in Chained(buckets) : e.key # b.key
  BY <1>1, <1>3, <1>4, Search
<1>6. Relinked(buckets', buckets, Index(b.key, capacity), <<b>> \o buckets[Index(b.key, capacity)])
  BY <1>4 DEF PutAdds, Relinked
<1> HIDE DEF b
<1>7. Table(buckets', capacity) /\ Chained(buckets') = Chained(buckets) \cup {b}
  BY <1>1, <1>3, <1>4, <1>5, <1>6, TablePrepend
<1>8. NewCapacity' = NewCapacity
  BY <1>1, <1>2 DEF NewCapacity
<1>9. Chained(newBuckets) = {} /\ Nodes = Chained(buckets)
  BY <1>1, NoNewNodes DEF ChainsInv
<1>10. Nodes' = Nodes \cup {b}
  BY <1>1, <1>7, <1>9 DEF Nodes
<1>11. ChainsInv'
  BY <1>1, <1>2, <1>7, <1>8, <1>9 DEF ChainsInv, TablesInv, ApartInv, RowsInv, OpInv
<1> QED
  BY <1>4, <1>5, <1>9, <1>10, <1>11 DEF b

\* A put that finds no memory leaves the chains as they are.
LEMMA PutFailsChains ==
    ASSUME TypeOK, ChainsInv, PutFails
    PROVE  ChainsInv' /\ Nodes' = Nodes
<1>1. /\ op.pc = "link" /\ op' = Idle /\ capacity' = capacity
      /\ buckets' = buckets /\ newBuckets' = newBuckets
  BY DEF PutFails, rehashVars, tableVars
<1>2. op'.pc = "idle"
  BY <1>1 DEF Idle
<1>3. NewCapacity' = NewCapacity
  BY <1>1, <1>2 DEF NewCapacity
<1> QED
  BY <1>1, <1>2, <1>3 DEF ChainsInv, TablesInv, ApartInv, RowsInv, OpInv, Nodes

\* The node of a key is unlinked.
LEMMA RemoveChains ==
    ASSUME TypeOK, ChainsInv, NEW k \in Key, hashmap_remove(k)
    PROVE  /\ ChainsInv'
           /\ \E a \in Nodes :
                /\ a.key = k
                /\ Nodes' = Nodes \ {a}
                /\ freed' = freed \cup {a.value}
<1> DEFINE i == Index(k, capacity)
           s == buckets[i]
           m == Matches(s, k)
           p == First(m)
           c == SubSeq(s, 1, p - 1) \o SubSeq(s, p + 1, Len(s))
           a == s[p]
<1>1. /\ op.pc = "idle" /\ op' = op
      /\ capacity' = capacity /\ capacity \in Nat \ {0} /\ newBuckets' = newBuckets /\ m # {}
  BY DEF hashmap_remove, TypeOK, rehashVars
<1>2. Table(buckets, capacity) /\ i \in 0..(capacity - 1)
  BY <1>1, IndexRange DEF ChainsInv, TablesInv
<1>3. s \in Seq(Node) /\ Distinct(s)
  BY <1>2 DEF Table
<1>4. p \in 1..Len(s) /\ a.key = k /\ a \in Chained(buckets)
  BY <1>1, <1>2, Search
<1>5. a \in Elems(s)
  BY <1>4 DEF Elems
<1>6. c \in Seq(Node) /\ Distinct(c) /\ Elems(c) = Elems(s) \ {a}
  <2> HIDE DEF s, p
  <2> QED
    BY <1>3, <1>4, ChainRemove
<1>7. Relinked(buckets', buckets, i, c)
  BY DEF hashmap_remove, Relinked
<1>8. freed' = freed \cup {a.value}
  BY DEF hashmap_remove
<1>9. Table(buckets', capacity) /\ Chained(buckets') = Chained(buckets) \ {a}
  <2>1. Unlinks(buckets', buckets, capacity, i, a)
    BY <1>2, <1>5, <1>6, <1>7 DEF Unlinks
  <2> HIDE DEF i, s, m, p, a, c
  <2> QED
    BY <1>1, <1>2, <2>1, TableUnlink
<1>10. NewCapacity' = NewCapacity
  BY <1>1 DEF NewCapacity
<1>11. Chained(newBuckets) = {} /\ Nodes = Chained(buckets)
  BY <1>1, NoNewNodes DEF ChainsInv
<1>12. Nodes' = Nodes \ {a}
  BY <1>1, <1>9, <1>11 DEF Nodes
<1>13. ChainsInv'
  BY <1>1, <1>9, <1>10, <1>11 DEF ChainsInv, TablesInv, ApartInv, RowsInv, OpInv
<1> QED
  BY <1>4, <1>8, <1>11, <1>12, <1>13

\* hashmap_destroy frees the value of every node.
LEMMA DestroyChains ==
    ASSUME TypeOK, ChainsInv, hashmap_destroy
    PROVE  /\ ChainsInv'
           /\ Nodes' = {}
           /\ freed' = freed \cup {n.value : n \in Nodes}
<1>1. /\ op.pc = "idle" /\ op' = [op EXCEPT !.pc = "destroyed"] /\ buckets' = EmptyTable(capacity)
      /\ capacity' = capacity /\ capacity \in Nat /\ newBuckets' = newBuckets
  BY DEF hashmap_destroy, TypeOK, rehashVars
<1>2. op'.pc = "destroyed"
  BY <1>1 DEF TypeOK
<1>3. Table(buckets', capacity) /\ Chained(buckets') = {}
  BY <1>1, TableEmpty
<1>4. NewCapacity' = NewCapacity
  BY <1>1, <1>2 DEF NewCapacity
<1>5. Chained(newBuckets) = {} /\ Nodes = Chained(buckets)
  BY <1>1, NoNewNodes DEF ChainsInv
<1>6. freed' = freed \cup {n.value : n \in Nodes}
  BY <1>5 DEF hashmap_destroy
<1> QED
  BY <1>1, <1>2, <1>3, <1>4, <1>5, <1>6
     DEF ChainsInv, TablesInv, ApartInv, RowsInv, OpInv, Nodes

-----------------------------------------------------------------------------
(* The invariant holds *)

\* A new map is empty.
LEMMA InitIInv == Init => IInv
<1> SUFFICES ASSUME Init PROVE IInv
  OBVIOUS
<1>1. /\ capacity = InitialCapacity /\ InitialCapacity \in Nat \ {0} /\ size = 0 /\ row = 0
      /\ buckets = EmptyTable(capacity) /\ newBuckets = EmptyTable(0)
      /\ op.pc = "idle" /\ op.key = NULL /\ op.value = NULL /\ op = Idle
      /\ freed = {} /\ stored = {}
  BY HashMapAssumption DEF Init, Idle
<1>2. NewCapacity = 0
  BY <1>1 DEF NewCapacity
<1>3. Table(buckets, capacity) /\ Chained(buckets) = {}
  BY <1>1, TableEmpty
<1>4. Table(newBuckets, 0) /\ Chained(newBuckets) = {}
  BY <1>1, TableEmpty
<1>5. ChainsInv
  BY <1>1, <1>2, <1>3, <1>4 DEF ChainsInv, TablesInv, ApartInv, RowsInv, OpInv
<1>6. SizeInv
  BY <1>1, <1>3, <1>4, FS_EmptySet DEF SizeInv, Nodes
<1>7. LoadInv
  BY <1>1 DEF LoadInv
<1>8. TypeOK
  BY <1>1, <1>3, <1>4 DEF TypeOK, Table, Idle
<1> QED
  BY <1>5, <1>6, <1>7, <1>8 DEF IInv

\* What the operations do to the set of nodes.
LEMMA NextChains ==
    ASSUME TypeOK, ChainsInv, Next
    PROVE  ChainsInv'
<1>1. ASSUME NEW k \in Key, NEW v \in Value, PutBegins(k, v) PROVE ChainsInv'
  BY <1>1, PutBeginsChains
<1>2. CASE RehashNode
  BY <1>2, RehashNodeChains
<1>3. CASE RehashNextRow
  BY <1>3, RehashNextRowChains
<1>4. CASE RehashEnds
  BY <1>4, RehashEndsChains
<1>5. CASE PutReplaces
  BY <1>5, PutReplacesChains
<1>6. CASE PutAdds
  BY <1>6, PutAddsChains
<1>7. CASE PutFails
  BY <1>7, PutFailsChains
<1>8. ASSUME NEW k \in Key, hashmap_remove(k) PROVE ChainsInv'
  BY <1>8, RemoveChains
<1>9. CASE hashmap_destroy
  BY <1>9, DestroyChains
<1> QED
  BY <1>1, <1>2, <1>3, <1>4, <1>5, <1>6, <1>7, <1>8, <1>9 DEF Next, hashmap_put

\* size is changed with the nodes.
LEMMA NextSize ==
    ASSUME TypeOK, ChainsInv, SizeInv, Next
    PROVE  SizeInv'
<1>1. OnePerKey(Nodes) /\ IsFiniteSet(Nodes) /\ size = Cardinality(Nodes) /\ size \in Nat
  BY NodesOnePerKey DEF SizeInv, ChainsInv, TypeOK
<1>2. ASSUME NEW k \in Key, NEW v \in Value, PutBegins(k, v) PROVE SizeInv'
  BY <1>2, PutBeginsChains DEF PutBegins, tableVars, SizeInv
<1>3. CASE RehashNode
  BY <1>3, RehashNodeChains DEF RehashNode, SizeInv
<1>4. CASE RehashNextRow
  BY <1>4, RehashNextRowChains DEF RehashNextRow, tableVars, SizeInv
<1>5. CASE RehashEnds
  BY <1>5, RehashEndsChains DEF RehashEnds, SizeInv
<1>6. CASE PutReplaces
  <2> DEFINE b == [key |-> op.key, value |-> op.value]
  <2>1. size' = size /\ b.key = op.key
    BY <1>6 DEF PutReplaces
  <2>2. PICK a \in Nodes : a.key = op.key /\ Nodes' = (Nodes \ {a}) \cup {b}
    BY <1>6, PutReplacesChains
  <2> HIDE DEF b
  <2>3. b \notin Nodes \ {a}
    BY <1>1, <2>1, <2>2 DEF OnePerKey
  <2>4. IsFiniteSet(Nodes \ {a}) /\ Cardinality(Nodes \ {a}) = size - 1
    BY <1>1, FS_RemoveElement
  <2>5. IsFiniteSet(Nodes') /\ Cardinality(Nodes') = size - 1 + 1
    BY <2>2, <2>3, <2>4, FS_AddElement
  <2> QED
    BY <1>1, <2>1, <2>5 DEF SizeInv
<1>7. CASE PutAdds
  <2> DEFINE b == [key |-> op.key, value |-> op.value]
  <2>1. size' = size + 1 /\ b.key = op.key
    BY <1>7 DEF PutAdds
  <2>2. (\A e \in Nodes : e.key # op.key) /\ Nodes' = Nodes \cup {b}
    BY <1>7, PutAddsChains
  <2> HIDE DEF b
  <2>3. b \notin Nodes
    BY <2>1, <2>2
  <2>4. IsFiniteSet(Nodes') /\ Cardinality(Nodes') = size + 1
    BY <1>1, <2>2, <2>3, FS_AddElement
  <2> QED
    BY <2>1, <2>4 DEF SizeInv
<1>8. CASE PutFails
  BY <1>8, PutFailsChains DEF PutFails, tableVars, SizeInv
<1>9. ASSUME NEW k \in Key, hashmap_remove(k) PROVE SizeInv'
  <2>1. size' = size - 1
    BY <1>9 DEF hashmap_remove
  <2>2. PICK a \in Nodes : Nodes' = Nodes \ {a}
    BY <1>9, RemoveChains
  <2>3. IsFiniteSet(Nodes') /\ Cardinality(Nodes') = size - 1
    BY <1>1, <2>2, FS_RemoveElement
  <2> QED
    BY <2>1, <2>3 DEF SizeInv
<1>10. CASE hashmap_destroy
  BY <1>10, DestroyChains, FS_EmptySet DEF hashmap_destroy, SizeInv
<1> QED
  BY <1>2, <1>3, <1>4, <1>5, <1>6, <1>7, <1>8, <1>9, <1>10 DEF Next, hashmap_put

\* The values that are freed were stored in nodes.
LEMMA NextFreed ==
    ASSUME TypeOK, ChainsInv, Next
    PROVE  freed' \subseteq Value
<1>1. Nodes \subseteq Node /\ \A n \in Node : n.value \in Value
  BY NodesOnePerKey DEF ChainsInv, Node
<1>2. freed \subseteq Value
  BY DEF TypeOK
<1>3. CASE PutReplaces
  BY <1>1, <1>2, <1>3, PutReplacesChains
<1>4. ASSUME NEW k \in Key, hashmap_remove(k) PROVE freed' \subseteq Value
  BY <1>1, <1>2, <1>4, RemoveChains
<1>5. CASE hashmap_destroy
  BY <1>1, <1>2, <1>5, DestroyChains
<1>6. CASE hashmap_put /\ ~PutReplaces
  BY <1>2, <1>6 DEF hashmap_put, PutBegins, RehashNode, RehashNextRow, RehashEnds, PutAdds, PutFails
<1> QED
  BY <1>3, <1>4, <1>5, <1>6 DEF Next

\* A step keeps the types.
LEMMA NextType ==
    ASSUME TypeOK, ChainsInv, ChainsInv', SizeInv', Next
    PROVE  TypeOK'
<1>1. size' \in Nat
  BY FS_CardinalityType DEF SizeInv
<1>2. freed' \subseteq Value
  BY NextFreed
<1>3. /\ capacity' \in Nat \ {0} /\ row' \in 0..capacity'
      /\ op' \in [pc : {"idle", "rehash", "link", "destroyed"},
                  key : Key \cup {NULL}, value : Value \cup {NULL}]
      /\ stored' \subseteq Value
  <2>1. /\ capacity \in Nat \ {0} /\ row \in 0..capacity /\ stored \subseteq Value
        /\ op \in [pc : {"idle", "rehash", "link", "destroyed"},
                   key : Key \cup {NULL}, value : Value \cup {NULL}]
    BY DEF TypeOK
  <2>2. ASSUME NEW k \in Key, NEW v \in Value, PutBegins(k, v) PROVE <1>3!:
    BY <2>1, <2>2 DEF PutBegins, rehashVars, tableVars
  <2>3. CASE RehashNode
    BY <2>1, <2>3 DEF RehashNode
  <2>4. CASE RehashNextRow
    BY <2>1, <2>4 DEF RehashNextRow, tableVars
  <2>5. CASE RehashEnds
    BY <2>1, <2>5 DEF RehashEnds
  <2>6. CASE PutReplaces
    BY <2>1, <2>6 DEF PutReplaces, rehashVars, Idle, ChainsInv, OpInv
  <2>7. CASE PutAdds
    BY <2>1, <2>7 DEF PutAdds, rehashVars, Idle, ChainsInv, OpInv
  <2>8. CASE PutFails
    BY <2>1, <2>8 DEF PutFails, rehashVars, tableVars, Idle
  <2>9. ASSUME NEW k \in Key, hashmap_remove(k) PROVE <1>3!:
    BY <2>1, <2>9 DEF hashmap_remove, rehashVars
  <2>10. CASE hashmap_destroy
    BY <2>1, <2>10 DEF hashmap_destroy, rehashVars
  <2> QED
    BY <2>2, <2>3, <2>4, <2>5, <2>6, <2>7, <2>8, <2>9, <2>10 DEF Next, hashmap_put
<1>4. /\ buckets' \in [0..(capacity' - 1) -> Seq(Node)]
      /\ newBuckets' \in [0..(NewCapacity' - 1) -> Seq(Node)]
  BY DEF ChainsInv, TablesInv, Table
<1> QED
  BY <1>1, <1>2, <1>3, <1>4 DEF TypeOK, NewCapacity

\* One doubling makes room for one more entry.
LEMMA NextLoad ==
    ASSUME TypeOK, ChainsInv, SizeInv, LoadInv, SizeInv', Next
    PROVE  LoadInv'
<1>1. size \in Nat /\ size' \in Nat /\ capacity \in Nat \ {0}
  BY FS_CardinalityType DEF SizeInv, TypeOK
<1>2. ASSUME NEW k \in Key, NEW v \in Value, PutBegins(k, v) PROVE LoadInv'
  BY <1>2 DEF PutBegins, tableVars, LoadInv, Fits
<1>3. CASE RehashNode
  BY <1>3 DEF RehashNode, LoadInv, Fits
<1>4. CASE RehashNextRow
  BY <1>4 DEF RehashNextRow, tableVars, LoadInv, Fits
<1>5. CASE RehashEnds
  <2>1. size' = size /\ capacity' = 2 * capacity /\ op'.pc = "link" /\ op.pc = "rehash"
    BY <1>5 DEF RehashEnds, TypeOK
  <2>2. 4 * size <= 3 * capacity
    BY <2>1 DEF LoadInv
  <2>3. 4 * (size + 1) <= 3 * (2 * capacity)
    BY <1>1, <2>2
  <2> QED
    BY <2>1, <2>3 DEF LoadInv, Fits
<1>6. CASE PutReplaces
  <2>1. size' = size /\ capacity' = capacity /\ op'.pc = "idle" /\ op.pc = "link"
    BY <1>6 DEF PutReplaces, Idle
  <2> QED
    BY <1>1, <2>1 DEF LoadInv, Fits
<1>7. CASE PutAdds
  <2>1. size' = size + 1 /\ capacity' = capacity /\ op'.pc = "idle" /\ op.pc = "link"
    BY <1>7 DEF PutAdds, Idle
  <2> QED
    BY <1>1, <2>1 DEF LoadInv, Fits
<1>8. CASE PutFails
  <2>1. size' = size /\ capacity' = capacity /\ op'.pc = "idle" /\ op.pc = "link"
    BY <1>8 DEF PutFails, tableVars, Idle
  <2> QED
    BY <1>1, <2>1 DEF LoadInv, Fits
<1>9. ASSUME NEW k \in Key, hashmap_remove(k) PROVE LoadInv'
  <2>1. size' = size - 1 /\ capacity' = capacity /\ op' = op /\ op.pc = "idle"
    BY <1>9 DEF hashmap_remove
  <2> QED
    BY <1>1, <2>1 DEF LoadInv
<1>10. CASE hashmap_destroy
  <2>1. size' = 0 /\ capacity' = capacity /\ op'.pc = "destroyed"
    BY <1>10 DEF hashmap_destroy, TypeOK
  <2> QED
    BY <1>1, <2>1 DEF LoadInv
<1> QED
  BY <1>2, <1>3, <1>4, <1>5, <1>6, <1>7, <1>8, <1>9, <1>10 DEF Next, hashmap_put

\* Every step of the map keeps the invariant.
LEMMA NextIInv == IInv /\ [Next]_vars => IInv'
<1> SUFFICES ASSUME IInv, [Next]_vars PROVE IInv'
  OBVIOUS
<1>1. CASE Next
  <2>1. ChainsInv'
    BY <1>1, NextChains DEF IInv
  <2>2. SizeInv'
    BY <1>1, NextSize DEF IInv
  <2>3. TypeOK'
    BY <1>1, <2>1, <2>2, NextType DEF IInv
  <2>4. LoadInv'
    BY <1>1, <2>2, NextLoad DEF IInv
  <2> QED
    BY <2>1, <2>2, <2>3, <2>4 DEF IInv
<1>2. CASE UNCHANGED vars
  BY <1>2 DEF vars, tableVars, rehashVars, IInv, TypeOK, ChainsInv, TablesInv, NewCapacity,
              ApartInv, RowsInv, OpInv, SizeInv, Nodes, LoadInv, Fits
<1> QED
  BY <1>1, <1>2

\* The invariant holds in every reachable state.
LEMMA IInvHolds == Spec => []IInv
<1>1. Init => IInv
  BY InitIInv
<1>2. IInv /\ [Next]_vars => IInv'
  BY NextIInv
<1> QED
  BY <1>1, <1>2, PTL DEF Spec

\* Type correctness: hashmap_remove and the growing array keep size and the
\* chains within their types, however often memory runs out.
THEOREM TypeCorrect == Spec => []TypeOK
<1>1. IInv => TypeOK
  BY DEF IInv
<1> QED
  BY <1>1, IInvHolds, PTL

\* Between two operations 4 * size <= 3 * capacity: the single doubling of
\* resize_if_needed is enough at every size, for every initial capacity.
THEOREM LoadBoundedHolds == Spec => []LoadBounded
<1>1. IInv => LoadBounded
  BY DEF IInv, LoadInv, LoadBounded
<1> QED
  BY <1>1, IInvHolds, PTL

-----------------------------------------------------------------------------
(* The chains implement a map *)

\* What a set of nodes stores for a key.
Lookup(N, k) == IF \E n \in N : n.key = k
                THEN (CHOOSE n \in N : n.key = k).value
                ELSE NULL

\* With one node per key, a node gives the value of its key.
LEMMA LookupFound ==
    ASSUME NEW N, OnePerKey(N), NEW a \in N, NEW k, a.key = k
    PROVE  Lookup(N, k) = a.value
<1>1. (CHOOSE n \in N : n.key = k) \in N /\ (CHOOSE n \in N : n.key = k).key = k
  OBVIOUS
<1>2. (CHOOSE n \in N : n.key = k) = a
  BY <1>1 DEF OnePerKey
<1> QED
  BY <1>2 DEF Lookup

\* Without a node of the key there is no value.
LEMMA LookupMissing ==
    ASSUME NEW N, NEW k, \A n \in N : n.key # k
    PROVE  Lookup(N, k) = NULL
BY DEF Lookup

\* Two sets that agree on the nodes of a key store the same for it.
LEMMA LookupSame ==
    ASSUME NEW N, OnePerKey(N), NEW M, OnePerKey(M), NEW k,
           \A n : n.key = k => (n \in N <=> n \in M)
    PROVE  Lookup(N, k) = Lookup(M, k)
<1>1. CASE \A n \in N : n.key # k
  <2>1. \A n \in M : n.key # k
    BY <1>1
  <2> QED
    BY <1>1, <2>1, LookupMissing
<1>2. ASSUME NEW n \in N, n.key = k PROVE Lookup(N, k) = Lookup(M, k)
  <2>1. n \in M
    BY <1>2
  <2> QED
    BY <1>2, <2>1, LookupFound
<1> QED
  BY <1>1, <1>2

\* hashmap_get finds what is stored in the bucket of the current capacity.
LEMMA GetIsLookup ==
    ASSUME IInv, op.pc = "idle", NEW k \in Key
    PROVE  hashmap_get(k) = Held(k)
<1> DEFINE c == buckets[Index(k, capacity)]
           m == Matches(c, k)
<1>1. Table(buckets, capacity) /\ capacity \in Nat \ {0} /\ Nodes = Chained(buckets)
  BY NoNewNodes DEF IInv, ChainsInv, TablesInv, TypeOK
<1>2. OnePerKey(Nodes)
  BY NodesOnePerKey DEF IInv, ChainsInv
<1>3. Held(k) = Lookup(Nodes, k)
  BY DEF Held, Lookup
<1>4. CASE m = {}
  <2>1. \A e \in Nodes : e.key # k
    BY <1>1, <1>4, Search
  <2>2. Lookup(Nodes, k) = NULL
    BY <2>1, LookupMissing
  <2> QED
    BY <1>3, <1>4, <2>2 DEF hashmap_get
<1>5. CASE m # {}
  <2>1. c[First(m)].key = k /\ c[First(m)] \in Nodes
    BY <1>1, <1>5, Search
  <2>2. Lookup(Nodes, k) = c[First(m)].value
    <3> HIDE DEF c, m
    <3> QED
      BY <1>2, <2>1, LookupFound
  <2> QED
    BY <1>3, <1>5, <2>2 DEF hashmap_get
<1> QED
  BY <1>4, <1>5

\* hashmap_get returns what hashmap_put stored last, whatever collides and
\* however often the array has grown since.
THEOREM GetFindsStoredHolds == Spec => []GetFindsStored
<1>1. IInv => GetFindsStored
  BY GetIsLookup DEF GetFindsStored
<1> QED
  BY <1>1, IInvHolds, PTL

\* The map before and after a step.
mapOf == [k \in Key |-> Held(k)]

\* The abstract map, from the nodes alone, now and after the step.
LEMMA MapIs ==
    /\ mapOf = [k \in Key |-> Lookup(Nodes, k)]
    /\ mapOf' = [k \in Key |-> Lookup(Nodes', k)]
BY DEF mapOf, Held, Lookup

\* A step that leaves the nodes alone is no step of the map.
LEMMA StepStutters ==
    ASSUME Nodes' = Nodes, freed' = freed
    PROVE  UNCHANGED <<mapOf, freed>>
BY MapIs

\* hashmap_put on a key that is there is one put of the map.
LEMMA PutReplacesMaps ==
    ASSUME IInv, IInv', PutReplaces
    PROVE  Map!Put(op.key, op.value)
<1> DEFINE b == [key |-> op.key, value |-> op.value]
<1>1. PICK a \in Nodes : /\ a.key = op.key
                         /\ Nodes' = (Nodes \ {a}) \cup {b}
                         /\ freed' = freed \cup {a.value}
  BY PutReplacesChains DEF IInv
<1>2. OnePerKey(Nodes) /\ Nodes \subseteq Node
  BY NodesOnePerKey DEF IInv, ChainsInv
<1>3. op.key \in Key /\ op.value \in Value /\ b.key = op.key /\ b.value = op.value
  BY DEF IInv, ChainsInv, OpInv, PutReplaces
<1> HIDE DEF b
<1>u. OnePerKey(Nodes')
  BY <1>1, <1>2, <1>3 DEF OnePerKey
<1>4. Lookup(Nodes, op.key) = a.value /\ a.value # NULL
  BY <1>1, <1>2, LookupFound, HashMapAssumption DEF Node
<1>5. Lookup(Nodes', op.key) = op.value
  <2>1. b \in Nodes'
    BY <1>1
  <2> QED
    BY <1>3, <1>u, <2>1, LookupFound
<1>6. \A k \in Key : k # op.key => Lookup(Nodes', k) = Lookup(Nodes, k)
  <2> SUFFICES ASSUME NEW k \in Key, k # op.key PROVE Lookup(Nodes', k) = Lookup(Nodes, k)
    OBVIOUS
  <2>1. \A n : n.key = k => (n \in Nodes' <=> n \in Nodes)
    BY <1>1, <1>3
  <2> QED
    BY <1>2, <1>u, <2>1, LookupSame
<1>7. mapOf' = [mapOf EXCEPT ![op.key] = op.value]
  BY <1>3, <1>5, <1>6, MapIs
<1>8. mapOf[op.key] = a.value
  BY <1>3, <1>4, MapIs
<1>9. freed' = freed \cup ({mapOf[op.key]} \ {NULL})
  BY <1>1, <1>4, <1>8
<1> QED
  BY <1>7, <1>9 DEF mapOf, Map!Put, Map!Frees

\* hashmap_put on a new key is one put of the map.
LEMMA PutAddsMaps ==
    ASSUME IInv, IInv', PutAdds
    PROVE  Map!Put(op.key, op.value)
<1> DEFINE b == [key |-> op.key, value |-> op.value]
<1>1. (\A e \in Nodes : e.key # op.key) /\ Nodes' = Nodes \cup {b}
  BY PutAddsChains DEF IInv
<1>2. OnePerKey(Nodes)
  BY NodesOnePerKey DEF IInv, ChainsInv
<1>3. /\ op.key \in Key /\ op.value \in Value /\ b.key = op.key /\ b.value = op.value
      /\ freed' = freed
  BY DEF IInv, ChainsInv, OpInv, PutAdds
<1> HIDE DEF b
<1>u. OnePerKey(Nodes')
  BY <1>1, <1>2, <1>3 DEF OnePerKey
<1>4. Lookup(Nodes, op.key) = NULL
  BY <1>1, LookupMissing
<1>5. Lookup(Nodes', op.key) = op.value
  <2>1. b \in Nodes'
    BY <1>1
  <2> QED
    BY <1>3, <1>u, <2>1, LookupFound
<1>6. \A k \in Key : k # op.key => Lookup(Nodes', k) = Lookup(Nodes, k)
  <2> SUFFICES ASSUME NEW k \in Key, k # op.key PROVE Lookup(Nodes', k) = Lookup(Nodes, k)
    OBVIOUS
  <2>1. \A n : n.key = k => (n \in Nodes' <=> n \in Nodes)
    BY <1>1, <1>3
  <2> QED
    BY <1>2, <1>u, <2>1, LookupSame
<1>7. mapOf' = [mapOf EXCEPT ![op.key] = op.value]
  BY <1>3, <1>5, <1>6, MapIs
<1>8. freed' = freed \cup ({mapOf[op.key]} \ {NULL})
  BY <1>3, <1>4, MapIs
<1> QED
  BY <1>7, <1>8 DEF mapOf, Map!Put, Map!Frees

\* hashmap_remove is one removal of the map.
LEMMA RemoveMaps ==
    ASSUME IInv, IInv', NEW k \in Key, hashmap_remove(k)
    PROVE  Map!Remove(k)
<1>1. PICK a \in Nodes : /\ a.key = k
                         /\ Nodes' = Nodes \ {a}
                         /\ freed' = freed \cup {a.value}
  BY RemoveChains DEF IInv
<1>2. OnePerKey(Nodes) /\ Nodes \subseteq Node
  BY NodesOnePerKey DEF IInv, ChainsInv
<1>3. Lookup(Nodes, k) = a.value /\ a.value # NULL
  BY <1>1, <1>2, LookupFound, HashMapAssumption DEF Node
<1>u. OnePerKey(Nodes')
  BY <1>1, <1>2 DEF OnePerKey
<1>4. Lookup(Nodes', k) = NULL
  <2>1. \A n \in Nodes' : n.key # k
    BY <1>1, <1>2 DEF OnePerKey
  <2> QED
    BY <2>1, LookupMissing
<1>5. \A q \in Key : q # k => Lookup(Nodes', q) = Lookup(Nodes, q)
  <2> SUFFICES ASSUME NEW q \in Key, q # k PROVE Lookup(Nodes', q) = Lookup(Nodes, q)
    OBVIOUS
  <2>1. \A n : n.key = q => (n \in Nodes' <=> n \in Nodes)
    BY <1>1
  <2> QED
    BY <1>2, <1>u, <2>1, LookupSame
<1>6. mapOf' = [mapOf EXCEPT ![k] = NULL]
  BY <1>4, <1>5, MapIs
<1>7. freed' = freed \cup ({mapOf[k]} \ {NULL})
  BY <1>1, <1>3, MapIs
<1> QED
  BY <1>6, <1>7 DEF mapOf, Map!Remove, Map!Frees

\* hashmap_destroy is the end of the map.
LEMMA DestroyMaps ==
    ASSUME IInv, IInv', hashmap_destroy
    PROVE  Map!Destroy
<1>1. Nodes' = {} /\ freed' = freed \cup {n.value : n \in Nodes}
  BY DestroyChains DEF IInv
<1>2. OnePerKey(Nodes) /\ \A n \in Nodes : n.key \in Key /\ n.value \in Value
  BY NodesOnePerKey DEF IInv, ChainsInv, Node
<1>3. \A n \in Nodes : Lookup(Nodes, n.key) = n.value /\ n.value # NULL
  BY <1>2, LookupFound, HashMapAssumption
<1>4. \A k \in Key : Lookup(Nodes', k) = NULL
  BY <1>1, LookupMissing
<1>5. \A k \in Key : Lookup(Nodes, k) = NULL \/ \E n \in Nodes : Lookup(Nodes, k) = n.value
  BY <1>3, LookupMissing
<1>6. {n.value : n \in Nodes} = {Lookup(Nodes, k) : k \in Key} \ {NULL}
  BY <1>2, <1>3, <1>5
<1>7. {mapOf[k] : k \in Key} = {Lookup(Nodes, k) : k \in Key}
  BY MapIs
<1>8. freed' = freed \cup ({mapOf[k] : k \in Key} \ {NULL})
  BY <1>1, <1>6, <1>7
<1>9. mapOf' = [k \in Key |-> NULL]
  BY <1>4, MapIs
<1> QED
  BY <1>8, <1>9 DEF mapOf, Map!Destroy, Map!Frees

\* hashmap.c implements a map: replacing, adding, removing and destroying do
\* to the chains what they should do to a partial function, and free exactly the
\* values that leave it; every step of a rehashing, and every call that runs
\* out of memory, changes nothing.
THEOREM ImplementsMapHolds == Spec => ImplementsMap
<1>1. Init => Map!Init
  <2> SUFFICES ASSUME Init PROVE Map!Init
    OBVIOUS
  <2>1. Chained(buckets) = {} /\ Chained(newBuckets) = {} /\ freed = {}
    BY TableEmpty, HashMapAssumption DEF Init
  <2>2. \A k : Lookup(Nodes, k) = NULL
    BY <2>1, LookupMissing DEF Nodes
  <2>3. mapOf = [k \in Key |-> NULL]
    BY <2>2, MapIs
  <2> QED
    BY <2>1, <2>3 DEF mapOf, Map!Init
<1>2. IInv /\ IInv' /\ [Next]_vars => [Map!Next]_<<mapOf, freed>>
  <2> SUFFICES ASSUME IInv, IInv', [Next]_vars PROVE [Map!Next]_<<mapOf, freed>>
    OBVIOUS
  <2>1. TypeOK /\ ChainsInv
    BY DEF IInv
  <2>2. ASSUME NEW k \in Key, NEW v \in Value, PutBegins(k, v) PROVE UNCHANGED <<mapOf, freed>>
    BY <2>1, <2>2, PutBeginsChains, StepStutters DEF PutBegins
  <2>3. CASE RehashNode
    BY <2>1, <2>3, RehashNodeChains, StepStutters DEF RehashNode
  <2>4. CASE RehashNextRow
    BY <2>1, <2>4, RehashNextRowChains, StepStutters DEF RehashNextRow
  <2>5. CASE RehashEnds
    BY <2>1, <2>5, RehashEndsChains, StepStutters DEF RehashEnds
  <2>6. CASE PutFails
    BY <2>1, <2>6, PutFailsChains, StepStutters DEF PutFails
  <2>7. CASE UNCHANGED vars
    <3>1. Nodes' = Nodes /\ freed' = freed
      BY <2>7 DEF vars, tableVars, rehashVars, Nodes
    <3> QED
      BY <3>1, StepStutters
  <2>8. CASE PutReplaces \/ PutAdds
    <3>1. op.key \in Key /\ op.value \in Value
      BY <2>1, <2>8 DEF ChainsInv, OpInv, PutReplaces, PutAdds
    <3>2. Map!Put(op.key, op.value)
      BY <2>8, PutReplacesMaps, PutAddsMaps
    <3> QED
      BY <3>1, <3>2 DEF Map!Next
  <2>9. ASSUME NEW k \in Key, hashmap_remove(k) PROVE Map!Next
    BY <2>9, RemoveMaps DEF Map!Next
  <2>10. CASE hashmap_destroy
    BY <2>10, DestroyMaps DEF Map!Next
  <2> QED
    BY <2>2, <2>3, <2>4, <2>5, <2>6, <2>7, <2>8, <2>9, <2>10 DEF Next, hashmap_put
<1> QED
  BY <1>1, <1>2, IInvHolds, PTL DEF Spec, ImplementsMap, Map!Spec, mapOf
=============================================================================
