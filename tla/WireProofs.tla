----------------------------- MODULE WireProofs -----------------------------
(***************************************************************************)
(* What a process receives is what another sent, for every number of       *)
(* values of a byte, every batch of warnings, every fragmentation of the   *)
(* bytes and any number of failing calls, and what is on the wire is the   *)
(* documented frame.                                                       *)
(***************************************************************************)
EXTENDS Wire, SequenceTheorems, TLAPS

-----------------------------------------------------------------------------
(* Bytes of an integer *)

\* Division with a remainder.
LEMMA DivMod ==
    ASSUME NEW n \in Nat, NEW m \in Nat \ {0}
    PROVE  n \div m \in Nat /\ n % m \in 0..m - 1 /\ n = (n % m) + m * (n \div m)
OBVIOUS

\* It has one result.
LEMMA DivUnique ==
    ASSUME NEW m \in Nat \ {0}, NEW q \in Nat, NEW d \in 0..m - 1
    PROVE  (d + m * q) \div m = q /\ (d + m * q) % m = d
OBVIOUS

\* A product of numbers.
LEMMA Product ==
    ASSUME NEW m \in Nat, NEW n \in Nat
    PROVE  m * n \in Nat /\ (m # 0 /\ n # 0 => m * n # 0)
OBVIOUS

\* Two digits make a number.
LEMMA TwoDigits ==
    ASSUME NEW m \in Nat \ {0}, NEW k \in Nat \ {0}, NEW d \in 0..m - 1, NEW e \in 0..k - 1
    PROVE  d + m * e \in 0..m * k - 1
<1>1. m * e \in Nat /\ m * k \in Nat
  BY Product
<1>2. m * (e + 1) <= m * k
  OBVIOUS
<1>3. m * (e + 1) = m * e + m
  OBVIOUS
<1> QED
  BY <1>1, <1>2, <1>3

\* A lower digit can be taken off again.
LEMMA Digit ==
    ASSUME NEW m \in Nat \ {0}, NEW k \in Nat \ {0}, NEW d \in 0..m - 1, NEW e \in 0..k - 1
    PROVE  d + m * e \in 0..m * k - 1 /\ (d + m * e) \div m = e /\ (d + m * e) % m = d
<1>1. e \in Nat
  OBVIOUS
<1> QED
  BY <1>1, TwoDigits, DivUnique

\* A byte, two bytes and three bytes have values, and so has a word.
LEMMA Sizes ==
    /\ Radix \in Nat \ {0}
    /\ Radix * Radix \in Nat \ {0}
    /\ Radix * Radix * Radix \in Nat \ {0}
    /\ Word \in Nat \ {0}
    /\ Word = Radix * (Radix * (Radix * Radix))
    /\ Radix * Radix * Radix = Radix * (Radix * Radix)
BY WireAssumption, Product DEF Word

\* What is loaded from four bytes has these bytes.
LEMMA MemoryOfLoad ==
    ASSUME NEW b \in [1..4 -> Byte]
    PROVE  Load32(b) \in Word32 /\ Memory32(Load32(b)) = b
<1> DEFINE R == Radix
           x3 == b[3] + R * b[4]
           x2 == b[2] + R * x3
           n == b[1] + R * x2
<1>1. R \in Nat \ {0} /\ R * R \in Nat \ {0} /\ R * R * R \in Nat \ {0} /\ R * (R * R) \in Nat \ {0}
  BY Sizes
<1>2. b[1] \in 0..R - 1 /\ b[2] \in 0..R - 1 /\ b[3] \in 0..R - 1 /\ b[4] \in 0..R - 1
  BY DEF Byte
<1> HIDE DEF R
<1>3. x3 \in 0..R * R - 1 /\ x3 \div R = b[4] /\ x3 % R = b[3]
  BY <1>1, <1>2, Digit, Zenon
<1> HIDE DEF x3
<1>4. x2 \in 0..R * (R * R) - 1 /\ x2 \div R = x3 /\ x2 % R = b[2]
  <2>1. x3 \in 0..R * R - 1 /\ b[2] \in 0..R - 1 /\ R \in Nat \ {0} /\ R * R \in Nat \ {0}
    BY <1>1, <1>2, <1>3
  <2> QED
    BY <2>1, Digit, Zenon
<1> HIDE DEF x2
<1>5. n \in 0..R * (R * (R * R)) - 1 /\ n \div R = x2 /\ n % R = b[1]
  <2>1. /\ x2 \in 0..R * (R * R) - 1 /\ b[1] \in 0..R - 1
        /\ R \in Nat \ {0} /\ R * (R * R) \in Nat \ {0}
    BY <1>1, <1>2, <1>4
  <2> QED
    BY <2>1, Digit, Zenon
<1>8. b[4] % R = b[4]
  <2>2. b[4] = b[4] + R * 0
    BY <1>1, <1>2
  <2> QED
    BY <1>1, <1>2, <2>2, DivUnique
<1>9. n \div (R * R) = x3
  <2> DEFINE d == b[1] + R * b[2]
  <2>1. d \in 0..R * R - 1
    BY <1>1, <1>2, TwoDigits
  <2>2. n = d + (R * R) * x3
    BY <1>1, <1>2, <1>3 DEF x2
  <2> HIDE DEF n, d
  <2> QED
    BY <1>1, <1>3, <2>1, <2>2, DivUnique
<1>10. n \div (R * R * R) = b[4]
  <2> DEFINE e == b[2] + R * b[3]
             d == b[1] + R * e
             C == R * R * R
  <2>1. e \in 0..R * R - 1
    BY <1>1, <1>2, TwoDigits
  <2>2. d \in 0..C - 1
    <3> HIDE DEF e
    <3>1. d \in 0..R * (R * R) - 1
      BY <1>1, <1>2, <2>1, TwoDigits
    <3>2. R * (R * R) = C
      BY <1>1
    <3> QED
      BY <3>1, <3>2
  <2>3. n = d + C * b[4]
    BY <1>1, <1>2 DEF x2, x3
  <2>4. C \in Nat \ {0}
    BY <1>1
  <2> HIDE DEF n, d, C
  <2>5. n \div C = b[4]
    BY <1>2, <2>2, <2>3, <2>4, DivUnique
  <2> QED
    BY <2>5 DEF C
<1>11. n \div 1 = n
  BY <1>5
<1>12. Load32(b) = n
  BY DEF Load32, R, x2, x3
<1>13. Memory32(n) = [i \in 1..4 |-> b[i]]
  <2> DEFINE m == [i \in 1..4 |-> (n \div Unit[i]) % R]
  <2>1. Memory32(n) = m
    BY DEF Memory32, R
  <2>2. Unit[1] = 1 /\ Unit[2] = R /\ Unit[3] = R * R /\ Unit[4] = R * R * R
    BY DEF Unit, R
  <2> HIDE DEF n
  <2>3. (n \div Unit[1]) % R = b[1] /\ (n \div Unit[2]) % R = b[2]
    BY <1>4, <1>5, <1>11, <2>2
  <2>4. (n \div Unit[3]) % R = b[3] /\ (n \div Unit[4]) % R = b[4]
    BY <1>3, <1>8, <1>9, <1>10, <2>2
  <2>5. \A i \in 1..4 : (n \div Unit[i]) % R = b[i]
    <3>1. \A i \in 1..4 : i = 1 \/ i = 2 \/ i = 3 \/ i = 4
      OBVIOUS
    <3> QED
      BY <2>3, <2>4, <3>1
  <2> QED
    BY <2>1, <2>5
<1>14. b = [i \in 1..4 |-> b[i]]
  OBVIOUS
<1>15. n \in Word32
  BY <1>5, Sizes DEF Word32, R
<1> QED
  BY <1>12, <1>13, <1>14, <1>15

\* An integer has four bytes in memory, whatever it is.
LEMMA MemoryIsBytes ==
    ASSUME NEW n \in Nat
    PROVE  Memory32(n) \in [1..4 -> Byte]
<1>1. \A i \in 1..4 : Unit[i] \in Nat \ {0}
  <2>1. \A i \in 1..4 : i = 1 \/ i = 2 \/ i = 3 \/ i = 4
    OBVIOUS
  <2> QED
    BY <2>1, Sizes DEF Unit
<1>2. \A i \in 1..4 : (n \div Unit[i]) % Radix \in Byte
  BY <1>1, Sizes, DivMod DEF Byte
<1> QED
  BY <1>2 DEF Memory32

\* An integer is what is loaded from its bytes.
LEMMA LoadOfMemory ==
    ASSUME NEW n \in Word32
    PROVE  Load32(Memory32(n)) = n
<1> DEFINE R == Radix
<1>1. R \in Nat \ {0} /\ R * R \in Nat \ {0} /\ R * (R * R) \in Nat \ {0}
  BY Sizes
<1>2. n \in Nat /\ n < R * (R * (R * R))
  BY Sizes DEF Word32
<1> HIDE DEF R
<1>3. PICK q1 \in Nat, d1 \in 0..R - 1 : n = d1 + R * q1
  BY <1>1, <1>2, DivMod, Zenon
<1>4. PICK q2 \in Nat, d2 \in 0..R - 1 : q1 = d2 + R * q2
  BY <1>1, DivMod, Zenon
<1>5. PICK q3 \in Nat, d3 \in 0..R - 1 : q2 = d3 + R * q3
  BY <1>1, DivMod, Zenon
<1>6. q1 < R * (R * R)
  BY <1>1, <1>2, <1>3
<1>7. q2 < R * R
  BY <1>1, <1>4, <1>6
<1>8. q3 < R
  BY <1>1, <1>5, <1>7
<1> DEFINE b == [i \in 1..4 |-> IF i = 1 THEN d1 ELSE IF i = 2 THEN d2 ELSE IF i = 3 THEN d3 ELSE q3]
<1>9. b \in [1..4 -> Byte]
  BY <1>1, <1>8 DEF Byte, R
<1>10. b[1] = d1 /\ b[2] = d2 /\ b[3] = d3 /\ b[4] = q3
  OBVIOUS
<1> HIDE DEF b
<1>11. Load32(b) = n
  BY <1>3, <1>4, <1>5, <1>10 DEF Load32, R
<1> QED
  BY <1>9, <1>11, MemoryOfLoad

\* A function on 1..n is a sequence of length n.
LEMMA FunctionIsSeq ==
    ASSUME NEW S, NEW n \in Nat, NEW f \in [1..n -> S]
    PROVE  f \in Seq(S) /\ Len(f) = n
<1>1. f \in Seq(S)
  BY SeqDef
<1>2. Len(f) \in Nat /\ DOMAIN f = 1..Len(f)
  BY <1>1, LenProperties
<1>3. DOMAIN f = 1..n
  OBVIOUS
<1> QED
  BY <1>1, <1>2, <1>3

\* What a concatenation of two sequences of bytes is.
LEMMA Concat ==
    ASSUME NEW s \in Seq(Byte), NEW t \in Seq(Byte)
    PROVE  /\ s \o t \in Seq(Byte) /\ Len(s) \in Nat /\ Len(t) \in Nat
           /\ Len(s \o t) = Len(s) + Len(t)
           /\ \A i \in 1..Len(s) : (s \o t)[i] = s[i]
           /\ \A i \in 1..Len(t) : (s \o t)[Len(s) + i] = t[i]
<1>1. /\ s \o t \in Seq(Byte) /\ Len(s \o t) = Len(s) + Len(t)
      /\ \A i \in 1..Len(s) + Len(t) : (s \o t)[i] = IF i <= Len(s) THEN s[i] ELSE t[i - Len(s)]
  BY ConcatProperties, Zenon
<1>2. Len(s) \in Nat /\ Len(t) \in Nat
  BY LenProperties, Zenon
<1> QED
  BY <1>1, <1>2

\* The same without the bytes.
LEMMA Joined ==
    ASSUME NEW s \in Seq(Byte), NEW t \in Seq(Byte)
    PROVE  s \o t \in Seq(Byte) /\ Len(s \o t) = Len(s) + Len(t)
BY Concat

\* What a piece of a sequence of bytes is.
LEMMA Piece ==
    ASSUME NEW s \in Seq(Byte), NEW m \in 1..Len(s) + 1, NEW n \in m - 1..Len(s)
    PROVE  /\ SubSeq(s, m, n) \in Seq(Byte)
           /\ Len(SubSeq(s, m, n)) = n - m + 1
           /\ \A i \in 1..n - m + 1 : SubSeq(s, m, n)[i] = s[m + i - 1]
<1>1. Len(s) \in Nat /\ s \in [1..Len(s) -> Byte]
  BY LenProperties, Zenon
<1>2. m \in Int /\ n \in Int /\ \A i \in m..n : s[i] \in Byte
  BY <1>1
<1>3. /\ SubSeq(s, m, n) \in Seq(Byte)
      /\ Len(SubSeq(s, m, n)) = IF m <= n THEN n - m + 1 ELSE 0
      /\ \A i \in 1..n - m + 1 : SubSeq(s, m, n)[i] = s[m + i - 1]
  BY <1>2, SubSeqProperties
<1> QED
  BY <1>1, <1>3

\* Two sequences of bytes are the same if their bytes are.
LEMMA SameBytes ==
    ASSUME NEW s \in Seq(Byte), NEW t \in Seq(Byte),
           Len(s) = Len(t), \A i \in 1..Len(s) : s[i] = t[i]
    PROVE  s = t
BY SeqEqual, Zenon

\* Four bytes are a sequence of bytes, and turning them round twice gives them back.
LEMMA FourBytes ==
    ASSUME NEW b \in [1..4 -> Byte]
    PROVE  /\ b \in Seq(Byte) /\ Len(b) = 4
           /\ Reverse(b) = [i \in 1..4 |-> b[5 - i]]
           /\ Reverse(b) \in [1..4 -> Byte]
           /\ Reverse(Reverse(b)) = b
<1>1. b \in Seq(Byte) /\ Len(b) = 4
  BY FunctionIsSeq
<1>2. Reverse(b) = [i \in 1..4 |-> b[5 - i]]
  BY <1>1 DEF Reverse
<1> DEFINE r == Reverse(b)
<1>3. r \in [1..4 -> Byte]
  BY <1>2
<1>4. r \in Seq(Byte) /\ Len(r) = 4
  BY <1>3, FunctionIsSeq
<1>5. \A i \in 1..4 : r[i] = b[5 - i]
  BY <1>2
<1> HIDE DEF r
<1>6. Reverse(r) = [i \in 1..4 |-> r[5 - i]]
  BY <1>4 DEF Reverse
<1>7. Reverse(r) = b
  BY <1>5, <1>6
<1> QED
  BY <1>1, <1>2, <1>3, <1>7 DEF r

\* What htonl makes of an integer lies in memory with the highest byte first, and
\* ntohl undoes it.
LEMMA NetworkOrder32 ==
    ASSUME NEW n \in Word32
    PROVE  /\ htonl(n) \in Word32
           /\ BigEndian32(n) \in [1..4 -> Byte]
           /\ Memory32(htonl(n)) = BigEndian32(n)
           /\ Load32(BigEndian32(n)) \in Word32
           /\ ntohl(Load32(BigEndian32(n))) = n
<1>1. n \in Nat
  BY Sizes DEF Word32
<1>2. Memory32(n) \in [1..4 -> Byte]
  BY <1>1, MemoryIsBytes
<1>3. BigEndian32(n) = Reverse(Memory32(n))
  <2>1. Reverse(Memory32(n)) = [i \in 1..4 |-> Memory32(n)[5 - i]]
    BY <1>2, FourBytes
  <2>2. \A i \in 1..4 : Memory32(n)[5 - i] = (n \div Unit[5 - i]) % Radix
    BY DEF Memory32
  <2> QED
    BY <2>1, <2>2 DEF BigEndian32
<1>4. Reverse(Memory32(n)) \in [1..4 -> Byte] /\ Reverse(Reverse(Memory32(n))) = Memory32(n)
  BY <1>2, FourBytes
<1>5. htonl(n) = Load32(Reverse(Memory32(n)))
  BY DEF htonl
<1>6. htonl(n) \in Word32 /\ Memory32(htonl(n)) = Reverse(Memory32(n))
  BY <1>4, <1>5, MemoryOfLoad
<1>7. ntohl(htonl(n)) = Load32(Reverse(Reverse(Memory32(n))))
  BY <1>6 DEF ntohl, htonl
<1>8. ntohl(htonl(n)) = n
  BY <1>4, <1>7, LoadOfMemory
<1> QED
  BY <1>3, <1>4, <1>5, <1>6, <1>8

\* Two words one after the other.
LEMMA TwoWords ==
    ASSUME NEW a \in [1..4 -> Byte], NEW b \in [1..4 -> Byte]
    PROVE  /\ a \o b \in Seq(Byte) /\ Len(a \o b) = 8
           /\ SubSeq(a \o b, 1, 4) = a /\ SubSeq(a \o b, 5, 8) = b
<1>1. a \in Seq(Byte) /\ Len(a) = 4 /\ b \in Seq(Byte) /\ Len(b) = 4
  BY FourBytes
<1>2. /\ a \o b \in Seq(Byte) /\ Len(a \o b) = 8
      /\ \A i \in 1..4 : (a \o b)[i] = a[i] /\ (a \o b)[4 + i] = b[i]
  <2>1. /\ a \o b \in Seq(Byte) /\ Len(a \o b) = Len(a) + Len(b)
        /\ \A i \in 1..Len(a) : (a \o b)[i] = a[i]
        /\ \A i \in 1..Len(b) : (a \o b)[Len(a) + i] = b[i]
    BY <1>1, Concat, Zenon
  <2> QED
    BY <1>1, <2>1
<1> DEFINE c == a \o b
<1> HIDE DEF c
<1>3. /\ SubSeq(c, 1, 4) \in Seq(Byte) /\ Len(SubSeq(c, 1, 4)) = 4
      /\ \A i \in 1..4 : SubSeq(c, 1, 4)[i] = c[i]
  BY <1>2, Piece DEF c
<1>4. /\ SubSeq(c, 5, 8) \in Seq(Byte) /\ Len(SubSeq(c, 5, 8)) = 4
      /\ \A i \in 1..4 : SubSeq(c, 5, 8)[i] = c[4 + i]
  BY <1>2, Piece DEF c
<1>5. SubSeq(c, 1, 4) = a
  BY <1>1, <1>2, <1>3, SameBytes DEF c
<1>6. SubSeq(c, 5, 8) = b
  BY <1>1, <1>2, <1>4, SameBytes DEF c
<1> QED
  BY <1>2, <1>5, <1>6 DEF c

\* The same for 64 bits.
LEMMA NetworkOrder64 ==
    ASSUME NEW x \in Word64
    PROVE  /\ BigEndian64(x) \in Seq(Byte) /\ Len(BigEndian64(x)) = 8
           /\ Memory64(host_to_network64(x)) = BigEndian64(x)
           /\ network_to_host64(Load64(BigEndian64(x))) = x
<1> DEFINE h == x \div Word
           l == x % Word
<1>1. h \in Word32 /\ l \in Word32 /\ x = l + Word * h
  <2>1. x \in Nat /\ x < Word * Word /\ Word \in Nat \ {0}
    BY Sizes, Product DEF Word64
  <2>2. h \in Nat /\ l \in 0..Word - 1 /\ x = l + Word * h
    BY <2>1, DivMod
  <2> HIDE DEF h, l
  <2>3. h < Word
    BY <2>1, <2>2
  <2> QED
    BY <2>1, <2>2, <2>3 DEF Word32
<1> HIDE DEF h, l
<1>2. /\ htonl(h) \in Word32 /\ htonl(l) \in Word32
      /\ BigEndian32(h) \in [1..4 -> Byte] /\ BigEndian32(l) \in [1..4 -> Byte]
  BY <1>1, NetworkOrder32
<1>3. BigEndian64(x) = BigEndian32(h) \o BigEndian32(l)
  BY DEF BigEndian64, h, l
<1>4. BigEndian64(x) \in Seq(Byte) /\ Len(BigEndian64(x)) = 8
  BY <1>2, <1>3, TwoWords
<1> DEFINE y == htonl(h) + Word * htonl(l)
<1>5. y \div Word = htonl(l) /\ y % Word = htonl(h)
  <2>1. Word \in Nat \ {0} /\ htonl(h) \in 0..Word - 1 /\ htonl(l) \in 0..Word - 1
    BY <1>2, Sizes DEF Word32
  <2> QED
    BY <2>1, Digit, Zenon
<1>6. host_to_network64(x) = y
  BY <1>2, Sizes DEF host_to_network64, Hi, Lo, h, l, Word32
<1> HIDE DEF y
<1>7. Memory64(y) = BigEndian64(x)
  BY <1>1, <1>3, <1>5, NetworkOrder32 DEF Memory64
<1> DEFINE u == Load32(BigEndian32(h))
           v == Load32(BigEndian32(l))
<1>8. Load64(BigEndian64(x)) = u + Word * v
  <2>1. SubSeq(BigEndian64(x), 1, 4) = BigEndian32(h) /\ SubSeq(BigEndian64(x), 5, 8) = BigEndian32(l)
    BY <1>2, <1>3, TwoWords
  <2> QED
    BY <2>1 DEF Load64
<1>9. u \in Word32 /\ v \in Word32 /\ ntohl(u) = h /\ ntohl(v) = l
  BY <1>1, NetworkOrder32
<1> HIDE DEF u, v
<1>10. (u + Word * v) \div Word = v /\ (u + Word * v) % Word = u
  BY <1>9, Sizes, Digit DEF Word32
<1>11. network_to_host64(u + Word * v) = h * Word + l
  BY <1>9, <1>10 DEF network_to_host64, Hi, Lo
<1>12. h * Word + l = x
  BY <1>1, Sizes DEF Word32
<1> QED
  BY <1>4, <1>6, <1>7, <1>8, <1>11, <1>12

-----------------------------------------------------------------------------
(* The frame *)

\* Behind the first b bytes of s come those of f.
LiesAt(f, s, b) == b + Len(f) <= Len(s) /\ \A i \in 1..Len(f) : s[b + i] = f[i]

\* A frame as its fields are on the wire, as the receiver decodes them, and where
\* each begins.
Chunks(w) ==
    <<BigEndian32(Len(w.city)), w.city, BigEndian32(Len(w.dest_node)), w.dest_node,
      BigEndian32(w.type), BigEndian64(w.value), BigEndian64(w.timestamp)>>

Values(w) == <<Len(w.city), w.city, Len(w.dest_node), w.dest_node, w.type, w.value, w.timestamp>>

Begin(w) ==
    LET c == Len(w.city)
        d == Len(w.city) + Len(w.dest_node)
    IN  <<0, 4, 4 + c, 8 + c, 8 + d, 12 + d, 20 + d, 28 + d>>

\* What lies in a sequence still does when more is appended.
LEMMA LiesInConcat ==
    ASSUME NEW s \in Seq(Byte), NEW t \in Seq(Byte), NEW f \in Seq(Byte), NEW b \in Nat,
           LiesAt(f, s, b)
    PROVE  LiesAt(f, s \o t, b)
<1>1. /\ s \o t \in Seq(Byte) /\ Len(s) \in Nat /\ Len(t) \in Nat
      /\ Len(s \o t) = Len(s) + Len(t) /\ \A i \in 1..Len(s) : (s \o t)[i] = s[i]
  BY Concat, Zenon
<1>2. Len(f) \in Nat
  BY LenProperties, Zenon
<1> QED
  BY <1>1, <1>2 DEF LiesAt

\* What is appended lies at the end.
LEMMA LiesAtEnd ==
    ASSUME NEW s \in Seq(Byte), NEW t \in Seq(Byte)
    PROVE  LiesAt(t, s \o t, Len(s))
<1>1. /\ s \o t \in Seq(Byte) /\ Len(s) \in Nat /\ Len(t) \in Nat
      /\ Len(s \o t) = Len(s) + Len(t)
      /\ \A i \in 1..Len(t) : (s \o t)[Len(s) + i] = t[i]
  BY Concat, Zenon
<1> QED
  BY <1>1 DEF LiesAt

\* The parts of a warning.
LEMMA Parts ==
    ASSUME NEW w \in Warning
    PROVE  /\ w.city \in Seq(Byte) /\ Len(w.city) \in Word32 /\ Len(w.city) \in Nat
           /\ w.dest_node \in Seq(Byte) /\ Len(w.dest_node) \in Word32 /\ Len(w.dest_node) \in Nat
           /\ w.type \in Word32 /\ w.value \in Word64 /\ w.timestamp \in Word64
<1>1. /\ w.city \in String /\ w.dest_node \in String
      /\ w.type \in Word32 /\ w.value \in Word64 /\ w.timestamp \in Word64
  BY DEF Warning
<1>2. Char \subseteq Byte
  BY Sizes DEF Char, Byte
<1>3. /\ w.city \in Seq(Char) /\ Len(w.city) \in Word32
      /\ w.dest_node \in Seq(Char) /\ Len(w.dest_node) \in Word32
  BY <1>1 DEF String
<1>4. w.city \in Seq(Byte) /\ w.dest_node \in Seq(Byte)
  BY <1>2, <1>3, SeqMonotonic, Zenon
<1>5. Len(w.city) \in Nat /\ Len(w.dest_node) \in Nat
  BY <1>4, LenProperties, Zenon
<1> QED
  BY <1>1, <1>3, <1>4, <1>5

\* The bytes of a field.
LEMMA ChunkBytes ==
    ASSUME NEW w \in Warning
    PROVE  /\ Chunks(w)[1] = BigEndian32(Len(w.city)) /\ Chunks(w)[2] = w.city
           /\ Chunks(w)[3] = BigEndian32(Len(w.dest_node)) /\ Chunks(w)[4] = w.dest_node
           /\ Chunks(w)[5] = BigEndian32(w.type)
           /\ Chunks(w)[6] = BigEndian64(w.value) /\ Chunks(w)[7] = BigEndian64(w.timestamp)
           /\ \A f \in 1..7 : Chunks(w)[f] \in Seq(Byte)
           /\ Len(Chunks(w)[1]) = 4 /\ Len(Chunks(w)[2]) = Len(w.city)
           /\ Len(Chunks(w)[3]) = 4 /\ Len(Chunks(w)[4]) = Len(w.dest_node)
           /\ Len(Chunks(w)[5]) = 4 /\ Len(Chunks(w)[6]) = 8 /\ Len(Chunks(w)[7]) = 8
<1> DEFINE c == Chunks(w)
<1>1. /\ c[1] = BigEndian32(Len(w.city)) /\ c[2] = w.city
      /\ c[3] = BigEndian32(Len(w.dest_node)) /\ c[4] = w.dest_node
      /\ c[5] = BigEndian32(w.type)
      /\ c[6] = BigEndian64(w.value) /\ c[7] = BigEndian64(w.timestamp)
  BY DEF Chunks
<1> HIDE DEF c
<1>2. \A n \in Word32 : BigEndian32(n) \in Seq(Byte) /\ Len(BigEndian32(n)) = 4
  BY NetworkOrder32, FourBytes
<1>3. \A n \in Word64 : BigEndian64(n) \in Seq(Byte) /\ Len(BigEndian64(n)) = 8
  BY NetworkOrder64
<1>4. /\ c[1] \in Seq(Byte) /\ c[2] \in Seq(Byte) /\ c[3] \in Seq(Byte) /\ c[4] \in Seq(Byte)
      /\ c[5] \in Seq(Byte) /\ c[6] \in Seq(Byte) /\ c[7] \in Seq(Byte)
  BY <1>1, <1>2, <1>3, Parts
<1>5. \A f \in 1..7 : f = 1 \/ f = 2 \/ f = 3 \/ f = 4 \/ f = 5 \/ f = 6 \/ f = 7
  OBVIOUS
<1>6. \A f \in 1..7 : c[f] \in Seq(Byte)
  BY <1>4, <1>5
<1>7. /\ Len(c[1]) = 4 /\ Len(c[2]) = Len(w.city) /\ Len(c[3]) = 4
      /\ Len(c[4]) = Len(w.dest_node) /\ Len(c[5]) = 4 /\ Len(c[6]) = 8 /\ Len(c[7]) = 8
  BY <1>1, <1>2, <1>3, Parts
<1> QED
  BY <1>1, <1>6, <1>7 DEF c

\* For every warning and every number of values of a byte, the frame that
\* send_warning_to lays out with htonl and host_to_network64 is the documented one.
THEOREM FrameIsDocumented ==
    ASSUME NEW w \in Warning
    PROVE  Frame(w) = DocumentedFrame(w)
<1>1. /\ Memory32(htonl(Len(w.city))) = BigEndian32(Len(w.city))
      /\ Memory32(htonl(Len(w.dest_node))) = BigEndian32(Len(w.dest_node))
      /\ Memory32(htonl(w.type)) = BigEndian32(w.type)
  BY Parts, NetworkOrder32
<1>2. /\ Memory64(host_to_network64(w.value)) = BigEndian64(w.value)
      /\ Memory64(host_to_network64(w.timestamp)) = BigEndian64(w.timestamp)
  BY Parts, NetworkOrder64
<1> QED
  BY <1>1, <1>2 DEF Frame, DocumentedFrame

\* Where the fields lie in the frame.
LEMMA FrameLayout ==
    ASSUME NEW w \in Warning
    PROVE  /\ Frame(w) \in Seq(Byte) /\ Len(Frame(w)) = Begin(w)[8]
           /\ \A f \in 1..7 : LiesAt(Chunks(w)[f], Frame(w), Begin(w)[f])
<1> DEFINE c == Chunks(w)
           s2 == c[1] \o c[2]
           s3 == s2 \o c[3]
           s4 == s3 \o c[4]
           s5 == s4 \o c[5]
           s6 == s5 \o c[6]
           s7 == s6 \o c[7]
           b == Begin(w)
<1>1. Frame(w) = s7
  BY FrameIsDocumented, ChunkBytes DEF DocumentedFrame
<1>2. /\ b[1] = 0 /\ b[2] = 4
      /\ b[3] = 4 + Len(w.city) /\ b[4] = 8 + Len(w.city)
      /\ b[5] = 8 + (Len(w.city) + Len(w.dest_node)) /\ b[6] = 12 + (Len(w.city) + Len(w.dest_node))
      /\ b[7] = 20 + (Len(w.city) + Len(w.dest_node)) /\ b[8] = 28 + (Len(w.city) + Len(w.dest_node))
  BY DEF Begin
<1>3. PICK m \in Nat, n \in Nat : m = Len(w.city) /\ n = Len(w.dest_node)
  BY Parts
<1>4. /\ c[1] \in Seq(Byte) /\ c[2] \in Seq(Byte) /\ c[3] \in Seq(Byte) /\ c[4] \in Seq(Byte)
      /\ c[5] \in Seq(Byte) /\ c[6] \in Seq(Byte) /\ c[7] \in Seq(Byte)
      /\ Len(c[1]) = 4 /\ Len(c[2]) = m /\ Len(c[3]) = 4
      /\ Len(c[4]) = n /\ Len(c[5]) = 4 /\ Len(c[6]) = 8 /\ Len(c[7]) = 8
  BY <1>3, ChunkBytes
<1> HIDE DEF c, b
<1>a. /\ b[1] = 0 /\ b[2] = 4 /\ b[3] = 4 + m /\ b[4] = 8 + m
      /\ b[5] = 8 + (m + n) /\ b[6] = 12 + (m + n) /\ b[7] = 20 + (m + n) /\ b[8] = 28 + (m + n)
  BY <1>2, <1>3
<1>b. /\ b[1] \in Nat /\ b[2] \in Nat /\ b[3] \in Nat /\ b[4] \in Nat
      /\ b[5] \in Nat /\ b[6] \in Nat /\ b[7] \in Nat
  BY <1>a
<1>e. /\ b[3] = Len(c[1]) + Len(c[2]) /\ b[4] = b[3] + Len(c[3]) /\ b[5] = b[4] + Len(c[4])
      /\ b[6] = b[5] + Len(c[5]) /\ b[7] = b[6] + Len(c[6]) /\ b[8] = b[7] + Len(c[7])
  BY <1>4, <1>a
<1>5. s2 \in Seq(Byte) /\ Len(s2) = b[3]
  BY <1>4, <1>e, Joined
<1>6. LiesAt(c[1], s2, b[1]) /\ LiesAt(c[2], s2, b[2])
  <2>1. LiesAt(c[2], s2, Len(c[1]))
    BY <1>4, LiesAtEnd
  <2>2. LiesAt(c[1], c[1], 0)
    BY <1>4 DEF LiesAt
  <2>3. LiesAt(c[1], s2, 0)
    BY <1>4, <2>2, LiesInConcat
  <2> QED
    BY <1>2, <1>4, <2>1, <2>3
<1> HIDE DEF s2
<1>7. s3 \in Seq(Byte) /\ Len(s3) = b[4]
  BY <1>4, <1>e, <1>5, Joined
<1>8. LiesAt(c[1], s3, b[1]) /\ LiesAt(c[2], s3, b[2]) /\ LiesAt(c[3], s3, b[3])
  <2>1. LiesAt(c[3], s3, Len(s2))
    BY <1>4, <1>5, LiesAtEnd
  <2> QED
    BY <1>4, <1>5, <1>6, <1>b, <2>1, LiesInConcat
<1> HIDE DEF s3
<1>9. s4 \in Seq(Byte) /\ Len(s4) = b[5]
  BY <1>4, <1>e, <1>7, Joined
<1>10. /\ LiesAt(c[1], s4, b[1]) /\ LiesAt(c[2], s4, b[2]) /\ LiesAt(c[3], s4, b[3])
       /\ LiesAt(c[4], s4, b[4])
  <2>1. LiesAt(c[4], s4, Len(s3))
    BY <1>4, <1>7, LiesAtEnd
  <2> QED
    BY <1>4, <1>7, <1>8, <1>b, <2>1, LiesInConcat
<1> HIDE DEF s4
<1>11. s5 \in Seq(Byte) /\ Len(s5) = b[6]
  BY <1>4, <1>e, <1>9, Joined
<1>12. /\ LiesAt(c[1], s5, b[1]) /\ LiesAt(c[2], s5, b[2]) /\ LiesAt(c[3], s5, b[3])
       /\ LiesAt(c[4], s5, b[4]) /\ LiesAt(c[5], s5, b[5])
  <2>1. LiesAt(c[5], s5, Len(s4))
    BY <1>4, <1>9, LiesAtEnd
  <2> QED
    BY <1>4, <1>9, <1>10, <1>b, <2>1, LiesInConcat
<1> HIDE DEF s5
<1>13. s6 \in Seq(Byte) /\ Len(s6) = b[7]
  BY <1>4, <1>e, <1>11, Joined
<1>14. /\ LiesAt(c[1], s6, b[1]) /\ LiesAt(c[2], s6, b[2]) /\ LiesAt(c[3], s6, b[3])
       /\ LiesAt(c[4], s6, b[4]) /\ LiesAt(c[5], s6, b[5]) /\ LiesAt(c[6], s6, b[6])
  <2>1. LiesAt(c[6], s6, Len(s5))
    BY <1>4, <1>11, LiesAtEnd
  <2> QED
    BY <1>4, <1>11, <1>12, <1>b, <2>1, LiesInConcat
<1> HIDE DEF s6
<1>15. s7 \in Seq(Byte) /\ Len(s7) = b[8]
  BY <1>4, <1>e, <1>13, Joined
<1>16. /\ LiesAt(c[1], s7, b[1]) /\ LiesAt(c[2], s7, b[2]) /\ LiesAt(c[3], s7, b[3])
       /\ LiesAt(c[4], s7, b[4]) /\ LiesAt(c[5], s7, b[5]) /\ LiesAt(c[6], s7, b[6])
       /\ LiesAt(c[7], s7, b[7])
  <2>1. LiesAt(c[7], s7, Len(s6))
    BY <1>4, <1>13, LiesAtEnd
  <2> QED
    BY <1>4, <1>13, <1>14, <1>b, <2>1, LiesInConcat
<1> HIDE DEF s7
<1>17. \A f \in 1..7 : LiesAt(c[f], s7, b[f])
  <2>1. \A f \in 1..7 : f = 1 \/ f = 2 \/ f = 3 \/ f = 4 \/ f = 5 \/ f = 6 \/ f = 7
    OBVIOUS
  <2> QED
    BY <1>16, <2>1
<1> QED
  BY <1>1, <1>15, <1>17 DEF c, b

-----------------------------------------------------------------------------
(* Frames in a stream *)

\* Behind the first e bytes of s there is a part of the frame of w, and not all of it.
Begins(w, s, e) ==
    Len(s) - e < Len(Frame(w)) /\ \A i \in 1..Len(s) - e : s[e + i] = Frame(w)[i]

\* The bytes s of a connection are the frames of the warnings o[k] for the k in K,
\* one behind the other in the order of the k, each k at off[k] and the last one up to
\* e; what is behind e is nothing, or, if the connection is closed, a part of a frame.
\* The first frame in s, or the part that stands for it, is that of w.
Parsed(o, s, closed, K, w, off, e) ==
    /\ off \in [K -> Nat] /\ e \in 0..Len(s)
    /\ \A k \in K :
          /\ LiesAt(Frame(o[k]), s, off[k])
          /\ off[k] + Len(Frame(o[k])) <= e
          /\ off[k] + Len(Frame(o[k])) = e \/ \E j \in K : off[j] = off[k] + Len(Frame(o[k]))
    /\ \A j, k \in K : j < k => off[j] + Len(Frame(o[j])) <= off[k]
    /\ \/ e = Len(s)
       \/ closed /\ \E v \in Warning : Begins(v, s, e)
    /\ \/ \E k \in K : off[k] = 0 /\ w = o[k]
       \/ e = 0 /\ Begins(w, s, 0)

Framed(o, s, closed, K, w) == \E off, e : Parsed(o, s, closed, K, w, off, e)

\* A frame is not empty.
LEMMA FrameSize ==
    ASSUME NEW w \in Warning
    PROVE  Frame(w) \in Seq(Byte) /\ Len(Frame(w)) \in Nat \ {0}
<1>1. Frame(w) \in Seq(Byte) /\ Len(Frame(w)) = Begin(w)[8]
  BY FrameLayout
<1>2. PICK m \in Nat, n \in Nat : m = Len(w.city) /\ n = Len(w.dest_node)
  BY Parts
<1>3. Begin(w)[8] = 28 + (m + n)
  BY <1>2 DEF Begin
<1> QED
  BY <1>1, <1>3

\* On a new connection there is nothing.
LEMMA FramedNone ==
    ASSUME NEW o, NEW closed, NEW w \in Warning
    PROVE  Framed(o, <<>>, closed, {}, w)
<1> DEFINE off == [k \in {} |-> 0]
<1>1. Len(<<>>) = 0
  OBVIOUS
<1>2. Len(Frame(w)) \in Nat \ {0}
  BY FrameSize
<1>3. Begins(w, <<>>, 0)
  BY <1>1, <1>2 DEF Begins
<1>4. off \in [{} -> Nat] /\ 0 \in 0..Len(<<>>)
  BY <1>1
<1>5. Parsed(o, <<>>, closed, {}, w, off, 0)
  BY <1>1, <1>3, <1>4 DEF Parsed
<1> QED
  BY <1>5 DEF Framed

\* A connection may be closed behind a frame.
LEMMA FramedClosed ==
    ASSUME NEW o, NEW s, NEW closed, NEW K, NEW w, Framed(o, s, closed, K, w)
    PROVE  Framed(o, s, TRUE, K, w)
<1>1. PICK off, e : Parsed(o, s, closed, K, w, off, e)
  BY DEF Framed
<1>2. Parsed(o, s, TRUE, K, w, off, e)
  BY <1>1 DEF Parsed
<1> QED
  BY <1>2 DEF Framed

\* A further frame.
LEMMA FramedSend ==
    ASSUME NEW o, NEW s \in Seq(Byte), NEW n \in Nat, NEW K \in SUBSET (1..n), NEW w,
           \A k \in 1..n + 1 : o[k] \in Warning, Framed(o, s, FALSE, K, w)
    PROVE  Framed(o, s \o Frame(o[n + 1]), FALSE, K \cup {n + 1},
                  IF s = <<>> THEN o[n + 1] ELSE w)
<1> DEFINE f == Frame(o[n + 1])
           t == s \o f
           J == K \cup {n + 1}
           L == [k \in J |-> Len(Frame(o[k]))]
<1>1. PICK off, e : Parsed(o, s, FALSE, K, w, off, e)
  BY DEF Framed
<1>2. \A k \in J : o[k] \in Warning
  OBVIOUS
<1>3. \A k \in J : Frame(o[k]) \in Seq(Byte) /\ Len(Frame(o[k])) \in Nat \ {0}
  BY <1>2, FrameSize
<1>4. /\ Len(s) \in Nat /\ t \in Seq(Byte) /\ Len(t) = Len(s) + Len(f)
  BY <1>3, Concat
<1>5. e = Len(s) /\ off \in [K -> Nat]
  BY <1>1 DEF Parsed
<1> DEFINE ext == [k \in J |-> IF k = n + 1 THEN Len(s) ELSE off[k]]
           end == Len(s) + Len(f)
<1>6. ext \in [J -> Nat] /\ end \in 0..Len(t)
  BY <1>3, <1>4, <1>5
<1>7. n + 1 \notin K /\ \A k \in K : ext[k] = off[k]
  OBVIOUS
<1>8. ext[n + 1] = Len(s) /\ n + 1 \in J
  OBVIOUS
<1> HIDE DEF ext
<1>9. ASSUME NEW k \in J
      PROVE  /\ LiesAt(Frame(o[k]), t, ext[k])
             /\ ext[k] + Len(Frame(o[k])) <= end
             /\ \/ ext[k] + Len(Frame(o[k])) = end
                \/ \E j \in J : ext[j] = ext[k] + Len(Frame(o[k]))
  <2>1. CASE k = n + 1
    <3>1. LiesAt(f, t, Len(s))
      BY <1>3, LiesAtEnd
    <3> QED
      BY <1>3, <1>4, <1>8, <2>1, <3>1
  <2>2. CASE k # n + 1
    <3>1. /\ k \in K /\ LiesAt(Frame(o[k]), s, off[k])
          /\ off[k] + Len(Frame(o[k])) <= e
          /\ off[k] + Len(Frame(o[k])) = e \/ \E j \in K : off[j] = off[k] + Len(Frame(o[k]))
      BY <1>1, <2>2 DEF Parsed
    <3>2. LiesAt(Frame(o[k]), t, off[k])
      BY <1>3, <1>5, <3>1, LiesInConcat
    <3>3. off[k] \in Nat /\ Len(Frame(o[k])) \in Nat /\ Len(f) \in Nat
      BY <1>3, <1>5, <3>1
    <3>4. ext[k] + Len(Frame(o[k])) <= end
      BY <1>4, <1>5, <1>7, <3>1, <3>3
    <3>5. \E j \in J : ext[j] = ext[k] + Len(Frame(o[k]))
      BY <1>5, <1>7, <1>8, <3>1
    <3> QED
      BY <1>7, <3>1, <3>2, <3>4, <3>5
  <2> QED
    BY <2>1, <2>2
<1>10. ASSUME NEW j \in J, NEW k \in J, j < k
       PROVE  ext[j] + Len(Frame(o[j])) <= ext[k]
  <2>1. j \in K
    BY <1>10
  <2>2. CASE k = n + 1
    BY <1>1, <1>5, <1>7, <1>8, <2>1, <2>2 DEF Parsed
  <2>3. CASE k # n + 1
    BY <1>1, <1>7, <1>10, <2>1, <2>3 DEF Parsed
  <2> QED
    BY <2>2, <2>3
<1>11. \E k \in J : ext[k] = 0 /\ (IF s = <<>> THEN o[n + 1] ELSE w) = o[k]
  <2>1. CASE s = <<>>
    BY <1>8, <2>1
  <2>2. CASE s # <<>>
    <3>1. e # 0
      BY <1>4, <1>5, <2>2, EmptySeq
    <3> QED
      BY <1>1, <1>7, <2>2, <3>1 DEF Parsed
  <2> QED
    BY <2>1, <2>2
<1>12. Parsed(o, t, FALSE, J, IF s = <<>> THEN o[n + 1] ELSE w, ext, end)
  BY <1>4, <1>6, <1>9, <1>10, <1>11 DEF Parsed
<1> QED
  BY <1>12 DEF Framed

\* A part of a frame, behind which the connection is closed.
LEMMA FramedPart ==
    ASSUME NEW o, NEW s \in Seq(Byte), NEW K, NEW w, NEW v \in Warning,
           NEW m \in 0..Len(Frame(v)) - 1, Framed(o, s, FALSE, K, w),
           \A k \in K : o[k] \in Warning
    PROVE  Framed(o, s \o SubSeq(Frame(v), 1, m), TRUE, K, IF s = <<>> THEN v ELSE w)
<1> DEFINE f == Frame(v)
           p == SubSeq(f, 1, m)
           t == s \o p
<1>1. PICK off, e : Parsed(o, s, FALSE, K, w, off, e)
  BY DEF Framed
<1>2. f \in Seq(Byte) /\ Len(f) \in Nat \ {0}
  BY FrameSize
<1>3. p \in Seq(Byte) /\ Len(p) = m /\ \A i \in 1..m : p[i] = f[i]
  BY <1>2, Piece
<1>4. /\ t \in Seq(Byte) /\ Len(s) \in Nat /\ Len(t) = Len(s) + Len(p)
      /\ \A i \in 1..Len(p) : t[Len(s) + i] = p[i]
  BY <1>3, Concat
<1>5. e = Len(s) /\ off \in [K -> Nat] /\ e \in 0..Len(t)
  BY <1>1, <1>3, <1>4 DEF Parsed
<1>6. Begins(v, t, e)
  BY <1>2, <1>3, <1>4, <1>5 DEF Begins
<1>7. \A k \in K : LiesAt(Frame(o[k]), t, off[k])
  <2>1. \A k \in K : Frame(o[k]) \in Seq(Byte) /\ off[k] \in Nat /\ LiesAt(Frame(o[k]), s, off[k])
    BY <1>1, <1>5, FrameSize DEF Parsed
  <2> QED
    BY <1>3, <2>1, LiesInConcat
<1> HIDE DEF t
<1>8. \/ \E k \in K : off[k] = 0 /\ (IF s = <<>> THEN v ELSE w) = o[k]
      \/ e = 0 /\ Begins(IF s = <<>> THEN v ELSE w, t, 0)
  <2>1. CASE s = <<>>
    BY <1>5, <1>6, <2>1
  <2>2. CASE s # <<>>
    <3>1. e # 0
      BY <1>4, <1>5, <2>2, EmptySeq
    <3> QED
      BY <1>1, <2>2, <3>1 DEF Parsed
  <2> QED
    BY <2>1, <2>2
<1>9. Parsed(o, t, TRUE, K, IF s = <<>> THEN v ELSE w, off, e)
  BY <1>1, <1>5, <1>6, <1>7, <1>8 DEF Parsed
<1> QED
  BY <1>9 DEF Framed, t

\* The bytes s are those of the frame of w, as far as both go.
Agrees(w, s) == \A i \in 1..Len(s) : i <= Len(Frame(w)) => s[i] = Frame(w)[i]

\* A stream begins with the frame of its first warning.
LEMMA FramedFirst ==
    ASSUME NEW o, NEW s \in Seq(Byte), NEW closed, NEW K, NEW w \in Warning,
           Framed(o, s, closed, K, w)
    PROVE  Agrees(w, s)
<1>1. PICK off, e : Parsed(o, s, closed, K, w, off, e)
  BY DEF Framed
<1>2. Len(Frame(w)) \in Nat \ {0} /\ Len(s) \in Nat
  BY FrameSize, LenProperties
<1>3. CASE \E k \in K : off[k] = 0 /\ w = o[k]
  <2>1. LiesAt(Frame(w), s, 0)
    BY <1>1, <1>3 DEF Parsed
  <2> QED
    BY <1>2, <2>1 DEF LiesAt, Agrees
<1>4. CASE e = 0 /\ Begins(w, s, 0)
  BY <1>2, <1>4 DEF Begins, Agrees
<1> QED
  BY <1>1, <1>3, <1>4 DEF Parsed

\* What a reset leaves of a stream is what has been read of it.
LEMMA FramedCut ==
    ASSUME NEW o, NEW c \in Seq(Byte), NEW b \in Seq(Byte), NEW closed,
           NEW K \in SUBSET Nat, NEW w \in Warning,
           Framed(o, c \o b, closed, K, w), Len(c) <= Len(Frame(w))
    PROVE  \E J \in SUBSET K : Framed(o, c, TRUE, J, w)
<1>1. /\ c \o b \in Seq(Byte) /\ Len(c) \in Nat /\ Len(b) \in Nat
      /\ Len(c \o b) = Len(c) + Len(b) /\ \A i \in 1..Len(c) : (c \o b)[i] = c[i]
  BY Concat
<1>2. Len(Frame(w)) \in Nat \ {0}
  BY FrameSize
<1>3. Agrees(w, c \o b)
  BY <1>1, FramedFirst
<1>4. \A i \in 1..Len(c) : c[i] = Frame(w)[i]
  BY <1>1, <1>2, <1>3 DEF Agrees
<1>5. CASE Len(c) = Len(Frame(w))
  <2>1. PICK k \in K : w = o[k]
    <3>1. ~Begins(w, c \o b, 0)
      BY <1>1, <1>2, <1>5 DEF Begins
    <3>2. PICK off, e : Parsed(o, c \o b, closed, K, w, off, e)
      BY DEF Framed
    <3> QED
      BY <3>1, <3>2 DEF Parsed
  <2> DEFINE off == [j \in {k} |-> 0]
  <2>2. off \in [{k} -> Nat] /\ off[k] = 0 /\ Len(c) \in 0..Len(c)
    BY <1>1
  <2> HIDE DEF off
  <2>3. LiesAt(Frame(o[k]), c, 0)
    BY <1>1, <1>4, <1>5, <2>1 DEF LiesAt
  <2>4. 0 + Len(Frame(o[k])) = Len(c)
    BY <1>1, <1>5, <2>1
  <2>5. ~(k < k) \/ 0 + Len(Frame(o[k])) <= 0
    OBVIOUS
  <2>6. Parsed(o, c, TRUE, {k}, w, off, Len(c))
    BY <1>1, <2>1, <2>2, <2>3, <2>4, <2>5 DEF Parsed
  <2> QED
    BY <2>6 DEF Framed
<1>6. CASE Len(c) # Len(Frame(w))
  <2> DEFINE off == [j \in {} |-> 0]
  <2>1. off \in [{} -> Nat] /\ 0 \in 0..Len(c)
    BY <1>1
  <2>2. Begins(w, c, 0)
    BY <1>1, <1>2, <1>4, <1>6 DEF Begins
  <2>3. Parsed(o, c, TRUE, {}, w, off, 0)
    BY <2>1, <2>2 DEF Parsed
  <2> QED
    BY <2>3 DEF Framed
<1> QED
  BY <1>5, <1>6

\* Behind the frame of w, which is the first of the o[k], the stream goes on with b.
GoesOn(o, b, closed, K, w) ==
    \E k \in K, v \in Warning :
       /\ w = o[k] /\ \A j \in K : k <= j
       /\ Framed(o, b, closed, K \ {k}, v)

\* When the first frame has been read, the stream goes on with the next.
LEMMA FramedRead ==
    ASSUME NEW o, NEW c \in Seq(Byte), NEW b \in Seq(Byte), NEW closed,
           NEW K \in SUBSET Nat, NEW w \in Warning, \A k \in K : o[k] \in Warning,
           Framed(o, c \o b, closed, K, w), Len(c) = Len(Frame(w))
    PROVE  GoesOn(o, b, closed, K, w)
<1> DEFINE s == c \o b
           n == Len(c)
<1>1. /\ s \in Seq(Byte) /\ n \in Nat /\ Len(b) \in Nat /\ Len(s) = n + Len(b)
      /\ \A i \in 1..Len(b) : s[n + i] = b[i]
  BY Concat
<1>2. PICK off, e : Parsed(o, s, closed, K, w, off, e)
  BY DEF Framed
<1>3. n \in Nat \ {0}
  BY FrameSize
<1>4. \A k \in K : Len(Frame(o[k])) \in Nat \ {0} /\ Frame(o[k]) \in Seq(Byte)
  BY FrameSize
<1> HIDE DEF s, n
<1>5. PICK k \in K : off[k] = 0 /\ w = o[k]
  <2>1. ~Begins(w, s, 0)
    BY <1>1, <1>3 DEF Begins, n
  <2> QED
    BY <1>2, <2>1 DEF Parsed
<1>6. off \in [K -> Nat] /\ e \in 0..Len(s)
  BY <1>2 DEF Parsed
<1>7. \A j \in K : k <= j
  <2>1. SUFFICES ASSUME NEW j \in K, j < k PROVE FALSE
    OBVIOUS
  <2>2. off[j] + Len(Frame(o[j])) <= 0
    BY <1>2, <1>5, <2>1 DEF Parsed
  <2> QED
    BY <1>4, <1>6, <2>2
<1> DEFINE J == K \ {k}
           rest == [j \in J |-> off[j] - n]
<1>8. n = Len(Frame(o[k])) /\ n <= e
  <2>1. n = Len(Frame(o[k]))
    BY <1>5 DEF n
  <2>2. off[k] + Len(Frame(o[k])) <= e
    BY <1>2 DEF Parsed
  <2> QED
    BY <1>3, <1>5, <2>1, <2>2
<1>9. \A j \in J : off[j] \in Nat /\ n <= off[j]
  <2>1. \A j \in J : k < j
    BY <1>7
  <2>2. \A j \in J : off[k] + Len(Frame(o[k])) <= off[j]
    BY <1>2, <2>1 DEF Parsed
  <2> QED
    BY <1>3, <1>5, <1>6, <1>8, <2>2
<1>10. rest \in [J -> Nat] /\ \A j \in J : rest[j] = off[j] - n
  BY <1>3, <1>9
<1>11. e - n \in 0..Len(b) /\ e \in Nat
  BY <1>1, <1>3, <1>6, <1>8
<1> HIDE DEF rest
<1>12. ASSUME NEW j \in J
       PROVE  /\ LiesAt(Frame(o[j]), b, rest[j])
              /\ rest[j] + Len(Frame(o[j])) <= e - n
              /\ \/ rest[j] + Len(Frame(o[j])) = e - n
                 \/ \E i \in J : rest[i] = rest[j] + Len(Frame(o[j]))
  <2> DEFINE m == Len(Frame(o[j]))
  <2>1. /\ LiesAt(Frame(o[j]), s, off[j]) /\ off[j] + m <= e
        /\ off[j] + m = e \/ \E i \in K : off[i] = off[j] + m
    BY <1>2 DEF Parsed
  <2>2. m \in Nat \ {0} /\ off[j] \in Nat /\ n <= off[j] /\ rest[j] = off[j] - n
    BY <1>4, <1>9, <1>10
  <2>3. LiesAt(Frame(o[j]), b, rest[j])
    <3>1. off[j] + m <= Len(s) /\ \A i \in 1..m : s[off[j] + i] = Frame(o[j])[i]
      BY <2>1 DEF LiesAt
    <3> HIDE DEF m
    <3>2. \A i \in 1..m : rest[j] + i \in 1..Len(b) /\ n + (rest[j] + i) = off[j] + i
      <4>1. PICK x \in Nat, y \in Nat : x = off[j] /\ y = rest[j] /\ x = y + n
        BY <1>3, <2>2
      <4>2. x + m <= n + Len(b) /\ n \in Nat /\ m \in Nat /\ Len(b) \in Nat
        BY <1>1, <2>2, <3>1, <4>1
      <4>a. x = y + n
        BY <4>1
      <4>3. \A i \in 1..m : y + i \in 1..Len(b) /\ n + (y + i) = x + i
        BY <4>a, <4>2, SMTT(30)
      <4> QED
        BY <4>1, <4>3
    <3>3. \A i \in 1..m : b[rest[j] + i] = Frame(o[j])[i]
      BY <1>1, <3>1, <3>2
    <3>4. rest[j] + m <= Len(b)
      BY <1>1, <1>3, <2>2, <3>1
    <3> QED
      BY <3>3, <3>4 DEF LiesAt, m
  <2> HIDE DEF m
  <2>4. rest[j] + m <= e - n
    BY <1>3, <1>11, <2>1, <2>2
  <2>5. ASSUME NEW i \in K, off[i] = off[j] + m
        PROVE  \E l \in J : rest[l] = rest[j] + m
    <3>1. i # k
      BY <1>5, <2>2, <2>5
    <3> QED
      BY <1>3, <1>10, <2>2, <2>5, <3>1
  <2>6. CASE off[j] + m = e
    BY <1>3, <1>11, <2>2, <2>3, <2>4, <2>6 DEF m
  <2> QED
    BY <2>1, <2>3, <2>4, <2>5, <2>6 DEF m
<1>13. ASSUME NEW i \in J, NEW j \in J, i < j
       PROVE  rest[i] + Len(Frame(o[i])) <= rest[j]
  <2>1. off[i] + Len(Frame(o[i])) <= off[j]
    BY <1>2, <1>13 DEF Parsed
  <2>2. rest[i] = off[i] - n /\ rest[j] = off[j] - n /\ off[i] \in Nat /\ off[j] \in Nat
    BY <1>9, <1>10
  <2>3. Len(Frame(o[i])) \in Nat /\ n \in Nat
    BY <1>3, <1>4
  <2> QED
    BY <2>1, <2>2, <2>3
<1>14. \A v \in Warning : Begins(v, s, e) => Begins(v, b, e - n)
  <2>1. SUFFICES ASSUME NEW v \in Warning, Begins(v, s, e) PROVE Begins(v, b, e - n)
    OBVIOUS
  <2>2. Len(b) - (e - n) = Len(s) - e
    BY <1>1, <1>11
  <2>3. \A i \in 1..Len(s) - e : (e - n) + i \in 1..Len(b) /\ n + ((e - n) + i) = e + i
    BY <1>1, <1>11
  <2>4. \A i \in 1..Len(s) - e : b[(e - n) + i] = Frame(v)[i]
    BY <1>1, <2>1, <2>3 DEF Begins
  <2> QED
    BY <2>1, <2>2, <2>4 DEF Begins
<1>15. \/ e - n = Len(b)
       \/ closed /\ \E v \in Warning : Begins(v, b, e - n)
  <2>1. CASE e = Len(s)
    BY <1>1, <1>11, <2>1
  <2>2. CASE closed /\ \E v \in Warning : Begins(v, s, e)
    BY <1>14, <2>2
  <2> QED
    BY <1>2, <2>1, <2>2 DEF Parsed
<1>16. PICK v \in Warning : \/ \E j \in J : rest[j] = 0 /\ v = o[j]
                            \/ e - n = 0 /\ Begins(v, b, 0)
  <2>1. n = e \/ \E j \in K : off[j] = n
    BY <1>2, <1>3, <1>5, <1>8 DEF Parsed
  <2>2. CASE \E j \in K : off[j] = n
    BY <1>3, <1>5, <1>10, <2>2
  <2>3. CASE n = e
    <3>1. e - n = 0
      BY <1>3, <2>3
    <3>2. CASE e - n = Len(b)
      <4>1. Begins(w, b, 0)
        BY <1>3, <3>1, <3>2 DEF Begins, n
      <4> QED
        BY <3>1, <4>1
    <3>3. CASE \E v \in Warning : Begins(v, b, e - n)
      BY <3>1, <3>3
    <3> QED
      BY <1>15, <3>2, <3>3
  <2> QED
    BY <2>1, <2>2, <2>3
<1>17. Parsed(o, b, closed, J, v, rest, e - n)
  BY <1>10, <1>11, <1>12, <1>13, <1>15, <1>16 DEF Parsed
<1>18. Framed(o, b, closed, J, v)
  BY <1>17 DEF Framed
<1> QED
  BY <1>5, <1>7, <1>18 DEF GoesOn

-----------------------------------------------------------------------------
(* The connections *)

Conn == [bytes : Seq(Byte), closed : BOOLEAN]

\* The bytes of connection c of cs since the warning that is being read began, of
\* which those in cons have been read.
Stream(cs, cons, c) == IF c = 1 THEN cons \o cs[1].bytes ELSE cs[c].bytes

\* Of the warnings o[1] to o[n], connection c carries those with the k in K[c], later
\* connections later ones, and none of the first m.  W[c] is what c begins with.
Streams(o, n, cs, cons, K, W, m) ==
    /\ cons \in Seq(Byte) /\ K \in [Nat -> SUBSET Nat] /\ W \in [Nat -> Warning]
    /\ m \in Nat /\ m <= n
    /\ \A c \in 1..Len(cs) : \A k \in K[c] : m < k /\ k <= n
    /\ \A c \in 1..Len(cs) : Framed(o, Stream(cs, cons, c), cs[c].closed, K[c], W[c])
    /\ \A c, d \in 1..Len(cs) : c < d => \A j \in K[c], k \in K[d] : j < k
    /\ cs = <<>> => cons = <<>>

\* The parts of a connection.
LEMMA ConnParts ==
    ASSUME NEW cs \in Seq(Conn), NEW p \in 1..Len(cs)
    PROVE  cs[p] \in Conn /\ cs[p].bytes \in Seq(Byte) /\ cs[p].closed \in BOOLEAN
<1>1. cs[p] \in Conn
  BY ElementOfSeq, Zenon
<1> QED
  BY <1>1 DEF Conn

\* A stream is a sequence of bytes.
LEMMA StreamBytes ==
    ASSUME NEW cs \in Seq(Conn), NEW cons \in Seq(Byte), NEW c \in 1..Len(cs)
    PROVE  Stream(cs, cons, c) \in Seq(Byte)
<1>1. cs[c].bytes \in Seq(Byte)
  BY ConnParts
<1>2. CASE c = 1
  <2>1. cons \o cs[c].bytes \in Seq(Byte)
    BY <1>1, Joined, Zenon
  <2> QED
    BY <1>2, <2>1 DEF Stream
<1>3. CASE c # 1
  BY <1>1, <1>3 DEF Stream
<1> QED
  BY <1>2, <1>3

\* One connection changes: bytes are written to the latest, or read from the first.
LEMMA StreamsChange ==
    ASSUME NEW o, NEW n \in Nat, NEW cs \in Seq(Conn), NEW cons, NEW K, NEW W, NEW m,
           Streams(o, n, cs, cons, K, W, m),
           NEW cs2 \in Seq(Conn), NEW cons2 \in Seq(Byte), NEW p \in 1..Len(cs),
           Len(cs2) = Len(cs), \A c \in 1..Len(cs) : c # p => cs2[c] = cs[c],
           p = 1 \/ cons2 = cons,
           NEW n2 \in Nat, n <= n2, NEW m2 \in Nat, m <= m2, m2 <= n2,
           \A c \in 1..Len(cs) : c # p => \A k \in K[c] : m2 < k,
           NEW J \in SUBSET Nat,
           \A k \in J : m2 < k /\ (k \in K[p] \/ (p = Len(cs) /\ n < k /\ k <= n2)),
           NEW v \in Warning, Framed(o, Stream(cs2, cons2, p), cs2[p].closed, J, v)
    PROVE  Streams(o, n2, cs2, cons2, [K EXCEPT ![p] = J], [W EXCEPT ![p] = v], m2)
<1> DEFINE K2 == [K EXCEPT ![p] = J]
           W2 == [W EXCEPT ![p] = v]
<1>1. /\ cons \in Seq(Byte) /\ K \in [Nat -> SUBSET Nat] /\ W \in [Nat -> Warning] /\ m \in Nat
      /\ \A c \in 1..Len(cs) : \A k \in K[c] : m < k /\ k <= n
      /\ \A c, d \in 1..Len(cs) : c < d => \A j \in K[c], k \in K[d] : j < k
  BY DEF Streams
<1>2. Len(cs) \in Nat /\ p \in Nat /\ 1 <= p /\ p <= Len(cs)
  OBVIOUS
<1>3. K2 \in [Nat -> SUBSET Nat] /\ W2 \in [Nat -> Warning]
  BY <1>1, <1>2
<1>4. /\ K2[p] = J /\ W2[p] = v
      /\ \A c \in 1..Len(cs) : c # p => K2[c] = K[c] /\ W2[c] = W[c]
  BY <1>1, <1>2
<1> HIDE DEF K2, W2
<1>5. \A c \in 1..Len(cs) : \A k \in K2[c] : m2 < k /\ k <= n2
  <2>1. SUFFICES ASSUME NEW c \in 1..Len(cs), NEW k \in K2[c] PROVE m2 < k /\ k <= n2
    OBVIOUS
  <2>2. CASE c = p
    BY <1>1, <1>4, <2>2
  <2>3. CASE c # p
    BY <1>1, <1>4, <2>3
  <2> QED
    BY <2>2, <2>3
<1>6. \A c \in 1..Len(cs) : Framed(o, Stream(cs2, cons2, c), cs2[c].closed, K2[c], W2[c])
  <2>1. SUFFICES ASSUME NEW c \in 1..Len(cs), c # p
                 PROVE  Framed(o, Stream(cs2, cons2, c), cs2[c].closed, K2[c], W2[c])
    BY <1>4
  <2>2. cs2[c] = cs[c] /\ K2[c] = K[c] /\ W2[c] = W[c]
    BY <1>4, <2>1
  <2>3. Stream(cs2, cons2, c) = Stream(cs, cons, c)
    BY <2>1, <2>2 DEF Stream
  <2>4. Framed(o, Stream(cs, cons, c), cs[c].closed, K[c], W[c])
    BY DEF Streams
  <2> QED
    BY <2>2, <2>3, <2>4
<1>7. \A c, d \in 1..Len(cs) : c < d => \A j \in K2[c], k \in K2[d] : j < k
  <2>1. SUFFICES ASSUME NEW c \in 1..Len(cs), NEW d \in 1..Len(cs), c < d,
                        NEW j \in K2[c], NEW k \in K2[d]
                 PROVE  j < k
    OBVIOUS
  <2>2. CASE c = p
    <3>1. j \in J /\ k \in K[d] /\ p # Len(cs)
      BY <1>2, <1>4, <2>1, <2>2
    <3>2. j \in K[c]
      BY <2>2, <3>1
    <3> QED
      BY <1>1, <2>1, <3>1, <3>2
  <2>3. CASE d = p
    <3>1. j \in K[c] /\ c # p
      BY <1>4, <2>1, <2>3
    <3>2. k \in J
      BY <1>4, <2>3
    <3>3. CASE k \in K[p]
      BY <1>1, <2>1, <2>3, <3>1, <3>3
    <3>4. CASE n < k
      <4>1. j \in Nat /\ j <= n /\ k \in Nat
        BY <1>1, <1>2, <3>1, <3>2
      <4> QED
        BY <3>4, <4>1
    <3> QED
      BY <3>2, <3>3, <3>4
  <2>4. CASE c # p /\ d # p
    BY <1>1, <1>4, <2>1, <2>4
  <2> QED
    BY <2>2, <2>3, <2>4
<1>8. cs2 # <<>>
  BY <1>2, EmptySeq
<1>9. Streams(o, n2, cs2, cons2, K2, W2, m2)
  BY <1>3, <1>5, <1>6, <1>7, <1>8 DEF Streams
<1> QED
  BY <1>9 DEF K2, W2

\* What becomes of the connections when one is written or read.
LEMMA Replaced ==
    ASSUME NEW cs \in Seq(Conn), NEW p \in 1..Len(cs), NEW r \in Conn
    PROVE  /\ [cs EXCEPT ![p] = r] \in Seq(Conn)
           /\ Len([cs EXCEPT ![p] = r]) = Len(cs)
           /\ [cs EXCEPT ![p] = r][p] = r
           /\ \A c \in 1..Len(cs) : c # p => [cs EXCEPT ![p] = r][c] = cs[c]
<1>1. /\ [cs EXCEPT ![p] = r] \in Seq(Conn)
      /\ Len([cs EXCEPT ![p] = r]) = Len(cs)
      /\ \A j \in 1..Len(cs) : [cs EXCEPT ![p] = r][j] = IF j = p THEN r ELSE cs[j]
  BY ExceptSeq
<1> QED
  BY <1>1

\* A call that sends nothing.
LEMMA StreamsSkip ==
    ASSUME NEW o, NEW n \in Nat, NEW cs \in Seq(Conn), NEW cons, NEW K, NEW W, NEW m,
           Streams(o, n, cs, cons, K, W, m)
    PROVE  Streams(o, n + 1, cs, cons, K, W, m)
<1>1. m \in Nat /\ m <= n /\ \A c \in 1..Len(cs) : K[c] \in SUBSET Nat
  BY DEF Streams
<1>2. m <= n + 1
  BY <1>1
<1>3. \A c \in 1..Len(cs) : \A k \in K[c] : m < k /\ k <= n + 1
  <2>1. \A c \in 1..Len(cs) : \A k \in K[c] : m < k /\ k <= n
    BY DEF Streams
  <2> QED
    BY <1>1, <2>1
<1> QED
  BY <1>2, <1>3 DEF Streams

Fresh == [bytes |-> <<>>, closed |-> FALSE]

\* A new connection.
LEMMA StreamsOpen ==
    ASSUME NEW o, NEW n \in Nat, NEW cs \in Seq(Conn), NEW cons, NEW K, NEW W, NEW m,
           Streams(o, n, cs, cons, K, W, m)
    PROVE  \E K2 : Streams(o, n, Append(cs, Fresh), cons, K2, W, m)
<1> DEFINE l == Len(cs) + 1
           cs2 == Append(cs, Fresh)
           K2 == [K EXCEPT ![l] = {}]
<1>1. /\ cons \in Seq(Byte) /\ K \in [Nat -> SUBSET Nat] /\ W \in [Nat -> Warning]
      /\ m \in Nat /\ m <= n
      /\ \A c \in 1..Len(cs) : \A k \in K[c] : m < k /\ k <= n
      /\ \A c, d \in 1..Len(cs) : c < d => \A j \in K[c], k \in K[d] : j < k
      /\ cs = <<>> => cons = <<>>
  BY DEF Streams
<1>2. Len(cs) \in Nat /\ l \in Nat /\ \A c \in 1..l : c \in 1..Len(cs) \/ c = l
  BY LenProperties
<1>3. Fresh \in Conn
  <2>1. <<>> \in Seq(Byte)
    BY EmptySeq, Zenon
  <2> QED
    BY <2>1 DEF Fresh, Conn
<1>4. /\ cs2 \in Seq(Conn) /\ cs2 # <<>> /\ Len(cs2) = l
      /\ \A c \in 1..Len(cs) : cs2[c] = cs[c]
      /\ cs2[l] = Fresh
  BY <1>3, AppendProperties
<1>5. K2 \in [Nat -> SUBSET Nat] /\ K2[l] = {} /\ \A c \in 1..Len(cs) : K2[c] = K[c]
  BY <1>1, <1>2
<1> HIDE DEF l, cs2, K2
<1>6. \A c \in 1..l : \A k \in K2[c] : m < k /\ k <= n
  BY <1>1, <1>2, <1>5
<1>7. \A c, d \in 1..l : c < d => \A j \in K2[c], k \in K2[d] : j < k
  BY <1>1, <1>2, <1>5
<1>8. \A c \in 1..Len(cs) : Framed(o, Stream(cs2, cons, c), cs2[c].closed, K2[c], W[c])
  <2>1. SUFFICES ASSUME NEW c \in 1..Len(cs)
                 PROVE  Framed(o, Stream(cs2, cons, c), cs2[c].closed, K2[c], W[c])
    OBVIOUS
  <2>2. cs2[c] = cs[c] /\ K2[c] = K[c]
    BY <1>4, <1>5
  <2>3. Stream(cs2, cons, c) = Stream(cs, cons, c)
    BY <2>2 DEF Stream
  <2>4. Framed(o, Stream(cs, cons, c), cs[c].closed, K[c], W[c])
    BY DEF Streams
  <2> QED
    BY <2>2, <2>3, <2>4
<1>9. Framed(o, Stream(cs2, cons, l), cs2[l].closed, K2[l], W[l])
  <2>1. Fresh.bytes = <<>>
    BY DEF Fresh
  <2>2. Stream(cs2, cons, l) = <<>>
    <3>1. CASE l = 1
      <4>1. cs = <<>>
        BY <1>2, <3>1, EmptySeq DEF l
      <4>2. cons \o <<>> = <<>>
        <5>1. <<>> \in Seq(Byte) /\ Len(<<>>) = 0
          BY EmptySeq
        <5>2. (<<>> \o <<>>) \in Seq(Byte) /\ Len(<<>> \o <<>>) = 0
          BY <5>1, Joined
        <5> QED
          BY <1>1, <4>1, <5>1, <5>2, SameBytes
      <4> QED
        BY <1>4, <2>1, <3>1, <4>2 DEF Stream
    <3>2. CASE l # 1
      BY <1>4, <2>1, <3>2 DEF Stream
    <3> QED
      BY <3>1, <3>2
  <2>3. W[l] \in Warning
    BY <1>1, <1>2
  <2>4. Framed(o, <<>>, cs2[l].closed, {}, W[l])
    BY <2>3, FramedNone
  <2> QED
    BY <1>5, <2>2, <2>4
<1>10. \A c \in 1..l : Framed(o, Stream(cs2, cons, c), cs2[c].closed, K2[c], W[c])
  BY <1>2, <1>8, <1>9
<1>11. Streams(o, n, cs2, cons, K2, W, m)
  BY <1>1, <1>4, <1>5, <1>6, <1>7, <1>10 DEF Streams
<1> QED
  BY <1>11 DEF cs2

\* The connection that is read is dropped, with whatever is in it.
LEMMA StreamsDrop ==
    ASSUME NEW o, NEW n \in Nat, NEW cs \in Seq(Conn), cs # <<>>, NEW cons, NEW K, NEW W, NEW m,
           Streams(o, n, cs, cons, K, W, m)
    PROVE  \E K2, W2 : Streams(o, n, Tail(cs), <<>>, K2, W2, m)
<1> DEFINE cs2 == Tail(cs)
           K2 == [c \in Nat |-> K[c + 1]]
           W2 == [c \in Nat |-> W[c + 1]]
<1>1. /\ K \in [Nat -> SUBSET Nat] /\ W \in [Nat -> Warning] /\ m \in Nat /\ m <= n
      /\ \A c \in 1..Len(cs) : \A k \in K[c] : m < k /\ k <= n
      /\ \A c, d \in 1..Len(cs) : c < d => \A j \in K[c], k \in K[d] : j < k
  BY DEF Streams
<1>2. /\ cs2 \in Seq(Conn) /\ Len(cs2) = Len(cs) - 1
      /\ \A c \in 1..Len(cs2) : cs2[c] = cs[c + 1]
  BY HeadTailProperties
<1>3. Len(cs) \in Nat /\ Len(cs2) \in Nat
  BY <1>2, LenProperties
<1>4. \A c \in 1..Len(cs2) : c \in Nat /\ c + 1 \in 1..Len(cs)
  BY <1>2, <1>3
<1>5. /\ K2 \in [Nat -> SUBSET Nat] /\ W2 \in [Nat -> Warning]
      /\ \A c \in 1..Len(cs2) : K2[c] = K[c + 1] /\ W2[c] = W[c + 1]
  <2>1. \A c \in Nat : K[c + 1] \in SUBSET Nat /\ W[c + 1] \in Warning
    BY <1>1
  <2>2. K2 \in [Nat -> SUBSET Nat] /\ W2 \in [Nat -> Warning]
    BY <2>1
  <2> QED
    BY <1>4, <2>2
<1> HIDE DEF cs2, K2, W2
<1>6. \A c \in 1..Len(cs2) : \A k \in K2[c] : m < k /\ k <= n
  BY <1>1, <1>4, <1>5
<1>7. \A c, d \in 1..Len(cs2) : c < d => \A j \in K2[c], k \in K2[d] : j < k
  <2>1. SUFFICES ASSUME NEW c \in 1..Len(cs2), NEW d \in 1..Len(cs2), c < d
                 PROVE  \A j \in K2[c], k \in K2[d] : j < k
    OBVIOUS
  <2>2. c + 1 < d + 1
    BY <2>1
  <2> QED
    BY <1>1, <1>4, <1>5, <2>2
<1>8. <<>> \in Seq(Byte)
  BY EmptySeq, Zenon
<1>9. ASSUME NEW c \in 1..Len(cs2)
      PROVE  Framed(o, Stream(cs2, <<>>, c), cs2[c].closed, K2[c], W2[c])
  <2>1. cs2[c] = cs[c + 1] /\ K2[c] = K[c + 1] /\ W2[c] = W[c + 1]
    BY <1>2, <1>5
  <2>2. cs2[c] \in Conn
    BY <1>2, ElementOfSeq, Zenon
  <2>3. <<>> \o cs2[c].bytes = cs2[c].bytes
    <3>1. cs2[c].bytes \in Seq(Byte)
      BY <2>2 DEF Conn
    <3> QED
      BY <3>1, ConcatEmptySeq, Zenon
  <2>4. Stream(cs2, <<>>, c) = cs2[c].bytes
    BY <2>3 DEF Stream
  <2>5. Stream(cs, cons, c + 1) = cs[c + 1].bytes
    BY <1>4 DEF Stream
  <2>6. Framed(o, Stream(cs, cons, c + 1), cs[c + 1].closed, K[c + 1], W[c + 1])
    BY <1>4 DEF Streams
  <2> QED
    BY <2>1, <2>4, <2>5, <2>6
<1>10. Streams(o, n, cs2, <<>>, K2, W2, m)
  BY <1>1, <1>5, <1>6, <1>7, <1>8, <1>9 DEF Streams
<1> QED
  BY <1>10 DEF cs2

\* Bytes that are put together in two ways.
LEMMA Associates ==
    ASSUME NEW s \in Seq(Byte), NEW t \in Seq(Byte), NEW u \in Seq(Byte)
    PROVE  (s \o t) \o u = s \o (t \o u)
<1> DEFINE a == s \o t
           b == t \o u
<1>1. /\ a \in Seq(Byte) /\ Len(s) \in Nat /\ Len(t) \in Nat /\ Len(a) = Len(s) + Len(t)
      /\ \A i \in 1..Len(s) : a[i] = s[i]
      /\ \A i \in 1..Len(t) : a[Len(s) + i] = t[i]
  BY Concat
<1>2. /\ b \in Seq(Byte) /\ Len(u) \in Nat /\ Len(b) = Len(t) + Len(u)
      /\ \A i \in 1..Len(t) : b[i] = t[i]
      /\ \A i \in 1..Len(u) : b[Len(t) + i] = u[i]
  BY Concat
<1> HIDE DEF a, b
<1> DEFINE x == a \o u
           y == s \o b
<1>3. /\ x \in Seq(Byte) /\ Len(x) = Len(a) + Len(u)
      /\ \A i \in 1..Len(a) : x[i] = a[i]
      /\ \A i \in 1..Len(u) : x[Len(a) + i] = u[i]
  BY <1>1, Concat
<1>4. /\ y \in Seq(Byte) /\ Len(y) = Len(s) + Len(b)
      /\ \A i \in 1..Len(s) : y[i] = s[i]
      /\ \A i \in 1..Len(b) : y[Len(s) + i] = b[i]
  BY <1>2, Concat
<1> HIDE DEF x, y
<1>5. Len(x) = Len(y)
  BY <1>1, <1>2, <1>3, <1>4
<1>6. ASSUME NEW i \in 1..Len(x)
      PROVE  x[i] = y[i]
  <2>1. CASE i <= Len(s)
    BY <1>1, <1>2, <1>3, <1>4, <2>1
  <2>2. CASE Len(s) < i /\ i <= Len(a)
    <3> DEFINE j == i - Len(s)
    <3>1. j \in 1..Len(t) /\ i = Len(s) + j
      BY <1>1, <2>2
    <3> HIDE DEF j
    <3>2. x[i] = t[j]
      BY <1>1, <1>3, <2>2, <3>1
    <3>3. y[i] = t[j]
      BY <1>1, <1>2, <1>4, <3>1
    <3> QED
      BY <3>2, <3>3
  <2>3. CASE Len(a) < i
    <3> DEFINE j == i - Len(a)
    <3>1. j \in 1..Len(u) /\ i = Len(a) + j
      BY <1>1, <1>2, <1>3, <2>3
    <3> HIDE DEF j
    <3>2. x[i] = u[j]
      BY <1>3, <3>1
    <3>3. Len(t) + j \in 1..Len(b) /\ i = Len(s) + (Len(t) + j)
      BY <1>1, <1>2, <3>1
    <3>4. y[i] = u[j]
      BY <1>2, <1>4, <3>1, <3>3
    <3> QED
      BY <3>2, <3>4
  <2> QED
    BY <1>1, <2>1, <2>2, <2>3
<1>7. x = y
  BY <1>3, <1>4, <1>5, <1>6, SameBytes
<1> QED
  BY <1>7 DEF x, y, a, b

\* What is written behind the bytes of a connection is behind those of its stream.
LEMMA StreamGrows ==
    ASSUME NEW cs \in Seq(Conn), NEW cons \in Seq(Byte), NEW p \in 1..Len(cs),
           NEW cs2, NEW f \in Seq(Byte), cs2[p].bytes = cs[p].bytes \o f
    PROVE  Stream(cs2, cons, p) = Stream(cs, cons, p) \o f
<1>1. cs[p].bytes \in Seq(Byte)
  BY ConnParts
<1>2. (cons \o cs[p].bytes) \o f = cons \o (cs[p].bytes \o f)
  <2> DEFINE b == cs[p].bytes
  <2>1. b \in Seq(Byte)
    BY <1>1
  <2> HIDE DEF b
  <2>2. (cons \o b) \o f = cons \o (b \o f)
    BY <2>1, Associates
  <2> QED
    BY <2>2 DEF b
<1> QED
  BY <1>2 DEF Stream

\* What is written for w: its whole frame, or a part of it and the connection is closed.
Writes(w, f, closed) ==
    \/ f = Frame(w) /\ ~closed
    \/ closed /\ \E l \in 0..Len(Frame(w)) - 1 : f = SubSeq(Frame(w), 1, l)

Written(cs, f, closed) ==
    [cs EXCEPT ![Len(cs)] = [bytes |-> cs[Len(cs)].bytes \o f, closed |-> closed]]

\* From cs to cs2 one more warning is sent.  What the first connection begins with
\* changes only if it was empty.
Continued(o, n, cs, cs2, cons, W, m) ==
    \E K2, W2 :
       /\ Streams(o, n + 1, cs2, cons, K2, W2, m)
       /\ W2[1] = W[1] \/ (Len(cs) = 1 /\ Stream(cs, cons, 1) = <<>>)

\* The latest connection is written.
LEMMA StreamsWrite ==
    ASSUME NEW o, NEW n \in Nat, NEW cs \in Seq(Conn), cs # <<>>, ~cs[Len(cs)].closed,
           NEW cons, NEW K, NEW W, NEW m, Streams(o, n, cs, cons, K, W, m),
           \A k \in 1..n + 1 : o[k] \in Warning,
           NEW f \in Seq(Byte), NEW closed \in BOOLEAN, Writes(o[n + 1], f, closed)
    PROVE  Continued(o, n, cs, Written(cs, f, closed), cons, W, m)
<1> DEFINE p == Len(cs)
           r == [bytes |-> cs[p].bytes \o f, closed |-> closed]
           cs2 == [cs EXCEPT ![p] = r]
           s == Stream(cs, cons, p)
           v == IF s = <<>> THEN o[n + 1] ELSE W[p]
<1>1. /\ cons \in Seq(Byte) /\ K \in [Nat -> SUBSET Nat] /\ W \in [Nat -> Warning]
      /\ m \in Nat /\ m <= n
      /\ \A c \in 1..Len(cs) : \A k \in K[c] : m < k /\ k <= n
  BY DEF Streams
<1>2. p \in Nat /\ p \in 1..Len(cs)
  <2>1. Len(cs) \in Nat /\ Len(cs) # 0
    BY LenProperties, EmptySeq
  <2> QED
    BY <2>1
<1>3. cs[p] \in Conn /\ cs[p].bytes \in Seq(Byte) /\ cs[p].closed = FALSE
  BY <1>2, ConnParts
<1>4. r \in Conn /\ r.bytes = cs[p].bytes \o f /\ r.closed = closed
  <2>1. cs[p].bytes \o f \in Seq(Byte)
    BY <1>3, Joined
  <2> QED
    BY <2>1 DEF Conn
<1> HIDE DEF p, r
<1>5. /\ cs2 \in Seq(Conn) /\ Len(cs2) = Len(cs) /\ cs2[p] = r
      /\ \A c \in 1..Len(cs) : c # p => cs2[c] = cs[c]
  BY <1>2, <1>4, Replaced
<1> HIDE DEF cs2
<1>6. Stream(cs2, cons, p) = s \o f
  BY <1>1, <1>2, <1>4, <1>5, StreamGrows
<1>7. s \in Seq(Byte) /\ Framed(o, s, FALSE, K[p], W[p])
  <2>1. Framed(o, s, cs[p].closed, K[p], W[p])
    BY <1>2 DEF Streams
  <2> QED
    BY <1>1, <1>2, <1>3, <2>1, StreamBytes
<1> HIDE DEF s
<1>8. o[n + 1] \in Warning /\ v \in Warning /\ K[p] \in SUBSET (1..n)
  <2>1. o[n + 1] \in Warning /\ W[p] \in Warning
    BY <1>1, <1>2
  <2>2. \A k \in K[p] : k \in Nat /\ m < k /\ k <= n
    BY <1>1, <1>2
  <2>3. \A k \in K[p] : k \in 1..n
    BY <1>1, <2>2
  <2>4. v \in Warning
    BY <2>1
  <2> QED
    BY <2>1, <2>3, <2>4
<1>9. \A k \in K[p] : o[k] \in Warning
  BY <1>8
<1>10. PICK J \in SUBSET Nat : /\ J = K[p] \/ J = K[p] \cup {n + 1}
                               /\ Framed(o, s \o f, closed, J, v)
  <2>1. CASE f = Frame(o[n + 1]) /\ ~closed
    <3>1. Framed(o, s \o Frame(o[n + 1]), FALSE, K[p] \cup {n + 1}, v)
      BY <1>7, <1>8, FramedSend
    <3>2. K[p] \cup {n + 1} \in SUBSET Nat
      BY <1>8
    <3>3. closed = FALSE
      BY <2>1
    <3> QED
      BY <2>1, <3>1, <3>2, <3>3
  <2>2. ASSUME NEW l \in 0..Len(Frame(o[n + 1])) - 1, closed, f = SubSeq(Frame(o[n + 1]), 1, l)
        PROVE  Framed(o, s \o f, closed, K[p], v)
    <3>1. Framed(o, s \o SubSeq(Frame(o[n + 1]), 1, l), TRUE, K[p], v)
      BY <1>7, <1>8, <1>9, FramedPart
    <3>2. closed = TRUE
      BY <2>2
    <3> QED
      BY <2>2, <3>1, <3>2
  <2>3. K[p] \in SUBSET Nat
    BY <1>1, <1>2
  <2> QED
    BY <2>1, <2>2, <2>3 DEF Writes
<1> HIDE DEF v
<1>11. \A k \in J : m < k /\ (k \in K[p] \/ (p = Len(cs) /\ n < k /\ k <= n + 1))
  BY <1>1, <1>2, <1>10 DEF p
<1>12. Framed(o, Stream(cs2, cons, p), cs2[p].closed, J, v)
  BY <1>4, <1>5, <1>6, <1>10
<1> DEFINE K2 == [K EXCEPT ![p] = J]
           W2 == [W EXCEPT ![p] = v]
<1>13. Streams(o, n + 1, cs2, cons, K2, W2, m)
  <2>1. n + 1 \in Nat /\ n <= n + 1 /\ m <= m /\ m <= n + 1
    BY <1>1
  <2>2. \A c \in 1..Len(cs) : c # p => \A k \in K[c] : m < k
    BY <1>1
  <2> QED
    BY <1>1, <1>2, <1>5, <1>8, <1>11, <1>12, <2>1, <2>2, StreamsChange
<1>14. W2[1] = W[1] \/ (Len(cs) = 1 /\ Stream(cs, cons, 1) = <<>>)
  <2>1. CASE p # 1
    BY <1>1, <1>2, <2>1
  <2>2. CASE p = 1 /\ s # <<>>
    BY <1>1, <2>2 DEF v
  <2>3. CASE p = 1 /\ s = <<>>
    BY <2>3 DEF p, s
  <2> QED
    BY <2>1, <2>2, <2>3
<1> HIDE DEF K2, W2
<1> QED
  BY <1>13, <1>14 DEF cs2, r, p, Continued, Written

\* What Streams says of one connection, and of the variables it is about.
LEMMA StreamsParts ==
    ASSUME NEW o, NEW n \in Nat, NEW cs \in Seq(Conn), NEW cons, NEW K, NEW W, NEW m,
           Streams(o, n, cs, cons, K, W, m), NEW p \in 1..Len(cs)
    PROVE  /\ cons \in Seq(Byte) /\ m \in Nat /\ m <= n
           /\ K[p] \in SUBSET Nat /\ W[p] \in Warning
           /\ \A c \in 1..Len(cs) : \A k \in K[c] : m < k /\ k <= n
           /\ Stream(cs, cons, p) \in Seq(Byte)
           /\ Framed(o, Stream(cs, cons, p), cs[p].closed, K[p], W[p])
<1>1. /\ cons \in Seq(Byte) /\ K \in [Nat -> SUBSET Nat] /\ W \in [Nat -> Warning]
      /\ m \in Nat /\ m <= n /\ p \in Nat
      /\ \A c \in 1..Len(cs) : \A k \in K[c] : m < k /\ k <= n
      /\ Framed(o, Stream(cs, cons, p), cs[p].closed, K[p], W[p])
  BY DEF Streams
<1>2. Stream(cs, cons, p) \in Seq(Byte)
  BY <1>1, StreamBytes
<1> QED
  BY <1>1, <1>2

\* The latest connection is closed.
LEMMA StreamsClose ==
    ASSUME NEW o, NEW n \in Nat, NEW cs \in Seq(Conn), cs # <<>>,
           NEW cons, NEW K, NEW W, NEW m, Streams(o, n, cs, cons, K, W, m)
    PROVE  Streams(o, n,
                   [cs EXCEPT ![Len(cs)] = [bytes |-> cs[Len(cs)].bytes \o <<>>, closed |-> TRUE]],
                   cons, K, W, m)
<1> DEFINE p == Len(cs)
           r == [bytes |-> cs[p].bytes \o <<>>, closed |-> TRUE]
           cs2 == [cs EXCEPT ![p] = r]
<1>1. p \in 1..Len(cs)
  <2>1. Len(cs) \in Nat /\ Len(cs) # 0
    BY LenProperties, EmptySeq
  <2> QED
    BY <2>1
<1>2. /\ cons \in Seq(Byte) /\ m \in Nat /\ m <= n /\ K[p] \in SUBSET Nat /\ W[p] \in Warning
      /\ \A c \in 1..Len(cs) : \A k \in K[c] : m < k /\ k <= n
      /\ Framed(o, Stream(cs, cons, p), cs[p].closed, K[p], W[p])
  BY <1>1, StreamsParts
<1>3. K \in [Nat -> SUBSET Nat] /\ W \in [Nat -> Warning] /\ p \in Nat
  BY <1>1 DEF Streams
<1>4. cs[p].bytes \in Seq(Byte)
  BY <1>1, ConnParts
<1>5. cs[p].bytes \o <<>> = cs[p].bytes
  BY <1>4, ConcatEmptySeq, Zenon
<1>6. r \in Conn /\ r.bytes = cs[p].bytes /\ r.closed = TRUE
  BY <1>4, <1>5 DEF Conn
<1> HIDE DEF p, r
<1>7. /\ cs2 \in Seq(Conn) /\ Len(cs2) = Len(cs) /\ cs2[p] = r
      /\ \A c \in 1..Len(cs) : c # p => cs2[c] = cs[c]
  BY <1>1, <1>6, Replaced
<1> HIDE DEF cs2
<1>8. Stream(cs2, cons, p) = Stream(cs, cons, p)
  BY <1>6, <1>7 DEF Stream
<1>9. Framed(o, Stream(cs2, cons, p), cs2[p].closed, K[p], W[p])
  <2>1. Framed(o, Stream(cs, cons, p), TRUE, K[p], W[p])
    BY <1>2, FramedClosed
  <2> QED
    BY <1>6, <1>7, <1>8, <2>1
<1>10. \A k \in K[p] : m < k /\ (k \in K[p] \/ (p = Len(cs) /\ n < k /\ k <= n))
  BY <1>1, <1>2
<1>11. \A c \in 1..Len(cs) : c # p => \A k \in K[c] : m < k
  BY <1>2
<1>12. Streams(o, n, cs2, cons, [K EXCEPT ![p] = K[p]], [W EXCEPT ![p] = W[p]], m)
  <2>1. n <= n /\ m <= m
    BY <1>2
  <2> QED
    BY <1>1, <1>2, <1>7, <1>9, <1>10, <1>11, <2>1, StreamsChange
<1>13. [K EXCEPT ![p] = K[p]] = K /\ [W EXCEPT ![p] = W[p]] = W
  BY <1>3
<1> QED
  BY <1>12, <1>13 DEF cs2, r, p

\* The connections cs2 are linked as well, and begin with the same warning w.
StillBegins(o, n, cs2, cons, w, m) ==
    \E K2, W2 : Streams(o, n, cs2, cons, K2, W2, m) /\ W2[1] = w

\* The first connection is reset: what is left of its stream is what has been read.
LEMMA StreamsReset ==
    ASSUME NEW o, NEW n \in Nat, NEW cs \in Seq(Conn), cs # <<>>,
           NEW cons, NEW K, NEW W, NEW m, Streams(o, n, cs, cons, K, W, m),
           Len(cons) <= Len(Frame(W[1]))
    PROVE  StillBegins(o, n, [cs EXCEPT ![1] = [bytes |-> <<>>, closed |-> TRUE]],
                       cons, W[1], m)
<1> DEFINE r == [bytes |-> <<>>, closed |-> TRUE]
           cs2 == [cs EXCEPT ![1] = r]
<1>1. 1 \in 1..Len(cs)
  <2>1. Len(cs) \in Nat /\ Len(cs) # 0
    BY LenProperties, EmptySeq
  <2> QED
    BY <2>1
<1>2. /\ cons \in Seq(Byte) /\ m \in Nat /\ m <= n /\ K[1] \in SUBSET Nat /\ W[1] \in Warning
      /\ \A c \in 1..Len(cs) : \A k \in K[c] : m < k /\ k <= n
      /\ Framed(o, Stream(cs, cons, 1), cs[1].closed, K[1], W[1])
  BY <1>1, StreamsParts
<1>3. K \in [Nat -> SUBSET Nat] /\ W \in [Nat -> Warning] /\ 1 \in Nat
  BY DEF Streams
<1>4. cs[1].bytes \in Seq(Byte)
  BY <1>1, ConnParts
<1>5. PICK J \in SUBSET K[1] : Framed(o, cons, TRUE, J, W[1])
  <2>1. Framed(o, cons \o cs[1].bytes, cs[1].closed, K[1], W[1])
    BY <1>2 DEF Stream
  <2> DEFINE b == cs[1].bytes
             h == cs[1].closed
             L == K[1]
             w == W[1]
  <2>2. /\ cons \in Seq(Byte) /\ b \in Seq(Byte) /\ L \in SUBSET Nat /\ w \in Warning
        /\ Framed(o, cons \o b, h, L, w) /\ Len(cons) <= Len(Frame(w))
    BY <1>2, <1>4, <2>1
  <2> HIDE DEF b, h, L, w
  <2>3. \E J \in SUBSET L : Framed(o, cons, TRUE, J, w)
    BY <2>2, FramedCut, Zenon
  <2> QED
    BY <2>3 DEF L, w
<1>6. r \in Conn /\ r.bytes = <<>> /\ r.closed = TRUE
  <2>1. <<>> \in Seq(Byte)
    BY EmptySeq, Zenon
  <2> QED
    BY <2>1 DEF Conn
<1> HIDE DEF r
<1>7. /\ cs2 \in Seq(Conn) /\ Len(cs2) = Len(cs) /\ cs2[1] = r
      /\ \A c \in 1..Len(cs) : c # 1 => cs2[c] = cs[c]
  BY <1>1, <1>6, Replaced
<1> HIDE DEF cs2
<1>8. Stream(cs2, cons, 1) = cons
  <2>1. cons \o <<>> = cons
    BY <1>2, ConcatEmptySeq, Zenon
  <2> QED
    BY <1>6, <1>7, <2>1 DEF Stream
<1>9. Framed(o, Stream(cs2, cons, 1), cs2[1].closed, J, W[1])
  BY <1>5, <1>6, <1>7, <1>8
<1>10. J \in SUBSET Nat /\ \A k \in J : m < k /\ (k \in K[1] \/ (1 = Len(cs) /\ n < k /\ k <= n))
  BY <1>1, <1>2, <1>5
<1>11. \A c \in 1..Len(cs) : c # 1 => \A k \in K[c] : m < k
  BY <1>2
<1> DEFINE K2 == [K EXCEPT ![1] = J]
           W2 == [W EXCEPT ![1] = W[1]]
<1>12. Streams(o, n, cs2, cons, K2, W2, m)
  <2>1. n <= n /\ m <= m
    BY <1>2
  <2> QED
    BY <1>1, <1>2, <1>7, <1>9, <1>10, <1>11, <2>1, StreamsChange
<1>13. W2[1] = W[1]
  BY <1>3
<1> HIDE DEF K2, W2
<1> QED
  BY <1>12, <1>13 DEF cs2, r, StillBegins

\* A sequence of bytes is its beginning and its end.
LEMMA Halves ==
    ASSUME NEW b \in Seq(Byte), NEW k \in 1..Len(b)
    PROVE  /\ SubSeq(b, 1, k) \in Seq(Byte) /\ Len(SubSeq(b, 1, k)) = k
           /\ SubSeq(b, k + 1, Len(b)) \in Seq(Byte)
           /\ SubSeq(b, 1, k) \o SubSeq(b, k + 1, Len(b)) = b
<1> DEFINE x == SubSeq(b, 1, k)
           y == SubSeq(b, k + 1, Len(b))
<1>1. Len(b) \in Nat
  BY LenProperties
<1>2. x \in Seq(Byte) /\ Len(x) = k /\ \A i \in 1..k : x[i] = b[i]
  BY <1>1, Piece
<1>3. y \in Seq(Byte) /\ Len(y) = Len(b) - k /\ \A i \in 1..Len(b) - k : y[i] = b[k + i]
  <2>1. k + 1 \in 1..Len(b) + 1 /\ Len(b) \in (k + 1) - 1..Len(b)
    BY <1>1
  <2>2. /\ y \in Seq(Byte) /\ Len(y) = Len(b) - (k + 1) + 1
        /\ \A i \in 1..Len(b) - (k + 1) + 1 : y[i] = b[k + 1 + i - 1]
    BY <2>1, Piece
  <2> QED
    BY <1>1, <2>2
<1> HIDE DEF x, y
<1> DEFINE z == x \o y
<1>4. /\ z \in Seq(Byte) /\ Len(z) = Len(x) + Len(y)
      /\ \A i \in 1..Len(x) : z[i] = x[i]
      /\ \A i \in 1..Len(y) : z[Len(x) + i] = y[i]
  BY <1>2, <1>3, Concat
<1> HIDE DEF z
<1>5. Len(z) = Len(b)
  BY <1>1, <1>2, <1>3, <1>4
<1>6. ASSUME NEW i \in 1..Len(z)
      PROVE  z[i] = b[i]
  <2>1. CASE i <= k
    BY <1>2, <1>4, <2>1
  <2>2. CASE k < i
    <3> DEFINE j == i - k
    <3>1. j \in 1..Len(y) /\ i = k + j
      BY <1>1, <1>3, <1>5, <2>2
    <3> HIDE DEF j
    <3> QED
      BY <1>2, <1>3, <1>4, <3>1
  <2> QED
    BY <1>1, <2>1, <2>2
<1>7. z = b
  BY <1>4, <1>5, <1>6, SameBytes
<1> QED
  BY <1>2, <1>3, <1>7 DEF x, y, z

-----------------------------------------------------------------------------
(* Reading a warning *)

FieldValue == Nat \cup Seq(Byte)

\* The receiver has read the bytes cons of the frame of w: the fields in d are
\* decoded, and the bytes in b belong to the next one.
Partway(d, b, cons, w) ==
    /\ d \in Seq(FieldValue) /\ Len(d) \in 0..6
    /\ \A i \in 1..Len(d) : d[i] = Values(w)[i]
    /\ b \in Seq(Byte) /\ Len(b) <= Len(Chunks(w)[Len(d) + 1])
    /\ Len(cons) = Begin(w)[Len(d) + 1] + Len(b)
    /\ \A i \in 1..Len(b) : b[i] = cons[Begin(w)[Len(d) + 1] + i]

\* A field begins where the one before it ends.
LEMMA BeginNext ==
    ASSUME NEW w \in Warning, NEW f \in 1..7
    PROVE  /\ Begin(w)[1] = 0 /\ Begin(w)[8] = Len(Frame(w))
           /\ Begin(w)[f] \in Nat /\ Begin(w)[f + 1] \in Nat /\ Len(Chunks(w)[f]) \in Nat
           /\ Begin(w)[f + 1] = Begin(w)[f] + Len(Chunks(w)[f])
           /\ Begin(w)[f + 1] <= Begin(w)[8]
           /\ f # 1 => Begin(w)[f] # 0
<1> DEFINE b == Begin(w)
           L == [g \in 1..7 |-> Len(Chunks(w)[g])]
<1>1. PICK m \in Nat, n \in Nat : m = Len(w.city) /\ n = Len(w.dest_node)
  BY Parts
<1>2. /\ b[1] = 0 /\ b[2] = 4 /\ b[3] = 4 + m /\ b[4] = 8 + m /\ b[5] = 8 + (m + n)
      /\ b[6] = 12 + (m + n) /\ b[7] = 20 + (m + n) /\ b[8] = 28 + (m + n)
  BY <1>1 DEF Begin
<1>3. L[1] = 4 /\ L[2] = m /\ L[3] = 4 /\ L[4] = n /\ L[5] = 4 /\ L[6] = 8 /\ L[7] = 8
  BY <1>1, ChunkBytes
<1>4. b[8] = Len(Frame(w))
  BY FrameLayout
<1>5. L[f] = Len(Chunks(w)[f])
  OBVIOUS
<1> HIDE DEF b, L
<1>6. f = 1 \/ f = 2 \/ f = 3 \/ f = 4 \/ f = 5 \/ f = 6 \/ f = 7
  OBVIOUS
<1>7. /\ b[f] \in Nat /\ b[f + 1] \in Nat /\ L[f] \in Nat /\ b[f + 1] = b[f] + L[f]
      /\ b[f + 1] <= b[8] /\ (f # 1 => b[f] # 0)
  <2>1. CASE f = 1
    BY <1>2, <1>3, <2>1
  <2>2. CASE f = 2
    BY <1>2, <1>3, <2>2
  <2>3. CASE f = 3
    BY <1>2, <1>3, <2>3
  <2>4. CASE f = 4
    BY <1>2, <1>3, <2>4
  <2>5. CASE f = 5
    BY <1>2, <1>3, <2>5
  <2>6. CASE f = 6
    BY <1>2, <1>3, <2>6
  <2>7. CASE f = 7
    BY <1>2, <1>3, <2>7
  <2> QED
    BY <1>6, <2>1, <2>2, <2>3, <2>4, <2>5, <2>6, <2>7
<1> QED
  BY <1>2, <1>4, <1>5, <1>7 DEF b

\* The next field.
LEMMA NextField ==
    ASSUME NEW cons, NEW w, Partway(draft, buf, cons, w)
    PROVE  /\ Len(draft) \in 0..6 /\ Len(draft) + 1 \in 1..7 /\ (Len(draft) + 1) - 1 = Len(draft)
           /\ buf \in Seq(Byte) /\ Len(buf) \in Nat
<1>1. \A l \in 0..6 : l + 1 \in 1..7 /\ (l + 1) - 1 = l
  OBVIOUS
<1>2. Len(draft) \in 0..6 /\ buf \in Seq(Byte)
  BY DEF Partway
<1>3. Len(buf) \in Nat
  BY <1>2, LenProperties, Zenon
<1>4. Len(draft) + 1 \in 1..7 /\ (Len(draft) + 1) - 1 = Len(draft)
  BY <1>1, <1>2, Zenon
<1> QED
  BY <1>2, <1>3, <1>4

\* The n of recv_all is the length of the field.
LEMMA NeededIsLength ==
    ASSUME NEW cons, NEW w \in Warning, Partway(draft, buf, cons, w)
    PROVE  Field \in 1..7 /\ Field = Len(draft) + 1 /\ Needed = Len(Chunks(w)[Field])
<1>1. Len(draft) \in 0..6 /\ \A i \in 1..Len(draft) : draft[i] = Values(w)[i]
  BY DEF Partway
<1>2. Field \in 1..7 /\ Field = Len(draft) + 1 /\ Field - 1 = Len(draft)
  BY NextField DEF Field
<1>3. Values(w)[1] = Len(w.city) /\ Values(w)[3] = Len(w.dest_node)
  BY DEF Values
<1>4. /\ Len(Chunks(w)[1]) = 4 /\ Len(Chunks(w)[2]) = Len(w.city)
      /\ Len(Chunks(w)[3]) = 4 /\ Len(Chunks(w)[4]) = Len(w.dest_node)
      /\ Len(Chunks(w)[5]) = 4 /\ Len(Chunks(w)[6]) = 8 /\ Len(Chunks(w)[7]) = 8
  BY ChunkBytes
<1>5. ASSUME Field = 2 PROVE Needed = Len(Chunks(w)[Field])
  <2>1. draft[Field - 1] = Len(w.city)
    BY <1>1, <1>2, <1>3, <1>5
  <2> QED
    BY <1>4, <1>5, <2>1 DEF Needed, IsString
<1>6. ASSUME Field = 4 PROVE Needed = Len(Chunks(w)[Field])
  <2>1. draft[Field - 1] = Len(w.dest_node)
    BY <1>1, <1>2, <1>3, <1>6
  <2> QED
    BY <1>4, <1>6, <2>1 DEF Needed, IsString
<1>7. ASSUME Field = 6 \/ Field = 7 PROVE Needed = Len(Chunks(w)[Field])
  <2>1. Field \notin {2, 4} /\ Field \in {6, 7}
    BY <1>2, <1>7
  <2>2. Len(Chunks(w)[Field]) = 8
    BY <1>4, <1>7
  <2> QED
    BY <2>1, <2>2 DEF Needed, IsString
<1>8. ASSUME Field = 1 \/ Field = 3 \/ Field = 5 PROVE Needed = Len(Chunks(w)[Field])
  <2>1. Field \notin {2, 4} /\ Field \notin {6, 7}
    BY <1>2, <1>8
  <2>2. Len(Chunks(w)[Field]) = 4
    BY <1>4, <1>8
  <2> QED
    BY <2>1, <2>2 DEF Needed, IsString
<1>9. \A f \in 1..7 : f = 2 \/ f = 4 \/ (f = 6 \/ f = 7) \/ (f = 1 \/ f = 3 \/ f = 5)
  OBVIOUS
<1>10. Needed = Len(Chunks(w)[Field])
  BY <1>2, <1>5, <1>6, <1>7, <1>8, <1>9, Zenon
<1> QED
  BY <1>1, <1>2, <1>10

\* What has been read lies within the frame.
LEMMA PartwayFits ==
    ASSUME NEW cons, NEW w \in Warning, Partway(draft, buf, cons, w)
    PROVE  Len(cons) <= Len(Frame(w))
<1> DEFINE f == Len(draft) + 1
<1>1. f \in 1..7 /\ Len(buf) \in Nat
  BY NextField
<1>2. Len(cons) = Begin(w)[f] + Len(buf) /\ Len(buf) <= Len(Chunks(w)[f])
  BY DEF Partway
<1> HIDE DEF f
<1>3. /\ Begin(w)[8] = Len(Frame(w)) /\ Begin(w)[8] \in Nat
      /\ Begin(w)[f] \in Nat /\ Begin(w)[f + 1] \in Nat /\ Len(Chunks(w)[f]) \in Nat
      /\ Begin(w)[f + 1] = Begin(w)[f] + Len(Chunks(w)[f]) /\ Begin(w)[f + 1] <= Begin(w)[8]
  <2>1. Begin(w)[8] \in Nat
    BY FrameSize, BeginNext, <1>1
  <2> QED
    BY <1>1, <2>1, BeginNext
<1> QED
  BY <1>1, <1>2, <1>3

\* At the beginning of a warning.
LEMMA PartwayStart ==
    ASSUME NEW v \in Warning
    PROVE  Partway(<<>>, <<>>, <<>>, v)
<1>1. Begin(v)[1] = 0 /\ Len(Chunks(v)[1]) \in Nat
  BY BeginNext
<1>2. <<>> \in Seq(FieldValue) /\ <<>> \in Seq(Byte) /\ Len(<<>>) = 0
  OBVIOUS
<1> QED
  BY <1>1, <1>2 DEF Partway

\* If nothing has been read, the warning may be any.
LEMMA PartwayNothing ==
    ASSUME NEW w \in Warning, NEW v \in Warning, Partway(draft, buf, <<>>, w)
    PROVE  draft = <<>> /\ buf = <<>> /\ Partway(<<>>, <<>>, <<>>, v)
<1> DEFINE f == Len(draft) + 1
<1>1. f \in 1..7 /\ Len(draft) \in Nat /\ Len(buf) \in Nat
  BY NextField
<1>2. 0 = Begin(w)[f] + Len(buf)
  <2>1. Len(<<>>) = 0
    OBVIOUS
  <2> QED
    BY <2>1 DEF Partway
<1>3. Begin(w)[f] \in Nat /\ (f # 1 => Begin(w)[f] # 0)
  BY <1>1, BeginNext
<1>4. Len(buf) = 0 /\ Len(draft) = 0
  BY <1>1, <1>2, <1>3
<1>5. draft = <<>> /\ buf = <<>>
  BY <1>4, EmptySeq DEF Partway
<1> QED
  BY <1>5, PartwayStart

\* What has been read is the beginning of the frame.
LEMMA PartwayAgrees ==
    ASSUME NEW cons \in Seq(Byte), NEW b \in Seq(Byte), NEW w \in Warning,
           Agrees(w, cons \o b), Len(cons) <= Len(Frame(w))
    PROVE  \A i \in 1..Len(cons) : cons[i] = Frame(w)[i]
<1>1. /\ Len(cons \o b) = Len(cons) + Len(b) /\ Len(cons) \in Nat /\ Len(b) \in Nat
      /\ \A i \in 1..Len(cons) : (cons \o b)[i] = cons[i]
  BY Concat
<1>2. Len(Frame(w)) \in Nat
  BY FrameSize
<1> QED
  BY <1>1, <1>2 DEF Agrees

\* The bytes that have been gathered for a field are its bytes.
LEMMA GatheredField ==
    ASSUME NEW cons \in Seq(Byte), NEW w \in Warning, Partway(draft, buf, cons, w),
           \A i \in 1..Len(cons) : cons[i] = Frame(w)[i], Gathered
    PROVE  buf = Chunks(w)[Field]
<1> DEFINE f == Len(draft) + 1
           c == Chunks(w)[f]
           b == Begin(w)[f]
<1>1. Field = f /\ f \in 1..7 /\ Len(buf) = Len(c)
  BY NeededIsLength DEF Gathered
<1>2. c \in Seq(Byte)
  BY <1>1, ChunkBytes
<1>3. b \in Nat
  BY <1>1, BeginNext
<1>4. LiesAt(c, Frame(w), b)
  BY <1>1, FrameLayout
<1>5. /\ buf \in Seq(Byte) /\ Len(cons) = b + Len(buf)
      /\ \A i \in 1..Len(buf) : buf[i] = cons[b + i]
  BY DEF Partway
<1>6. Len(buf) \in Nat
  BY NextField
<1> HIDE DEF f, c, b
<1>7. ASSUME NEW i \in 1..Len(buf)
      PROVE  buf[i] = c[i]
  <2>1. b + i \in 1..Len(cons)
    BY <1>3, <1>5, <1>6
  <2>2. buf[i] = Frame(w)[b + i]
    BY <1>5, <2>1
  <2>3. Frame(w)[b + i] = c[i]
    BY <1>1, <1>4 DEF LiesAt
  <2> QED
    BY <2>2, <2>3
<1>8. buf = c
  BY <1>1, <1>2, <1>5, <1>7, SameBytes
<1> QED
  BY <1>1, <1>8 DEF c

\* What the receiver decodes is what the sender encoded.
LEMMA DecodedField ==
    ASSUME NEW w \in Warning, Field \in 1..7, buf = Chunks(w)[Field]
    PROVE  Decoded = Values(w)[Field] /\ Decoded \in FieldValue
<1>1. /\ Chunks(w)[1] = BigEndian32(Len(w.city)) /\ Chunks(w)[2] = w.city
      /\ Chunks(w)[3] = BigEndian32(Len(w.dest_node)) /\ Chunks(w)[4] = w.dest_node
      /\ Chunks(w)[5] = BigEndian32(w.type)
      /\ Chunks(w)[6] = BigEndian64(w.value) /\ Chunks(w)[7] = BigEndian64(w.timestamp)
  BY ChunkBytes
<1>2. /\ Values(w)[1] = Len(w.city) /\ Values(w)[2] = w.city
      /\ Values(w)[3] = Len(w.dest_node) /\ Values(w)[4] = w.dest_node
      /\ Values(w)[5] = w.type /\ Values(w)[6] = w.value /\ Values(w)[7] = w.timestamp
  BY DEF Values
<1>3. /\ w.city \in Seq(Byte) /\ Len(w.city) \in Word32
      /\ w.dest_node \in Seq(Byte) /\ Len(w.dest_node) \in Word32
      /\ w.type \in Word32 /\ w.value \in Word64 /\ w.timestamp \in Word64
  BY Parts
<1>4. \A n \in Word32 : ntohl(Load32(BigEndian32(n))) = n /\ n \in Nat
  BY NetworkOrder32 DEF Word32
<1>5. \A x \in Word64 : network_to_host64(Load64(BigEndian64(x))) = x /\ x \in Nat
  BY NetworkOrder64 DEF Word64
<1>6. ASSUME Field = 2 \/ Field = 4
      PROVE  Decoded = Values(w)[Field] /\ Decoded \in FieldValue
  <2>1. Decoded = buf
    BY <1>6 DEF Decoded, IsString
  <2>2. CASE Field = 2
    BY <1>1, <1>2, <1>3, <2>1, <2>2 DEF FieldValue
  <2>3. CASE Field = 4
    BY <1>1, <1>2, <1>3, <2>1, <2>3 DEF FieldValue
  <2> QED
    BY <1>6, <2>2, <2>3
<1>7. ASSUME Field = 6 \/ Field = 7
      PROVE  Decoded = Values(w)[Field] /\ Decoded \in FieldValue
  <2>1. Field \notin {2, 4} /\ Field \in {6, 7}
    BY <1>7
  <2>2. Decoded = network_to_host64(Load64(buf))
    BY <2>1 DEF Decoded, IsString
  <2>3. CASE Field = 6
    BY <1>1, <1>2, <1>3, <1>5, <2>2, <2>3 DEF FieldValue
  <2>4. CASE Field = 7
    BY <1>1, <1>2, <1>3, <1>5, <2>2, <2>4 DEF FieldValue
  <2> QED
    BY <1>7, <2>3, <2>4
<1>8. ASSUME Field = 1 \/ Field = 3 \/ Field = 5
      PROVE  Decoded = Values(w)[Field] /\ Decoded \in FieldValue
  <2>1. Field \notin {2, 4} /\ Field \notin {6, 7}
    BY <1>8
  <2>2. Decoded = ntohl(Load32(buf))
    BY <2>1 DEF Decoded, IsString
  <2>3. CASE Field = 1
    BY <1>1, <1>2, <1>3, <1>4, <2>2, <2>3 DEF FieldValue
  <2>4. CASE Field = 3
    BY <1>1, <1>2, <1>3, <1>4, <2>2, <2>4 DEF FieldValue
  <2>5. CASE Field = 5
    BY <1>1, <1>2, <1>3, <1>4, <2>2, <2>5 DEF FieldValue
  <2> QED
    BY <1>8, <2>3, <2>4, <2>5
<1>9. \A f \in 1..7 : (f = 2 \/ f = 4) \/ (f = 6 \/ f = 7) \/ (f = 1 \/ f = 3 \/ f = 5)
  OBVIOUS
<1> QED
  BY <1>6, <1>7, <1>8, <1>9, Zenon

\* The fields with the one that has been decoded.
LEMMA DraftAppended ==
    ASSUME NEW cons, NEW w \in Warning, Partway(draft, buf, cons, w), buf = Chunks(w)[Field]
    PROVE  /\ Append(draft, Decoded) \in Seq(FieldValue)
           /\ Len(Append(draft, Decoded)) = Field
           /\ \A i \in 1..Field : Append(draft, Decoded)[i] = Values(w)[i]
<1> DEFINE d == Append(draft, Decoded)
<1>1. Field \in 1..7 /\ Field = Len(draft) + 1 /\ Len(draft) \in 0..6
  BY NeededIsLength, NextField
<1>2. Decoded = Values(w)[Field] /\ Decoded \in FieldValue
  BY <1>1, DecodedField
<1>3. draft \in Seq(FieldValue) /\ \A i \in 1..Len(draft) : draft[i] = Values(w)[i]
  BY DEF Partway
<1>4. /\ d \in Seq(FieldValue) /\ Len(d) = Len(draft) + 1
      /\ \A i \in 1..Len(draft) : d[i] = draft[i]
      /\ d[Len(draft) + 1] = Decoded
  BY <1>2, <1>3, AppendProperties
<1> HIDE DEF d
<1>5. \A i \in 1..Field : i \in 1..Len(draft) \/ i = Len(draft) + 1
  BY <1>1
<1>6. \A i \in 1..Field : d[i] = Values(w)[i]
  BY <1>1, <1>2, <1>3, <1>4, <1>5
<1> QED
  BY <1>1, <1>4, <1>6 DEF d

\* A field that is not the last has been read.
LEMMA PartwayNext ==
    ASSUME NEW cons, NEW w \in Warning, Partway(draft, buf, cons, w), buf = Chunks(w)[Field],
           ~IsLast
    PROVE  Partway(Append(draft, Decoded), <<>>, cons, w)
<1> DEFINE d == Append(draft, Decoded)
<1>1. Field \in 1..7 /\ Field = Len(draft) + 1 /\ Field # 7
  BY NeededIsLength DEF IsLast
<1>2. d \in Seq(FieldValue) /\ Len(d) = Field /\ \A i \in 1..Field : d[i] = Values(w)[i]
  BY DraftAppended
<1> HIDE DEF d
<1>3. PICK f \in 1..6 : f = Field
  BY <1>1
<1>4. /\ Begin(w)[f + 1] \in Nat /\ Begin(w)[f + 1] = Begin(w)[f] + Len(Chunks(w)[f])
      /\ Len(Chunks(w)[f + 1]) \in Nat
  <2>1. f \in 1..7 /\ f + 1 \in 1..7
    OBVIOUS
  <2> QED
    BY <2>1, BeginNext
<1>5. Len(cons) = Begin(w)[f] + Len(Chunks(w)[f])
  <2>1. Len(cons) = Begin(w)[Len(draft) + 1] + Len(buf)
    BY DEF Partway
  <2> QED
    BY <1>1, <1>3, <2>1
<1>6. <<>> \in Seq(Byte) /\ Len(<<>>) = 0 /\ 1..0 = {}
  OBVIOUS
<1>7. Len(cons) = Begin(w)[f + 1] + Len(<<>>) /\ Len(<<>>) <= Len(Chunks(w)[f + 1])
  BY <1>4, <1>5, <1>6
<1>8. Len(d) = f /\ f \in 0..6 /\ \A i \in 1..Len(d) : d[i] = Values(w)[i]
  BY <1>2, <1>3
<1>9. Partway(d, <<>>, cons, w)
  BY <1>2, <1>6, <1>7, <1>8 DEF Partway
<1> QED
  BY <1>9 DEF d

\* The last field has been read: the warning is the one that was sent.
LEMMA CreatedWarning ==
    ASSUME NEW cons, NEW w \in Warning, Partway(draft, buf, cons, w), buf = Chunks(w)[Field],
           IsLast
    PROVE  Created = w /\ Len(cons) = Len(Frame(w))
<1> DEFINE d == Append(draft, Decoded)
<1>1. Field = 7 /\ Len(draft) + 1 = 7
  BY NeededIsLength DEF IsLast
<1>2. \A i \in 1..7 : d[i] = Values(w)[i]
  BY <1>1, DraftAppended
<1> HIDE DEF d
<1>3. /\ d[2] = w.city /\ d[4] = w.dest_node /\ d[5] = w.type /\ d[6] = w.value
      /\ d[7] = w.timestamp
  BY <1>2 DEF Values
<1>4. Created = [city |-> d[2], dest_node |-> d[4], type |-> d[5], value |-> d[6], timestamp |-> d[7]]
  BY DEF Created, d
<1>5. Created = w
  BY <1>3, <1>4 DEF Warning
<1>6. Len(cons) = Begin(w)[7] + Len(Chunks(w)[7])
  <2>1. Len(cons) = Begin(w)[Len(draft) + 1] + Len(buf)
    BY DEF Partway
  <2> QED
    BY <1>1, <2>1
<1>7. 7 \in 1..7 /\ 7 + 1 = 8
  OBVIOUS
<1>8. Begin(w)[8] = Begin(w)[7] + Len(Chunks(w)[7]) /\ Begin(w)[8] = Len(Frame(w))
  BY <1>7, BeginNext
<1> QED
  BY <1>5, <1>6, <1>8

\* A further piece has been received.
LEMMA PartwayMore ==
    ASSUME NEW cons \in Seq(Byte), NEW w \in Warning, Partway(draft, buf, cons, w),
           NEW p \in Seq(Byte), Len(buf) + Len(p) <= Needed
    PROVE  Partway(draft, buf \o p, cons \o p, w)
<1> DEFINE f == Len(draft) + 1
           c == Chunks(w)[f]
           s == Begin(w)[f]
           b2 == buf \o p
           cons2 == cons \o p
<1>1. Field = f /\ f \in 1..7 /\ Needed = Len(c)
  BY NeededIsLength
<1>2. s \in Nat /\ Len(c) \in Nat
  BY <1>1, BeginNext
<1>3. /\ draft \in Seq(FieldValue) /\ Len(draft) \in 0..6
      /\ \A i \in 1..Len(draft) : draft[i] = Values(w)[i]
      /\ buf \in Seq(Byte) /\ Len(cons) = s + Len(buf)
      /\ \A i \in 1..Len(buf) : buf[i] = cons[s + i]
  BY DEF Partway
<1>4. /\ b2 \in Seq(Byte) /\ Len(buf) \in Nat /\ Len(p) \in Nat /\ Len(b2) = Len(buf) + Len(p)
      /\ \A i \in 1..Len(buf) : b2[i] = buf[i]
      /\ \A i \in 1..Len(p) : b2[Len(buf) + i] = p[i]
  BY <1>3, Concat
<1>5. /\ Len(cons) \in Nat /\ Len(cons2) = Len(cons) + Len(p)
      /\ \A i \in 1..Len(cons) : cons2[i] = cons[i]
      /\ \A i \in 1..Len(p) : cons2[Len(cons) + i] = p[i]
  BY Concat
<1> HIDE DEF f, c, s, b2, cons2
<1>6. ASSUME NEW i \in 1..Len(b2)
      PROVE  b2[i] = cons2[s + i]
  <2>1. CASE i <= Len(buf)
    <3>1. i \in 1..Len(buf) /\ s + i \in 1..Len(cons)
      BY <1>2, <1>3, <1>4, <2>1
    <3> QED
      BY <1>3, <1>4, <1>5, <3>1
  <2>2. CASE Len(buf) < i
    <3> DEFINE j == i - Len(buf)
    <3>1. j \in 1..Len(p) /\ i = Len(buf) + j /\ s + i = Len(cons) + j
      BY <1>2, <1>3, <1>4, <2>2
    <3> HIDE DEF j
    <3> QED
      BY <1>4, <1>5, <3>1
  <2> QED
    BY <1>4, <2>1, <2>2
<1>7. Len(b2) <= Len(c) /\ Len(cons2) = s + Len(b2)
  BY <1>1, <1>2, <1>3, <1>4, <1>5
<1>8. Partway(draft, b2, cons2, w)
  BY <1>3, <1>4, <1>6, <1>7 DEF Partway, c, s, f
<1> QED
  BY <1>8 DEF b2, cons2

\* A connection with other bytes.
LEMMA ConnBytes ==
    ASSUME NEW r \in Conn, NEW y
    PROVE  [r EXCEPT !.bytes = y] = [bytes |-> y, closed |-> r.closed]
<1>1. r = [bytes |-> r.bytes, closed |-> r.closed]
  BY DEF Conn
<1> QED
  BY <1>1

\* A piece is received: it moves from what is on the first connection to what has been
\* read of it.
LEMMA StreamsRecv ==
    ASSUME NEW o, NEW n \in Nat, NEW cs \in Seq(Conn), cs # <<>>,
           NEW cons, NEW K, NEW W, NEW m, Streams(o, n, cs, cons, K, W, m),
           NEW k \in 1..Len(cs[1].bytes)
    PROVE  Streams(o, n, [cs EXCEPT ![1].bytes = SubSeq(@, k + 1, Len(@))],
                   cons \o SubSeq(cs[1].bytes, 1, k), K, W, m)
<1> DEFINE b == cs[1].bytes
           x == SubSeq(b, 1, k)
           y == SubSeq(b, k + 1, Len(b))
           r == [bytes |-> y, closed |-> cs[1].closed]
           cs2 == [cs EXCEPT ![1] = r]
           cons2 == cons \o x
<1>1. 1 \in 1..Len(cs)
  <2>1. Len(cs) \in Nat /\ Len(cs) # 0
    BY LenProperties, EmptySeq
  <2> QED
    BY <2>1
<1>2. /\ cons \in Seq(Byte) /\ m \in Nat /\ m <= n /\ K[1] \in SUBSET Nat /\ W[1] \in Warning
      /\ \A c \in 1..Len(cs) : \A j \in K[c] : m < j /\ j <= n
      /\ Framed(o, Stream(cs, cons, 1), cs[1].closed, K[1], W[1])
  BY <1>1, StreamsParts
<1>3. K \in [Nat -> SUBSET Nat] /\ W \in [Nat -> Warning] /\ 1 \in Nat
  BY DEF Streams
<1>4. cs[1] \in Conn /\ b \in Seq(Byte) /\ cs[1].closed \in BOOLEAN
  BY <1>1, ConnParts
<1>5. x \in Seq(Byte) /\ y \in Seq(Byte) /\ x \o y = b
  <2> HIDE DEF b
  <2>1. k \in 1..Len(b)
    BY DEF b
  <2> QED
    BY <1>4, <2>1, Halves
<1>6. cons2 \in Seq(Byte) /\ cons2 \o y = cons \o b
  <2> HIDE DEF b, x, y
  <2>1. (cons \o x) \o y = cons \o (x \o y)
    BY <1>2, <1>5, Associates
  <2> QED
    BY <1>2, <1>5, <2>1, Joined
<1>7. [cs EXCEPT ![1].bytes = SubSeq(@, k + 1, Len(@))] = cs2
  <2>1. [cs[1] EXCEPT !.bytes = y] = r
    BY <1>4, ConnBytes
  <2> QED
    BY <2>1
<1>8. r \in Conn /\ r.bytes = y /\ r.closed = cs[1].closed
  BY <1>4, <1>5 DEF Conn
<1> HIDE DEF b, x, y, r
<1>9. /\ cs2 \in Seq(Conn) /\ Len(cs2) = Len(cs) /\ cs2[1] = r
      /\ \A c \in 1..Len(cs) : c # 1 => cs2[c] = cs[c]
  BY <1>1, <1>8, Replaced
<1> HIDE DEF cs2, cons2
<1>10. Framed(o, Stream(cs2, cons2, 1), cs2[1].closed, K[1], W[1])
  <2>1. Stream(cs2, cons2, 1) = Stream(cs, cons, 1)
    BY <1>6, <1>8, <1>9 DEF Stream, b
  <2> QED
    BY <1>2, <1>8, <1>9, <2>1
<1>11. \A j \in K[1] : m < j /\ (j \in K[1] \/ (1 = Len(cs) /\ n < j /\ j <= n))
  BY <1>1, <1>2
<1>12. \A c \in 1..Len(cs) : c # 1 => \A j \in K[c] : m < j
  BY <1>2
<1>13. Streams(o, n, cs2, cons2, [K EXCEPT ![1] = K[1]], [W EXCEPT ![1] = W[1]], m)
  <2>1. n <= n /\ m <= m
    BY <1>2
  <2> QED
    BY <1>1, <1>2, <1>6, <1>9, <1>10, <1>11, <1>12, <2>1, StreamsChange
<1>14. [K EXCEPT ![1] = K[1]] = K /\ [W EXCEPT ![1] = W[1]] = W
  BY <1>3
<1> QED
  BY <1>7, <1>13, <1>14 DEF cons2, x, b

\* The frame that a connection begins with has been read: it is that of a warning
\* that was sent behind all that were received before.
LEMMA StreamsRead ==
    ASSUME NEW o, NEW n \in Nat, NEW cs \in Seq(Conn), cs # <<>>,
           NEW cons, NEW K, NEW W, NEW m, Streams(o, n, cs, cons, K, W, m),
           \A j \in 1..n : o[j] \in Warning, Len(cons) = Len(Frame(W[1]))
    PROVE  \E K2, W2 : \E k \in 1..n :
              /\ Streams(o, n, cs, <<>>, K2, W2, k)
              /\ m < k /\ W[1] = o[k]
<1> DEFINE b == cs[1].bytes
           h == cs[1].closed
           L == K[1]
           w == W[1]
<1>1. 1 \in 1..Len(cs)
  <2>1. Len(cs) \in Nat /\ Len(cs) # 0
    BY LenProperties, EmptySeq
  <2> QED
    BY <2>1
<1>2. /\ cons \in Seq(Byte) /\ m \in Nat /\ m <= n /\ L \in SUBSET Nat /\ w \in Warning
      /\ \A c \in 1..Len(cs) : \A j \in K[c] : m < j /\ j <= n
      /\ Framed(o, Stream(cs, cons, 1), h, L, w)
  BY <1>1, StreamsParts
<1>3. /\ K \in [Nat -> SUBSET Nat] /\ W \in [Nat -> Warning] /\ 1 \in Nat
      /\ \A c, d \in 1..Len(cs) : c < d => \A i \in K[c], j \in K[d] : i < j
  BY DEF Streams
<1>4. b \in Seq(Byte)
  BY <1>1, ConnParts
<1>5. \A j \in L : o[j] \in Warning
  <2>1. \A j \in L : j \in 1..n
    BY <1>1, <1>2
  <2> QED
    BY <2>1
<1>6. Framed(o, cons \o b, h, L, w) /\ Len(cons) = Len(Frame(w))
  BY <1>2 DEF Stream
<1>7. PICK k \in L, v \in Warning : /\ w = o[k] /\ \A j \in L : k <= j
                                    /\ Framed(o, b, h, L \ {k}, v)
  <2> HIDE DEF b, h, L, w
  <2>1. cons \in Seq(Byte) /\ L \in SUBSET Nat /\ w \in Warning
    BY <1>2
  <2>2. GoesOn(o, b, h, L, w)
    BY <1>4, <1>5, <1>6, <2>1, FramedRead
  <2> QED
    BY <2>2 DEF GoesOn
<1>8. k \in 1..n /\ m < k
  BY <1>1, <1>2
<1> DEFINE J == L \ {k}
<1>9. J \in SUBSET Nat /\ \A j \in J : k < j /\ (j \in K[1] \/ (1 = Len(cs) /\ n < j /\ j <= n))
  BY <1>2, <1>7
<1>10. \A c \in 1..Len(cs) : c # 1 => \A j \in K[c] : k < j
  BY <1>1, <1>3
<1>11. <<>> \in Seq(Byte)
  BY EmptySeq, Zenon
<1>12. Framed(o, Stream(cs, <<>>, 1), cs[1].closed, J, v)
  <2>1. <<>> \o b = b
    BY <1>4, ConcatEmptySeq, Zenon
  <2> QED
    BY <1>7, <2>1 DEF Stream
<1> DEFINE K2 == [K EXCEPT ![1] = J]
           W2 == [W EXCEPT ![1] = v]
<1>13. Streams(o, n, cs, <<>>, K2, W2, k)
  <2>1. n <= n /\ m <= k /\ k <= n /\ k \in Nat
    BY <1>2, <1>8
  <2>2. \A c \in 1..Len(cs) : c # 1 => cs[c] = cs[c]
    OBVIOUS
  <2> HIDE DEF J
  <2> QED
    BY <1>1, <1>2, <1>9, <1>10, <1>11, <1>12, <2>1, <2>2, StreamsChange
<1> HIDE DEF K2, W2
<1> QED
  BY <1>7, <1>8, <1>13

-----------------------------------------------------------------------------
(* What has been received *)

\* The warnings in r are some of o[1] to o[m], in their order.
Taken(o, r, m) ==
    \E at \in [1..Len(r) -> 1..m] :
       /\ \A j, k \in 1..Len(r) : j < k => at[j] < at[k]
       /\ \A k \in 1..Len(r) : r[k] = o[at[k]]

\* One more.
LEMMA TakenMore ==
    ASSUME NEW o, NEW r \in Seq(Warning), NEW m \in Nat, NEW k \in Nat, m < k,
           o[k] \in Warning, Taken(o, r, m)
    PROVE  Taken(o, Append(r, o[k]), k)
<1> DEFINE l == Len(r)
           r2 == Append(r, o[k])
<1>1. PICK at \in [1..l -> 1..m] : /\ \A i, j \in 1..l : i < j => at[i] < at[j]
                                   /\ \A j \in 1..l : r[j] = o[at[j]]
  BY DEF Taken
<1>2. /\ l \in Nat /\ Len(r2) = l + 1
      /\ \A i \in 1..l : r2[i] = r[i]
      /\ r2[l + 1] = o[k]
  BY AppendProperties
<1> HIDE DEF l, r2
<1> DEFINE at2 == [i \in 1..l + 1 |-> IF i = l + 1 THEN k ELSE at[i]]
<1>3. \A i \in 1..l + 1 : i \in 1..l \/ i = l + 1
  BY <1>2
<1>4. /\ at2[l + 1] = k
      /\ \A i \in 1..l : at2[i] = at[i] /\ at[i] \in 1..m
  BY <1>1, <1>2
<1>5. at2 \in [1..l + 1 -> 1..k]
  <2>1. \A i \in 1..l : at[i] \in 1..k
    BY <1>4
  <2> QED
    BY <1>2, <1>3, <2>1
<1> HIDE DEF at2
<1>6. \A i, j \in 1..l + 1 : i < j => at2[i] < at2[j]
  <2>1. SUFFICES ASSUME NEW i \in 1..l + 1, NEW j \in 1..l + 1, i < j PROVE at2[i] < at2[j]
    OBVIOUS
  <2>2. i \in 1..l
    BY <1>2, <2>1
  <2>3. CASE j \in 1..l
    BY <1>1, <1>4, <2>1, <2>2, <2>3
  <2>4. CASE j = l + 1
    BY <1>4, <2>2, <2>4
  <2> QED
    BY <1>3, <2>3, <2>4
<1>7. \A j \in 1..l + 1 : r2[j] = o[at2[j]]
  BY <1>1, <1>2, <1>3, <1>4
<1> QED
  BY <1>2, <1>5, <1>6, <1>7 DEF Taken, r2

-----------------------------------------------------------------------------
(* The inductive invariant *)

\* The parts of the state that have a type of their own.  A connection is open only if
\* it is the latest and the sender has it open.
Simple ==
    /\ offered \in Batches /\ sent \in 0..Len(offered)
    /\ pooled \in {"none", "open", "dead"}
    /\ conns \in Seq(Conn)
    /\ \A c \in 1..Len(conns) : conns[c].closed \/ (c = Len(conns) /\ pooled = "open")
    /\ pooled = "open" => conns # <<>> /\ ~conns[Len(conns)].closed
    /\ received \in Seq(Warning) /\ failures \in 0..MaxFailures

\* The connections carry frames of what was sent, the receiver is part of the way
\* through the first of them, and what it has received was sent before.
Linked(o, n, cs, d, b, r) ==
    \E cons, K, W, m :
       /\ Streams(o, n, cs, cons, K, W, m)
       /\ Partway(d, b, cons, W[1])
       /\ Taken(o, r, m)

IInv == Simple /\ Linked(offered, sent, conns, draft, buf, received)

\* What the sender was given.
LEMMA Given ==
    ASSUME Simple
    PROVE  /\ offered \in Seq(Warning) /\ Len(offered) \in Nat /\ sent \in Nat /\ sent <= Len(offered)
           /\ \A k \in 1..Len(offered) : offered[k] \in Warning
           /\ sent < Len(offered) => CurrentFrame = Frame(offered[sent + 1])
<1>1. offered \in Seq(Warning) /\ offered \in Batches /\ sent \in 0..Len(offered)
  BY WireAssumption DEF Simple
<1>2. Len(offered) \in Nat /\ sent \in Nat /\ sent <= Len(offered)
  BY <1>1, LenProperties
<1>3. \A k \in 1..Len(offered) : offered[k] \in Warning
  BY <1>1, ElementOfSeq
<1>4. ASSUME sent < Len(offered) PROVE CurrentFrame = Frame(offered[sent + 1])
  <2>1. DOMAIN offered = 1..Len(offered) /\ sent + 1 \in 1..Len(offered)
    BY <1>1, <1>2, <1>4, LenProperties
  <2>2. offered[sent + 1] \in ToSet(offered)
    BY <2>1 DEF ToSet
  <2>3. offered[sent + 1] \in UNION {ToSet(batch) : batch \in Batches}
    BY <1>1, <2>2
  <2> QED
    BY <2>3 DEF CurrentFrame, Current, Frames
<1> QED
  BY <1>1, <1>2, <1>3, <1>4

\* The sender's connection, if it has one that it does not know to be dead.
LEMMA ConnectedOpen ==
    ASSUME Simple, pooled # "dead", NEW cons, NEW K, NEW W, NEW m,
           Streams(offered, sent, conns, cons, K, W, m)
    PROVE  /\ Connected \in Seq(Conn) /\ Connected # <<>> /\ ~Connected[Len(Connected)].closed
           /\ \A c \in 1..Len(Connected) : c # Len(Connected) => Connected[c].closed
           /\ \E K2 : Streams(offered, sent, Connected, cons, K2, W, m)
<1>1. sent \in Nat /\ conns \in Seq(Conn)
  BY Given DEF Simple
<1>2. CASE pooled = "none"
  <2>1. Connected = Append(conns, Fresh)
    BY <1>2 DEF Connected, Fresh
  <2>2. Fresh \in Conn /\ Fresh.closed = FALSE
    <3>1. <<>> \in Seq(Byte)
      BY EmptySeq, Zenon
    <3> QED
      BY <3>1 DEF Fresh, Conn
  <2>3. /\ Connected \in Seq(Conn) /\ Connected # <<>> /\ Len(Connected) = Len(conns) + 1
        /\ \A c \in 1..Len(conns) : Connected[c] = conns[c]
        /\ Connected[Len(conns) + 1] = Fresh
    BY <1>1, <2>1, <2>2, AppendProperties
  <2>4. Len(conns) \in Nat
    BY <1>1, LenProperties
  <2>5. \A c \in 1..Len(conns) : conns[c].closed
    BY <1>2 DEF Simple
  <2>6. \A c \in 1..Len(Connected) : c # Len(Connected) => Connected[c].closed
    BY <2>3, <2>4, <2>5
  <2>7. \E K2 : Streams(offered, sent, Connected, cons, K2, W, m)
    BY <1>1, <2>1, StreamsOpen
  <2> QED
    BY <2>2, <2>3, <2>6, <2>7
<1>3. CASE pooled = "open"
  <2>1. Connected = conns
    BY <1>3 DEF Connected
  <2>2. conns # <<>> /\ ~conns[Len(conns)].closed
    BY <1>3 DEF Simple
  <2>3. \A c \in 1..Len(conns) : c # Len(conns) => conns[c].closed
    BY DEF Simple
  <2> QED
    BY <1>1, <2>1, <2>2, <2>3
<1> QED
  BY <1>2, <1>3 DEF Simple

\* What the sender's connections are when it has written to the latest.
LEMMA OutputConns ==
    ASSUME IInv, pooled # "dead", NEW f \in Seq(Byte), NEW closed \in BOOLEAN,
           Output(f, closed)
    PROVE  /\ conns' \in Seq(Conn) /\ conns' # <<>>
           /\ conns'[Len(conns')].closed = closed
           /\ \A c \in 1..Len(conns') : c # Len(conns') => conns'[c].closed
<1> DEFINE cs == Connected
           p == Len(cs)
           r == [bytes |-> cs[p].bytes \o f, closed |-> closed]
<1>1. PICK cons, K, W, m : Streams(offered, sent, conns, cons, K, W, m)
  BY DEF IInv, Linked
<1>2. cs \in Seq(Conn) /\ cs # <<>> /\ \A c \in 1..p : c # p => cs[c].closed
  BY <1>1, ConnectedOpen DEF IInv
<1>3. p \in 1..Len(cs)
  <2> HIDE DEF cs
  <2>1. Len(cs) \in Nat /\ Len(cs) # 0
    BY <1>2, LenProperties, EmptySeq
  <2> QED
    BY <2>1
<1>4. conns' = [cs EXCEPT ![p] = r]
  BY DEF Output
<1> HIDE DEF cs
<1>5. r \in Conn /\ r.closed = closed
  <2>1. cs[p].bytes \in Seq(Byte)
    BY <1>2, <1>3, ConnParts
  <2>2. cs[p].bytes \o f \in Seq(Byte)
    BY <2>1, Joined
  <2> QED
    BY <2>2 DEF Conn
<1> HIDE DEF r
<1>6. /\ conns' \in Seq(Conn) /\ Len(conns') = Len(cs) /\ conns'[p] = r
      /\ \A c \in 1..Len(cs) : c # p => conns'[c] = cs[c]
  BY <1>2, <1>3, <1>4, <1>5, Replaced
<1>7. conns' # <<>>
  BY <1>3, <1>6, EmptySeq
<1> QED
  BY <1>2, <1>3, <1>5, <1>6, <1>7

\* Writing a frame, or a part of one before the connection is closed, links the
\* connections to one warning more.
LEMMA OutputLinked ==
    ASSUME IInv, pooled # "dead", sent < Len(offered),
           NEW f \in Seq(Byte), NEW closed \in BOOLEAN, Output(f, closed),
           \/ f = CurrentFrame /\ ~closed
           \/ closed /\ \E l \in 0..Len(CurrentFrame) - 1 : f = SubSeq(CurrentFrame, 1, l)
    PROVE  Linked(offered, sent + 1, conns', draft, buf, received)
<1> DEFINE cs == Connected
<1>1. PICK cons, K0, W, m : /\ Streams(offered, sent, conns, cons, K0, W, m)
                            /\ Partway(draft, buf, cons, W[1])
                            /\ Taken(offered, received, m)
  BY DEF IInv, Linked
<1>2. Simple /\ sent \in Nat /\ \A k \in 1..sent + 1 : offered[k] \in Warning
  BY Given DEF IInv
<1>3. CurrentFrame = Frame(offered[sent + 1])
  BY <1>2, Given
<1>4. /\ cs \in Seq(Conn) /\ cs # <<>> /\ ~cs[Len(cs)].closed
      /\ \E K : Streams(offered, sent, cs, cons, K, W, m)
  BY <1>1, <1>2, ConnectedOpen
<1>5. PICK K : Streams(offered, sent, cs, cons, K, W, m)
  BY <1>4
<1>6. conns' = Written(cs, f, closed)
  BY DEF Output, Written
<1> HIDE DEF cs
<1>7. PICK K2, W2 : /\ Streams(offered, sent + 1, conns', cons, K2, W2, m)
                    /\ W2[1] = W[1] \/ (Len(cs) = 1 /\ Stream(cs, cons, 1) = <<>>)
  <2>1. Writes(offered[sent + 1], f, closed)
    BY <1>3 DEF Writes
  <2>2. Continued(offered, sent, cs, Written(cs, f, closed), cons, W, m)
    BY <1>2, <1>4, <1>5, <2>1, StreamsWrite
  <2> QED
    BY <1>6, <2>2 DEF Continued
<1>8. W[1] \in Warning /\ W2[1] \in Warning /\ cons \in Seq(Byte)
  BY <1>1, <1>7 DEF Streams
<1>9. Partway(draft, buf, cons, W2[1])
  <2>1. CASE W2[1] = W[1]
    BY <1>1, <2>1
  <2>2. CASE Len(cs) = 1 /\ Stream(cs, cons, 1) = <<>>
    <3>1. 1 \in 1..Len(cs)
      BY <2>2
    <3>2. cs[1].bytes \in Seq(Byte) /\ cons \o cs[1].bytes = <<>>
      BY <1>4, <2>2, <3>1, ConnParts DEF Stream
    <3>3. cons = <<>>
      <4> DEFINE b == cs[1].bytes
      <4>1. b \in Seq(Byte) /\ cons \o b = <<>>
        BY <3>2
      <4> HIDE DEF b
      <4>2. Len(cons) \in Nat /\ Len(b) \in Nat /\ Len(cons \o b) = Len(cons) + Len(b)
        BY <1>8, <4>1, Concat
      <4>3. Len(cons) = 0
        BY <4>1, <4>2
      <4> QED
        BY <1>8, <4>3, EmptySeq
    <3> QED
      BY <1>1, <1>8, <3>3, PartwayNothing
  <2> QED
    BY <1>7, <2>1, <2>2
<1> QED
  BY <1>1, <1>7, <1>9 DEF Linked

\* A call that puts nothing on a connection.
LEMMA LinkedSkip ==
    ASSUME IInv
    PROVE  Linked(offered, sent + 1, conns, draft, buf, received)
<1>1. PICK cons, K, W, m : /\ Streams(offered, sent, conns, cons, K, W, m)
                           /\ Partway(draft, buf, cons, W[1])
                           /\ Taken(offered, received, m)
  BY DEF IInv, Linked
<1>2. sent \in Nat /\ conns \in Seq(Conn)
  BY Given DEF IInv, Simple
<1>3. Streams(offered, sent + 1, conns, cons, K, W, m)
  BY <1>1, <1>2, StreamsSkip
<1> QED
  BY <1>1, <1>3 DEF Linked

\* The frame that is sent is a sequence of bytes, and so is a part of it.
LEMMA CurrentBytes ==
    ASSUME Simple, sent < Len(offered)
    PROVE  /\ CurrentFrame \in Seq(Byte)
           /\ \A k \in 0..Len(CurrentFrame) - 1 : SubSeq(CurrentFrame, 1, k) \in Seq(Byte)
<1>1. CurrentFrame = Frame(offered[sent + 1]) /\ offered[sent + 1] \in Warning
  BY Given
<1>2. CurrentFrame \in Seq(Byte) /\ Len(CurrentFrame) \in Nat
  BY <1>1, FrameSize
<1>3. \A k \in 0..Len(CurrentFrame) - 1 : SubSeq(CurrentFrame, 1, k) \in Seq(Byte)
  <2> DEFINE s == CurrentFrame
  <2>1. s \in Seq(Byte) /\ Len(s) \in Nat
    BY <1>2
  <2> HIDE DEF s
  <2>2. ASSUME NEW k \in 0..Len(s) - 1 PROVE SubSeq(s, 1, k) \in Seq(Byte)
    <3>1. 1 \in 1..Len(s) + 1 /\ k \in 1 - 1..Len(s)
      BY <2>1
    <3> QED
      BY <2>1, <3>1, Piece
  <2> QED
    BY <2>2 DEF s
<1> QED
  BY <1>2, <1>3

\* Failures are counted up to their bound.
LEMMA FailsType ==
    ASSUME Simple, Fails
    PROVE  failures' \in 0..MaxFailures
BY WireAssumption DEF Simple, Fails

-----------------------------------------------------------------------------
(* The sender's steps *)

\* send_warning_to sends the whole frame.
LEMMA SendStep == IInv /\ Send => IInv'
<1>1. SUFFICES ASSUME IInv, Send PROVE IInv'
  OBVIOUS
<1>2. /\ sent < Len(offered) /\ sent' = sent + 1
      /\ offered' = offered /\ draft' = draft /\ buf' = buf /\ received' = received
      /\ failures' = failures
  BY <1>1 DEF Send, Sends
<1>3. Simple /\ sent' \in 0..Len(offered)
  BY <1>1, <1>2, Given DEF IInv
<1>4. CASE pooled # "dead" /\ Output(CurrentFrame, FALSE) /\ pooled' = "open"
  <2>1. CurrentFrame \in Seq(Byte)
    BY <1>2, <1>3, CurrentBytes
  <2>2. /\ conns' \in Seq(Conn) /\ conns' # <<>> /\ conns'[Len(conns')].closed = FALSE
        /\ \A c \in 1..Len(conns') : c # Len(conns') => conns'[c].closed
    BY <1>1, <1>3, <1>4, <2>1, OutputConns
  <2>3. Linked(offered, sent + 1, conns', draft, buf, received)
    BY <1>1, <1>2, <1>4, <2>1, OutputLinked
  <2>4. Simple'
    BY <1>2, <1>3, <1>4, <2>2 DEF Simple
  <2> QED
    BY <1>2, <2>3, <2>4 DEF IInv
<1>5. CASE pooled = "dead" /\ UNCHANGED <<pooled, conns>>
  <2>1. Simple'
    BY <1>2, <1>3, <1>5 DEF Simple
  <2>2. Linked(offered, sent + 1, conns, draft, buf, received)
    BY <1>1, LinkedSkip
  <2> QED
    BY <1>2, <1>5, <2>1, <2>2 DEF IInv
<1> QED
  BY <1>1, <1>4, <1>5 DEF Send

\* Writing nothing to a connection leaves it as it is.
LEMMA NothingWritten ==
    ASSUME NEW cs \in Seq(Conn), cs # <<>>, ~cs[Len(cs)].closed
    PROVE  Written(cs, <<>>, FALSE) = cs
<1> DEFINE p == Len(cs)
<1>1. p \in 1..Len(cs)
  <2>1. Len(cs) \in Nat /\ Len(cs) # 0
    BY LenProperties, EmptySeq
  <2> QED
    BY <2>1
<1>2. cs[p] \in Conn /\ cs[p].bytes \in Seq(Byte) /\ cs[p].closed = FALSE
  BY <1>1, ConnParts
<1>3. cs[p].bytes \o <<>> = cs[p].bytes
  BY <1>2, ConcatEmptySeq, Zenon
<1>4. [bytes |-> cs[p].bytes \o <<>>, closed |-> FALSE] = cs[p]
  BY <1>2, <1>3 DEF Conn
<1>5. cs \in [1..Len(cs) -> Conn]
  BY LenProperties, Zenon
<1> HIDE DEF p
<1>6. [cs EXCEPT ![p] = cs[p]] = cs
  BY <1>1, <1>5
<1> QED
  BY <1>4, <1>6 DEF Written, p

\* send_warning_to fails before it sends anything.
LEMMA SendWithoutFrameStep == IInv /\ SendWithoutFrame => IInv'
<1>1. SUFFICES ASSUME IInv, SendWithoutFrame PROVE IInv'
  OBVIOUS
<1>2. /\ sent < Len(offered) /\ sent' = sent + 1 /\ Fails
      /\ offered' = offered /\ draft' = draft /\ buf' = buf /\ received' = received
  BY <1>1 DEF SendWithoutFrame, Sends
<1>3. Simple /\ sent' \in 0..Len(offered) /\ failures' \in 0..MaxFailures
  BY <1>1, <1>2, Given, FailsType DEF IInv
<1>4. CASE UNCHANGED <<pooled, conns>>
  <2>1. Simple'
    BY <1>2, <1>3, <1>4 DEF Simple
  <2>2. Linked(offered, sent + 1, conns, draft, buf, received)
    BY <1>1, LinkedSkip
  <2> QED
    BY <1>2, <1>4, <2>1, <2>2 DEF IInv
<1>5. CASE pooled = "none" /\ Output(<<>>, FALSE) /\ pooled' = "open"
  <2>1. <<>> \in Seq(Byte)
    BY EmptySeq, Zenon
  <2>2. /\ conns' \in Seq(Conn) /\ conns' # <<>> /\ conns'[Len(conns')].closed = FALSE
        /\ \A c \in 1..Len(conns') : c # Len(conns') => conns'[c].closed
    BY <1>1, <1>3, <1>5, <2>1, OutputConns
  <2>3. Simple'
    BY <1>2, <1>3, <1>5, <2>2 DEF Simple
  <2>4. PICK cons, K0, W, m : /\ Streams(offered, sent, conns, cons, K0, W, m)
                              /\ Partway(draft, buf, cons, W[1])
                              /\ Taken(offered, received, m)
    BY <1>1 DEF IInv, Linked
  <2>5. /\ Connected \in Seq(Conn) /\ Connected # <<>> /\ ~Connected[Len(Connected)].closed
        /\ \E K : Streams(offered, sent, Connected, cons, K, W, m)
    BY <1>3, <1>5, <2>4, ConnectedOpen
  <2>6. PICK K : Streams(offered, sent, Connected, cons, K, W, m)
    BY <2>5
  <2>7. conns' = Connected
    <3>1. conns' = Written(Connected, <<>>, FALSE)
      BY <1>5 DEF Output, Written
    <3> QED
      BY <2>5, <3>1, NothingWritten
  <2>8. Streams(offered, sent + 1, conns', cons, K, W, m)
    BY <1>3, <2>5, <2>6, <2>7, Given, StreamsSkip
  <2>9. Linked(offered, sent + 1, conns', draft, buf, received)
    BY <2>4, <2>8 DEF Linked
  <2> QED
    BY <1>2, <2>3, <2>9 DEF IInv
<1> QED
  BY <1>1, <1>4, <1>5 DEF SendWithoutFrame

\* send_warning_to fails when a part of the frame is sent.
LEMMA SendFailsStep == IInv /\ SendFails => IInv'
<1>1. SUFFICES ASSUME IInv, SendFails PROVE IInv'
  OBVIOUS
<1>2. /\ sent < Len(offered) /\ sent' = sent + 1 /\ pooled' = "none"
      /\ offered' = offered /\ draft' = draft /\ buf' = buf /\ received' = received
  BY <1>1 DEF SendFails, Sends
<1>3. Simple /\ sent' \in 0..Len(offered)
  BY <1>1, <1>2, Given DEF IInv
<1>4. ASSUME pooled # "dead", Fails, NEW k \in 0..Len(CurrentFrame) - 1,
             Output(SubSeq(CurrentFrame, 1, k), TRUE)
      PROVE  IInv'
  <2> DEFINE f == SubSeq(CurrentFrame, 1, k)
  <2>1. f \in Seq(Byte)
    BY <1>2, <1>3, CurrentBytes
  <2>2. /\ conns' \in Seq(Conn) /\ conns'[Len(conns')].closed = TRUE
        /\ \A c \in 1..Len(conns') : c # Len(conns') => conns'[c].closed
    BY <1>1, <1>3, <1>4, <2>1, OutputConns
  <2>3. \E l \in 0..Len(CurrentFrame) - 1 : f = SubSeq(CurrentFrame, 1, l)
    OBVIOUS
  <2>4. Linked(offered, sent + 1, conns', draft, buf, received)
    <3>1. Output(f, TRUE)
      BY <1>4
    <3> HIDE DEF f
    <3> QED
      BY <1>1, <1>2, <1>4, <2>1, <2>3, <3>1, OutputLinked
  <2>5. failures' \in 0..MaxFailures
    BY <1>3, <1>4, FailsType
  <2>6. \A c \in 1..Len(conns') : conns'[c].closed
    BY <2>2
  <2>7. Simple'
    BY <1>2, <1>3, <2>2, <2>5, <2>6 DEF Simple
  <2> QED
    BY <1>2, <2>4, <2>7 DEF IInv
<1>5. CASE pooled = "dead" /\ UNCHANGED <<conns, failures>>
  <2>1. Simple'
    BY <1>2, <1>3, <1>5 DEF Simple
  <2>2. Linked(offered, sent + 1, conns, draft, buf, received)
    BY <1>1, LinkedSkip
  <2> QED
    BY <1>2, <1>5, <2>1, <2>2 DEF IInv
<1> QED
  BY <1>1, <1>4, <1>5 DEF SendFails

\* connections_cleanup closes the connection.
LEMMA CleanupStep == IInv /\ connections_cleanup => IInv'
<1>1. SUFFICES ASSUME IInv, connections_cleanup PROVE IInv'
  OBVIOUS
<1>2. /\ offered' = offered /\ sent' = sent /\ draft' = draft /\ buf' = buf
      /\ received' = received /\ failures' = failures /\ pooled' = "none"
  BY <1>1 DEF connections_cleanup, senderVars
<1>3. Simple
  BY <1>1 DEF IInv
<1>4. CASE pooled = "open"
  <2>1. Output(<<>>, TRUE)
    BY <1>1, <1>4 DEF connections_cleanup
  <2>2. <<>> \in Seq(Byte)
    BY EmptySeq, Zenon
  <2>3. /\ conns' \in Seq(Conn) /\ conns'[Len(conns')].closed = TRUE
        /\ \A c \in 1..Len(conns') : c # Len(conns') => conns'[c].closed
    BY <1>1, <1>3, <1>4, <2>1, <2>2, OutputConns
  <2>4. \A c \in 1..Len(conns') : conns'[c].closed
    BY <2>3
  <2>5. Simple'
    BY <1>2, <1>3, <2>3, <2>4 DEF Simple
  <2>6. conns' = [conns EXCEPT ![Len(conns)] = [bytes |-> conns[Len(conns)].bytes \o <<>>, closed |-> TRUE]]
    BY <1>4, <2>1 DEF Output, Connected
  <2>7. PICK cons, K, W, m : /\ Streams(offered, sent, conns, cons, K, W, m)
                             /\ Partway(draft, buf, cons, W[1])
                             /\ Taken(offered, received, m)
    BY <1>1 DEF IInv, Linked
  <2>8. sent \in Nat /\ conns \in Seq(Conn) /\ conns # <<>>
    BY <1>3, <1>4, Given DEF Simple
  <2>9. Streams(offered, sent, conns', cons, K, W, m)
    BY <2>6, <2>7, <2>8, StreamsClose
  <2>10. Linked(offered, sent, conns', draft, buf, received)
    BY <2>7, <2>9 DEF Linked
  <2> QED
    BY <1>2, <2>5, <2>10 DEF IInv
<1>5. CASE pooled # "open"
  <2>1. conns' = conns
    BY <1>1, <1>5 DEF connections_cleanup
  <2>2. Simple'
    BY <1>2, <1>3, <1>5, <2>1 DEF Simple
  <2> QED
    BY <1>1, <1>2, <2>1, <2>2 DEF IInv
<1> QED
  BY <1>4, <1>5

-----------------------------------------------------------------------------
(* A reset, and the receiver's steps *)

\* A connection is reset.
LEMMA ResetStep == IInv /\ Reset => IInv'
<1>1. SUFFICES ASSUME IInv, Reset PROVE IInv'
  OBVIOUS
<1>2. /\ conns # <<>> /\ Fails /\ pooled' = Severed
      /\ conns' = [conns EXCEPT ![1] = [bytes |-> <<>>, closed |-> TRUE]]
      /\ offered' = offered /\ sent' = sent /\ draft' = draft /\ buf' = buf /\ received' = received
  BY <1>1 DEF Reset, senderVars
<1>3. Simple /\ sent \in Nat /\ conns \in Seq(Conn) /\ failures' \in 0..MaxFailures
  BY <1>1, <1>2, Given, FailsType DEF IInv, Simple
<1>4. Len(conns) \in Nat /\ 1 \in 1..Len(conns)
  <2>1. Len(conns) \in Nat /\ Len(conns) # 0
    BY <1>2, <1>3, LenProperties, EmptySeq
  <2> QED
    BY <2>1
<1>5. PICK cons, K, W, m : /\ Streams(offered, sent, conns, cons, K, W, m)
                           /\ Partway(draft, buf, cons, W[1])
                           /\ Taken(offered, received, m)
  BY <1>1 DEF IInv, Linked
<1>6. W[1] \in Warning
  BY <1>5 DEF Streams
<1>7. Len(cons) <= Len(Frame(W[1]))
  BY <1>5, <1>6, PartwayFits
<1>8. PICK K2, W2 : Streams(offered, sent, conns', cons, K2, W2, m) /\ W2[1] = W[1]
  <2>1. StillBegins(offered, sent, conns', cons, W[1], m)
    BY <1>2, <1>3, <1>5, <1>7, StreamsReset
  <2> QED
    BY <2>1 DEF StillBegins
<1>9. Linked(offered, sent, conns', draft, buf, received)
  BY <1>5, <1>8 DEF Linked
<1> DEFINE r == [bytes |-> <<>>, closed |-> TRUE]
<1>10. r \in Conn /\ r.closed = TRUE
  <2>1. <<>> \in Seq(Byte)
    BY EmptySeq, Zenon
  <2> QED
    BY <2>1 DEF Conn
<1>11. conns' = [conns EXCEPT ![1] = r]
  BY <1>2
<1> HIDE DEF r
<1>12. /\ conns' \in Seq(Conn) /\ Len(conns') = Len(conns) /\ conns'[1] = r
       /\ \A c \in 1..Len(conns) : c # 1 => conns'[c] = conns[c]
  BY <1>3, <1>4, <1>10, <1>11, Replaced
<1>13. conns' # <<>>
  BY <1>4, <1>12, EmptySeq
<1>14. Simple'
  <2>1. CASE Len(conns) = 1
    <3>1. pooled' # "open" /\ pooled' \in {"none", "open", "dead"}
      BY <1>2, <1>3, <2>1 DEF Severed, Simple
    <3>2. \A c \in 1..Len(conns') : conns'[c].closed
      BY <1>10, <1>12, <2>1
    <3> QED
      BY <1>2, <1>3, <1>12, <3>1, <3>2 DEF Simple
  <2>2. CASE Len(conns) # 1
    <3>1. pooled' = pooled
      BY <1>2, <2>2 DEF Severed
    <3>2. \A c \in 1..Len(conns') : conns'[c].closed \/ (c = Len(conns') /\ pooled' = "open")
      BY <1>3, <1>10, <1>12, <3>1 DEF Simple
    <3>3. pooled' = "open" => conns' # <<>> /\ ~conns'[Len(conns')].closed
      BY <1>3, <1>4, <1>12, <1>13, <2>2, <3>1 DEF Simple
    <3> QED
      BY <1>2, <1>3, <1>12, <3>1, <3>2, <3>3 DEF Simple
  <2> QED
    BY <2>1, <2>2
<1> QED
  BY <1>2, <1>9, <1>14 DEF IInv

\* recv_all receives a piece.
LEMMA RecvStep == IInv /\ Recv => IInv'
<1>1. SUFFICES ASSUME IInv, Recv PROVE IInv'
  OBVIOUS
<1>2. /\ conns # <<>> /\ pooled' = pooled /\ failures' = failures
      /\ offered' = offered /\ sent' = sent /\ draft' = draft /\ received' = received
  BY <1>1 DEF Recv, senderVars
<1>3. Simple /\ sent \in Nat /\ conns \in Seq(Conn)
  BY <1>1, Given DEF IInv, Simple
<1>4. Len(conns) \in Nat /\ 1 \in 1..Len(conns)
  <2>1. Len(conns) \in Nat /\ Len(conns) # 0
    BY <1>2, <1>3, LenProperties, EmptySeq
  <2> QED
    BY <2>1
<1>5. Head(conns) = conns[1]
  BY <1>2, <1>3
<1> DEFINE b == conns[1].bytes
<1>6. PICK k \in 1..(Needed - Len(buf)) :
         /\ k <= Len(b) /\ buf' = buf \o SubSeq(b, 1, k)
         /\ conns' = [conns EXCEPT ![1].bytes = SubSeq(@, k + 1, Len(@))]
  BY <1>1, <1>5 DEF Recv
<1>7. PICK cons, K, W, m : /\ Streams(offered, sent, conns, cons, K, W, m)
                           /\ Partway(draft, buf, cons, W[1])
                           /\ Taken(offered, received, m)
  BY <1>1 DEF IInv, Linked
<1>8. cons \in Seq(Byte) /\ W[1] \in Warning
  BY <1>7 DEF Streams
<1>9. conns[1] \in Conn /\ b \in Seq(Byte) /\ conns[1].closed \in BOOLEAN
  BY <1>3, <1>4, ConnParts
<1>10. Needed \in Nat /\ Len(buf) \in Nat
  <2>1. Field \in 1..7 /\ Needed = Len(Chunks(W[1])[Field])
    BY <1>7, <1>8, NeededIsLength
  <2>2. Len(Chunks(W[1])[Field]) \in Nat
    BY <1>8, <2>1, BeginNext
  <2> QED
    BY <1>7, <2>1, <2>2, NextField
<1>11. k \in 1..Len(b) /\ k \in Nat /\ Len(buf) + k <= Needed
  <2>1. Len(b) \in Nat
    BY <1>9, LenProperties
  <2> QED
    BY <1>6, <1>10, <2>1
<1> HIDE DEF b
<1> DEFINE x == SubSeq(b, 1, k)
           y == SubSeq(b, k + 1, Len(b))
<1>12. x \in Seq(Byte) /\ Len(x) = k /\ y \in Seq(Byte)
  BY <1>9, <1>11, Halves
<1>13. Partway(draft, buf', cons \o x, W[1])
  BY <1>6, <1>7, <1>8, <1>11, <1>12, PartwayMore
<1>14. Streams(offered, sent, conns', cons \o x, K, W, m)
  BY <1>2, <1>3, <1>6, <1>7, <1>11, StreamsRecv DEF b
<1>15. Linked(offered, sent, conns', draft, buf', received)
  BY <1>7, <1>13, <1>14 DEF Linked
<1> DEFINE r == [bytes |-> y, closed |-> conns[1].closed]
<1>16. conns' = [conns EXCEPT ![1] = r]
  <2>1. [conns[1] EXCEPT !.bytes = y] = r
    BY <1>9, ConnBytes
  <2> QED
    BY <1>6, <2>1 DEF b
<1>17. r \in Conn /\ r.closed = conns[1].closed
  BY <1>9, <1>12 DEF Conn
<1> HIDE DEF r
<1>18. /\ conns' \in Seq(Conn) /\ Len(conns') = Len(conns) /\ conns'[1] = r
       /\ \A c \in 1..Len(conns) : c # 1 => conns'[c] = conns[c]
  BY <1>3, <1>4, <1>16, <1>17, Replaced
<1>19. conns' # <<>> /\ \A c \in 1..Len(conns) : conns'[c].closed = conns[c].closed
  BY <1>4, <1>17, <1>18, EmptySeq
<1>20. Simple'
  BY <1>2, <1>3, <1>4, <1>18, <1>19 DEF Simple
<1> QED
  BY <1>2, <1>15, <1>20 DEF IInv

\* deserialize_warning decodes a field; the last one makes the warning that was sent.
LEMMA FieldReadStep == IInv /\ FieldRead => IInv'
<1>1. SUFFICES ASSUME IInv, FieldRead PROVE IInv'
  OBVIOUS
<1>2. /\ conns # <<>> /\ Gathered /\ pooled' = pooled /\ failures' = failures /\ conns' = conns
      /\ offered' = offered /\ sent' = sent /\ buf' = <<>>
  BY <1>1 DEF FieldRead, senderVars
<1>3. Simple /\ sent \in Nat /\ conns \in Seq(Conn) /\ received \in Seq(Warning)
  BY <1>1, Given DEF IInv, Simple
<1>4. PICK cons, K, W, m : /\ Streams(offered, sent, conns, cons, K, W, m)
                           /\ Partway(draft, buf, cons, W[1])
                           /\ Taken(offered, received, m)
  BY <1>1 DEF IInv, Linked
<1> DEFINE w == W[1]
<1>5. cons \in Seq(Byte) /\ w \in Warning /\ m \in Nat
  BY <1>4 DEF Streams
<1>6. Len(cons) <= Len(Frame(w))
  BY <1>4, <1>5, PartwayFits
<1>7. \A i \in 1..Len(cons) : cons[i] = Frame(w)[i]
  <2>1. 1 \in 1..Len(conns)
    <3>1. Len(conns) \in Nat /\ Len(conns) # 0
      BY <1>2, <1>3, LenProperties, EmptySeq
    <3> QED
      BY <3>1
  <2> DEFINE b == conns[1].bytes
  <2>2. b \in Seq(Byte)
    BY <1>3, <2>1, ConnParts
  <2>3. /\ Stream(conns, cons, 1) \in Seq(Byte)
        /\ Framed(offered, Stream(conns, cons, 1), conns[1].closed, K[1], w)
    BY <1>3, <1>4, <2>1, StreamsParts
  <2>4. Agrees(w, Stream(conns, cons, 1))
    <3> HIDE DEF w
    <3> QED
      BY <1>5, <2>3, FramedFirst
  <2>5. Agrees(w, cons \o b)
    BY <2>4 DEF Stream
  <2> HIDE DEF w, b
  <2> QED
    BY <1>5, <1>6, <2>2, <2>5, PartwayAgrees
<1>8. buf = Chunks(w)[Field]
  BY <1>2, <1>4, <1>5, <1>7, GatheredField
<1>9. CASE ~IsLast /\ draft' = Append(draft, Decoded) /\ UNCHANGED received
  <2>1. Partway(draft', <<>>, cons, w)
    BY <1>4, <1>5, <1>8, <1>9, PartwayNext
  <2>2. Linked(offered, sent, conns, draft', <<>>, received)
    BY <1>4, <2>1 DEF Linked
  <2>3. Simple'
    BY <1>2, <1>3, <1>9 DEF Simple
  <2> QED
    BY <1>2, <1>9, <2>2, <2>3 DEF IInv
<1>10. CASE IsLast /\ draft' = <<>> /\ received' = Append(received, Created)
  <2>1. Created = w /\ Len(cons) = Len(Frame(w))
    BY <1>4, <1>5, <1>8, <1>10, CreatedWarning
  <2>2. \A j \in 1..sent : offered[j] \in Warning
    BY <1>3, Given
  <2>3. PICK K2, W2 : \E k \in 1..sent : /\ Streams(offered, sent, conns, <<>>, K2, W2, k)
                                         /\ m < k /\ w = offered[k]
    BY <1>2, <1>3, <1>4, <2>1, <2>2, StreamsRead
  <2>4. PICK k \in 1..sent : /\ Streams(offered, sent, conns, <<>>, K2, W2, k)
                             /\ m < k /\ w = offered[k]
    BY <2>3
  <2>5. received' = Append(received, offered[k]) /\ offered[k] \in Warning
    BY <1>10, <2>1, <2>2, <2>4
  <2>6. Taken(offered, received', k)
    <3>1. k \in Nat
      OBVIOUS
    <3>2. Taken(offered, Append(received, offered[k]), k)
      BY <1>3, <1>4, <1>5, <2>4, <2>5, <3>1, TakenMore, Zenon
    <3> QED
      BY <2>5, <3>2
  <2>7. W2[1] \in Warning
    BY <2>4 DEF Streams
  <2>8. Partway(<<>>, <<>>, <<>>, W2[1])
    BY <2>7, PartwayStart
  <2>9. Linked(offered, sent, conns, <<>>, <<>>, received')
    BY <2>4, <2>6, <2>8 DEF Linked
  <2>10. received' \in Seq(Warning)
    BY <1>3, <2>5, AppendProperties
  <2>11. Simple'
    BY <1>2, <1>3, <2>10 DEF Simple
  <2> QED
    BY <1>2, <1>10, <2>9, <2>11 DEF IInv
<1> QED
  BY <1>1, <1>9, <1>10 DEF FieldRead

\* The receiver gives up the first connection.
LEMMA DropStep ==
    ASSUME IInv, conns # <<>>, Drop, failures' \in 0..MaxFailures,
           pooled' = Severed \/ (pooled' = pooled /\ conns[1].closed)
    PROVE  IInv'
<1>1. /\ conns' = Tail(conns) /\ draft' = <<>> /\ buf' = <<>>
      /\ offered' = offered /\ sent' = sent /\ received' = received
  BY DEF Drop, senderVars
<1>2. Simple /\ sent \in Nat /\ conns \in Seq(Conn)
  BY Given DEF IInv, Simple
<1>3. PICK cons, K, W, m : /\ Streams(offered, sent, conns, cons, K, W, m)
                           /\ Taken(offered, received, m)
  BY DEF IInv, Linked
<1>4. PICK K2, W2 : Streams(offered, sent, Tail(conns), <<>>, K2, W2, m)
  BY <1>2, <1>3, StreamsDrop
<1>5. W2[1] \in Warning
  BY <1>4 DEF Streams
<1>6. Partway(<<>>, <<>>, <<>>, W2[1])
  BY <1>5, PartwayStart
<1>7. Linked(offered, sent, Tail(conns), <<>>, <<>>, received)
  BY <1>3, <1>4, <1>6 DEF Linked
<1>8. /\ conns' \in Seq(Conn) /\ Len(conns') = Len(conns) - 1
      /\ \A c \in 1..Len(conns') : conns'[c] = conns[c + 1]
  BY <1>1, <1>2, HeadTailProperties
<1>9. Len(conns) \in Nat /\ Len(conns) # 0
  BY <1>2, LenProperties, EmptySeq
<1>10. CASE Len(conns) = 1
  <2>1. pooled' # "open" /\ pooled' \in {"none", "open", "dead"}
    BY <1>2, <1>10 DEF Severed, Simple
  <2>2. \A c \in 1..Len(conns') : conns'[c].closed
    BY <1>8, <1>10
  <2>3. Simple'
    BY <1>1, <1>2, <1>8, <2>1, <2>2 DEF Simple
  <2> QED
    BY <1>1, <1>7, <2>3 DEF IInv
<1>11. CASE Len(conns) # 1
  <2>1. pooled' = pooled
    BY <1>11 DEF Severed
  <2>2. \A c \in 1..Len(conns') : c + 1 \in 1..Len(conns) /\ (c + 1 = Len(conns) => c = Len(conns'))
    BY <1>8, <1>9
  <2>3. \A c \in 1..Len(conns') : conns'[c].closed \/ (c = Len(conns') /\ pooled' = "open")
    BY <1>2, <1>8, <2>1, <2>2 DEF Simple
  <2>4. pooled' = "open" => conns' # <<>> /\ ~conns'[Len(conns')].closed
    <3>1. Len(conns') \in 1..Len(conns') /\ Len(conns') + 1 = Len(conns)
      BY <1>8, <1>9, <1>11
    <3>2. conns'[Len(conns')] = conns[Len(conns)]
      BY <1>8, <3>1
    <3>3. conns' # <<>>
      BY <1>8, <1>9, <1>11, EmptySeq
    <3> QED
      BY <1>2, <2>1, <3>2, <3>3 DEF Simple
  <2>5. Simple'
    BY <1>1, <1>2, <1>8, <2>1, <2>3, <2>4 DEF Simple
  <2> QED
    BY <1>1, <1>7, <2>5 DEF IInv
<1> QED
  BY <1>10, <1>11

\* The connection ends.
LEMMA EndOfStreamStep == IInv /\ EndOfStream => IInv'
<1>1. SUFFICES ASSUME IInv, EndOfStream PROVE IInv'
  OBVIOUS
<1>2. conns # <<>> /\ Drop /\ pooled' = pooled /\ failures' = failures /\ Head(conns).closed
  BY <1>1 DEF EndOfStream
<1>3. conns \in Seq(Conn) /\ failures \in 0..MaxFailures
  BY <1>1 DEF IInv, Simple
<1>4. conns[1].closed
  BY <1>2, <1>3
<1> QED
  BY <1>1, <1>2, <1>3, <1>4, DropStep

\* The receiver has no memory for a string or for the warning.
LEMMA NoMemoryStep == IInv /\ NoMemory => IInv'
<1>1. SUFFICES ASSUME IInv, NoMemory PROVE IInv'
  OBVIOUS
<1>2. conns # <<>> /\ Drop /\ pooled' = Severed /\ Fails
  BY <1>1 DEF NoMemory
<1>3. failures' \in 0..MaxFailures
  BY <1>1, <1>2, FailsType DEF IInv
<1> QED
  BY <1>1, <1>2, <1>3, DropStep

-----------------------------------------------------------------------------
(* The theorems *)

\* Nothing is sent at first.
LEMMA InitLinked == Init => IInv
<1>1. SUFFICES ASSUME Init PROVE IInv
  OBVIOUS
<1>2. /\ offered \in Batches /\ sent = 0 /\ pooled = "none" /\ conns = <<>>
      /\ draft = <<>> /\ buf = <<>> /\ received = <<>> /\ failures = 0
  BY <1>1 DEF Init
<1>3. offered \in Seq(Warning) /\ Len(offered) \in Nat
  BY <1>2, WireAssumption, LenProperties
<1>4. Len(<<>>) = 0 /\ <<>> \in Seq(Conn) /\ <<>> \in Seq(Warning) /\ <<>> \in Seq(Byte)
  OBVIOUS
<1>5. Simple
  BY <1>2, <1>3, <1>4, WireAssumption DEF Simple
<1> DEFINE w == [city |-> <<>>, dest_node |-> <<>>, type |-> 0, value |-> 0, timestamp |-> 0]
           K == [c \in Nat |-> {}]
           W == [c \in Nat |-> w]
<1>6. w \in Warning
  <2>1. <<>> \in String
    BY <1>4, Sizes DEF String, Word32
  <2>2. 0 \in Word32 /\ 0 \in Word64
    BY Sizes, Product DEF Word32, Word64
  <2> QED
    BY <2>1, <2>2 DEF Warning
<1> HIDE DEF w
<1>7. K \in [Nat -> SUBSET Nat] /\ W \in [Nat -> Warning] /\ W[1] = w
  BY <1>6
<1> HIDE DEF K, W
<1>8. Streams(offered, 0, <<>>, <<>>, K, W, 0)
  BY <1>4, <1>7 DEF Streams
<1>9. Partway(<<>>, <<>>, <<>>, W[1])
  BY <1>6, <1>7, PartwayStart
<1>10. Taken(offered, <<>>, 0)
  <2> DEFINE at == [i \in {} |-> i]
  <2>1. 1..Len(<<>>) = {}
    BY <1>4
  <2>2. at \in [1..Len(<<>>) -> 1..0]
    BY <2>1
  <2> QED
    BY <2>1, <2>2 DEF Taken
<1>11. Linked(offered, 0, <<>>, <<>>, <<>>, <<>>)
  BY <1>8, <1>9, <1>10 DEF Linked
<1> QED
  BY <1>2, <1>5, <1>11 DEF IInv

\* Every step keeps the invariant.
LEMMA NextLinked == IInv /\ [Next]_vars => IInv'
<1>1. SUFFICES ASSUME IInv, [Next]_vars PROVE IInv'
  OBVIOUS
<1>2. CASE UNCHANGED vars
  <2>1. /\ offered' = offered /\ sent' = sent /\ pooled' = pooled /\ conns' = conns
        /\ draft' = draft /\ buf' = buf /\ received' = received /\ failures' = failures
    BY <1>2 DEF vars, senderVars
  <2>2. Simple'
    BY <1>1, <2>1 DEF IInv, Simple
  <2> QED
    BY <1>1, <2>1, <2>2 DEF IInv
<1>3. CASE Next
  BY <1>1, <1>3, SendStep, SendWithoutFrameStep, SendFailsStep, CleanupStep, ResetStep,
     RecvStep, FieldReadStep, EndOfStreamStep, NoMemoryStep DEF Next, Sender, Receiver
<1> QED
  BY <1>1, <1>2, <1>3

\* The invariant holds.
LEMMA LinkedAlways == Spec => []IInv
<1>1. Init => IInv
  BY InitLinked
<1>2. IInv /\ [Next]_vars => IInv'
  BY NextLinked
<1> QED
  BY <1>1, <1>2, PTL DEF Spec

\* The invariant is about states of the right type: in particular recv_all never holds
\* more than it was asked for, and what deserialize_warning returns is a warning.
LEMMA LinkedTypes == IInv => TypeOK
<1>1. SUFFICES ASSUME IInv PROVE TypeOK
  OBVIOUS
<1>2. PICK cons, K, W, m : /\ Streams(offered, sent, conns, cons, K, W, m)
                           /\ Partway(draft, buf, cons, W[1])
  BY <1>1 DEF IInv, Linked
<1>3. W[1] \in Warning
  BY <1>2 DEF Streams
<1>4. Field \in 1..7 /\ buf \in Seq(Byte) /\ Len(buf) <= Needed
  <2>1. Field \in 1..7 /\ Field = Len(draft) + 1 /\ Needed = Len(Chunks(W[1])[Field])
    BY <1>2, <1>3, NeededIsLength
  <2> QED
    BY <1>2, <2>1 DEF Partway
<1>5. Simple
  BY <1>1 DEF IInv
<1>6. conns \in Seq([bytes : Seq(Byte), closed : BOOLEAN]) /\ DOMAIN conns = 1..Len(conns)
  BY <1>5, LenProperties DEF Simple, Conn
<1>7. \A c \in DOMAIN conns : conns[c].closed \/ c = Len(conns)
  BY <1>5, <1>6 DEF Simple
<1>8. pooled = "open" => conns # <<>> /\ ~Last(conns).closed
  BY <1>5 DEF Simple, Last
<1> QED
  BY <1>4, <1>5, <1>6, <1>7, <1>8 DEF TypeOK, Simple

\* Type correctness, with what it says of the sender's connection (only the latest one is
\* open) and of recv_all (it never gathers more bytes than the field it is called for has).
THEOREM WireTypeCorrect == Spec => []TypeOK
BY LinkedAlways, LinkedTypes, PTL

\* However the bytes come in pieces, wherever a connection breaks and whatever fails,
\* what deserialize_warning returns is what send_warning_to was called for, in its order.
THEOREM ReceivedAsSentHolds == Spec => []ReceivedAsSent
<1>1. IInv => ReceivedAsSent
  <2>1. SUFFICES ASSUME IInv PROVE ReceivedAsSent
    OBVIOUS
  <2>2. PICK cons, K, W, m : Streams(offered, sent, conns, cons, K, W, m) /\ Taken(offered, received, m)
    BY <2>1 DEF IInv, Linked
  <2>3. m \in Nat /\ m <= sent /\ sent \in Nat /\ sent <= Len(offered) /\ Len(offered) \in Nat
    BY <2>1, <2>2, Given DEF IInv, Streams
  <2>4. PICK at \in [1..Len(received) -> 1..m] :
           /\ \A j, k \in 1..Len(received) : j < k => at[j] < at[k]
           /\ \A k \in 1..Len(received) : received[k] = offered[at[k]]
    BY <2>2 DEF Taken
  <2>5. at \in [1..Len(received) -> 1..Len(offered)]
    <3>1. \A i \in 1..m : i \in 1..Len(offered)
      BY <2>3
    <3> QED
      BY <3>1
  <2> QED
    BY <2>4, <2>5 DEF ReceivedAsSent
<1> QED
  BY <1>1, LinkedAlways, PTL

\* What is behind the first part of a sequence of bytes.
LEMMA Behind ==
    ASSUME NEW s \in Seq(Byte), NEW f \in Seq(Byte)
    PROVE  SubSeq(s \o f, Len(s) + 1, Len(s \o f)) = f
<1> DEFINE t == s \o f
           n == Len(s)
           x == SubSeq(t, n + 1, Len(t))
<1>1. /\ t \in Seq(Byte) /\ n \in Nat /\ Len(f) \in Nat /\ Len(t) = n + Len(f)
      /\ \A i \in 1..Len(f) : t[n + i] = f[i]
  BY Concat
<1> HIDE DEF t, n
<1>2. n + 1 \in 1..Len(t) + 1 /\ Len(t) \in (n + 1) - 1..Len(t)
  BY <1>1
<1>3. /\ x \in Seq(Byte) /\ Len(x) = Len(t) - (n + 1) + 1
      /\ \A i \in 1..Len(t) - (n + 1) + 1 : x[i] = t[n + 1 + i - 1]
  BY <1>1, <1>2, Piece
<1> HIDE DEF x
<1>4. Len(t) - (n + 1) + 1 = Len(f) /\ \A i \in 1..Len(f) : n + 1 + i - 1 = n + i
  BY <1>1
<1>5. Len(x) = Len(f) /\ \A i \in 1..Len(x) : x[i] = f[i]
  BY <1>1, <1>3, <1>4
<1>6. x = f
  BY <1>3, <1>5, SameBytes
<1> QED
  BY <1>6 DEF x, t, n

\* A first part of a sequence of bytes.
LEMMA FirstPart ==
    ASSUME NEW s \in Seq(Byte), NEW t \in Seq(Byte),
           Len(s) <= Len(t), \A i \in 1..Len(s) : s[i] = t[i]
    PROVE  IsPrefix(s, t)
<1> DEFINE n == Len(s)
           x == SubSeq(s, 1, n)
           y == SubSeq(t, 1, n)
<1>1. n \in Nat /\ Len(t) \in Nat
  BY LenProperties
<1>2. x \in Seq(Byte) /\ Len(x) = n /\ \A i \in 1..n : x[i] = s[i]
  <2> HIDE DEF n
  <2>1. 1 \in 1..Len(s) + 1 /\ n \in 1 - 1..Len(s)
    BY <1>1 DEF n
  <2>2. /\ x \in Seq(Byte) /\ Len(x) = n - 1 + 1
        /\ \A i \in 1..n - 1 + 1 : x[i] = s[1 + i - 1]
    BY <2>1, Piece
  <2> QED
    BY <1>1, <2>2
<1>3. y \in Seq(Byte) /\ Len(y) = n /\ \A i \in 1..n : y[i] = t[i]
  <2>0. n <= Len(t)
    OBVIOUS
  <2> HIDE DEF n
  <2>1. 1 \in 1..Len(t) + 1 /\ n \in 1 - 1..Len(t)
    BY <1>1, <2>0
  <2>2. /\ y \in Seq(Byte) /\ Len(y) = n - 1 + 1
        /\ \A i \in 1..n - 1 + 1 : y[i] = t[1 + i - 1]
    BY <2>1, Piece
  <2> QED
    BY <1>1, <2>2
<1> HIDE DEF x, y
<1>4. x = y
  BY <1>2, <1>3, SameBytes
<1> QED
  BY <1>4 DEF IsPrefix, x, y, n

\* Behind the bytes s, a first part f of the bytes g was put.
LEMMA Appended ==
    ASSUME NEW s \in Seq(Byte), NEW f \in Seq(Byte), NEW g \in Seq(Byte),
           Len(f) <= Len(g), \A i \in 1..Len(f) : f[i] = g[i]
    PROVE  /\ IsPrefix(s, s \o f)
           /\ IsPrefix(SubSeq(s \o f, Len(s) + 1, Len(s \o f)), g)
<1>1. /\ s \o f \in Seq(Byte) /\ Len(s) <= Len(s \o f)
      /\ \A i \in 1..Len(s) : s[i] = (s \o f)[i]
  BY Concat
<1>2. IsPrefix(s, s \o f)
  <2> DEFINE t == s \o f
  <2>1. t \in Seq(Byte) /\ Len(s) <= Len(t) /\ \A i \in 1..Len(s) : s[i] = t[i]
    BY <1>1
  <2> HIDE DEF t
  <2>2. IsPrefix(s, t)
    BY <2>1, FirstPart
  <2> QED
    BY <2>2 DEF t
<1>3. SubSeq(s \o f, Len(s) + 1, Len(s \o f)) = f
  BY Behind
<1>4. IsPrefix(f, g)
  BY FirstPart
<1> QED
  BY <1>2, <1>3, <1>4

\* What a step may put on connection c, and what it may not take away.
PutOn(c, g) ==
    /\ IsPrefix(BytesOn(c), conns'[c].bytes)
    /\ IsPrefix(SubSeq(conns'[c].bytes, Len(BytesOn(c)) + 1, Len(conns'[c].bytes)), g)

\* A connection that a call leaves alone.
LEMMA PutNothing ==
    ASSUME NEW c, NEW g \in Seq(Byte), BytesOn(c) \in Seq(Byte),
           conns'[c].bytes = BytesOn(c)
    PROVE  PutOn(c, g)
<1> DEFINE s == BytesOn(c)
           f == <<>>
<1>1. f \in Seq(Byte) /\ Len(f) = 0
  OBVIOUS
<1>2. s \in Seq(Byte) /\ s \o f = s
  BY ConcatEmptySeq, Zenon
<1> HIDE DEF s, f
<1>3. Len(f) <= Len(g) /\ \A i \in 1..Len(f) : f[i] = g[i]
  <2>1. Len(g) \in Nat
    BY LenProperties
  <2> QED
    BY <1>1, <2>1
<1>4. IsPrefix(s, s \o f) /\ IsPrefix(SubSeq(s \o f, Len(s) + 1, Len(s \o f)), g)
  BY <1>1, <1>2, <1>3, Appended
<1> QED
  BY <1>2, <1>4 DEF PutOn, s

\* No connection is lost, and only the latest is given more: a first part of g.
Puts(g) ==
    /\ Len(conns) <= Len(conns')
    /\ \A c \in 1..Len(conns') : PutOn(c, IF c = Len(conns') THEN g ELSE <<>>)

\* A call that leaves the connections as they are.
LEMMA SkipPuts ==
    ASSUME Simple, conns' = conns, NEW g \in Seq(Byte)
    PROVE  Puts(g)
<1>1. conns \in Seq(Conn) /\ DOMAIN conns = 1..Len(conns) /\ Len(conns) \in Nat
  BY LenProperties DEF Simple
<1>2. ASSUME NEW c \in 1..Len(conns')
      PROVE  PutOn(c, IF c = Len(conns') THEN g ELSE <<>>)
  <2> DEFINE h == IF c = Len(conns') THEN g ELSE <<>>
  <2>1. h \in Seq(Byte)
    OBVIOUS
  <2>2. BytesOn(c) = conns[c].bytes /\ conns[c].bytes \in Seq(Byte)
    BY <1>1, ConnParts DEF BytesOn
  <2> HIDE DEF h
  <2>3. PutOn(c, h)
    BY <2>1, <2>2, PutNothing
  <2> QED
    BY <2>3 DEF h
<1>3. Len(conns) <= Len(conns')
  BY <1>1
<1> QED
  BY <1>2, <1>3 DEF Puts

\* A call that writes to the latest connection.
LEMMA OutputPuts ==
    ASSUME IInv, pooled # "dead", NEW f \in Seq(Byte), NEW closed \in BOOLEAN, Output(f, closed),
           NEW g \in Seq(Byte), Len(f) <= Len(g), \A i \in 1..Len(f) : f[i] = g[i]
    PROVE  Puts(g)
<1> DEFINE cs == Connected
           p == Len(cs)
           r == [bytes |-> cs[p].bytes \o f, closed |-> closed]
<1>1. PICK cons, K, W, m : Streams(offered, sent, conns, cons, K, W, m)
  BY DEF IInv, Linked
<1>2. Simple /\ conns \in Seq(Conn) /\ DOMAIN conns = 1..Len(conns) /\ Len(conns) \in Nat
  BY LenProperties DEF IInv, Simple
<1>3. cs \in Seq(Conn) /\ cs # <<>>
  BY <1>1, <1>2, ConnectedOpen
<1>4. conns' = [cs EXCEPT ![p] = r]
  BY DEF Output
<1>5. Len(conns) <= Len(cs) /\ \A c \in 1..Len(cs) : BytesOn(c) = cs[c].bytes
  <2>1. CASE pooled = "none"
    <3>1. Fresh \in Conn /\ Fresh.bytes = <<>>
      <4>1. <<>> \in Seq(Byte)
        BY EmptySeq, Zenon
      <4> QED
        BY <4>1 DEF Fresh, Conn
    <3>2. cs = Append(conns, Fresh)
      BY <2>1 DEF Connected, Fresh
    <3>3. /\ Len(cs) = Len(conns) + 1 /\ cs[Len(conns) + 1] = Fresh
          /\ \A c \in 1..Len(conns) : cs[c] = conns[c]
      BY <1>2, <3>1, <3>2, AppendProperties
    <3> HIDE DEF cs
    <3>4. ASSUME NEW c \in 1..Len(cs) PROVE BytesOn(c) = cs[c].bytes
      <4>1. CASE c \in 1..Len(conns)
        BY <1>2, <3>3, <4>1 DEF BytesOn
      <4>2. CASE c = Len(conns) + 1
        <5>1. c \notin DOMAIN conns
          BY <1>2, <4>2
        <5> QED
          BY <3>1, <3>3, <4>2, <5>1 DEF BytesOn
      <4> QED
        BY <1>2, <3>3, <4>1, <4>2
    <3> QED
      BY <1>2, <3>3, <3>4
  <2>2. CASE pooled # "none"
    <3>1. cs = conns
      BY <2>2 DEF Connected
    <3> QED
      BY <1>2, <3>1 DEF BytesOn
  <2> QED
    BY <2>1, <2>2
<1> HIDE DEF cs
<1>6. p \in 1..Len(cs)
  <2>1. Len(cs) \in Nat /\ Len(cs) # 0
    BY <1>3, LenProperties, EmptySeq
  <2> QED
    BY <2>1
<1>7. \A c \in 1..Len(cs) : cs[c].bytes \in Seq(Byte)
  BY <1>3, ConnParts
<1>8. r \in Conn /\ r.bytes = cs[p].bytes \o f
  <2>1. cs[p].bytes \in Seq(Byte)
    BY <1>6, <1>7
  <2>2. cs[p].bytes \o f \in Seq(Byte)
    BY <2>1, Joined
  <2> QED
    BY <2>2 DEF Conn
<1> HIDE DEF r
<1>9. /\ Len(conns') = Len(cs) /\ conns'[p] = r
      /\ \A c \in 1..Len(cs) : c # p => conns'[c] = cs[c]
  BY <1>3, <1>4, <1>6, <1>8, Replaced
<1>10. PutOn(p, g)
  <2> DEFINE s == cs[p].bytes
  <2>1. s \in Seq(Byte) /\ BytesOn(p) = s /\ conns'[p].bytes = s \o f
    BY <1>5, <1>6, <1>7, <1>8, <1>9
  <2> HIDE DEF s
  <2>2. IsPrefix(s, s \o f) /\ IsPrefix(SubSeq(s \o f, Len(s) + 1, Len(s \o f)), g)
    BY <2>1, Appended
  <2> QED
    BY <2>1, <2>2 DEF PutOn
<1>11. ASSUME NEW c \in 1..Len(cs), c # p
       PROVE  PutOn(c, <<>>)
  <2>1. BytesOn(c) \in Seq(Byte) /\ conns'[c].bytes = BytesOn(c) /\ <<>> \in Seq(Byte)
    BY <1>5, <1>7, <1>9, <1>11
  <2> QED
    BY <2>1, PutNothing
<1> QED
  BY <1>5, <1>9, <1>10, <1>11 DEF Puts

\* What send_warning_to puts on the wire is, for every warning and every number of
\* values of a byte, the frame in the documented byte order or a first part of it, on
\* its latest connection and on no other.
THEOREM BigEndianOnTheWireHolds == Spec => BigEndianOnTheWire
<1>1. ASSUME IInv, [Next]_vars, sent' # sent
      PROVE  Puts(DocumentedFrame(Current))
  <2> DEFINE g == CurrentFrame
  <2>1. Simple
    BY <1>1 DEF IInv
  <2>2. Send \/ SendWithoutFrame \/ SendFails
    BY <1>1 DEF Next, Sender, Receiver, vars, senderVars, connections_cleanup, Reset, Recv,
       FieldRead, EndOfStream, NoMemory, Drop
  <2>3. sent < Len(offered)
    BY <2>2 DEF Send, SendWithoutFrame, SendFails, Sends
  <2>4. g = DocumentedFrame(Current)
    <3>1. Current \in Warning /\ g = Frame(Current)
      BY <2>1, <2>3, Given DEF Current
    <3> QED
      BY <3>1, FrameIsDocumented
  <2>5. g \in Seq(Byte) /\ Len(g) \in Nat
    BY <2>1, <2>3, CurrentBytes, LenProperties
  <2>6. CASE conns' = conns
    BY <2>1, <2>4, <2>5, <2>6, SkipPuts
  <2>7. ASSUME pooled # "dead", NEW f \in Seq(Byte), NEW closed \in BOOLEAN, Output(f, closed),
               Len(f) <= Len(g), \A i \in 1..Len(f) : f[i] = g[i]
        PROVE  Puts(DocumentedFrame(Current))
    BY <1>1, <2>4, <2>5, <2>7, OutputPuts
  <2>8. CASE pooled # "dead" /\ Output(g, FALSE)
    <3>1. Len(g) <= Len(g) /\ \A i \in 1..Len(g) : g[i] = g[i]
      BY <2>5
    <3> HIDE DEF g
    <3> QED
      BY <2>5, <2>7, <2>8, <3>1
  <2>9. CASE pooled # "dead" /\ Output(<<>>, FALSE)
    <3>1. <<>> \in Seq(Byte) /\ Len(<<>>) <= Len(g) /\ \A i \in 1..Len(<<>>) : <<>>[i] = g[i]
      BY <2>5
    <3> QED
      BY <2>7, <2>9, <3>1
  <2>10. ASSUME pooled # "dead", NEW k \in 0..Len(g) - 1, Output(SubSeq(g, 1, k), TRUE)
         PROVE  Puts(DocumentedFrame(Current))
    <3> DEFINE f == SubSeq(g, 1, k)
    <3>1. f \in Seq(Byte) /\ Len(f) = k /\ \A i \in 1..k : f[i] = g[i]
      BY <2>5, Piece
    <3>2. Output(f, TRUE)
      BY <2>10
    <3>3. k <= Len(g)
      <4> HIDE DEF g
      <4> QED
        BY <2>5
    <3> HIDE DEF f
    <3> QED
      BY <2>7, <2>10, <3>1, <3>2, <3>3
  <2>11. CASE Send
    BY <2>6, <2>8, <2>11 DEF Send
  <2>12. CASE SendWithoutFrame
    BY <2>6, <2>9, <2>12 DEF SendWithoutFrame
  <2>13. CASE SendFails
    BY <2>6, <2>10, <2>13 DEF SendFails
  <2> QED
    BY <2>2, <2>11, <2>12, <2>13
<1>2. IInv /\ IInv' /\ [Next]_vars =>
        [sent' # sent =>
          /\ Len(conns) <= Len(conns')
          /\ \A c \in DOMAIN conns' :
                LET old == BytesOn(c)
                    new == conns'[c].bytes
                IN  /\ IsPrefix(old, new)
                    /\ IsPrefix(SubSeq(new, Len(old) + 1, Len(new)),
                                IF c = Len(conns') THEN DocumentedFrame(Current) ELSE <<>>)]_vars
  <2>1. SUFFICES ASSUME IInv, IInv', [Next]_vars, sent' # sent
                 PROVE  /\ Len(conns) <= Len(conns')
                        /\ \A c \in DOMAIN conns' :
                              PutOn(c, IF c = Len(conns') THEN DocumentedFrame(Current) ELSE <<>>)
    BY DEF PutOn
  <2>2. DOMAIN conns' = 1..Len(conns')
    <3>1. conns' \in Seq(Conn)
      BY <2>1 DEF IInv, Simple
    <3> QED
      BY <3>1, LenProperties, Zenon
  <2> QED
    BY <1>1, <2>1, <2>2 DEF Puts
<1> QED
  BY <1>2, LinkedAlways, PTL DEF Spec, BigEndianOnTheWire
=============================================================================
