-------------------------------- MODULE Wire --------------------------------
(***************************************************************************)
(* A warning on its way from one process to the next, byte by byte:        *)
(* send_warning_to lays it out in network order, recv_all gathers it from  *)
(* whatever pieces the connection delivers, deserialize_warning (the same  *)
(* code in both receiving programs) puts it together again.                *)
(*                                                                         *)
(* A byte has Radix values: 256 in the code, fewer here, so that the       *)
(* lengths of short strings already take several bytes.  A 32 bit integer  *)
(* is four bytes and a 64 bit integer eight, whatever their values.        *)
(***************************************************************************)
EXTENDS Integers, SequencesExt

CONSTANTS
    Radix,          \* how many values a byte has
    Batches,        \* what the sender may be given to send, in order
    MaxFailures     \* bound: how many calls of the system fail

VARIABLES
    offered,    \* the warnings that the sender is given
    sent,       \* how many of them send_warning_to has been called for
    pooled,     \* the sender's connection: "none", "open", or "dead": reset or closed by the peer
    conns,      \* the connections from the one being read to the latest
    draft,      \* the fields that deserialize_warning has decoded
    buf,        \* the bytes that recv_all has gathered for the next field
    received,   \* the warnings that deserialize_warning has returned
    failures    \* how many calls have failed

senderVars == <<offered, sent>>
vars == <<senderVars, pooled, conns, draft, buf, received, failures>>

Byte == 0..Radix - 1
Char == 1..Radix - 1        \* a string ends at the first zero
Word == Radix * Radix * Radix * Radix
Word32 == 0..Word - 1
Word64 == 0..Word * Word - 1
String == {s \in Seq(Char) : Len(s) \in Word32}

Warning == [city : String, dest_node : String,
            type : Word32, value : Word64, timestamp : Word64]

ASSUME WireAssumption ==
    /\ Radix \in Nat \ {0, 1}
    /\ MaxFailures \in Nat
    /\ Batches \subseteq Seq(Warning)

-----------------------------------------------------------------------------
(* Integers and their bytes *)

\* What the bytes of an integer count, the lowest first.
Unit == <<1, Radix, Radix * Radix, Radix * Radix * Radix>>

\* An integer in the memory of the processors the programs run on.
Memory32(n) == [i \in 1..4 |-> (n \div Unit[i]) % Radix]
Memory64(n) == Memory32(n % Word) \o Memory32(n \div Word)

\* The integer that lies in memory.
Load32(b) == b[1] + Radix * (b[2] + Radix * (b[3] + Radix * b[4]))
Load64(b) == Load32(SubSeq(b, 1, 4)) + Word * Load32(SubSeq(b, 5, 8))

\* On these processors htonl and ntohl swap the bytes.
htonl(n) == Load32(Reverse(Memory32(n)))
ntohl(n) == htonl(n)

Hi(x) == x \div Word
Lo(x) == x % Word

host_to_network64(x) == htonl(Lo(x)) * Word + htonl(Hi(x))

network_to_host64(x) == ntohl(Lo(x)) * Word + ntohl(Hi(x))

-----------------------------------------------------------------------------
(* send_warning_to *)

\* Mutant: the numbers are copied as they are, as if they had no byte order.
FrameInHostOrder(w) ==
    Memory32(Len(w.city)) \o w.city
    \o Memory32(Len(w.dest_node)) \o w.dest_node
    \o Memory32(w.type) \o Memory64(w.value) \o Memory64(w.timestamp)

\* The buffer; a length is cut to 32 bits by its type.
Frame(w) ==
    Memory32(htonl(Len(w.city))) \o w.city
    \o Memory32(htonl(Len(w.dest_node))) \o w.dest_node
    \o Memory32(htonl(w.type))
    \o Memory64(host_to_network64(w.value))
    \o Memory64(host_to_network64(w.timestamp))

\* The frames that can be sent, each worked out once.
Frames == [w \in UNION {ToSet(batch) : batch \in Batches} |-> Frame(w)]

Fails == failures < MaxFailures /\ failures' = failures + 1

\* get_or_create_connection
Connected ==
    IF pooled = "none" THEN Append(conns, [bytes |-> <<>>, closed |-> FALSE]) ELSE conns

\* What the sender puts on its connection, and whether it then closes it.
Output(bytes, closed) ==
    conns' = [Connected EXCEPT ![Len(Connected)] =
                 [bytes |-> @.bytes \o bytes, closed |-> closed]]

Current == offered[sent + 1]
CurrentFrame == Frames[Current]

Sends == sent < Len(offered) /\ sent' = sent + 1

\* The whole frame is sent.  A connection that is dead unknown to the sender
\* takes it all the same.
Send ==
    /\ Sends
    /\ \/ /\ pooled # "dead"
          /\ Output(CurrentFrame, FALSE)
          /\ pooled' = "open"
       \/ pooled = "dead" /\ UNCHANGED <<pooled, conns>>
    /\ UNCHANGED <<offered, draft, buf, received, failures>>

\* No connection, or no memory for the frame; the warning is given up.
SendWithoutFrame ==
    /\ Sends
    /\ Fails
    /\ \/ UNCHANGED <<pooled, conns>>
       \/ pooled = "none" /\ Output(<<>>, FALSE) /\ pooled' = "open"
    /\ UNCHANGED <<offered, draft, buf, received>>

\* Mutant: a connection that took a part of a frame is kept.
SendPartAndKeep ==
    /\ Sends
    /\ pooled # "dead" /\ Fails
    /\ \E k \in 0..Len(CurrentFrame) - 1 : Output(SubSeq(CurrentFrame, 1, k), FALSE)
    /\ pooled' = "open"
    /\ UNCHANGED <<offered, draft, buf, received>>

\* Mutant: the connection is closed and stays in the pool.
SendFailsAndPools ==
    /\ Sends
    /\ pooled # "dead" /\ Fails
    /\ \E k \in 0..Len(CurrentFrame) - 1 : Output(SubSeq(CurrentFrame, 1, k), TRUE)
    /\ pooled' = "open"
    /\ UNCHANGED <<offered, draft, buf, received>>

\* send fails after a part of the frame: the connection is closed, the warning
\* given up.
SendFails ==
    /\ Sends
    /\ \/ /\ pooled # "dead" /\ Fails
          /\ \E k \in 0..Len(CurrentFrame) - 1 :
                Output(SubSeq(CurrentFrame, 1, k), TRUE)
       \/ pooled = "dead" /\ UNCHANGED <<conns, failures>>
    /\ pooled' = "none"
    /\ UNCHANGED <<offered, draft, buf, received>>

\* connections_cleanup, when the sender ends.
connections_cleanup ==
    /\ sent = Len(offered) /\ pooled # "none"
    /\ IF pooled = "open" THEN Output(<<>>, TRUE) ELSE UNCHANGED conns
    /\ pooled' = "none"
    /\ UNCHANGED <<senderVars, draft, buf, received, failures>>

\* The sender knows nothing of what happens to the connection it has open.
Severed == IF Len(conns) = 1 /\ pooled = "open" THEN "dead" ELSE pooled

\* The connection is reset, by the network or because a process was killed: what
\* the receiver has not read is lost.
Reset ==
    /\ conns # <<>> /\ ~Head(conns).closed
    /\ Fails
    /\ conns' = [conns EXCEPT ![1] = [bytes |-> <<>>, closed |-> TRUE]]
    /\ pooled' = Severed
    /\ UNCHANGED <<senderVars, draft, buf, received>>

-----------------------------------------------------------------------------
(* recv_all and deserialize_warning *)

\* The fields in their order: two lengths with their strings, then numbers.
Field == Len(draft) + 1
IsLength == Field \in {1, 3}
IsString == Field \in {2, 4}
IsLast == Field = 7

\* Mutant: a string is expected with its terminating zero.
WithTerminator ==
    IF IsString THEN draft[Field - 1] + 1 ELSE IF Field \in {6, 7} THEN 8 ELSE 4

\* The n of recv_all.
Needed == IF IsString THEN draft[Field - 1] ELSE IF Field \in {6, 7} THEN 8 ELSE 4

Decoded ==
    IF IsString THEN buf
    ELSE IF Field \in {6, 7} THEN network_to_host64(Load64(buf)) ELSE ntohl(Load32(buf))

Gathered == Len(buf) = Needed

\* recv returns a piece of what has come, as long as it likes.
Recv ==
    /\ conns # <<>> /\ ~Gathered
    /\ \E k \in 1..(Needed - Len(buf)) :
          /\ k <= Len(Head(conns).bytes)
          /\ buf' = buf \o SubSeq(Head(conns).bytes, 1, k)
          /\ conns' = [conns EXCEPT ![1].bytes = SubSeq(@, k + 1, Len(@))]
    /\ UNCHANGED <<senderVars, pooled, draft, received, failures>>

\* warning_create
Created == LET f == Append(draft, Decoded) IN
    [city |-> f[2], dest_node |-> f[4], type |-> f[5], value |-> f[6], timestamp |-> f[7]]

\* recv_all returns n: the field is decoded, and the last one makes the warning.
FieldRead ==
    /\ conns # <<>> /\ Gathered
    /\ \/ /\ ~IsLast
          /\ draft' = Append(draft, Decoded)
          /\ UNCHANGED received
       \/ /\ IsLast
          /\ draft' = <<>>
          /\ received' = Append(received, Created)
    /\ buf' = <<>>
    /\ UNCHANGED <<senderVars, pooled, conns, failures>>

\* deserialize_warning returns NULL: the listener closes the connection and
\* accepts the next one.
Drop ==
    /\ conns' = Tail(conns)
    /\ draft' = <<>> /\ buf' = <<>>
    /\ UNCHANGED <<senderVars, received>>

\* recv returns 0 or an error.
EndOfStream ==
    /\ conns # <<>> /\ ~Gathered
    /\ Head(conns).bytes = <<>> /\ Head(conns).closed
    /\ Drop
    /\ UNCHANGED <<pooled, failures>>

\* There is no memory for a string or for the warning.
NoMemory ==
    /\ conns # <<>> /\ Gathered /\ (IsLength \/ IsLast)
    /\ Fails
    /\ Drop
    /\ pooled' = Severed

Sender == Send \/ SendWithoutFrame \/ SendFails \/ connections_cleanup
Receiver == Recv \/ FieldRead \/ EndOfStream \/ NoMemory

Init ==
    /\ offered \in Batches
    /\ sent = 0
    /\ pooled = "none"
    /\ conns = <<>>
    /\ draft = <<>> /\ buf = <<>>
    /\ received = <<>>
    /\ failures = 0

Next == Sender \/ Reset \/ Receiver

\* Both threads run on, and no call fails for ever.
Spec ==
    /\ Init /\ [][Next]_vars
    /\ WF_vars(Send) /\ WF_vars(Recv \/ FieldRead \/ EndOfStream)

-----------------------------------------------------------------------------
(* Properties *)

TypeOK ==
    /\ offered \in Batches
    /\ sent \in 0..Len(offered)
    /\ pooled \in {"none", "open", "dead"}
    /\ conns \in Seq([bytes : Seq(Byte), closed : BOOLEAN])
    /\ \A c \in DOMAIN conns : conns[c].closed \/ c = Len(conns)
    /\ pooled = "open" => conns # <<>> /\ ~Last(conns).closed
    /\ Field \in 1..7
    /\ buf \in Seq(Byte) /\ Len(buf) <= Needed
    /\ received \in Seq(Warning)
    /\ failures \in 0..MaxFailures

\* Whatever the pieces in which the bytes come, wherever a connection breaks and
\* whichever call fails, the receiver's warnings are warnings that were sent,
\* field by field, in their order: no piece is taken for a field, and no part of
\* a broken frame becomes a part of the next warning.
ReceivedAsSent ==
    \E at \in [1..Len(received) -> 1..Len(offered)] :
       /\ \A j, k \in 1..Len(received) : j < k => at[j] < at[k]
       /\ \A k \in 1..Len(received) : received[k] = offered[at[k]]

\* If no call fails, every warning is received in the end: the receiver never
\* waits for bytes that are not coming.
EverythingArrives == <>(received = offered \/ failures > 0)

\* The most significant byte first.
BigEndian32(n) == [i \in 1..4 |-> (n \div Unit[5 - i]) % Radix]
BigEndian64(n) == BigEndian32(n \div Word) \o BigEndian32(n % Word)

\* The layout that the README describes for any other reader of the protocol.
DocumentedFrame(w) ==
    BigEndian32(Len(w.city)) \o w.city
    \o BigEndian32(Len(w.dest_node)) \o w.dest_node
    \o BigEndian32(w.type) \o BigEndian64(w.value) \o BigEndian64(w.timestamp)

BytesOn(c) == IF c \in DOMAIN conns THEN conns[c].bytes ELSE <<>>

\* send_warning_to puts on the latest connection, and on no other, the
\* documented big-endian frame, or a first part of it when it fails.
BigEndianOnTheWire ==
    [][sent' # sent =>
          /\ Len(conns) <= Len(conns')
          /\ \A c \in DOMAIN conns' :
                LET old == BytesOn(c)
                    new == conns'[c].bytes
                IN  /\ IsPrefix(old, new)
                    /\ IsPrefix(SubSeq(new, Len(old) + 1, Len(new)),
                                IF c = Len(conns') THEN DocumentedFrame(Current) ELSE <<>>)]_vars
=============================================================================
