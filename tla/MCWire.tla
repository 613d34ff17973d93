------------------------------- MODULE MCWire -------------------------------
(***************************************************************************)
(* Batches for TLC.  With a Radix of 3, a string of three characters has a *)
(* length of two bytes, and the numbers fill theirs unevenly.              *)
(***************************************************************************)
EXTENDS Wire

Storm == [city |-> <<1, 2, 2, 1>>, dest_node |-> <<2>>,
          type |-> 5, value |-> 2 * 3^7 + 3^4 + 2, timestamp |-> 3^3 + 1]
Flood == [city |-> <<>>, dest_node |-> <<1, 1, 2>>,
          type |-> 0, value |-> 3^8 - 2, timestamp |-> 3^6]

MCBatches == {<<Storm, Flood>>, <<Flood, Storm>>}
=============================================================================
