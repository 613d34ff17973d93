---------------------------- MODULE MCLifecycle ----------------------------
(***************************************************************************)
(* Contents of nodes.csv for TLC: every file of one or two lines from a    *)
(* small set of good and bad lines, and some longer trees.                 *)
(***************************************************************************)
EXTENDS Lifecycle

A == <<"A">>
B == <<"B">>
PaddedA == <<SPACE, "A", SPACE>>
TwoWords == <<"N", SPACE, "S">>
Blank == <<SPACE>>

\* A line with an id, an address and a port.
Line(id) == <<id, <<"a">>, <<"p">>>>
Under(id, parent) == Line(id) \o <<parent>>

Lines == {Line(A), Under(A, EMPTY), Under(PaddedA, Blank), Under(B, A),
          Under(A, B), Under(B, B), Under(TwoWords, PaddedA),
          <<B, EMPTY, <<"p">>, A>>, <<B, EMPTY, <<"p">>>>, Line(Blank)}

Star == <<Line(A), Under(B, A), Under(TwoWords, A)>>
Chain == <<Under(TwoWords, B), Under(B, A), Line(A)>>
SameId == <<Line(A), Under(B, A), Under(B, A)>>

MCFiles == {<<l>> : l \in Lines} \cup {<<l, m>> : l, m \in Lines} \cup {Star, Chain, SameId}
=============================================================================
