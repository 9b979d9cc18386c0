-------------------------- MODULE MCPostBoxPlacing --------------------------
(* A deposit sent twice with three holders, two of them one node, and a    *)
(* second deposit that finds nobody but takes the place of the first.      *)
EXTENDS PostBoxPlacing

CONSTANTS i1, i2, a1, b1, b2, A, B

Answering == [x \in Addresses |-> IF x = a1 THEN A ELSE B]
Others == [x \in Addresses |-> IF x = b1 THEN <<b2>> ELSE <<>>]
Lists == [i \in Ids |-> IF i = i1 THEN {<<b1, b2, a1>>} ELSE {<<>>}]
Sendings == [i \in Ids |-> IF i = i1 THEN 2 ELSE 1]

(* A holder the neighbourhood knows under two addresses, and one after it. *)
OneHolderFirst == [i \in Ids |-> {<<b1, a1>>}]
=============================================================================
