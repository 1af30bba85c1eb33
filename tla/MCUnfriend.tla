----------------------------- MODULE MCUnfriend -----------------------------
(***************************************************************************)
(* Small instances of Unfriend: a1 and a2 are devices of A, b1 and c1 the  *)
(* devices of B and C.                                                     *)
(***************************************************************************)
EXTENDS Unfriend

CONSTANTS a1, a2, b1, c1, A, B, C

MCOwnerOf == [n \in Node |-> IF n = b1 THEN B ELSE IF n = c1 THEN C ELSE A]

\* A and B may part, from either side.
EitherParts == {<<a1, B>>, <<b1, A>>}
OneParts == {<<a1, B>>}
=============================================================================
