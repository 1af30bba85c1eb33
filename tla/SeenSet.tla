------------------------------ MODULE SeenSet ------------------------------
(***************************************************************************)
(* The per-device set of accepted sequence numbers (identity.py, SeenSet). *)
(* The code stores it compacted: every number up to "contiguous" is seen,  *)
(* and so is each number of the set "sparse" above it.                     *)
(***************************************************************************)
EXTENDS Integers

CONSTANT MaxSeq          \* bound on the sequence numbers a device uses

ASSUME MaxSeqAssumption == MaxSeq \in Nat

SeqNo == 1..MaxSeq

SeenSets == [contiguous : 0..MaxSeq, sparse : SUBSET SeqNo]

EmptySeen == [contiguous |-> 0, sparse |-> {}]

\* has(), and summary_has() on the summary a peer sends
SeenHas(s, q) == q \in 1..s.contiguous \/ q \in s.sparse

\* Where the compaction loop of add() stops: the first number at or after c
\* whose successor has not been seen.
FirstGap(c, S) ==
  CHOOSE k \in c..MaxSeq : k + 1 \notin S /\ \A j \in c+1..k : j \in S

\* The effect of add(q) on a number that is not in the set yet.
SeenAdd(s, q) ==
  LET S == s.sparse \union {q}
      k == FirstGap(s.contiguous, S)
  IN  [contiguous |-> k, sparse |-> S \ (s.contiguous+1..k)]

\* Mutant of MaxSeen: the next number the device would use.
NextUnseen(s) == s.contiguous + 1

\* max_seen(): the largest sparse number, else the contiguous bound.
MaxSeen(s) ==
  IF s.sparse = {} THEN s.contiguous
  ELSE CHOOSE q \in s.sparse : \A r \in s.sparse : r <= q

\* The normal form compaction maintains: nothing that "contiguous" covers, or
\* could be extended to cover, is left in "sparse".
Compacted(s) == s.sparse \cap (1..s.contiguous + 1) = {}
=============================================================================
