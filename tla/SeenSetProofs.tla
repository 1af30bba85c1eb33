--------------------------- MODULE SeenSetProofs ---------------------------
(***************************************************************************)
(* What compaction preserves, for every bound on the sequence numbers.     *)
(***************************************************************************)
EXTENDS SeenSet, WellFoundedInduction, TLAPS

\* A non-empty set of naturals has a least element.
LEMMA LeastNatural ==
  ASSUME NEW T \in SUBSET Nat, T # {}
  PROVE  \E x \in T : \A y \in T : x <= y
<1> DEFINE R == {ss \in Nat \X Nat : ss[1] < ss[2]}
<1>1. IsWellFoundedOn(R, Nat)
  BY NatLessThanWellFounded DEF OpToRel
<1>2. \E x \in T : \A y \in T : <<y, x>> \notin R
  <2> HIDE DEF R
  <2> QED BY <1>1, WFMin
<1>3. PICK x \in T : \A y \in T : <<y, x>> \notin R
  BY <1>2
<1>4. ASSUME NEW y \in T PROVE x <= y
  <2>1. <<y, x>> \in Nat \X Nat /\ <<y, x>> \notin R
    BY <1>3
  <2>2. ~(y < x)
    BY <2>1
  <2>3. x \in Nat /\ y \in Nat
    OBVIOUS
  <2> QED BY <2>2, <2>3
<1>5. QED
  BY <1>4

\* The loop of add() stops at a first gap, whatever has been seen.
LEMMA FirstGapExists ==
  ASSUME NEW c \in 0..MaxSeq, NEW S \in SUBSET SeqNo
  PROVE  /\ FirstGap(c, S) \in c..MaxSeq
         /\ FirstGap(c, S) + 1 \notin S
         /\ \A j \in c+1..FirstGap(c, S) : j \in S
<1> USE MaxSeqAssumption
<1> DEFINE T == {k \in Nat : k >= c /\ k + 1 \notin S}
<1>1. MaxSeq \in T
  BY DEF SeqNo
<1>2. PICK k \in T : \A y \in T : k <= y
  <2>1. T \in SUBSET Nat /\ T # {}
    BY <1>1
  <2> HIDE DEF T
  <2> QED BY <2>1, LeastNatural
<1>3. k \in c..MaxSeq
  BY <1>1, <1>2
<1>4. ASSUME NEW j \in c+1..k PROVE j \in S
  <2>1. j - 1 \in Nat /\ j - 1 >= c /\ j - 1 < k
    BY <1>3
  <2>2. j - 1 \notin T
    BY <1>2, <1>3, <2>1
  <2>3. (j - 1) + 1 = j
    OBVIOUS
  <2> QED BY <2>1, <2>2, <2>3
<1>5. \E i \in c..MaxSeq : i + 1 \notin S /\ \A j \in c+1..i : j \in S
  BY <1>2, <1>3, <1>4
<1>6. QED
  BY <1>5 DEF FirstGap

\* add() returns a seen-set in normal form that holds the old numbers and the
\* new one, and nothing else: compaction loses no number and invents none.
THEOREM SeenAddCorrect ==
  ASSUME NEW s \in SeenSets, Compacted(s), NEW q \in SeqNo, ~SeenHas(s, q)
  PROVE  /\ SeenAdd(s, q) \in SeenSets
         /\ Compacted(SeenAdd(s, q))
         /\ \A r \in Int : SeenHas(SeenAdd(s, q), r) <=> SeenHas(s, r) \/ r = q
<1> USE MaxSeqAssumption
<1> DEFINE S == s.sparse \union {q}
           k == FirstGap(s.contiguous, S)
<1>1. s.contiguous \in 0..MaxSeq /\ s.sparse \in SUBSET SeqNo /\ S \in SUBSET SeqNo
  BY DEF SeenSets
<1>2. /\ k \in s.contiguous..MaxSeq
      /\ k + 1 \notin S
      /\ \A j \in s.contiguous+1..k : j \in S
  BY <1>1, FirstGapExists
<1>3. SeenAdd(s, q) = [contiguous |-> k, sparse |-> S \ (s.contiguous+1..k)]
  BY DEF SeenAdd
<1>4. \A r \in S : r > s.contiguous
  BY <1>1 DEF Compacted, SeenHas, SeqNo
<1> HIDE DEF k
<1>5. SeenAdd(s, q) \in SeenSets
  BY <1>1, <1>2, <1>3 DEF SeenSets
<1>6. Compacted(SeenAdd(s, q))
  BY <1>1, <1>2, <1>3, <1>4 DEF Compacted, SeqNo
<1>7. ASSUME NEW r \in Int
      PROVE  SeenHas(SeenAdd(s, q), r) <=> SeenHas(s, r) \/ r = q
  BY <1>1, <1>2, <1>3, <1>4 DEF SeenHas, SeqNo
<1>8. QED
  BY <1>5, <1>6, <1>7

\* A bounded non-empty set of naturals has a greatest element.
LEMMA GreatestNatural ==
  ASSUME NEW T \in SUBSET SeqNo, T # {}
  PROVE  \E x \in T : \A y \in T : y <= x
<1> USE MaxSeqAssumption DEF SeqNo
<1> DEFINE U == {MaxSeq - x : x \in T}
<1>1. U \in SUBSET Nat /\ U # {}
  <2>1. \A x \in T : MaxSeq - x \in Nat
    OBVIOUS
  <2>2. PICK x \in T : TRUE
    OBVIOUS
  <2>3. MaxSeq - x \in U
    OBVIOUS
  <2> QED BY <2>1, <2>3
<1>2. PICK u \in U : \A w \in U : u <= w
  <2> HIDE DEF U
  <2> QED BY <1>1, LeastNatural
<1>3. PICK x \in T : u = MaxSeq - x
  OBVIOUS
<1>4. ASSUME NEW y \in T PROVE y <= x
  <2>1. MaxSeq - y \in U
    OBVIOUS
  <2>2. MaxSeq - x <= MaxSeq - y
    BY <1>2, <1>3, <2>1
  <2> QED BY <2>2
<1>5. QED
  BY <1>4

\* max_seen() is the greatest number seen: a revocation bound taken from it cuts
\* off nothing that the revoking device has accepted.
THEOREM MaxSeenCorrect ==
  ASSUME NEW s \in SeenSets, Compacted(s)
  PROVE  /\ MaxSeen(s) \in 0..MaxSeq
         /\ \A q \in SeqNo : SeenHas(s, q) => q <= MaxSeen(s)
<1> USE MaxSeqAssumption
<1>1. s.contiguous \in 0..MaxSeq /\ s.sparse \in SUBSET SeqNo
  BY DEF SeenSets
<1>2. CASE s.sparse = {}
  BY <1>1, <1>2 DEF MaxSeen, SeenHas
<1>3. CASE s.sparse # {}
  <2>1. \E x \in s.sparse : \A y \in s.sparse : y <= x
    BY <1>1, <1>3, GreatestNatural
  <2>2. MaxSeen(s) \in s.sparse /\ \A y \in s.sparse : y <= MaxSeen(s)
    BY <1>3, <2>1 DEF MaxSeen
  <2>3. MaxSeen(s) > s.contiguous
    BY <1>1, <2>2 DEF Compacted, SeqNo
  <2> QED BY <1>1, <2>2, <2>3 DEF SeenHas, SeqNo
<1>4. QED
  BY <1>2, <1>3
=============================================================================
