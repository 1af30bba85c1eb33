---------------------------- MODULE PostsProofs ----------------------------
(***************************************************************************)
(* The proofs about what becomes of content: the wrap grants of a message  *)
(* (WrapGrants), the bytes it refers to (Blobs), the wall it is placed on  *)
(* (Wall) and the responses to it (Responses).  The four have nothing in   *)
(* common but this: a set of naturals has a least element.  It gives the   *)
(* grant of the highest rank, the smallest blob and the smallest album,    *)
(* the row where a block comes to rest, and the induction that the folds   *)
(* of the responses and of the blocks to be placed need.                   *)
(***************************************************************************)
EXTENDS MCPosts,
        WellFoundedInduction, FiniteSetTheorems, TLAPS

\* A non-empty set of naturals has a least element.
LEMMA LeastNatural ==
  ASSUME NEW T, T \in SUBSET Nat, T # {}
  PROVE  \E x \in T : \A y \in T : x <= y
  <1> DEFINE R == {ss \in Nat \X Nat : ss[1] < ss[2]}
  <1>1. IsWellFoundedOn(R, Nat)
    BY NatLessThanWellFounded DEF OpToRel
  <1>2. \E x \in T : \A y \in T : <<y, x>> \notin R
    <2> HIDE DEF R
    <2> QED
      BY <1>1, WFMin
  <1>3. PICK x \in T : \A y \in T : <<y, x>> \notin R
    BY <1>2
  <1>4. ASSUME NEW y \in T PROVE x <= y
    <2>1. <<y, x>> \in Nat \X Nat /\ <<y, x>> \notin R
      BY <1>3
    <2>2. ~(y < x) /\ x \in Nat /\ y \in Nat
      BY <2>1
    <2> QED
      BY <2>2
  <1> QED
    BY <1>4

\* A non-empty set of naturals up to a bound has a greatest element.
LEMMA GreatestNatural ==
  ASSUME NEW N \in Nat, NEW T, T \in SUBSET (0..N), T # {}
  PROVE  \E x \in T : \A y \in T : y <= x
  <1> DEFINE R == {N - y : y \in T}
  <1>1. R \in SUBSET Nat /\ R # {}
    <2>1. \A y \in T : N - y \in Nat
      OBVIOUS
    <2> QED
      BY <2>1
  <1>2. PICK r \in R : \A k \in R : r <= k
    <2> HIDE DEF R
    <2> QED
      BY <1>1, LeastNatural
  <1>3. PICK x \in T : r = N - x
    BY <1>2
  <1>4. \A y \in T : N - y \in R /\ r <= N - y
    BY <1>2
  <1> QED
    BY <1>3, <1>4

\* Induction up to a bound.
LEMMA UpToAll ==
  ASSUME NEW M \in Nat, NEW S, 0 \in S, \A n \in 0..(M - 1) : n \in S => n + 1 \in S
  PROVE  0..M \subseteq S
  <1> DEFINE T == {n \in 0..M : n \notin S}
  <1> SUFFICES ASSUME T # {} PROVE FALSE
    OBVIOUS
  <1>1. T \in SUBSET Nat
    OBVIOUS
  <1>2. PICK n \in T : \A k \in T : n <= k
    <2> HIDE DEF T
    <2> QED
      BY <1>1, LeastNatural
  <1>3. n # 0 /\ n - 1 \in 0..(M - 1) /\ n - 1 \notin T
    BY <1>2
  <1>4. n - 1 \in S /\ (n - 1) + 1 = n
    BY <1>3
  <1> QED
    BY <1>2, <1>3, <1>4

\* What can be taken apart into the empty set, element by element, has what is kept on
\* the way.
LEMMA SubsetInduction ==
  ASSUME NEW T, IsFiniteSet(T), NEW P, {} \in P,
         \A S \in SUBSET T : S # {} => \E x \in S : (S \ {x} \in P => S \in P)
  PROVE  T \in P
  <1> DEFINE Bad == {S \in SUBSET T : S \notin P}
             N == {Cardinality(S) : S \in Bad}
  <1> SUFFICES ASSUME T \notin P PROVE FALSE
    OBVIOUS
  <1>1. \A S \in SUBSET T : IsFiniteSet(S) /\ Cardinality(S) \in Nat
    BY FS_Subset, FS_CardinalityType
  <1>2. N \in SUBSET Nat /\ N # {}
    BY <1>1
  <1>3. PICK n \in N : \A k \in N : n <= k
    <2> HIDE DEF N
    <2> QED
      BY <1>2, LeastNatural
  <1>4. PICK S \in Bad : n = Cardinality(S)
    BY <1>3
  <1>5. PICK x \in S : (S \ {x} \in P => S \in P)
    BY <1>4
  <1>6. S \ {x} \in SUBSET T /\ Cardinality(S \ {x}) = n - 1 /\ n \in Nat
    BY <1>1, <1>4, <1>5, FS_RemoveElement
  <1>7. S \ {x} \notin Bad
    BY <1>3, <1>6
  <1> QED
    BY <1>4, <1>5, <1>6, <1>7

\* What is built from the elements of a set, the last of them after the others.
BuiltUp(f, T, base, last, step) ==
  \A S \in SUBSET T : f[S] = IF S = {} THEN base ELSE step[<<S, f[S \ {last[S]}]>>]

\* For a finite set it can be built.
LEMMA SubsetFold ==
  ASSUME NEW T, IsFiniteSet(T), NEW V, NEW base \in V,
         NEW last, \A S \in SUBSET T : S # {} => last[S] \in S,
         NEW step \in [(SUBSET T) \X V -> V]
  PROVE  \E f \in [SUBSET T -> V] : BuiltUp(f, T, base, last, step)
  <1> DEFINE L(n) == {S \in SUBSET T : Cardinality(S) <= n}
             Holds(f, n) == /\ f \in [L(n) -> V]
                            /\ \A S \in L(n) :
                                 f[S] = IF S = {} THEN base
                                        ELSE step[<<S, f[S \ {last[S]}]>>]
             Ns == {n \in 0..Cardinality(T) : \E f : Holds(f, n)}
  <1>1. \A S \in SUBSET T : /\ IsFiniteSet(S) /\ Cardinality(S) \in Nat
                            /\ Cardinality(S) <= Cardinality(T)
                            /\ (Cardinality(S) = 0 <=> S = {})
    BY FS_Subset, FS_CardinalityType, FS_EmptySet
  <1>2. Cardinality(T) \in Nat
    BY FS_CardinalityType
  <1>3. \A S \in SUBSET T : S # {} => /\ S \ {last[S]} \in SUBSET T
                                      /\ Cardinality(S \ {last[S]}) = Cardinality(S) - 1
    BY <1>1, FS_RemoveElement
  <1>4. 0 \in Ns
    <2> DEFINE f == [S \in L(0) |-> base]
    <2>1. L(0) = {{}}
      BY <1>1
    <2>2. f \in [L(0) -> V] /\ \A S \in L(0) : S = {} /\ f[S] = base
      BY <2>1
    <2> HIDE DEF f, L
    <2>3. Holds(f, 0)
      BY <2>2
    <2>4. \E h : Holds(h, 0)
      <3> HIDE DEF Holds
      <3> QED
        BY <2>3
    <2> QED
      BY <1>2, <2>4
  <1>5. ASSUME NEW n \in 0..(Cardinality(T) - 1), n \in Ns
        PROVE  n + 1 \in Ns
    <2>1. PICK f : Holds(f, n)
      BY <1>5
    <2> DEFINE g == [S \in L(n + 1) |-> IF S \in L(n) THEN f[S]
                                        ELSE step[<<S, f[S \ {last[S]}]>>]]
    <2>2. n \in Nat /\ n + 1 \in 0..Cardinality(T)
      BY <1>2
    <2>3. \A S \in L(n + 1) : /\ S \in SUBSET T
                              /\ S # {} => S \ {last[S]} \in L(n)
                              /\ S = {} => S \in L(n)
      BY <1>1, <1>3, <2>2
    <2>4. L(n) \subseteq L(n + 1)
      BY <1>1, <2>2
    <2>5. f \in [L(n) -> V] /\ \A S \in L(n) :
            f[S] = IF S = {} THEN base ELSE step[<<S, f[S \ {last[S]}]>>]
      BY <2>1
    <2> HIDE DEF L
    <2>6. ASSUME NEW S \in L(n + 1) PROVE g[S] \in V
      <3>1. CASE S \in L(n)
        BY <2>5, <3>1
      <3>2. CASE S \notin L(n)
        <4>1. f[S \ {last[S]}] \in V /\ S \in SUBSET T
          BY <2>3, <2>5, <3>2
        <4>2. step[<<S, f[S \ {last[S]}]>>] \in V
          BY <4>1
        <4> QED
          BY <3>2, <4>2
      <3> QED
        BY <3>1, <3>2
    <2>7. g \in [L(n + 1) -> V]
      BY <2>6
    <2>8. ASSUME NEW S \in L(n + 1)
          PROVE  g[S] = IF S = {} THEN base ELSE step[<<S, g[S \ {last[S]}]>>]
      <3>1. S # {} => g[S \ {last[S]}] = f[S \ {last[S]}]
        BY <2>3, <2>4
      <3>2. S \in L(n) => g[S] = f[S]
        OBVIOUS
      <3>3. S \notin L(n) => g[S] = step[<<S, f[S \ {last[S]}]>>]
        OBVIOUS
      <3> HIDE DEF g
      <3> QED
        BY <2>3, <2>5, <3>1, <3>2, <3>3
    <2> HIDE DEF g
    <2>9. Holds(g, n + 1)
      BY <2>7, <2>8
    <2> QED
      BY <2>2, <2>9
  <1>6. Cardinality(T) \in Ns
    <2> HIDE DEF Ns
    <2>1. 0..Cardinality(T) \subseteq Ns
      BY <1>2, <1>4, <1>5, UpToAll
    <2> QED
      BY <1>2, <2>1
  <1>7. PICK f : Holds(f, Cardinality(T))
    BY <1>6
  <1>8. L(Cardinality(T)) = SUBSET T
    BY <1>1
  <1> QED
    BY <1>7, <1>8 DEF BuiltUp
----------------------------------------------------------------------------
(***************************************************************************)
(* Wrap grants.  That the sweeps do not strip each other is a matter of    *)
(* what each phase of a round finds: after a whole round nothing is left   *)
(* of the grants but the latest, after the sweep for friends that one      *)
(* covers them, and after the sweep for devices everybody.  The ranks of   *)
(* grants tell them apart.                                                 *)
(***************************************************************************)
Ranked ==
  \A d, e \in Device : \A g \in replica[d].grants, h \in replica[e].grants :
    g.rank <= mints /\ (g.rank = h.rank => g = h)

\* Only a wall post is granted to friends.
FriendsNamedForWall ==
  \A d \in Device : \A g \in replica[d].grants, f \in Friend :
    g.wraps[f] # 0 => message.origin = "wall"

\* The latest grant that d holds seals the key to the devices xs, as far as it knows
\* their keys and the envelope does not.
Covers(d, xs) ==
  \A x \in xs \ message.inline :
    replica[d].known[x] # 0 => LatestWraps(d)[x] = replica[d].known[x]

CoversFriends(d) == message.origin = "wall" => Covers(d, replica[d].friends)

CoversAll(d) == CoversFriends(d) /\ Covers(d, Own \ {d})

\* What a round has achieved, if nothing changed at d in it or since.
Achieved(d) ==
  LET r == replica[d] IN
  r.quiet # 0 =>
    /\ r.phase = "friends" => \A g, h \in r.grants : g = h
    /\ (r.phase = "devices" /\ CanKey(d)) => CoversFriends(d)
    /\ (r.phase = "sessions" /\ CanKey(d)) => CoversAll(d)
    /\ (r.phase = "friends" /\ r.quiet = 2 /\ CanKey(d)) => CoversAll(d)

GrantInv ==
  /\ GrantTypeOK
  /\ Ranked
  /\ FriendsNamedForWall
  /\ \A d \in Own : Achieved(d)

----------------------------------------------------------------------------
(***************************************************************************)
(* Sets of grants with different ranks.                                    *)
(***************************************************************************)
Top(G) == {g \in G : \A h \in G : h.rank <= g.rank}

TopWraps(G) == IF Top(G) = {} THEN NoWraps ELSE (CHOOSE g \in Top(G) : TRUE).wraps

NamingIn(G, x) == {g \in G : g.wraps[x] # 0}

JoinedWraps(G, x) ==
  IF NamingIn(G, x) = {} THEN 0
  ELSE (CHOOSE g \in NamingIn(G, x) : \A h \in NamingIn(G, x) : h.rank <= g.rank).wraps[x]

Distinct(G) == G \subseteq Grant /\ \A g, h \in G : g.rank = h.rank => g = h

\* They stand for what the model says of the grants of a device.
LEMMA GrantsOfDevice ==
  ASSUME NEW d \in Device
  PROVE  /\ Latest(d) = Top(replica[d].grants)
         /\ LatestWraps(d) = TopWraps(replica[d].grants)
         /\ \A x \in Device : UnionWraps(d)[x] = JoinedWraps(replica[d].grants, x)
         /\ Latest(d)' = Top(replica'[d].grants)
         /\ LatestWraps(d)' = TopWraps(replica'[d].grants)
         /\ \A x \in Device : UnionWraps(d)'[x] = JoinedWraps(replica'[d].grants, x)
  <1>1. /\ Latest(d) = Top(replica[d].grants)
        /\ Latest(d)' = Top(replica'[d].grants)
    BY DEF Latest, Top
  <1>2. /\ LatestWraps(d) = TopWraps(replica[d].grants)
        /\ LatestWraps(d)' = TopWraps(replica'[d].grants)
    BY <1>1 DEF LatestWraps, TopWraps
  <1>3. \A x \in Device : /\ Naming(d, x) = NamingIn(replica[d].grants, x)
                          /\ Naming(d, x)' = NamingIn(replica'[d].grants, x)
    BY DEF Naming, NamingIn
  <1>4. ASSUME NEW x \in Device
        PROVE  /\ UnionWraps(d)[x] = JoinedWraps(replica[d].grants, x)
               /\ UnionWraps(d)'[x] = JoinedWraps(replica'[d].grants, x)
    <2>1. UnionWraps(d)[x] =
            IF Naming(d, x) = {} THEN 0
            ELSE (CHOOSE g \in Naming(d, x) : \A h \in Naming(d, x) : h.rank <= g.rank).wraps[x]
      BY Zenon DEF UnionWraps
    <2>2. UnionWraps(d)'[x] =
            IF Naming(d, x)' = {} THEN 0
            ELSE (CHOOSE g \in Naming(d, x)' :
                    \A h \in Naming(d, x)' : h.rank <= g.rank).wraps[x]
      BY Zenon DEF UnionWraps
    <2> QED
      BY <1>3, <2>1, <2>2, Zenon DEF JoinedWraps
  <1> QED
    BY <1>1, <1>2, <1>4

\* The latest of them is what LatestWraps() reads.
LEMMA TopIsRead ==
  ASSUME NEW G, NEW t, Distinct(G), t \in Top(G)
  PROVE  Top(G) = {t} /\ TopWraps(G) = t.wraps
  <1>1. ASSUME NEW g \in Top(G) PROVE g = t
    <2>1. g \in G /\ t \in G /\ g.rank <= t.rank /\ t.rank <= g.rank
      BY DEF Top
    <2>2. g.rank \in Nat /\ t.rank \in Nat
      BY <2>1 DEF Distinct, Grant
    <2>3. g.rank = t.rank
      BY <2>1, <2>2
    <2> QED
      BY <2>1, <2>3 DEF Distinct
  <1>2. Top(G) = {t}
    BY <1>1
  <1>3. (CHOOSE g \in Top(G) : TRUE) = t
    BY <1>2
  <1> QED
    BY <1>2, <1>3 DEF TopWraps

\* What is minted ranks above the rest.
LEMMA MintedIsTop ==
  ASSUME NEW G, NEW t, Distinct(G), t \in Grant, \A g \in G : g.rank < t.rank
  PROVE  /\ Distinct(G \union {t})
         /\ TopWraps(G \union {t}) = t.wraps
  <1>1. \A g \in G : g \in Grant /\ g.rank \in Nat /\ t.rank \in Nat
    BY DEF Distinct, Grant
  <1>2. Distinct(G \union {t})
    BY <1>1 DEF Distinct
  <1>3. t \in Top(G \union {t})
    BY <1>1 DEF Top, Grant
  <1> QED
    BY <1>2, <1>3, TopIsRead

\* The prune changes nothing about the latest.
LEMMA PruneKeepsTop ==
  ASSUME NEW G, Distinct(G)
  PROVE  /\ Distinct(Top(G)) /\ \A g, h \in Top(G) : g = h
         /\ TopWraps(Top(G)) = TopWraps(G)
  <1>1. \A g, h \in Top(G) : g = h
    BY TopIsRead
  <1>2. Distinct(Top(G))
    BY DEF Distinct, Top
  <1>3. Top(Top(G)) = Top(G)
    BY DEF Top
  <1> QED
    BY <1>1, <1>2, <1>3 DEF TopWraps

\* One grant is read in the same way by the sweeps.
LEMMA SingleIsJoined ==
  ASSUME NEW G, NEW x, G \subseteq Grant, x \in Device, \A g, h \in G : g = h
  PROVE  JoinedWraps(G, x) = TopWraps(G)[x]
  <1>1. CASE G = {}
    BY <1>1 DEF JoinedWraps, NamingIn, TopWraps, Top, NoWraps
  <1>2. CASE G # {}
    <2>1. PICK t \in G : G = {t}
      BY <1>2
    <2>2. t.rank \in Nat
      BY <2>1 DEF Grant
    <2>3. TopWraps(G) = t.wraps
      <3>1. Distinct(G) /\ t \in Top(G)
        BY <2>1, <2>2 DEF Distinct, Top
      <3> QED
        BY <3>1, TopIsRead
    <2>4. CASE t.wraps[x] = 0
      <3>1. NamingIn(G, x) = {}
        BY <2>1, <2>4 DEF NamingIn
      <3> QED
        BY <2>3, <2>4, <3>1 DEF JoinedWraps
    <2>5. CASE t.wraps[x] # 0
      <3> DEFINE N == NamingIn(G, x)
      <3>1. N = {t}
        BY <2>1, <2>5 DEF NamingIn
      <3> HIDE DEF N
      <3>2. (CHOOSE g \in N : \A h \in N : h.rank <= g.rank) = t
        BY <2>2, <3>1
      <3>3. JoinedWraps(G, x) = (CHOOSE g \in N : \A h \in N : h.rank <= g.rank).wraps[x]
        BY <3>1 DEF N, JoinedWraps
      <3> QED
        BY <2>3, <3>2, <3>3
    <2> QED
      BY <2>4, <2>5
  <1> QED
    BY <1>1, <1>2

\* Where the latest names x, all of them together say the same of x.
LEMMA TopIsJoined ==
  ASSUME NEW G, NEW x, Distinct(G), x \in Device, TopWraps(G)[x] # 0
  PROVE  JoinedWraps(G, x) = TopWraps(G)[x]
  <1>1. Top(G) # {}
    BY DEF TopWraps, NoWraps
  <1>2. PICK t \in Top(G) : TRUE
    BY <1>1
  <1>3. TopWraps(G) = t.wraps /\ t \in G
    BY TopIsRead DEF Top
  <1> DEFINE N == NamingIn(G, x)
             c == CHOOSE g \in N : \A h \in N : h.rank <= g.rank
  <1>4. t \in N /\ \A h \in N : h.rank <= t.rank
    BY <1>3 DEF NamingIn, Top
  <1>5. N \subseteq G
    BY DEF NamingIn
  <1>6. JoinedWraps(G, x) = c.wraps[x]
    BY <1>4 DEF JoinedWraps
  <1> HIDE DEF N
  <1>7. c \in N /\ t.rank <= c.rank
    BY <1>4
  <1>8. c = t
    <2>1. c.rank <= t.rank /\ c \in G
      BY <1>4, <1>5, <1>7
    <2>2. c.rank \in Nat /\ t.rank \in Nat
      BY <1>3, <2>1 DEF Distinct, Grant
    <2>3. c.rank = t.rank
      BY <1>7, <2>1, <2>2
    <2> QED
      BY <1>3, <2>1, <2>3 DEF Distinct
  <1> QED
    BY <1>3, <1>6, <1>8

LEMMA SomeGrantIsLatest ==
  ASSUME NEW G, G \subseteq Grant, G # {}
  PROVE  \E g \in G : \A h \in G : h.rank <= g.rank
  <1> DEFINE T == {MaxMints - g.rank : g \in G}
  <1>0. MaxMints \in Nat
    BY GrantAssumption
  <1>1. \A g \in G : g.rank \in 1..MaxMints
    BY DEF Grant
  <1>2. T \in SUBSET Nat /\ T # {}
    BY <1>0, <1>1
  <1>3. PICK x \in T : \A y \in T : x <= y
    <2> HIDE DEF T
    <2> QED
      BY <1>2, LeastNatural
  <1>4. PICK g \in G : x = MaxMints - g.rank
    BY <1>3
  <1>5. ASSUME NEW h \in G PROVE h.rank <= g.rank
    <2>1. x <= MaxMints - h.rank
      BY <1>3
    <2> QED
      BY <1>0, <1>1, <1>4, <2>1
  <1> QED
    BY <1>5

\* What is read of a set of grants is a key or none.
LEMMA ReadTyped ==
  ASSUME NEW G, NEW x, Distinct(G), x \in Device
  PROVE  JoinedWraps(G, x) \in Epoch /\ TopWraps(G) \in Wraps
  <1>0. G \subseteq Grant /\ 0 \in Epoch /\ \A g \in G : g.wraps \in Wraps
    BY GrantAssumption DEF Distinct, Grant, Epoch
  <1>1. TopWraps(G) \in Wraps
    <2>1. CASE Top(G) = {}
      BY <1>0, <2>1 DEF TopWraps, NoWraps, Wraps
    <2>2. CASE Top(G) # {}
      <3>1. PICK t \in Top(G) : TRUE
        BY <2>2
      <3> QED
        BY <1>0, <3>1, TopIsRead DEF Top
    <2> QED
      BY <2>1, <2>2
  <1>2. JoinedWraps(G, x) \in Epoch
    <2> DEFINE N == NamingIn(G, x)
               c == CHOOSE g \in N : \A h \in N : h.rank <= g.rank
    <2>1. CASE N = {}
      BY <1>0, <2>1 DEF JoinedWraps
    <2>2. CASE N # {}
      <3>1. N \subseteq G
        BY DEF NamingIn
      <3>2. JoinedWraps(G, x) = c.wraps[x]
        BY <2>2 DEF JoinedWraps
      <3> HIDE DEF N
      <3>3. \E g \in N : \A h \in N : h.rank <= g.rank
        BY <1>0, <2>2, <3>1, SomeGrantIsLatest
      <3>4. c \in N
        BY <3>3
      <3>5. c.wraps \in Wraps
        BY <1>0, <3>1, <3>4
      <3> QED
        BY <3>2, <3>5 DEF Wraps
    <2> QED
      BY <2>1, <2>2
  <1> QED
    BY <1>1, <1>2
----------------------------------------------------------------------------
(***************************************************************************)
(* What a step leaves of a device.                                         *)
(***************************************************************************)
LEMMA DeviceFacts ==
  ASSUME GrantTypeOK, Ranked, NEW d \in Device
  PROVE  /\ replica[d] \in Replica
         /\ Distinct(replica[d].grants)
         /\ \A g \in replica[d].grants : g.rank <= mints
         /\ epoch[d] \in Nat /\ mints \in Nat
  BY GrantAssumption DEF GrantTypeOK, Ranked, Distinct, Replica

\* A key that is there after a step which brings no grants was there before.
LEMMA KeyWasThere ==
  ASSUME GrantTypeOK, Ranked, NEW d \in Device, message' = message,
         epoch'[d] \in Nat, epoch[d] <= epoch'[d],
         replica'[d].has => replica[d].has,
         replica'[d].cached = "yes" => replica[d].cached = "yes",
         replica'[d].grants = replica[d].grants, CanKey(d)'
  PROVE  CanKey(d)
  <1>1. JoinedWraps(replica[d].grants, d) \in Nat
    BY DeviceFacts, ReadTyped, GrantAssumption DEF Epoch
  <1>2. PICK e \in Nat : UnionWraps(d)[d] = e /\ UnionWraps(d)'[d] = e
    BY <1>1, GrantsOfDevice
  <1>3. epoch[d] \in Nat /\ GraceEpochs \in Nat
    BY DeviceFacts, GrantAssumption
  <1>4. \A k \in Nat : InGrace(d, k)' => InGrace(d, k)
    BY <1>3 DEF InGrace
  <1>5. Opens(d)' => Opens(d)
    <2>1. InGrace(d, 1)' => InGrace(d, 1)
      BY <1>4
    <2>2. InGrace(d, e)' => InGrace(d, e)
      BY <1>4
    <2>3. InGrace(d, UnionWraps(d)[d])' <=> InGrace(d, e)'
      BY <1>2 DEF InGrace
    <2>4. InGrace(d, UnionWraps(d)[d]) <=> InGrace(d, e)
      BY <1>2
    <2> QED
      BY <2>1, <2>2, <2>3, <2>4 DEF Opens
  <1> QED
    BY <1>5 DEF CanKey

\* What a device has achieved stays, as long as nothing but its key changes.
LEMMA AchievedStays ==
  ASSUME GrantTypeOK, Ranked, NEW d \in Own, Achieved(d), message' = message,
         epoch'[d] \in Nat, epoch[d] <= epoch'[d], replica'[d] = replica[d]
  PROVE  Achieved(d)'
  <1>0. d \in Device
    BY DEF Device
  <1>1. CanKey(d)' => CanKey(d)
    BY <1>0, KeyWasThere
  <1>2. LatestWraps(d)' = LatestWraps(d)
    BY <1>0, GrantsOfDevice
  <1>3. CoversFriends(d) => CoversFriends(d)'
    BY <1>2 DEF CoversFriends, Covers
  <1>4. CoversAll(d) => CoversAll(d)'
    BY <1>2, <1>3 DEF CoversAll, Covers
  <1> QED
    BY <1>1, <1>3, <1>4 DEF Achieved

----------------------------------------------------------------------------
(***************************************************************************)
(* The sweeps of a round.                                                  *)
(***************************************************************************)
LEMMA ProceedFacts ==
  ASSUME GrantTypeOK, Ranked, NEW d \in Own, NEW phase \in {"friends", "devices", "sessions"},
         NEW w \in Wraps, Proceed(d, phase, w)
  PROVE  /\ replica' \in [Device -> Replica] /\ mints' \in 0..MaxMints
         /\ \A e \in Device \ {d} : replica'[e] = replica[e]
         /\ replica'[d].has = replica[d].has /\ replica'[d].known = replica[d].known
         /\ replica'[d].friends = replica[d].friends /\ replica'[d].quiet = replica[d].quiet
         /\ replica'[d].phase = phase
         /\ w = NoWraps => /\ mints' = mints /\ replica'[d].cached = replica[d].cached
                           /\ replica'[d].grants = replica[d].grants
         /\ w # NoWraps =>
              /\ mints' = mints + 1 /\ replica'[d].cached = "yes"
              /\ [rank |-> mints + 1, wraps |-> w] \in Grant
              /\ replica'[d].grants =
                   replica[d].grants \union {[rank |-> mints + 1, wraps |-> w]}
  <1>0. d \in Device /\ replica \in [Device -> Replica] /\ mints \in 0..MaxMints
        /\ MaxMints \in Nat
    BY GrantAssumption DEF GrantTypeOK, Device
  <1> DEFINE r == [replica[d] EXCEPT !.phase = phase]
             t == [rank |-> mints + 1, wraps |-> w]
             u == [r EXCEPT !.cached = "yes", !.seen = @ \union {mints + 1},
                            !.grants = @ \union {t}]
  <1>1. /\ r \in Replica /\ r.phase = phase /\ r.has = replica[d].has
        /\ r.known = replica[d].known /\ r.friends = replica[d].friends
        /\ r.quiet = replica[d].quiet /\ r.cached = replica[d].cached
        /\ r.grants = replica[d].grants
    BY <1>0 DEF Replica
  <1>2. CASE w = NoWraps
    <2>1. replica' = [replica EXCEPT ![d] = r] /\ mints' = mints
      BY <1>2 DEF Proceed
    <2> HIDE DEF r
    <2> QED
      BY <1>0, <1>1, <1>2, <2>1
  <1>3. CASE w # NoWraps
    <2>1. mints < MaxMints /\ mints' = mints + 1 /\ replica' = [replica EXCEPT ![d] = u]
      BY <1>3 DEF Proceed
    <2>2. t \in Grant /\ mints + 1 \in 1..MaxMints
      BY <1>0, <2>1 DEF Grant
    <2>3. /\ u \in Replica /\ u.phase = phase /\ u.has = r.has /\ u.known = r.known
          /\ u.friends = r.friends /\ u.quiet = r.quiet /\ u.cached = "yes"
          /\ u.grants = r.grants \union {t}
      <3> HIDE DEF r, t
      <3> QED
        BY <1>1, <2>2 DEF Replica
    <2> HIDE DEF u, r
    <2>4. /\ replica'[d] = u /\ \A e \in Device \ {d} : replica'[e] = replica[e]
          /\ replica' \in [Device -> Replica]
      BY <1>0, <2>1, <2>3
    <2> HIDE DEF t
    <2>5. mints' \in 0..MaxMints
      BY <1>0, <2>1
    <2>6. /\ replica'[d].has = replica[d].has /\ replica'[d].known = replica[d].known
          /\ replica'[d].friends = replica[d].friends
          /\ replica'[d].quiet = replica[d].quiet
          /\ replica'[d].phase = phase /\ replica'[d].cached = "yes"
          /\ replica'[d].grants = replica[d].grants \union {t}
      BY <1>1, <2>3, <2>4
    <2> QED
      BY <1>3, <2>1, <2>2, <2>4, <2>5, <2>6 DEF t
  <1> QED
    BY <1>2, <1>3

\* A sweep of d that names no stranger, seen from the rest.
LEMMA SweepKeeps ==
  ASSUME GrantInv, NEW d \in Own, NEW phase \in {"friends", "devices", "sessions"},
         NEW w \in Wraps, Proceed(d, phase, w), UNCHANGED <<message, epoch, changes>>,
         \A f \in Friend : w[f] # 0 => message.origin = "wall"
  PROVE  /\ GrantTypeOK' /\ Ranked' /\ FriendsNamedForWall'
         /\ \A e \in Own \ {d} : Achieved(e)'
  <1>0. GrantTypeOK /\ Ranked /\ FriendsNamedForWall /\ mints \in Nat
    BY GrantAssumption DEF GrantInv, GrantTypeOK
  <1>1. /\ replica' \in [Device -> Replica] /\ mints' \in 0..MaxMints
        /\ \A e \in Device \ {d} : replica'[e] = replica[e]
        /\ w = NoWraps => mints' = mints /\ replica'[d].grants = replica[d].grants
        /\ w # NoWraps => /\ mints' = mints + 1
                          /\ replica'[d].grants = replica[d].grants \union
                               {[rank |-> mints + 1, wraps |-> w]}
    BY <1>0, ProceedFacts
  <1>2. GrantTypeOK'
    BY <1>0, <1>1 DEF GrantTypeOK
  <1>3. Ranked' /\ FriendsNamedForWall'
    <2>1. CASE w = NoWraps
      <3>1. mints' = mints /\ \A e \in Device : replica'[e].grants = replica[e].grants
        BY <1>1, <2>1
      <3> QED
        BY <1>0, <3>1 DEF Ranked, FriendsNamedForWall
    <2>2. CASE w # NoWraps
      <3> DEFINE t == [rank |-> mints + 1, wraps |-> w]
      <3>1. t.rank = mints + 1 /\ t.wraps = w
        OBVIOUS
      <3> HIDE DEF t
      <3>2. \A e \in Device : replica'[e].grants \subseteq replica[e].grants \union {t}
        BY <1>1, <2>2 DEF t
      <3>3. \A e \in Device : \A g \in replica[e].grants : g.rank \in Nat /\ g.rank <= mints
        BY <1>0, DeviceFacts DEF Distinct, Grant
      <3>4. mints' = mints + 1
        BY <1>1, <2>2
      <3>5. Ranked'
        BY <1>0, <3>1, <3>2, <3>3, <3>4 DEF Ranked
      <3>6. FriendsNamedForWall'
        BY <1>0, <3>1, <3>2 DEF FriendsNamedForWall
      <3> QED
        BY <3>5, <3>6
    <2> QED
      BY <2>1, <2>2
  <1>4. ASSUME NEW e \in Own \ {d}
        PROVE  Achieved(e)'
    <2>1. e \in Device /\ replica'[e] = replica[e] /\ epoch'[e] = epoch[e] /\ epoch[e] \in Nat
      BY <1>0, <1>1, DeviceFacts DEF Device
    <2>2. Achieved(e) /\ epoch[e] <= epoch'[e]
      BY <2>1 DEF GrantInv
    <2> QED
      BY <1>0, <2>1, <2>2, AchievedStays
  <1> QED
    BY <1>2, <1>3, <1>4

LEMMA GrantableFacts ==
  ASSUME GrantTypeOK, NEW d \in Device, NEW xs
  PROVE  /\ Grantable(d, xs) \in Wraps
         /\ \A x \in Device : Grantable(d, xs)[x] =
              IF x \in xs \ message.inline THEN replica[d].known[x] ELSE 0
  BY GrantAssumption DEF Grantable, Wraps, Epoch, GrantTypeOK, Replica

\* maintain_wrap_grants() leaves friends covered.
LEMMA FriendSweepKeeps ==
  ASSUME GrantInv, NEW d \in Own, FriendSweep(d)
  PROVE  GrantInv'
  <1> DEFINE w == FriendMint(d)
             grantable == Grantable(d, replica[d].friends)
             G == replica[d].grants
  <1>0. /\ GrantTypeOK /\ Ranked /\ d \in Device /\ replica[d] \in Replica
        /\ Distinct(G) /\ Achieved(d) /\ epoch[d] \in Nat
        /\ \A g \in G : g.rank <= mints
        /\ mints \in Nat /\ message' = message /\ epoch' = epoch
        /\ replica[d].phase = "friends"
    BY DeviceFacts DEF GrantInv, Device, FriendSweep
  <1>1. /\ grantable \in Wraps /\ NoWraps \in Wraps
        /\ \A x \in Device : grantable[x] =
             IF x \in replica[d].friends \ message.inline THEN replica[d].known[x] ELSE 0
    BY <1>0, GrantableFacts, GrantAssumption DEF NoWraps, Wraps, Epoch
  <1> HIDE DEF grantable
  <1>2. /\ w = IF message.origin = "wall" /\ CanKey(d) /\ Misses(grantable, UnionWraps(d))
               THEN grantable ELSE NoWraps
        /\ w \in Wraps
    BY <1>1 DEF FriendMint, grantable
  <1>3. Proceed(d, "devices", w) /\ UNCHANGED <<message, epoch, changes>>
    BY DEF FriendSweep
  <1> HIDE DEF w
  <1>4. \A f \in Friend : w[f] # 0 => message.origin = "wall"
    BY <1>2 DEF NoWraps, Device
  <1>5. /\ GrantTypeOK' /\ Ranked' /\ FriendsNamedForWall'
        /\ \A e \in Own \ {d} : Achieved(e)'
    BY <1>2, <1>3, <1>4, SweepKeeps
  <1>6. /\ replica'[d].has = replica[d].has /\ replica'[d].known = replica[d].known
        /\ replica'[d].friends = replica[d].friends /\ replica'[d].quiet = replica[d].quiet
        /\ replica'[d].phase = "devices"
        /\ w = NoWraps => replica'[d].cached = replica[d].cached /\ replica'[d].grants = G
        /\ w # NoWraps => /\ [rank |-> mints + 1, wraps |-> w] \in Grant
                          /\ replica'[d].grants = G \union {[rank |-> mints + 1, wraps |-> w]}
    BY <1>0, <1>2, <1>3, ProceedFacts
  <1>7. CanKey(d)' => CanKey(d)
    <2>1. CASE w = NoWraps
      BY <1>0, <1>6, <2>1, KeyWasThere
    <2>2. CASE w # NoWraps
      BY <1>2, <2>2
    <2> QED
      BY <2>1, <2>2
  <1>8. ASSUME replica[d].quiet # 0, CanKey(d), message.origin = "wall",
               NEW x \in replica[d].friends \ message.inline, replica[d].known[x] # 0
        PROVE  TopWraps(replica'[d].grants)[x] = replica[d].known[x]
    <2>1. x \in Device /\ grantable[x] = replica[d].known[x]
      BY <1>0, <1>1, <1>8 DEF Replica, Device
    <2>2. CASE Misses(grantable, UnionWraps(d))
      <3> DEFINE t == [rank |-> mints + 1, wraps |-> w]
      <3>1. w = grantable /\ w # NoWraps
        BY <1>2, <1>8, <2>1, <2>2 DEF NoWraps
      <3>2. /\ t \in Grant /\ t.rank = mints + 1 /\ t.wraps = w
            /\ replica'[d].grants = G \union {t}
        BY <1>6, <3>1
      <3> HIDE DEF t
      <3>3. \A g \in G : g.rank < t.rank
        BY <1>0, <3>2 DEF Distinct, Grant
      <3>4. TopWraps(G \union {t}) = t.wraps
        BY <1>0, <3>2, <3>3, MintedIsTop
      <3> QED
        BY <2>1, <3>1, <3>2, <3>4
    <2>3. CASE ~Misses(grantable, UnionWraps(d))
      <3>1. replica'[d].grants = G
        BY <1>2, <1>6, <2>3
      <3>2. UnionWraps(d)[x] = grantable[x]
        BY <1>8, <2>1, <2>3 DEF Misses
      <3>3. \A g, h \in G : g = h
        BY <1>0, <1>8 DEF Achieved
      <3>4. JoinedWraps(G, x) = TopWraps(G)[x]
        BY <1>0, <2>1, <3>3, SingleIsJoined DEF Distinct
      <3> QED
        BY <1>0, <2>1, <3>1, <3>2, <3>4, GrantsOfDevice
    <2> QED
      BY <2>2, <2>3
  <1>9. Achieved(d)'
    <2>1. replica[d].quiet # 0 /\ CanKey(d) => CoversFriends(d)'
      BY <1>0, <1>6, <1>8, GrantsOfDevice DEF CoversFriends, Covers
    <2> QED
      BY <1>6, <1>7, <2>1 DEF Achieved
  <1> QED
    BY <1>5, <1>9 DEF GrantInv

\* The sweeps for the own devices leave everybody covered: what they mint carries on
\* what the latest grant says of friends.
LEMMA DeviceSweepKeeps ==
  ASSUME GrantInv, NEW d \in Own, DeviceSweep(d)
  PROVE  GrantInv'
  <1> DEFINE w == DeviceMint(d)
             grantable == Grantable(d, Own \ {d})
             carried == CarriedForward(d, grantable)
             G == replica[d].grants
  <1>0. /\ GrantTypeOK /\ Ranked /\ d \in Device /\ replica[d] \in Replica
        /\ Distinct(G) /\ Achieved(d) /\ epoch[d] \in Nat
        /\ \A g \in G : g.rank <= mints
        /\ mints \in Nat /\ message' = message /\ epoch' = epoch
        /\ replica[d].phase = "devices"
    BY DeviceFacts DEF GrantInv, Device, DeviceSweep
  <1>1. /\ grantable \in Wraps /\ NoWraps \in Wraps /\ LatestWraps(d) \in Wraps
        /\ \A x \in Device : grantable[x] =
             IF x \in (Own \ {d}) \ message.inline THEN replica[d].known[x] ELSE 0
    <2>1. LatestWraps(d) \in Wraps
      BY <1>0, GrantsOfDevice, ReadTyped
    <2>2. NoWraps \in Wraps
      BY GrantAssumption DEF NoWraps, Wraps, Epoch
    <2> QED
      BY <1>0, <2>1, <2>2, GrantableFacts
  <1> HIDE DEF grantable
  <1>2. /\ carried \in Wraps
        /\ \A x \in Device : carried[x] = IF grantable[x] = 0 /\ Authored
                                          THEN LatestWraps(d)[x] ELSE grantable[x]
    BY <1>1 DEF CarriedForward, Wraps
  <1> HIDE DEF carried
  <1>3. /\ w = IF CanKey(d) /\ Misses(grantable, LatestWraps(d)) THEN carried ELSE NoWraps
        /\ w \in Wraps
    BY <1>1, <1>2 DEF DeviceMint, grantable, carried
  <1>4. Proceed(d, "sessions", w) /\ UNCHANGED <<message, epoch, changes>>
    BY DEF DeviceSweep
  <1> HIDE DEF w
  <1>5. ASSUME NEW f \in Friend, w[f] # 0
        PROVE  message.origin = "wall"
    <2>1. f \in Device /\ f \notin Own
      BY GrantAssumption DEF Device
    <2>2. w = carried /\ grantable[f] = 0
      BY <1>1, <1>3, <1>5, <2>1 DEF NoWraps
    <2>3. LatestWraps(d)[f] # 0
      BY <1>2, <1>5, <2>1, <2>2
    <2>4. PICK t \in G : t.wraps[f] # 0
      <3>1. TopWraps(G)[f] # 0
        BY <1>0, <2>3, GrantsOfDevice
      <3>2. Top(G) # {}
        BY <2>1, <3>1 DEF TopWraps, NoWraps
      <3>3. PICK t \in Top(G) : TRUE
        BY <3>2
      <3>4. TopWraps(G) = t.wraps /\ t \in G
        BY <1>0, <3>3, TopIsRead DEF Top
      <3> QED
        BY <3>1, <3>4
    <2> QED
      BY <1>0, <2>4 DEF GrantInv, FriendsNamedForWall
  <1>6. /\ GrantTypeOK' /\ Ranked' /\ FriendsNamedForWall'
        /\ \A e \in Own \ {d} : Achieved(e)'
    BY <1>3, <1>4, <1>5, SweepKeeps
  <1>7. /\ replica'[d].has = replica[d].has /\ replica'[d].known = replica[d].known
        /\ replica'[d].friends = replica[d].friends /\ replica'[d].quiet = replica[d].quiet
        /\ replica'[d].phase = "sessions"
        /\ w = NoWraps => replica'[d].cached = replica[d].cached /\ replica'[d].grants = G
        /\ w # NoWraps => /\ [rank |-> mints + 1, wraps |-> w] \in Grant
                          /\ replica'[d].grants = G \union {[rank |-> mints + 1, wraps |-> w]}
    BY <1>0, <1>3, <1>4, ProceedFacts
  <1>8. CanKey(d)' => CanKey(d)
    <2>1. CASE w = NoWraps
      BY <1>0, <1>7, <2>1, KeyWasThere
    <2>2. CASE w # NoWraps
      BY <1>3, <2>2
    <2> QED
      BY <2>1, <2>2
  <1>9. ASSUME replica[d].quiet # 0, CanKey(d)
        PROVE  CoversAll(d)'
    <2>0. CoversFriends(d)
      BY <1>0, <1>9 DEF Achieved
    <2>1. CASE Misses(grantable, LatestWraps(d))
      <3> DEFINE t == [rank |-> mints + 1, wraps |-> w]
      <3>1. w = carried /\ w # NoWraps
        <4>1. PICK x \in Device : grantable[x] # 0
          BY <2>1 DEF Misses
        <4>2. carried[x] # 0
          BY <1>2, <4>1
        <4> QED
          BY <1>3, <1>9, <2>1, <4>1, <4>2 DEF NoWraps
      <3>2. /\ t \in Grant /\ t.rank = mints + 1 /\ t.wraps = w
            /\ replica'[d].grants = G \union {t}
        BY <1>7, <3>1
      <3> HIDE DEF t
      <3>3. \A g \in G : g.rank < t.rank
        BY <1>0, <3>2 DEF Distinct, Grant
      <3>4. LatestWraps(d)' = carried
        <4>1. TopWraps(G \union {t}) = t.wraps
          BY <1>0, <3>2, <3>3, MintedIsTop
        <4>2. LatestWraps(d)' = TopWraps(replica'[d].grants)
          BY <1>0, GrantsOfDevice
        <4> QED
          BY <3>1, <3>2, <4>1, <4>2
      <3>5. Covers(d, Own \ {d})'
        BY <1>0, <1>1, <1>2, <1>7, <3>4 DEF Covers, Device
      <3>6. CoversFriends(d)'
        <4> SUFFICES ASSUME message.origin = "wall",
                            NEW x \in replica[d].friends \ message.inline,
                            replica[d].known[x] # 0
                     PROVE  carried[x] = replica[d].known[x]
          BY <1>0, <1>7, <3>4 DEF CoversFriends, Covers
        <4>1. x \in Device /\ x \notin Own
          BY <1>0, GrantAssumption DEF Replica, Device
        <4>2. grantable[x] = 0 /\ Authored
          BY <1>1, <4>1 DEF Authored
        <4>3. LatestWraps(d)[x] = replica[d].known[x]
          BY <2>0 DEF CoversFriends, Covers
        <4> QED
          BY <1>2, <4>1, <4>2, <4>3
      <3> QED
        BY <3>5, <3>6 DEF CoversAll
    <2>2. CASE ~Misses(grantable, LatestWraps(d))
      <3>1. replica'[d].grants = G
        BY <1>3, <1>7, <2>2
      <3>2. LatestWraps(d)' = LatestWraps(d)
        BY <1>0, <3>1, GrantsOfDevice
      <3>3. CoversFriends(d)'
        BY <1>0, <1>7, <2>0, <3>2 DEF CoversFriends, Covers
      <3>4. Covers(d, Own \ {d})'
        BY <1>0, <1>1, <1>7, <2>2, <3>2 DEF Misses, Covers, Device
      <3> QED
        BY <3>3, <3>4 DEF CoversAll
    <2> QED
      BY <2>1, <2>2
  <1>10. Achieved(d)'
    BY <1>7, <1>8, <1>9 DEF Achieved
  <1> QED
    BY <1>6, <1>10 DEF GrantInv

LEMMA PrunedIsOpen ==
  ASSUME GrantTypeOK, Ranked, NEW d \in Device, OpensPruned(d)
  PROVE  Opens(d)
  <1>0. replica[d] \in Replica /\ Distinct(replica[d].grants)
    BY DeviceFacts
  <1>1. ASSUME InGrace(d, LatestWraps(d)[d])
        PROVE  InGrace(d, UnionWraps(d)[d])
    <2>1. TopWraps(replica[d].grants)[d] # 0
      BY <1>1, GrantsOfDevice DEF InGrace
    <2>2. UnionWraps(d)[d] = LatestWraps(d)[d]
      BY <1>0, <2>1, TopIsJoined, GrantsOfDevice
    <2> QED
      BY <1>1, <2>2
  <1> QED
    BY <1>1 DEF OpensPruned, Opens

\* What the end of a round leaves of a device, whose grants were G.
LEMMA RoundedFacts ==
  ASSUME GrantTypeOK, Ranked, NEW d \in Device
  PROVE  /\ Rounded(d) \in Replica
         /\ Rounded(d).has = replica[d].has /\ Rounded(d).known = replica[d].known
         /\ Rounded(d).friends = replica[d].friends /\ Rounded(d).quiet = replica[d].quiet
         /\ Rounded(d).phase = replica[d].phase /\ Rounded(d).seen = replica[d].seen
         /\ Rounded(d).grants = Top(replica[d].grants)
         /\ (Rounded(d).has /\ Rounded(d).cached = "yes") => CanKey(d)
  <1>0. replica[d] \in Replica /\ Latest(d) = Top(replica[d].grants)
        /\ Distinct(replica[d].grants)
    BY DeviceFacts, GrantsOfDevice
  <1> DEFINE c == IF ~replica[d].has \/ replica[d].cached # "no" THEN replica[d].cached
                  ELSE IF OpensPruned(d) THEN "yes" ELSE "never"
  <1>1. c \in {"no", "yes", "never"}
    BY <1>0 DEF Replica
  <1>2. Latest(d) \in SUBSET Grant
    BY <1>0 DEF Top, Replica
  <1>3. Rounded(d) = [replica[d] EXCEPT !.grants = Latest(d), !.cached = c]
    BY DEF Rounded
  <1>4. c = "yes" /\ replica[d].has => CanKey(d)
    <2>1. OpensPruned(d) => Opens(d)
      BY PrunedIsOpen
    <2> QED
      BY <2>1 DEF CanKey
  <1> HIDE DEF c
  <1> QED
    BY <1>0, <1>1, <1>2, <1>3, <1>4 DEF Replica

\* The prune leaves one grant, and that covers what the last sweeps covered.
LEMMA EndRoundKeeps ==
  ASSUME GrantInv, NEW d \in Own, EndRound(d)
  PROVE  GrantInv'
  <1> DEFINE G == replica[d].grants
             q == IF replica[d].quiet = 2 THEN 2 ELSE replica[d].quiet + 1
  <1>0. /\ GrantTypeOK /\ Ranked /\ FriendsNamedForWall /\ d \in Device
        /\ replica[d] \in Replica
        /\ Distinct(G) /\ Achieved(d) /\ epoch[d] \in Nat
        /\ mints \in Nat /\ message' = message /\ epoch' = epoch /\ mints' = mints
        /\ changes' = changes /\ replica[d].phase = "sessions"
    BY DeviceFacts DEF GrantInv, Device, EndRound
  <1>1. q \in 1..2 /\ (q = 2 => replica[d].quiet # 0)
    BY <1>0 DEF Replica
  <1>2. /\ replica' \in [Device -> Replica]
        /\ \A e \in Device \ {d} : replica'[e] = replica[e]
        /\ replica'[d].has = replica[d].has /\ replica'[d].known = replica[d].known
        /\ replica'[d].friends = replica[d].friends /\ replica'[d].quiet = q
        /\ replica'[d].phase = "friends"
        /\ replica'[d].grants = Top(G)
        /\ (replica'[d].has /\ replica'[d].cached = "yes") => CanKey(d)
    <2> DEFINE r == Rounded(d)
               u == [r EXCEPT !.phase = "friends", !.quiet = q]
    <2>1. /\ r \in Replica
          /\ r.has = replica[d].has /\ r.known = replica[d].known
          /\ r.friends = replica[d].friends /\ r.quiet = replica[d].quiet
          /\ r.grants = Top(G)
          /\ (r.has /\ r.cached = "yes") => CanKey(d)
      BY <1>0, RoundedFacts
    <2>2. u = [r EXCEPT !.phase = "friends",
                        !.quiet = IF r.quiet = 2 THEN 2 ELSE r.quiet + 1]
      BY <2>1
    <2>3. replica' = [replica EXCEPT ![d] = u]
      BY <2>2 DEF EndRound
    <2> HIDE DEF r, q
    <2>4. /\ u \in Replica /\ u.has = r.has /\ u.known = r.known /\ u.friends = r.friends
          /\ u.grants = r.grants /\ u.cached = r.cached /\ u.phase = "friends" /\ u.quiet = q
      <3>1. r \in Replica /\ q \in 0..2
        BY <1>1, <2>1
      <3> QED
        BY <3>1 DEF Replica
    <2> HIDE DEF u
    <2>5. replica'[d] = u /\ \A e \in Device \ {d} : replica'[e] = replica[e]
      BY <1>0, <2>3 DEF GrantTypeOK
    <2>6. replica' \in [Device -> Replica]
      BY <1>0, <2>3, <2>4 DEF GrantTypeOK
    <2> QED
      BY <2>1, <2>4, <2>5, <2>6
  <1> HIDE DEF q
  <1>3. GrantTypeOK'
    BY <1>0, <1>2 DEF GrantTypeOK
  <1>4. \A e \in Device : replica'[e].grants \subseteq replica[e].grants
    BY <1>2 DEF Top
  <1>5. Ranked' /\ FriendsNamedForWall'
    BY <1>0, <1>4 DEF Ranked, FriendsNamedForWall
  <1>6. \A e \in Own \ {d} : Achieved(e)'
    <2> SUFFICES ASSUME NEW e \in Own \ {d}
                 PROVE  Achieved(e)'
      OBVIOUS
    <2>1. /\ e \in Device /\ replica'[e] = replica[e] /\ epoch'[e] = epoch[e]
          /\ epoch[e] \in Nat
      BY <1>0, <1>2, DeviceFacts DEF Device
    <2>2. Achieved(e) /\ epoch[e] <= epoch'[e]
      BY <2>1 DEF GrantInv
    <2> QED
      BY <1>0, <2>1, <2>2, AchievedStays
  <1>7. CanKey(d)' => CanKey(d)
    <2>1. Opens(d)' => Opens(d)
      <3>1. UnionWraps(d)'[d] # 0 => UnionWraps(d)'[d] = UnionWraps(d)[d]
        <4>1. \A g, h \in Top(G) : g = h
          BY <1>0, PruneKeepsTop
        <4>2. Top(G) \subseteq Grant
          BY <1>0 DEF Distinct, Top
        <4>3. JoinedWraps(Top(G), d) = TopWraps(Top(G))[d]
          BY <1>0, <4>1, <4>2, SingleIsJoined
        <4>4. JoinedWraps(Top(G), d) = TopWraps(G)[d]
          BY <1>0, <4>3, PruneKeepsTop
        <4>5. TopWraps(G)[d] # 0 => JoinedWraps(G, d) = TopWraps(G)[d]
          BY <1>0, TopIsJoined
        <4> QED
          BY <1>0, <1>2, <4>4, <4>5, GrantsOfDevice
      <3>2. ASSUME InGrace(d, UnionWraps(d)[d])'
            PROVE  InGrace(d, UnionWraps(d)[d])
        <4>1. UnionWraps(d)'[d] # 0 /\ epoch'[d] - UnionWraps(d)'[d] <= GraceEpochs
          BY <3>2 DEF InGrace
        <4> QED
          BY <1>0, <3>1, <4>1 DEF InGrace
      <3>3. InGrace(d, 1)' => InGrace(d, 1)
        BY <1>0 DEF InGrace
      <3> QED
        BY <1>0, <3>2, <3>3 DEF Opens
    <2> QED
      BY <1>2, <2>1 DEF CanKey
  <1>8. CoversAll(d) => CoversAll(d)'
    <2>1. LatestWraps(d)' = LatestWraps(d)
      BY <1>0, <1>2, PruneKeepsTop, GrantsOfDevice
    <2> QED
      BY <1>0, <1>2, <2>1 DEF CoversAll, CoversFriends, Covers
  <1>9. Achieved(d)'
    <2>1. \A g, h \in replica'[d].grants : g = h
      BY <1>0, <1>2, PruneKeepsTop
    <2>2. q = 2 /\ CanKey(d)' => CoversAll(d)'
      BY <1>0, <1>1, <1>7, <1>8 DEF Achieved
    <2> QED
      BY <1>2, <2>1, <2>2 DEF Achieved
  <1> QED
    BY <1>3, <1>5, <1>6, <1>9 DEF GrantInv

----------------------------------------------------------------------------
(***************************************************************************)
(* What else happens to a device: it has to start its rounds anew.         *)
(***************************************************************************)
LEMMA DisturbedKeeps ==
  ASSUME GrantInv, NEW x \in Device, NEW r \in Replica,
         replica' = [replica EXCEPT ![x] = r], UNCHANGED <<message, epoch, mints>>,
         changes' \in 0..MaxChanges, x \in Own => r.quiet = 0,
         \A g \in r.grants : \E e \in Device : g \in replica[e].grants
  PROVE  GrantInv'
  <1>0. GrantTypeOK /\ Ranked /\ FriendsNamedForWall
    BY DEF GrantInv
  <1>1. /\ replica'[x] = r /\ \A e \in Device \ {x} : replica'[e] = replica[e]
        /\ replica' \in [Device -> Replica]
    BY <1>0 DEF GrantTypeOK
  <1>2. GrantTypeOK'
    BY <1>0, <1>1 DEF GrantTypeOK
  <1>3. \A e \in Device : \A g \in replica'[e].grants :
          \E k \in Device : g \in replica[k].grants
    BY <1>1
  <1>4. Ranked' /\ FriendsNamedForWall'
    BY <1>0, <1>3 DEF Ranked, FriendsNamedForWall
  <1>5. ASSUME NEW e \in Own
        PROVE  Achieved(e)'
    <2>1. CASE e = x
      BY <1>1, <2>1 DEF Achieved
    <2>2. CASE e # x
      <3>1. /\ e \in Device /\ replica'[e] = replica[e] /\ epoch'[e] = epoch[e]
            /\ epoch[e] \in Nat
        BY <1>0, <1>1, <2>2, DeviceFacts DEF Device
      <3>2. Achieved(e) /\ epoch[e] <= epoch'[e]
        BY <3>1 DEF GrantInv
      <3> QED
        BY <1>0, <3>1, <3>2, AchievedStays
    <2> QED
      BY <2>1, <2>2
  <1> QED
    BY <1>2, <1>4, <1>5 DEF GrantInv

LEMMA FriendRoundKeeps ==
  ASSUME GrantInv, NEW f \in Friend, FriendRound(f)
  PROVE  GrantInv'
  <1> DEFINE r == Rounded(f)
  <1>0. /\ GrantTypeOK /\ Ranked /\ f \in Device /\ f \notin Own
        /\ changes \in 0..MaxChanges
    BY GrantAssumption DEF GrantInv, Device, GrantTypeOK
  <1>1. r \in Replica /\ r.grants \subseteq replica[f].grants
    BY <1>0, RoundedFacts DEF Top
  <1>2. /\ replica' = [replica EXCEPT ![f] = r]
        /\ UNCHANGED <<message, epoch, mints, changes>>
    BY DEF FriendRound
  <1> HIDE DEF r
  <1> QED
    BY <1>0, <1>1, <1>2, DisturbedKeeps

\* max() of two known keys
LEMMA LaterKey ==
  ASSUME NEW a \in Epoch, NEW b \in Epoch
  PROVE  Max({a, b}) \in Epoch
  <1>1. a \in Nat /\ b \in Nat
    BY GrantAssumption DEF Epoch
  <1>2. \E k \in {a, b} : \A y \in {a, b} : k >= y
    BY <1>1
  <1>3. Max({a, b}) \in {a, b}
    BY <1>2 DEF Max
  <1> QED
    BY <1>3

\* What a session leaves of x, as one record.
LEMMA SyncedReplica ==
  ASSUME NEW d \in Own, NEW x \in Device, replica \in [Device -> Replica], Sync(d, x)
  PROVE  replica' = [replica EXCEPT ![x] =
           [replica[x] EXCEPT !.has = replica[x].has \/ RoutesMessage(d, x),
                              !.known = Learned(d, x), !.quiet = 0,
                              !.cached = UnPoisoned(x, Unseen(d, x)),
                              !.grants = @ \union Unseen(d, x),
                              !.seen = replica[x].seen \union
                                         {g.rank : g \in Unseen(d, x)}]]
  BY DEF Sync

LEMMA SyncKeeps ==
  ASSUME GrantInv, NEW d \in Own, NEW x \in Device, Sync(d, x)
  PROVE  GrantInv'
  <1>z. PICK z \in 0..2 : z = 0
    OBVIOUS
  <1> DEFINE s == replica[x]
             has == s.has \/ RoutesMessage(d, x)
             known == Learned(d, x)
             news == Unseen(d, x)
             seen == s.seen \union {g.rank : g \in news}
             cached == UnPoisoned(x, news)
             r == [s EXCEPT !.has = has, !.known = known, !.quiet = z, !.cached = cached,
                            !.grants = @ \union news, !.seen = seen]
  <1>0. /\ GrantTypeOK /\ Ranked /\ d \in Device /\ s \in Replica /\ replica[d] \in Replica
        /\ changes \in 0..MaxChanges
        /\ \A e \in Device : epoch[e] \in Epoch
        /\ \A e \in Device : replica[e].known \in Wraps
    BY DeviceFacts, GrantAssumption DEF GrantInv, Device, GrantTypeOK, Epoch, Replica
  <1>1. has \in BOOLEAN
    BY <1>0, Zenon DEF Replica
  <1>2. known \in Wraps
    <2>1. 0 \in Epoch
      BY GrantAssumption DEF Epoch
    <2>2. \A y \in Device : replica[x].known[y] \in Epoch /\ replica[d].known[y] \in Epoch
      BY <1>0 DEF Wraps
    <2>3. \A y \in Device : Max({replica[x].known[y], replica[d].known[y]}) \in Epoch
      BY <2>2, LaterKey
    <2> QED
      BY <1>0, <2>1, <2>2, <2>3 DEF Learned, NoWraps, Wraps
  <1>3. news \subseteq replica[d].grants
    BY DEF Unseen, RoutedGrants
  <1>4. news \in SUBSET Grant /\ seen \in SUBSET (1..MaxMints)
    BY <1>0, <1>3 DEF Replica, Grant
  <1>c. cached \in {"no", "yes", "never"}
    BY <1>0 DEF UnPoisoned, Replica
  <1>5. /\ replica' = [replica EXCEPT ![x] = r]
        /\ UNCHANGED <<message, epoch, mints, changes>>
    <2>1. replica \in [Device -> Replica]
      BY <1>0 DEF GrantTypeOK
    <2> QED
      BY <1>0, <1>z, <2>1, SyncedReplica DEF Sync
  <1> HIDE DEF has, known, news, seen, cached
  <1>6. r \in Replica /\ r.quiet = 0 /\ r.grants = s.grants \union news
    <2>1. s \in Replica
      BY <1>0
    <2> QED
      BY <1>1, <1>2, <1>4, <1>c, <1>z, <2>1 DEF Replica
  <1> HIDE DEF r
  <1>7. \A g \in r.grants : \E e \in Device : g \in replica[e].grants
    BY <1>0, <1>3, <1>6
  <1> QED
    BY <1>0, <1>5, <1>6, <1>7, DisturbedKeeps

\* A view caches a key that could be had anyway.
LEMMA ViewKeeps ==
  ASSUME GrantInv, NEW d \in Own, View(d)
  PROVE  GrantInv'
  <1> DEFINE u == [replica[d] EXCEPT !.cached = "yes"]
  <1>0. /\ GrantTypeOK /\ Ranked /\ FriendsNamedForWall /\ d \in Device
        /\ replica[d] \in Replica /\ Achieved(d) /\ CanKey(d)
        /\ UNCHANGED <<message, epoch, mints, changes>>
        /\ replica' = [replica EXCEPT ![d] = u]
    BY DeviceFacts DEF GrantInv, Device, View, CanKey, GrantTypeOK
  <1>1. /\ u \in Replica /\ u.grants = replica[d].grants /\ u.quiet = replica[d].quiet
        /\ u.phase = replica[d].phase /\ u.known = replica[d].known
        /\ u.friends = replica[d].friends
    BY <1>0 DEF Replica
  <1> HIDE DEF u
  <1>2. /\ replica'[d] = u /\ \A e \in Device \ {d} : replica'[e] = replica[e]
        /\ replica' \in [Device -> Replica]
    BY <1>0, <1>1 DEF GrantTypeOK
  <1>3. GrantTypeOK'
    BY <1>0, <1>2 DEF GrantTypeOK
  <1>4. \A e \in Device : replica'[e].grants = replica[e].grants
    BY <1>1, <1>2
  <1>5. Ranked' /\ FriendsNamedForWall'
    BY <1>0, <1>4 DEF Ranked, FriendsNamedForWall
  <1>6. LatestWraps(d)' = LatestWraps(d)
    BY <1>0, <1>4, GrantsOfDevice
  <1>7. CoversFriends(d) => CoversFriends(d)'
    BY <1>0, <1>1, <1>2, <1>6 DEF CoversFriends, Covers
  <1>8. CoversAll(d) => CoversAll(d)'
    BY <1>0, <1>1, <1>2, <1>6, <1>7 DEF CoversAll, Covers
  <1>9. Achieved(d)'
    BY <1>0, <1>1, <1>2, <1>7, <1>8 DEF Achieved
  <1>10. ASSUME NEW e \in Own \ {d}
         PROVE  Achieved(e)'
    <2>1. /\ e \in Device /\ replica'[e] = replica[e] /\ epoch'[e] = epoch[e]
          /\ epoch[e] \in Nat
      BY <1>0, <1>2, DeviceFacts DEF Device
    <2>2. Achieved(e) /\ epoch[e] <= epoch'[e]
      BY <2>1 DEF GrantInv
    <2> QED
      BY <1>0, <2>1, <2>2, AchievedStays
  <1> QED
    BY <1>3, <1>5, <1>9, <1>10 DEF GrantInv

LEMMA UnfriendsReplica ==
  ASSUME NEW d \in Device, NEW f \in Friend, f \in Device, replica \in [Device -> Replica],
         Unfriends(d, f)
  PROVE  replica' = [replica EXCEPT ![d] =
           [replica[d] EXCEPT !.friends = @ \ {f},
                              !.known = [replica[d].known EXCEPT ![f] = 0],
                              !.quiet = 0]]
  BY DEF Unfriends

\* A key is learned, a friend comes or goes, the process dies.
LEMMA ChangeKeeps ==
  ASSUME GrantInv, NEW d \in Own,
         \/ Restart(d)
         \/ \E f \in Friend : LearnKey(d, f) \/ Befriend(d, f) \/ Unfriends(d, f)
  PROVE  GrantInv'
  <1>0. /\ GrantTypeOK /\ Ranked /\ d \in Device /\ replica[d] \in Replica
        /\ replica \in [Device -> Replica]
        /\ changes \in 0..MaxChanges /\ MaxChanges \in Nat
        /\ \A e \in Device : epoch[e] \in Epoch
        /\ 0 \in Epoch
    BY DeviceFacts, GrantAssumption DEF GrantInv, Device, GrantTypeOK, Epoch
  <1>r. replica[d] \in Replica
    BY <1>0
  <1>z. PICK z \in 0..2 : z = 0
    OBVIOUS
  <1>1. ASSUME NEW r, r \in Replica, replica' = [replica EXCEPT ![d] = r],
               UNCHANGED <<message, epoch, mints>>, changes' = changes \/ Change,
               r.quiet = 0, r.grants = replica[d].grants
        PROVE  GrantInv'
    <2>1. changes' \in 0..MaxChanges
      BY <1>0, <1>1 DEF Change
    <2> QED
      BY <1>0, <1>1, <2>1, DisturbedKeeps
  <1>2. CASE Restart(d)
    <2>0. PICK c \in {"no", replica[d].cached} :
            replica' = [replica EXCEPT ![d].phase = "friends", ![d].quiet = 0,
                                       ![d].cached = c]
      BY <1>2, Zenon DEF Restart, Unlocked
    <2> DEFINE r == [replica[d] EXCEPT !.phase = "friends", !.quiet = z, !.cached = c]
    <2>1. r \in Replica /\ r.quiet = 0 /\ r.grants = replica[d].grants
      <3>1. c \in {"no", "yes", "never"}
        BY <1>r DEF Replica
      <3> QED
        BY <1>r, <1>z, <3>1 DEF Replica
    <2>2. replica' = [replica EXCEPT ![d] = r]
      BY <1>0, <1>z, <2>0
    <2> HIDE DEF r
    <2> QED
      BY <1>1, <1>2, <2>1, <2>2 DEF Restart
  <1>3. ASSUME NEW f \in Friend, LearnKey(d, f)
        PROVE  GrantInv'
    <2> DEFINE k == [replica[d].known EXCEPT ![f] = epoch[f]]
               r == [replica[d] EXCEPT !.known = k, !.quiet = z]
    <2>1. k \in Wraps
      BY <1>0 DEF Replica, Wraps, Device
    <2>2. replica' = [replica EXCEPT ![d] = r]
      BY <1>0, <1>z, <1>3 DEF LearnKey
    <2> HIDE DEF k
    <2>3. r \in Replica /\ r.quiet = 0 /\ r.grants = replica[d].grants
      BY <1>r, <1>z, <2>1 DEF Replica
    <2> HIDE DEF r
    <2> QED
      BY <1>1, <1>3, <2>2, <2>3 DEF LearnKey
  <1>4. ASSUME NEW f \in Friend, Befriend(d, f)
        PROVE  GrantInv'
    <2> DEFINE r == [replica[d] EXCEPT !.friends = @ \union {f}, !.quiet = z]
    <2>1. r \in Replica /\ r.quiet = 0 /\ r.grants = replica[d].grants
      BY <1>r, <1>z DEF Replica
    <2>2. replica' = [replica EXCEPT ![d] = r]
      BY <1>0, <1>z, <1>4 DEF Befriend
    <2> HIDE DEF r
    <2> QED
      BY <1>1, <1>4, <2>1, <2>2 DEF Befriend
  <1>5. ASSUME NEW f \in Friend, Unfriends(d, f)
        PROVE  GrantInv'
    <2> DEFINE k == [replica[d].known EXCEPT ![f] = z]
               r == [replica[d] EXCEPT !.friends = @ \ {f}, !.known = k, !.quiet = z]
    <2>1. k \in Wraps
      BY <1>0, <1>z DEF Replica, Wraps, Device
    <2>2. replica' = [replica EXCEPT ![d] = r]
      <3>1. f \in Device /\ d \in Device /\ replica \in [Device -> Replica]
        BY <1>0 DEF Device
      <3>2. replica' = [replica EXCEPT ![d] =
              [replica[d] EXCEPT !.friends = @ \ {f},
                                 !.known = [replica[d].known EXCEPT ![f] = 0],
                                 !.quiet = 0]]
        BY <1>5, <3>1, UnfriendsReplica
      <3> QED
        BY <1>z, <3>2
    <2> HIDE DEF k
    <2>3. r \in Replica /\ r.quiet = 0 /\ r.grants = replica[d].grants
      BY <1>r, <1>z, <2>1 DEF Replica
    <2> HIDE DEF r
    <2> QED
      BY <1>1, <1>5, <2>2, <2>3 DEF Unfriends
  <1> QED
    BY <1>2, <1>3, <1>4, <1>5

\* A rotation takes keys away, and never brings one back.
LEMMA RotateKeeps ==
  ASSUME GrantInv, NEW x \in Device, Rotate(x)
  PROVE  GrantInv'
  <1>0. GrantTypeOK /\ Ranked /\ FriendsNamedForWall
    BY DEF GrantInv
  <1>1. /\ replica' = replica /\ mints' = mints /\ message' = message
        /\ changes < MaxChanges /\ changes' = changes + 1
        /\ epoch[x] < MaxEpoch /\ epoch' = [epoch EXCEPT ![x] = @ + 1]
    BY DEF Rotate, Change
  <1>2. \A e \in Device : /\ epoch[e] \in Nat /\ epoch'[e] \in Nat
                          /\ epoch[e] <= epoch'[e]
    BY <1>0, <1>1, GrantAssumption DEF GrantTypeOK
  <1>3. GrantTypeOK'
    BY <1>0, <1>1, GrantAssumption DEF GrantTypeOK
  <1>4. Ranked' /\ FriendsNamedForWall'
    BY <1>0, <1>1 DEF Ranked, FriendsNamedForWall
  <1>5. \A d \in Own : Achieved(d)'
    BY <1>0, <1>1, <1>2, AchievedStays DEF GrantInv, Device
  <1> QED
    BY <1>3, <1>4, <1>5 DEF GrantInv

LEMMA GrantStutter ==
  ASSUME GrantInv, UNCHANGED grantVars
  PROVE  GrantInv'
  <1>1. /\ GrantTypeOK /\ Ranked
        /\ UNCHANGED <<message, epoch, replica, mints, changes>>
    BY DEF GrantInv, grantVars
  <1>2. GrantTypeOK' /\ Ranked' /\ FriendsNamedForWall'
    BY <1>1 DEF GrantTypeOK, Ranked, FriendsNamedForWall, GrantInv
  <1>3. \A d \in Own : Achieved(d)'
    <2>1. \A d \in Own : d \in Device /\ epoch[d] \in Nat /\ epoch'[d] = epoch[d]
      BY <1>1, DeviceFacts DEF Device
    <2> QED
      BY <1>1, <2>1, AchievedStays DEF GrantInv
  <1> QED
    BY <1>2, <1>3 DEF GrantInv

LEMMA GrantInitInv ==
  ASSUME GrantInit
  PROVE  GrantInv
  <1>0. 0 \in Epoch /\ 1 \in 1..MaxEpoch /\ 0 \in 0..MaxMints /\ 0 \in 0..MaxChanges
    BY GrantAssumption DEF Epoch
  <1>1. NoWraps \in Wraps
    BY <1>0 DEF NoWraps, Wraps
  <1>2. /\ Blank \in Replica
        /\ [Blank EXCEPT !.has = TRUE, !.phase = "friends"] \in Replica
        /\ [Blank EXCEPT !.phase = "friends"] \in Replica
    <2>1. /\ NoWraps \in Wraps /\ {} \in SUBSET Grant /\ {} \in SUBSET (1..MaxMints)
          /\ {} \in SUBSET Friend /\ 0 \in 0..2
      BY <1>1
    <2>2. Blank \in Replica
      BY <2>1 DEF Blank, Replica
    <2> QED
      BY <2>2 DEF Replica
  <1>3. PICK holder \in message.inline \intersect Own :
          replica = [x \in Device |->
            IF x = holder THEN [Blank EXCEPT !.has = TRUE, !.phase = "friends"]
            ELSE IF x \in Own THEN [Blank EXCEPT !.phase = "friends"] ELSE Blank]
    BY DEF GrantInit
  <1>4. replica \in [Device -> Replica]
    BY <1>2, <1>3
  <1>5. \A d \in Device : replica[d].grants = {} /\ replica[d].quiet = 0
    BY <1>3 DEF Blank
  <1>6. GrantTypeOK
    BY <1>0, <1>4 DEF GrantInit, GrantTypeOK
  <1>7. Ranked /\ FriendsNamedForWall /\ \A d \in Own : Achieved(d)
    BY <1>5 DEF Ranked, FriendsNamedForWall, Achieved, Device
  <1> QED
    BY <1>6, <1>7 DEF GrantInv

LEMMA GrantsInductive == GrantInv /\ [GrantNext]_grantVars => GrantInv'
  <1> SUFFICES ASSUME GrantInv, [GrantNext]_grantVars
               PROVE  GrantInv'
    OBVIOUS
  <1>1. CASE UNCHANGED grantVars
    BY <1>1, GrantStutter
  <1>2. ASSUME NEW d \in Own,
               FriendSweep(d) \/ DeviceSweep(d) \/ EndRound(d)
        PROVE  GrantInv'
    BY <1>2, FriendSweepKeeps, DeviceSweepKeeps, EndRoundKeeps
  <1>3. ASSUME NEW d \in Own, NEW x \in Device, Sync(d, x)
        PROVE  GrantInv'
    BY <1>3, SyncKeeps
  <1>4. ASSUME NEW d \in Own,
               \/ Restart(d)
               \/ \E f \in Friend : LearnKey(d, f) \/ Befriend(d, f) \/ Unfriends(d, f)
        PROVE  GrantInv'
    BY <1>4, ChangeKeeps
  <1>5. ASSUME NEW f \in Friend, FriendRound(f)
        PROVE  GrantInv'
    BY <1>5, FriendRoundKeeps
  <1>6. ASSUME NEW x \in Device, Rotate(x)
        PROVE  GrantInv'
    BY <1>6, RotateKeeps
  <1>7. ASSUME NEW d \in Own, View(d)
        PROVE  GrantInv'
    BY <1>7, ViewKeeps
  <1> QED
    BY <1>1, <1>2, <1>3, <1>4, <1>5, <1>6, <1>7 DEF GrantNext

\* In every behaviour of the sweeps, with any devices, friends, keys and bounds, the
\* grants of a device have different ranks, only wall posts are granted to friends, and
\* every phase of a round achieves what the prune rests on.
THEOREM GrantInvariance == GrantSpec => []GrantInv
  BY GrantInitInv, GrantsInductive, PTL DEF GrantSpec

----------------------------------------------------------------------------
(***************************************************************************)
(* The negative cache.  What was given up on cannot be opened: the grant   *)
(* that changes this takes the mark away.  And a round looks every key up  *)
(* that is neither cached nor given up on.                                 *)
(***************************************************************************)
KeySettled(d) ==
  LET r == replica[d] IN
  /\ r.cached = "never" => ~Opens(d)
  /\ (r.quiet # 0 /\ r.has) => r.cached # "no"

SettledInv == GrantInv /\ \A d \in Own : KeySettled(d)

\* As long as the grants of a device are what they were, or become fewer, no key comes
\* back.
LEMMA NotOpened ==
  ASSUME GrantTypeOK, Ranked, NEW d \in Device, message' = message,
         epoch'[d] \in Nat, epoch[d] <= epoch'[d],
         replica'[d].grants = replica[d].grants, Opens(d)'
  PROVE  Opens(d)
  <1>1. JoinedWraps(replica[d].grants, d) \in Nat
    BY DeviceFacts, ReadTyped, GrantAssumption DEF Epoch
  <1>2. PICK e \in Nat : UnionWraps(d)[d] = e /\ UnionWraps(d)'[d] = e
    BY <1>1, GrantsOfDevice
  <1>3. epoch[d] \in Nat /\ GraceEpochs \in Nat
    BY DeviceFacts, GrantAssumption
  <1>4. \A k \in Nat : InGrace(d, k)' => InGrace(d, k)
    BY <1>3 DEF InGrace
  <1>5. InGrace(d, 1)' => InGrace(d, 1)
    BY <1>4
  <1>6. InGrace(d, e)' => InGrace(d, e)
    BY <1>4
  <1>7. InGrace(d, UnionWraps(d)[d])' <=> InGrace(d, e)'
    BY <1>2 DEF InGrace
  <1>8. InGrace(d, UnionWraps(d)[d]) <=> InGrace(d, e)
    BY <1>2
  <1> QED
    BY <1>5, <1>6, <1>7, <1>8 DEF Opens

\* A device whose grants and cached key are what they were.
LEMMA UntouchedStaysSettled ==
  ASSUME GrantInv, NEW d \in Own, KeySettled(d), message' = message,
         epoch'[d] \in Nat, epoch[d] <= epoch'[d],
         replica'[d].grants = replica[d].grants,
         replica'[d].cached = replica[d].cached, replica'[d].has = replica[d].has,
         replica'[d].quiet \in {0, replica[d].quiet}
  PROVE  KeySettled(d)'
  <1>1. Opens(d)' => Opens(d)
    BY NotOpened DEF GrantInv, Device
  <1> QED
    BY <1>1 DEF KeySettled

\* After the prune a device opens what it finds in the one grant that is left.
LEMMA OpensWhatIsLeft ==
  ASSUME GrantTypeOK, Ranked, NEW d \in Device, UNCHANGED <<message, epoch>>,
         replica'[d].grants = Top(replica[d].grants), Opens(d)'
  PROVE  OpensPruned(d)
  <1> DEFINE G == replica[d].grants
  <1>0. Distinct(G) /\ Top(G) \subseteq Grant
    BY DeviceFacts DEF Distinct, Top
  <1>1. \A g, h \in Top(G) : g = h
    BY <1>0, PruneKeepsTop
  <1>2. JoinedWraps(Top(G), d) = TopWraps(Top(G))[d]
    BY <1>0, <1>1, SingleIsJoined
  <1>3. JoinedWraps(Top(G), d) = TopWraps(G)[d]
    BY <1>0, <1>2, PruneKeepsTop
  <1>4. UnionWraps(d)'[d] = LatestWraps(d)[d]
    BY <1>3, GrantsOfDevice
  <1>5. InGrace(d, UnionWraps(d)[d])' => InGrace(d, LatestWraps(d)[d])
    BY <1>4 DEF InGrace
  <1>6. InGrace(d, 1)' => InGrace(d, 1)
    BY DEF InGrace
  <1> QED
    BY <1>5, <1>6 DEF Opens, OpensPruned

\* What the sweep for the own devices mints is a grant, or nothing.
LEMMA DeviceMintTyped ==
  ASSUME GrantTypeOK, Ranked, NEW d \in Own
  PROVE  DeviceMint(d) \in Wraps
  <1> DEFINE grantable == Grantable(d, Own \ {d})
             carried == CarriedForward(d, grantable)
  <1>0. d \in Device /\ replica[d] \in Replica /\ Distinct(replica[d].grants)
    BY DeviceFacts DEF Device
  <1>1. /\ grantable \in Wraps /\ NoWraps \in Wraps /\ LatestWraps(d) \in Wraps
        /\ Authored \in BOOLEAN
    <2>1. LatestWraps(d) \in Wraps
      BY <1>0, GrantsOfDevice, ReadTyped
    <2>2. NoWraps \in Wraps
      BY GrantAssumption DEF NoWraps, Wraps, Epoch
    <2> QED
      BY <1>0, <2>1, <2>2, GrantableFacts DEF Authored
  <1> HIDE DEF grantable
  <1>2. carried \in Wraps
    BY <1>1 DEF CarriedForward, Wraps
  <1> HIDE DEF carried
  <1>3. DeviceMint(d) = IF CanKey(d) /\ Misses(grantable, LatestWraps(d))
                        THEN carried ELSE NoWraps
    BY DEF DeviceMint, grantable, carried
  <1> QED
    BY <1>1, <1>2, <1>3

LEMMA KeysSettle ==
  ASSUME SettledInv, [GrantNext]_grantVars, GrantInv', NEW d \in Own
  PROVE  KeySettled(d)'
  <1>0. /\ GrantInv /\ KeySettled(d) /\ GrantTypeOK /\ Ranked /\ d \in Device
        /\ epoch[d] \in Nat /\ epoch'[d] \in Nat /\ replica \in [Device -> Replica]
        /\ replica[d] \in Replica
    BY GrantAssumption DEF SettledInv, GrantInv, GrantTypeOK, Device
  <1>1. ASSUME UNCHANGED <<message, epoch>>, replica'[d] = replica[d]
        PROVE  KeySettled(d)'
    BY <1>0, <1>1, UntouchedStaysSettled
  <1>2. CASE UNCHANGED grantVars
    BY <1>1, <1>2 DEF grantVars
  <1>3. ASSUME NEW e \in Own, NEW phase \in {"friends", "devices", "sessions"},
               NEW w \in Wraps, Proceed(e, phase, w), UNCHANGED <<message, epoch>>
        PROVE  KeySettled(d)'
    <2>1. CASE e # d
      <3>1. replica'[d] = replica[d]
        BY <1>0, <1>3, <2>1, ProceedFacts
      <3> QED
        BY <1>1, <1>3, <3>1
    <2>2. CASE e = d /\ w = NoWraps
      <3>1. /\ replica'[d].has = replica[d].has /\ replica'[d].quiet = replica[d].quiet
            /\ replica'[d].cached = replica[d].cached
            /\ replica'[d].grants = replica[d].grants
        BY <1>0, <1>3, <2>2, ProceedFacts
      <3> QED
        BY <1>0, <1>3, <3>1, UntouchedStaysSettled
    <2>3. CASE e = d /\ w # NoWraps
      <3>1. replica'[d].cached = "yes"
        BY <1>0, <1>3, <2>3, ProceedFacts
      <3> QED
        BY <3>1 DEF KeySettled
    <2> QED
      BY <2>1, <2>2, <2>3
  <1>4. ASSUME NEW e \in Own, FriendSweep(e) \/ DeviceSweep(e)
        PROVE  KeySettled(d)'
    <2>0. \A xs : Grantable(e, xs) \in Wraps
      BY <1>0, GrantableFacts DEF Device
    <2>1. NoWraps \in Wraps
      BY GrantAssumption DEF NoWraps, Wraps, Epoch
    <2>2. CASE FriendSweep(e)
      <3>1. FriendMint(e) \in Wraps
        BY <2>0, <2>1 DEF FriendMint
      <3> QED
        BY <1>3, <2>2, <3>1 DEF FriendSweep
    <2>3. CASE DeviceSweep(e)
      <3>1. DeviceMint(e) \in Wraps
        BY <1>0, DeviceMintTyped
      <3> QED
        BY <1>3, <2>3, <3>1 DEF DeviceSweep
    <2> QED
      BY <1>4, <2>2, <2>3
  <1>5. ASSUME NEW e \in Own, EndRound(e)
        PROVE  KeySettled(d)'
    <2>1. UNCHANGED <<message, epoch>>
      BY <1>5 DEF EndRound
    <2>2. CASE e # d
      BY <1>0, <1>1, <1>5, <2>1, <2>2 DEF EndRound
    <2>3. CASE e = d
      <3> DEFINE r == Rounded(d)
                 q == IF r.quiet = 2 THEN 2 ELSE r.quiet + 1
      <3>1. replica' = [replica EXCEPT ![d] = [r EXCEPT !.phase = "friends", !.quiet = q]]
        BY <1>5, <2>3 DEF EndRound
      <3>2. /\ r \in Replica /\ r.has = replica[d].has
            /\ r.grants = Top(replica[d].grants)
        BY <1>0, RoundedFacts
      <3>3. r.cached = IF ~replica[d].has \/ replica[d].cached # "no" THEN replica[d].cached
                       ELSE IF OpensPruned(d) THEN "yes" ELSE "never"
        BY <1>0 DEF Rounded, Replica
      <3> HIDE DEF r, q
      <3>4. /\ replica'[d].has = replica[d].has /\ replica'[d].cached = r.cached
            /\ replica'[d].grants = Top(replica[d].grants)
        BY <1>0, <3>1, <3>2 DEF Replica
      <3>5. Opens(d)' => OpensPruned(d)
        BY <1>0, <2>1, <3>4, OpensWhatIsLeft
      <3>6. OpensPruned(d) => Opens(d)
        BY <1>0, PrunedIsOpen
      <3> QED
        BY <1>0, <3>3, <3>4, <3>5, <3>6 DEF KeySettled
    <2> QED
      BY <2>2, <2>3
  <1>6. ASSUME NEW e \in Own, NEW x \in Device, Sync(e, x)
        PROVE  KeySettled(d)'
    <2>1. UNCHANGED <<message, epoch>>
      BY <1>6 DEF Sync
    <2>2. CASE x # d
      BY <1>0, <1>1, <1>6, <2>1, <2>2 DEF Sync
    <2>3. CASE x = d
      <3> DEFINE news == Unseen(e, d)
                 cached == UnPoisoned(d, news)
                 s == [replica[d] EXCEPT !.has = replica[d].has \/ RoutesMessage(e, d),
                                         !.known = Learned(e, d), !.quiet = 0,
                                         !.cached = cached, !.grants = @ \union news,
                                         !.seen = replica[d].seen \union
                                                    {g.rank : g \in news}]
      <3>0. replica' = [replica EXCEPT ![d] = s]
        BY <1>0, <1>6, <2>3, SyncedReplica
      <3>1. /\ replica'[d].quiet = 0 /\ replica'[d].cached = cached
            /\ replica'[d].grants = replica[d].grants \union news
        <4>1. replica'[d] = s
          BY <1>0, <3>0
        <4> HIDE DEF news, cached
        <4> QED
          BY <1>0, <4>1 DEF Replica
      <3>2. CASE Unseen(e, d) = {}
        <4>1. /\ replica'[d].grants = replica[d].grants
              /\ replica'[d].cached = replica[d].cached
          BY <3>1, <3>2 DEF UnPoisoned
        <4>2. Opens(d)' => Opens(d)
          BY <1>0, <2>1, <4>1, NotOpened
        <4> QED
          BY <1>0, <3>1, <4>1, <4>2 DEF KeySettled
      <3>3. CASE Unseen(e, d) # {}
        BY <3>1, <3>3 DEF UnPoisoned, KeySettled
      <3> QED
        BY <3>2, <3>3
    <2> QED
      BY <2>2, <2>3
  <1>7. ASSUME NEW e \in Own, View(e)
        PROVE  KeySettled(d)'
    <2>1. CASE e # d
      BY <1>0, <1>1, <1>7, <2>1 DEF View
    <2>2. CASE e = d
      <3>1. replica'[d].cached = "yes"
        BY <1>0, <1>7, <2>2 DEF View, Replica
      <3> QED
        BY <3>1 DEF KeySettled
    <2> QED
      BY <2>1, <2>2
  <1>8. ASSUME NEW e \in Own, Restart(e)
        PROVE  KeySettled(d)'
    <2>0. UNCHANGED <<message, epoch>>
      BY <1>8 DEF Restart
    <2>1. CASE e # d
      BY <1>0, <1>1, <1>8, <2>0, <2>1 DEF Restart
    <2>2. CASE e = d
      <3>0. PICK c \in {"no", replica[d].cached} :
              replica' = [replica EXCEPT ![d].phase = "friends", ![d].quiet = 0,
                                         ![d].cached = c]
        BY <1>8, <2>2, Zenon DEF Restart, Unlocked
      <3>1. /\ replica'[d].quiet = 0 /\ replica'[d].cached = c
            /\ replica'[d].grants = replica[d].grants
        BY <1>0, <3>0 DEF Replica
      <3>2. Opens(d)' => Opens(d)
        BY <1>0, <2>0, <3>1, NotOpened
      <3> QED
        BY <1>0, <3>1, <3>2 DEF KeySettled
    <2> QED
      BY <2>1, <2>2
  <1>9. ASSUME NEW e \in Own, NEW f \in Friend,
               LearnKey(e, f) \/ Befriend(e, f) \/ Unfriends(e, f)
        PROVE  KeySettled(d)'
    <2>1. UNCHANGED <<message, epoch>>
      BY <1>9 DEF LearnKey, Befriend, Unfriends
    <2>2. /\ replica'[d].grants = replica[d].grants /\ replica'[d].has = replica[d].has
          /\ replica'[d].cached = replica[d].cached
          /\ replica'[d].quiet \in {0, replica[d].quiet}
      BY <1>0, <1>9 DEF LearnKey, Befriend, Unfriends, Replica
    <2> QED
      BY <1>0, <2>1, <2>2, UntouchedStaysSettled
  <1>10. ASSUME NEW f \in Friend, FriendRound(f)
         PROVE  KeySettled(d)'
    <2>1. f # d
      BY GrantAssumption
    <2> QED
      BY <1>0, <1>1, <1>10, <2>1 DEF FriendRound
  <1>11. ASSUME NEW x \in Device, Rotate(x)
         PROVE  KeySettled(d)'
    <2>1. /\ replica' = replica /\ message' = message
          /\ epoch' = [epoch EXCEPT ![x] = @ + 1]
      BY <1>11 DEF Rotate
    <2>2. epoch[d] <= epoch'[d]
      BY <1>0, <2>1 DEF GrantTypeOK
    <2> QED
      BY <1>0, <2>1, <2>2, UntouchedStaysSettled
  <1> QED
    BY <1>2, <1>4, <1>5, <1>6, <1>7, <1>8, <1>9, <1>10, <1>11 DEF GrantNext

LEMMA SettledInitially == GrantInit => SettledInv
  <1> SUFFICES ASSUME GrantInit PROVE SettledInv
    OBVIOUS
  <1>1. \A d \in Own : replica[d].quiet = 0 /\ replica[d].cached = "no"
    BY DEF GrantInit, Blank, Device
  <1> QED
    BY <1>1, GrantInitInv DEF SettledInv, KeySettled

LEMMA SettledInductive == SettledInv /\ [GrantNext]_grantVars => SettledInv'
  <1> SUFFICES ASSUME SettledInv, [GrantNext]_grantVars PROVE SettledInv'
    OBVIOUS
  <1>1. GrantInv'
    BY GrantsInductive DEF SettledInv
  <1> QED
    BY <1>1, KeysSettle DEF SettledInv

\* What a device gave up on cannot be opened by it, in every behaviour of the sweeps: a
\* grant that brings a key takes the mark of cache_message_keys() away (store.py 398),
\* and no rotation or prune gives a lost key back.
THEOREM NoKeyGivenUp == GrantSpec => []SettledInv
  BY SettledInitially, SettledInductive, PTL DEF GrantSpec

LEMMA SettledGrantsCover == SettledInv => SettledIsCovered
  <1> SUFFICES ASSUME SettledInv, NEW d \in Own, replica[d].quiet = 2,
                      replica[d].phase = "friends", CanKey(d)
               PROVE  /\ replica[d].cached = "yes"
                      /\ \A x \in Served(d) : LatestWraps(d)[x] = replica[d].known[x]
    BY DEF SettledIsCovered
  <1>1. replica[d].cached = "yes"
    <2>1. replica[d].cached \in {"no", "yes", "never"}
      BY DEF SettledInv, GrantInv, GrantTypeOK, Replica, Device
    <2> QED
      BY <2>1 DEF SettledInv, KeySettled, CanKey
  <1>2. ASSUME NEW x \in Served(d)
        PROVE  LatestWraps(d)[x] = replica[d].known[x]
    <2>1. Achieved(d)
      BY DEF SettledInv, GrantInv
    <2>2. CoversAll(d)
      BY <2>1 DEF Achieved
    <2>3. /\ x \notin message.inline \union {d} /\ replica[d].known[x] # 0
          /\ x \in Own \/ (message.origin = "wall" /\ x \in replica[d].friends)
      BY DEF Served
    <2> QED
      BY <2>2, <2>3 DEF CoversAll, CoversFriends, Covers
  <1> QED
    BY <1>1, <1>2

\* The sweeps do not strip each other's coverage: maintain_wrap_grants() and the sweeps
\* for the own devices leave, after two undisturbed rounds, one grant that serves all
\* whom the device should serve, which prune_superseded_wrap_grants() rests on, and the
\* content key is cached by then (cache_message_keys()).
THEOREM SweepsDoNotStrip == GrantSpec => []SettledIsCovered
  BY SettledGrantsCover, NoKeyGivenUp, PTL

\* What AudienceNotWidened says of a step.
MintsForOldAudience ==
  \A d \in Own : mints' # mints =>
    \A g \in replica'[d].grants \ replica[d].grants, f \in Friend :
      g.wraps[f] # 0 =>
        /\ message.origin = "wall"
        /\ f \in replica[d].friends \/ LatestWraps(d)[f] # 0

LEMMA MintsDoNotWiden ==
  GrantInv /\ GrantInv' /\ [GrantNext]_grantVars => MintsForOldAudience
  <1> SUFFICES ASSUME GrantInv, GrantInv', [GrantNext]_grantVars, mints' # mints,
                      NEW d \in Own, NEW g \in replica'[d].grants \ replica[d].grants,
                      NEW f \in Friend, g.wraps[f] # 0
               PROVE  /\ message.origin = "wall"
                      /\ f \in replica[d].friends \/ LatestWraps(d)[f] # 0
    BY DEF MintsForOldAudience
  <1>0. GrantTypeOK /\ Ranked /\ d \in Device /\ f \in Device /\ f \notin Own
    BY GrantAssumption DEF GrantInv, Device
  <1>1. PICK e \in Own : FriendSweep(e) \/ DeviceSweep(e)
    <2>1. ~UNCHANGED grantVars
      BY DEF grantVars
    <2>2. \A e \in Own : /\ ~EndRound(e) /\ ~View(e) /\ ~Restart(e)
                         /\ \A x \in Device : ~Sync(e, x)
                         /\ \A k \in Friend : ~LearnKey(e, k) /\ ~Befriend(e, k)
                                             /\ ~Unfriends(e, k)
      <3> SUFFICES ASSUME NEW e \in Own
                   PROVE  /\ ~EndRound(e) /\ ~View(e) /\ ~Restart(e)
                          /\ \A x \in Device : ~Sync(e, x)
                          /\ \A k \in Friend : ~LearnKey(e, k) /\ ~Befriend(e, k)
                                              /\ ~Unfriends(e, k)
        OBVIOUS
      <3>1. ~EndRound(e) /\ ~View(e) /\ ~Restart(e)
        BY DEF EndRound, View, Restart
      <3>2. \A x \in Device : ~Sync(e, x)
        BY DEF Sync
      <3>3. \A k \in Friend : ~LearnKey(e, k) /\ ~Befriend(e, k) /\ ~Unfriends(e, k)
        BY DEF LearnKey, Befriend, Unfriends
      <3> QED
        BY <3>1, <3>2, <3>3
    <2>3. (\A k \in Friend : ~FriendRound(k)) /\ (\A x \in Device : ~Rotate(x))
      BY DEF FriendRound, Rotate
    <2> QED
      BY <2>1, <2>2, <2>3 DEF GrantNext
  <1>2. ASSUME NEW phase \in {"friends", "devices", "sessions"}, NEW w \in Wraps,
               Proceed(e, phase, w)
        PROVE  e = d /\ g.wraps = w /\ w # NoWraps
    <2>0. e \in Device
      BY DEF Device
    <2>1. /\ \A k \in Device \ {e} : replica'[k] = replica[k]
          /\ w = NoWraps => replica'[e].grants = replica[e].grants
          /\ w # NoWraps => replica'[e].grants =
                              replica[e].grants \union {[rank |-> mints + 1, wraps |-> w]}
      BY <1>0, <1>2, ProceedFacts
    <2>2. e = d
      BY <1>0, <2>1
    <2>3. w # NoWraps
      BY <2>1, <2>2
    <2>4. g = [rank |-> mints + 1, wraps |-> w]
      BY <2>1, <2>2, <2>3
    <2> QED
      BY <2>2, <2>3, <2>4
  <1>3. /\ NoWraps \in Wraps
        /\ \A k \in Device : \A xs : Grantable(k, xs) \in Wraps
    BY <1>0, GrantableFacts, GrantAssumption DEF NoWraps, Wraps, Epoch
  <1>4. message' = message
    BY <1>1 DEF FriendSweep, DeviceSweep
  <1>5. message.origin = "wall"
    BY <1>0, <1>4 DEF GrantInv, FriendsNamedForWall
  <1>6. CASE FriendSweep(e)
    <2>1. FriendMint(e) \in Wraps /\ Proceed(e, "devices", FriendMint(e))
      BY <1>3, <1>6 DEF FriendMint, FriendSweep, Device
    <2>2. e = d /\ g.wraps = FriendMint(d) /\ FriendMint(d) # NoWraps
      BY <1>2, <2>1
    <2>3. g.wraps = Grantable(d, replica[d].friends)
      BY <2>2 DEF FriendMint
    <2> QED
      BY <1>0, <1>5, <2>3, GrantableFacts
  <1>7. CASE DeviceSweep(e)
    <2> DEFINE grantable == Grantable(e, Own \ {e})
    <2>1. LatestWraps(e) \in Wraps /\ grantable \in Wraps
      BY <1>0, <1>3, DeviceFacts, GrantsOfDevice, ReadTyped DEF Device
    <2>2. CarriedForward(e, grantable) \in Wraps
      <3> HIDE DEF grantable
      <3> QED
        BY <2>1 DEF CarriedForward, Wraps
    <2>3. DeviceMint(e) \in Wraps /\ Proceed(e, "sessions", DeviceMint(e))
      BY <1>3, <1>7, <2>2 DEF DeviceMint, DeviceSweep
    <2>4. e = d /\ g.wraps = DeviceMint(d) /\ DeviceMint(d) # NoWraps
      BY <1>2, <2>3
    <2>5. g.wraps = CarriedForward(d, grantable)
      BY <2>4 DEF DeviceMint
    <2>6. grantable[f] = 0
      BY <1>0, <2>4, GrantableFacts
    <2> HIDE DEF grantable
    <2>7. g.wraps[f] = IF Authored THEN LatestWraps(d)[f] ELSE 0
      BY <1>0, <2>5, <2>6 DEF CarriedForward
    <2> QED
      BY <1>5, <2>7
  <1> QED
    BY <1>1, <1>6, <1>7

\* No sweep widens the audience: what maintain_wrap_grants() and the sweeps for the own
\* devices mint names a friend's device only for a wall post, and then a friend of this
\* device or one that the superseded grant named.
THEOREM GrantsDoNotWiden == GrantSpec => AudienceNotWidened
  <1>1. GrantInv /\ GrantInv' /\ [GrantNext]_grantVars => [MintsForOldAudience]_grantVars
    BY MintsDoNotWiden
  <1>2. GrantSpec => [][MintsForOldAudience]_grantVars
    BY <1>1, GrantInvariance, PTL DEF GrantSpec
  <1> QED
    BY <1>2 DEF MintsForOldAudience, AudienceNotWidened
----------------------------------------------------------------------------
(***************************************************************************)
(* Blobs.  What the author of a message composed it knows for ever, to be  *)
(* there or to be deleted, so that nobody hands it back to him without its *)
(* bytes; and of what could be given something always is.                  *)
(***************************************************************************)
OwnKept ==
  \A c \in Content, n \in Node :
    (author[c] = n /\ n # Nobody) =>
      /\ c \in shelf[n].live \union shelf[n].gone
      /\ c \in shelf[n].live => Refs[c] \subseteq shelf[n].blobs

BlobInv == BlobTypeOK /\ OwnKept

LEMMA ShelfTyped ==
  ASSUME NEW s \in Shelf, NEW live \in SUBSET Content
  PROVE  /\ Collected(s, live) \in Shelf
         /\ Collected(s, live).live = live /\ Collected(s, live).gone = s.gone
         /\ Collected(s, live).blobs = s.blobs \intersect Referenced(live)
  BY DEF Collected, Shelf

LEMMA DeletedTyped ==
  ASSUME NEW s \in Shelf, NEW c \in Content
  PROVE  /\ Deleted(s, c) \in Shelf
         /\ Deleted(s, c).gone = s.gone \union {c}
         /\ Deleted(s, c).live = s.live \ {c}
         /\ Deleted(s, c).blobs = s.blobs
            \/ Deleted(s, c).blobs = s.blobs \intersect Referenced(s.live \ {c})
  <1> DEFINE kept == IF c \in s.live THEN Collected(s, s.live \ {c}) ELSE s
  <1>1. s.live \ {c} \in SUBSET Content
    BY DEF Shelf
  <1>2. /\ kept \in Shelf /\ kept.gone = s.gone /\ kept.live = s.live \ {c}
        /\ kept.blobs = s.blobs \/ kept.blobs = s.blobs \intersect Referenced(s.live \ {c})
    BY <1>1, ShelfTyped
  <1>3. Deleted(s, c) = [kept EXCEPT !.gone = @ \union {c}]
    BY DEF Deleted
  <1> HIDE DEF kept
  <1> QED
    BY <1>2, <1>3 DEF Shelf

LEMMA RefsReferenced ==
  ASSUME NEW live \in SUBSET Content, NEW c \in live
  PROVE  Refs[c] \subseteq Referenced(live)
  BY DEF Referenced

LEMMA MissingTyped ==
  ASSUME BlobTypeOK, NEW n \in Node
  PROVE  Missing(n) \in SUBSET Bytes
  <1>1. shelf[n].live \in SUBSET Content
    BY DEF BlobTypeOK, Shelf
  <1>2. \A c \in Content : Refs[c] \in SUBSET Bytes
    BY BlobAssumption
  <1> QED
    BY <1>1, <1>2 DEF Missing, Referenced

LEMMA BlobTypes == BlobTypeOK /\ [BlobNext]_blobVars => BlobTypeOK'
  <1> SUFFICES ASSUME BlobTypeOK, [BlobNext]_blobVars
               PROVE  BlobTypeOK'
    OBVIOUS
  <1>0. /\ author \in [Content -> Node \union {Nobody}]
        /\ peers \in [Node -> SUBSET Node]
        /\ shelf \in [Node -> Shelf] /\ exchange \in [Node \X Node -> Exchange]
    BY DEF BlobTypeOK
  <1>1. \A k \in Node : /\ shelf[k] \in Shelf /\ shelf[k].live \in SUBSET Content
                        /\ shelf[k].gone \in SUBSET Content /\ shelf[k].blobs \in SUBSET Bytes
    BY <1>0 DEF Shelf
  <1>2. NoExchange \in Exchange
    BY DEF NoExchange, Exchange
  <1>3. ASSUME NEW n \in Node, NEW c \in Content, NEW cut \in BOOLEAN,
               ComposeContent(n, c, cut)
        PROVE  BlobTypeOK'
    <2>1. author' \in [Content -> Node \union {Nobody}]
      BY <1>0, <1>3 DEF ComposeContent
    <2>2. Refs[c] \in SUBSET Bytes
      BY BlobAssumption
    <2>3. shelf' \in [Node -> Shelf]
      <3> DEFINE live == IF cut THEN shelf[n].live ELSE shelf[n].live \union {c}
                 s == [shelf[n] EXCEPT !.blobs = @ \union Refs[c], !.live = live]
      <3>1. shelf' = [shelf EXCEPT ![n] = s]
        BY <1>0, <1>1, <1>3 DEF ComposeContent, Shelf
      <3>2. live \in SUBSET Content
        BY <1>1
      <3> HIDE DEF live
      <3>3. s \in Shelf
        BY <1>1, <2>2, <3>2 DEF Shelf
      <3> HIDE DEF s
      <3> QED
        BY <1>0, <3>1, <3>3
    <2> QED
      BY <1>0, <1>3, <2>1, <2>3 DEF ComposeContent, BlobTypeOK
  <1>4. ASSUME NEW n \in Node, NEW c \in Content, DeleteContent(n, c)
        PROVE  BlobTypeOK'
    <2>1. Deleted(shelf[n], c) \in Shelf
      BY <1>1, DeletedTyped
    <2>2. shelf' \in [Node -> Shelf]
      BY <1>0, <1>4, <2>1 DEF DeleteContent
    <2> QED
      BY <1>0, <1>4, <2>2 DEF DeleteContent, BlobTypeOK
  <1>5. ASSUME NEW n \in Node, NEW g \in Node, Part(n, g)
        PROVE  BlobTypeOK'
    <2>1. Collected(shelf[n], {c \in shelf[n].live : author[c] # g}) \in Shelf
      BY <1>1, ShelfTyped
    <2>2. shelf' \in [Node -> Shelf]
      BY <1>0, <1>5, <2>1 DEF Part
    <2>3. peers' \in [Node -> SUBSET Node]
      BY <1>0, <1>5 DEF Part
    <2> QED
      BY <1>0, <1>5, <2>2, <2>3 DEF Part, BlobTypeOK
  <1>6. ASSUME NEW n \in Node, NEW g \in Node, NEW c \in Content, ReceiveContent(n, g, c)
        PROVE  BlobTypeOK'
    <2>1. shelf' \in [Node -> Shelf]
      BY <1>0, <1>1, <1>6 DEF ReceiveContent, Shelf
    <2> QED
      BY <1>0, <1>6, <2>1 DEF ReceiveContent, BlobTypeOK
  <1>7. ASSUME NEW n \in Node, NEW g \in Node, NEW c \in Content, ReceiveDeletion(n, g, c)
        PROVE  BlobTypeOK'
    <2>1. Deleted(shelf[n], c) \in Shelf
      BY <1>1, DeletedTyped
    <2>4. shelf' \in [Node -> Shelf]
      BY <1>0, <1>7, <2>1 DEF ReceiveDeletion
    <2> QED
      BY <1>0, <1>7, <2>4 DEF ReceiveDeletion, BlobTypeOK
  <1>8. ASSUME NEW n \in Node, NEW g \in Node, Want(n, g) \/ Give(n, g) \/ Break(n, g)
        PROVE  BlobTypeOK'
    <2>1. [at |-> "asked", blobs |-> Missing(n)] \in Exchange
      BY MissingTyped DEF Exchange
    <2>2. \A S \in SUBSET Bytes : [at |-> "given", blobs |-> Given(S)] \in Exchange
      BY DEF Exchange, Given
    <2>3. exchange[<<n, g>>].blobs \intersect shelf[g].blobs \in SUBSET Bytes
      BY <1>0, <1>1 DEF Exchange
    <2>4. exchange' \in [Node \X Node -> Exchange]
      BY <1>0, <1>2, <1>8, <2>1, <2>2, <2>3 DEF Want, Give, Break
    <2> QED
      BY <1>0, <1>8, <2>4 DEF Want, Give, Break, BlobTypeOK
  <1>9. ASSUME NEW n \in Node, NEW g \in Node, Store(n, g)
        PROVE  BlobTypeOK'
    <2>1. exchange[<<n, g>>].blobs \in SUBSET Bytes
      BY <1>0 DEF Exchange
    <2>2. shelf' \in [Node -> Shelf]
      BY <1>0, <1>1, <1>9, <2>1 DEF Store, Shelf
    <2>3. exchange' \in [Node \X Node -> Exchange]
      BY <1>0, <1>2, <1>9 DEF Store
    <2> QED
      BY <1>0, <1>9, <2>2, <2>3 DEF Store, BlobTypeOK
  <1>10. CASE UNCHANGED blobVars
    BY <1>0, <1>10 DEF blobVars, BlobTypeOK
  <1> QED
    BY <1>3, <1>4, <1>5, <1>6, <1>7, <1>8, <1>9, <1>10 DEF BlobNext

\* What an author keeps is kept by whatever leaves its other messages where they are.
LEMMA KeptByAuthor ==
  ASSUME BlobTypeOK, OwnKept, NEW k \in Node, k # Nobody,
         NEW c \in Content, author[c] = k,
         NEW s \in Shelf,
         c \in s.live => c \in shelf[k].live,
         c \in shelf[k].live \union shelf[k].gone => c \in s.live \union s.gone,
         \/ shelf[k].blobs \subseteq s.blobs
         \/ s.blobs = shelf[k].blobs \intersect Referenced(s.live)
  PROVE  /\ c \in s.live \union s.gone
         /\ c \in s.live => Refs[c] \subseteq s.blobs
  <1>1. /\ c \in shelf[k].live \union shelf[k].gone
        /\ c \in shelf[k].live => Refs[c] \subseteq shelf[k].blobs
    BY DEF OwnKept
  <1>2. s.live \in SUBSET Content
    BY DEF Shelf
  <1>3. c \in s.live => Refs[c] \subseteq Referenced(s.live)
    BY <1>2, RefsReferenced
  <1> QED
    BY <1>1, <1>3

LEMMA OwnStaysKept == BlobTypeOK /\ OwnKept /\ [BlobNext]_blobVars => OwnKept'
  <1> SUFFICES ASSUME BlobTypeOK, OwnKept, [BlobNext]_blobVars,
                      NEW c \in Content, NEW k \in Node, author'[c] = k, k # Nobody
               PROVE  /\ c \in shelf'[k].live \union shelf'[k].gone
                      /\ c \in shelf'[k].live => Refs[c] \subseteq shelf'[k].blobs
    BY DEF OwnKept
  <1>0. /\ author \in [Content -> Node \union {Nobody}]
        /\ shelf \in [Node -> Shelf] /\ shelf[k] \in Shelf
        /\ shelf[k].live \in SUBSET Content
    BY DEF BlobTypeOK, Shelf
  <1>1. shelf'[k] \in Shelf
    BY BlobTypes DEF BlobTypeOK
  <1>2. ASSUME NEW n \in Node, NEW b \in Content, NEW cut \in BOOLEAN,
               ComposeContent(n, b, cut)
        PROVE  /\ c \in shelf'[k].live \union shelf'[k].gone
               /\ c \in shelf'[k].live => Refs[c] \subseteq shelf'[k].blobs
    <2>1. /\ author[b] = Nobody
          /\ author' = IF cut THEN author ELSE [author EXCEPT ![b] = n]
          /\ shelf' = [shelf EXCEPT ![n].blobs = @ \union Refs[b],
                                    ![n].live = IF cut THEN @ ELSE @ \union {b}]
      BY <1>2 DEF ComposeContent
    <2>2. /\ shelf'[k].gone = shelf[k].gone
          /\ shelf[k].blobs \subseteq shelf'[k].blobs
          /\ shelf'[k].live = IF k = n /\ ~cut THEN shelf[k].live \union {b} ELSE shelf[k].live
          /\ k = n => Refs[b] \subseteq shelf'[k].blobs
      BY <1>0, <2>1 DEF Shelf
    <2>3. CASE c = b
      <3>1. ~cut /\ k = n
        BY <1>0, <2>1, <2>3
      <3> QED
        BY <2>2, <2>3, <3>1
    <2>4. CASE c # b
      <3>1. author[c] = k
        BY <1>0, <2>1, <2>4
      <3> QED
        BY <1>1, <2>2, <2>4, <3>1, KeptByAuthor
    <2> QED
      BY <2>3, <2>4
  <1>3. ASSUME NEW n \in Node, NEW b \in Content,
               \/ DeleteContent(n, b)
               \/ \E g \in Node \ {n} : ReceiveDeletion(n, g, b)
        PROVE  /\ c \in shelf'[k].live \union shelf'[k].gone
               /\ c \in shelf'[k].live => Refs[c] \subseteq shelf'[k].blobs
    <2>1. /\ shelf' = [shelf EXCEPT ![n] = Deleted(@, b)] /\ author' = author
      BY <1>3 DEF DeleteContent, ReceiveDeletion
    <2>2. shelf'[k] = IF k = n THEN Deleted(shelf[k], b) ELSE shelf[k]
      BY <1>0, <2>1
    <2>3. CASE k # n
      BY <1>0, <2>1, <2>2, <2>3 DEF OwnKept
    <2>4. CASE k = n
      <3>1. /\ shelf'[k].live = shelf[k].live \ {b}
            /\ shelf'[k].gone = shelf[k].gone \union {b}
            /\ \/ shelf'[k].blobs = shelf[k].blobs
               \/ shelf'[k].blobs = shelf[k].blobs \intersect Referenced(shelf'[k].live)
        <4> DEFINE s == Deleted(shelf[k], b)
        <4>1. /\ s.live = shelf[k].live \ {b} /\ s.gone = shelf[k].gone \union {b}
              /\ \/ s.blobs = shelf[k].blobs
                 \/ s.blobs = shelf[k].blobs \intersect Referenced(s.live)
          <5>1. /\ s.live = shelf[k].live \ {b} /\ s.gone = shelf[k].gone \union {b}
                /\ \/ s.blobs = shelf[k].blobs
                   \/ s.blobs = shelf[k].blobs \intersect Referenced(shelf[k].live \ {b})
            BY <1>0, DeletedTyped
          <5> HIDE DEF s
          <5> QED
            BY <5>1
        <4>2. shelf'[k] = s
          BY <2>2, <2>4
        <4> HIDE DEF s
        <4> QED
          BY <4>1, <4>2
      <3>2. author[c] = k
        BY <2>1
      <3> QED
        BY <1>1, <3>1, <3>2, KeptByAuthor
    <2> QED
      BY <2>3, <2>4
  <1>4. ASSUME NEW n \in Node, NEW g \in Node \ {n}, Part(n, g)
        PROVE  /\ c \in shelf'[k].live \union shelf'[k].gone
               /\ c \in shelf'[k].live => Refs[c] \subseteq shelf'[k].blobs
    <2> DEFINE live == {b \in shelf[n].live : author[b] # g}
    <2>1. shelf' = [shelf EXCEPT ![n] = Collected(@, live)] /\ author' = author
      BY <1>4 DEF Part
    <2>2. shelf'[k] = IF k = n THEN Collected(shelf[k], live) ELSE shelf[k]
      BY <1>0, <2>1
    <2>3. CASE k # n
      BY <1>0, <2>1, <2>2, <2>3 DEF OwnKept
    <2>4. CASE k = n
      <3>1. live \in SUBSET Content
        BY <1>0, <2>4
      <3>2. /\ shelf'[k].live = live /\ shelf'[k].gone = shelf[k].gone
            /\ shelf'[k].blobs = shelf[k].blobs \intersect Referenced(live)
        <4> HIDE DEF live
        <4> QED
          BY <1>0, <2>2, <2>4, <3>1, ShelfTyped
      <3>3. author[c] = k /\ k # g
        BY <2>1, <2>4
      <3>4. c \in shelf[k].live <=> c \in live
        BY <2>4, <3>3
      <3> HIDE DEF live
      <3> QED
        BY <1>1, <3>2, <3>3, <3>4, KeptByAuthor
    <2> QED
      BY <2>3, <2>4
  <1>5. ASSUME NEW n \in Node, NEW g \in Node, NEW b \in Content, ReceiveContent(n, g, b)
        PROVE  /\ c \in shelf'[k].live \union shelf'[k].gone
               /\ c \in shelf'[k].live => Refs[c] \subseteq shelf'[k].blobs
    <2>1. /\ b \notin shelf[n].live \union shelf[n].gone
          /\ shelf' = [shelf EXCEPT ![n].live = @ \union {b}] /\ author' = author
      BY <1>5 DEF ReceiveContent
    <2>2. /\ shelf'[k].gone = shelf[k].gone /\ shelf'[k].blobs = shelf[k].blobs
          /\ shelf'[k].live = IF k = n THEN shelf[k].live \union {b} ELSE shelf[k].live
      BY <1>0, <2>1 DEF Shelf
    <2>3. ~(c = b /\ k = n)
      BY <1>0, <2>1 DEF OwnKept
    <2>4. author[c] = k
      BY <2>1
    <2> QED
      BY <1>1, <2>2, <2>3, <2>4, KeptByAuthor
  <1>6. ASSUME NEW n \in Node, NEW g \in Node,
               Want(n, g) \/ Give(n, g) \/ Break(n, g)
        PROVE  shelf' = shelf /\ author' = author
    BY <1>6 DEF Want, Give, Break
  <1>7. ASSUME NEW n \in Node, NEW g \in Node, Store(n, g)
        PROVE  /\ c \in shelf'[k].live \union shelf'[k].gone
               /\ c \in shelf'[k].live => Refs[c] \subseteq shelf'[k].blobs
    <2>1. /\ shelf' = [shelf EXCEPT ![n].blobs = @ \union exchange[<<n, g>>].blobs]
          /\ author' = author
      BY <1>7 DEF Store
    <2>2. /\ shelf'[k].gone = shelf[k].gone /\ shelf'[k].live = shelf[k].live
          /\ shelf[k].blobs \subseteq shelf'[k].blobs
      BY <1>0, <2>1 DEF Shelf
    <2>3. author[c] = k
      BY <2>1
    <2> QED
      BY <1>1, <2>2, <2>3, KeptByAuthor
  <1>8. ASSUME shelf' = shelf, author' = author
        PROVE  /\ c \in shelf'[k].live \union shelf'[k].gone
               /\ c \in shelf'[k].live => Refs[c] \subseteq shelf'[k].blobs
    BY <1>8 DEF OwnKept
  <1>9. CASE UNCHANGED blobVars
    BY <1>8, <1>9 DEF blobVars
  <1> QED
    BY <1>2, <1>3, <1>4, <1>5, <1>6, <1>7, <1>8, <1>9 DEF BlobNext

\* Whatever is composed, deleted, received, collected or given in between, the author
\* of a message keeps its bytes as long as the message, and never gets the message back
\* once it deleted it (store.py:1261).
THEOREM BlobInvariance == BlobSpec => []BlobInv
  <1>1. BlobInit => BlobInv
    BY DEF BlobInit, BlobInv, BlobTypeOK, OwnKept, Shelf, Exchange, NoExchange
  <1>2. BlobInv /\ [BlobNext]_blobVars => BlobInv'
    BY BlobTypes, OwnStaysKept DEF BlobInv
  <1> QED
    BY <1>1, <1>2, PTL DEF BlobSpec
----------------------------------------------------------------------------
\* A session that has something to give gives something: the first in the order.
LEMMA SomethingIsGiven ==
  ASSUME NEW wanted \in SUBSET Bytes, wanted # {}
  PROVE  Given(wanted) # {}
  <1>0. \A b \in Bytes : b \in Nat /\ Size[b] \in Nat
    BY BlobAssumption
  <1> DEFINE T == {Size[b] : b \in wanted}
  <1>1. T \in SUBSET Nat /\ T # {}
    BY <1>0
  <1>2. PICK b0 \in wanted : \A b \in wanted : Size[b0] <= Size[b]
    <2>1. \E x \in T : \A y \in T : x <= y
      <3> HIDE DEF T
      <3> QED
        BY <1>1, LeastNatural
    <2> QED
      BY <2>1
  <1> DEFINE S == {b \in wanted : Size[b] = Size[b0]}
  <1>3. S \in SUBSET Nat /\ S # {}
    BY <1>0
  <1>4. PICK s \in S : \A b \in S : s <= b
    <2> HIDE DEF S
    <2> QED
      BY <1>3, LeastNatural
  <1>5. ASSUME NEW b \in wanted PROVE Ahead(s, b)
    <2>1. /\ Size[b] \in Nat /\ Size[b0] \in Nat /\ Size[b0] <= Size[b]
          /\ Size[s] = Size[b0] /\ (Size[b] = Size[b0] => s <= b)
      BY <1>0, <1>2, <1>4
    <2> QED
      BY <2>1 DEF Ahead
  <1> QED
    BY <1>5 DEF Given

\* The author of a message has all of its bytes, and once sessions with the author have
\* nothing more to give, so has everybody else who holds it: the budget of a session
\* delays bytes and withholds none, and no collection takes what a message that stays
\* refers to (sync.py:795-822, store.py:1261).
THEOREM BytesReachTheHolders == BlobSpec => []BytesFollow
  <1>1. BlobInv => BytesFollow
    <2> SUFFICES ASSUME BlobInv, NEW c \in Content, NEW n \in Node,
                        c \in shelf[n].live, author[c] # Nobody
                 PROVE  \/ n = author[c] /\ Refs[c] \subseteq shelf[n].blobs
                        \/ /\ n # author[c]
                           /\ (/\ LinkedPeers(n, author[c]) /\ Exhausted(n, author[c])
                               /\ c \in shelf[author[c]].live)
                                => Refs[c] \subseteq shelf[n].blobs
      BY DEF BytesFollow
    <2>0. BlobTypeOK /\ OwnKept
      BY DEF BlobInv
    <2>1. CASE n = author[c]
      BY <2>0, <2>1 DEF OwnKept
    <2>2. CASE n # author[c]
      <3> DEFINE a == author[c]
      <3> SUFFICES ASSUME Exhausted(n, a), c \in shelf[a].live,
                          NEW b \in Refs[c], b \notin shelf[n].blobs
                   PROVE  FALSE
        BY <2>2
      <3>1. a \in Node
        BY <2>0 DEF BlobTypeOK
      <3>2. b \in shelf[a].blobs
        BY <2>0, <3>1 DEF OwnKept
      <3>3. b \in Missing(n)
        BY <2>0, RefsReferenced DEF Missing, BlobTypeOK, Shelf
      <3>4. Missing(n) \intersect shelf[a].blobs \in SUBSET Bytes
        BY <2>0, MissingTyped
      <3> HIDE DEF a
      <3> QED
        BY <3>2, <3>3, <3>4, SomethingIsGiven DEF Exhausted
    <2> QED
      BY <2>1, <2>2
  <1> QED
    BY <1>1, BlobInvariance, PTL
----------------------------------------------------------------------------
(***************************************************************************)
(* The canvas.  A block comes to rest below what is in its way, a gap is a *)
(* place where nothing lies, and each of the three ways of placing several *)
(* blocks adds them one by one: what results is without overlap, or it is  *)
(* full and is never published.                                            *)
(***************************************************************************)
\* A place within the columns, of a size that a block may have.
Box ==
  {g \in [x : Nat, y : Nat, w : 1..Cols, h : 1..MaxHeight] :
     g.x + g.w <= Cols /\ SizeOf(g) \in AllSizes}

Apart(pins) ==
  \A b \in DOMAIN pins, c \in DOMAIN pins : b # c => ~Overlap(pins[b], pins[c])

Canvas == {pins \in On(Block, Box) : Full(pins) \/ Apart(pins)}

LEMMA SizesFit ==
  /\ AllSizes \subseteq [w : 1..Cols, h : 1..MaxHeight]
  /\ TextSize \in AllSizes /\ \A b : DefaultSize(b) \in AllSizes
  <1>1. {2, 4} \subseteq 1..Cols /\ {1, 2} \subseteq 1..MaxHeight
    BY WallAssumption
  <1>2. {PhotoSize, TextSize} \subseteq [w : 1..Cols, h : 1..MaxHeight]
    BY <1>1 DEF PhotoSize, TextSize
  <1> QED
    BY <1>2, WallAssumption DEF AllSizes, DefaultSize

LEMMA OnFacts ==
  ASSUME NEW V, NEW f
  PROVE  f \in On(Block, V) <=> /\ DOMAIN f \subseteq Block
                                /\ f = [b \in DOMAIN f |-> f[b]]
                                /\ \A b \in DOMAIN f : f[b] \in V
  <1>1. ASSUME f \in On(Block, V)
        PROVE  /\ DOMAIN f \subseteq Block
               /\ f = [b \in DOMAIN f |-> f[b]]
               /\ \A b \in DOMAIN f : f[b] \in V
    <2>1. PICK S \in SUBSET Block : f \in [S -> V]
      BY <1>1 DEF On
    <2> QED
      BY <2>1
  <1>2. ASSUME DOMAIN f \subseteq Block, f = [b \in DOMAIN f |-> f[b]],
               \A b \in DOMAIN f : f[b] \in V
        PROVE  f \in On(Block, V)
    <2>1. f \in [DOMAIN f -> V]
      BY <1>2
    <2> QED
      BY <1>2, <2>1 DEF On
  <1> QED
    BY <1>1, <1>2

LEMMA PlacedOn ==
  ASSUME NEW V, NEW f \in On(Block, V), NEW b \in Block, NEW v \in V
  PROVE  Placed(f, b, v) \in On(Block, V)
  <1>1. DOMAIN f \subseteq Block /\ \A c \in DOMAIN f : f[c] \in V
    BY OnFacts
  <1>2. Placed(f, b, v) \in [DOMAIN f \union {b} -> V]
    BY <1>1 DEF Placed
  <1> QED
    BY <1>1, <1>2 DEF On

LEMMA WithoutOn ==
  ASSUME NEW V, NEW f \in On(Block, V), NEW S
  PROVE  /\ Without(f, S) \in On(Block, V)
         /\ DOMAIN Without(f, S) = DOMAIN f \ S
         /\ \A c \in DOMAIN f \ S : Without(f, S)[c] = f[c]
  <1>1. DOMAIN f \subseteq Block /\ \A c \in DOMAIN f : f[c] \in V
    BY OnFacts
  <1>2. Without(f, S) \in [DOMAIN f \ S -> V]
    BY <1>1 DEF Without
  <1> QED
    BY <1>1, <1>2 DEF On, Without

LEMMA CanvasWithout ==
  ASSUME NEW pins \in Canvas, ~Full(pins), NEW S
  PROVE  Without(pins, S) \in Canvas /\ ~Full(Without(pins, S))
  <1>1. /\ Without(pins, S) \in On(Block, Box)
        /\ DOMAIN Without(pins, S) = DOMAIN pins \ S
        /\ \A c \in DOMAIN pins \ S : Without(pins, S)[c] = pins[c]
    BY WithoutOn DEF Canvas
  <1>2. Apart(pins)
    BY DEF Canvas
  <1>3. Apart(Without(pins, S))
    BY <1>1, <1>2 DEF Apart
  <1>4. ~Full(Without(pins, S))
    BY <1>1 DEF Full
  <1> QED
    BY <1>1, <1>3, <1>4 DEF Canvas

\* A block may be placed where no other lies.
LEMMA CanvasPlaced ==
  ASSUME NEW pins \in Canvas, ~Full(pins), NEW b \in Block, NEW g \in Box,
         \A c \in DOMAIN pins \ {b} : ~Overlap(g, pins[c])
  PROVE  Placed(pins, b, g) \in Canvas
  <1> DEFINE p == Placed(pins, b, g)
  <1>1. /\ p \in On(Block, Box) /\ DOMAIN p = DOMAIN pins \union {b}
        /\ \A c \in DOMAIN pins \union {b} : p[c] = IF c = b THEN g ELSE pins[c]
    <2>1. pins \in On(Block, Box)
      BY DEF Canvas
    <2>2. p \in On(Block, Box)
      BY <2>1, PlacedOn
    <2>3. p = [c \in DOMAIN pins \union {b} |-> IF c = b THEN g ELSE pins[c]]
      BY DEF Placed
    <2> HIDE DEF p
    <2> QED
      BY <2>2, <2>3
  <1>2. Apart(pins)
    BY DEF Canvas
  <1>3. \A c \in DOMAIN pins \ {b} : ~Overlap(pins[c], g)
    BY DEF Overlap
  <1> HIDE DEF p
  <1>4. ASSUME NEW c \in DOMAIN p, NEW e \in DOMAIN p, c # e
        PROVE  ~Overlap(p[c], p[e])
    <2>1. CASE c = b
      BY <1>1, <1>4, <2>1
    <2>2. CASE e = b
      BY <1>1, <1>3, <1>4, <2>2
    <2>3. CASE c # b /\ e # b
      BY <1>1, <1>2, <1>4, <2>3 DEF Apart
    <2> QED
      BY <2>1, <2>2, <2>3
  <1> QED
    BY <1>1, <1>4 DEF p, Canvas, Apart

\* The bump loop ends, where nothing lies.
LEMMA RestedFacts ==
  ASSUME NEW pins \in Canvas, ~Full(pins), NEW g \in Box, g.y <= MaxRow
  PROVE  /\ Rested(g, pins) \in Box
         /\ \A b \in DOMAIN pins : ~Overlap(Rested(g, pins), pins[b])
  <1> DEFINE at(y) == [g EXCEPT !.y = y]
             free == {y \in g.y..(MaxRow + MaxHeight) :
                        \A b \in DOMAIN pins : ~Overlap(at(y), pins[b])}
             low == MaxRow + MaxHeight
  <1>1. g \in [x : Nat, y : Nat, w : 1..Cols, h : 1..MaxHeight]
    BY DEF Box
  <1>2. \A b \in DOMAIN pins : pins[b] \in Box /\ pins[b].y <= MaxRow
    <2>1. \A b \in DOMAIN pins : pins[b] \in Box
      BY OnFacts DEF Canvas
    <2> QED
      BY <2>1, WallAssumption DEF Full, Box
  <1>3. low \in free
    <2>1. low \in g.y..(MaxRow + MaxHeight)
      BY <1>1, WallAssumption
    <2>2. at(low).y = low
      BY <1>1
    <2>3. ASSUME NEW b \in DOMAIN pins PROVE ~Overlap(at(low), pins[b])
      <3>1. pins[b].y \in Nat /\ pins[b].h \in Nat /\ pins[b].y + pins[b].h <= low
        BY <1>2, WallAssumption DEF Box
      <3>2. ~(low < pins[b].y + pins[b].h)
        BY <3>1, WallAssumption
      <3> QED
        BY <2>2, <3>2 DEF Overlap
    <2> QED
      BY <2>1, <2>3
  <1>4. free \in SUBSET Nat
    BY <1>1, WallAssumption
  <1>5. \E y \in free : \A z \in free : y <= z
    <2> HIDE DEF free
    <2> QED
      BY <1>3, <1>4, LeastNatural
  <1> DEFINE r == CHOOSE y \in free : \A z \in free : y <= z
  <1>6. r \in free
    <2> HIDE DEF free
    <2> QED
      BY <1>5
  <1>7. Rested(g, pins) = at(r)
    BY Zenon DEF Rested
  <1>8. r \in Nat
    <2> HIDE DEF free, r
    <2> QED
      BY <1>4, <1>6
  <1>9. \A b \in DOMAIN pins : ~Overlap(at(r), pins[b])
    <2> HIDE DEF r, at
    <2> QED
      BY <1>6
  <1>10. at(r) \in Box
    <2> HIDE DEF r
    <2>1. at(r) \in [x : Nat, y : Nat, w : 1..Cols, h : 1..MaxHeight]
      BY <1>1, <1>8
    <2>2. at(r).x = g.x /\ at(r).w = g.w /\ at(r).h = g.h
      BY <1>1
    <2> HIDE DEF at
    <2> QED
      BY <2>1, <2>2 DEF Box, SizeOf
  <1> QED
    BY <1>7, <1>9, <1>10

\* A block goes to the first gap, if there is one: nothing moves, nothing overlaps.
LEMMA FirstFitFacts ==
  ASSUME NEW pins \in Canvas, ~Full(pins), NEW b \in Block, NEW s \in AllSizes,
         Gaps(pins, b, s) # {}
  PROVE  FirstFit(pins, b, s) \in Canvas /\ ~Full(FirstFit(pins, b, s))
  <1> DEFINE gaps == Gaps(pins, b, s)
             first(g) == \A h \in gaps : g = h \/ Above(g, h)
  <1>1. s \in [w : 1..Cols, h : 1..MaxHeight]
    BY SizesFit
  <1>2. \A g \in gaps : /\ g.x \in Nat /\ g.y \in 0..MaxRow /\ g.x + s.w <= Cols
                        /\ g = At(s, g.x, g.y)
                        /\ \A c \in DOMAIN pins \ {b} : ~Overlap(g, pins[c])
    BY <1>1, WallAssumption DEF Gaps, At
  <1> HIDE DEF gaps
  <1>3. \E g \in gaps : first(g)
    <2> DEFINE ys == {g.y : g \in gaps}
    <2>1. ys \in SUBSET Nat /\ ys # {}
      BY <1>2 DEF gaps
    <2>2. PICK y \in ys : \A z \in ys : y <= z
      <3> HIDE DEF ys
      <3> QED
        BY <2>1, LeastNatural
    <2> DEFINE xs == {g.x : g \in {h \in gaps : h.y = y}}
    <2>3. xs \in SUBSET Nat /\ xs # {}
      BY <1>2
    <2>4. PICK x \in xs : \A z \in xs : x <= z
      <3> HIDE DEF xs
      <3> QED
        BY <2>3, LeastNatural
    <2>5. PICK g \in gaps : g.y = y /\ g.x = x
      OBVIOUS
    <2>6. ASSUME NEW h \in gaps PROVE g = h \/ Above(g, h)
      <3>1. g.y <= h.y /\ (h.y = g.y => g.x <= h.x)
        BY <2>2, <2>4, <2>5
      <3>2. g.y \in Nat /\ h.y \in Nat /\ g.x \in Nat /\ h.x \in Nat
        BY <1>2
      <3>3. CASE g.y = h.y /\ g.x = h.x
        BY <1>2, <3>3
      <3> QED
        BY <3>1, <3>2, <3>3 DEF Above
    <2> QED
      BY <2>6
  <1> DEFINE g == CHOOSE h \in gaps : first(h)
  <1>4. g \in gaps
    <2> HIDE DEF first
    <2> QED
      BY <1>3
  <1>5. FirstFit(pins, b, s) = Placed(pins, b, g)
    BY Zenon DEF FirstFit, gaps
  <1> HIDE DEF g
  <1>6. g \in Box /\ g.y <= MaxRow
    <2>1. g = At(s, g.x, g.y) /\ g.x \in Nat /\ g.y \in 0..MaxRow /\ g.x + s.w <= Cols
      BY <1>2, <1>4
    <2>2. SizeOf(At(s, g.x, g.y)) = s
      BY <1>1 DEF SizeOf, At
    <2>3. At(s, g.x, g.y) \in [x : Nat, y : Nat, w : 1..Cols, h : 1..MaxHeight]
      BY <1>1, <2>1, WallAssumption DEF At
    <2>4. At(s, g.x, g.y).w = s.w
      BY DEF At
    <2> QED
      BY <2>1, <2>2, <2>3, <2>4, WallAssumption DEF Box
  <1>7. Placed(pins, b, g) \in Canvas
    BY <1>2, <1>4, <1>6, CanvasPlaced
  <1>8. ~Full(Placed(pins, b, g))
    <2>1. \A c \in DOMAIN pins : ~(pins[c].y > MaxRow)
      BY DEF Full
    <2>2. ~(g.y > MaxRow)
      BY <1>6, WallAssumption DEF Box
    <2> QED
      BY <2>1, <2>2 DEF Full, Placed
  <1> QED
    BY <1>5, <1>7, <1>8

LEMMA BlocksFinite == \A S \in SUBSET Block : IsFiniteSet(S)
  BY WallAssumption, FS_Union, FS_Subset DEF Block

Lowest(pins, S) == CHOOSE c \in S : \A e \in S : ~Above(pins[c], pins[e])

LEMMA SomeBlockIsLowest ==
  ASSUME NEW pins \in Canvas, ~Full(pins), NEW S \in SUBSET DOMAIN pins, S # {}
  PROVE  Lowest(pins, S) \in S
  <1>1. \A c \in S : pins[c] \in Box /\ pins[c].y \in 0..MaxRow /\ pins[c].x \in 0..Cols
    <2>1. \A c \in S : pins[c] \in Box
      BY OnFacts DEF Canvas
    <2> QED
      BY <2>1, WallAssumption DEF Full, Box
  <1> DEFINE ys == {pins[c].y : c \in S}
  <1>2. ys \in SUBSET (0..MaxRow) /\ ys # {}
    BY <1>1
  <1>3. PICK y \in ys : \A z \in ys : z <= y
    <2> HIDE DEF ys
    <2> QED
      BY <1>2, GreatestNatural, WallAssumption
  <1> DEFINE xs == {pins[c].x : c \in {e \in S : pins[e].y = y}}
  <1>4. xs \in SUBSET (0..Cols) /\ xs # {}
    BY <1>1
  <1>5. PICK x \in xs : \A z \in xs : z <= x
    <2> HIDE DEF xs
    <2> QED
      BY <1>4, GreatestNatural, WallAssumption
  <1>6. PICK c \in S : pins[c].y = y /\ pins[c].x = x
    OBVIOUS
  <1>7. ASSUME NEW e \in S PROVE ~Above(pins[c], pins[e])
    <2>1. pins[e].y <= pins[c].y /\ (pins[e].y = pins[c].y => pins[e].x <= pins[c].x)
      BY <1>3, <1>5, <1>6
    <2>2. pins[e].y \in Int /\ pins[c].y \in Int /\ pins[e].x \in Int /\ pins[c].x \in Int
      BY <1>1
    <2> QED
      BY <2>1, <2>2 DEF Above
  <1>8. \E a \in S : \A e \in S : ~Above(pins[a], pins[e])
    BY <1>7
  <1> QED
    BY <1>8 DEF Lowest

\* One more block pushed below the others.
Pushed(pins, S, before) ==
  IF Full(before) THEN before
  ELSE Placed(before, Lowest(pins, S), Rested(pins[Lowest(pins, S)], before))

PushesTo(f, pins, b, g) ==
  f = [S \in SUBSET (DOMAIN pins \ {b}) |->
         IF S = {} THEN [c \in {b} |-> g] ELSE Pushed(pins, S, f[S \ {Lowest(pins, S)}])]

LEMMA PushedKeeps ==
  ASSUME NEW pins \in Canvas, ~Full(pins), NEW S \in SUBSET DOMAIN pins, S # {},
         NEW before \in Canvas
  PROVE  Pushed(pins, S, before) \in Canvas
  <1> DEFINE c == Lowest(pins, S)
  <1>1. c \in DOMAIN pins
    BY SomeBlockIsLowest
  <1>2. c \in Block /\ pins[c] \in Box /\ pins[c].y <= MaxRow
    <2>1. c \in Block /\ pins[c] \in Box
      BY <1>1, OnFacts DEF Canvas
    <2> QED
      BY <1>1, <2>1, WallAssumption DEF Full, Box
  <1>3. ASSUME ~Full(before)
        PROVE  Placed(before, c, Rested(pins[c], before)) \in Canvas
    <2>1. /\ Rested(pins[c], before) \in Box
          /\ \A e \in DOMAIN before : ~Overlap(Rested(pins[c], before), before[e])
      BY <1>2, <1>3, RestedFacts
    <2> HIDE DEF c
    <2> QED
      BY <1>2, <1>3, <2>1, CanvasPlaced
  <1> QED
    BY <1>3 DEF Pushed

LEMMA PushStarts ==
  ASSUME NEW b \in Block, NEW g \in Box
  PROVE  [c \in {b} |-> g] \in Canvas
  <1>1. [c \in {b} |-> g] \in On(Block, Box)
    <2>1. {b} \in SUBSET Block /\ [c \in {b} |-> g] \in [{b} -> Box]
      OBVIOUS
    <2> QED
      BY <2>1 DEF On
  <1> QED
    BY <1>1 DEF Canvas, Apart

LEMMA PushIsDefined ==
  ASSUME NEW pins \in Canvas, ~Full(pins), NEW b \in Block, NEW g \in Box
  PROVE  \E f : PushesTo(f, pins, b, g)
  <1> DEFINE rest == DOMAIN pins \ {b}
             last == [S \in SUBSET rest |-> Lowest(pins, S)]
             step == [sv \in ((SUBSET rest) \X Canvas) |->
                        IF sv[1] = {} THEN sv[2] ELSE Pushed(pins, sv[1], sv[2])]
             base == [c \in {b} |-> g]
  <1>1. IsFiniteSet(rest)
    BY BlocksFinite, OnFacts DEF Canvas
  <1>2. base \in Canvas
    BY PushStarts
  <1>3. \A S \in SUBSET rest : S # {} => last[S] \in S
    BY SomeBlockIsLowest
  <1>4. step \in [(SUBSET rest) \X Canvas -> Canvas]
    BY PushedKeeps
  <1>5. PICK f \in [SUBSET rest -> Canvas] : BuiltUp(f, rest, base, last, step)
    <2> HIDE DEF rest, last, step, base
    <2> QED
      BY <1>1, <1>2, <1>3, <1>4, SubsetFold
  <1>6. ASSUME NEW S \in SUBSET rest
        PROVE  f[S] = IF S = {} THEN base ELSE Pushed(pins, S, f[S \ {Lowest(pins, S)}])
    <2>1. f[S \ {last[S]}] \in Canvas
      BY <1>5
    <2>2. S # {} => step[<<S, f[S \ {last[S]}]>>] = Pushed(pins, S, f[S \ {last[S]}])
      BY <2>1
    <2>3. last[S] = Lowest(pins, S)
      OBVIOUS
    <2> HIDE DEF last, step, base
    <2> QED
      BY <1>5, <2>2, <2>3 DEF BuiltUp
  <1>7. f = [S \in SUBSET rest |->
               IF S = {} THEN base ELSE Pushed(pins, S, f[S \ {Lowest(pins, S)}])]
    <2> HIDE DEF rest, base, last, step
    <2> QED
      BY <1>5, <1>6
  <1> QED
    BY Zenon, <1>7 DEF PushesTo

\* Whatever is pushed where, the blocks end up apart, or the wall is full.
LEMMA PushPlaceFacts ==
  ASSUME NEW pins \in Canvas, ~Full(pins), NEW b \in Block, NEW g \in Box
  PROVE  PushPlace(pins, b, g) \in Canvas
  <1> DEFINE rest == DOMAIN pins \ {b}
             f == CHOOSE h : PushesTo(h, pins, b, g)
  <1>1. PushesTo(f, pins, b, g)
    BY Zenon, PushIsDefined
  <1>2. PushPlace(pins, b, g) = f[rest]
    BY Zenon DEF PushPlace, PushesTo, Pushed, Lowest
  <1> HIDE DEF f
  <1>3. \A S \in SUBSET rest :
          f[S] = IF S = {} THEN [c \in {b} |-> g]
                 ELSE Pushed(pins, S, f[S \ {Lowest(pins, S)}])
    BY Zenon, <1>1 DEF PushesTo
  <1> DEFINE P == {S \in SUBSET rest : f[S] \in Canvas}
  <1>4. {} \in P
    BY <1>3, PushStarts
  <1>5. ASSUME NEW S \in SUBSET rest, S # {}
        PROVE  \E c \in S : (S \ {c} \in P => S \in P)
    <2>1. Lowest(pins, S) \in S
      BY <1>5, SomeBlockIsLowest
    <2>2. ASSUME S \ {Lowest(pins, S)} \in P PROVE f[S] \in Canvas
      BY <1>3, <1>5, <2>2, PushedKeeps
    <2> QED
      BY <2>1, <2>2
  <1>6. IsFiniteSet(rest)
    BY BlocksFinite, OnFacts DEF Canvas
  <1>7. rest \in P
    <2> HIDE DEF P, rest
    <2> QED
      BY <1>4, <1>5, <1>6, SubsetInduction
  <1> QED
    BY <1>2, <1>7

\* What the size and the age of a block rest on.
Dated(d) == /\ made \in [Post -> 0..MaxEdits] /\ Shown(d) \subseteq Post
            /\ Spans(d) \in On(Block, AllSizes)

Oldest(d, S) == CHOOSE p \in S : \A q \in S : Created(d, p) <= Created(d, q)

LEMMA OldestFacts ==
  ASSUME NEW d, Dated(d), NEW S \in SUBSET Photo, S # {}
  PROVE  Oldest(d, S) \in S
  <1> DEFINE T == {Created(d, p) : p \in S}
  <1>1. T \in SUBSET Nat /\ T # {}
    BY WallAssumption DEF Created, Dated
  <1>2. PICK t \in T : \A u \in T : t <= u
    <2> HIDE DEF T
    <2> QED
      BY <1>1, LeastNatural
  <1>3. \E p \in S : \A q \in S : Created(d, p) <= Created(d, q)
    BY <1>2
  <1> QED
    BY <1>3 DEF Oldest

LEMMA KeptSizeFits ==
  ASSUME NEW d, Dated(d), NEW p
  PROVE  KeptSize(d, p) \in AllSizes
  BY SizesFit, OnFacts DEF KeptSize, Dated

\* One more member put back.
PutBack(d, S, before) ==
  IF Full(before) THEN before
  ELSE IF Gaps(before, Oldest(d, S), KeptSize(d, Oldest(d, S))) = {}
  THEN Placed(before, Oldest(d, S), At(KeptSize(d, Oldest(d, S)), 0, MaxRow + 1))
  ELSE FirstFit(before, Oldest(d, S), KeptSize(d, Oldest(d, S)))

RestoresTo(f, d, members, pins) ==
  f = [S \in SUBSET members |-> IF S = {} THEN pins
                                ELSE PutBack(d, S, f[S \ {Oldest(d, S)}])]

\* A place for a block of size s, at a row that may be too low.
LEMMA BoxAt ==
  ASSUME NEW s \in AllSizes, NEW y \in Nat
  PROVE  At(s, 0, y) \in Box
  <1>1. s \in [w : 1..Cols, h : 1..MaxHeight]
    BY SizesFit
  <1>2. SizeOf(At(s, 0, y)) = s
    BY <1>1 DEF SizeOf, At
  <1>3. At(s, 0, y) \in [x : Nat, y : Nat, w : 1..Cols, h : 1..MaxHeight]
    BY <1>1 DEF At
  <1>4. At(s, 0, y).x + At(s, 0, y).w <= Cols
    BY <1>1, WallAssumption DEF At
  <1> QED
    BY <1>2, <1>3, <1>4 DEF Box

LEMMA PutBackKeeps ==
  ASSUME NEW d, Dated(d), NEW S \in SUBSET Photo, S # {}, NEW before \in Canvas
  PROVE  PutBack(d, S, before) \in Canvas
  <1> DEFINE p == Oldest(d, S)
             s == KeptSize(d, p)
             low == At(s, 0, MaxRow + 1)
  <1>1. p \in Block /\ s \in AllSizes
    BY OldestFacts, KeptSizeFits, WallAssumption DEF Block
  <1>2. ASSUME ~Full(before), Gaps(before, p, s) # {}
        PROVE  FirstFit(before, p, s) \in Canvas
    <2> HIDE DEF p, s
    <2> QED
      BY <1>1, <1>2, FirstFitFacts
  <1>3. Placed(before, p, low) \in Canvas
    <2>1. low \in Box /\ low.y > MaxRow
      <3> HIDE DEF s
      <3>1. low \in Box
        BY <1>1, BoxAt, WallAssumption
      <3> QED
        BY <3>1, WallAssumption DEF At
    <2>2. before \in On(Block, Box)
      BY DEF Canvas
    <2> HIDE DEF p, low
    <2>3. Placed(before, p, low) \in On(Block, Box)
      BY <1>1, <2>1, <2>2, PlacedOn
    <2>4. Full(Placed(before, p, low))
      BY <2>1 DEF Full, Placed
    <2> QED
      BY <2>3, <2>4 DEF Canvas
  <1> QED
    BY <1>2, <1>3 DEF PutBack

LEMMA RestoringIsDefined ==
  ASSUME NEW d, Dated(d), NEW members \in SUBSET Photo, NEW pins \in Canvas
  PROVE  \E f : RestoresTo(f, d, members, pins)
  <1> DEFINE last == [S \in SUBSET members |-> Oldest(d, S)]
             step == [sv \in ((SUBSET members) \X Canvas) |->
                        IF sv[1] = {} THEN sv[2] ELSE PutBack(d, sv[1], sv[2])]
  <1>1. IsFiniteSet(members)
    BY BlocksFinite, WallAssumption DEF Block
  <1>2. \A S \in SUBSET members : S # {} => last[S] \in S
    BY OldestFacts
  <1>3. step \in [(SUBSET members) \X Canvas -> Canvas]
    BY PutBackKeeps
  <1>4. PICK f \in [SUBSET members -> Canvas] : BuiltUp(f, members, pins, last, step)
    <2> HIDE DEF last, step
    <2> QED
      BY <1>1, <1>2, <1>3, SubsetFold
  <1>5. ASSUME NEW S \in SUBSET members
        PROVE  f[S] = IF S = {} THEN pins ELSE PutBack(d, S, f[S \ {Oldest(d, S)}])
    <2>1. f[S \ {last[S]}] \in Canvas
      BY <1>4
    <2>2. S # {} => step[<<S, f[S \ {last[S]}]>>] = PutBack(d, S, f[S \ {last[S]}])
      BY <2>1
    <2>3. last[S] = Oldest(d, S)
      OBVIOUS
    <2> HIDE DEF last, step
    <2> QED
      BY <1>4, <2>2, <2>3 DEF BuiltUp
  <1>6. f = [S \in SUBSET members |->
               IF S = {} THEN pins ELSE PutBack(d, S, f[S \ {Oldest(d, S)}])]
    <2> HIDE DEF last, step
    <2> QED
      BY <1>4, <1>5
  <1> QED
    BY Zenon, <1>6 DEF RestoresTo

\* The members of an album that is ungrouped find a place each, or the wall is full.
LEMMA RestoredFacts ==
  ASSUME NEW d, Dated(d), NEW members \in SUBSET Photo, NEW pins \in Canvas
  PROVE  Restored(d, members, pins) \in Canvas
  <1> DEFINE f == CHOOSE h : RestoresTo(h, d, members, pins)
  <1>1. RestoresTo(f, d, members, pins)
    BY Zenon, RestoringIsDefined
  <1>2. Restored(d, members, pins) = f[members]
    BY Zenon DEF Restored, RestoresTo, PutBack, Oldest
  <1> HIDE DEF f
  <1>3. \A S \in SUBSET members :
          f[S] = IF S = {} THEN pins ELSE PutBack(d, S, f[S \ {Oldest(d, S)}])
    BY Zenon, <1>1 DEF RestoresTo
  <1> DEFINE P == {S \in SUBSET members : f[S] \in Canvas}
  <1>4. {} \in P
    BY <1>3
  <1>5. ASSUME NEW S \in SUBSET members, S # {}
        PROVE  \E c \in S : (S \ {c} \in P => S \in P)
    <2>1. Oldest(d, S) \in S
      BY <1>5, OldestFacts
    <2>2. ASSUME S \ {Oldest(d, S)} \in P PROVE f[S] \in Canvas
      <3>1. f[S \ {Oldest(d, S)}] \in Canvas
        BY <2>2
      <3>2. f[S] = PutBack(d, S, f[S \ {Oldest(d, S)}])
        BY <1>3, <1>5
      <3>3. S \in SUBSET Photo
        OBVIOUS
      <3> QED
        BY <1>5, <3>1, <3>2, <3>3, PutBackKeeps
    <2> QED
      BY <2>1, <2>2
  <1>6. IsFiniteSet(members)
    BY BlocksFinite, WallAssumption DEF Block
  <1>7. members \in P
    <2> HIDE DEF P
    <2> QED
      BY <1>4, <1>5, <1>6, SubsetInduction
  <1> QED
    BY <1>2, <1>7

Newest(d, S) == CHOOSE b \in S : \A c \in S : Age(d, c) <= Age(d, b)

LEMMA AgeIsMoment ==
  ASSUME NEW d, Dated(d), NEW b \in Loose(d)
  PROVE  Age(d, b) \in 0..MaxEdits
  <1>1. CASE b \in Post
    BY <1>1 DEF Age, Dated
  <1>2. CASE b \notin Post
    <2> DEFINE ps == DeckedBy(d, b)
               T == {made[p] : p \in ps}
    <2>1. ps # {} /\ ps \subseteq Post
      BY <1>2 DEF Loose, LoosePosts, LooseAlbums, DeckedBy, Dated
    <2>2. T \in SUBSET (0..MaxEdits) /\ T # {}
      BY <2>1 DEF Dated
    <2>3. PICK t \in T : \A u \in T : u <= t
      <3> HIDE DEF T
      <3> QED
        BY <2>2, GreatestNatural, WallAssumption
    <2>4. \E p \in ps : \A q \in ps : made[q] <= made[p]
      BY <2>3
    <2> DEFINE p == CHOOSE p \in ps : \A q \in ps : made[q] <= made[p]
    <2>5. p \in ps
      <3> HIDE DEF ps
      <3> QED
        BY <2>4
    <2>6. Age(d, b) = made[p]
      BY Zenon, <1>2 DEF Age
    <2> HIDE DEF p, ps
    <2> QED
      BY <2>1, <2>5, <2>6 DEF Dated
  <1> QED
    BY <1>1, <1>2

LEMMA NewestFacts ==
  ASSUME NEW d, Dated(d), NEW S \in SUBSET Loose(d), S # {}
  PROVE  Newest(d, S) \in S
  <1> DEFINE T == {Age(d, b) : b \in S}
  <1>1. T \in SUBSET (0..MaxEdits) /\ T # {}
    BY AgeIsMoment
  <1>2. PICK t \in T : \A u \in T : u <= t
    <2> HIDE DEF T
    <2> QED
      BY <1>1, GreatestNatural, WallAssumption
  <1>3. \E b \in S : \A c \in S : Age(d, c) <= Age(d, b)
    BY <1>2
  <1> QED
    BY <1>3 DEF Newest

LooseSize(d, b) == IF b \in DOMAIN Spans(d) THEN Spans(d)[b] ELSE DefaultSize(b)

\* One more unplaced block put at the top.
PutOnTop(d, S, before) ==
  IF Full(before) THEN before
  ELSE PushPlace(before, Newest(d, S), At(LooseSize(d, Newest(d, S)), 0, 0))

MigratesTo(f, d) ==
  f = [S \in SUBSET Loose(d) |-> IF S = {} THEN Pins(d)
                                 ELSE PutOnTop(d, S, f[S \ {Newest(d, S)}])]

LEMMA PutOnTopKeeps ==
  ASSUME NEW d, Dated(d), NEW S \in SUBSET Loose(d), S # {}, NEW before \in Canvas
  PROVE  PutOnTop(d, S, before) \in Canvas
  <1> DEFINE b == Newest(d, S)
             s == LooseSize(d, b)
  <1>1. b \in Block
    BY NewestFacts DEF Loose, LoosePosts, LooseAlbums, Block, Dated
  <1>2. s \in AllSizes
    BY SizesFit, OnFacts DEF LooseSize, Dated
  <1>3. ASSUME ~Full(before) PROVE PushPlace(before, b, At(s, 0, 0)) \in Canvas
    <2> HIDE DEF b, s
    <2>1. At(s, 0, 0) \in Box
      BY <1>2, BoxAt
    <2> QED
      BY <1>1, <1>3, <2>1, PushPlaceFacts
  <1> QED
    BY <1>3 DEF PutOnTop

LEMMA LooseFinite ==
  ASSUME NEW d, Dated(d)
  PROVE  IsFiniteSet(Loose(d))
  BY BlocksFinite DEF Loose, LoosePosts, LooseAlbums, Block, Dated

LEMMA MigrationIsDefined ==
  ASSUME NEW d, Dated(d), Pins(d) \in Canvas
  PROVE  \E f : MigratesTo(f, d)
  <1> DEFINE last == [S \in SUBSET Loose(d) |-> Newest(d, S)]
             step == [sv \in ((SUBSET Loose(d)) \X Canvas) |->
                        IF sv[1] = {} THEN sv[2] ELSE PutOnTop(d, sv[1], sv[2])]
             pins == Pins(d)
  <1>1. \A S \in SUBSET Loose(d) : S # {} => last[S] \in S
    BY NewestFacts
  <1>2. step \in [(SUBSET Loose(d)) \X Canvas -> Canvas]
    BY PutOnTopKeeps
  <1>3. PICK f \in [SUBSET Loose(d) -> Canvas] : BuiltUp(f, Loose(d), pins, last, step)
    <2> HIDE DEF last, step
    <2> QED
      BY <1>1, <1>2, LooseFinite, SubsetFold
  <1>4. ASSUME NEW S \in SUBSET Loose(d)
        PROVE  f[S] = IF S = {} THEN pins ELSE PutOnTop(d, S, f[S \ {Newest(d, S)}])
    <2>1. f[S \ {last[S]}] \in Canvas
      BY <1>3
    <2>2. S # {} => step[<<S, f[S \ {last[S]}]>>] = PutOnTop(d, S, f[S \ {last[S]}])
      BY <2>1
    <2>3. last[S] = Newest(d, S)
      OBVIOUS
    <2> HIDE DEF last, step, pins
    <2> QED
      BY <1>3, <2>2, <2>3 DEF BuiltUp
  <1>5. f = [S \in SUBSET Loose(d) |->
               IF S = {} THEN pins ELSE PutOnTop(d, S, f[S \ {Newest(d, S)}])]
    <2> HIDE DEF last, step, pins
    <2> QED
      BY <1>3, <1>4
  <1> QED
    BY Zenon, <1>5 DEF MigratesTo

\* The migration leaves the wall without overlap, or full.
LEMMA AutoPlacedFacts ==
  ASSUME NEW d, Dated(d), Pins(d) \in Canvas
  PROVE  AutoPlaced(d) \in Canvas
  <1> DEFINE f == CHOOSE h : MigratesTo(h, d)
  <1>1. MigratesTo(f, d)
    BY Zenon, MigrationIsDefined
  <1>2. AutoPlaced(d) = f[Loose(d)]
    BY Zenon DEF AutoPlaced, MigratesTo, PutOnTop, Newest, LooseSize
  <1> HIDE DEF f
  <1>3. \A S \in SUBSET Loose(d) :
          f[S] = IF S = {} THEN Pins(d) ELSE PutOnTop(d, S, f[S \ {Newest(d, S)}])
    BY Zenon, <1>1 DEF MigratesTo
  <1> DEFINE P == {S \in SUBSET Loose(d) : f[S] \in Canvas}
  <1>4. {} \in P
    BY <1>3
  <1>5. ASSUME NEW S \in SUBSET Loose(d), S # {}
        PROVE  \E c \in S : (S \ {c} \in P => S \in P)
    <2>1. Newest(d, S) \in S
      BY <1>5, NewestFacts
    <2>2. ASSUME S \ {Newest(d, S)} \in P PROVE f[S] \in Canvas
      <3>1. f[S \ {Newest(d, S)}] \in Canvas
        BY <2>2
      <3>2. f[S] = PutOnTop(d, S, f[S \ {Newest(d, S)}])
        BY <1>3, <1>5
      <3> QED
        BY <1>5, <3>1, <3>2, PutOnTopKeeps
    <2> QED
      BY <2>1, <2>2
  <1>6. Loose(d) \in P
    <2> HIDE DEF P
    <2> QED
      BY <1>4, <1>5, LooseFinite, SubsetInduction
  <1> QED
    BY <1>2, <1>6

LEMMA GeometryIs ==
  ASSUME NEW g
  PROVE  g \in Geometry <=> /\ g \in [x : 0..(Cols - 1), y : 0..MaxRow, w : 1..Cols, h : 1..MaxHeight]
                            /\ SizeOf(g) \in AllSizes
  <1>1. \A s \in AllSizes : s \in [w : 1..Cols, h : 1..MaxHeight]
    BY SizesFit
  <1>2. ASSUME g \in Geometry
        PROVE  /\ g \in [x : 0..(Cols - 1), y : 0..MaxRow, w : 1..Cols, h : 1..MaxHeight]
               /\ SizeOf(g) \in AllSizes
    <2>1. PICK x \in 0..(Cols - 1), y \in 0..MaxRow, s \in AllSizes :
            g = [x |-> x, y |-> y, w |-> s.w, h |-> s.h]
      BY <1>2 DEF Geometry
    <2>2. SizeOf(g) = s
      BY <1>1, <2>1 DEF SizeOf
    <2> QED
      BY <1>1, <2>1, <2>2
  <1>3. ASSUME g \in [x : 0..(Cols - 1), y : 0..MaxRow, w : 1..Cols, h : 1..MaxHeight],
               SizeOf(g) \in AllSizes
        PROVE  g \in Geometry
    <2> DEFINE s == SizeOf(g)
    <2>1. g = [x |-> g.x, y |-> g.y, w |-> s.w, h |-> s.h]
      BY <1>3 DEF SizeOf
    <2>2. g.x \in 0..(Cols - 1) /\ g.y \in 0..MaxRow
      BY <1>3
    <2> HIDE DEF s
    <2> QED
      BY <1>3, <2>1, <2>2 DEF Geometry, s
  <1> QED
    BY <1>2, <1>3

\* A layout as NoOverlap has it.
Laying(pins) ==
  /\ pins \in On(Block, Geometry)
  /\ \A b \in DOMAIN pins :
       /\ Fits(pins[b])
       /\ \A c \in DOMAIN pins \ {b} : ~Overlap(pins[b], pins[c])

LEMMA LayingIsOnCanvas ==
  ASSUME NEW pins
  PROVE  Laying(pins) <=> pins \in Canvas /\ ~Full(pins)
  <1>1. ASSUME Laying(pins) PROVE pins \in Canvas /\ ~Full(pins)
    <2>1. \A b \in DOMAIN pins : pins[b] \in Geometry /\ Fits(pins[b])
      BY <1>1, OnFacts DEF Laying
    <2>2. \A b \in DOMAIN pins : pins[b] \in Box /\ ~(pins[b].y > MaxRow)
      BY <2>1, GeometryIs, WallAssumption DEF Box, Fits
    <2>3. pins \in On(Block, Box)
      BY <1>1, <2>2, OnFacts DEF Laying
    <2>4. Apart(pins) /\ ~Full(pins)
      BY <1>1, <2>2 DEF Laying, Apart, Full
    <2> QED
      BY <2>3, <2>4 DEF Canvas
  <1>2. ASSUME pins \in Canvas, ~Full(pins) PROVE Laying(pins)
    <2>1. pins \in On(Block, Box) /\ Apart(pins)
      BY <1>2 DEF Canvas
    <2>2. \A b \in DOMAIN pins : pins[b] \in Box
      BY <2>1, OnFacts
    <2>3. \A b \in DOMAIN pins : ~(pins[b].y > MaxRow)
      BY <1>2 DEF Full
    <2>4. \A b \in DOMAIN pins : pins[b] \in Geometry /\ Fits(pins[b])
      BY <2>2, <2>3, GeometryIs, WallAssumption DEF Box, Fits
    <2>5. pins \in On(Block, Geometry)
      BY <2>1, <2>4, OnFacts
    <2> QED
      BY <2>1, <2>4, <2>5 DEF Laying, Apart
  <1> QED
    BY <1>1, <1>2

Tidy(w) == w \in WallOf /\ w.layout.pins \in Canvas /\ ~Full(w.layout.pins)

LEMMA TidyWalls ==
  WallTypeOK /\ NoOverlap <=> /\ edits \in 0..MaxEdits /\ made \in [Post -> 0..MaxEdits]
                              /\ wall \in [Desktop -> WallOf]
                              /\ \A d \in Desktop : Tidy(wall[d])
  <1>1. ASSUME WallTypeOK, NoOverlap, NEW d \in Desktop
        PROVE  Tidy(wall[d])
    <2>1. wall[d] \in WallOf /\ Pins(d) \in On(Block, Geometry)
      BY <1>1 DEF WallTypeOK, WallOf, Layout, Pins
    <2>2. Laying(Pins(d))
      BY <1>1, <2>1 DEF NoOverlap, Laying
    <2> QED
      BY <2>1, <2>2, LayingIsOnCanvas DEF Tidy, Pins
  <1>2. ASSUME NEW d \in Desktop, Tidy(wall[d])
        PROVE  \A b \in DOMAIN Pins(d) :
                 /\ Fits(Pins(d)[b])
                 /\ \A c \in DOMAIN Pins(d) \ {b} : ~Overlap(Pins(d)[b], Pins(d)[c])
    BY <1>2, LayingIsOnCanvas DEF Tidy, Pins, Laying
  <1> QED
    BY <1>1, <1>2 DEF WallTypeOK, NoOverlap

\* Every layout is replaced as a whole.
LEMMA LaidIs ==
  ASSUME NEW w, w \in WallOf, NEW pins, NEW spans
  PROVE  Laid(w, pins, spans) =
           [posts |-> w.posts, gone |-> w.gone,
            layout |-> [at |-> edits + 1, pins |-> pins, spans |-> spans,
                        styled |-> w.layout.styled],
            albums |-> w.albums]
  <1>1. /\ w = [posts |-> w.posts, gone |-> w.gone, layout |-> w.layout,
                albums |-> w.albums]
        /\ w.layout = [at |-> w.layout.at, pins |-> w.layout.pins,
                       spans |-> w.layout.spans, styled |-> w.layout.styled]
    BY DEF WallOf, Layout
  <1> DEFINE u == [w EXCEPT !.layout = [w.layout EXCEPT !.at = edits + 1]]
             v == [u EXCEPT !.layout = [u.layout EXCEPT !.pins = pins]]
  <1>2. Laid(w, pins, spans) = [v EXCEPT !.layout = [v.layout EXCEPT !.spans = spans]]
    BY Zenon DEF Laid
  <1>3. u = [posts |-> w.posts, gone |-> w.gone,
             layout |-> [at |-> edits + 1, pins |-> w.layout.pins,
                         spans |-> w.layout.spans, styled |-> w.layout.styled],
             albums |-> w.albums]
    BY <1>1
  <1>4. v = [posts |-> w.posts, gone |-> w.gone,
             layout |-> [at |-> edits + 1, pins |-> pins,
                         spans |-> w.layout.spans, styled |-> w.layout.styled],
             albums |-> w.albums]
    <2> HIDE DEF u
    <2> QED
      BY <1>3
  <1> HIDE DEF u, v
  <1> QED
    BY <1>2, <1>4

LEMMA LaidIsTidy ==
  ASSUME WallTypeOK, Edit, NEW w, Tidy(w),
         NEW pins \in Canvas, ~Full(pins), NEW spans \in On(Block, AllSizes)
  PROVE  Tidy(Laid(w, pins, spans))
  <1> DEFINE l == [at |-> edits + 1, pins |-> pins, spans |-> spans,
                   styled |-> w.layout.styled]
             v == [posts |-> w.posts, gone |-> w.gone, layout |-> l, albums |-> w.albums]
  <1>1. edits + 1 \in 0..MaxEdits
    BY WallAssumption DEF WallTypeOK, Edit
  <1>2. pins \in On(Block, Geometry)
    BY LayingIsOnCanvas DEF Laying
  <1>3. w \in WallOf
    BY DEF Tidy
  <1>4. l \in Layout
    BY <1>1, <1>2, <1>3 DEF Layout, WallOf
  <1>5. v \in WallOf /\ v.layout.pins = pins
    <2>1. l.pins = pins
      OBVIOUS
    <2> HIDE DEF l
    <2> QED
      BY <1>3, <1>4, <2>1 DEF WallOf
  <1>6. Laid(w, pins, spans) = v
    BY <1>3, LaidIs
  <1> HIDE DEF v
  <1> QED
    BY <1>5, <1>6 DEF Tidy

\* An edit puts something tidy in the place of what d held.
LEMMA TidyReplaced ==
  ASSUME WallTypeOK, NoOverlap, NEW d \in Desktop, NEW w, Tidy(w),
         wall' = [wall EXCEPT ![d] = w], edits' \in 0..MaxEdits,
         made' \in [Post -> 0..MaxEdits]
  PROVE  WallTypeOK' /\ NoOverlap'
  <1>1. wall \in [Desktop -> WallOf] /\ \A e \in Desktop : Tidy(wall[e])
    BY TidyWalls
  <1>2. wall' \in [Desktop -> WallOf] /\ \A e \in Desktop : Tidy(wall'[e])
    BY <1>1 DEF Tidy
  <1>3. \A e \in Desktop : /\ wall'[e] \in WallOf
                           /\ Laying(wall'[e].layout.pins)
    BY <1>2, LayingIsOnCanvas DEF Tidy
  <1>4. WallTypeOK'
    BY <1>2 DEF WallTypeOK
  <1>5. NoOverlap'
    BY <1>3 DEF NoOverlap, Laying, Pins
  <1> QED
    BY <1>4, <1>5

\* What an action finds.
LEMMA DeviceFinds ==
  ASSUME WallTypeOK, NoOverlap, NEW d \in Desktop
  PROVE  /\ Tidy(wall[d]) /\ wall[d] \in WallOf
         /\ Pins(d) \in Canvas /\ ~Full(Pins(d))
         /\ Spans(d) \in On(Block, AllSizes)
         /\ Shown(d) \subseteq Post /\ Blocks(d) \subseteq Block
         /\ Dated(d)
  <1>1. Tidy(wall[d]) /\ wall[d] \in WallOf
    BY TidyWalls
  <1>2. Spans(d) \in On(Block, AllSizes) /\ Shown(d) \subseteq Post
    BY <1>1 DEF WallOf, Layout, Spans, Shown
  <1>3. Blocks(d) \subseteq Block
    BY <1>2 DEF Blocks, Block
  <1> QED
    BY <1>1, <1>2, <1>3 DEF Tidy, Pins, Dated, WallTypeOK

LEMMA EditIsCounted ==
  ASSUME WallTypeOK, Edit
  PROVE  edits' \in 0..MaxEdits /\ edits + 1 \in 0..MaxEdits
  BY WallAssumption DEF WallTypeOK, Edit

LEMMA PublishIsTidy ==
  ASSUME WallTypeOK, NoOverlap, Edit, UNCHANGED made, NEW d \in Desktop,
         NEW pins \in Canvas, NEW spans \in On(Block, AllSizes), Publish(d, pins, spans)
  PROVE  WallTypeOK' /\ NoOverlap'
  <1>1. ~Full(pins) /\ wall' = [wall EXCEPT ![d] = Laid(wall[d], pins, spans)]
    BY DEF Publish
  <1>2. Tidy(Laid(wall[d], pins, spans))
    BY <1>1, DeviceFinds, LaidIsTidy
  <1>3. made' \in [Post -> 0..MaxEdits]
    BY DEF WallTypeOK
  <1> QED
    BY <1>1, <1>2, <1>3, EditIsCounted, TidyReplaced

LEMMA ComposeIsTidy ==
  ASSUME WallTypeOK, NoOverlap, NEW d \in Desktop, NEW p \in Post,
         ComposeUnplaced(d, p) \/ \E s \in Sizes : Compose(d, p, s)
  PROVE  WallTypeOK' /\ NoOverlap'
  <1> DEFINE w == [wall[d] EXCEPT !.posts = @ \union {p}]
  <1>1. Tidy(w)
    BY DeviceFinds DEF Tidy, WallOf
  <1>2. Edit /\ made' \in [Post -> 0..MaxEdits]
    <2>1. Edit /\ made' = [made EXCEPT ![p] = edits + 1]
      BY DEF Compose, ComposeUnplaced
    <2> QED
      BY <2>1, EditIsCounted DEF WallTypeOK
  <1>3. CASE ComposeUnplaced(d, p)
    <2>1. wall' = [wall EXCEPT ![d] = w]
      BY <1>3 DEF ComposeUnplaced
    <2> HIDE DEF w
    <2> QED
      BY <1>1, <1>2, <2>1, EditIsCounted, TidyReplaced
  <1>4. ASSUME NEW s \in Sizes, Compose(d, p, s)
        PROVE  WallTypeOK' /\ NoOverlap'
    <2> DEFINE v == Laid(w, FirstFit(Pins(d), p, s), Without(Spans(d), {p}))
               z == IF Gaps(Pins(d), p, s) = {} THEN w ELSE v
    <2>1. wall' = [wall EXCEPT ![d] = z]
      BY Zenon, <1>4 DEF Compose
    <2>2. p \in Block /\ s \in AllSizes
      BY DEF Block, AllSizes
    <2>3. Without(Spans(d), {p}) \in On(Block, AllSizes)
      BY DeviceFinds, WithoutOn
    <2>4. ASSUME Gaps(Pins(d), p, s) # {} PROVE Tidy(v)
      <3>1. FirstFit(Pins(d), p, s) \in Canvas /\ ~Full(FirstFit(Pins(d), p, s))
        BY <2>2, <2>4, DeviceFinds, FirstFitFacts
      <3> HIDE DEF w
      <3> QED
        BY <1>1, <1>2, <2>3, <3>1, LaidIsTidy
    <2>5. Tidy(z)
      <3> HIDE DEF w, v
      <3> QED
        BY <1>1, <2>4
    <2> HIDE DEF w, z
    <2> QED
      BY <1>2, <2>1, <2>5, EditIsCounted, TidyReplaced
  <1> QED
    BY <1>3, <1>4

LEMMA PinIsTidy ==
  ASSUME WallTypeOK, NoOverlap, NEW d \in Desktop, NEW b \in Blocks(d),
         NEW s \in Sizes, NEW x \in 0..(Cols - 1), NEW y \in 0..MaxRow,
         SetBlockPin(d, b, At(s, x, y))
  PROVE  WallTypeOK' /\ NoOverlap'
  <1> DEFINE g == At(s, x, y)
  <1>1. /\ Edit /\ Fits(g) /\ UNCHANGED made
        /\ Publish(d, PushPlace(Pins(d), b, g), Without(Spans(d), {b}))
    BY DEF SetBlockPin
  <1>2. g \in Box
    <2>1. s \in [w : 1..Cols, h : 1..MaxHeight] /\ s \in AllSizes
      BY SizesFit DEF AllSizes
    <2>2. SizeOf(g) = s
      BY <2>1 DEF SizeOf, At
    <2>3. g \in [x : Nat, y : Nat, w : 1..Cols, h : 1..MaxHeight]
      BY <2>1, WallAssumption DEF At
    <2> HIDE DEF g
    <2> QED
      BY <1>1, <2>1, <2>2, <2>3 DEF Box, Fits
  <1> HIDE DEF g
  <1>3. PushPlace(Pins(d), b, g) \in Canvas
    BY <1>2, DeviceFinds, PushPlaceFacts
  <1>4. Without(Spans(d), {b}) \in On(Block, AllSizes)
    BY DeviceFinds, WithoutOn
  <1> QED
    BY <1>1, <1>3, <1>4, PublishIsTidy

LEMMA PinnedSizes ==
  ASSUME WallTypeOK, NoOverlap, NEW d \in Desktop, NEW b \in DOMAIN Pins(d)
  PROVE  b \in Block /\ SizeOf(Pins(d)[b]) \in AllSizes /\ Pins(d)[b] \in Box
  <1>1. Pins(d) \in On(Block, Box)
    BY DeviceFinds DEF Canvas
  <1>2. b \in Block /\ Pins(d)[b] \in Box
    BY <1>1, OnFacts
  <1> QED
    BY <1>2 DEF Box

LEMMA UnpinIsTidy ==
  ASSUME WallTypeOK, NoOverlap, NEW d \in Desktop, NEW b \in Blocks(d), UnpinBlock(d, b)
  PROVE  WallTypeOK' /\ NoOverlap'
  <1> DEFINE spans == IF b \in DOMAIN Pins(d) THEN Placed(Spans(d), b, SizeOf(Pins(d)[b]))
                      ELSE Spans(d)
  <1>1. Edit /\ UNCHANGED made /\ Publish(d, Without(Pins(d), {b}), spans)
    BY Zenon DEF UnpinBlock
  <1>2. Without(Pins(d), {b}) \in Canvas
    BY DeviceFinds, CanvasWithout
  <1>3. spans \in On(Block, AllSizes)
    BY DeviceFinds, PinnedSizes, PlacedOn
  <1> HIDE DEF spans
  <1> QED
    BY <1>1, <1>2, <1>3, PublishIsTidy

LEMMA SpanIsTidy ==
  ASSUME WallTypeOK, NoOverlap, NEW d \in Desktop, NEW b \in Blocks(d), NEW s \in Sizes,
         SetBlockSpan(d, b, s)
  PROVE  WallTypeOK' /\ NoOverlap'
  <1>1. Edit /\ UNCHANGED made /\ Publish(d, Pins(d), Placed(Spans(d), b, s))
    BY DEF SetBlockSpan
  <1>2. s \in AllSizes /\ b \in Block
    BY DeviceFinds DEF AllSizes
  <1>3. Placed(Spans(d), b, s) \in On(Block, AllSizes)
    BY <1>2, DeviceFinds, PlacedOn
  <1> QED
    BY <1>1, <1>3, DeviceFinds, PublishIsTidy

LEMMA RestyleIsTidy ==
  ASSUME WallTypeOK, NoOverlap, NEW d \in Desktop, NEW b \in Blocks(d), Restyle(d, b)
  PROVE  WallTypeOK' /\ NoOverlap'
  <1> DEFINE w == Laid(wall[d], Pins(d), Spans(d))
             styled == IF b \in w.layout.styled THEN w.layout.styled \ {b}
                       ELSE w.layout.styled \union {b}
             l == [w.layout EXCEPT !.styled = styled]
             v == [w EXCEPT !.layout = l]
  <1>1. Edit /\ UNCHANGED made /\ wall' = [wall EXCEPT ![d] = v]
    BY Zenon DEF Restyle
  <1>2. Tidy(w)
    BY <1>1, DeviceFinds, LaidIsTidy
  <1>3. Tidy(v)
    <2> HIDE DEF w
    <2>1. w \in WallOf /\ w.layout \in Layout /\ w.layout.pins \in Canvas
          /\ ~Full(w.layout.pins)
      BY <1>2 DEF Tidy, WallOf
    <2>2. styled \in SUBSET Block
      BY <2>1, DeviceFinds DEF Layout
    <2>3. l \in Layout /\ l.pins = w.layout.pins
      <3> HIDE DEF styled
      <3> QED
        BY <2>1, <2>2 DEF Layout
    <2>4. v \in WallOf /\ v.layout = l
      <3> HIDE DEF l
      <3> QED
        BY <2>1, <2>3 DEF WallOf
    <2> QED
      BY <2>1, <2>3, <2>4 DEF Tidy
  <1>4. made' \in [Post -> 0..MaxEdits]
    BY <1>1 DEF WallTypeOK
  <1> HIDE DEF v
  <1> QED
    BY <1>1, <1>3, <1>4, EditIsCounted, TidyReplaced

LEMMA DeleteIsTidy ==
  ASSUME WallTypeOK, NoOverlap, NEW d \in Desktop, NEW p \in Shown(d), Delete(d, p)
  PROVE  WallTypeOK' /\ NoOverlap'
  <1> DEFINE w == [wall[d] EXCEPT !.gone = @ \union {p}]
  <1>1. wall' = [wall EXCEPT ![d] = w] /\ Edit /\ made' \in [Post -> 0..MaxEdits]
    BY DEF Delete, WallTypeOK
  <1>2. Tidy(w)
    BY DeviceFinds DEF Tidy, WallOf
  <1> HIDE DEF w
  <1> QED
    BY <1>1, <1>2, EditIsCounted, TidyReplaced

\* The album takes over the place of its only placed member, which is off the canvas then.
LEMMA GroupedFacts ==
  ASSUME WallTypeOK, NoOverlap, NEW d \in Desktop, NEW a \in Album,
         NEW members \in SUBSET Photo
  PROVE  /\ Grouped(d, members, a) \in Canvas /\ ~Full(Grouped(d, members, a))
         /\ GroupedSpans(d, members) \in On(Block, AllSizes)
  <1> DEFINE pinned == members \intersect DOMAIN Pins(d)
             bare == Without(Pins(d), members)
             inherits == Cardinality(pinned) = 1 /\ a \notin DOMAIN bare
  <1>1. bare \in Canvas /\ ~Full(bare)
    BY DeviceFinds, CanvasWithout
  <1>2. ASSUME inherits
        PROVE  /\ Placed(bare, a, Pins(d)[CHOOSE m \in pinned : TRUE]) \in Canvas
               /\ ~Full(Placed(bare, a, Pins(d)[CHOOSE m \in pinned : TRUE]))
    <2>1. pinned \in SUBSET Block /\ a \in Block
      BY WallAssumption DEF Block
    <2>2. pinned # {}
      BY <1>2, FS_EmptySet
    <2> DEFINE m == CHOOSE m \in pinned : TRUE
               g == Pins(d)[m]
    <2>3. m \in members /\ m \in DOMAIN Pins(d)
      BY <2>2
    <2> HIDE DEF m
    <2>4. g \in Box
      BY <2>3, PinnedSizes
    <2>5. \A c \in DOMAIN bare : c \in DOMAIN Pins(d) /\ c # m /\ bare[c] = Pins(d)[c]
      BY <2>3 DEF Without
    <2>6. Apart(Pins(d)) /\ ~(g.y > MaxRow)
      BY <2>3, DeviceFinds DEF Canvas, Full
    <2>7. \A c \in DOMAIN bare \ {a} : ~Overlap(g, bare[c])
      BY <2>3, <2>5, <2>6 DEF Apart
    <2> HIDE DEF g, bare
    <2>8. Placed(bare, a, g) \in Canvas
      BY <1>1, <2>1, <2>4, <2>7, CanvasPlaced
    <2>9. ~Full(Placed(bare, a, g))
      BY <1>1, <2>6 DEF Full, Placed
    <2> QED
      BY <2>8, <2>9 DEF g, m
  <1>3. Grouped(d, members, a) = IF inherits
                                 THEN Placed(bare, a, Pins(d)[CHOOSE m \in pinned : TRUE])
                                 ELSE bare
    BY Zenon DEF Grouped
  <1>4. Grouped(d, members, a) \in Canvas /\ ~Full(Grouped(d, members, a))
    <2> HIDE DEF inherits, bare, pinned
    <2> QED
      BY <1>1, <1>2, <1>3
  <1> DEFINE spans == GroupedSpans(d, members)
  <1>5. spans = [b \in DOMAIN Spans(d) \union pinned |->
                   IF b \in pinned THEN SizeOf(Pins(d)[b]) ELSE Spans(d)[b]]
    BY DEF GroupedSpans
  <1>6. DOMAIN Spans(d) \union pinned \in SUBSET Block
    BY DeviceFinds, OnFacts, WallAssumption DEF Block
  <1>7. \A b \in pinned : SizeOf(Pins(d)[b]) \in AllSizes
    BY PinnedSizes
  <1>8. \A b \in DOMAIN Spans(d) : Spans(d)[b] \in AllSizes
    BY DeviceFinds, OnFacts
  <1>9. spans \in [DOMAIN Spans(d) \union pinned -> AllSizes]
    <2> HIDE DEF spans, pinned
    <2> QED
      BY <1>5, <1>7, <1>8
  <1>10. spans \in On(Block, AllSizes)
    <2> HIDE DEF spans, pinned
    <2> QED
      BY <1>6, <1>9 DEF On
  <1> QED
    BY <1>4, <1>10

\* The album is put where it belongs, or the process is gone before.
LEMMA AlbumIsTidy ==
  ASSUME WallTypeOK, NoOverlap, Edit, UNCHANGED made, NEW d \in Desktop, NEW a \in Album,
         NEW cut \in BOOLEAN, NEW members \in SUBSET Photo,
         NEW pins \in Canvas, ~Full(pins), NEW spans \in On(Block, AllSizes),
         wall' = [wall EXCEPT ![d] =
           IF cut THEN Laid(wall[d], pins, spans)
           ELSE [Laid(wall[d], pins, spans)
                   EXCEPT !.albums[a] = [at |-> edits + 1, members |-> members]]]
  PROVE  WallTypeOK' /\ NoOverlap'
  <1> DEFINE w == Laid(wall[d], pins, spans)
             album == [at |-> edits + 1, members |-> members]
             v == [w EXCEPT !.albums[a] = album]
             z == IF cut THEN w ELSE v
  <1>1. Tidy(w)
    BY DeviceFinds, LaidIsTidy
  <1>2. album \in [at : 0..MaxEdits, members : SUBSET Photo]
    BY EditIsCounted
  <1>3. Tidy(v)
    <2> HIDE DEF w, album
    <2>1. [w.albums EXCEPT ![a] = album]
            \in [Album -> [at : 0..MaxEdits, members : SUBSET Photo]]
      BY <1>1, <1>2 DEF Tidy, WallOf
    <2>2. v = [w EXCEPT !.albums = [w.albums EXCEPT ![a] = album]]
      OBVIOUS
    <2>3. v \in WallOf /\ v.layout = w.layout
      BY <1>1, <2>1, <2>2 DEF Tidy, WallOf
    <2> QED
      BY <1>1, <2>3 DEF Tidy
  <1>4. wall' = [wall EXCEPT ![d] = z]
    BY Zenon
  <1>5. made' \in [Post -> 0..MaxEdits]
    BY DEF WallTypeOK
  <1>6. Tidy(z)
    <2> HIDE DEF w, v
    <2> QED
      BY <1>1, <1>3
  <1> HIDE DEF z
  <1> QED
    BY <1>4, <1>5, <1>6, EditIsCounted, TidyReplaced

LEMMA SetAlbumIsTidy ==
  ASSUME WallTypeOK, NoOverlap, NEW d \in Desktop, NEW a \in Album, NEW cut \in BOOLEAN,
         NEW members \in SUBSET Photo, SetAlbum(d, members, a, cut)
  PROVE  WallTypeOK' /\ NoOverlap'
  <1> DEFINE pins == Grouped(d, members, a)
             spans == GroupedSpans(d, members)
  <1>1. /\ Edit /\ UNCHANGED made
        /\ wall' = [wall EXCEPT ![d] =
             IF cut THEN Laid(wall[d], pins, spans)
             ELSE [Laid(wall[d], pins, spans)
                     EXCEPT !.albums[a] = [at |-> edits + 1, members |-> members]]]
    BY Zenon DEF SetAlbum
  <1>2. pins \in Canvas /\ ~Full(pins) /\ spans \in On(Block, AllSizes)
    BY GroupedFacts
  <1> HIDE DEF pins, spans
  <1> QED
    BY <1>1, <1>2, AlbumIsTidy

LEMMA UngroupIsTidy ==
  ASSUME WallTypeOK, NoOverlap, NEW d \in Desktop, NEW a \in Album, NEW cut \in BOOLEAN,
         Ungroup(d, a, cut)
  PROVE  WallTypeOK' /\ NoOverlap'
  <1> DEFINE members == wall[d].albums[a].members
             bare == Without(Pins(d), {a})
             pins == Restored(d, members, bare)
             spans == Without(Spans(d), members \union {a})
             none == {}
  <1>1. /\ Edit /\ UNCHANGED made /\ ~Full(pins)
        /\ wall' = [wall EXCEPT ![d] =
             IF cut THEN Laid(wall[d], pins, spans)
             ELSE [Laid(wall[d], pins, spans)
                     EXCEPT !.albums[a] = [at |-> edits + 1, members |-> none]]]
    BY Zenon DEF Ungroup
  <1>2. members \in SUBSET Photo
    BY DeviceFinds DEF WallOf
  <1>3. bare \in Canvas
    BY DeviceFinds, CanvasWithout
  <1>4. pins \in Canvas
    <2> HIDE DEF members, bare
    <2> QED
      BY <1>2, <1>3, DeviceFinds, RestoredFacts
  <1>5. spans \in On(Block, AllSizes)
    BY DeviceFinds, WithoutOn
  <1>6. none \in SUBSET Photo
    OBVIOUS
  <1> HIDE DEF pins, spans, none
  <1> QED
    BY <1>1, <1>4, <1>5, <1>6, AlbumIsTidy

LEMMA AutoPlaceIsTidy ==
  ASSUME WallTypeOK, NoOverlap, NEW d \in Desktop, AutoPlace(d)
  PROVE  WallTypeOK' /\ NoOverlap'
  <1>1. /\ Edit /\ UNCHANGED made
        /\ Publish(d, AutoPlaced(d), Without(Spans(d), Loose(d)))
    BY DEF AutoPlace
  <1>2. AutoPlaced(d) \in Canvas
    BY DeviceFinds, AutoPlacedFacts
  <1>3. Without(Spans(d), Loose(d)) \in On(Block, AllSizes)
    BY DeviceFinds, WithoutOn
  <1> QED
    BY <1>1, <1>2, <1>3, PublishIsTidy

\* The later layout wins, entire.
LEMMA MeetIsTidy ==
  ASSUME WallTypeOK, NoOverlap, NEW d \in Desktop, NEW e \in Desktop, Meet(d, e)
  PROVE  WallTypeOK' /\ NoOverlap'
  <1> DEFINE w == [posts |-> wall[d].posts \union wall[e].posts,
                   gone |-> wall[d].gone \union wall[e].gone,
                   layout |-> Later(wall[e].layout, wall[d].layout),
                   albums |-> [a \in Album |-> Later(wall[e].albums[a], wall[d].albums[a])]]
  <1>1. Tidy(wall[d]) /\ Tidy(wall[e])
    BY DeviceFinds
  <1>2. \A a \in Album : Later(wall[e].albums[a], wall[d].albums[a])
                           \in [at : 0..MaxEdits, members : SUBSET Photo]
    BY <1>1 DEF Tidy, WallOf, Later
  <1>3. /\ Later(wall[e].layout, wall[d].layout) \in Layout
        /\ Later(wall[e].layout, wall[d].layout).pins \in Canvas
        /\ ~Full(Later(wall[e].layout, wall[d].layout).pins)
    BY <1>1 DEF Tidy, WallOf, Later
  <1>4. w \in WallOf
    BY <1>1, <1>2, <1>3 DEF Tidy, WallOf
  <1>5. Tidy(w)
    BY <1>3, <1>4 DEF Tidy
  <1>6. wall' = [wall EXCEPT ![e] = w] /\ UNCHANGED <<edits, made>>
    BY DEF Meet
  <1>7. edits' \in 0..MaxEdits /\ made' \in [Post -> 0..MaxEdits]
    BY <1>6 DEF WallTypeOK
  <1> HIDE DEF w
  <1> QED
    BY <1>5, <1>6, <1>7, TidyReplaced

LEMMA WallStartsTidy == WallInit => WallTypeOK /\ NoOverlap
  <1> SUFFICES ASSUME WallInit PROVE WallTypeOK /\ NoOverlap
    OBVIOUS
  <1> DEFINE l == [at |-> 0, pins |-> Empty, spans |-> Empty, styled |-> {}]
             w == [posts |-> {}, gone |-> {}, layout |-> l,
                   albums |-> [a \in Album |-> [at |-> 0, members |-> {}]]]
  <1>1. 0 \in 0..MaxEdits
    BY WallAssumption
  <1>2. \A V : Empty \in On(Block, V)
    <2>1. \A V : Empty \in [{} -> V]
      BY DEF Empty
    <2>2. {} \in SUBSET Block
      OBVIOUS
    <2> QED
      BY <2>1, <2>2 DEF On
  <1>3. l \in Layout /\ l.pins = Empty
    BY <1>1, <1>2 DEF Layout
  <1>4. Empty \in Canvas /\ ~Full(Empty)
    BY <1>2 DEF Canvas, Apart, Full, Empty
  <1>5. Tidy(w)
    <2> HIDE DEF l
    <2>1. w \in WallOf /\ w.layout = l
      BY <1>1, <1>3 DEF WallOf
    <2> QED
      BY <1>3, <1>4, <2>1 DEF Tidy
  <1>6. wall = [d \in Desktop |-> w] /\ edits = 0 /\ made = [p \in Post |-> 0]
    BY Zenon DEF WallInit
  <1>7. /\ edits \in 0..MaxEdits /\ made \in [Post -> 0..MaxEdits]
        /\ wall \in [Desktop -> WallOf] /\ \A d \in Desktop : Tidy(wall[d])
    <2> HIDE DEF w
    <2> QED
      BY <1>1, <1>5, <1>6 DEF Tidy
  <1> QED
    BY <1>7, TidyWalls

\* What a device holds is of its type, and the blocks of its layout lie on the canvas,
\* apart from each other.  The second rests on the first: the bump loop finds a row where
\* nothing lies because no block is higher than a block may be (node.py:979, 1131).
THEOREM WallInvariance == WallSpec => [](WallTypeOK /\ NoOverlap)
  <1>1. ASSUME WallTypeOK, NoOverlap, [WallNext]_wallVars
        PROVE  WallTypeOK' /\ NoOverlap'
    <2>1. CASE UNCHANGED wallVars
      BY <1>1, <2>1 DEF wallVars, WallTypeOK, NoOverlap, Pins
    <2>2. CASE WallNext
      <3>1. PICK d \in Desktop :
              \/ \E p \in Post : ComposeUnplaced(d, p) \/ \E s \in Sizes : Compose(d, p, s)
              \/ \E b \in Blocks(d) :
                   \/ \E s \in Sizes, x \in 0..(Cols - 1), y \in 0..MaxRow :
                        SetBlockPin(d, b, At(s, x, y))
                   \/ UnpinBlock(d, b) \/ Restyle(d, b)
                   \/ \E s \in Sizes : SetBlockSpan(d, b, s)
              \/ \E p \in Shown(d) : Delete(d, p)
              \/ \E a \in Album, cut \in BOOLEAN :
                   Ungroup(d, a, cut) \/ \E members \in SUBSET Photo : SetAlbum(d, members, a, cut)
              \/ AutoPlace(d)
              \/ \E e \in Desktop : Meet(d, e)
        BY <2>2 DEF WallNext
      <3>2. CASE \E p \in Post : ComposeUnplaced(d, p) \/ \E s \in Sizes : Compose(d, p, s)
        BY <1>1, <3>2, ComposeIsTidy
      <3>3. CASE \E b \in Blocks(d) :
                   \/ \E s \in Sizes, x \in 0..(Cols - 1), y \in 0..MaxRow :
                        SetBlockPin(d, b, At(s, x, y))
                   \/ UnpinBlock(d, b) \/ Restyle(d, b)
                   \/ \E s \in Sizes : SetBlockSpan(d, b, s)
        BY <1>1, <3>3, PinIsTidy, UnpinIsTidy, RestyleIsTidy, SpanIsTidy
      <3>4. CASE \E p \in Shown(d) : Delete(d, p)
        BY <1>1, <3>4, DeleteIsTidy
      <3>5. CASE \E a \in Album, cut \in BOOLEAN :
                   Ungroup(d, a, cut) \/ \E members \in SUBSET Photo : SetAlbum(d, members, a, cut)
        BY <1>1, <3>5, UngroupIsTidy, SetAlbumIsTidy
      <3>6. CASE AutoPlace(d)
        BY <1>1, <3>6, AutoPlaceIsTidy
      <3>7. CASE \E e \in Desktop : Meet(d, e)
        BY <1>1, <3>7, MeetIsTidy
      <3> QED
        BY <3>1, <3>2, <3>3, <3>4, <3>5, <3>6, <3>7
    <2> QED
      BY <1>1, <2>1, <2>2
  <1> QED
    BY <1>1, WallStartsTidy, PTL DEF WallSpec

\* Pushed, fitted, grouped, ungrouped or migrated, cut short or merged: no two blocks of a
\* layout overlap, and none sticks out of the canvas (node.py:979, 1007).
THEOREM BlocksLieApart == WallSpec => []NoOverlap
  BY WallInvariance, PTL
----------------------------------------------------------------------------
(***************************************************************************)
(* What the wall shows.  Albums fold photos only, and their ids are        *)
(* ordered, so that among those that claim a photo one comes first: this   *)
(* is what makes the wall whole, whatever the layout says.                 *)
(***************************************************************************)
\* A photo that albums claim belongs to exactly one of them.
LEMMA OneAlbum ==
  ASSUME NEW d, NEW p
  PROVE  /\ AlbumOf(d, p) \subseteq Claims(d, p)
         /\ Claims(d, p) = {} => AlbumOf(d, p) = {}
         /\ Claims(d, p) # {} => \E a \in Claims(d, p) : AlbumOf(d, p) = {a}
  <1>1. Claims(d, p) \in SUBSET Nat
    BY WallAssumption DEF Claims
  <1>2. AlbumOf(d, p) \subseteq Claims(d, p)
    BY DEF AlbumOf
  <1>3. ASSUME Claims(d, p) # {}
        PROVE  \E a \in Claims(d, p) : AlbumOf(d, p) = {a}
    <2>1. PICK a \in Claims(d, p) : \A c \in Claims(d, p) : a <= c
      BY <1>1, <1>3, LeastNatural
    <2>2. ASSUME NEW c \in Claims(d, p), \A e \in Claims(d, p) : c <= e
          PROVE  c = a
      <3>1. a <= c /\ c <= a /\ a \in Nat /\ c \in Nat
        BY <1>1, <2>1, <2>2
      <3> QED
        BY <3>1
    <2> QED
      BY <2>1, <2>2 DEF AlbumOf
  <1> QED
    BY <1>2, <1>3

\* Every post is shown once, alone or in the deck of one album, although two devices may
\* have put it into different ones; and the migration takes for unplaced exactly what is
\* rendered without a place (node.py:1227).
THEOREM WallStaysWhole == WallSpec => []WallIsWhole
  <1>1. WallTypeOK => WallIsWhole
    <2> SUFFICES ASSUME WallTypeOK, NEW d \in Desktop
                 PROVE  /\ \A p \in Shown(d) :
                             Cardinality({a \in Album : p \in Deck(d, a)})
                               = IF p \in Standalone(d) THEN 0 ELSE 1
                        /\ Loose(d) = Rendered(d) \ DOMAIN Pins(d)
      BY DEF WallIsWhole
    <2>0. \A a \in Album : wall[d].albums[a].members \subseteq Photo
      BY DEF WallTypeOK, WallOf
    <2>1. ASSUME NEW p \in Shown(d)
          PROVE  Cardinality({a \in Album : p \in Deck(d, a)})
                   = IF p \in Standalone(d) THEN 0 ELSE 1
      <3>1. CASE Claims(d, p) = {}
        <4>1. AlbumOf(d, p) = {}
          BY <3>1, OneAlbum
        <4>2. {a \in Album : p \in Deck(d, a)} = {}
          BY <4>1 DEF Deck
        <4>3. p \in Standalone(d)
          BY <4>1 DEF Standalone
        <4> QED
          BY <4>2, <4>3, FS_EmptySet
      <3>2. CASE Claims(d, p) # {}
        <4>1. PICK a \in Claims(d, p) : AlbumOf(d, p) = {a}
          BY <3>2, OneAlbum
        <4>2. a \in Album /\ p \in Photo
          BY <2>0 DEF Claims
        <4>3. {c \in Album : p \in Deck(d, c)} = {a}
          BY <4>1, <4>2 DEF Deck
        <4>4. p \notin Standalone(d)
          BY <4>1 DEF Standalone
        <4> QED
          BY <4>3, <4>4, FS_Singleton
      <3> QED
        BY <3>1, <3>2
    <2>2. ASSUME NEW p PROVE AlbumOf(d, p) = {} <=> Claims(d, p) = {}
      BY OneAlbum
    <2>3. LoosePosts(d) = Standalone(d) \ DOMAIN Pins(d)
      BY <2>2 DEF LoosePosts, Standalone
    <2>4. ASSUME NEW a \in Album PROVE DeckedBy(d, a) = Deck(d, a)
      <3>1. ASSUME NEW p, AlbumOf(d, p) = {a} PROVE p \in wall[d].albums[a].members
        BY <3>1, OneAlbum DEF Claims
      <3> QED
        BY <3>1 DEF DeckedBy, Deck
    <2>5. LooseAlbums(d) = {a \in Album : Deck(d, a) # {}} \ DOMAIN Pins(d)
      BY <2>4 DEF LooseAlbums
    <2>6. Loose(d) = Rendered(d) \ DOMAIN Pins(d)
      BY <2>3, <2>5 DEF Loose, Rendered
    <2> QED
      BY <2>1, <2>6
  <1> QED
    BY <1>1, WallInvariance, PTL
----------------------------------------------------------------------------
(***************************************************************************)
(* Responses.  No two responses are of one moment, so that the fold is a   *)
(* recursion on the moments; a record in which a device has a hand says    *)
(* what its fold says, or nothing that was moderated there.                *)
(***************************************************************************)
MomentsApart ==
  /\ IsFiniteSet(responses)
  /\ \A r \in responses : r.at <= Cardinality(responses)
  /\ \A r, s \in responses : r.at = s.at => r = s

\* An entry is of a response, and so is what was moderated away as a reaction.
Rooted(d) ==
  /\ desk[d].held \subseteq responses
  /\ \A e \in desk[d].record.entries : \E r \in responses : e = EntryOf(r)
  /\ \A t \in desk[d].removed : t.kind = "reaction" =>
       \E r \in responses : r.kind = "reaction" /\ r.by = t.by /\ r.at = t.at

\* Nothing that was removed is left, nor an older reaction in its place.
Spared(entries, removed) ==
  \A e \in entries, t \in removed :
    e.by = t.by => e.at # t.at /\ ~(e.kind = "reaction" /\ t.kind = "reaction" /\ e.at < t.at)

OwnRecord(d) ==
  desk[d].mine =>
    /\ Events(d, desk[d].held) # {}
    /\ Spared(desk[d].record.entries, desk[d].removed)
    /\ ~desk[d].fresh =>
         desk[d].record.entries = Fold(Events(d, desk[d].held), desk[d].removed)

ResponseInv ==
  /\ ResponseTypeOK
  /\ MomentsApart
  /\ \A d \in Author : Rooted(d) /\ OwnRecord(d)

\* What is on the record after the events of the first n moments.
StepAt(t, entries, events, removed) ==
  IF \E r \in events : r.at = t
  THEN Folded(entries, CHOOSE r \in events : r.at = t, events, removed)
  ELSE entries

FoldsUpTo(f, n, events, removed) ==
  f = [t \in 0..n |-> IF t = 0 THEN {} ELSE StepAt(t, f[t - 1], events, removed)]

LEMMA FoldExists ==
  ASSUME NEW events, NEW removed
  PROVE  \E f : FoldsUpTo(f, MaxResponses, events, removed)
  <1>0. MaxResponses \in Nat
    BY ResponseAssumption
  <1> DEFINE S == {n \in 0..MaxResponses : \E f : FoldsUpTo(f, n, events, removed)}
  <1>1. 0 \in S
    <2> DEFINE f == [t \in {0} |-> {}]
    <2>1. 0..0 = {0}
      OBVIOUS
    <2>2. f = [t \in 0..0 |-> IF t = 0 THEN {} ELSE StepAt(t, f[t - 1], events, removed)]
      BY <2>1
    <2>3. FoldsUpTo(f, 0, events, removed)
      BY Zenon, <2>2 DEF FoldsUpTo
    <2> QED
      BY <1>0, <2>3
  <1>2. ASSUME NEW n \in 0..(MaxResponses - 1), n \in S
        PROVE  n + 1 \in S
    <2>1. PICK f : FoldsUpTo(f, n, events, removed)
      BY <1>2
    <2> DEFINE g == [t \in 0..(n + 1) |->
                       IF t = n + 1 THEN StepAt(t, f[n], events, removed) ELSE f[t]]
    <2>2. f = [t \in 0..n |-> IF t = 0 THEN {} ELSE StepAt(t, f[t - 1], events, removed)]
      BY <2>1 DEF FoldsUpTo
    <2>3. ASSUME NEW t \in 0..(n + 1)
          PROVE  g[t] = IF t = 0 THEN {} ELSE StepAt(t, g[t - 1], events, removed)
      <3>1. CASE t = n + 1
        <4>1. g[t] = StepAt(t, f[n], events, removed) /\ g[t - 1] = f[n] /\ t # 0
          BY <1>0, <3>1
        <4> HIDE DEF g
        <4> QED
          BY <4>1
      <3>2. CASE t # n + 1
        <4>1. t \in 0..n /\ g[t] = f[t] /\ (t # 0 => t - 1 \in 0..n /\ g[t - 1] = f[t - 1])
          BY <1>0, <3>2
        <4>2. f[t] = IF t = 0 THEN {} ELSE StepAt(t, f[t - 1], events, removed)
          BY <2>2, <4>1
        <4> HIDE DEF g
        <4> QED
          BY <4>1, <4>2
      <3> QED
        BY <3>1, <3>2
    <2>4. g = [t \in 0..(n + 1) |-> IF t = 0 THEN {} ELSE StepAt(t, g[t - 1], events, removed)]
      <3>1. g = [t \in 0..(n + 1) |-> g[t]]
        OBVIOUS
      <3> HIDE DEF g
      <3> QED
        BY <2>3, <3>1
    <2>5. FoldsUpTo(g, n + 1, events, removed)
      <3> HIDE DEF g
      <3> QED
        BY Zenon, <2>4 DEF FoldsUpTo
    <2> HIDE DEF g
    <2> QED
      BY <1>0, <2>5
  <1>3. MaxResponses \in S
    <2> HIDE DEF S
    <2>1. 0..MaxResponses \subseteq S
      BY <1>0, <1>1, <1>2, UpToAll
    <2> QED
      BY <1>0, <2>1
  <1> QED
    BY <1>3

Iterates(f, events, removed) ==
  /\ Fold(events, removed) = f[MaxResponses]
  /\ f[0] = {}
  /\ \A t \in 1..MaxResponses : f[t] = StepAt(t, f[t - 1], events, removed)

LEMMA FoldIsIterated ==
  ASSUME NEW events, NEW removed
  PROVE  \E f : Iterates(f, events, removed)
  <1>0. MaxResponses \in Nat
    BY ResponseAssumption
  <1> DEFINE f == CHOOSE f : FoldsUpTo(f, MaxResponses, events, removed)
  <1>1. FoldsUpTo(f, MaxResponses, events, removed)
    BY Zenon, FoldExists
  <1>2. Fold(events, removed) = f[MaxResponses]
    BY Zenon DEF Fold, FoldsUpTo, StepAt
  <1>3. f = [t \in 0..MaxResponses |->
               IF t = 0 THEN {} ELSE StepAt(t, f[t - 1], events, removed)]
    <2> HIDE DEF f
    <2> QED
      BY Zenon, <1>1 DEF FoldsUpTo
  <1> HIDE DEF f
  <1>4. \A t \in 0..MaxResponses :
          f[t] = IF t = 0 THEN {} ELSE StepAt(t, f[t - 1], events, removed)
    BY Zenon, <1>3
  <1>5. f[0] = {}
    BY <1>0, <1>4
  <1>6. \A t \in 1..MaxResponses : f[t] = StepAt(t, f[t - 1], events, removed)
    BY <1>0, <1>4
  <1> QED
    BY <1>2, <1>5, <1>6 DEF Iterates

\* At each moment at most one event is folded.
LEMMA StepFacts ==
  ASSUME NEW events \in SUBSET Response, \A r, s \in events : r.at = s.at => r = s,
         NEW t, NEW entries, NEW removed
  PROVE  \/ /\ \A r \in events : r.at # t
            /\ StepAt(t, entries, events, removed) = entries
         \/ \E r \in events : /\ r.at = t
                              /\ StepAt(t, entries, events, removed)
                                   = Folded(entries, r, events, removed)
  BY DEF StepAt

\* An entry comes from an event that was not moderated away.
Grounded(e, events, removed) ==
  \E r \in events :
    /\ e = EntryOf(r) /\ r.kind \in {"comment", "reaction"}
    /\ ~RemovedExactly(removed, r)
    /\ r.kind = "reaction" => ~CutOff(removed, r)

OneReactionEach(entries) ==
  \A e, g \in entries :
    (e.kind = "reaction" /\ g.kind = "reaction" /\ e.by = g.by) => e = g

LEMMA FoldedKeeps ==
  ASSUME NEW events \in SUBSET Response, NEW r \in events, NEW entries, NEW removed,
         \A e \in entries : Grounded(e, events, removed), OneReactionEach(entries)
  PROVE  /\ \A e \in Folded(entries, r, events, removed) : Grounded(e, events, removed)
         /\ OneReactionEach(Folded(entries, r, events, removed))
  <1> DEFINE others == {e \in entries : ~(e.by = r.by /\ e.kind = "reaction")}
  <1>1. r.kind \in {"comment", "reaction", "clear", "retract"}
    BY DEF Response, Kind
  <1>2. EntryOf(r).by = r.by /\ EntryOf(r).kind = r.kind
    BY DEF EntryOf
  <1>3. CASE Folded(entries, r, events, removed) = entries
    BY <1>3
  <1>4. CASE Folded(entries, r, events, removed) = others
    BY <1>4 DEF OneReactionEach
  <1>5. CASE /\ Folded(entries, r, events, removed) = entries \union {EntryOf(r)}
             /\ r.kind = "comment" /\ ~RemovedExactly(removed, r)
    <2>1. Grounded(EntryOf(r), events, removed)
      BY <1>5 DEF Grounded
    <2> QED
      BY <1>2, <1>5, <2>1 DEF OneReactionEach
  <1>6. CASE /\ Folded(entries, r, events, removed) = others \union {EntryOf(r)}
             /\ r.kind = "reaction" /\ ~RemovedExactly(removed, r) /\ ~CutOff(removed, r)
    <2>1. Grounded(EntryOf(r), events, removed)
      BY <1>6 DEF Grounded
    <2> QED
      BY <1>2, <1>6, <2>1 DEF OneReactionEach
  <1> QED
    BY <1>1, <1>3, <1>4, <1>5, <1>6 DEF Folded

\* What the fold yields is grounded in the events, with one reaction of each person.
LEMMA FoldIsGrounded ==
  ASSUME NEW events \in SUBSET Response, \A r, s \in events : r.at = s.at => r = s,
         NEW removed
  PROVE  /\ \A e \in Fold(events, removed) : Grounded(e, events, removed)
         /\ OneReactionEach(Fold(events, removed))
  <1>0. MaxResponses \in Nat
    BY ResponseAssumption
  <1>a. PICK f : Iterates(f, events, removed)
    BY FoldIsIterated
  <1>1. /\ Fold(events, removed) = f[MaxResponses]
        /\ f[0] = {}
        /\ \A t \in 1..MaxResponses : f[t] = StepAt(t, f[t - 1], events, removed)
    BY <1>a DEF Iterates
  <1> DEFINE Good(entries) == /\ \A e \in entries : Grounded(e, events, removed)
                              /\ OneReactionEach(entries)
             S == {n \in 0..MaxResponses : Good(f[n])}
  <1>2. 0 \in S
    BY <1>0, <1>1 DEF OneReactionEach
  <1>3. ASSUME NEW n \in 0..(MaxResponses - 1), n \in S
        PROVE  n + 1 \in S
    <2>1. n + 1 \in 1..MaxResponses /\ (n + 1) - 1 = n /\ n + 1 \in 0..MaxResponses
      BY <1>0
    <2>2. f[n + 1] = StepAt(n + 1, f[n], events, removed)
      BY <1>1, <2>1
    <2>3. Good(f[n])
      BY <1>3
    <2>4. Good(f[n + 1])
      <3>1. CASE StepAt(n + 1, f[n], events, removed) = f[n]
        BY <2>2, <2>3, <3>1
      <3>2. ASSUME NEW r \in events,
                   StepAt(n + 1, f[n], events, removed) = Folded(f[n], r, events, removed)
            PROVE  Good(f[n + 1])
        BY <2>2, <2>3, <3>2, FoldedKeeps
      <3> QED
        BY <3>1, <3>2, StepFacts
    <2> HIDE DEF Good
    <2> QED
      BY <2>1, <2>4
  <1>4. MaxResponses \in S
    <2> HIDE DEF S
    <2>1. 0..MaxResponses \subseteq S
      BY <1>0, <1>2, <1>3, UpToAll
    <2> QED
      BY <1>0, <2>1
  <1> QED
    BY <1>1, <1>4

\* What stands after the first n moments.
StandsAt(n, r, events) ==
  /\ r.at <= n /\ r.kind \in {"comment", "reaction"} /\ ~Retracted(events, r)
  /\ r.kind = "reaction" =>
       \A s \in events : (/\ s.by = r.by /\ s.kind \in {"reaction", "clear"}
                          /\ r.at < s.at /\ s.at <= n) => Retracted(events, s)

StandingAt(n, events) == {EntryOf(r) : r \in {s \in events : StandsAt(n, s, events)}}

\* One more moment, with nothing moderated away.
LEMMA FoldedStands ==
  ASSUME NEW events \in SUBSET Response, \A r, s \in events : r.at = s.at => r = s,
         NEW removed, removed = {},
         NEW n \in Nat, NEW r \in events, r.at = n + 1
  PROVE  Folded(StandingAt(n, events), r, events, removed) = StandingAt(n + 1, events)
  <1> DEFINE entries == StandingAt(n, events)
             others == {e \in entries : ~(e.by = r.by /\ e.kind = "reaction")}
  <1>1. \A s \in events : /\ s.at \in Nat /\ s.kind \in {"comment", "reaction", "clear", "retract"}
                          /\ (s.at <= n + 1 /\ s # r => s.at <= n)
    BY ResponseAssumption DEF Response, Kind, Moment
  <1>2. ~RemovedExactly(removed, r) /\ ~CutOff(removed, r)
    BY DEF RemovedExactly, CutOff
  <1>3. \A s \in events : /\ EntryOf(s).by = s.by /\ EntryOf(s).kind = s.kind
                          /\ EntryOf(s).at = s.at
    BY DEF EntryOf
  <1>4. CASE r.kind = "retract" \/ Retracted(events, r)
    <2>1. Folded(entries, r, events, removed) = entries
      BY <1>4 DEF Folded
    <2>2. ASSUME NEW s \in events
          PROVE  StandsAt(n + 1, s, events) <=> StandsAt(n, s, events)
      BY <1>1, <1>4 DEF StandsAt
    <2> QED
      BY <2>1, <2>2 DEF StandingAt
  <1>5. CASE r.kind = "comment" /\ ~Retracted(events, r)
    <2>1. Folded(entries, r, events, removed) = entries \union {EntryOf(r)}
      BY <1>2, <1>5 DEF Folded
    <2>2. ASSUME NEW s \in events
          PROVE  StandsAt(n + 1, s, events) <=> (StandsAt(n, s, events) \/ s = r)
      BY <1>1, <1>5 DEF StandsAt
    <2> QED
      BY <2>1, <2>2 DEF StandingAt
  <1>6. ASSUME NEW s \in events, r.kind \in {"clear", "reaction"}, ~Retracted(events, r), s # r
        PROVE  StandsAt(n + 1, s, events)
                 <=> (StandsAt(n, s, events) /\ ~(s.by = r.by /\ s.kind = "reaction"))
    <2>1. s.by = r.by /\ s.kind = "reaction" /\ s.at <= n => ~StandsAt(n + 1, s, events)
      BY <1>1, <1>6 DEF StandsAt
    <2>2. ~(s.by = r.by /\ s.kind = "reaction") =>
             (StandsAt(n + 1, s, events) <=> StandsAt(n, s, events))
      BY <1>1, <1>6 DEF StandsAt
    <2>3. StandsAt(n + 1, s, events) => s.at <= n
      BY <1>1, <1>6 DEF StandsAt
    <2> QED
      BY <2>1, <2>2, <2>3
  <1>7. others = {EntryOf(q) : q \in {s \in events :
                    StandsAt(n, s, events) /\ ~(s.by = r.by /\ s.kind = "reaction")}}
    BY <1>3 DEF StandingAt
  <1>8. ~StandsAt(n, r, events)
    BY <1>1 DEF StandsAt
  <1>9. CASE r.kind = "clear" /\ ~Retracted(events, r)
    <2>1. Folded(entries, r, events, removed) = others
      BY <1>2, <1>9 DEF Folded
    <2>2. ~StandsAt(n + 1, r, events)
      BY <1>9 DEF StandsAt
    <2>3. ASSUME NEW s \in events
          PROVE  StandsAt(n + 1, s, events)
                   <=> (StandsAt(n, s, events) /\ ~(s.by = r.by /\ s.kind = "reaction"))
      BY <1>6, <1>8, <1>9, <2>2
    <2> HIDE DEF entries, others
    <2> QED
      BY <1>7, <2>1, <2>3 DEF StandingAt, entries
  <1>10. CASE r.kind = "reaction" /\ ~Retracted(events, r)
    <2>1. Folded(entries, r, events, removed) = others \union {EntryOf(r)}
      BY <1>2, <1>10 DEF Folded
    <2>2. StandsAt(n + 1, r, events)
      BY <1>1, <1>10 DEF StandsAt
    <2>3. ASSUME NEW s \in events
          PROVE  StandsAt(n + 1, s, events)
                   <=> \/ s = r
                       \/ StandsAt(n, s, events) /\ ~(s.by = r.by /\ s.kind = "reaction")
      BY <1>6, <1>10, <2>2
    <2> HIDE DEF entries, others
    <2> QED
      BY <1>7, <2>1, <2>3 DEF StandingAt, entries
  <1> QED
    BY <1>1, <1>4, <1>5, <1>9, <1>10

\* With nothing moderated away the fold yields exactly what stands.
LEMMA FoldStands ==
  ASSUME NEW events \in SUBSET Response, \A r, s \in events : r.at = s.at => r = s,
         NEW removed, removed = {}
  PROVE  Fold(events, removed) = {EntryOf(r) : r \in Standing(events)}
  <1>0. /\ MaxResponses \in Nat
        /\ \A r \in events : r.at \in 1..MaxResponses
    BY ResponseAssumption DEF Response, Moment
  <1>a. PICK f : Iterates(f, events, removed)
    BY FoldIsIterated
  <1>1. /\ Fold(events, removed) = f[MaxResponses]
        /\ f[0] = {}
        /\ \A t \in 1..MaxResponses : f[t] = StepAt(t, f[t - 1], events, removed)
    BY <1>a DEF Iterates
  <1> DEFINE S == {n \in 0..MaxResponses : f[n] = StandingAt(n, events)}
  <1>2. 0 \in S
    <2>1. \A r \in events : ~StandsAt(0, r, events)
      BY <1>0 DEF StandsAt
    <2>2. StandingAt(0, events) = {}
      BY <2>1 DEF StandingAt
    <2> QED
      BY <1>0, <1>1, <2>2
  <1>3. ASSUME NEW n \in 0..(MaxResponses - 1), n \in S
        PROVE  n + 1 \in S
    <2>1. n + 1 \in 1..MaxResponses /\ (n + 1) - 1 = n /\ n + 1 \in 0..MaxResponses
          /\ n \in Nat
      BY <1>0
    <2>2. f[n + 1] = StepAt(n + 1, StandingAt(n, events), events, removed)
      BY <1>1, <1>3, <2>1
    <2>3. f[n + 1] = StandingAt(n + 1, events)
      <3>1. CASE /\ \A r \in events : r.at # n + 1
                 /\ f[n + 1] = StandingAt(n, events)
        <4>1. \A r \in events : r.at <= n + 1 <=> r.at <= n
          BY <1>0, <2>1, <3>1
        <4>2. \A r \in events : StandsAt(n + 1, r, events) <=> StandsAt(n, r, events)
          BY <4>1 DEF StandsAt
        <4> QED
          BY <3>1, <4>2 DEF StandingAt
      <3>2. ASSUME NEW r \in events, r.at = n + 1,
                   f[n + 1] = Folded(StandingAt(n, events), r, events, removed)
            PROVE  f[n + 1] = StandingAt(n + 1, events)
        BY <2>1, <3>2, FoldedStands
      <3>3. \/ /\ \A r \in events : r.at # n + 1
               /\ f[n + 1] = StandingAt(n, events)
            \/ \E r \in events :
                 r.at = n + 1 /\ f[n + 1] = Folded(StandingAt(n, events), r, events, removed)
        BY <2>2, StepFacts
      <3> QED
        BY <3>1, <3>2, <3>3
    <2> QED
      BY <2>1, <2>3
  <1>4. MaxResponses \in S
    <2> HIDE DEF S
    <2>1. 0..MaxResponses \subseteq S
      BY <1>0, <1>2, <1>3, UpToAll
    <2> QED
      BY <1>0, <2>1
  <1>5. ASSUME NEW r \in events
        PROVE  StandsAt(MaxResponses, r, events) <=> r \in Standing(events)
    <2>1. r.kind \in {"comment", "reaction", "clear", "retract"} /\ r.at <= MaxResponses
      BY <1>0 DEF Response, Kind
    <2>2. CASE r.kind # "reaction"
      BY <2>1, <2>2 DEF StandsAt, Standing, Retracted, LastReaction
    <2>3. CASE r.kind = "reaction"
      <3>1. StandsAt(MaxResponses, r, events) <=>
              /\ ~Retracted(events, r)
              /\ \A s \in events :
                   (s.by = r.by /\ s.kind \in {"reaction", "clear"} /\ r.at < s.at)
                     => Retracted(events, s)
        BY <1>0, <2>1, <2>3 DEF StandsAt
      <3>2. LastReaction(events, r) <=>
              \A s \in events :
                (s.by = r.by /\ s.kind \in {"reaction", "clear"} /\ r.at < s.at)
                  => Retracted(events, s)
        BY <1>0, <2>3 DEF LastReaction, Retracted
      <3>3. r \in Standing(events) <=> ~Retracted(events, r) /\ LastReaction(events, r)
        BY <2>3 DEF Standing, Retracted
      <3> QED
        BY <3>1, <3>2, <3>3
    <2> QED
      BY <2>2, <2>3
  <1>6. Standing(events) \subseteq events
    BY DEF Standing
  <1> QED
    BY <1>1, <1>4, <1>5, <1>6 DEF StandingAt

\* What the fold yields spares nothing that was moderated away.
LEMMA FoldIsSpared ==
  ASSUME NEW events, NEW removed, NEW rs \in SUBSET Response, events \subseteq rs,
         \A r, s \in rs : r.at = s.at => r = s,
         removed \in SUBSET Removal,
         \A t \in removed : t.kind = "reaction" =>
           \E r \in rs : r.kind = "reaction" /\ r.by = t.by /\ r.at = t.at
  PROVE  Spared(Fold(events, removed), removed)
  <1> SUFFICES ASSUME NEW e \in Fold(events, removed), NEW t \in removed, e.by = t.by
               PROVE  /\ e.at # t.at
                      /\ ~(e.kind = "reaction" /\ t.kind = "reaction" /\ e.at < t.at)
    BY DEF Spared
  <1>1. events \in SUBSET Response /\ \A r, s \in events : r.at = s.at => r = s
    OBVIOUS
  <1>2. PICK r \in events : /\ e = EntryOf(r) /\ r.kind \in {"comment", "reaction"}
                            /\ ~RemovedExactly(removed, r)
                            /\ r.kind = "reaction" => ~CutOff(removed, r)
    BY <1>1, FoldIsGrounded DEF Grounded
  <1>3. e.by = r.by /\ e.at = r.at /\ e.kind = r.kind
    BY <1>2 DEF EntryOf
  <1>4. r.at \in Nat /\ t.at \in Nat
    BY <1>1, ResponseAssumption DEF Response, Removal, Moment
  <1>5. CASE t.kind # "reaction"
    BY <1>2, <1>3, <1>5 DEF RemovedExactly
  <1>6. CASE t.kind = "reaction" /\ r.kind = "reaction"
    <2>1. ~(r.at <= t.at)
      BY <1>2, <1>3, <1>6 DEF CutOff
    <2> QED
      BY <1>3, <1>4, <2>1
  <1>7. CASE t.kind = "reaction" /\ r.kind # "reaction"
    <2>1. PICK s \in rs : s.kind = "reaction" /\ s.by = t.by /\ s.at = t.at
      BY <1>7
    <2>2. r \in rs
      BY <1>2
    <2>3. r.at # t.at
      BY <1>7, <2>1, <2>2
    <2> QED
      BY <1>3, <1>7, <2>3
  <1> QED
    BY <1>5, <1>6, <1>7

LEMMA EventsFacts ==
  ASSUME NEW d, NEW held, NEW more, held \subseteq more
  PROVE  /\ Events(d, held) \subseteq held
         /\ Events(d, held) \subseteq Events(d, more)
  BY DEF Events

LEMMA EventsStay ==
  ASSUME keys' = keys, NEW d, NEW held
  PROVE  Events(d, held)' = Events(d, held')
  BY DEF Events, Decodes

\* What one device does leaves the others as they are.
Desks(d) ==
  /\ desk' = [desk EXCEPT ![d] = desk'[d]]
  /\ keys' = keys /\ responses \subseteq responses'

LEMMA OthersKeep ==
  ASSUME ResponseInv, NEW d \in Author, Desks(d),
         responses' \in SUBSET Response, records' \in 0..MaxRecords, MomentsApart',
         desk'[d] \in Desk, Rooted(d)', OwnRecord(d)'
  PROVE  ResponseInv'
  <1>1. desk \in [Author -> Desk] /\ keys \in [Responder -> SUBSET Author]
    BY DEF ResponseInv, ResponseTypeOK
  <1>2. ASSUME NEW e \in Author, e # d
        PROVE  desk'[e] = desk[e]
    BY <1>1, <1>2 DEF Desks
  <1>3. ResponseTypeOK'
    BY <1>1 DEF Desks, ResponseTypeOK
  <1>4. ASSUME NEW e \in Author
        PROVE  Rooted(e)'
    BY <1>2 DEF Rooted, Desks, ResponseInv
  <1>5. ASSUME NEW e \in Author, e # d
        PROVE  OwnRecord(e)'
    <2>1. Events(e, desk[e].held)' = Events(e, desk[e].held)
      BY <1>2, <1>5 DEF Events, Decodes, Desks
    <2>2. OwnRecord(e)
      BY DEF ResponseInv
    <2> QED
      BY <1>2, <1>5, <2>1, <2>2 DEF OwnRecord
  <1> QED
    BY <1>3, <1>4, <1>5 DEF ResponseInv

\* A fold at d, with what it then holds and has removed.
LEMMA ProcessKeeps ==
  ASSUME ResponseInv, NEW d \in Author, NEW held \in SUBSET Response,
         NEW removed \in SUBSET Removal,
         Process(d, held, removed), keys' = keys, responses \subseteq responses',
         responses' \in SUBSET Response, MomentsApart',
         desk[d].held \subseteq held, held \subseteq responses',
         \A t \in removed : t.kind = "reaction" =>
           \E r \in responses' : r.kind = "reaction" /\ r.by = t.by /\ r.at = t.at
  PROVE  ResponseInv'
  <1> DEFINE events == Events(d, held)
             fold == Fold(events, removed)
             moved == [desk[d] EXCEPT !.held = held, !.removed = removed, !.fresh = TRUE]
  <1>0. /\ desk \in [Author -> Desk] /\ desk[d] \in Desk /\ records \in 0..MaxRecords
        /\ MaxRecords \in Nat /\ Rooted(d) /\ OwnRecord(d)
        /\ \A r, s \in responses' : r.at = s.at => r = s
    BY ResponseAssumption DEF ResponseInv, ResponseTypeOK, MomentsApart
  <1>1. /\ moved \in Desk /\ moved.held = held /\ moved.removed = removed
        /\ moved.fresh = TRUE /\ moved.mine = desk[d].mine /\ moved.record = desk[d].record
    BY <1>0 DEF Desk
  <1>2. events \subseteq held /\ events \subseteq responses'
    BY EventsFacts
  <1>3. Spared(fold, removed)
    BY <1>0, <1>2, FoldIsSpared
  <1>4. ASSUME NEW e \in fold
        PROVE  e \in Entry /\ \E r \in responses' : e = EntryOf(r)
    <2>1. events \in SUBSET Response /\ \A r, s \in events : r.at = s.at => r = s
      BY <1>0, <1>2
    <2>2. PICK r \in events : e = EntryOf(r) /\ r.kind \in {"comment", "reaction"}
      BY <1>4, <2>1, FoldIsGrounded DEF Grounded
    <2>3. r \in Response /\ r \in responses'
      BY <1>2, <2>1, <2>2
    <2> QED
      BY <2>2, <2>3 DEF EntryOf, Entry, Response
  <1>5. ASSUME desk'[d].held = held
        PROVE  Events(d, desk[d].held)' = events
    BY <1>5 DEF Events, Decodes
  <1>6. CASE Rebuilds(d, held, removed, desk[d].record)
    <2> DEFINE record == [rank |-> records + 1, entries |-> fold]
               new == [moved EXCEPT !.record = record, !.mine = TRUE, !.fresh = FALSE]
    <2>1. /\ records < MaxRecords /\ records' = records + 1
          /\ desk' = [desk EXCEPT ![d] = new]
      BY <1>6 DEF Process
    <2>2. records' \in 0..MaxRecords /\ record \in Record
      BY <1>0, <1>4, <2>1 DEF Record
    <2>3. /\ new \in Desk /\ new.held = held /\ new.removed = removed
          /\ new.fresh = FALSE /\ new.mine = TRUE /\ new.record = record
      <3> HIDE DEF moved, record
      <3> QED
        BY <1>1, <2>2 DEF Desk
    <2>4. record.entries = fold
      OBVIOUS
    <2> HIDE DEF new, record, fold, events
    <2>5. desk'[d] = new /\ desk' = [desk EXCEPT ![d] = desk'[d]]
      BY <1>0, <2>1
    <2>6. Desks(d)
      BY <2>5 DEF Desks
    <2>7. Rooted(d)'
      BY <1>4, <2>3, <2>4, <2>5 DEF Rooted
    <2>8. events # {}
      BY <1>6 DEF Rebuilds, events
    <2>9. Events(d, desk[d].held)' = events
      BY <1>5, <2>3, <2>5
    <2>10. OwnRecord(d)'
      BY <1>3, <2>3, <2>4, <2>5, <2>8, <2>9 DEF OwnRecord, fold
    <2> QED
      BY <2>2, <2>3, <2>5, <2>6, <2>7, <2>10, OthersKeep
  <1>7. CASE ~Rebuilds(d, held, removed, desk[d].record)
    <2>1. records' = records /\ desk' = [desk EXCEPT ![d] = moved]
      BY <1>7 DEF Process
    <2> HIDE DEF moved
    <2>2. desk'[d] = moved /\ desk' = [desk EXCEPT ![d] = desk'[d]]
      BY <1>0, <2>1
    <2>3. Desks(d)
      BY <2>2 DEF Desks
    <2>4. Rooted(d)'
      BY <1>0, <1>1, <2>2 DEF Rooted
    <2>5. Events(d, desk[d].held)' = events
      BY <1>1, <1>5, <2>2
    <2>6. OwnRecord(d)'
      <3>1. CASE ~desk[d].mine
        BY <1>1, <2>2, <3>1 DEF OwnRecord
      <3>2. CASE desk[d].mine
        <4>1. Events(d, desk[d].held) \subseteq events
          BY EventsFacts
        <4>2. events # {}
          BY <1>0, <3>2, <4>1 DEF OwnRecord
        <4>3. desk[d].record.entries = fold
          BY <1>7, <4>2 DEF Rebuilds
        <4> HIDE DEF fold, events
        <4> QED
          BY <1>1, <1>3, <2>2, <2>5, <4>2, <4>3 DEF OwnRecord
      <3> QED
        BY <3>1, <3>2
    <2> QED
      BY <1>0, <1>1, <2>1, <2>2, <2>3, <2>4, <2>6, OthersKeep
  <1> QED
    BY <1>6, <1>7

LEMMA ComposesFacts ==
  ASSUME ResponseInv, NEW p \in Person, NEW kind \in Kind, NEW of \in {0} \union Moment,
         Composes(p, kind, of)
  PROVE  /\ responses \subseteq responses' /\ responses' \in SUBSET Response
         /\ MomentsApart'
  <1> DEFINE n == Cardinality(responses)
             new == [by |-> p, at |-> n + 1, kind |-> kind, of |-> of]
  <1>1. n + 1 <= MaxResponses /\ responses' = responses \union {new}
    BY DEF Composes
  <1>2. IsFiniteSet(responses) /\ \A r \in responses : r.at <= n
    BY DEF ResponseInv, MomentsApart
  <1>3. n \in Nat
    BY <1>2, FS_CardinalityType
  <1>4. responses \in SUBSET Response /\ \A r \in responses : r.at \in Nat
    BY ResponseAssumption DEF ResponseInv, ResponseTypeOK, Response, Moment
  <1>5. new \in Response /\ new.at = n + 1
    BY <1>1, <1>3, ResponseAssumption DEF Response, Moment
  <1> HIDE DEF new, n
  <1>6. \A r \in responses : r.at # new.at
    BY <1>2, <1>3, <1>4, <1>5
  <1>7. new \notin responses
    BY <1>6
  <1>8. IsFiniteSet(responses') /\ Cardinality(responses') = n + 1
    BY <1>1, <1>2, <1>7, FS_AddElement DEF n
  <1>9. \A r \in responses' : r.at <= n + 1
    BY <1>1, <1>2, <1>3, <1>4, <1>5
  <1>10. \A r, s \in responses' : r.at = s.at => r = s
    BY <1>1, <1>6 DEF ResponseInv, MomentsApart
  <1> QED
    BY <1>1, <1>4, <1>5, <1>8, <1>9, <1>10 DEF MomentsApart

LEMMA ReceiveKeeps ==
  ASSUME ResponseInv, NEW d \in Author, NEW r \in responses, Receive(d, r)
  PROVE  ResponseInv'
  <1> DEFINE new == [desk[d] EXCEPT !.held = @ \union {r}, !.fresh = TRUE]
  <1>0. /\ desk \in [Author -> Desk] /\ desk[d] \in Desk /\ records \in 0..MaxRecords
        /\ Rooted(d) /\ OwnRecord(d) /\ MomentsApart
        /\ responses \in SUBSET Response
    BY DEF ResponseInv, ResponseTypeOK
  <1>1. /\ desk' = [desk EXCEPT ![d] = new]
        /\ keys' = keys /\ responses' = responses /\ records' = records
    BY DEF Receive
  <1>2. /\ new \in Desk /\ new.held = desk[d].held \union {r} /\ new.fresh = TRUE
        /\ new.removed = desk[d].removed /\ new.mine = desk[d].mine
        /\ new.record = desk[d].record
    BY <1>0 DEF Desk
  <1> HIDE DEF new
  <1>3. desk'[d] = new /\ desk' = [desk EXCEPT ![d] = desk'[d]]
    BY <1>0, <1>1
  <1>4. Desks(d)
    BY <1>1, <1>3 DEF Desks
  <1>5. Rooted(d)'
    BY <1>0, <1>1, <1>2, <1>3 DEF Rooted
  <1>6. Events(d, desk[d].held) \subseteq Events(d, desk[d].held)'
    BY <1>1, <1>2, <1>3 DEF Events, Decodes
  <1>7. OwnRecord(d)'
    BY <1>0, <1>2, <1>3, <1>6 DEF OwnRecord
  <1>8. MomentsApart'
    BY <1>0, <1>1 DEF MomentsApart
  <1> QED
    BY <1>0, <1>1, <1>2, <1>3, <1>4, <1>5, <1>7, <1>8, OthersKeep

LEMMA SiblingKeeps ==
  ASSUME ResponseInv, NEW d \in Author, NEW e \in Author, Sibling(d, e)
  PROVE  ResponseInv'
  <1> DEFINE later == desk[e].record.rank < desk[d].record.rank
             new == [desk[e] EXCEPT !.held = @ \union desk[d].held,
                                    !.record = IF later THEN desk[d].record ELSE @,
                                    !.mine = @ /\ ~later,
                                    !.fresh = @ \/ ~(desk[d].held \subseteq desk[e].held)]
  <1>0. /\ desk \in [Author -> Desk] /\ desk[d] \in Desk /\ desk[e] \in Desk
        /\ records \in 0..MaxRecords
        /\ Rooted(d) /\ Rooted(e) /\ OwnRecord(e) /\ MomentsApart
        /\ responses \in SUBSET Response
    BY DEF ResponseInv, ResponseTypeOK
  <1>1. /\ desk' = [desk EXCEPT ![e] = new]
        /\ keys' = keys /\ responses' = responses /\ records' = records
    BY DEF Sibling
  <1>2. /\ new \in Desk /\ new.held = desk[e].held \union desk[d].held
        /\ new.removed = desk[e].removed
        /\ new.record = IF later THEN desk[d].record ELSE desk[e].record
    BY <1>0 DEF Desk
  <1>3. new.mine => desk[e].mine /\ new.record = desk[e].record
    BY <1>0 DEF Desk
  <1>4. ~new.fresh => ~desk[e].fresh /\ new.held = desk[e].held
    BY <1>0, <1>2 DEF Desk
  <1> HIDE DEF new, later
  <1>5. desk'[e] = new /\ desk' = [desk EXCEPT ![e] = desk'[e]]
    BY <1>0, <1>1
  <1>6. Desks(e)
    BY <1>1, <1>5 DEF Desks
  <1>7. Rooted(e)'
    BY <1>0, <1>1, <1>2, <1>5 DEF Rooted
  <1>8. /\ Events(e, desk[e].held) \subseteq Events(e, desk[e].held)'
        /\ desk'[e].held = desk[e].held =>
             Events(e, desk[e].held)' = Events(e, desk[e].held)
    BY <1>1, <1>2, <1>5 DEF Events, Decodes
  <1>9. OwnRecord(e)'
    <2> SUFFICES ASSUME desk'[e].mine
                 PROVE  /\ Events(e, desk[e].held)' # {}
                        /\ Spared(desk'[e].record.entries, desk'[e].removed)
                        /\ ~desk'[e].fresh =>
                             desk'[e].record.entries
                               = Fold(Events(e, desk[e].held)', desk'[e].removed)
      BY DEF OwnRecord
    <2>1. desk[e].mine /\ desk'[e].record = desk[e].record
          /\ desk'[e].removed = desk[e].removed
      BY <1>2, <1>3, <1>5
    <2>2. ~desk'[e].fresh => ~desk[e].fresh /\ desk'[e].held = desk[e].held
      BY <1>4, <1>5
    <2> QED
      BY <1>0, <1>8, <2>1, <2>2 DEF OwnRecord
  <1>10. MomentsApart'
    BY <1>0, <1>1 DEF MomentsApart
  <1> QED
    BY <1>0, <1>1, <1>2, <1>5, <1>6, <1>7, <1>9, <1>10, OthersKeep

LEMMA RespondKeeps ==
  ASSUME ResponseInv, NEW p \in Person, NEW kind \in Kind, NEW of \in {0} \union Moment,
         Respond(p, kind, of)
  PROVE  ResponseInv'
  <1>1. /\ Composes(p, kind, of)
        /\ keys' = keys /\ desk' = desk /\ records' = records
    BY DEF Respond
  <1>2. /\ responses \subseteq responses' /\ responses' \in SUBSET Response
        /\ MomentsApart'
    BY <1>1, ComposesFacts
  <1>3. ResponseTypeOK'
    BY <1>1, <1>2 DEF ResponseInv, ResponseTypeOK
  <1>4. ASSUME NEW d \in Author
        PROVE  Rooted(d)' /\ OwnRecord(d)'
    <2>1. Rooted(d) /\ OwnRecord(d)
      BY DEF ResponseInv
    <2>2. Events(d, desk[d].held)' = Events(d, desk[d].held)
      BY <1>1 DEF Events, Decodes
    <2>3. Rooted(d)'
      BY <1>1, <1>2, <2>1 DEF Rooted
    <2>4. OwnRecord(d)'
      BY <1>1, <2>1, <2>2 DEF OwnRecord
    <2> QED
      BY <2>3, <2>4
  <1> QED
    BY <1>2, <1>3, <1>4 DEF ResponseInv

LEMMA FoldActionsKeep ==
  ASSUME ResponseInv, NEW d \in Author,
         \/ \E kind \in Kind, of \in {0} \union Moment : RespondToOneself(d, kind, of)
         \/ ProcessResponses(d)
         \/ \E e \in desk[d].record.entries : RemoveResponse(d, e)
  PROVE  ResponseInv'
  <1>0. /\ desk[d] \in Desk /\ Rooted(d) /\ MomentsApart
        /\ responses \in SUBSET Response
        /\ desk[d].held \in SUBSET Response /\ desk[d].removed \in SUBSET Removal
    BY DEF ResponseInv, ResponseTypeOK, Desk
  <1>1. ASSUME NEW kind \in Kind, NEW of \in {0} \union Moment, RespondToOneself(d, kind, of)
        PROVE  ResponseInv'
    <2> DEFINE held == desk[d].held \union (responses' \ responses)
    <2>1. /\ Composes(Myself, kind, of) /\ Process(d, held, desk[d].removed) /\ keys' = keys
      BY <1>1 DEF RespondToOneself
    <2>2. /\ responses \subseteq responses' /\ responses' \in SUBSET Response
          /\ MomentsApart'
      BY <2>1, ComposesFacts DEF Person
    <2>3. /\ held \in SUBSET Response /\ desk[d].held \subseteq held
          /\ held \subseteq responses'
      BY <1>0, <2>2 DEF Rooted
    <2>4. \A t \in desk[d].removed : t.kind = "reaction" =>
            \E r \in responses' : r.kind = "reaction" /\ r.by = t.by /\ r.at = t.at
      BY <1>0, <2>2 DEF Rooted
    <2> HIDE DEF held
    <2> QED
      BY <1>0, <2>1, <2>2, <2>3, <2>4, ProcessKeeps
  <1>2. CASE ProcessResponses(d)
    <2>1. /\ Process(d, desk[d].held, desk[d].removed)
          /\ keys' = keys /\ responses' = responses
      BY <1>2 DEF ProcessResponses
    <2>2. MomentsApart'
      BY <1>0, <2>1 DEF MomentsApart
    <2>3. \A t \in desk[d].removed : t.kind = "reaction" =>
            \E r \in responses' : r.kind = "reaction" /\ r.by = t.by /\ r.at = t.at
      BY <1>0, <2>1 DEF Rooted
    <2>4. desk[d].held \subseteq responses'
      BY <1>0, <2>1 DEF Rooted
    <2> QED
      BY <1>0, <2>1, <2>2, <2>3, <2>4, ProcessKeeps
  <1>3. ASSUME NEW e \in desk[d].record.entries, RemoveResponse(d, e)
        PROVE  ResponseInv'
    <2> DEFINE t0 == [e EXCEPT !.kind = RemovedKind(d, e)]
               removed == desk[d].removed \union {t0}
    <2>1. /\ Process(d, desk[d].held, removed)
          /\ keys' = keys /\ responses' = responses
      BY <1>3 DEF RemoveResponse
    <2>2. MomentsApart'
      BY <1>0, <2>1 DEF MomentsApart
    <2>3. e \in Entry
      BY <1>0 DEF Desk, Record
    <2>4. PICK r \in responses : e = EntryOf(r)
      BY <1>0 DEF Rooted
    <2>5. e.by = r.by /\ e.at = r.at /\ e.kind = r.kind
      BY <2>4 DEF EntryOf
    <2>6. RemovedKind(d, e) \in {e.kind, "comment"}
      BY DEF RemovedKind
    <2>7. /\ t0 \in Removal /\ t0.by = e.by /\ t0.at = e.at
          /\ t0.kind = RemovedKind(d, e)
      BY <2>3, <2>6 DEF Entry, Removal, Kind
    <2> HIDE DEF t0
    <2>8. removed \in SUBSET Removal
      BY <1>0, <2>7
    <2>9. \A t \in removed : t.kind = "reaction" =>
            \E q \in responses' : q.kind = "reaction" /\ q.by = t.by /\ q.at = t.at
      BY <1>0, <2>1, <2>5, <2>6, <2>7 DEF Rooted
    <2>10. desk[d].held \subseteq responses'
      BY <1>0, <2>1 DEF Rooted
    <2> HIDE DEF removed
    <2> QED
      BY <1>0, <2>1, <2>2, <2>8, <2>9, <2>10, ProcessKeeps
  <1> QED
    BY <1>1, <1>2, <1>3

\* Whatever is composed, relayed, folded, moderated and merged by however many devices,
\* a record that a device published last says nothing that was moderated there, and is
\* the fold of what the device holds until something new comes to it (node.py:2768).
THEOREM ResponseInvariance == ResponseSpec => []ResponseInv
  <1>1. ResponseInit => ResponseInv
    <2> SUFFICES ASSUME ResponseInit PROVE ResponseInv
      OBVIOUS
    <2>0. MaxRecords \in Nat /\ 0 \in 0..MaxRecords
      BY ResponseAssumption
    <2>1. \A d \in Author :
            desk[d] = [held |-> {}, record |-> NoRecord, mine |-> FALSE, removed |-> {},
                       fresh |-> FALSE]
      BY DEF ResponseInit
    <2>2. NoRecord \in Record /\ NoRecord.entries = {}
      BY <2>0 DEF NoRecord, Record
    <2>3. desk \in [Author -> Desk]
      BY <2>2 DEF ResponseInit, Desk
    <2>4. ResponseTypeOK
      BY <2>0, <2>3 DEF ResponseInit, ResponseTypeOK
    <2>5. MomentsApart
      BY FS_EmptySet DEF ResponseInit, MomentsApart
    <2>6. \A d \in Author : Rooted(d) /\ OwnRecord(d)
      BY <2>1, <2>2 DEF Rooted, OwnRecord
    <2> QED
      BY <2>4, <2>5, <2>6 DEF ResponseInv
  <1>2. ASSUME ResponseInv, [ResponseNext]_responseVars
        PROVE  ResponseInv'
    <2>1. CASE UNCHANGED responseVars
      <3>1. keys' = keys /\ responses' = responses /\ desk' = desk /\ records' = records
        BY <2>1 DEF responseVars
      <3>2. \A d \in Author : Events(d, desk[d].held)' = Events(d, desk[d].held)
        BY <3>1 DEF Events, Decodes
      <3>3. ResponseTypeOK' /\ MomentsApart'
        BY <1>2, <3>1 DEF ResponseInv, ResponseTypeOK, MomentsApart
      <3>4. \A d \in Author : Rooted(d)'
        BY <1>2, <3>1 DEF ResponseInv, Rooted
      <3>5. ASSUME NEW d \in Author PROVE OwnRecord(d)'
        BY <1>2, <3>1, <3>2 DEF ResponseInv, OwnRecord
      <3> QED
        BY <3>3, <3>4, <3>5 DEF ResponseInv
    <2>2. CASE ResponseNext
      <3>1. \A p \in Responder : p \in Person
        BY DEF Person
      <3> QED
        BY <1>2, <2>2, <3>1, RespondKeeps, FoldActionsKeep, ReceiveKeeps, SiblingKeeps
        DEF ResponseNext
    <2> QED
      BY <1>2, <2>1, <2>2
  <1> QED
    BY <1>1, <1>2, PTL DEF ResponseSpec

\* What the author moderated away on a device is in no record which that device publishes
\* later, and an older reaction does not come back in its place (node.py:2793).
THEOREM ModeratedIsGone == ResponseSpec => []ModeratedStaysGone
  <1>1. ResponseInv => ModeratedStaysGone
    BY DEF ResponseInv, OwnRecord, Spared, ModeratedStaysGone
  <1> QED
    BY <1>1, ResponseInvariance, PTL

\* A record says what the responses say: one reaction of each person at most, and where
\* the device decodes all and moderated nothing, exactly the comments and last reactions
\* that were neither retracted nor cleared (node.py:2768).
THEOREM RecordsAreRight == ResponseSpec => []RecordIsRight
  <1>1. ResponseInv => RecordIsRight
    <2> SUFFICES ASSUME ResponseInv, NEW d \in Author, desk[d].mine, ~desk[d].fresh
                 PROVE  /\ (desk[d].removed = {} /\ \A r \in desk[d].held : Decodes(d, r.by)) =>
                             desk[d].record.entries = {EntryOf(r) : r \in Standing(desk[d].held)}
                        /\ \A e, f \in desk[d].record.entries :
                             (e.kind = "reaction" /\ f.kind = "reaction" /\ e.by = f.by) => e = f
      BY DEF RecordIsRight
    <2> DEFINE events == Events(d, desk[d].held)
    <2>1. desk[d].record.entries = Fold(events, desk[d].removed)
      BY DEF ResponseInv, OwnRecord
    <2>2. events \in SUBSET Response /\ \A r, s \in events : r.at = s.at => r = s
      BY DEF Events, ResponseInv, ResponseTypeOK, MomentsApart, Rooted
    <2>3. ASSUME \A r \in desk[d].held : Decodes(d, r.by)
          PROVE  events = desk[d].held
      BY <2>3 DEF Events
    <2> HIDE DEF events
    <2>4. ASSUME desk[d].removed = {}, \A r \in desk[d].held : Decodes(d, r.by)
          PROVE  desk[d].record.entries = {EntryOf(r) : r \in Standing(desk[d].held)}
      <3>1. Fold(events, desk[d].removed) = {EntryOf(r) : r \in Standing(events)}
        BY <2>2, <2>4, FoldStands
      <3> QED
        BY <2>1, <2>3, <2>4, <3>1
    <2>5. OneReactionEach(desk[d].record.entries)
      BY <2>1, <2>2, FoldIsGrounded
    <2> QED
      BY <2>4, <2>5 DEF OneReactionEach
  <1> QED
    BY <1>1, ResponseInvariance, PTL

----------------------------------------------------------------------------
(***************************************************************************)
(* The four parts side by side (MCPosts): each behaves as its own          *)
(* specification says, so what is proved of a part holds of the            *)
(* composition, and of the instance of it that the run checks.             *)
(***************************************************************************)
LEMMA NoGrantsInv == NoGrants => GrantInv
  <1> SUFFICES ASSUME NoGrants PROVE GrantInv
    OBVIOUS
  <1>0. 0 \in Epoch /\ 1 \in 1..MaxEpoch /\ 0 \in 0..MaxMints /\ 0 \in 0..MaxChanges
    BY GrantAssumption DEF Epoch
  <1>1. Blank \in Replica
    BY <1>0 DEF Blank, Replica, NoWraps, Wraps
  <1>2. message \in Messages
    BY GrantAssumption DEF NoGrants, Messages, Origin, Device
  <1>3. GrantTypeOK
    BY <1>0, <1>1, <1>2 DEF NoGrants, GrantTypeOK
  <1>4. \A d \in Device : replica[d].grants = {} /\ replica[d].quiet = 0
    BY DEF NoGrants, Blank
  <1>5. Ranked /\ FriendsNamedForWall /\ \A d \in Own : Achieved(d)
    BY <1>4 DEF Ranked, FriendsNamedForWall, Achieved, Device
  <1> QED
    BY <1>3, <1>5 DEF GrantInv

LEMMA NoGrantsSettled == NoGrants => SettledInv
  <1> SUFFICES ASSUME NoGrants PROVE SettledInv
    OBVIOUS
  <1>1. \A d \in Own : replica[d].quiet = 0 /\ replica[d].cached = "no"
    BY DEF NoGrants, Blank, Device
  <1> QED
    BY <1>1, NoGrantsInv DEF SettledInv, KeySettled

\* The parts share no variable: a step of one leaves the others where they are, and a
\* behaviour of the composition is one of the responses, of the wall and of the bytes.
THEOREM PostsRunTheirParts == PostsSpec => ResponseSpec /\ WallSpec /\ BlobSpec
  <1>1. PostsInit => ResponseInit /\ WallInit /\ BlobInit
    BY DEF PostsInit
  <1>2. ASSUME [PostsNext]_postVars
        PROVE  [ResponseNext]_responseVars /\ [WallNext]_wallVars /\ [BlobNext]_blobVars
    BY <1>2 DEF PostsNext, GrantStep, ResponseStep, WallStep, BlobStep, postVars
  <1> QED
    BY <1>1, <1>2, PTL DEF PostsSpec, ResponseSpec, WallSpec, BlobSpec

\* And of the grants as far as their proofs need: they start from a state that satisfies
\* the invariant, if not from one where a device holds the message, and move as they may.
THEOREM GrantsOfPosts == PostsSpec => []SettledInv /\ [][GrantNext]_grantVars
  <1>1. PostsInit => SettledInv
    BY SettledInitially, NoGrantsSettled DEF PostsInit
  <1>2. ASSUME [PostsNext]_postVars PROVE [GrantNext]_grantVars
    BY <1>2 DEF PostsNext, GrantStep, ResponseStep, WallStep, BlobStep, postVars
  <1> QED
    BY <1>1, <1>2, SettledInductive, PTL DEF PostsSpec

\* Whichever part moves, the grants, the responses, the wall and the bytes keep their
\* types.
THEOREM PostsTypes == PostsSpec => []PostsTypeOK
  <1>1. SettledInv /\ ResponseInv /\ WallTypeOK /\ BlobInv => PostsTypeOK
    BY DEF SettledInv, GrantInv, ResponseInv, BlobInv, PostsTypeOK
  <1> QED
    BY <1>1, PostsRunTheirParts, GrantsOfPosts, ResponseInvariance, WallInvariance,
       BlobInvariance, PTL

\* Content, whatever happens to it: the sweeps cover whom they should and widen nothing,
\* what was moderated stays away and the record says what the responses say, the blocks
\* of the wall lie apart and show each post once, and bytes follow their messages.
THEOREM PostsAreSafe ==
  PostsSpec => [](/\ SettledIsCovered
                  /\ ModeratedStaysGone /\ RecordIsRight
                  /\ NoOverlap /\ WallIsWhole
                  /\ BytesFollow)
               /\ AudienceNotWidened
  <1>1. PostsSpec => []SettledIsCovered
    BY GrantsOfPosts, SettledGrantsCover, PTL
  <1>2. SettledInv /\ SettledInv' /\ [GrantNext]_grantVars => [MintsForOldAudience]_grantVars
    BY MintsDoNotWiden DEF SettledInv
  <1>3. PostsSpec => [][MintsForOldAudience]_grantVars
    BY <1>2, GrantsOfPosts, PTL
  <1>4. PostsSpec => AudienceNotWidened
    BY <1>3 DEF MintsForOldAudience, AudienceNotWidened
  <1> QED
    BY <1>1, <1>4, PostsRunTheirParts, ModeratedIsGone, RecordsAreRight, BlocksLieApart,
       WallStaysWhole, BytesReachTheHolders, PTL
=============================================================================
