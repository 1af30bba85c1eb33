------------------------- MODULE HearthStoreProofs -------------------------
(***************************************************************************)
(* Safety of the replicated store, for every set of devices, identities    *)
(* and messages and every bound on the sequence numbers.                   *)
(***************************************************************************)
EXTENDS HearthStore, SeenSetProofs

(***************************************************************************)
(* What holds of one node's store s when the messages are signed as sg     *)
(* says, and what no operation on a store undoes.                          *)
(***************************************************************************)
Counted(s, sg) ==
  \A x \in Id : x \in s.rows \/ s.dead[x] # Kept
    => sg[x] # Unsigned /\ SeenHas(s.seen[sg[x].dev], sg[x].seq)

CutOff(s, sg) ==
  \A x \in s.rows :
    s.rev[sg[x].dev] # NotRevoked => sg[x].seq <= s.rev[sg[x].dev]

ByAuthor(s, sg) ==
  \A x \in Id : s.dead[x] = "deleted"
    => \E t \in Id : /\ IsTag(t) /\ TargetOf[t] = x
                     /\ AuthorOf[t] = AuthorOf[x]
                     /\ sg[t] # Unsigned

GoodStore(s, sg) ==
  /\ \A d \in Node : Compacted(s.seen[d])
  /\ \A x \in s.rows : s.dead[x] = Kept
  /\ Counted(s, sg)
  /\ CutOff(s, sg)
  /\ ByAuthor(s, sg)

Grows(s, t) ==
  /\ \A x \in Id : s.dead[x] # Kept => t.dead[x] # Kept
  /\ \A x \in s.rows : x \in t.rows \/ t.dead[x] # Kept
  /\ \A d \in Node : \A q \in SeqNo : SeenHas(s.seen[d], q) => SeenHas(t.seen[d], q)

LEMMA KindFacts == \A x \in Id : ~(IsTag(x) /\ IsGrant(x))
BY DEF IsTag, IsGrant

\* _tombstone() touches the rows and the tombstones only, and a message keeps the
\* first reason it died for.
LEMMA BuryFacts ==
  ASSUME NEW s \in Stores, NEW ids \in SUBSET Id, NEW reason \in Reasons
  PROVE  LET t == Bury(s, ids, reason)
         IN  /\ t \in Stores
             /\ t.rows = s.rows \ ids
             /\ t.seen = s.seen /\ t.rev = s.rev /\ t.seq = s.seq
             /\ \A x \in Id : t.dead[x] = IF x \in ids /\ s.dead[x] = Kept
                                          THEN reason ELSE s.dead[x]
BY DEF Bury, Stores

\* Accepting a number changes one device's summary only.
LEMMA SeenFacts ==
  ASSUME NEW s \in Stores, NEW d \in Node, NEW q \in SeqNo,
         Compacted(s.seen[d]), ~SeenHas(s.seen[d], q)
  PROVE  LET t == [s EXCEPT !.seen[d] = SeenAdd(@, q)]
         IN  /\ t \in Stores
             /\ t.rows = s.rows /\ t.dead = s.dead /\ t.rev = s.rev /\ t.seq = s.seq
             /\ \A e \in Node \ {d} : t.seen[e] = s.seen[e]
             /\ t.seen[d] = SeenAdd(s.seen[d], q)
             /\ Compacted(t.seen[d])
             /\ SeenHas(t.seen[d], q)
             /\ \A r \in SeqNo : SeenHas(s.seen[d], r) => SeenHas(t.seen[d], r)
<1>1. s.seen[d] \in SeenSets
  BY DEF Stores
<1>2. /\ SeenAdd(s.seen[d], q) \in SeenSets
      /\ Compacted(SeenAdd(s.seen[d], q))
      /\ \A r \in Int : SeenHas(SeenAdd(s.seen[d], q), r) <=> SeenHas(s.seen[d], r) \/ r = q
  BY <1>1, SeenAddCorrect
<1>3. SeqNo \subseteq Int
  BY MaxSeqAssumption DEF SeqNo
<1>4. QED
  BY <1>2, <1>3 DEF Stores

\* A signature, once given, keeps a good store good.
LEMMA SigningKeepsGood ==
  ASSUME NEW s \in Stores,
         NEW sg \in [Id -> Signatures], NEW sg2 \in [Id -> Signatures],
         \A y \in Id : sg[y] # Unsigned => sg2[y] = sg[y],
         GoodStore(s, sg)
  PROVE  GoodStore(s, sg2)
<1>1. s.rows \subseteq Id
  BY DEF Stores
<1>2. \A y \in Id : y \in s.rows \/ s.dead[y] # Kept => sg2[y] = sg[y] /\ sg[y] # Unsigned
  BY DEF GoodStore, Counted
<1>3. Counted(s, sg2)
  BY <1>2 DEF GoodStore, Counted
<1>4. CutOff(s, sg2)
  BY <1>1, <1>2 DEF GoodStore, CutOff
<1>5. ByAuthor(s, sg2)
  BY DEF GoodStore, ByAuthor
<1>6. QED
  BY <1>3, <1>4, <1>5 DEF GoodStore

\* What a message deletes or invalidates is held, or is the message itself; and a
\* message is deleted by a tag of its own author only.
LEMMA VictimFacts ==
  ASSUME NEW s \in Stores, NEW x \in Id, ~Refused(s, x)
  PROVE  /\ Deleted(s, x) \in SUBSET (s.rows \union {x})
         /\ Invalidated(s, x) \in SUBSET (s.rows \union {x})
         /\ \A y \in Deleted(s, x) :
              \E t \in s.rows \union {x} : /\ IsTag(t) /\ TargetOf[t] = y
                                          /\ AuthorOf[t] = AuthorOf[y]
<1>1. CASE IsTag(x)
  <2>1. Deleted(s, x) = {TargetOf[x]} \intersect s.rows
    BY <1>1 DEF Deleted
  <2>2. Invalidated(s, x) \in SUBSET s.rows
    BY <1>1 DEF Invalidated
  <2>3. \A y \in Deleted(s, x) : TargetOf[x] = y /\ AuthorOf[x] = AuthorOf[y]
    BY <1>1, <2>1 DEF Refused
  <2> QED BY <1>1, <2>1, <2>2, <2>3
<1>2. CASE ~IsTag(x)
  <2>1. Deleted(s, x) = {y \in {x} : OwnTags(s, y) # {}}
    BY <1>2 DEF Deleted
  <2>2. Invalidated(s, x) \in SUBSET {x}
    BY <1>2 DEF Invalidated
  <2>3. ASSUME NEW y \in Deleted(s, x)
        PROVE  \E t \in s.rows : /\ IsTag(t) /\ TargetOf[t] = y
                               /\ AuthorOf[t] = AuthorOf[y]
    BY <2>1 DEF OwnTags
  <2> QED BY <2>1, <2>2, <2>3
<1>3. QED
  BY <1>1, <1>2

\* ingest_message() keeps a good store good, never undoes what the store holds,
\* and has counted what it accepted.
LEMMA IngestFacts ==
  ASSUME NEW s \in Stores, NEW x \in Id, NEW d \in Node, NEW q \in SeqNo,
         NEW sg \in [Id -> Signatures], NEW sg2 \in [Id -> Signatures],
         \A y \in Id : sg[y] # Unsigned => sg2[y] = sg[y],
         Accepts(s, x, d, q) => sg2[x] = [dev |-> d, seq |-> q],
         GoodStore(s, sg)
  PROVE  LET t == Ingest(s, x, d, q)
         IN  /\ t \in Stores
             /\ t.seq = s.seq
             /\ GoodStore(t, sg2)
             /\ Grows(s, t)
             /\ Accepts(s, x, d, q) => SeenHas(t.seen[d], q)
<1> DEFINE t == Ingest(s, x, d, q)
           known == [s EXCEPT !.seen[d] = SeenAdd(@, q)]
<1>1. GoodStore(s, sg2)
  BY SigningKeepsGood
<1>2. CASE x \in s.rows \/ s.dead[x] # Kept \/ ~Verified(s, d, q)
  <2>1. t = s /\ ~Accepts(s, x, d, q)
    BY <1>2 DEF Ingest, Accepts
  <2> QED BY <1>1, <2>1 DEF Grows
<1>3. CASE x \notin s.rows /\ s.dead[x] = Kept /\ Verified(s, d, q)
  <2>1. Compacted(s.seen[d]) /\ ~SeenHas(s.seen[d], q)
    BY <1>3 DEF GoodStore, Verified
  <2>2. /\ known \in Stores
        /\ known.rows = s.rows /\ known.dead = s.dead
        /\ known.rev = s.rev /\ known.seq = s.seq
        /\ \A e \in Node : Compacted(known.seen[e])
        /\ SeenHas(known.seen[d], q)
        /\ \A e \in Node : \A r \in SeqNo :
             SeenHas(s.seen[e], r) => SeenHas(known.seen[e], r)
    <3>1. /\ known \in Stores
          /\ known.rows = s.rows /\ known.dead = s.dead
          /\ known.rev = s.rev /\ known.seq = s.seq
          /\ \A e \in Node \ {d} : known.seen[e] = s.seen[e]
          /\ Compacted(known.seen[d])
          /\ SeenHas(known.seen[d], q)
          /\ \A r \in SeqNo : SeenHas(s.seen[d], r) => SeenHas(known.seen[d], r)
      BY <2>1, SeenFacts
    <3> HIDE DEF known
    <3> QED BY <3>1 DEF GoodStore
  <2> HIDE DEF known
  <2>3. GoodStore(known, sg2)
    <3>1. \A y \in Id : sg2[y] # Unsigned => sg2[y].dev \in Node /\ sg2[y].seq \in SeqNo
      BY DEF Signatures
    <3>2. Counted(known, sg2)
      BY <1>1, <2>2, <3>1 DEF GoodStore, Counted
    <3>3. CutOff(known, sg2) /\ ByAuthor(known, sg2)
      BY <1>1, <2>2 DEF GoodStore, CutOff, ByAuthor
    <3> QED BY <1>1, <2>2, <3>2, <3>3 DEF GoodStore
  <2>4. CASE Refused(s, x)
    <3>1. t = known /\ ~Accepts(s, x, d, q)
      BY <1>3, <2>4 DEF Ingest, Accepts, known
    <3> QED BY <2>2, <2>3, <3>1 DEF Grows
  <2>5. CASE ~Refused(s, x)
    <3> DEFINE held == [known EXCEPT !.rows = @ \union {x}]
               cut == Bury(held, Deleted(s, x), "deleted")
    <3>1. t = Bury(cut, Invalidated(s, x), "invalid")
      BY <1>3, <2>5 DEF Ingest, known
    <3>2. sg2[x] = [dev |-> d, seq |-> q]
      BY <1>3, <2>5 DEF Accepts
    <3>3. /\ held \in Stores
          /\ held.rows = s.rows \union {x}
          /\ held.dead = s.dead /\ held.seen = known.seen
          /\ held.rev = s.rev /\ held.seq = s.seq
      BY <2>2 DEF Stores
    <3> HIDE DEF held
    <3>4. /\ s.rows \union {x} \subseteq Id
          /\ Deleted(s, x) \in SUBSET (s.rows \union {x})
          /\ Invalidated(s, x) \in SUBSET (s.rows \union {x})
      BY <2>5, VictimFacts DEF Stores
    <3>5. /\ cut \in Stores
          /\ cut.rows = held.rows \ Deleted(s, x)
          /\ cut.seen = held.seen /\ cut.rev = held.rev /\ cut.seq = held.seq
          /\ \A y \in Id : cut.dead[y] = IF y \in Deleted(s, x) /\ held.dead[y] = Kept
                                         THEN "deleted" ELSE held.dead[y]
      BY <3>3, <3>4, BuryFacts DEF Reasons
    <3> HIDE DEF cut
    <3>6. /\ t \in Stores
          /\ t.rows = cut.rows \ Invalidated(s, x)
          /\ t.seen = cut.seen /\ t.rev = cut.rev /\ t.seq = cut.seq
          /\ \A y \in Id : t.dead[y] = IF y \in Invalidated(s, x) /\ cut.dead[y] = Kept
                                       THEN "invalid" ELSE cut.dead[y]
      BY <3>1, <3>4, <3>5, BuryFacts DEF Reasons
    <3> HIDE DEF t
    <3>7. /\ t.rows = (s.rows \union {x}) \ (Deleted(s, x) \union Invalidated(s, x))
          /\ t.seen = known.seen /\ t.rev = s.rev /\ t.seq = s.seq
          /\ \A y \in Id : t.dead[y] # Kept =>
               s.dead[y] # Kept \/ y \in Deleted(s, x) \union Invalidated(s, x)
          /\ \A y \in Id : s.dead[y] # Kept => t.dead[y] = s.dead[y]
          /\ \A y \in Deleted(s, x) \union Invalidated(s, x) : t.dead[y] # Kept
          /\ \A y \in Id : t.dead[y] = "deleted" =>
               s.dead[y] = "deleted" \/ y \in Deleted(s, x)
      BY <3>3, <3>4, <3>5, <3>6 DEF Kept
    <3>8. Counted(t, sg2)
      <4> SUFFICES ASSUME NEW y \in Id, y \in t.rows \/ t.dead[y] # Kept
                   PROVE  sg2[y] # Unsigned /\ SeenHas(t.seen[sg2[y].dev], sg2[y].seq)
        BY DEF Counted
      <4>1. CASE y = x
        <5>1. sg2[x] # Unsigned
          BY <3>2, MaxSeqAssumption DEF Unsigned, SeqNo
        <5> QED BY <2>2, <3>2, <3>7, <4>1, <5>1
      <4>2. CASE y # x
        <5>1. y \in known.rows \/ known.dead[y] # Kept
          BY <2>2, <3>4, <3>7, <4>2
        <5> QED BY <2>3, <3>7, <5>1 DEF GoodStore, Counted
      <4> QED BY <4>1, <4>2
    <3>9. CutOff(t, sg2)
      <4> SUFFICES ASSUME NEW y \in t.rows, t.rev[sg2[y].dev] # NotRevoked
                   PROVE  sg2[y].seq <= t.rev[sg2[y].dev]
        BY DEF CutOff
      <4>1. CASE y = x
        BY <1>3, <3>2, <3>7, <4>1 DEF Verified
      <4>2. CASE y # x
        BY <1>1, <3>7, <4>2 DEF GoodStore, CutOff
      <4> QED BY <4>1, <4>2
    <3>10. ByAuthor(t, sg2)
      <4> SUFFICES ASSUME NEW y \in Id, t.dead[y] = "deleted"
                   PROVE  \E z \in Id : /\ IsTag(z) /\ TargetOf[z] = y
                                        /\ AuthorOf[z] = AuthorOf[y]
                                        /\ sg2[z] # Unsigned
        BY DEF ByAuthor
      <4>1. CASE s.dead[y] = "deleted"
        BY <1>1, <4>1 DEF GoodStore, ByAuthor
      <4>2. CASE y \in Deleted(s, x)
        <5>1. PICK z \in s.rows \union {x} : /\ IsTag(z) /\ TargetOf[z] = y
                                            /\ AuthorOf[z] = AuthorOf[y]
          BY <2>5, <4>2, VictimFacts
        <5>2. sg2[x] # Unsigned
          BY <3>2, MaxSeqAssumption DEF Unsigned, SeqNo
        <5>3. sg2[z] # Unsigned
          BY <1>1, <3>4, <5>1, <5>2 DEF GoodStore, Counted
        <5> QED BY <3>4, <5>1, <5>3
      <4> QED BY <3>7, <4>1, <4>2
    <3>11. \A y \in t.rows : t.dead[y] = Kept
      BY <1>1, <1>3, <3>4, <3>7 DEF GoodStore
    <3>12. GoodStore(t, sg2)
      BY <2>2, <3>7, <3>8, <3>9, <3>10, <3>11 DEF GoodStore
    <3>13. Grows(s, t) /\ SeenHas(t.seen[d], q)
      BY <2>2, <3>7 DEF Grows
    <3> QED BY <3>6, <3>7, <3>12, <3>13 DEF t
  <2> QED BY <2>4, <2>5
<1>4. QED
  BY <1>2, <1>3

\* Burying held messages for a reason other than deletion keeps a good store good.
LEMMA BuryKeepsGood ==
  ASSUME NEW s \in Stores, NEW ids \in SUBSET s.rows,
         NEW reason \in Reasons \ {"deleted"},
         NEW sg \in [Id -> Signatures], GoodStore(s, sg)
  PROVE  LET t == Bury(s, ids, reason)
         IN  t \in Stores /\ GoodStore(t, sg) /\ Grows(s, t) /\ t.seq = s.seq
<1> DEFINE t == Bury(s, ids, reason)
<1>1. ids \in SUBSET Id /\ s.rows \in SUBSET Id
  BY DEF Stores
<1>2. /\ t \in Stores
      /\ t.rows = s.rows \ ids
      /\ t.seen = s.seen /\ t.rev = s.rev /\ t.seq = s.seq
      /\ \A x \in Id : t.dead[x] = IF x \in ids /\ s.dead[x] = Kept
                                   THEN reason ELSE s.dead[x]
  <2>1. reason \in Reasons
    OBVIOUS
  <2> HIDE DEF t
  <2>2. t = Bury(s, ids, reason)
    BY DEF t
  <2> QED BY <1>1, <2>1, <2>2, BuryFacts DEF Reasons
<1> HIDE DEF t
<1>3. reason # Kept /\ reason # "deleted"
  BY DEF Reasons, Kept
<1>4. Counted(t, sg) /\ CutOff(t, sg)
  BY <1>1, <1>2 DEF GoodStore, Counted, CutOff
<1>5. ByAuthor(t, sg)
  BY <1>2, <1>3 DEF GoodStore, ByAuthor
<1>6. GoodStore(t, sg)
  BY <1>1, <1>2, <1>4, <1>5 DEF GoodStore
<1>7. Grows(s, t)
  BY <1>1, <1>2, <1>3 DEF Grows
<1>8. QED
  BY <1>2, <1>6, <1>7 DEF t

\* Revocations drop every message above the new bounds, and nothing else.
LEMMA RevocationFacts ==
  ASSUME NEW s \in Stores, NEW revs \in [Node -> Bounds],
         sig \in [Id -> Signatures], GoodStore(s, sig)
  PROVE  LET t == IngestRevocations(s, revs)
         IN  t \in Stores /\ GoodStore(t, sig) /\ Grows(s, t)
<1> DEFINE bound == [d \in Node |-> IF revs[d] # NotRevoked THEN revs[d] ELSE s.rev[d]]
           late  == {x \in s.rows : LET d == sig[x].dev IN
                       revs[d] # NotRevoked /\ sig[x].seq > revs[d]}
           told  == [s EXCEPT !.rev = bound]
           t     == IngestRevocations(s, revs)
<1>1. /\ told \in Stores
      /\ told.rows = s.rows /\ told.dead = s.dead
      /\ told.seen = s.seen /\ told.rev = bound
  BY DEF Stores
<1>2. t = Bury(told, late, "retro-drop")
  BY DEF IngestRevocations
<1>3. late \in SUBSET s.rows /\ s.rows \subseteq Id
  BY DEF Stores
<1>4. /\ t \in Stores
      /\ t.rows = s.rows \ late
      /\ t.seen = s.seen /\ t.rev = bound
      /\ \A x \in Id : t.dead[x] = IF x \in late /\ s.dead[x] = Kept
                                   THEN "retro-drop" ELSE s.dead[x]
  <2>1. late \in SUBSET Id /\ "retro-drop" \in Reasons
    BY <1>3 DEF Reasons
  <2>2. /\ t \in Stores
        /\ t.rows = told.rows \ late
        /\ t.seen = told.seen /\ t.rev = told.rev
        /\ \A x \in Id : t.dead[x] = IF x \in late /\ told.dead[x] = Kept
                                     THEN "retro-drop" ELSE told.dead[x]
    <3> HIDE DEF late, told, bound
    <3> HIDE DEF t
    <3> QED BY <1>1, <1>2, <2>1, BuryFacts DEF Reasons
  <2> HIDE DEF late, told, bound, t
  <2> QED BY <1>1, <2>2
<1>5. \A x \in s.rows : sig[x].dev \in Node /\ sig[x].seq \in SeqNo
  BY <1>3 DEF GoodStore, Counted, Signatures
<1>6. CutOff(t, sig)
  <2> SUFFICES ASSUME NEW x \in t.rows, t.rev[sig[x].dev] # NotRevoked
               PROVE  sig[x].seq <= t.rev[sig[x].dev]
    BY DEF CutOff
  <2>1. x \in s.rows /\ x \notin late /\ sig[x].dev \in Node
    BY <1>4, <1>5
  <2>2. CASE revs[sig[x].dev] # NotRevoked
    <3>1. t.rev[sig[x].dev] = revs[sig[x].dev]
      BY <1>4, <2>1, <2>2
    <3>2. ~(sig[x].seq > revs[sig[x].dev])
      BY <2>1, <2>2
    <3>3. revs[sig[x].dev] \in Int /\ sig[x].seq \in Int
      BY <1>5, <2>1, MaxSeqAssumption DEF Bounds, NotRevoked, SeqNo
    <3> QED BY <3>1, <3>2, <3>3
  <2>3. CASE revs[sig[x].dev] = NotRevoked
    BY <1>4, <2>1, <2>3 DEF GoodStore, CutOff
  <2> QED BY <2>2, <2>3
<1> HIDE DEF t, late, told, bound
<1>7. Counted(t, sig)
  BY <1>3, <1>4 DEF GoodStore, Counted
<1>8. ByAuthor(t, sig)
  BY <1>4 DEF GoodStore, ByAuthor
<1>9. GoodStore(t, sig)
  BY <1>3, <1>4, <1>6, <1>7, <1>8 DEF GoodStore
<1>10. Grows(s, t)
  BY <1>3, <1>4 DEF Grows, Kept
<1>11. QED
  BY <1>4, <1>9, <1>10 DEF t

\* The counter in keys.json plays no part in what a good store is.
LEMMA CounterFacts ==
  ASSUME NEW s \in Stores, NEW t \in Stores, NEW k \in 0..MaxSeq,
         NEW sg \in [Id -> Signatures], GoodStore(t, sg), Grows(s, t)
  PROVE  LET u == [t EXCEPT !.seq = k]
         IN  /\ u \in Stores /\ u.seq = k /\ u.seen = t.seen
             /\ GoodStore(u, sg) /\ Grows(s, u)
<1> DEFINE u == [t EXCEPT !.seq = k]
<1>1. /\ u \in Stores /\ u.seq = k
      /\ u.rows = t.rows /\ u.dead = t.dead /\ u.seen = t.seen /\ u.rev = t.rev
  BY DEF Stores
<1> HIDE DEF u
<1>2. GoodStore(u, sg) /\ Grows(s, u)
  BY <1>1 DEF GoodStore, Counted, CutOff, ByAuthor, Grows
<1>3. QED
  BY <1>1, <1>2 DEF u

\* Writing a message, with or without saving the counter, keeps the store good and
\* signs nothing but that message, under a number the device has not used.
LEMMA PublishFacts ==
  ASSUME NEW s \in Stores, NEW n \in Node, NEW x \in Id,
         NEW sg \in [Id -> Signatures], GoodStore(s, sg),
         sg[x] = Unsigned, s.seq < MaxSeq
  PROVE  LET sg2 == SignedBy(sg, s, n, x)
         IN  /\ sg2 \in [Id -> Signatures]
             /\ \A y \in Id \ {x} : sg2[y] = sg[y]
             /\ sg2[x] # Unsigned => /\ sg2[x] = [dev |-> n, seq |-> s.seq + 1]
                                    /\ ~SeenHas(s.seen[n], s.seq + 1)
             /\ s.seq + 1 \in SeqNo
             /\ \A t \in {Ingest(s, x, n, s.seq + 1), Published(s, n, x)} :
                  /\ t \in Stores
                  /\ GoodStore(t, sg2) /\ Grows(s, t)
                  /\ sg2[x] # Unsigned => SeenHas(t.seen[n], s.seq + 1)
             /\ Published(s, n, x).seq = s.seq + 1
<1> DEFINE q == s.seq + 1
           sg2 == SignedBy(sg, s, n, x)
           t == Ingest(s, x, n, q)
<1>1. s.seq \in 0..MaxSeq /\ q \in SeqNo
  BY MaxSeqAssumption DEF Stores, SeqNo
<1> HIDE DEF q
<1>2. [dev |-> n, seq |-> q] \in Signatures /\ [dev |-> n, seq |-> q] # Unsigned
  BY <1>1, MaxSeqAssumption DEF Signatures, Unsigned, SeqNo
<1>3. CASE Accepts(s, x, n, q)
  <2>1. sg2 = [sg EXCEPT ![x] = [dev |-> n, seq |-> q]]
    BY <1>3 DEF SignedBy, q
  <2>2. /\ sg2 \in [Id -> Signatures]
        /\ \A y \in Id \ {x} : sg2[y] = sg[y]
        /\ sg2[x] = [dev |-> n, seq |-> q]
    BY <1>2, <2>1
  <2>3. ~SeenHas(s.seen[n], q)
    BY <1>3 DEF Accepts, Verified
  <2> HIDE DEF sg2, t
  <2>4. t \in Stores /\ t.seq = s.seq /\ GoodStore(t, sg2) /\ Grows(s, t) /\ SeenHas(t.seen[n], q)
    <3>1. \A y \in Id : sg[y] # Unsigned => sg2[y] = sg[y]
      BY <2>2
    <3> QED BY <1>1, <1>3, <2>2, <3>1, IngestFacts DEF t
  <2>5. Published(s, n, x) = [t EXCEPT !.seq = q]
    BY <2>4 DEF Published, t, q
  <2>6. LET u == [t EXCEPT !.seq = q]
        IN  u \in Stores /\ u.seq = q /\ u.seen = t.seen /\ GoodStore(u, sg2) /\ Grows(s, u)
    <3>1. q \in 0..MaxSeq
      BY <1>1, MaxSeqAssumption DEF SeqNo
    <3> QED BY <2>2, <2>4, <3>1, CounterFacts
  <2> QED BY <1>1, <2>2, <2>3, <2>4, <2>5, <2>6 DEF q, t, sg2
<1>4. CASE ~Accepts(s, x, n, q)
  <2>1. sg2 = sg
    BY <1>4 DEF SignedBy, q
  <2> HIDE DEF sg2, t
  <2>2. t \in Stores /\ t.seq = s.seq /\ GoodStore(t, sg) /\ Grows(s, t)
    BY <1>1, <1>4, IngestFacts DEF t
  <2>3. Published(s, n, x) = [t EXCEPT !.seq = q]
    BY <2>2 DEF Published, t, q
  <2>4. LET u == [t EXCEPT !.seq = q]
        IN  u \in Stores /\ u.seq = q /\ GoodStore(u, sg) /\ Grows(s, u)
    <3>1. q \in 0..MaxSeq
      BY <1>1, MaxSeqAssumption DEF SeqNo
    <3> QED BY <2>2, <3>1, CounterFacts
  <2> QED BY <1>1, <2>1, <2>2, <2>3, <2>4 DEF q, t, sg2
<1>5. QED
  BY <1>3, <1>4
----------------------------------------------------------------------------
(***************************************************************************)
(* The inductive invariant: every store is good, and a live device has     *)
(* counted every number it ever signed.  The second is why a number reused *)
(* after a crash is caught by the device's own replay check.               *)
(***************************************************************************)
OwnNumbersSeen ==
  \A x \in Id : sig[x] # Unsigned /\ alive[sig[x].dev]
    => SeenHas(local[sig[x].dev].seen[sig[x].dev], sig[x].seq)

WireSigned == \A m, n \in Node : \A x \in wire[m][n] : sig[x] # Unsigned

WipedIsEmpty == \A n \in Node : ~alive[n] => local[n].rows = {}

Inv ==
  /\ TypeOK
  /\ \A n \in Node : GoodStore(local[n], sig)
  /\ OneMessagePerNumber
  /\ OwnNumbersSeen
  /\ WireSigned
  /\ WipedIsEmpty

\* A node that is alive after a step was alive before, and undid nothing.
Monotone == \A n \in Node : alive'[n] => alive[n] /\ Grows(local[n], local'[n])

LEMMA GrowsReflexive == \A s \in Stores : Grows(s, s)
BY DEF Grows

\* The signatures grow by messages of device n alone, each under a number of its own
\* that the store t has counted and the store before the step had not.
SignsFresh(n, t) ==
  /\ sig' \in [Id -> Signatures]
  /\ \A y \in Id : sig[y] # Unsigned => sig'[y] = sig[y]
  /\ \A y \in Id : sig[y] = Unsigned /\ sig'[y] # Unsigned =>
       /\ sig'[y].dev = n
       /\ ~SeenHas(local[n].seen[n], sig'[y].seq)
       /\ SeenHas(t.seen[n], sig'[y].seq)
  /\ \A y, z \in Id : /\ sig[y] = Unsigned /\ sig'[y] # Unsigned
                     /\ sig[z] = Unsigned /\ sig'[z] = sig'[y]
                     => y = z

\* Nothing but signed messages travels.
CarriesSigned ==
  /\ wire' \in [Node -> [Node -> SUBSET Id]]
  /\ \A m, k \in Node : \A x \in wire'[m][k] : sig[x] # Unsigned

LEMMA FramesOnlyShrink ==
  ASSUME Inv, NEW n \in Node, wire' = wire \/ Restarted(n)
  PROVE  CarriesSigned
<1>1. wire \in [Node -> [Node -> SUBSET Id]] /\ WireSigned
  BY DEF Inv, TypeOK
<1>2. CASE wire' = wire
  BY <1>1, <1>2 DEF CarriesSigned, WireSigned
<1>3. CASE Restarted(n)
  <2>1. \A m, k \in Node : wire'[m][k] = IF n \in {m, k} THEN {} ELSE wire[m][k]
    BY <1>3 DEF Restarted
  <2>2. wire' \in [Node -> [Node -> SUBSET Id]]
    <3>1. \A m, k \in Node : (IF n \in {m, k} THEN {} ELSE wire[m][k]) \in SUBSET Id
      BY <1>1
    <3> QED BY <1>3, <3>1 DEF Restarted
  <2>3. \A m, k \in Node : \A x \in wire'[m][k] : x \in wire[m][k]
    BY <2>1
  <2> QED BY <1>1, <2>2, <2>3 DEF CarriesSigned, WireSigned
<1>4. QED
  BY <1>2, <1>3

\* A step of one live node that signs new messages under numbers it had not used.
LEMMA OneNodeStep ==
  ASSUME Inv, NEW n \in Node, alive[n], alive' = alive,
         NEW t \in Stores, local' = [local EXCEPT ![n] = t],
         SignsFresh(n, t), CarriesSigned,
         GoodStore(t, sig'), Grows(local[n], t)
  PROVE  Inv' /\ Monotone
<1> USE DEF Inv, SignsFresh, CarriesSigned
<1>1. /\ local \in [Node -> Stores] /\ alive \in [Node -> BOOLEAN]
      /\ sig \in [Id -> Signatures] /\ wire \in [Node -> [Node -> SUBSET Id]]
  BY DEF TypeOK
<1>2. /\ local' \in [Node -> Stores]
      /\ local'[n] = t
      /\ \A m \in Node \ {n} : local'[m] = local[m]
  BY <1>1
<1>3. TypeOK'
  BY <1>1, <1>2 DEF TypeOK
<1>4. \A m \in Node : GoodStore(local'[m], sig')
  <2>1. ASSUME NEW m \in Node \ {n} PROVE GoodStore(local[m], sig')
    <3>1. local[m] \in Stores /\ GoodStore(local[m], sig)
      BY <1>1
    <3>2. /\ sig \in [Id -> Signatures] /\ sig' \in [Id -> Signatures]
          /\ \A y \in Id : sig[y] # Unsigned => sig'[y] = sig[y]
      BY <1>1
    <3> HIDE DEF Inv
    <3> QED BY <3>1, <3>2, SigningKeepsGood DEF Unsigned, Signatures
  <2> QED BY <1>2, <2>1
<1>5. OneMessagePerNumber'
  <2> SUFFICES ASSUME NEW x \in Id, NEW y \in Id,
                      sig'[x] = sig'[y], sig'[x] # Unsigned
               PROVE  x = y
    BY DEF OneMessagePerNumber
  <2>1. CASE sig[x] # Unsigned /\ sig[y] # Unsigned
    BY <2>1 DEF OneMessagePerNumber
  <2>2. CASE sig[x] = Unsigned /\ sig[y] = Unsigned
    BY <2>2
  <2>3. ASSUME NEW u \in Id, NEW w \in Id, sig[u] # Unsigned, sig[w] = Unsigned,
               sig'[u] = sig'[w], sig'[w] # Unsigned
        PROVE  FALSE
    <3>1. sig'[w].dev = n /\ ~SeenHas(local[n].seen[n], sig'[w].seq) /\ sig'[u] = sig[u]
      BY <2>3
    <3>2. SeenHas(local[n].seen[n], sig[u].seq)
      BY <2>3, <3>1 DEF OwnNumbersSeen
    <3> QED BY <2>3, <3>1, <3>2
  <2> QED BY <2>1, <2>2, <2>3
<1>6. OwnNumbersSeen'
  <2> SUFFICES ASSUME NEW x \in Id, sig'[x] # Unsigned, alive[sig'[x].dev]
               PROVE  SeenHas(local'[sig'[x].dev].seen[sig'[x].dev], sig'[x].seq)
    BY DEF OwnNumbersSeen
  <2>1. CASE sig[x] # Unsigned
    <3>1. /\ sig'[x] = sig[x] /\ sig[x].dev \in Node /\ sig[x].seq \in SeqNo
          /\ SeenHas(local[sig[x].dev].seen[sig[x].dev], sig[x].seq)
      BY <1>1, <2>1 DEF OwnNumbersSeen, Signatures
    <3>2. \A d \in Node : \A q \in SeqNo :
            SeenHas(local[n].seen[d], q) => SeenHas(t.seen[d], q)
      BY DEF Grows
    <3>3. CASE sig[x].dev = n
      BY <1>2, <3>1, <3>2, <3>3
    <3>4. CASE sig[x].dev # n
      BY <1>2, <3>1, <3>4
    <3> QED BY <3>3, <3>4
  <2>2. CASE sig[x] = Unsigned
    BY <1>2, <2>2
  <2> QED BY <2>1, <2>2
<1>7. WireSigned'
  <2> SUFFICES ASSUME NEW m \in Node, NEW k \in Node, NEW x \in wire'[m][k]
               PROVE  sig'[x] # Unsigned
    BY DEF WireSigned
  <2>1. x \in Id
    OBVIOUS
  <2> QED BY <2>1
<1>8. WipedIsEmpty'
  BY <1>1, <1>2 DEF WipedIsEmpty
<1>9. Monotone
  BY <1>1, <1>2, GrowsReflexive DEF Monotone
<1>10. QED
  BY <1>3, <1>4, <1>5, <1>6, <1>7, <1>8, <1>9

\* The steps that write one message x.
LEMMA WriteStep ==
  ASSUME Inv, NEW n \in Node, NEW x \in Id, Writable(n, x),
         NEW t \in {Ingest(local[n], x, n, local[n].seq + 1), Published(local[n], n, x)},
         local' = [local EXCEPT ![n] = t],
         sig' = SignedBy(sig, local[n], n, x),
         alive' = alive,
         wire' = wire \/ Restarted(n)
  PROVE  Inv' /\ Monotone
<1> DEFINE s == local[n]
<1>1. /\ s \in Stores /\ GoodStore(s, sig) /\ sig \in [Id -> Signatures]
  BY DEF Inv, TypeOK
<1>2. alive[n] /\ sig[x] = Unsigned /\ s.seq < MaxSeq
  BY DEF Writable
<1>3. /\ sig' \in [Id -> Signatures]
      /\ \A y \in Id \ {x} : sig'[y] = sig[y]
      /\ sig'[x] # Unsigned => /\ sig'[x] = [dev |-> n, seq |-> s.seq + 1]
                              /\ ~SeenHas(s.seen[n], s.seq + 1)
                              /\ SeenHas(t.seen[n], s.seq + 1)
      /\ t \in Stores /\ GoodStore(t, sig') /\ Grows(s, t)
  BY <1>1, <1>2, PublishFacts DEF Unsigned, Signatures
<1>4. CarriesSigned
  BY FramesOnlyShrink
<1> HIDE DEF s
<1>5. \A y \in Id : sig[y] # Unsigned => sig'[y] = sig[y]
  BY <1>2, <1>3
<1>6. \A y \in Id : sig[y] = Unsigned /\ sig'[y] # Unsigned =>
        /\ y = x /\ sig'[y].dev = n
        /\ ~SeenHas(s.seen[n], sig'[y].seq) /\ SeenHas(t.seen[n], sig'[y].seq)
  BY <1>3
<1>7. \A y, z \in Id : /\ sig[y] = Unsigned /\ sig'[y] # Unsigned
                      /\ sig[z] = Unsigned /\ sig'[z] = sig'[y]
                      => y = z
  BY <1>6
<1>8. SignsFresh(n, t)
  BY <1>3, <1>5, <1>6, <1>7 DEF SignsFresh, s
<1>9. QED
  BY <1>2, <1>3, <1>4, <1>8, OneNodeStep DEF s

\* The steps of delete_post() that write two tags: the record's y, then the post's x.
LEMMA WriteTwoStep ==
  ASSUME Inv, NEW n \in Node, NEW x \in Id, NEW y \in Id,
         Writable(n, x), Writable(n, y), local[n].seq + 2 <= MaxSeq,
         TargetOf[y] \in Records(n, TargetOf[x]),
         NEW t, t = Published(local[n], n, y),
         NEW u \in {Ingest(t, x, n, t.seq + 1), Published(t, n, x)},
         local' = [local EXCEPT ![n] = u],
         sig' = SignedBy(SignedBy(sig, local[n], n, y), t, n, x),
         alive' = alive,
         wire' = wire \/ Restarted(n)
  PROVE  Inv' /\ Monotone
<1> DEFINE s == local[n]
           sg == SignedBy(sig, s, n, y)
<1>1. /\ s \in Stores /\ GoodStore(s, sig) /\ sig \in [Id -> Signatures]
  BY DEF Inv, TypeOK
<1>2. /\ alive[n] /\ sig[x] = Unsigned /\ sig[y] = Unsigned
      /\ s.seq \in 0..MaxSeq /\ s.seq < MaxSeq
  BY <1>1 DEF Writable, Stores
<1>3. x # y
  <2>1. TargetOf[y] \in s.rows /\ TargetOf[TargetOf[y]] = TargetOf[x]
    BY DEF Records
  <2>2. TargetOf[y] \in Id
    BY <1>1, <2>1 DEF Stores
  <2> QED BY <2>1, <2>2, ConstantsAssumption
<1>4. /\ sg \in [Id -> Signatures]
      /\ \A z \in Id \ {y} : sg[z] = sig[z]
      /\ sg[y] # Unsigned => /\ sg[y] = [dev |-> n, seq |-> s.seq + 1]
                            /\ ~SeenHas(s.seen[n], s.seq + 1)
                            /\ SeenHas(t.seen[n], s.seq + 1)
      /\ s.seq + 1 \in SeqNo
      /\ t \in Stores /\ GoodStore(t, sg) /\ Grows(s, t)
      /\ t.seq = s.seq + 1
  BY <1>1, <1>2, PublishFacts DEF Unsigned, Signatures
<1> HIDE DEF sg, s
<1>5. sig' = SignedBy(sg, t, n, x)
  BY DEF sg, s
<1>6. sg[x] = Unsigned /\ t.seq < MaxSeq
  BY <1>2, <1>3, <1>4, MaxSeqAssumption DEF s
<1>7. /\ sig' \in [Id -> Signatures]
      /\ \A z \in Id \ {x} : sig'[z] = sg[z]
      /\ sig'[x] # Unsigned => /\ sig'[x] = [dev |-> n, seq |-> t.seq + 1]
                              /\ ~SeenHas(t.seen[n], t.seq + 1)
                              /\ SeenHas(u.seen[n], t.seq + 1)
      /\ t.seq + 1 \in SeqNo
      /\ u \in Stores /\ GoodStore(u, sig') /\ Grows(t, u)
  BY <1>4, <1>5, <1>6, PublishFacts DEF Unsigned, Signatures
<1>8. Grows(s, u)
  BY <1>1, <1>4, <1>7 DEF Grows, Stores
<1>9. CarriesSigned
  BY FramesOnlyShrink
<1>10. \A z \in Id : sig[z] # Unsigned => sig'[z] = sig[z]
  BY <1>2, <1>4, <1>7
<1>11. sig'[x] # Unsigned => ~SeenHas(s.seen[n], t.seq + 1)
  BY <1>4, <1>7 DEF Grows
<1>12. sig'[y] # Unsigned => /\ sig'[y] = [dev |-> n, seq |-> s.seq + 1]
                            /\ ~SeenHas(s.seen[n], s.seq + 1)
                            /\ SeenHas(u.seen[n], s.seq + 1)
  BY <1>3, <1>4, <1>7 DEF Grows
<1>13. \A z \in Id : sig[z] = Unsigned /\ sig'[z] # Unsigned =>
         /\ z \in {x, y} /\ sig'[z].dev = n
         /\ ~SeenHas(s.seen[n], sig'[z].seq) /\ SeenHas(u.seen[n], sig'[z].seq)
  BY <1>4, <1>7, <1>11, <1>12
<1>14. \A z, w \in Id : /\ sig[z] = Unsigned /\ sig'[z] # Unsigned
                       /\ sig[w] = Unsigned /\ sig'[w] = sig'[z]
                       => z = w
  <2>1. s.seq + 1 # t.seq + 1
    BY <1>2, <1>4, MaxSeqAssumption
  <2>2. sig'[x] # Unsigned /\ sig'[y] # Unsigned => sig'[x] # sig'[y]
    BY <1>7, <1>12, <2>1
  <2> QED BY <1>13, <2>2
<1>15. SignsFresh(n, u)
  BY <1>7, <1>10, <1>13, <1>14 DEF SignsFresh, s
<1>16. QED
  BY <1>2, <1>7, <1>8, <1>9, <1>15, OneNodeStep DEF s

\* Nothing is signed: in a step of node n, or when n ingests revocations.
LEMMA NothingSigned ==
  ASSUME Inv, sig' = sig, NEW n \in Node, NEW t \in Stores
  PROVE  SignsFresh(n, t)
BY DEF Inv, TypeOK, SignsFresh

LEMMA EmptyStoreIsGood ==
  EmptyStore \in Stores /\ GoodStore(EmptyStore, sig) /\ EmptyStore.rows = {}
<1>1. EmptySeen \in SeenSets /\ Compacted(EmptySeen)
  BY MaxSeqAssumption DEF EmptySeen, SeenSets, Compacted
<1>2. EmptyStore \in Stores
  BY <1>1, MaxSeqAssumption DEF EmptyStore, Stores, Bounds
<1>3. GoodStore(EmptyStore, sig)
  <2>1. \A x \in Id : EmptyStore.dead[x] = Kept /\ Kept # "deleted"
    BY DEF EmptyStore, Kept
  <2>2. EmptyStore.rows = {} /\ \A d \in Node : EmptyStore.seen[d] = EmptySeen
    BY DEF EmptyStore
  <2> QED BY <1>1, <2>1, <2>2 DEF GoodStore, Counted, CutOff, ByAuthor
<1>4. QED
  BY <1>2, <1>3 DEF EmptyStore

LEMMA SweepStep ==
  ASSUME Inv, NEW n \in Node, SweepExpired(n) PROVE Inv' /\ Monotone
<1>1. local[n] \in Stores /\ GoodStore(local[n], sig) /\ sig \in [Id -> Signatures]
  BY DEF Inv, TypeOK
<1>2. PICK ids \in SUBSET local[n].rows :
        /\ alive[n]
        /\ local' = [local EXCEPT ![n] = Bury(@, ids, "expired")]
        /\ alive' = alive /\ sig' = sig /\ wire' = wire
  <2>1. PICK late \in SUBSET local[n].rows :
          /\ alive[n]
          /\ LET grants == {g \in local[n].rows : IsGrant(g) /\ TargetOf[g] \in late}
             IN  local' = [local EXCEPT ![n] = Bury(@, late \union grants, "expired")]
          /\ UNCHANGED <<alive, sig, wire>>
    BY DEF SweepExpired
  <2> DEFINE grants == {g \in local[n].rows : IsGrant(g) /\ TargetOf[g] \in late}
  <2>2. late \union grants \in SUBSET local[n].rows
    OBVIOUS
  <2> QED BY <2>1, <2>2
<1> DEFINE t == Bury(local[n], ids, "expired")
<1>3. t \in Stores /\ GoodStore(t, sig') /\ Grows(local[n], t)
  <2>1. "expired" \in Reasons \ {"deleted"}
    BY DEF Reasons
  <2> QED BY <1>1, <1>2, <2>1, BuryKeepsGood DEF Reasons
<1>4. local' = [local EXCEPT ![n] = t]
  BY <1>2
<1>5. CarriesSigned
  BY <1>2, FramesOnlyShrink
<1> HIDE DEF t
<1>6. SignsFresh(n, t)
  BY <1>2, <1>3, NothingSigned
<1>7. QED
  BY <1>2, <1>3, <1>4, <1>5, <1>6, OneNodeStep

LEMMA RevokeStep ==
  ASSUME Inv, NEW n \in Node, NEW d \in Node, RevokeDevice(n, d)
  PROVE  Inv' /\ Monotone
<1> DEFINE bound == MaxSeen(local[n].seen[d])
           revs  == [e \in Node |-> IF e = d THEN bound ELSE NotRevoked]
           t     == IngestRevocations(local[n], revs)
<1>1. local[n] \in Stores /\ GoodStore(local[n], sig) /\ sig \in [Id -> Signatures]
  BY DEF Inv, TypeOK
<1>2. bound \in 0..MaxSeq
  <2>1. local[n].seen[d] \in SeenSets /\ Compacted(local[n].seen[d])
    BY <1>1 DEF Stores, GoodStore
  <2> QED BY <2>1, MaxSeenCorrect
<1>3. revs \in [Node -> Bounds]
  BY <1>2 DEF Bounds
<1>4. t \in Stores /\ GoodStore(t, sig) /\ Grows(local[n], t)
  <2> HIDE DEF revs
  <2> QED BY <1>1, <1>3, RevocationFacts DEF Unsigned, Signatures
<1>5. /\ local' = [local EXCEPT ![n] = t] /\ alive[n]
      /\ alive' = alive /\ sig' = sig /\ wire' = wire
  BY DEF RevokeDevice
<1>6. CarriesSigned
  BY <1>5, FramesOnlyShrink
<1> HIDE DEF t
<1>7. SignsFresh(n, t)
  BY <1>4, <1>5, NothingSigned
<1>8. QED
  BY <1>4, <1>5, <1>6, <1>7, OneNodeStep

LEMMA ReceiveStep ==
  ASSUME Inv, NEW m \in Node, NEW n \in Node, NEW x \in Id, ReceiveMessage(m, n, x)
  PROVE  Inv' /\ Monotone
<1> DEFINE t == Ingest(local[n], x, sig[x].dev, sig[x].seq)
<1>1. /\ local[n] \in Stores /\ GoodStore(local[n], sig) /\ sig \in [Id -> Signatures]
      /\ wire \in [Node -> [Node -> SUBSET Id]] /\ WireSigned
  BY DEF Inv, TypeOK
<1>2. /\ alive[n] /\ x \in wire[m][n]
      /\ local' = [local EXCEPT ![n] = t]
      /\ wire' = [wire EXCEPT ![m][n] = @ \ {x}]
      /\ alive' = alive /\ sig' = sig
  BY DEF ReceiveMessage
<1>3. /\ sig[x].dev \in Node /\ sig[x].seq \in SeqNo
      /\ sig[x] = [dev |-> sig[x].dev, seq |-> sig[x].seq]
  BY <1>1, <1>2 DEF WireSigned, Signatures
<1>4. t \in Stores /\ GoodStore(t, sig') /\ Grows(local[n], t)
  BY <1>1, <1>2, <1>3, IngestFacts DEF Unsigned, Signatures
<1>5. CarriesSigned
  BY <1>1, <1>2 DEF CarriesSigned, WireSigned
<1> HIDE DEF t
<1>6. SignsFresh(n, t)
  BY <1>2, <1>4, NothingSigned
<1>7. QED
  BY <1>2, <1>4, <1>5, <1>6, OneNodeStep

\* What either side of a session is left with when the revocations are swapped.
LEMMA SwapStep ==
  ASSUME Inv, NEW m \in Node, NEW n \in Node, SwapRevocations(m, n)
  PROVE  Inv' /\ Monotone
<1> DEFINE After(k, peer) == IF KnowsRevoked(peer, k) THEN EmptyStore
                             ELSE IngestRevocations(local[k], local[peer].rev)
<1>1. /\ local \in [Node -> Stores] /\ alive \in [Node -> BOOLEAN]
      /\ sig \in [Id -> Signatures] /\ wire \in [Node -> [Node -> SUBSET Id]]
      /\ \A k \in Node : GoodStore(local[k], sig)
  BY DEF Inv, TypeOK
<1>2. /\ m # n /\ alive[m] /\ alive[n]
      /\ local' = [local EXCEPT ![m] = After(m, n), ![n] = After(n, m)]
      /\ alive' = [alive EXCEPT ![m] = ~KnowsRevoked(n, m), ![n] = ~KnowsRevoked(m, n)]
      /\ sig' = sig /\ wire' = wire
  BY DEF SwapRevocations
<1>3. ASSUME NEW k \in Node, NEW peer \in Node
      PROVE  /\ After(k, peer) \in Stores /\ GoodStore(After(k, peer), sig)
             /\ KnowsRevoked(peer, k) => After(k, peer).rows = {}
             /\ ~KnowsRevoked(peer, k) => Grows(local[k], After(k, peer))
  <2>1. local[k] \in Stores /\ local[peer].rev \in [Node -> Bounds]
    BY <1>1 DEF Stores
  <2>2. LET t == IngestRevocations(local[k], local[peer].rev)
        IN  t \in Stores /\ GoodStore(t, sig) /\ Grows(local[k], t)
    BY <1>1, <2>1, RevocationFacts DEF Unsigned, Signatures
  <2> QED BY <2>2, EmptyStoreIsGood
<1> HIDE DEF After
<1>4. /\ local'[m] = After(m, n) /\ local'[n] = After(n, m)
      /\ \A k \in Node \ {m, n} : local'[k] = local[k]
      /\ alive'[m] = ~KnowsRevoked(n, m) /\ alive'[n] = ~KnowsRevoked(m, n)
      /\ \A k \in Node \ {m, n} : alive'[k] = alive[k]
  BY <1>1, <1>2
<1>5. \A k \in Node : local'[k] \in Stores /\ GoodStore(local'[k], sig)
  BY <1>1, <1>2, <1>3, <1>4
<1>6. Monotone
  <2> SUFFICES ASSUME NEW k \in Node, alive'[k]
               PROVE  alive[k] /\ Grows(local[k], local'[k])
    BY DEF Monotone
  <2>1. CASE k \notin {m, n}
    BY <1>1, <1>4, <2>1, GrowsReflexive
  <2>2. CASE k = m
    <3>1. alive'[m] /\ alive'[m] = ~KnowsRevoked(n, m)
      BY <1>4, <2>2
    <3>2. ~KnowsRevoked(n, m)
      BY <3>1, Zenon
    <3> QED BY <1>2, <1>3, <1>4, <2>2, <3>2
  <2>3. CASE k = n
    <3>1. alive'[n] /\ alive'[n] = ~KnowsRevoked(m, n)
      BY <1>4, <2>3
    <3>2. ~KnowsRevoked(m, n)
      BY <3>1, Zenon
    <3> QED BY <1>2, <1>3, <1>4, <2>3, <3>2
  <2> QED BY <2>1, <2>2, <2>3
<1>7. TypeOK'
  <2>1. local' \in [Node -> Stores]
    BY <1>1, <1>2, <1>3
  <2>2. alive' \in [Node -> BOOLEAN]
    BY <1>1, <1>2 DEF KnowsRevoked
  <2> QED BY <1>1, <1>2, <2>1, <2>2 DEF TypeOK
<1>8. OwnNumbersSeen'
  <2> SUFFICES ASSUME NEW x \in Id, sig[x] # Unsigned, alive'[sig[x].dev]
               PROVE  SeenHas(local'[sig[x].dev].seen[sig[x].dev], sig[x].seq)
    BY <1>2 DEF OwnNumbersSeen
  <2>1. sig[x].dev \in Node /\ sig[x].seq \in SeqNo
    BY <1>1 DEF Signatures
  <2>2. alive[sig[x].dev] /\ Grows(local[sig[x].dev], local'[sig[x].dev])
    BY <1>6, <2>1 DEF Monotone
  <2>3. SeenHas(local[sig[x].dev].seen[sig[x].dev], sig[x].seq)
    BY <2>2 DEF Inv, OwnNumbersSeen
  <2> QED BY <2>1, <2>2, <2>3 DEF Grows
<1>9. WipedIsEmpty'
  BY <1>3, <1>4 DEF Inv, WipedIsEmpty
<1>10. OneMessagePerNumber' /\ WireSigned'
  BY <1>2 DEF Inv, OneMessagePerNumber, WireSigned
<1>11. QED
  <2>1. (\A k \in Node : GoodStore(local[k], sig))'
    BY <1>2, <1>5
  <2> QED BY <1>7, <1>8, <1>9, <1>10, <1>6, <2>1 DEF Inv

\* A step that only touches the wire.
LEMMA WireStep ==
  ASSUME Inv, local' = local, alive' = alive, sig' = sig, CarriesSigned
  PROVE  Inv' /\ Monotone
<1>1. TypeOK' /\ WireSigned'
  BY DEF Inv, TypeOK, CarriesSigned, WireSigned
<1>2. OneMessagePerNumber' /\ OwnNumbersSeen' /\ WipedIsEmpty'
  BY DEF Inv, OneMessagePerNumber, OwnNumbersSeen, WipedIsEmpty
<1>3. Monotone
  BY GrowsReflexive DEF Inv, TypeOK, Monotone
<1>4. QED
  BY <1>1, <1>2, <1>3 DEF Inv

LEMMA InitStep == Init => Inv
<1> SUFFICES ASSUME Init PROVE Inv
  OBVIOUS
<1>1. /\ \A n \in Node : local[n] = EmptyStore /\ alive[n] = TRUE
      /\ \A x \in Id : sig[x] = Unsigned
      /\ \A m, n \in Node : wire[m][n] = {}
  BY DEF Init
<1>2. TypeOK
  BY EmptyStoreIsGood DEF Init, TypeOK, Signatures
<1>3. \A n \in Node : GoodStore(local[n], sig)
  BY <1>1, EmptyStoreIsGood
<1>4. OneMessagePerNumber /\ OwnNumbersSeen
  BY <1>1 DEF OneMessagePerNumber, OwnNumbersSeen
<1>5. WireSigned /\ WipedIsEmpty
  BY <1>1, EmptyStoreIsGood DEF WireSigned, WipedIsEmpty
<1>6. QED
  BY <1>2, <1>3, <1>4, <1>5 DEF Inv

LEMMA NextStep == Inv /\ [Next]_vars => Inv' /\ Monotone
<1> SUFFICES ASSUME Inv, [Next]_vars PROVE Inv' /\ Monotone
  OBVIOUS
<1>1. ASSUME NEW n \in Node, NEW x \in Id \ Tags, Publish(n, x)
      PROVE  Inv' /\ Monotone
  BY <1>1, WriteStep DEF Publish
<1>2. ASSUME NEW n \in Node, NEW x \in Tags, DeletePost(n, x)
      PROVE  Inv' /\ Monotone
  <2>1. x \in Id
    BY DEF Tags
  <2> QED BY <1>2, <2>1, WriteStep DEF DeletePost
<1>3. ASSUME NEW n \in Node, NEW x \in Tags, NEW y \in Tags, DeletePostAndRecord(n, y, x)
      PROVE  Inv' /\ Monotone
  <2> DEFINE s == local[n]
             t == Published(s, n, y)
  <2>1. x \in Id /\ y \in Id
    BY DEF Tags
  <2>2. /\ Writable(n, x) /\ Writable(n, y) /\ local[n].seq + 2 <= MaxSeq
        /\ TargetOf[y] \in Records(n, TargetOf[x])
        /\ alive' = alive /\ wire' = wire
    BY <1>3 DEF DeletePostAndRecord
  <2>3. CASE Accepts(s, y, n, s.seq + 1)
    <3>1. /\ local' = [local EXCEPT ![n] = Published(t, n, x)]
          /\ sig' = SignedBy(SignedBy(sig, s, n, y), t, n, x)
      BY <1>3, <2>3 DEF DeletePostAndRecord
    <3> QED BY <2>1, <2>2, <3>1, WriteTwoStep
  <2>4. CASE ~Accepts(s, y, n, s.seq + 1)
    <3>1. local' = [local EXCEPT ![n] = t] /\ sig' = SignedBy(sig, s, n, y)
      BY <1>3, <2>4 DEF DeletePostAndRecord, SignedBy
    <3> QED BY <2>1, <2>2, <3>1, WriteStep
  <2> QED BY <2>3, <2>4
<1>4. ASSUME NEW n \in Node, NEW x \in Tags, NEW y \in Tags, CrashInDeletePost(n, y, x)
      PROVE  Inv' /\ Monotone
  <2> DEFINE s == local[n]
             t == Published(s, n, y)
  <2>1. x \in Id /\ y \in Id
    BY DEF Tags
  <2>2. /\ Writable(n, x) /\ Writable(n, y) /\ local[n].seq + 2 <= MaxSeq
        /\ TargetOf[y] \in Records(n, TargetOf[x])
        /\ alive' = alive /\ Restarted(n)
        /\ local' = [local EXCEPT ![n] = Ingest(t, x, n, t.seq + 1)]
        /\ sig' = SignedBy(SignedBy(sig, s, n, y), t, n, x)
    BY <1>4 DEF CrashInDeletePost
  <2> QED BY <2>1, <2>2, WriteTwoStep
<1>5. ASSUME NEW n \in Node, NEW x \in Id, CrashInPublish(n, x)
      PROVE  Inv' /\ Monotone
  <2>1. /\ Writable(n, x) /\ Restarted(n) /\ alive' = alive
        /\ local' = [local EXCEPT ![n] = Ingest(local[n], x, n, local[n].seq + 1)]
        /\ sig' = SignedBy(sig, local[n], n, x)
    BY <1>5 DEF CrashInPublish
  <2> QED BY <2>1, WriteStep
<1>6. ASSUME NEW n \in Node, SweepExpired(n) PROVE Inv' /\ Monotone
  BY <1>6, SweepStep
<1>7. ASSUME NEW m \in Node, NEW n \in Node, RevokeDevice(m, n) PROVE Inv' /\ Monotone
  BY <1>7, RevokeStep
<1>8. ASSUME NEW m \in Node, NEW n \in Node, SwapRevocations(m, n) PROVE Inv' /\ Monotone
  BY <1>8, SwapStep
<1>9. ASSUME NEW m \in Node, NEW n \in Node, SendMessages(m, n) PROVE Inv' /\ Monotone
  <2>1. /\ wire' = [wire EXCEPT ![m][n] = Offer(m, n)]
        /\ local' = local /\ alive' = alive /\ sig' = sig
    BY <1>9 DEF SendMessages
  <2>2. /\ local[m] \in Stores /\ GoodStore(local[m], sig)
        /\ wire \in [Node -> [Node -> SUBSET Id]] /\ WireSigned
    BY DEF Inv, TypeOK
  <2>3. Offer(m, n) \in SUBSET Id /\ \A x \in Offer(m, n) : sig[x] # Unsigned
    BY <2>2 DEF Offer, Stores, GoodStore, Counted
  <2>4. CarriesSigned
    BY <2>1, <2>2, <2>3 DEF CarriesSigned, WireSigned
  <2> QED BY <2>1, <2>4, WireStep
<1>10. ASSUME NEW m \in Node, NEW n \in Node, LoseConnection(m, n) PROVE Inv' /\ Monotone
  <2>1. /\ wire' = [wire EXCEPT ![m][n] = {}]
        /\ local' = local /\ alive' = alive /\ sig' = sig
    BY <1>10 DEF LoseConnection
  <2>2. wire \in [Node -> [Node -> SUBSET Id]] /\ WireSigned
    BY DEF Inv, TypeOK
  <2>3. CarriesSigned
    BY <2>1, <2>2 DEF CarriesSigned, WireSigned
  <2> QED BY <2>1, <2>3, WireStep
<1>11. ASSUME NEW m \in Node, NEW n \in Node, NEW x \in Id, ReceiveMessage(m, n, x)
       PROVE  Inv' /\ Monotone
  BY <1>11, ReceiveStep
<1>12. CASE UNCHANGED vars
  <2>1. local' = local /\ alive' = alive /\ sig' = sig /\ wire' = wire
    BY <1>12 DEF vars
  <2>2. CarriesSigned
    BY <2>1 DEF Inv, TypeOK, CarriesSigned, WireSigned
  <2> QED BY <2>1, <2>2, WireStep
<1>13. QED
  BY <1>1, <1>2, <1>3, <1>4, <1>5, <1>6, <1>7, <1>8, <1>9, <1>10, <1>11, <1>12 DEF Next

\* The inductive invariant, for every instance.
THEOREM Invariance == Spec => []Inv
<1>1. Init => Inv
  BY InitStep
<1>2. Inv /\ [Next]_vars => Inv'
  BY NextStep
<1>3. QED
  BY <1>1, <1>2, PTL DEF Spec

\* Every variable keeps its type; in particular no counter and no revocation bound
\* leaves its range.
THEOREM TypeCorrect == Spec => []TypeOK
<1>1. Inv => TypeOK
  BY DEF Inv
<1>2. QED
  BY <1>1, Invariance, PTL

\* A sequence number of a device names one message, crashes between storing and
\* saving included (_publish, verify_message).
THEOREM NumbersAreUnique == Spec => []OneMessagePerNumber
<1>1. Inv => OneMessagePerNumber
  BY DEF Inv
<1>2. QED
  BY <1>1, Invariance, PTL

\* What a node shows or buried is counted in its summary (ingest_message).
THEOREM HeldMessagesAreSeen == Spec => []HeldIsSeen
<1>1. Inv => HeldIsSeen
  BY DEF Inv, GoodStore, Counted, HeldIsSeen
<1>2. QED
  BY <1>1, Invariance, PTL

\* No node keeps a message above the bound it has on file (ingest_revocation).
THEOREM RevokedMessagesAreCutOff == Spec => []RevokedStaysCutOff
<1>1. Inv => RevokedStaysCutOff
  BY DEF Inv, GoodStore, CutOff, RevokedStaysCutOff, KnowsRevoked
<1>2. QED
  BY <1>1, Invariance, PTL

\* Nothing is deleted but by a tag of its own author (ingest_message).
THEOREM DeletionsAreAuthorized == Spec => []DeletedByAuthorOnly
<1>1. Inv => DeletedByAuthorOnly
  BY DEF Inv, GoodStore, ByAuthor, DeletedByAuthorOnly
<1>2. QED
  BY <1>1, Invariance, PTL

\* The store implements the abstract life of a message: what a node shows never
\* vanishes without a tombstone, and what it buried never comes back.
THEOREM StoreImplementsLifecycle == Spec => NeverResurrected
<1> DEFINE shown == [n \in Node |-> local[n].rows]
           buried == [n \in Node |->
                        IF alive[n] THEN {x \in Id : local[n].dead[x] # Kept} ELSE Id]
<1>1. Init => Lifecycle!Init
  <2> SUFFICES ASSUME Init PROVE Lifecycle!Init
    OBVIOUS
  <2>1. \A n \in Node : /\ local[n] = EmptyStore /\ alive[n] = TRUE
                       /\ local[n].rows = {} /\ \A x \in Id : local[n].dead[x] = Kept
    BY DEF Init, EmptyStore
  <2>2. shown = [n \in Node |-> {}]
    BY <2>1
  <2>3. buried = [n \in Node |-> {}]
    BY <2>1
  <2> QED BY <2>2, <2>3 DEF Lifecycle!Init
<1>2. Inv /\ Inv' /\ Monotone => Lifecycle!Next
  <2> SUFFICES ASSUME Inv, Inv', Monotone, NEW n \in Node PROVE Lifecycle!Step(n)
    BY DEF Lifecycle!Next
  <2>1. /\ local[n] \in Stores /\ GoodStore(local[n], sig)
        /\ local'[n] \in Stores /\ GoodStore(local'[n], sig')
        /\ local[n].rows \subseteq Id /\ local'[n].rows \subseteq Id
    BY DEF Inv, TypeOK, Stores
  <2>2. CASE ~alive'[n]
    <3>1. local'[n].rows = {}
      BY <2>2 DEF Inv, WipedIsEmpty
    <3>2. buried'[n] = Id /\ shown'[n] = {} /\ shown[n] \subseteq Id /\ buried[n] \subseteq Id
      BY <2>1, <2>2, <3>1
    <3> QED BY <3>2 DEF Lifecycle!Step
  <2>3. CASE alive'[n]
    <3>1. alive[n] /\ Grows(local[n], local'[n])
      BY <2>3 DEF Monotone
    <3>2. /\ shown[n] = local[n].rows /\ shown'[n] = local'[n].rows
          /\ buried[n] = {x \in Id : local[n].dead[x] # Kept}
          /\ buried'[n] = {x \in Id : local'[n].dead[x] # Kept}
      BY <2>3, <3>1
    <3>3. shown'[n] \intersect buried'[n] = {}
      BY <2>1, <3>2 DEF GoodStore
    <3>4. buried[n] \subseteq buried'[n] /\ shown[n] \subseteq shown'[n] \union buried'[n]
      BY <2>1, <3>1, <3>2 DEF Grows
    <3> QED BY <2>1, <3>2, <3>3, <3>4 DEF Lifecycle!Step
  <2> QED BY <2>2, <2>3
<1>3. Inv /\ Inv' /\ [Next]_vars => [Lifecycle!Next]_(Lifecycle!vars)
  BY <1>2, NextStep
<1>4. QED
  BY <1>1, <1>3, Invariance, PTL DEF Spec, NeverResurrected, Lifecycle!Spec

----------------------------------------------------------------------------
(***************************************************************************)
(* Who may hold what, and why a message died: a second invariant of each   *)
(* node's store s, on top of Inv.                                          *)
(***************************************************************************)
Entitled(n, x, sg) ==
  KindOf[x] = "content" =>
    \/ OwnerOf[n] \in {AuthorOf[x]} \union Audience[x]
    \/ \E g \in Id : /\ IsGrant(g) /\ TargetOf[g] = x
                     /\ AuthorOf[g] = AuthorOf[x]
                     /\ sg[g] # Unsigned
                     /\ OwnerOf[n] \in Audience[g]

TagVictims(s, sg) ==
  \A x \in Id :
    /\ IsTag(x) => s.dead[x] # "deleted"
    /\ s.dead[x] = "invalid" =>
         \/ IsGrant(x)
         \/ IsTag(x) /\ TargetOf[x] \in Tags /\ sg[TargetOf[x]] # Unsigned

Proper(s, n, sg) ==
  /\ \A x \in s.rows : Entitled(n, x, sg)
  /\ \A g \in s.rows : IsGrant(g) => s.dead[TargetOf[g]] # "expired"
  /\ \A x \in s.rows : OwnTags(s, x) = {}
  /\ TagVictims(s, sg)

FramesEntitled == \A m, n \in Node : \A x \in wire[m][n] : Entitled(n, x, sig)

SignedByOwners == \A x \in Id : sig[x] # Unsigned => OwnerOf[sig[x].dev] = AuthorOf[x]

Custody ==
  /\ \A n \in Node : Proper(local[n], n, sig)
  /\ FramesEntitled
  /\ SignedByOwners

(***************************************************************************)
(* Convergence needs more: what a store has counted it can account for.    *)
(***************************************************************************)
OwnTagOf(t, x) == IsTag(t) /\ TargetOf[t] = x /\ AuthorOf[t] = AuthorOf[x]

\* A tag that is refused whenever its target is held
Futile(x) == IsTag(x) /\ (IsTag(TargetOf[x]) \/ AuthorOf[TargetOf[x]] # AuthorOf[x])

Handled(s, sg) ==
  \A x \in Id : sg[x] # Unsigned /\ SeenHas(s.seen[sg[x].dev], sg[x].seq)
    => x \in s.rows \/ s.dead[x] # Kept \/ Futile(x)

\* The cause of every death is still on file; of a deletion, unless the device that
\* signed the tag was revoked.
Settled(s, sg) ==
  /\ \A x \in Id :
       /\ s.dead[x] = "retro-drop" => sg[x] # Unsigned /\ s.rev[sg[x].dev] # NotRevoked
       /\ s.dead[x] = "expired" => x \in Expiring \/ IsGrant(x)
       /\ s.dead[x] = "deleted" =>
            \E t \in Id : OwnTagOf(t, x) /\ (t \in s.rows \/ s.dead[t] = "retro-drop")
  /\ Handled(s, sg)

OriginKnows ==
  \A n, d \in Node : alive[d] => \A q \in SeqNo :
    SeenHas(local[n].seen[d], q) => SeenHas(local[d].seen[d], q)

Convergent ==
  /\ \A n \in Node : Settled(local[n], sig)
  /\ OriginKnows

NobodyRevoked == \A n, d \in Node : alive[n] /\ local[n].rev[d] = NotRevoked

RecordsStay == \A x \in Expiring : KindOf[x] # "record"

OneDeviceEach == \A m, n \in Node : OwnerOf[m] = OwnerOf[n] => m = n

OneRecordPerPost ==
  \A r \in Id : KindOf[r] = "record" =>
    /\ TargetOf[r] \in Id
    /\ KindOf[TargetOf[r]] = "content"
    /\ AuthorOf[r] = AuthorOf[TargetOf[r]]
    /\ \A r2 \in Id : KindOf[r2] = "record" /\ TargetOf[r2] = TargetOf[r] => r2 = r

\* Where a post's tag and its record exist, so does the record's tag.
RecordTagged ==
  \A r, t \in Id :
    /\ KindOf[r] = "record" /\ sig[r] # Unsigned
    /\ OwnTagOf(t, TargetOf[r]) /\ sig[t] # Unsigned
    => \E y \in Id : OwnTagOf(y, r) /\ sig[y] # Unsigned

----------------------------------------------------------------------------
(***************************************************************************)
(* What ingest_message() leaves in the store, to the last row.             *)
(***************************************************************************)
Ingested(s, x, d, q, t) ==
  /\ t.rev = s.rev
  /\ ~Accepts(s, x, d, q) => t.rows = s.rows /\ t.dead = s.dead
  /\ Accepts(s, x, d, q) =>
       /\ t.rows = (s.rows \union {x}) \ (Deleted(s, x) \union Invalidated(s, x))
       /\ \A y \in Id : t.dead[y] = IF s.dead[y] # Kept THEN s.dead[y]
                                    ELSE IF y \in Deleted(s, x) THEN "deleted"
                                    ELSE IF y \in Invalidated(s, x) THEN "invalid" ELSE Kept
  /\ \A e \in Node, r \in SeqNo : SeenHas(t.seen[e], r) =>
       \/ SeenHas(s.seen[e], r)
       \/ e = d /\ r = q /\ (Accepts(s, x, d, q) \/ Refused(s, x))
  /\ \A e \in Node, r \in SeqNo : SeenHas(s.seen[e], r) => SeenHas(t.seen[e], r)

LEMMA IngestExactly ==
  ASSUME NEW s \in Stores, NEW x \in Id, NEW d \in Node, NEW q \in SeqNo, NEW t,
         Compacted(s.seen[d]), t = Ingest(s, x, d, q)
  PROVE  t \in Stores /\ t.seq = s.seq /\ Ingested(s, x, d, q, t)
<1> DEFINE known == [s EXCEPT !.seen[d] = SeenAdd(@, q)]
           held  == [known EXCEPT !.rows = @ \union {x}]
           cut   == Bury(held, Deleted(s, x), "deleted")
<1>1. CASE x \in s.rows \/ s.dead[x] # Kept \/ ~Verified(s, d, q)
  <2>1. t = s /\ ~Accepts(s, x, d, q)
    BY <1>1 DEF Ingest, Accepts
  <2> QED BY <2>1 DEF Ingested
<1>2. CASE x \notin s.rows /\ s.dead[x] = Kept /\ Verified(s, d, q)
  <2>1. /\ known \in Stores
        /\ known.rows = s.rows /\ known.dead = s.dead
        /\ known.rev = s.rev /\ known.seq = s.seq
        /\ \A e \in Node \ {d} : known.seen[e] = s.seen[e]
        /\ known.seen[d] = SeenAdd(s.seen[d], q)
    <3>1. ~SeenHas(s.seen[d], q)
      BY <1>2 DEF Verified
    <3> QED BY <3>1, SeenFacts
  <2>2. \A e \in Node, r \in SeqNo :
          SeenHas(known.seen[e], r) <=> SeenHas(s.seen[e], r) \/ (e = d /\ r = q)
    <3>1. s.seen[d] \in SeenSets
      BY DEF Stores
    <3>2. \A r \in Int : SeenHas(SeenAdd(s.seen[d], q), r) <=> SeenHas(s.seen[d], r) \/ r = q
      BY <1>2, <3>1, SeenAddCorrect DEF Verified
    <3>3. SeqNo \subseteq Int
      BY MaxSeqAssumption DEF SeqNo
    <3> HIDE DEF known
    <3> QED BY <2>1, <3>2, <3>3
  <2>3. CASE Refused(s, x)
    <3>1. t = known /\ ~Accepts(s, x, d, q)
      BY <1>2, <2>3 DEF Ingest, Accepts
    <3> HIDE DEF known
    <3> QED BY <2>1, <2>2, <2>3, <3>1 DEF Ingested
  <2>4. CASE ~Refused(s, x)
    <3>1. t = Bury(cut, Invalidated(s, x), "invalid") /\ Accepts(s, x, d, q)
      BY <1>2, <2>4 DEF Ingest, Accepts
    <3> HIDE DEF known
    <3>2. /\ held \in Stores
          /\ held.rows = s.rows \union {x}
          /\ held.dead = s.dead /\ held.seen = known.seen
          /\ held.rev = s.rev /\ held.seq = s.seq
      BY <2>1 DEF Stores
    <3> HIDE DEF held
    <3>3. /\ s.rows \union {x} \subseteq Id
          /\ Deleted(s, x) \in SUBSET Id /\ Invalidated(s, x) \in SUBSET Id
      BY <2>4, VictimFacts DEF Stores
    <3>4. /\ cut \in Stores
          /\ cut.rows = held.rows \ Deleted(s, x)
          /\ cut.seen = held.seen /\ cut.rev = held.rev /\ cut.seq = held.seq
          /\ \A y \in Id : cut.dead[y] = IF y \in Deleted(s, x) /\ held.dead[y] = Kept
                                         THEN "deleted" ELSE held.dead[y]
      BY <3>2, <3>3, BuryFacts DEF Reasons
    <3> HIDE DEF cut
    <3>5. /\ t \in Stores
          /\ t.rows = cut.rows \ Invalidated(s, x)
          /\ t.seen = cut.seen /\ t.rev = cut.rev /\ t.seq = cut.seq
          /\ \A y \in Id : t.dead[y] = IF y \in Invalidated(s, x) /\ cut.dead[y] = Kept
                                       THEN "invalid" ELSE cut.dead[y]
      BY <3>1, <3>3, <3>4, BuryFacts DEF Reasons
    <3>6. /\ t.rows = (s.rows \union {x}) \ (Deleted(s, x) \union Invalidated(s, x))
          /\ t.seen = known.seen /\ t.rev = s.rev /\ t.seq = s.seq
      BY <3>2, <3>4, <3>5
    <3>7. \A y \in Id : t.dead[y] = IF s.dead[y] # Kept THEN s.dead[y]
                                    ELSE IF y \in Deleted(s, x) THEN "deleted"
                                    ELSE IF y \in Invalidated(s, x) THEN "invalid" ELSE Kept
      BY <3>2, <3>4, <3>5 DEF Kept
    <3> QED BY <2>2, <3>1, <3>5, <3>6, <3>7 DEF Ingested
  <2> QED BY <2>3, <2>4
<1>3. QED
  BY <1>1, <1>2

\* The same for a message the node writes itself, with or without saving the counter.
LEMMA PublishExactly ==
  ASSUME NEW s \in Stores, NEW n \in Node, NEW x \in Id, NEW q,
         NEW t \in {Ingest(s, x, n, q), Published(s, n, x)},
         Compacted(s.seen[n]), s.seq < MaxSeq, q = s.seq + 1
  PROVE  /\ q \in SeqNo /\ t \in Stores
         /\ Ingested(s, x, n, q, t)
         /\ t = Published(s, n, x) => t.seq = q
<1> DEFINE u == Ingest(s, x, n, q)
<1>1. q \in SeqNo /\ q \in 0..MaxSeq
  BY MaxSeqAssumption DEF Stores, SeqNo
<1>2. u \in Stores /\ u.seq = s.seq /\ Ingested(s, x, n, q, u)
  BY <1>1, IngestExactly
<1>3. Published(s, n, x) = [u EXCEPT !.seq = q]
  <2>1. Published(s, n, x) = [u EXCEPT !.seq = @ + 1]
    BY DEF Published
  <2> HIDE DEF u
  <2> QED BY <1>2, <2>1
<1>4. /\ [u EXCEPT !.seq = q] \in Stores /\ [u EXCEPT !.seq = q].seq = q
      /\ Ingested(s, x, n, q, [u EXCEPT !.seq = q])
  <2> DEFINE v == [u EXCEPT !.seq = q]
  <2> HIDE DEF u
  <2>1. /\ v \in Stores /\ v.seq = q
        /\ v.rows = u.rows /\ v.dead = u.dead /\ v.seen = u.seen /\ v.rev = u.rev
    BY <1>1, <1>2 DEF Stores
  <2> HIDE DEF v
  <2>2. Ingested(s, x, n, q, v)
    BY <1>2, <2>1 DEF Ingested
  <2> QED BY <2>1, <2>2 DEF v
<1>5. t = u \/ t = Published(s, n, x)
  OBVIOUS
<1> HIDE DEF u
<1>6. t = u => u.seq # q
  BY <1>2 DEF Stores
<1>7. QED
  BY <1>1, <1>2, <1>3, <1>4, <1>5, <1>6

----------------------------------------------------------------------------
(***************************************************************************)
(* Custody, step by step.                                                  *)
(***************************************************************************)
Keeps(sg, sg2) == \A y \in Id : sg[y] # Unsigned => sg2[y] = sg[y]

LEMMA EntitledGrows ==
  ASSUME NEW n, NEW x \in Id, NEW sg, NEW sg2,
         Keeps(sg, sg2), Entitled(n, x, sg)
  PROVE  Entitled(n, x, sg2)
BY DEF Entitled, Keeps

LEMMA TagVictimsGrow ==
  ASSUME NEW s \in Stores, NEW sg, NEW sg2,
         Keeps(sg, sg2), TagVictims(s, sg)
  PROVE  TagVictims(s, sg2)
<1> SUFFICES ASSUME NEW x \in Id, s.dead[x] = "invalid", ~IsGrant(x)
             PROVE  IsTag(x) /\ TargetOf[x] \in Tags /\ sg2[TargetOf[x]] # Unsigned
  BY DEF TagVictims
<1>1. IsTag(x) /\ TargetOf[x] \in Tags /\ sg[TargetOf[x]] # Unsigned
  BY DEF TagVictims
<1>2. QED
  BY <1>1 DEF Keeps, Tags

LEMMA ProperGrows ==
  ASSUME NEW n, NEW s \in Stores, NEW sg, NEW sg2,
         Keeps(sg, sg2), Proper(s, n, sg)
  PROVE  Proper(s, n, sg2)
<1>1. \A x \in s.rows : Entitled(n, x, sg2)
  BY EntitledGrows DEF Proper, Stores
<1>2. TagVictims(s, sg2)
  BY TagVictimsGrow DEF Proper
<1>3. QED
  BY <1>1, <1>2 DEF Proper

\* ingest_message() hands a store nothing it may not hold, keeps no grant of what has
\* expired, and buries a tag only for a tag aimed at it.
LEMMA IngestKeepsProper ==
  ASSUME NEW s \in Stores, NEW x \in Id, NEW d, NEW q, NEW n, NEW t \in Stores, NEW sg,
         NEW sg2,
         Keeps(sg, sg2), Accepts(s, x, d, q) => sg2[x] # Unsigned, Proper(s, n, sg),
         Entitled(n, x, sg2), Ingested(s, x, d, q, t)
  PROVE  Proper(t, n, sg2)
<1>1. Proper(s, n, sg2)
  BY ProperGrows
<1>2. CASE ~Accepts(s, x, d, q)
  <2>1. t.rows = s.rows /\ t.dead = s.dead
    BY <1>2 DEF Ingested
  <2> QED BY <1>1, <2>1 DEF Proper, TagVictims, OwnTags
<1>3. CASE Accepts(s, x, d, q)
  <2>1. /\ t.rows = (s.rows \union {x}) \ (Deleted(s, x) \union Invalidated(s, x))
        /\ \A y \in Id : t.dead[y] = IF s.dead[y] # Kept THEN s.dead[y]
                                     ELSE IF y \in Deleted(s, x) THEN "deleted"
                                     ELSE IF y \in Invalidated(s, x) THEN "invalid" ELSE Kept
    BY <1>3 DEF Ingested
  <2>2. /\ x \notin s.rows /\ s.dead[x] = Kept /\ ~Refused(s, x) /\ sg2[x] # Unsigned
        /\ s.rows \subseteq Id
    BY <1>3 DEF Accepts, Stores
  <2>3. \A y \in t.rows : Entitled(n, y, sg2)
    BY <1>1, <2>1 DEF Proper
  <2>4. ASSUME NEW g \in t.rows, IsGrant(g)
        PROVE  t.dead[TargetOf[g]] # "expired"
    <3>1. g \in Id /\ TargetOf[g] \in Id
      BY <2>1, <2>2, <2>4, GrantsAssumption
    <3>2. t.dead[TargetOf[g]] = "expired" => s.dead[TargetOf[g]] = "expired"
      BY <2>1, <3>1 DEF Kept
    <3>3. CASE g \in s.rows
      BY <1>1, <2>4, <3>2, <3>3 DEF Proper
    <3>4. CASE g = x
      <4>1. ~IsTag(x)
        BY <2>4, <3>4, KindFacts
      <4>2. OwnTags(s, x) = {}
        BY <2>1, <3>4, <4>1 DEF Deleted
      <4>3. s.dead[TargetOf[x]] = Kept
        BY <2>1, <2>4, <3>1, <3>4, <4>1, <4>2, ConstantsAssumption DEF Invalidated
      <4> QED BY <3>2, <3>4, <4>3 DEF Kept
    <3> QED BY <2>1, <3>3, <3>4
  <2>5. ASSUME NEW y \in t.rows, NEW z \in OwnTags(t, y) PROVE FALSE
    <3>1. z \in t.rows /\ IsTag(z) /\ TargetOf[z] = y /\ AuthorOf[z] = AuthorOf[y]
      BY <2>5 DEF OwnTags
    <3>2. CASE y \in s.rows /\ z \in s.rows
      BY <1>1, <3>1, <3>2 DEF Proper, OwnTags
    <3>3. CASE y = x /\ z \in s.rows
      <4>1. CASE IsTag(x)
        BY <2>1, <3>1, <3>3, <4>1 DEF Invalidated
      <4>2. CASE ~IsTag(x)
        BY <2>1, <3>1, <3>3, <4>2 DEF Deleted, OwnTags
      <4> QED BY <4>1, <4>2
    <3>4. CASE z = x /\ y \in s.rows
      BY <2>1, <3>1, <3>4 DEF Deleted
    <3>5. CASE z = x /\ y = x
      BY <3>1, <3>5, ConstantsAssumption
    <3> QED BY <2>1, <3>1, <3>2, <3>3, <3>4, <3>5
  <2>6. TagVictims(t, sg2)
    <3> SUFFICES ASSUME NEW y \in Id
                 PROVE  /\ IsTag(y) => t.dead[y] # "deleted"
                        /\ t.dead[y] = "invalid" =>
                             \/ IsGrant(y)
                             \/ IsTag(y) /\ TargetOf[y] \in Tags /\ sg2[TargetOf[y]] # Unsigned
      BY DEF TagVictims
    <3>1. CASE t.dead[y] = s.dead[y]
      BY <1>1, <3>1 DEF Proper, TagVictims
    <3>2. CASE y \in Deleted(s, x) /\ t.dead[y] = "deleted"
      <4>1. ~IsTag(y)
        BY <2>2, <3>2 DEF Deleted, Refused
      <4> QED BY <3>2, <4>1
    <3>3. CASE y \in Invalidated(s, x) /\ t.dead[y] = "invalid"
      <4>1. IsGrant(y) \/ (IsTag(x) /\ IsTag(y) /\ TargetOf[y] = x)
        BY <3>3 DEF Invalidated
      <4> QED BY <2>2, <3>3, <4>1 DEF Tags
    <3>4. \/ t.dead[y] = s.dead[y]
          \/ y \in Deleted(s, x) /\ t.dead[y] = "deleted"
          \/ y \in Invalidated(s, x) /\ t.dead[y] = "invalid"
      BY <2>1
    <3> QED BY <3>1, <3>2, <3>3, <3>4
  <2> QED BY <2>3, <2>4, <2>5, <2>6 DEF Proper
<1>4. QED
  BY <1>2, <1>3

\* Dropping rows for another reason than expiry takes nothing away from that.
LEMMA DroppingKeepsProper ==
  ASSUME NEW s \in Stores, NEW t \in Stores, NEW n, NEW sg,
         Proper(s, n, sg), t.rows \subseteq s.rows,
         \A x \in Id : t.dead[x] \in {s.dead[x], "retro-drop"}
  PROVE  Proper(t, n, sg)
<1>1. s.rows \subseteq Id
  BY DEF Stores
<1>2. \A x \in t.rows : Entitled(n, x, sg) /\ OwnTags(t, x) = {}
  BY DEF Proper, OwnTags
<1>3. \A g \in t.rows : IsGrant(g) => t.dead[TargetOf[g]] # "expired"
  BY <1>1, GrantsAssumption DEF Proper
<1>4. TagVictims(t, sg)
  <2>1. \A x \in Id : /\ t.dead[x] = "deleted" => s.dead[x] = "deleted"
                      /\ t.dead[x] = "invalid" => s.dead[x] = "invalid"
    OBVIOUS
  <2> QED BY <2>1 DEF Proper, TagVictims
<1>5. QED
  BY <1>2, <1>3, <1>4 DEF Proper

LEMMA SweepFacts ==
  ASSUME NEW s \in Stores, NEW ids \in SUBSET Id, NEW t,
         t = Bury(s, ids, "expired")
  PROVE  /\ t \in Stores /\ t.rows = s.rows \ ids /\ t.seen = s.seen /\ t.rev = s.rev
         /\ \A x \in Id : t.dead[x] = IF x \in ids /\ s.dead[x] = Kept
                                      THEN "expired" ELSE s.dead[x]
BY BuryFacts DEF Reasons

\* sweep_expired() takes the grants of what expires along.
LEMMA SweepKeepsProper ==
  ASSUME NEW s, NEW out, NEW n, NEW sg, NEW t, s \in Stores, out \in SUBSET s.rows,
         \A g \in s.rows : IsGrant(g) /\ TargetOf[g] \in out => g \in out,
         Proper(s, n, sg), \A x \in s.rows : s.dead[x] = Kept, t = Bury(s, out, "expired")
  PROVE  Proper(t, n, sg)
<1>1. s.rows \subseteq Id
  BY DEF Stores
<1>2. /\ t \in Stores
      /\ t.rows = s.rows \ out
      /\ \A x \in Id : t.dead[x] = IF x \in out /\ s.dead[x] = Kept
                                   THEN "expired" ELSE s.dead[x]
  BY <1>1, SweepFacts
<1>3. \A x \in t.rows : Entitled(n, x, sg) /\ OwnTags(t, x) = {}
  BY <1>2 DEF Proper, OwnTags
<1>4. ASSUME NEW g \in t.rows, IsGrant(g)
      PROVE  t.dead[TargetOf[g]] # "expired"
  <2>1. g \in s.rows /\ TargetOf[g] \in Id
    BY <1>1, <1>2, <1>4, GrantsAssumption
  <2>2. TargetOf[g] \notin out
    BY <1>2, <1>4, <2>1
  <2> QED BY <1>2, <1>4, <2>1, <2>2 DEF Proper
<1>5. TagVictims(t, sg)
  <2>1. \A x \in Id : /\ t.dead[x] = "deleted" => s.dead[x] = "deleted"
                      /\ t.dead[x] = "invalid" => s.dead[x] = "invalid"
    BY <1>2
  <2> QED BY <2>1 DEF Proper, TagVictims
<1>6. QED
  BY <1>3, <1>4, <1>5 DEF Proper

LEMMA EmptyStoreIsProper ==
  ASSUME NEW n, NEW sg PROVE Proper(EmptyStore, n, sg)
<1>1. EmptyStore.rows = {} /\ \A x \in Id : EmptyStore.dead[x] = Kept
  BY DEF EmptyStore
<1>2. QED
  BY <1>1 DEF Proper, TagVictims, Kept

\* Revocations drop rows, for no other reason, and forget no number.
LEMMA RevocationExactly ==
  ASSUME NEW s \in Stores, NEW revs \in [Node -> Bounds], NEW t,
         t = IngestRevocations(s, revs)
  PROVE  /\ t \in Stores /\ t.seen = s.seen /\ t.rows \subseteq s.rows
         /\ \A x \in Id : t.dead[x] \in {s.dead[x], "retro-drop"}
         /\ \A d \in Node : t.rev[d] = IF revs[d] # NotRevoked THEN revs[d] ELSE s.rev[d]
         /\ \A x \in Id : t.dead[x] = s.dead[x] \/ (x \in s.rows /\ revs[sig[x].dev] # NotRevoked)
         /\ \A x \in s.rows : x \in t.rows \/ s.dead[x] # Kept \/ t.dead[x] = "retro-drop"
         /\ (\A d \in Node : revs[d] = NotRevoked) /\ (\A x \in s.rows : sig[x].dev \in Node)
              => t.rows = s.rows /\ t.dead = s.dead /\ t.rev = s.rev
<1> DEFINE bound == [d \in Node |-> IF revs[d] # NotRevoked THEN revs[d] ELSE s.rev[d]]
           late  == {x \in s.rows : LET d == sig[x].dev IN
                       revs[d] # NotRevoked /\ sig[x].seq > revs[d]}
           told  == [s EXCEPT !.rev = bound]
<1>1. /\ told \in Stores
      /\ told.rows = s.rows /\ told.dead = s.dead
      /\ told.seen = s.seen /\ told.rev = bound
  BY DEF Stores
<1>2. t = Bury(told, late, "retro-drop")
  BY DEF IngestRevocations
<1>3. late \in SUBSET Id /\ "retro-drop" \in Reasons
  BY DEF Stores, Reasons
<1>4. ASSUME \A d \in Node : revs[d] = NotRevoked, \A x \in s.rows : sig[x].dev \in Node
      PROVE  late = {} /\ bound = s.rev
  <2>1. late = {}
    BY <1>4
  <2>2. s.rev \in [Node -> Bounds]
    BY DEF Stores
  <2> QED BY <1>4, <2>1, <2>2
<1>8. /\ \A d \in Node : bound[d] = IF revs[d] # NotRevoked THEN revs[d] ELSE s.rev[d]
      /\ \A x \in late : x \in s.rows /\ revs[sig[x].dev] # NotRevoked
      /\ s.rows \subseteq Id
  BY DEF Stores
<1> HIDE DEF bound, late, told
<1>5. /\ t \in Stores /\ t.rows = told.rows \ late
      /\ t.seen = told.seen /\ t.rev = told.rev
      /\ \A x \in Id : t.dead[x] = IF x \in late /\ told.dead[x] = Kept
                                   THEN "retro-drop" ELSE told.dead[x]
  BY <1>1, <1>2, <1>3, BuryFacts DEF Reasons
<1>6. ASSUME late = {} PROVE t.dead = s.dead
  <2>1. \A x \in Id : t.dead[x] = s.dead[x]
    BY <1>1, <1>5, <1>6
  <2>2. t.dead \in [Id -> Reasons \union {Kept}] /\ s.dead \in [Id -> Reasons \union {Kept}]
    BY <1>5 DEF Stores
  <2> QED BY <2>1, <2>2
<1>9. \A x \in s.rows : x \in t.rows \/ s.dead[x] # Kept \/ t.dead[x] = "retro-drop"
  BY <1>1, <1>5, <1>8
<1>10. ASSUME NEW x \in Id
       PROVE  t.dead[x] = s.dead[x] \/ (x \in s.rows /\ revs[sig[x].dev] # NotRevoked)
  <2>1. CASE x \in late
    BY <1>8, <2>1
  <2>2. CASE x \notin late
    BY <1>1, <1>5, <2>2
  <2> QED BY <2>1, <2>2
<1>7. QED
  BY <1>1, <1>4, <1>5, <1>6, <1>8, <1>9, <1>10

(***************************************************************************)
(* The steps, as the three invariants below see them: one message written, *)
(* two tags written, and the rest.                                         *)
(***************************************************************************)
Writes(n, x, t) ==
  /\ Writable(n, x)
  /\ t \in {Ingest(local[n], x, n, local[n].seq + 1), Published(local[n], n, x)}
  /\ local' = [local EXCEPT ![n] = t]
  /\ sig' = SignedBy(sig, local[n], n, x)
  /\ alive' = alive
  /\ wire' = wire \/ Restarted(n)
  /\ IsTag(x) /\ Accepts(local[n], x, n, local[n].seq + 1) => Records(n, TargetOf[x]) = {}

WritesTwo(n, y, x, t, u) ==
  /\ Writable(n, x) /\ Writable(n, y) /\ local[n].seq + 2 <= MaxSeq
  /\ IsTag(x) /\ IsTag(y)
  /\ TargetOf[y] \in Records(n, TargetOf[x])
  /\ Accepts(local[n], y, n, local[n].seq + 1)
  /\ t = Published(local[n], n, y)
  /\ u \in {Ingest(t, x, n, t.seq + 1), Published(t, n, x)}
  /\ local' = [local EXCEPT ![n] = u]
  /\ sig' = SignedBy(SignedBy(sig, local[n], n, y), t, n, x)
  /\ alive' = alive
  /\ wire' = wire \/ Restarted(n)

LEMMA StepCases ==
  ASSUME [Next]_vars
  PROVE  \/ \E n \in Node, x \in Id : \E t : Writes(n, x, t)
         \/ \E n \in Node, x, y \in Id : \E t, u : WritesTwo(n, y, x, t, u)
         \/ \E n \in Node : SweepExpired(n)
         \/ \E m, n \in Node : \/ RevokeDevice(m, n)
                               \/ SwapRevocations(m, n)
                               \/ SendMessages(m, n)
                               \/ LoseConnection(m, n)
         \/ \E m, n \in Node, x \in Id : ReceiveMessage(m, n, x)
         \/ UNCHANGED vars
<1>1. ASSUME NEW n \in Node, NEW x \in Id \ Tags, Publish(n, x)
      PROVE  Writes(n, x, Published(local[n], n, x))
  BY <1>1 DEF Publish, Writes, Tags
<1>2. ASSUME NEW n \in Node, NEW x \in Tags, DeletePost(n, x)
      PROVE  Writes(n, x, Published(local[n], n, x))
  BY <1>2 DEF DeletePost, Writes
<1>3. ASSUME NEW n \in Node, NEW x \in Id, CrashInPublish(n, x)
      PROVE  Writes(n, x, Ingest(local[n], x, n, local[n].seq + 1))
  BY <1>3 DEF CrashInPublish, Writes
<1>4. ASSUME NEW n \in Node, NEW x \in Tags, NEW y \in Tags, DeletePostAndRecord(n, y, x),
             Accepts(local[n], y, n, local[n].seq + 1)
      PROVE  WritesTwo(n, y, x, Published(local[n], n, y),
                       Published(Published(local[n], n, y), n, x))
  BY <1>4 DEF DeletePostAndRecord, WritesTwo, Tags
<1>5. ASSUME NEW n \in Node, NEW x \in Tags, NEW y \in Tags, DeletePostAndRecord(n, y, x),
             ~Accepts(local[n], y, n, local[n].seq + 1)
      PROVE  Writes(n, y, Published(local[n], n, y))
  BY <1>5 DEF DeletePostAndRecord, Writes, SignedBy
<1>6. ASSUME NEW n \in Node, NEW x \in Tags, NEW y \in Tags, CrashInDeletePost(n, y, x)
      PROVE  \E t, u : WritesTwo(n, y, x, t, u)
  <2> DEFINE t == Published(local[n], n, y)
             u == Ingest(t, x, n, t.seq + 1)
  <2>1. WritesTwo(n, y, x, t, u)
    BY <1>6 DEF CrashInDeletePost, WritesTwo, Tags
  <2> HIDE DEF t, u
  <2> QED BY <2>1
<1>7. Tags \subseteq Id
  BY DEF Tags
<1>8. QED
  BY <1>1, <1>2, <1>3, <1>4, <1>5, <1>6, <1>7 DEF Next

LEMMA SignedByFacts ==
  ASSUME NEW s \in Stores, NEW n \in Node, NEW x \in Id, NEW q,
         NEW sg \in [Id -> Signatures], NEW sg2,
         s.seq < MaxSeq, q = s.seq + 1, sg[x] = Unsigned, sg2 = SignedBy(sg, s, n, x)
  PROVE  /\ q \in SeqNo
         /\ sg2 \in [Id -> Signatures] /\ Keeps(sg, sg2)
         /\ \A y \in Id \ {x} : sg2[y] = sg[y]
         /\ Accepts(s, x, n, q) => sg2[x] # Unsigned
         /\ sg2[x] # Unsigned => Accepts(s, x, n, q) /\ sg2[x].dev = n /\ sg2[x].seq = q
<1>1. q \in SeqNo
  BY MaxSeqAssumption DEF Stores, SeqNo
<1>2. [dev |-> n, seq |-> q] \in Signatures /\ [dev |-> n, seq |-> q] # Unsigned
  BY <1>1, MaxSeqAssumption DEF Signatures, Unsigned, SeqNo
<1>3. sg2 = IF Accepts(s, x, n, q) THEN [sg EXCEPT ![x] = [dev |-> n, seq |-> q]] ELSE sg
  BY DEF SignedBy
<1>4. QED
  BY <1>1, <1>2, <1>3 DEF Keeps

LEMMA PublishKeepsGood ==
  ASSUME NEW s \in Stores, NEW n \in Node, NEW x \in Id, NEW q,
         NEW sg \in [Id -> Signatures], NEW sg2,
         NEW t \in {Ingest(s, x, n, q), Published(s, n, x)},
         s.seq < MaxSeq, q = s.seq + 1, GoodStore(s, sg), sg[x] = Unsigned,
         sg2 = SignedBy(sg, s, n, x)
  PROVE  GoodStore(t, sg2)
<1> DEFINE u == Ingest(s, x, n, q)
<1>1. q \in SeqNo /\ sg2 \in [Id -> Signatures] /\ Keeps(sg, sg2)
  BY SignedByFacts
<1>2. Accepts(s, x, n, q) => sg2[x] = [dev |-> n, seq |-> q]
  BY DEF SignedBy
<1>3. u \in Stores /\ GoodStore(u, sg2)
  <2>1. \A y \in Id : sg[y] # Unsigned => sg2[y] = sg[y]
    BY <1>1 DEF Keeps
  <2> QED BY <1>1, <1>2, <2>1, IngestFacts DEF Unsigned, Signatures
<1>4. CASE t = Published(s, n, x)
  <2>1. t = [u EXCEPT !.seq = @ + 1]
    BY <1>4 DEF Published
  <2> HIDE DEF u
  <2>2. t.rows = u.rows /\ t.dead = u.dead /\ t.seen = u.seen /\ t.rev = u.rev
    BY <1>3, <2>1 DEF Stores
  <2> QED BY <1>3, <2>2 DEF GoodStore, Counted, CutOff, ByAuthor
<1>5. QED
  BY <1>3, <1>4

\* Writing a message keeps the writer's store good and proper.
LEMMA PublishKeepsProper ==
  ASSUME NEW s \in Stores, NEW n \in Node, NEW x \in Id, NEW q,
         NEW sg \in [Id -> Signatures], NEW sg2,
         NEW t \in {Ingest(s, x, n, q), Published(s, n, x)},
         s.seq < MaxSeq, q = s.seq + 1, GoodStore(s, sg), Proper(s, n, sg),
         sg[x] = Unsigned, OwnerOf[n] = AuthorOf[x], sg2 = SignedBy(sg, s, n, x)
  PROVE  /\ t \in Stores /\ GoodStore(t, sg2) /\ Proper(t, n, sg2)
         /\ t = Published(s, n, x) => t.seq = q
<1>1. /\ Keeps(sg, sg2)
      /\ Accepts(s, x, n, q) => sg2[x] # Unsigned
  BY SignedByFacts
<1>3. GoodStore(t, sg2)
  BY PublishKeepsGood
<1>4. /\ Ingested(s, x, n, q, t) /\ t \in Stores
      /\ t = Published(s, n, x) => t.seq = q
  BY PublishExactly DEF GoodStore
<1>5. Entitled(n, x, sg2)
  BY DEF Entitled
<1>6. Proper(t, n, sg2)
  BY <1>1, <1>4, <1>5, IngestKeepsProper
<1>7. QED
  BY <1>3, <1>4, <1>6

\* What is left to show of a step, once its signatures, its stores and its frames are
\* described.
LEMMA CustodyStep ==
  ASSUME
         Inv, Inv', Custody, Keeps(sig, sig'),
         \A x \in Id : sig[x] = Unsigned /\ sig'[x] # Unsigned =>
           OwnerOf[sig'[x].dev] = AuthorOf[x],
         \A n \in Node : local'[n] = local[n] \/ Proper(local'[n], n, sig'),
         \A m, n \in Node : \A x \in wire'[m][n] : x \in wire[m][n] \/ Entitled(n, x, sig)
  PROVE  Custody'
<1>1. /\ local \in [Node -> Stores]
      /\ wire' \in [Node -> [Node -> SUBSET Id]]
      /\ \A n \in Node : Proper(local[n], n, sig)
  BY DEF Inv, TypeOK, Custody
<1>2. \A n \in Node : Proper(local'[n], n, sig')
  <2> SUFFICES ASSUME NEW n \in Node PROVE Proper(local'[n], n, sig')
    OBVIOUS
  <2>1. local[n] \in Stores /\ Proper(local[n], n, sig)
    BY <1>1
  <2>2. Proper(local[n], n, sig')
    BY <2>1, ProperGrows
  <2> QED BY <2>2
<1>3. FramesEntitled'
  <2> SUFFICES ASSUME NEW m \in Node, NEW n \in Node, NEW x \in wire'[m][n]
               PROVE  Entitled(n, x, sig')
    BY DEF FramesEntitled
  <2>1. x \in Id
    BY <1>1
  <2>2. Entitled(n, x, sig)
    BY DEF Custody, FramesEntitled
  <2> QED BY <2>1, <2>2, EntitledGrows
<1>4. SignedByOwners'
  BY DEF Custody, SignedByOwners, Keeps
<1>5. QED
  BY <1>2, <1>3, <1>4 DEF Custody

LEMMA FramesNotWidened ==
  ASSUME NEW n \in Node,
         wire' = wire \/ Restarted(n)
  PROVE  \A m, k \in Node : \A x \in wire'[m][k] : x \in wire[m][k]
BY DEF Restarted

LEMMA CustodyInit == Init => Custody
<1> SUFFICES ASSUME Init PROVE Custody
  OBVIOUS
<1>1. /\ \A n \in Node : local[n] = EmptyStore
      /\ \A x \in Id : sig[x] = Unsigned
      /\ \A m, n \in Node : wire[m][n] = {}
  BY DEF Init
<1>2. QED
  BY <1>1, EmptyStoreIsProper DEF Custody, FramesEntitled, SignedByOwners

\* No step hands a device what it may not hold.
LEMMA CustodyNext == Inv /\ Inv' /\ Custody /\ [Next]_vars => Custody'
<1> SUFFICES ASSUME Inv, Inv', Custody, [Next]_vars PROVE Custody'
  OBVIOUS
<1>0. /\ local \in [Node -> Stores] /\ sig \in [Id -> Signatures]
      /\ wire \in [Node -> [Node -> SUBSET Id]]
      /\ \A n \in Node : GoodStore(local[n], sig) /\ Proper(local[n], n, sig)
  BY DEF Inv, TypeOK, Custody
<1>1. ASSUME NEW n \in Node, NEW x \in Id, NEW t, Writes(n, x, t) PROVE Custody'
  <2> DEFINE q == local[n].seq + 1
  <2>1. /\ OwnerOf[n] = AuthorOf[x] /\ sig[x] = Unsigned /\ local[n].seq < MaxSeq
        /\ t \in {Ingest(local[n], x, n, q), Published(local[n], n, x)}
        /\ local' = [local EXCEPT ![n] = t]
        /\ sig' = SignedBy(sig, local[n], n, x)
        /\ wire' = wire \/ Restarted(n)
    BY <1>1 DEF Writes, Writable
  <2>2. /\ Keeps(sig, sig') /\ \A y \in Id \ {x} : sig'[y] = sig[y]
        /\ sig'[x] # Unsigned => sig'[x].dev = n
    BY <1>0, <2>1, SignedByFacts
  <2>3. Proper(t, n, sig')
    <3> DEFINE s == local[n]
    <3>1. /\ s \in Stores /\ GoodStore(s, sig) /\ Proper(s, n, sig) /\ s.seq < MaxSeq
          /\ q = s.seq + 1 /\ t \in {Ingest(s, x, n, q), Published(s, n, x)}
          /\ sig \in [Id -> Signatures] /\ sig[x] = Unsigned /\ OwnerOf[n] = AuthorOf[x]
          /\ sig' = SignedBy(sig, s, n, x)
      BY <1>0, <2>1
    <3> HIDE DEF q, s
    <3> QED BY <3>1, PublishKeepsProper
  <2>4. \A k \in Node : local'[k] = local[k] \/ Proper(local'[k], k, sig')
    BY <1>0, <2>1, <2>3
  <2>5. \A m, k \in Node : \A y \in wire'[m][k] : y \in wire[m][k]
    BY <2>1, FramesNotWidened
  <2>6. \A y \in Id : sig[y] = Unsigned /\ sig'[y] # Unsigned =>
          OwnerOf[sig'[y].dev] = AuthorOf[y]
    BY <2>1, <2>2
  <2> QED BY <2>2, <2>4, <2>5, <2>6, CustodyStep
<1>2. ASSUME NEW n \in Node, NEW x \in Id, NEW y \in Id, NEW t, NEW u,
             WritesTwo(n, y, x, t, u)
      PROVE  Custody'
  <2> DEFINE s  == local[n]
             sg == SignedBy(sig, s, n, y)
  <2>1. /\ OwnerOf[n] = AuthorOf[x] /\ OwnerOf[n] = AuthorOf[y]
        /\ sig[x] = Unsigned /\ sig[y] = Unsigned
        /\ s.seq < MaxSeq /\ s.seq + 2 <= MaxSeq
        /\ t = Published(s, n, y)
        /\ u \in {Ingest(t, x, n, t.seq + 1), Published(t, n, x)}
        /\ local' = [local EXCEPT ![n] = u]
        /\ sig' = SignedBy(sg, t, n, x)
        /\ wire' = wire \/ Restarted(n)
    BY <1>2 DEF WritesTwo, Writable
  <2>2. s \in Stores /\ GoodStore(s, sig) /\ Proper(s, n, sig) /\ s.seq \in 0..MaxSeq
    BY <1>0 DEF Stores
  <2>3. x # y
    <3>1. TargetOf[y] \in s.rows /\ TargetOf[TargetOf[y]] = TargetOf[x]
      BY <1>2 DEF WritesTwo, Records
    <3> QED BY <2>2, <3>1, ConstantsAssumption DEF Stores
  <2> HIDE DEF s, sg
  <2>4. /\ sg \in [Id -> Signatures] /\ Keeps(sig, sg)
        /\ \A z \in Id \ {y} : sg[z] = sig[z]
        /\ sg[y] # Unsigned => sg[y].dev = n
    BY <1>0, <2>1, <2>2, SignedByFacts DEF sg
  <2>5. t \in Stores /\ GoodStore(t, sg) /\ Proper(t, n, sg) /\ t.seq = s.seq + 1
    <3> DEFINE q == s.seq + 1
    <3>1. /\ q = s.seq + 1 /\ t \in {Ingest(s, y, n, q), Published(s, n, y)}
          /\ sig \in [Id -> Signatures] /\ sig[y] = Unsigned /\ OwnerOf[n] = AuthorOf[y]
          /\ sg = SignedBy(sig, s, n, y) /\ s.seq < MaxSeq /\ t = Published(s, n, y)
      BY <1>0, <2>1 DEF sg
    <3> HIDE DEF q
    <3>2. t \in Stores /\ GoodStore(t, sg) /\ Proper(t, n, sg) /\ t.seq = q
      BY <2>2, <3>1, PublishKeepsProper
    <3> QED BY <3>1, <3>2
  <2>7. sg[x] = Unsigned /\ t.seq < MaxSeq
    BY <2>1, <2>2, <2>3, <2>4, <2>5, MaxSeqAssumption
  <2>8. /\ Keeps(sg, sig') /\ \A z \in Id \ {x} : sig'[z] = sg[z]
        /\ sig'[x] # Unsigned => sig'[x].dev = n
    BY <2>1, <2>4, <2>5, <2>7, SignedByFacts
  <2>9. Proper(u, n, sig')
    <3> DEFINE q == t.seq + 1
    <3>1. /\ q = t.seq + 1 /\ u \in {Ingest(t, x, n, q), Published(t, n, x)}
          /\ OwnerOf[n] = AuthorOf[x] /\ sig' = SignedBy(sg, t, n, x)
      BY <2>1
    <3> HIDE DEF q
    <3> QED BY <2>4, <2>5, <2>7, <3>1, PublishKeepsProper
  <2>10. \A k \in Node : local'[k] = local[k] \/ Proper(local'[k], k, sig')
    BY <1>0, <2>1, <2>9
  <2>11. \A m, k \in Node : \A z \in wire'[m][k] : z \in wire[m][k]
    BY <2>1, FramesNotWidened
  <2>12. Keeps(sig, sig')
    BY <2>4, <2>8 DEF Keeps
  <2>13. \A z \in Id : sig[z] = Unsigned /\ sig'[z] # Unsigned =>
           OwnerOf[sig'[z].dev] = AuthorOf[z]
    BY <2>1, <2>3, <2>4, <2>8
  <2> QED BY <2>10, <2>11, <2>12, <2>13, CustodyStep
<1>3. ASSUME NEW n \in Node, SweepExpired(n) PROVE Custody'
  <2>1. PICK late \in SUBSET local[n].rows :
          LET grants == {g \in local[n].rows : IsGrant(g) /\ TargetOf[g] \in late}
          IN  /\ local' = [local EXCEPT ![n] = Bury(@, late \union grants, "expired")]
              /\ sig' = sig /\ wire' = wire
    BY <1>3 DEF SweepExpired
  <2> DEFINE grants == {g \in local[n].rows : IsGrant(g) /\ TargetOf[g] \in late}
             t == Bury(local[n], late \union grants, "expired")
  <2>2. Proper(t, n, sig)
    <3> DEFINE s   == local[n]
               out == late \union grants
    <3>1. /\ s \in Stores /\ Proper(s, n, sig)
          /\ \A x \in s.rows : s.dead[x] = Kept
      BY <1>0 DEF GoodStore
    <3>2. t = Bury(s, out, "expired") /\ out \in SUBSET s.rows
      OBVIOUS
    <3>3. \A g \in s.rows : IsGrant(g) /\ TargetOf[g] \in out => g \in out
      BY <3>1, GrantsAssumption DEF Stores
    <3> HIDE DEF s, t, out, grants
    <3> QED BY <3>1, <3>2, <3>3, SweepKeepsProper
  <2>3. \A k \in Node : local'[k] = local[k] \/ Proper(local'[k], k, sig')
    <3>1. local' = [local EXCEPT ![n] = t] /\ sig' = sig
      BY <2>1
    <3> HIDE DEF t
    <3> QED BY <1>0, <2>2, <3>1
  <2> QED BY <2>1, <2>3, CustodyStep DEF Keeps
<1>4. ASSUME NEW n \in Node, NEW d \in Node, RevokeDevice(n, d) PROVE Custody'
  <2> DEFINE revs == [e \in Node |-> IF e = d THEN MaxSeen(local[n].seen[d]) ELSE NotRevoked]
             t    == IngestRevocations(local[n], revs)
  <2>1. revs \in [Node -> Bounds]
    <3>1. local[n].seen[d] \in SeenSets /\ Compacted(local[n].seen[d])
      BY <1>0 DEF Stores, GoodStore
    <3> QED BY <3>1, MaxSeenCorrect DEF Bounds
  <2>2. local' = [local EXCEPT ![n] = t] /\ sig' = sig /\ wire' = wire
    BY <1>4 DEF RevokeDevice
  <2> HIDE DEF revs
  <2>3. /\ t \in Stores /\ t.rows \subseteq local[n].rows
        /\ \A x \in Id : t.dead[x] \in {local[n].dead[x], "retro-drop"}
    BY <1>0, <2>1, RevocationExactly
  <2> HIDE DEF t
  <2>4. Proper(t, n, sig)
    BY <1>0, <2>3, DroppingKeepsProper
  <2>5. \A k \in Node : local'[k] = local[k] \/ Proper(local'[k], k, sig')
    BY <1>0, <2>2, <2>4
  <2> QED BY <2>2, <2>5, CustodyStep DEF Keeps
<1>5. ASSUME NEW m \in Node, NEW n \in Node, SwapRevocations(m, n) PROVE Custody'
  <2> DEFINE After(k, peer) == IF KnowsRevoked(peer, k) THEN EmptyStore
                               ELSE IngestRevocations(local[k], local[peer].rev)
  <2>1. /\ local' = [local EXCEPT ![m] = After(m, n), ![n] = After(n, m)]
        /\ sig' = sig /\ wire' = wire
    BY <1>5 DEF SwapRevocations
  <2>2. ASSUME NEW k \in Node, NEW peer \in Node PROVE Proper(After(k, peer), k, sig)
    <3> DEFINE t == IngestRevocations(local[k], local[peer].rev)
    <3>1. local[peer].rev \in [Node -> Bounds]
      BY <1>0 DEF Stores
    <3>2. /\ t \in Stores /\ t.rows \subseteq local[k].rows
          /\ \A x \in Id : t.dead[x] \in {local[k].dead[x], "retro-drop"}
      BY <1>0, <3>1, RevocationExactly
    <3> HIDE DEF t
    <3>3. Proper(t, k, sig)
      BY <1>0, <3>2, DroppingKeepsProper
    <3> QED BY <3>3, EmptyStoreIsProper DEF t
  <2> HIDE DEF After
  <2>3. \A k \in Node : local'[k] = local[k] \/ Proper(local'[k], k, sig')
    BY <1>0, <2>1, <2>2
  <2> QED BY <2>1, <2>3, CustodyStep DEF Keeps
<1>6. ASSUME NEW m \in Node, NEW n \in Node, SendMessages(m, n) PROVE Custody'
  <2>1. local' = local /\ sig' = sig /\ wire' = [wire EXCEPT ![m][n] = Offer(m, n)]
    BY <1>6 DEF SendMessages
  <2>2. ASSUME NEW x \in Offer(m, n) PROVE Entitled(n, x, sig)
    <3>1. x \in local[m].rows /\ Routed(m, x, OwnerOf[n])
      BY DEF Offer
    <3>2. \A g \in local[m].rows : g \in Id /\ sig[g] # Unsigned
      BY <1>0 DEF Stores, GoodStore, Counted
    <3> QED BY <3>1, <3>2 DEF Routed, Entitled, IsTag
  <2>3. \A k, l \in Node : \A x \in wire'[k][l] : x \in wire[k][l] \/ Entitled(l, x, sig)
    <3> HIDE DEF Custody
    <3> QED BY <1>0, <2>1, <2>2
  <2> QED BY <2>1, <2>3, CustodyStep DEF Keeps
<1>7. ASSUME NEW m \in Node, NEW n \in Node, LoseConnection(m, n) PROVE Custody'
  <2>1. local' = local /\ sig' = sig /\ wire' = [wire EXCEPT ![m][n] = {}]
    BY <1>7 DEF LoseConnection
  <2>2. \A k, l \in Node : \A x \in wire'[k][l] : x \in wire[k][l]
    BY <1>0, <2>1
  <2> QED BY <2>1, <2>2, CustodyStep DEF Keeps
<1>8. ASSUME NEW m \in Node, NEW n \in Node, NEW x \in Id, ReceiveMessage(m, n, x)
      PROVE  Custody'
  <2> DEFINE t == Ingest(local[n], x, sig[x].dev, sig[x].seq)
  <2>1. /\ x \in wire[m][n] /\ sig' = sig
        /\ local' = [local EXCEPT ![n] = t]
        /\ wire' = [wire EXCEPT ![m][n] = @ \ {x}]
    BY <1>8 DEF ReceiveMessage
  <2>2. sig[x] # Unsigned /\ sig[x].dev \in Node /\ sig[x].seq \in SeqNo
    BY <1>0, <2>1 DEF Inv, WireSigned, Signatures
  <2>3. t \in Stores /\ Ingested(local[n], x, sig[x].dev, sig[x].seq, t)
    BY <1>0, <2>2, IngestExactly DEF GoodStore
  <2> HIDE DEF t
  <2>4. Entitled(n, x, sig)
    BY <2>1 DEF Custody, FramesEntitled
  <2>5. Proper(t, n, sig)
    BY <1>0, <2>2, <2>3, <2>4, IngestKeepsProper DEF Keeps
  <2>6. \A k \in Node : local'[k] = local[k] \/ Proper(local'[k], k, sig')
    BY <1>0, <2>1, <2>5
  <2>7. \A k, l \in Node : \A y \in wire'[k][l] : y \in wire[k][l]
    BY <1>0, <2>1
  <2> QED BY <2>1, <2>6, <2>7, CustodyStep DEF Keeps
<1>9. CASE UNCHANGED vars
  BY <1>9 DEF vars, Custody, FramesEntitled, SignedByOwners
<1>10. QED
  BY <1>1, <1>2, <1>3, <1>4, <1>5, <1>6, <1>7, <1>8, <1>9, StepCases

\* Who holds what, and why a message died, for every instance.
THEOREM CustodyInvariance == Spec => []Custody
<1>1. Init => Custody
  BY CustodyInit
<1>2. Inv /\ Inv' /\ Custody /\ [Next]_vars => Custody'
  BY CustodyNext
<1>3. QED
  BY <1>1, <1>2, Invariance, PTL DEF Spec

\* Content rests only with its author and with those whom it or a grant of its author
\* names, whoever relays it (_recipients_ok and messages_not_in in sync.py).
THEOREM ContentStaysInAudience == Spec => []AudienceOnly
<1>1. Inv /\ Custody => AudienceOnly
  <2> SUFFICES ASSUME Inv, Custody, NEW n \in Node, NEW x \in local[n].rows,
                      KindOf[x] = "content"
               PROVE  \/ OwnerOf[n] \in {AuthorOf[x]} \union Audience[x]
                      \/ \E g \in Id : /\ IsGrant(g) /\ TargetOf[g] = x
                                       /\ AuthorOf[g] = AuthorOf[x]
                                       /\ sig[g] # Unsigned
                                       /\ OwnerOf[n] \in Audience[g]
    BY DEF AudienceOnly
  <2>1. Entitled(n, x, sig)
    BY DEF Custody, Proper
  <2> QED BY <2>1 DEF Entitled
<1>2. QED
  BY <1>1, Invariance, CustodyInvariance, PTL

\* A grant does not outlive an expired message, whichever comes first (sweep_expired,
\* ingest_message).
THEOREM GrantsExpireWithTheirTarget == Spec => []NoGrantOfExpired
<1>1. Custody => NoGrantOfExpired
  BY DEF Custody, Proper, NoGrantOfExpired
<1>2. QED
  BY <1>1, CustodyInvariance, PTL

\* A tag dies for a tag aimed at it, an expiry or a revocation only (ingest_message).
THEOREM TagsDieForTagsOnly == Spec => []TagsAreImmune
<1>1. Custody => TagsAreImmune
  <2> SUFFICES ASSUME Custody, NEW n \in Node, NEW t \in Id,
                      IsTag(t), local[n].dead[t] \in {"deleted", "invalid"}
               PROVE  IsTag(TargetOf[t]) /\ sig[TargetOf[t]] # Unsigned
    BY DEF TagsAreImmune
  <2>1. TagVictims(local[n], sig)
    BY DEF Custody, Proper
  <2>2. ~IsGrant(t)
    BY KindFacts
  <2> QED BY <2>1, <2>2 DEF TagVictims, Tags
<1>2. QED
  BY <1>1, CustodyInvariance, PTL
----------------------------------------------------------------------------
(***************************************************************************)
(* Convergence, step by step.                                              *)
(***************************************************************************)

\* What a store held or buried before a message came it holds or has buried after.
LEMMA IngestForgetsNothing ==
  ASSUME NEW s \in Stores, NEW x \in Id, NEW d, NEW q, NEW t \in Stores,
         Ingested(s, x, d, q, t)
  PROVE  /\ \A y \in s.rows : y \in t.rows \/ t.dead[y] # Kept
         /\ \A y \in Id : s.dead[y] # Kept => t.dead[y] = s.dead[y]
         /\ Accepts(s, x, d, q) => x \in t.rows \/ t.dead[x] # Kept
<1>1. CASE ~Accepts(s, x, d, q)
  BY <1>1 DEF Ingested
<1>2. CASE Accepts(s, x, d, q)
  <2>1. /\ t.rows = (s.rows \union {x}) \ (Deleted(s, x) \union Invalidated(s, x))
        /\ \A y \in Id : t.dead[y] = IF s.dead[y] # Kept THEN s.dead[y]
                                     ELSE IF y \in Deleted(s, x) THEN "deleted"
                                     ELSE IF y \in Invalidated(s, x) THEN "invalid" ELSE Kept
        /\ s.rows \subseteq Id
    BY <1>2 DEF Ingested, Stores
  <2> QED BY <2>1 DEF Kept
<1>3. QED
  BY <1>1, <1>2

\* A message that is counted is held, was buried, or is a tag that can do nothing;
\* and what is deleted is deleted by a tag that the store keeps.
LEMMA IngestKeepsSettled ==
  ASSUME NEW s \in Stores, NEW x \in Id, NEW d \in Node, NEW q \in SeqNo, NEW n,
         NEW t \in Stores, NEW sg \in [Id -> Signatures], NEW sg2 \in [Id -> Signatures],
         Keeps(sg, sg2), Proper(s, n, sg), Settled(s, sg), Ingested(s, x, d, q, t),
         \A y \in Id : sg[y] = Unsigned /\ sg2[y] # Unsigned =>
           y = x /\ Accepts(s, x, d, q),
         ~SeenHas(s.seen[d], q) =>
           \A y \in Id : sg2[y] # Unsigned /\ sg2[y].dev = d /\ sg2[y].seq = q => y = x
  PROVE  Settled(t, sg2)
<1>1. /\ \A y \in s.rows : y \in t.rows \/ t.dead[y] # Kept
      /\ \A y \in Id : s.dead[y] # Kept => t.dead[y] = s.dead[y]
      /\ Accepts(s, x, d, q) => x \in t.rows \/ t.dead[x] # Kept
  BY IngestForgetsNothing
<1>2. ASSUME NEW y \in Id, t.dead[y] = "retro-drop", s.dead[y] = "retro-drop"
      PROVE  sg2[y] # Unsigned /\ t.rev[sg2[y].dev] # NotRevoked
  BY <1>2 DEF Ingested, Settled, Keeps
<1>3. Handled(t, sg2)
  <2> SUFFICES ASSUME NEW y \in Id, sg2[y] # Unsigned,
                      SeenHas(t.seen[sg2[y].dev], sg2[y].seq)
               PROVE  y \in t.rows \/ t.dead[y] # Kept \/ Futile(y)
    BY DEF Handled
  <2>1. sg2[y].dev \in Node /\ sg2[y].seq \in SeqNo
    BY DEF Signatures
  <2>2. CASE y = x /\ Accepts(s, x, d, q)
    BY <1>1, <2>2
  <2>3. CASE sg[y] # Unsigned /\ SeenHas(s.seen[sg2[y].dev], sg2[y].seq)
    <3>1. sg2[y] = sg[y]
      BY <2>3 DEF Keeps
    <3>2. y \in s.rows \/ s.dead[y] # Kept \/ Futile(y)
      BY <2>3, <3>1 DEF Settled, Handled
    <3> QED BY <1>1, <3>2
  <2>4. CASE ~SeenHas(s.seen[sg2[y].dev], sg2[y].seq)
    <3>1. /\ sg2[y].dev = d /\ sg2[y].seq = q
          /\ Accepts(s, x, d, q) \/ Refused(s, x)
      BY <2>1, <2>4 DEF Ingested
    <3>2. y = x
      BY <2>4, <3>1
    <3>3. Refused(s, x) => Futile(x)
      BY DEF Refused, Futile
    <3> QED BY <1>1, <3>1, <3>2, <3>3
  <2> QED BY <2>2, <2>3, <2>4
<1>4. CASE ~Accepts(s, x, d, q)
  <2>1. t.rows = s.rows /\ t.dead = s.dead
    BY <1>4 DEF Ingested
  <2> QED BY <1>2, <1>3, <2>1 DEF Settled
<1>5. CASE Accepts(s, x, d, q)
  <2>1. /\ t.rows = (s.rows \union {x}) \ (Deleted(s, x) \union Invalidated(s, x))
        /\ \A y \in Id : t.dead[y] = IF s.dead[y] # Kept THEN s.dead[y]
                                     ELSE IF y \in Deleted(s, x) THEN "deleted"
                                     ELSE IF y \in Invalidated(s, x) THEN "invalid" ELSE Kept
        /\ x \notin s.rows /\ s.dead[x] = Kept /\ ~Refused(s, x)
        /\ s.rows \subseteq Id
    BY <1>5 DEF Ingested, Accepts, Stores
  <2>2. ASSUME NEW y \in Id
        PROVE  /\ t.dead[y] = "retro-drop" => s.dead[y] = "retro-drop"
               /\ t.dead[y] = "expired" => y \in Expiring \/ IsGrant(y)
    BY <2>1 DEF Settled, Kept
  <2>3. ASSUME NEW y \in Id, t.dead[y] = "deleted"
        PROVE  \E z \in Id : OwnTagOf(z, y) /\ (z \in t.rows \/ t.dead[z] = "retro-drop")
    <3>1. ASSUME NEW z \in s.rows, OwnTagOf(z, y), ~IsTag(y), y # x
          PROVE  z \in t.rows
      <4>1. z \in s.rows /\ IsTag(z) /\ TargetOf[z] = y
        BY <3>1 DEF OwnTagOf
      <4>2. z \notin Deleted(s, x)
        BY <2>1, <4>1 DEF Deleted, Refused
      <4>3. z \notin Invalidated(s, x)
        BY <2>1, <3>1, <4>1, KindFacts DEF Invalidated
      <4> QED BY <2>1, <4>1, <4>2, <4>3
    <3>2. CASE s.dead[y] = "deleted"
      <4>1. ~IsTag(y) /\ y # x
        BY <2>1, <3>2 DEF Proper, TagVictims, Kept
      <4>2. PICK z \in Id : OwnTagOf(z, y) /\ (z \in s.rows \/ s.dead[z] = "retro-drop")
        BY <3>2 DEF Settled
      <4>3. s.dead[z] = "retro-drop" => t.dead[z] = "retro-drop"
        BY <1>1, <4>2 DEF Kept
      <4> QED BY <3>1, <4>1, <4>2, <4>3
    <3>3. CASE y \in Deleted(s, x) /\ IsTag(x)
      <4>1. y = TargetOf[x] /\ y \in s.rows /\ AuthorOf[x] = AuthorOf[y] /\ y # x
        BY <2>1, <3>3 DEF Deleted, Refused
      <4>2. x \in t.rows
        BY <2>1, <3>3, <4>1 DEF Deleted, Invalidated
      <4> QED BY <3>3, <4>1, <4>2 DEF OwnTagOf
    <3>4. CASE y \in Deleted(s, x) /\ ~IsTag(x)
      <4>1. y = x
        BY <3>4 DEF Deleted
      <4>2. PICK z \in OwnTags(s, x) : TRUE
        BY <3>4, <4>1 DEF Deleted
      <4>3. z \in s.rows /\ z # x /\ z \notin Deleted(s, x) /\ z \notin Invalidated(s, x)
        BY <2>1, <3>4 DEF OwnTags, Deleted, Invalidated
      <4> QED BY <2>1, <4>1, <4>2, <4>3 DEF OwnTags, OwnTagOf
    <3>5. s.dead[y] = "deleted" \/ y \in Deleted(s, x)
      BY <2>1, <2>3 DEF Kept
    <3> QED BY <3>2, <3>3, <3>4, <3>5
  <2> QED BY <1>2, <1>3, <2>2, <2>3 DEF Settled
<1>6. QED
  BY <1>4, <1>5

LEMMA SigningKeepsSettled ==
  ASSUME NEW s \in Stores, NEW sg \in [Id -> Signatures], NEW sg2 \in [Id -> Signatures],
         Keeps(sg, sg2), Settled(s, sg),
         \A y \in Id : sg[y] = Unsigned /\ sg2[y] # Unsigned =>
           ~SeenHas(s.seen[sg2[y].dev], sg2[y].seq)
  PROVE  Settled(s, sg2)
<1>1. Handled(s, sg2)
  BY DEF Settled, Handled, Keeps
<1>2. QED
  BY <1>1 DEF Settled, Keeps

\* Writing a message keeps the writer's store settled.
LEMMA PublishKeepsSettled ==
  ASSUME NEW s \in Stores, NEW n \in Node, NEW x \in Id, NEW q,
         NEW sg \in [Id -> Signatures], NEW sg2,
         NEW t \in {Ingest(s, x, n, q), Published(s, n, x)},
         s.seq < MaxSeq, q = s.seq + 1, GoodStore(s, sg), Proper(s, n, sg), Settled(s, sg),
         sg[x] = Unsigned, sg2 = SignedBy(sg, s, n, x),
         \A y \in Id : sg[y] # Unsigned /\ sg[y].dev = n => SeenHas(s.seen[n], sg[y].seq)
  PROVE  /\ Settled(t, sg2)
         /\ \A e \in Node, r \in SeqNo : SeenHas(t.seen[e], r) => SeenHas(s.seen[e], r) \/ e = n
         /\ \A e \in Node, r \in SeqNo : SeenHas(s.seen[e], r) => SeenHas(t.seen[e], r)
         /\ sg2[x] # Unsigned => /\ ~SeenHas(s.seen[n], sg2[x].seq)
                                 /\ SeenHas(t.seen[n], sg2[x].seq)
<1>1. /\ q \in SeqNo /\ sg2 \in [Id -> Signatures] /\ Keeps(sg, sg2)
      /\ \A y \in Id \ {x} : sg2[y] = sg[y]
      /\ sg2[x] # Unsigned => Accepts(s, x, n, q) /\ sg2[x].dev = n /\ sg2[x].seq = q
  BY SignedByFacts
<1>2. t \in Stores /\ Ingested(s, x, n, q, t)
  BY PublishExactly DEF GoodStore
<1>3. \A y \in Id : sg[y] = Unsigned /\ sg2[y] # Unsigned => y = x /\ Accepts(s, x, n, q)
  BY <1>1
<1>4. ~SeenHas(s.seen[n], q) =>
        \A y \in Id : sg2[y] # Unsigned /\ sg2[y].dev = n /\ sg2[y].seq = q => y = x
  BY <1>1
<1>5. Settled(t, sg2)
  BY <1>1, <1>2, <1>3, <1>4, IngestKeepsSettled
<1>6. /\ \A e \in Node, r \in SeqNo : SeenHas(t.seen[e], r) => SeenHas(s.seen[e], r) \/ e = n
      /\ \A e \in Node, r \in SeqNo : SeenHas(s.seen[e], r) => SeenHas(t.seen[e], r)
  BY <1>2 DEF Ingested
<1>7. ASSUME sg2[x] # Unsigned
      PROVE  ~SeenHas(s.seen[n], sg2[x].seq) /\ SeenHas(t.seen[n], sg2[x].seq)
  <2>1. Accepts(s, x, n, q) /\ sg2[x].seq = q
    BY <1>1, <1>7
  <2>2. SeenHas(Ingest(s, x, n, q).seen[n], q)
    <3>1. Keeps(sg, sg2) /\ sg2[x] = [dev |-> n, seq |-> q]
      BY <1>1, <2>1 DEF SignedBy
    <3>2. \A y \in Id : sg[y] # Unsigned => sg2[y] = sg[y]
      BY <3>1 DEF Keeps
    <3> QED BY <1>1, <2>1, <3>1, <3>2, IngestFacts DEF Unsigned, Signatures
  <2>3. t.seen = Ingest(s, x, n, q).seen
    <3>1. Ingest(s, x, n, q) \in Stores
      BY <1>1, IngestExactly DEF GoodStore
    <3>2. t = Ingest(s, x, n, q) \/ t = [Ingest(s, x, n, q) EXCEPT !.seq = @ + 1]
      BY DEF Published
    <3> QED BY <3>1, <3>2 DEF Stores
  <2> QED BY <2>1, <2>2, <2>3 DEF Accepts, Verified
<1>8. QED
  BY <1>5, <1>6, <1>7

\* A step of one node, whose store becomes t: what it signs nobody had counted, and
\* what it counts the signer had.
LEMMA ConvergentStep ==
  ASSUME NEW n \in Node, NEW t \in Stores,
         Inv, Inv', Convergent, alive' = alive, local' = [local EXCEPT ![n] = t],
         Keeps(sig, sig'), Settled(t, sig'),
         \A y \in Id : sig[y] = Unsigned /\ sig'[y] # Unsigned =>
           sig'[y].dev = n /\ alive[n] /\ ~SeenHas(local[n].seen[n], sig'[y].seq),
         \A e \in Node, r \in SeqNo :
           alive[e] /\ SeenHas(t.seen[e], r) =>
             SeenHas(local[n].seen[e], r) \/ e = n \/ SeenHas(local[e].seen[e], r),
         \A e \in Node, r \in SeqNo : SeenHas(local[n].seen[e], r) => SeenHas(t.seen[e], r)
  PROVE  Convergent'
<1>1. /\ local \in [Node -> Stores] /\ sig \in [Id -> Signatures] /\ sig' \in [Id -> Signatures]
      /\ \A k \in Node : Settled(local[k], sig)
      /\ OriginKnows
  BY DEF Inv, TypeOK, Convergent
<1>2. local'[n] = t /\ \A k \in Node \ {n} : local'[k] = local[k]
  BY <1>1
<1>3. ASSUME NEW k \in Node \ {n} PROVE Settled(local[k], sig')
  <2>1. \A y \in Id : sig[y] = Unsigned /\ sig'[y] # Unsigned =>
          ~SeenHas(local[k].seen[sig'[y].dev], sig'[y].seq)
    <3>1. \A y \in Id : sig'[y] # Unsigned => sig'[y].seq \in SeqNo
      BY <1>1 DEF Signatures
    <3> QED BY <1>1, <3>1 DEF OriginKnows
  <2>2. local[k] \in Stores /\ Settled(local[k], sig)
    BY <1>1
  <2> QED BY <1>1, <2>1, <2>2, SigningKeepsSettled
<1>4. \A k \in Node : Settled(local'[k], sig')
  BY <1>2, <1>3
<1>5. OriginKnows'
  <2> SUFFICES ASSUME NEW k \in Node, NEW e \in Node, NEW r \in SeqNo, alive[e],
                      SeenHas(local'[k].seen[e], r)
               PROVE  SeenHas(local'[e].seen[e], r)
    BY DEF OriginKnows
  <2>1. SeenHas(local[k].seen[e], r) => SeenHas(local[e].seen[e], r)
    BY <1>1 DEF OriginKnows
  <2>2. SeenHas(local[e].seen[e], r) => SeenHas(local'[e].seen[e], r)
    BY <1>2
  <2>3. CASE k = n /\ e = n
    BY <2>3
  <2>4. CASE ~(k = n /\ e = n)
    BY <1>2, <2>1, <2>2, <2>4
  <2> QED BY <2>3, <2>4
<1>6. QED
  BY <1>4, <1>5 DEF Convergent

LEMMA ConvergentInit == Init => Convergent
<1> SUFFICES ASSUME Init PROVE Convergent
  OBVIOUS
<1>1. /\ \A n \in Node : local[n] = EmptyStore
      /\ \A x \in Id : sig[x] = Unsigned
  BY DEF Init
<1>2. /\ EmptyStore.rows = {} /\ \A x \in Id : EmptyStore.dead[x] = Kept
      /\ \A d \in Node : EmptyStore.rev[d] = NotRevoked /\ EmptyStore.seen[d] = EmptySeen
  BY DEF EmptyStore
<1>3. \A n \in Node : Settled(local[n], sig)
  BY <1>1, <1>2 DEF Settled, Handled, Kept
<1>4. OriginKnows
  BY <1>1, <1>2 DEF OriginKnows
<1>5. QED
  BY <1>1, <1>3, <1>4 DEF Convergent

\* A store that was wiped has nothing to account for, and one that learns revocations
\* remembers which devices it cut off.
LEMMA EmptyStoreIsSettled ==
  ASSUME NEW sg \in [Id -> Signatures]
  PROVE  Settled(EmptyStore, sg) /\ \A d \in Node : EmptyStore.seen[d] = EmptySeen
<1>1. /\ EmptyStore.rows = {} /\ \A x \in Id : EmptyStore.dead[x] = Kept
      /\ \A d \in Node : EmptyStore.seen[d] = EmptySeen
  BY DEF EmptyStore
<1>2. \A x \in Id : sg[x] # Unsigned => sg[x].dev \in Node /\ ~SeenHas(EmptySeen, sg[x].seq)
  BY MaxSeqAssumption DEF Signatures, SeqNo, EmptySeen, SeenHas
<1> QED BY <1>1, <1>2 DEF Settled, Handled, Kept

LEMMA RevocationKeepsSettled ==
  ASSUME NEW s \in Stores, NEW revs \in [Node -> Bounds], NEW t,
         t = IngestRevocations(s, revs), sig \in [Id -> Signatures],
         GoodStore(s, sig), Settled(s, sig)
  PROVE  t \in Stores /\ t.seen = s.seen /\ Settled(t, sig)
<1>1. /\ t \in Stores /\ t.seen = s.seen /\ t.rows \subseteq s.rows
      /\ \A x \in Id : t.dead[x] \in {s.dead[x], "retro-drop"}
      /\ \A d \in Node : t.rev[d] = IF revs[d] # NotRevoked THEN revs[d] ELSE s.rev[d]
      /\ \A x \in Id : t.dead[x] = s.dead[x] \/ (x \in s.rows /\ revs[sig[x].dev] # NotRevoked)
      /\ \A x \in s.rows : x \in t.rows \/ s.dead[x] # Kept \/ t.dead[x] = "retro-drop"
  BY RevocationExactly
<1>2. /\ \A x \in s.rows : s.dead[x] = Kept
      /\ \A x \in Id : s.dead[x] # Kept \/ x \in s.rows => sig[x] # Unsigned
      /\ s.rows \subseteq Id
  BY DEF GoodStore, Counted, Stores
<1>3. ASSUME NEW x \in Id, t.dead[x] = "retro-drop"
      PROVE  sig[x] # Unsigned /\ t.rev[sig[x].dev] # NotRevoked
  <2>1. CASE s.dead[x] = "retro-drop"
    <3>1. sig[x] # Unsigned /\ s.rev[sig[x].dev] # NotRevoked
      BY <2>1 DEF Settled
    <3>2. sig[x].dev \in Node
      BY <3>1 DEF Signatures
    <3> QED BY <1>1, <3>1, <3>2
  <2>2. CASE s.dead[x] # "retro-drop"
    <3>1. revs[sig[x].dev] # NotRevoked
      BY <1>1, <1>3, <2>2
    <3>2. sig[x] # Unsigned
      <4>1. x \in s.rows \/ s.dead[x] # Kept
        BY <1>1, <1>3, <2>2 DEF Kept
      <4> QED BY <1>2, <4>1
    <3>3. sig[x].dev \in Node
      BY <3>2 DEF Signatures
    <3> QED BY <1>1, <3>1, <3>2, <3>3
  <2> QED BY <2>1, <2>2
<1>4. ASSUME NEW x \in Id, t.dead[x] = "deleted"
      PROVE  \E z \in Id : OwnTagOf(z, x) /\ (z \in t.rows \/ t.dead[z] = "retro-drop")
  <2>1. s.dead[x] = "deleted"
    BY <1>1, <1>4
  <2>2. PICK z \in Id : OwnTagOf(z, x) /\ (z \in s.rows \/ s.dead[z] = "retro-drop")
    BY <2>1 DEF Settled
  <2> QED BY <1>1, <1>2, <2>2
<1>5. \A x \in Id : t.dead[x] = "expired" => x \in Expiring \/ IsGrant(x)
  BY <1>1 DEF Settled
<1>6. Handled(t, sig)
  BY <1>1, <1>2 DEF Settled, Handled, Kept
<1> QED BY <1>1, <1>3, <1>4, <1>5, <1>6 DEF Settled

\* Every step keeps the stores accountable.
LEMMA ConvergentNext ==
  Inv /\ Inv' /\ Custody /\ Convergent /\ [Next]_vars => Convergent'
<1> SUFFICES ASSUME Inv, Inv', Custody, Convergent, [Next]_vars PROVE Convergent'
  OBVIOUS
<1>0. /\ local \in [Node -> Stores] /\ sig \in [Id -> Signatures] /\ sig' \in [Id -> Signatures]
      /\ \A n \in Node : /\ GoodStore(local[n], sig) /\ Proper(local[n], n, sig)
                         /\ Settled(local[n], sig)
      /\ local' \in [Node -> Stores]
  BY DEF Inv, TypeOK, Custody, Convergent
<1>00. \A n \in Node : \A y \in Id :
         alive[n] /\ sig[y] # Unsigned /\ sig[y].dev = n => SeenHas(local[n].seen[n], sig[y].seq)
  BY DEF Inv, OwnNumbersSeen
<1>1. ASSUME NEW n \in Node, NEW x \in Id, NEW t, Writes(n, x, t) PROVE Convergent'
  <2> DEFINE s == local[n]
             q == s.seq + 1
  <2>1. /\ s \in Stores /\ GoodStore(s, sig) /\ Proper(s, n, sig) /\ Settled(s, sig)
        /\ s.seq < MaxSeq /\ sig[x] = Unsigned /\ OwnerOf[n] = AuthorOf[x]
        /\ q = s.seq + 1 /\ t \in {Ingest(s, x, n, q), Published(s, n, x)}
        /\ sig' = SignedBy(sig, s, n, x) /\ sig \in [Id -> Signatures]
        /\ \A y \in Id : sig[y] # Unsigned /\ sig[y].dev = n => SeenHas(s.seen[n], sig[y].seq)
        /\ alive[n]
    BY <1>0, <1>00, <1>1 DEF Writes, Writable
  <2>2. local' = [local EXCEPT ![n] = t] /\ alive' = alive
    BY <1>1 DEF Writes
  <2> HIDE DEF s, q
  <2>3. /\ Keeps(sig, sig') /\ \A y \in Id \ {x} : sig'[y] = sig[y]
        /\ sig'[x] # Unsigned => sig'[x].dev = n
    BY <1>0, <2>1, SignedByFacts
  <2>4. /\ Settled(t, sig')
        /\ \A e \in Node, r \in SeqNo : SeenHas(t.seen[e], r) => SeenHas(s.seen[e], r) \/ e = n
        /\ \A e \in Node, r \in SeqNo : SeenHas(s.seen[e], r) => SeenHas(t.seen[e], r)
        /\ sig'[x] # Unsigned => ~SeenHas(s.seen[n], sig'[x].seq)
    BY <2>1, PublishKeepsSettled
  <2>5. t \in Stores
    BY <1>0, <2>2
  <2>6. \A y \in Id : sig[y] = Unsigned /\ sig'[y] # Unsigned =>
          sig'[y].dev = n /\ alive[n] /\ ~SeenHas(s.seen[n], sig'[y].seq)
    BY <2>1, <2>3, <2>4
  <2>7. Settled(t, sig')
    BY <2>4
  <2>8. /\ \A e \in Node, r \in SeqNo : SeenHas(t.seen[e], r) => SeenHas(s.seen[e], r) \/ e = n
        /\ \A e \in Node, r \in SeqNo : SeenHas(s.seen[e], r) => SeenHas(t.seen[e], r)
    BY <2>4
  <2>9. \A e \in Node, r \in SeqNo :
          alive[e] /\ SeenHas(t.seen[e], r) =>
            SeenHas(s.seen[e], r) \/ e = n \/ SeenHas(local[e].seen[e], r)
    BY <2>8
  <2> QED BY <2>2, <2>3, <2>5, <2>6, <2>7, <2>8, <2>9, ConvergentStep DEF s
<1>2. ASSUME NEW n \in Node, NEW x \in Id, NEW y \in Id, NEW t, NEW u,
             WritesTwo(n, y, x, t, u)
      PROVE  Convergent'
  <2> DEFINE s  == local[n]
             sg == SignedBy(sig, s, n, y)
             q  == s.seq + 1
             p  == t.seq + 1
  <2>1. /\ s \in Stores /\ GoodStore(s, sig) /\ Proper(s, n, sig) /\ Settled(s, sig)
        /\ s.seq < MaxSeq /\ sig[y] = Unsigned /\ OwnerOf[n] = AuthorOf[y]
        /\ q = s.seq + 1 /\ t \in {Ingest(s, y, n, q), Published(s, n, y)}
        /\ t = Published(s, n, y) /\ sg = SignedBy(sig, s, n, y)
        /\ sig \in [Id -> Signatures]
        /\ \A z \in Id : sig[z] # Unsigned /\ sig[z].dev = n => SeenHas(s.seen[n], sig[z].seq)
        /\ alive[n]
    BY <1>0, <1>00, <1>2 DEF WritesTwo, Writable
  <2>2. /\ local' = [local EXCEPT ![n] = u] /\ alive' = alive
        /\ sig[x] = Unsigned /\ OwnerOf[n] = AuthorOf[x] /\ s.seq + 2 <= MaxSeq
        /\ p = t.seq + 1 /\ u \in {Ingest(t, x, n, p), Published(t, n, x)}
        /\ sig' = SignedBy(sg, t, n, x)
    BY <1>2 DEF WritesTwo, Writable
  <2>3. x # y
    <3>1. TargetOf[y] \in s.rows /\ TargetOf[TargetOf[y]] = TargetOf[x]
      BY <1>2 DEF WritesTwo, Records
    <3> QED BY <2>1, <3>1, ConstantsAssumption DEF Stores
  <2> HIDE DEF s, q, sg, p
  <2>4. /\ sg \in [Id -> Signatures] /\ Keeps(sig, sg)
        /\ \A z \in Id \ {y} : sg[z] = sig[z]
        /\ sg[y] # Unsigned => sg[y].dev = n
    BY <1>0, <2>1, SignedByFacts
  <2>5. t \in Stores /\ GoodStore(t, sg) /\ Proper(t, n, sg) /\ t.seq = q
    BY <2>1, PublishKeepsProper
  <2>6. /\ Settled(t, sg)
        /\ \A e \in Node, r \in SeqNo : SeenHas(t.seen[e], r) => SeenHas(s.seen[e], r) \/ e = n
        /\ \A e \in Node, r \in SeqNo : SeenHas(s.seen[e], r) => SeenHas(t.seen[e], r)
        /\ sg[y] # Unsigned => /\ ~SeenHas(s.seen[n], sg[y].seq)
                               /\ SeenHas(t.seen[n], sg[y].seq)
    BY <2>1, PublishKeepsSettled
  <2>7. sg[x] = Unsigned /\ t.seq < MaxSeq
    BY <2>1, <2>2, <2>3, <2>4, <2>5, MaxSeqAssumption DEF Stores
  <2>8. \A z \in Id : sg[z] # Unsigned /\ sg[z].dev = n => SeenHas(t.seen[n], sg[z].seq)
    <3> SUFFICES ASSUME NEW z \in Id, sg[z] # Unsigned, sg[z].dev = n
                 PROVE  SeenHas(t.seen[n], sg[z].seq)
      OBVIOUS
    <3>1. sg[z].seq \in SeqNo
      BY <2>4 DEF Signatures
    <3> QED BY <2>1, <2>4, <2>6, <3>1
  <2>9. /\ sig' \in [Id -> Signatures] /\ Keeps(sg, sig')
        /\ \A z \in Id \ {x} : sig'[z] = sg[z]
        /\ sig'[x] # Unsigned => sig'[x].dev = n
    BY <2>2, <2>4, <2>5, <2>7, SignedByFacts
  <2>10. /\ Settled(u, sig')
         /\ \A e \in Node, r \in SeqNo : SeenHas(u.seen[e], r) => SeenHas(t.seen[e], r) \/ e = n
         /\ \A e \in Node, r \in SeqNo : SeenHas(t.seen[e], r) => SeenHas(u.seen[e], r)
         /\ sig'[x] # Unsigned => ~SeenHas(t.seen[n], sig'[x].seq)
    BY <2>2, <2>4, <2>5, <2>6, <2>7, <2>8, PublishKeepsSettled
  <2>11. u \in Stores
    BY <1>0, <2>2
  <2>12. Keeps(sig, sig')
    BY <2>4, <2>9 DEF Keeps
  <2>13. sig'[x] # Unsigned => ~SeenHas(s.seen[n], sig'[x].seq)
    <3>1. sig'[x] # Unsigned => sig'[x].seq \in SeqNo
      BY <2>9 DEF Signatures
    <3> QED BY <2>6, <2>10, <3>1
  <2>14. \A z \in Id : sig[z] = Unsigned /\ sig'[z] # Unsigned =>
           sig'[z].dev = n /\ alive[n] /\ ~SeenHas(s.seen[n], sig'[z].seq)
    BY <2>1, <2>3, <2>4, <2>6, <2>9, <2>13
  <2>15. /\ \A e \in Node, r \in SeqNo : SeenHas(u.seen[e], r) => SeenHas(s.seen[e], r) \/ e = n
         /\ \A e \in Node, r \in SeqNo : SeenHas(s.seen[e], r) => SeenHas(u.seen[e], r)
    BY <2>6, <2>10
  <2> QED BY <2>2, <2>10, <2>11, <2>12, <2>14, <2>15, ConvergentStep DEF s
<1>3. ASSUME NEW n \in Node, SweepExpired(n) PROVE Convergent'
  <2> DEFINE s == local[n]
  <2>1. PICK late \in SUBSET (s.rows \intersect Expiring) :
          LET grants == {g \in s.rows : IsGrant(g) /\ TargetOf[g] \in late}
          IN  /\ local' = [local EXCEPT ![n] = Bury(@, late \union grants, "expired")]
              /\ alive' = alive /\ sig' = sig
    BY <1>3 DEF SweepExpired
  <2> DEFINE grants == {g \in s.rows : IsGrant(g) /\ TargetOf[g] \in late}
             ids    == late \union grants
             t      == Bury(s, ids, "expired")
  <2>2. /\ s \in Stores /\ Settled(s, sig) /\ ids \in SUBSET s.rows /\ s.rows \subseteq Id
        /\ \A x \in ids : ~IsTag(x) /\ (x \in Expiring \/ IsGrant(x))
    <3>1. s \in Stores /\ Settled(s, sig) /\ s.rows \subseteq Id
      BY <1>0 DEF Stores
    <3>2. \A x \in late : ~IsTag(x) /\ x \in Expiring
      BY TagsAssumption
    <3>3. \A x \in grants : ~IsTag(x) /\ IsGrant(x)
      BY DEF IsTag, IsGrant
    <3> QED BY <3>1, <3>2, <3>3
  <2>3. local' = [local EXCEPT ![n] = t] /\ alive' = alive /\ sig' = sig
    BY <2>1
  <2> HIDE DEF ids, grants, s
  <2>4. /\ t \in Stores /\ t.rows = s.rows \ ids /\ t.seen = s.seen /\ t.rev = s.rev
        /\ \A x \in Id : t.dead[x] = IF x \in ids /\ s.dead[x] = Kept
                                     THEN "expired" ELSE s.dead[x]
    <3>1. ids \in SUBSET Id /\ t = Bury(s, ids, "expired")
      BY <2>2
    <3> HIDE DEF t
    <3> QED BY <2>2, <3>1, SweepFacts
  <2> HIDE DEF t
  <2>5. Settled(t, sig)
    <3>1. \A z \in Id : IsTag(z) => /\ z \in s.rows => z \in t.rows
                                   /\ t.dead[z] = s.dead[z]
      BY <2>2, <2>4
    <3>2. Handled(t, sig)
      BY <2>2, <2>4 DEF Settled, Handled, Kept
    <3>3. \A x \in Id :
            /\ t.dead[x] = "retro-drop" => sig[x] # Unsigned /\ t.rev[sig[x].dev] # NotRevoked
            /\ t.dead[x] = "expired" => x \in Expiring \/ IsGrant(x)
      BY <2>2, <2>4 DEF Settled
    <3>4. ASSUME NEW x \in Id, t.dead[x] = "deleted"
          PROVE  \E z \in Id : OwnTagOf(z, x) /\ (z \in t.rows \/ t.dead[z] = "retro-drop")
      <4>1. s.dead[x] = "deleted"
        BY <2>4, <3>4
      <4>2. PICK z \in Id : OwnTagOf(z, x) /\ (z \in s.rows \/ s.dead[z] = "retro-drop")
        BY <2>2, <4>1 DEF Settled
      <4> QED BY <3>1, <4>2 DEF OwnTagOf
    <3> QED BY <2>2, <2>4, <3>2, <3>3, <3>4 DEF Settled
  <2> QED BY <2>3, <2>4, <2>5, ConvergentStep DEF Keeps, s
<1>4. ASSUME NEW n \in Node, NEW d \in Node, RevokeDevice(n, d) PROVE Convergent'
  <2> DEFINE bound == MaxSeen(local[n].seen[d])
             revs  == [e \in Node |-> IF e = d THEN bound ELSE NotRevoked]
             t     == IngestRevocations(local[n], revs)
  <2>1. local' = [local EXCEPT ![n] = t] /\ alive' = alive /\ sig' = sig
    BY <1>4 DEF RevokeDevice
  <2>2. revs \in [Node -> Bounds]
    <3>1. local[n].seen[d] \in SeenSets /\ Compacted(local[n].seen[d])
      BY <1>0 DEF Stores, GoodStore
    <3>2. bound \in 0..MaxSeq
      BY <3>1, MaxSeenCorrect
    <3> HIDE DEF bound
    <3> QED BY <3>2 DEF Bounds
  <2> HIDE DEF revs
  <2>3. local[n] \in Stores /\ GoodStore(local[n], sig) /\ Settled(local[n], sig)
    BY <1>0
  <2>4. t \in Stores /\ t.seen = local[n].seen /\ Settled(t, sig)
    BY <1>0, <2>2, <2>3, RevocationKeepsSettled
  <2> HIDE DEF t
  <2> QED BY <2>1, <2>4, ConvergentStep DEF Keeps
<1>5. ASSUME NEW m \in Node, NEW n \in Node, SwapRevocations(m, n) PROVE Convergent'
  <2> DEFINE After(k, peer) == IF KnowsRevoked(peer, k) THEN EmptyStore
                               ELSE IngestRevocations(local[k], local[peer].rev)
  <2>1. /\ m # n /\ sig' = sig
        /\ local' = [local EXCEPT ![m] = After(m, n), ![n] = After(n, m)]
        /\ alive' = [alive EXCEPT ![m] = ~KnowsRevoked(n, m), ![n] = ~KnowsRevoked(m, n)]
        /\ alive[m] /\ alive[n]
    BY <1>5 DEF SwapRevocations
  <2>2. ASSUME NEW k \in Node, NEW peer \in Node
        PROVE  /\ Settled(After(k, peer), sig)
               /\ KnowsRevoked(peer, k) => \A d \in Node : After(k, peer).seen[d] = EmptySeen
               /\ ~KnowsRevoked(peer, k) => After(k, peer).seen = local[k].seen
    <3>1. /\ local[k] \in Stores /\ GoodStore(local[k], sig) /\ Settled(local[k], sig)
          /\ local[peer].rev \in [Node -> Bounds]
      BY <1>0 DEF Stores
    <3>2. CASE KnowsRevoked(peer, k)
      <4>1. After(k, peer) = EmptyStore
        BY <3>2
      <4> HIDE DEF After
      <4> QED BY <1>0, <3>2, <4>1, EmptyStoreIsSettled
    <3>3. CASE ~KnowsRevoked(peer, k)
      <4>1. After(k, peer) = IngestRevocations(local[k], local[peer].rev)
        BY <3>3
      <4> HIDE DEF After
      <4>2. Settled(After(k, peer), sig) /\ After(k, peer).seen = local[k].seen
        BY <1>0, <3>1, <4>1, RevocationKeepsSettled
      <4> QED BY <3>3, <4>2
    <3> QED BY <3>2, <3>3
  <2>3. /\ local'[m] = After(m, n) /\ local'[n] = After(n, m)
        /\ \A k \in Node \ {m, n} : local'[k] = local[k] /\ alive'[k] = alive[k]
        /\ alive'[m] = ~KnowsRevoked(n, m) /\ alive'[n] = ~KnowsRevoked(m, n)
    <3> HIDE DEF After
    <3>1. alive \in [Node -> BOOLEAN]
      BY DEF Inv, TypeOK
    <3> QED BY <1>0, <2>1, <3>1
  <2> HIDE DEF After
  <2>4. \A k \in Node : Settled(local'[k], sig')
    BY <1>0, <2>1, <2>2, <2>3
  <2>5. ASSUME NEW k \in Node
        PROVE  \/ local'[k].seen = local[k].seen /\ (alive'[k] => alive[k])
               \/ ~alive'[k] /\ \A d \in Node : local'[k].seen[d] = EmptySeen
    <3>1. CASE k = m
      <4>1. CASE KnowsRevoked(n, m)
        <5>1. ~alive'[k] /\ \A d \in Node : After(m, n).seen[d] = EmptySeen
          BY <2>2, <2>3, <3>1, <4>1
        <5> QED BY <2>3, <3>1, <5>1
      <4>2. CASE ~KnowsRevoked(n, m)
        BY <2>1, <2>2, <2>3, <3>1, <4>2
      <4> QED BY <4>1, <4>2
    <3>2. CASE k = n
      <4>1. CASE KnowsRevoked(m, n)
        <5>1. ~alive'[k] /\ \A d \in Node : After(n, m).seen[d] = EmptySeen
          BY <2>2, <2>3, <3>2, <4>1
        <5> QED BY <2>3, <3>2, <5>1
      <4>2. CASE ~KnowsRevoked(m, n)
        BY <2>1, <2>2, <2>3, <3>2, <4>2
      <4> QED BY <4>1, <4>2
    <3>3. CASE k \notin {m, n}
      BY <2>3, <3>3
    <3> QED BY <3>1, <3>2, <3>3
  <2>6. OriginKnows'
    <3> SUFFICES ASSUME NEW k \in Node, NEW e \in Node, NEW r \in SeqNo, alive'[e],
                        SeenHas(local'[k].seen[e], r)
                 PROVE  SeenHas(local'[e].seen[e], r)
      BY DEF OriginKnows
    <3>1. ~SeenHas(EmptySeen, r)
      BY DEF SeenHas, EmptySeen, SeqNo
    <3>2. alive[e] /\ local'[e].seen = local[e].seen
      BY <2>5
    <3>3. SeenHas(local[k].seen[e], r)
      BY <2>5, <3>1
    <3> QED BY <3>2, <3>3 DEF Convergent, OriginKnows
  <2> QED BY <2>4, <2>6 DEF Convergent
<1>6. ASSUME NEW m \in Node, NEW n \in Node, NEW x \in Id, ReceiveMessage(m, n, x)
      PROVE  Convergent'
  <2> DEFINE s == local[n]
             d == sig[x].dev
             q == sig[x].seq
             t == Ingest(s, x, d, q)
  <2>1. /\ x \in wire[m][n] /\ sig' = sig /\ alive' = alive
        /\ local' = [local EXCEPT ![n] = t]
    BY <1>6 DEF ReceiveMessage
  <2>2. sig[x] # Unsigned /\ d \in Node /\ q \in SeqNo
    BY <1>0, <2>1 DEF Inv, WireSigned, Signatures
  <2>3. t \in Stores /\ Ingested(s, x, d, q, t)
    <3>1. s \in Stores /\ Compacted(s.seen[d]) /\ t = Ingest(s, x, d, q)
      BY <1>0, <2>2 DEF GoodStore
    <3> HIDE DEF s, d, q, t
    <3> QED BY <2>2, <3>1, IngestExactly
  <2>4. \A y \in Id : sig[y] # Unsigned /\ sig[y].dev = d /\ sig[y].seq = q => y = x
    <3> SUFFICES ASSUME NEW y \in Id, sig[y] # Unsigned, sig[y].dev = d, sig[y].seq = q
                 PROVE  y = x
      OBVIOUS
    <3>1. sig[y] = sig[x]
      <4>1. \A g, h \in [dev : Node, seq : SeqNo] : g.dev = h.dev /\ g.seq = h.seq => g = h
        OBVIOUS
      <4>2. sig[y] \in [dev : Node, seq : SeqNo] /\ sig[x] \in [dev : Node, seq : SeqNo]
        BY <1>0, <2>2 DEF Signatures
      <4> QED BY <4>1, <4>2
    <3> QED BY <2>2, <3>1 DEF Inv, OneMessagePerNumber
  <2>5. alive[d] => SeenHas(local[d].seen[d], q)
    BY <1>00, <2>2
  <2>6. s \in Stores /\ Proper(s, n, sig) /\ Settled(s, sig)
    BY <1>0
  <2> HIDE DEF s, d, q, t
  <2>7. Settled(t, sig)
    BY <1>0, <2>2, <2>3, <2>4, <2>6, IngestKeepsSettled DEF Keeps
  <2>8. /\ \A e \in Node, r \in SeqNo :
             alive[e] /\ SeenHas(t.seen[e], r) =>
               SeenHas(s.seen[e], r) \/ SeenHas(local[e].seen[e], r)
        /\ \A e \in Node, r \in SeqNo : SeenHas(s.seen[e], r) => SeenHas(t.seen[e], r)
    BY <2>3, <2>5 DEF Ingested
  <2> QED BY <2>1, <2>3, <2>7, <2>8, ConvergentStep DEF Keeps, s
<1>7. ASSUME UNCHANGED <<local, alive, sig>> PROVE Convergent'
  BY <1>7 DEF Convergent, OriginKnows
<1>8. ASSUME NEW m \in Node, NEW n \in Node, SendMessages(m, n) \/ LoseConnection(m, n)
      PROVE  Convergent'
  BY <1>7, <1>8 DEF SendMessages, LoseConnection
<1>9. CASE UNCHANGED vars
  BY <1>7, <1>9 DEF vars
<1>10. QED
  BY <1>1, <1>2, <1>3, <1>4, <1>5, <1>6, <1>8, <1>9, StepCases

\* A node that has counted a message's own tag, and has not cut off the device that
\* signed it, holds the tag, and does not hold the message.
LEMMA CountedTagIsHeld ==
  ASSUME NEW n \in Node, NEW x \in Id, NEW t \in Id,
         Inv, Custody, Convergent, ~IsTag(x), OwnTagOf(t, x), sig[t] # Unsigned,
         ~KnowsRevoked(n, sig[t].dev),
         SeenHas(local[n].seen[sig[t].dev], sig[t].seq)
  PROVE  t \in local[n].rows /\ x \notin local[n].rows
<1>1. /\ local[n] \in Stores /\ Proper(local[n], n, sig) /\ Settled(local[n], sig)
  BY DEF Inv, TypeOK, Custody, Convergent
<1>2. IsTag(t) /\ TargetOf[t] = x /\ AuthorOf[t] = AuthorOf[x] /\ ~IsGrant(t)
  BY KindFacts DEF OwnTagOf
<1>3. t \in local[n].rows \/ local[n].dead[t] # Kept
  <2>1. ~Futile(t)
    BY <1>2 DEF Futile
  <2> QED BY <1>1, <2>1 DEF Settled, Handled
<1>4. local[n].dead[t] \in Reasons \union {Kept}
  BY <1>1 DEF Stores
<1>5. local[n].dead[t] \notin {"deleted", "invalid"}
  BY <1>1, <1>2 DEF Proper, TagVictims, Tags
<1>6. local[n].dead[t] \notin {"expired", "retro-drop"}
  BY <1>1, <1>2, TagsAssumption DEF Settled, KnowsRevoked
<1>7. t \in local[n].rows
  BY <1>3, <1>4, <1>5, <1>6 DEF Reasons, Kept
<1>8. x \notin local[n].rows
  BY <1>1, <1>2, <1>7 DEF Proper, OwnTags
<1>9. QED
  BY <1>7, <1>8

\* Gossip that has nothing left to offer has carried every tag that a node holds.
LEMMA TagsAreOffered ==
  ASSUME NEW m \in Node, NEW n \in Node, NEW t \in local[m].rows,
         Quiescent, Serving(m, n), IsTag(t)
  PROVE  SeenHas(local[n].seen[sig[t].dev], sig[t].seq)
<1>1. Offer(m, n) = {}
  BY DEF Quiescent
<1>2. Routed(m, t, OwnerOf[n])
  BY DEF Routed
<1>3. QED
  BY <1>1, <1>2 DEF Offer

\* What a node has seen it holds, or has buried for a reason that is at hand, or refuses
\* with good reason (ingest_message, ingest_revocation); and its origin, as long as it
\* was not wiped, has seen it too (_publish).
THEOREM ConvergenceInvariance == Spec => []Convergent
<1>1. Init => Convergent
  BY ConvergentInit
<1>2. Inv /\ Inv' /\ Custody /\ Convergent /\ [Next]_vars => Convergent'
  BY ConvergentNext
<1>3. QED
  BY <1>1, <1>2, Invariance, CustodyInvariance, PTL DEF Spec

\* Once gossip has nothing left to offer, what one node deleted another may show only
\* where the tag came from a device that one of the two has cut off, in whatever order
\* messages, tags and revocations came, and whoever revokes (ingest_message,
\* ingest_revocation, verify_message).
THEOREM DeletionsOutliveRevocation == Spec => []DeletionsStand
<1>1. Inv /\ Custody /\ Convergent => DeletionsStand
  <2> SUFFICES ASSUME Inv, Custody, Convergent, Quiescent,
                      NEW m \in Node, NEW n \in Node, NEW x \in Id,
                      Serving(m, n), local[m].dead[x] = "deleted", x \in local[n].rows,
                      \A t \in Id : OwnTagOf(t, x) /\ sig[t] # Unsigned =>
                        ~KnowsRevoked(m, sig[t].dev) /\ ~KnowsRevoked(n, sig[t].dev)
               PROVE  FALSE
    BY DEF DeletionsStand, OwnTagOf
  <2>1. /\ local[m] \in Stores /\ GoodStore(local[m], sig)
        /\ Proper(local[m], m, sig) /\ Settled(local[m], sig)
    BY DEF Inv, TypeOK, Custody, Convergent
  <2>2. ~IsTag(x)
    BY <2>1 DEF Proper, TagVictims
  <2>3. PICK t \in Id : OwnTagOf(t, x) /\ (t \in local[m].rows \/ local[m].dead[t] = "retro-drop")
    BY <2>1 DEF Settled
  <2>4. sig[t] # Unsigned
    BY <2>1, <2>3 DEF GoodStore, Counted, Kept
  <2>5. t \in local[m].rows
    BY <2>1, <2>3, <2>4 DEF Settled, KnowsRevoked
  <2>6. SeenHas(local[n].seen[sig[t].dev], sig[t].seq)
    BY <2>3, <2>5, TagsAreOffered DEF OwnTagOf
  <2> QED BY <2>2, <2>3, <2>4, <2>6, CountedTagIsHeld
<1>2. QED
  BY <1>1, Invariance, CustodyInvariance, ConvergenceInvariance, PTL

\* Where nobody may revoke a device, nobody does.
LEMMA NobodyRevokedNext ==
  ASSUME Revocable = {} \/ OneDeviceEach
  PROVE  Inv /\ NobodyRevoked /\ [Next]_vars => NobodyRevoked'
<1> SUFFICES ASSUME Inv, NobodyRevoked, [Next]_vars PROVE NobodyRevoked'
  OBVIOUS
<1>0. /\ local \in [Node -> Stores] /\ sig \in [Id -> Signatures] /\ alive \in [Node -> BOOLEAN]
      /\ \A n \in Node : GoodStore(local[n], sig)
  BY DEF Inv, TypeOK
<1>1. ASSUME NEW n \in Node, NEW t \in Stores, t.rev = local[n].rev, alive' = alive,
             local' = [local EXCEPT ![n] = t]
      PROVE  NobodyRevoked'
  BY <1>0, <1>1 DEF NobodyRevoked
<1>2. ASSUME NEW n \in Node, NEW x \in Id, NEW t, Writes(n, x, t) PROVE NobodyRevoked'
  <2> DEFINE s == local[n]
             q == s.seq + 1
             sg == SignedBy(sig, s, n, x)
  <2>1. /\ s \in Stores /\ s.seq < MaxSeq /\ q = s.seq + 1 /\ sig[x] = Unsigned
        /\ \A d \in Node : Compacted(s.seen[d])
        /\ t \in {Ingest(s, x, n, q), Published(s, n, x)} /\ sg = SignedBy(sig, s, n, x)
    BY <1>0, <1>2 DEF Writes, Writable, GoodStore
  <2>2. local' = [local EXCEPT ![n] = t] /\ alive' = alive
    BY <1>2 DEF Writes
  <2> HIDE DEF q, sg
  <2>3. q \in SeqNo
    BY <1>0, <2>1, SignedByFacts
  <2>4. t \in Stores /\ Ingested(s, x, n, q, t)
    BY <2>1, <2>3, PublishExactly
  <2> QED BY <1>1, <2>2, <2>4 DEF Ingested
<1>3. ASSUME NEW n \in Node, NEW x \in Id, NEW y \in Id, NEW t, NEW u,
             WritesTwo(n, y, x, t, u)
      PROVE  NobodyRevoked'
  <2> DEFINE s == local[n]
             q == s.seq + 1
             sg == SignedBy(sig, s, n, y)
             p == t.seq + 1
  <2>1. /\ s \in Stores /\ s.seq < MaxSeq /\ q = s.seq + 1 /\ sig[y] = Unsigned
        /\ GoodStore(s, sig) /\ s.seq + 2 <= MaxSeq
        /\ t \in {Ingest(s, y, n, q), Published(s, n, y)} /\ sg = SignedBy(sig, s, n, y)
        /\ t = Published(s, n, y)
        /\ p = t.seq + 1 /\ u \in {Ingest(t, x, n, p), Published(t, n, x)}
    BY <1>0, <1>3 DEF WritesTwo, Writable
  <2>2. local' = [local EXCEPT ![n] = u] /\ alive' = alive
    BY <1>3 DEF WritesTwo
  <2> HIDE DEF s, q, p, sg
  <2>3. q \in SeqNo
    BY <1>0, <2>1, SignedByFacts
  <2>4. t \in Stores /\ Ingested(s, y, n, q, t) /\ t.seq = q
    BY <2>1, <2>3, PublishExactly DEF GoodStore
  <2>5. GoodStore(t, sg)
    BY <1>0, <2>1, PublishKeepsGood
  <2>6. t.seq < MaxSeq /\ p \in SeqNo
    BY <2>1, <2>4, MaxSeqAssumption DEF Stores, SeqNo
  <2>7. u \in Stores /\ Ingested(t, x, n, p, u)
    BY <2>1, <2>4, <2>5, <2>6, PublishExactly DEF GoodStore
  <2> QED BY <1>1, <2>2, <2>4, <2>7 DEF Ingested, s
<1>4. ASSUME NEW n \in Node, SweepExpired(n) PROVE NobodyRevoked'
  <2>1. PICK ids \in SUBSET local[n].rows :
          /\ local' = [local EXCEPT ![n] = Bury(@, ids, "expired")] /\ alive' = alive
    <3>1. PICK late \in SUBSET local[n].rows :
            LET grants == {g \in local[n].rows : IsGrant(g) /\ TargetOf[g] \in late}
            IN  /\ local' = [local EXCEPT ![n] = Bury(@, late \union grants, "expired")]
                /\ alive' = alive
      BY <1>4 DEF SweepExpired
    <3> QED BY <3>1
  <2> DEFINE t == Bury(local[n], ids, "expired")
  <2>2. t \in Stores /\ t.rev = local[n].rev
    <3>1. ids \in SUBSET Id /\ local[n] \in Stores
      BY <1>0 DEF Stores
    <3> QED BY <3>1, BuryFacts DEF Reasons
  <2>3. local' = [local EXCEPT ![n] = t]
    BY <2>1
  <2> HIDE DEF t
  <2> QED BY <1>1, <2>1, <2>2, <2>3
<1>5. ASSUME NEW n \in Node, NEW d \in Node, RevokeDevice(n, d) PROVE NobodyRevoked'
  BY <1>5 DEF RevokeDevice, OneDeviceEach
<1>6. ASSUME NEW m \in Node, NEW n \in Node, SwapRevocations(m, n) PROVE NobodyRevoked'
  <2> DEFINE t(k, peer) == IngestRevocations(local[k], local[peer].rev)
  <2>1. \A k, d \in Node : ~KnowsRevoked(k, d) /\ local[k].rev[d] = NotRevoked
    BY DEF NobodyRevoked, KnowsRevoked
  <2>2. /\ local' = [local EXCEPT ![m] = t(m, n), ![n] = t(n, m)]
        /\ alive' = [alive EXCEPT ![m] = ~KnowsRevoked(n, m), ![n] = ~KnowsRevoked(m, n)]
    BY <1>6, <2>1 DEF SwapRevocations
  <2>3. \A k \in Node : alive'[k]
    <3>1. ~KnowsRevoked(n, m) /\ ~KnowsRevoked(m, n) /\ \A k \in Node : alive[k]
      BY <2>1 DEF NobodyRevoked
    <3> QED BY <1>0, <2>2, <3>1, Zenon
  <2>4. ASSUME NEW k \in Node, NEW peer \in Node
        PROVE  \A d \in Node : t(k, peer).rev[d] = NotRevoked
    <3>1. local[k] \in Stores /\ local[peer].rev \in [Node -> Bounds]
      BY <1>0 DEF Stores
    <3> DEFINE v == t(k, peer)
    <3>2. v = IngestRevocations(local[k], local[peer].rev)
      OBVIOUS
    <3> HIDE DEF v
    <3>3. \A d \in Node : v.rev[d] = IF local[peer].rev[d] # NotRevoked
                                    THEN local[peer].rev[d] ELSE local[k].rev[d]
      BY <3>1, <3>2, RevocationExactly
    <3>4. \A d \in Node : v.rev[d] = NotRevoked
      BY <2>1, <3>3
    <3> QED BY <3>4 DEF v
  <2> HIDE DEF t
  <2>5. \A k \in Node : local'[k] \in {local[k], t(m, n), t(n, m)}
    BY <1>0, <2>2
  <2> QED BY <2>1, <2>3, <2>4, <2>5 DEF NobodyRevoked
<1>7. ASSUME NEW m \in Node, NEW n \in Node, NEW x \in Id, ReceiveMessage(m, n, x)
      PROVE  NobodyRevoked'
  <2> DEFINE s == local[n]
             d == sig[x].dev
             q == sig[x].seq
             t == Ingest(s, x, d, q)
  <2>1. x \in wire[m][n] /\ alive' = alive /\ local' = [local EXCEPT ![n] = t]
    BY <1>7 DEF ReceiveMessage
  <2>2. d \in Node /\ q \in SeqNo
    BY <1>0, <2>1 DEF Inv, WireSigned, Signatures
  <2>3. t \in Stores /\ Ingested(s, x, d, q, t)
    <3>1. s \in Stores /\ Compacted(s.seen[d]) /\ t = Ingest(s, x, d, q)
      BY <1>0, <2>2 DEF GoodStore
    <3> HIDE DEF s, d, q, t
    <3> QED BY <2>2, <3>1, IngestExactly
  <2> HIDE DEF t
  <2> QED BY <1>1, <2>1, <2>3 DEF Ingested
<1>8. ASSUME NEW m \in Node, NEW n \in Node, SendMessages(m, n) \/ LoseConnection(m, n)
      PROVE  NobodyRevoked'
  BY <1>8 DEF SendMessages, LoseConnection, NobodyRevoked
<1>9. CASE UNCHANGED vars
  BY <1>9 DEF vars, NobodyRevoked
<1>10. QED
  BY <1>2, <1>3, <1>4, <1>5, <1>6, <1>7, <1>8, <1>9, StepCases

LEMMA NobodyIsRevoked ==
  ASSUME Revocable = {} \/ OneDeviceEach PROVE Spec => []NobodyRevoked
<1>1. Init => NobodyRevoked
  BY DEF Init, NobodyRevoked, EmptyStore
<1>2. Inv /\ NobodyRevoked /\ [Next]_vars => NobodyRevoked'
  BY NobodyRevokedNext
<1>3. QED
  BY <1>1, <1>2, Invariance, PTL DEF Spec

\* Where no device may be revoked, gossip that has nothing left to offer has carried
\* every deletion to every node, in whatever order the messages came (ingest_message).
THEOREM DeletionsConverge ==
  ASSUME Revocable = {} PROVE Spec => []DeletesConverge
<1>1. NobodyRevoked /\ Inv /\ DeletionsStand => DeletesConverge
  <2> SUFFICES ASSUME NobodyRevoked, Inv, DeletionsStand, Quiescent,
                      NEW m \in Node, NEW n \in Node, NEW x \in Id,
                      Serving(m, n), local[m].dead[x] = "deleted", x \in local[n].rows
               PROVE  FALSE
    BY DEF DeletesConverge
  <2>1. PICK t \in Id : /\ sig[t] # Unsigned
                        /\ KnowsRevoked(m, sig[t].dev) \/ KnowsRevoked(n, sig[t].dev)
    BY DEF DeletionsStand
  <2>2. sig[t].dev \in Node
    BY <2>1 DEF Inv, TypeOK, Signatures
  <2> QED BY <2>1, <2>2 DEF NobodyRevoked, KnowsRevoked
<1>2. QED
  BY <1>1, Invariance, NobodyIsRevoked, DeletionsOutliveRevocation, PTL
----------------------------------------------------------------------------
(***************************************************************************)
(* A post's record: where each person has one device, the records' tags    *)
(* are signed no later than the posts'.                                    *)
(***************************************************************************)

\* A device that wrote a record holds it, unless it has been deleted.
LEMMA OwnRecordIsHeld ==
  ASSUME NEW n \in Node, NEW r \in Id,
         Inv, Custody, Convergent, NobodyRevoked, RecordsStay,
         KindOf[r] = "record", sig[r] # Unsigned, sig[r].dev = n
  PROVE  r \in local[n].rows \/ \E y \in Id : OwnTagOf(y, r) /\ sig[y] # Unsigned
<1>1. /\ local[n] \in Stores /\ GoodStore(local[n], sig)
      /\ Proper(local[n], n, sig) /\ Settled(local[n], sig)
  BY DEF Inv, TypeOK, Custody, Convergent
<1>2. SeenHas(local[n].seen[sig[r].dev], sig[r].seq)
  BY DEF Inv, OwnNumbersSeen, NobodyRevoked
<1>3. ~IsTag(r) /\ ~IsGrant(r)
  BY DEF IsTag, IsGrant
<1>4. r \in local[n].rows \/ local[n].dead[r] # Kept
  BY <1>1, <1>2, <1>3 DEF Settled, Handled, Futile
<1>5. ASSUME local[n].dead[r] # Kept
      PROVE  \E y \in Id : OwnTagOf(y, r) /\ sig[y] # Unsigned
  <2>1. local[n].dead[r] \in Reasons
    BY <1>1, <1>5 DEF Stores
  <2>2. local[n].dead[r] # "invalid"
    BY <1>1, <1>3 DEF Proper, TagVictims
  <2>3. local[n].dead[r] \notin {"expired", "retro-drop"}
    BY <1>1, <1>3 DEF Settled, NobodyRevoked, RecordsStay, Signatures, Inv, TypeOK
  <2>4. local[n].dead[r] = "deleted"
    BY <2>1, <2>2, <2>3 DEF Reasons
  <2>5. PICK y \in Id : OwnTagOf(y, r) /\ (y \in local[n].rows \/ local[n].dead[y] # Kept)
    BY <1>1, <2>4 DEF Settled, Kept
  <2> QED BY <1>1, <2>5 DEF GoodStore, Counted
<1>6. QED
  BY <1>4, <1>5

LEMMA RecordTaggedNext ==
  ASSUME RecordsStay, OneDeviceEach, OneRecordPerPost
  PROVE  Inv /\ Custody /\ Convergent /\ NobodyRevoked /\ RecordTagged /\ [Next]_vars
           => RecordTagged'
<1> SUFFICES ASSUME Inv, Custody, Convergent, NobodyRevoked, RecordTagged, [Next]_vars,
                    NEW r \in Id, NEW t \in Id,
                    KindOf[r] = "record", sig'[r] # Unsigned,
                    OwnTagOf(t, TargetOf[r]), sig'[t] # Unsigned
             PROVE  \E y \in Id : OwnTagOf(y, r) /\ sig'[y] # Unsigned
  BY DEF RecordTagged
<1>0. /\ local \in [Node -> Stores] /\ sig \in [Id -> Signatures]
      /\ TargetOf[r] \in Id /\ KindOf[TargetOf[r]] = "content" /\ ~IsTag(TargetOf[r])
      /\ AuthorOf[r] = AuthorOf[TargetOf[r]] /\ AuthorOf[t] = AuthorOf[r]
      /\ TargetOf[t] = TargetOf[r] /\ IsTag(t) /\ ~IsTag(r) /\ r # t
  BY DEF Inv, TypeOK, OneRecordPerPost, OwnTagOf, IsTag
\* One device each: whoever signs for the author is the author's device.
<1>1. ASSUME NEW n \in Node, NEW x \in Id, sig[x] # Unsigned, OwnerOf[n] = AuthorOf[x]
      PROVE  sig[x].dev = n
  BY <1>0, <1>1 DEF OneDeviceEach, Custody, SignedByOwners, Signatures
<1>2. ASSUME Keeps(sig, sig'), sig[r] # Unsigned, sig[t] # Unsigned
      PROVE  \E y \in Id : OwnTagOf(y, r) /\ sig'[y] # Unsigned
  BY <1>2 DEF RecordTagged, Keeps
<1>3. ASSUME Keeps(sig, sig'), NEW n \in Node, OwnerOf[n] = AuthorOf[r], sig[r] # Unsigned,
             r \notin local[n].rows
      PROVE  \E y \in Id : OwnTagOf(y, r) /\ sig'[y] # Unsigned
  <2>1. sig[r].dev = n
    BY <1>1, <1>3
  <2>2. PICK y \in Id : OwnTagOf(y, r) /\ sig[y] # Unsigned
    BY <1>3, <2>1, OwnRecordIsHeld
  <2> QED BY <1>3, <2>2 DEF Keeps
<1>4. ASSUME NEW n \in Node, NEW x \in Id, NEW u, Writes(n, x, u)
      PROVE  \E y \in Id : OwnTagOf(y, r) /\ sig'[y] # Unsigned
  <2> DEFINE s == local[n]
             q == s.seq + 1
  <2>1. /\ s \in Stores /\ s.seq < MaxSeq /\ sig[x] = Unsigned /\ q = s.seq + 1
        /\ sig' = SignedBy(sig, s, n, x)
    BY <1>0, <1>4 DEF Writes, Writable
  <2>2. /\ OwnerOf[n] = AuthorOf[x]
        /\ IsTag(x) /\ Accepts(s, x, n, q) => Records(n, TargetOf[x]) = {}
        /\ KindOf[x] = "record" => TargetOf[x] \in s.rows
    BY <1>4 DEF Writes, Writable, IsTag
  <2> HIDE DEF s, q
  <2>3. /\ Keeps(sig, sig') /\ \A z \in Id \ {x} : sig'[z] = sig[z]
        /\ sig'[x] # Unsigned => Accepts(s, x, n, q)
    BY <1>0, <2>1, SignedByFacts
  <2>4. CASE x = r
    <3>1. sig[t] # Unsigned
      BY <1>0, <2>3, <2>4
    <3>2. SeenHas(local[n].seen[sig[t].dev], sig[t].seq)
      <4>1. sig[t].dev = n
        BY <1>0, <1>1, <2>2, <2>4, <3>1
      <4> QED BY <3>1, <4>1 DEF Inv, OwnNumbersSeen, NobodyRevoked
    <3>3. TargetOf[r] \notin local[n].rows
      <4>1. ~KnowsRevoked(n, sig[t].dev)
        BY <1>0, <3>1 DEF NobodyRevoked, KnowsRevoked, Signatures
      <4> QED BY <1>0, <3>1, <3>2, <4>1, CountedTagIsHeld
    <3> QED BY <2>2, <2>4, <3>3 DEF s
  <2>5. CASE x = t
    <3>1. sig[r] # Unsigned
      BY <1>0, <2>3, <2>5
    <3>2. Records(n, TargetOf[r]) = {}
      BY <1>0, <2>2, <2>3, <2>5
    <3>3. r \notin local[n].rows
      BY <1>0, <2>2, <2>5, <3>2 DEF Records
    <3> QED BY <1>0, <1>3, <2>2, <2>3, <2>5, <3>1, <3>3
  <2>6. CASE x # r /\ x # t
    BY <1>2, <2>3, <2>6
  <2> QED BY <2>4, <2>5, <2>6
<1>5. ASSUME NEW n \in Node, NEW x \in Id, NEW z \in Id, NEW u, NEW v,
             WritesTwo(n, z, x, u, v)
      PROVE  \E y \in Id : OwnTagOf(y, r) /\ sig'[y] # Unsigned
  <2> DEFINE s  == local[n]
             sg == SignedBy(sig, s, n, z)
             q  == s.seq + 1
             p  == u.seq + 1
  <2>1. /\ s \in Stores /\ GoodStore(s, sig) /\ Proper(s, n, sig)
        /\ s.seq < MaxSeq /\ sig[z] = Unsigned /\ OwnerOf[n] = AuthorOf[z]
        /\ q = s.seq + 1 /\ u \in {Ingest(s, z, n, q), Published(s, n, z)}
        /\ u = Published(s, n, z) /\ sg = SignedBy(sig, s, n, z)
        /\ sig \in [Id -> Signatures] /\ Accepts(s, z, n, q)
    BY <1>0, <1>5 DEF WritesTwo, Writable, Inv, Custody
  <2>2. /\ sig[x] = Unsigned /\ OwnerOf[n] = AuthorOf[x] /\ s.seq + 2 <= MaxSeq
        /\ IsTag(x) /\ IsTag(z) /\ TargetOf[z] \in Records(n, TargetOf[x])
        /\ p = u.seq + 1 /\ sig' = SignedBy(sg, u, n, x)
    BY <1>5 DEF WritesTwo, Writable
  <2>3. /\ TargetOf[z] \in s.rows /\ KindOf[TargetOf[z]] = "record" /\ TargetOf[z] \in Id
        /\ TargetOf[TargetOf[z]] = TargetOf[x] /\ AuthorOf[TargetOf[z]] = OwnerOf[n]
    BY <2>1, <2>2 DEF Records, Stores
  <2>4. x # z
    BY <2>3, ConstantsAssumption
  <2> HIDE DEF s, q, sg, p
  <2>5. /\ sg \in [Id -> Signatures] /\ Keeps(sig, sg) /\ sg[z] # Unsigned
        /\ \A y \in Id \ {z} : sg[y] = sig[y]
    BY <2>1, SignedByFacts
  <2>6. u \in Stores /\ u.seq = q
    BY <2>1, PublishKeepsProper
  <2>7. sg[x] = Unsigned /\ u.seq < MaxSeq
    BY <2>1, <2>2, <2>4, <2>5, <2>6, MaxSeqAssumption DEF Stores
  <2>8. /\ Keeps(sg, sig') /\ \A y \in Id \ {x} : sig'[y] = sg[y]
    BY <2>2, <2>5, <2>6, <2>7, SignedByFacts
  <2>9. Keeps(sig, sig') /\ sig'[z] # Unsigned
    BY <2>5, <2>8 DEF Keeps
  <2>10. sig[r] # Unsigned
    BY <1>0, <2>2, <2>5, <2>8
  <2>11. CASE t = z
    BY <1>0, <2>3, <2>11
  <2>12. CASE t = x
    <3>1. CASE r \in local[n].rows
      <4>1. r = TargetOf[z]
        BY <1>0, <2>3, <2>12 DEF OneRecordPerPost
      <4>2. OwnTagOf(z, r)
        BY <2>1, <2>2, <2>3, <4>1 DEF OwnTagOf
      <4> QED BY <2>9, <4>2
    <3>2. CASE r \notin local[n].rows
      BY <1>0, <1>3, <2>2, <2>9, <2>10, <2>12, <3>2
    <3> QED BY <3>1, <3>2
  <2>13. CASE t # z /\ t # x
    BY <1>2, <2>5, <2>8, <2>9, <2>10, <2>13
  <2> QED BY <2>11, <2>12, <2>13
<1>6. ASSUME sig' = sig
      PROVE  \E y \in Id : OwnTagOf(y, r) /\ sig'[y] # Unsigned
  BY <1>2, <1>6 DEF Keeps
<1>7. QED
  <2>1. ASSUME NEW n \in Node, SweepExpired(n) PROVE sig' = sig
    BY <2>1 DEF SweepExpired
  <2>2. ASSUME NEW m \in Node, NEW n \in Node,
               \/ RevokeDevice(m, n) \/ SwapRevocations(m, n)
               \/ SendMessages(m, n) \/ LoseConnection(m, n)
        PROVE  sig' = sig
    BY <2>2 DEF RevokeDevice, SwapRevocations, SendMessages, LoseConnection
  <2>3. ASSUME NEW m \in Node, NEW n \in Node, NEW x \in Id, ReceiveMessage(m, n, x)
        PROVE  sig' = sig
    BY <2>3 DEF ReceiveMessage
  <2>4. UNCHANGED vars => sig' = sig
    BY DEF vars
  <2> QED BY <1>4, <1>5, <1>6, <2>1, <2>2, <2>3, <2>4, StepCases

\* A record dies with its post at every node, however the two deletes, a crash between
\* them and their messages interleave (delete_post), where each person has one device, a
\* post has one record and records do not expire.
THEOREM NoRecordIsOrphaned ==
  ASSUME RecordsStay, OneDeviceEach, OneRecordPerPost
  PROVE  Spec => []NoOrphanRecord
<1>1. Init => RecordTagged
  BY DEF Init, RecordTagged
<1>2. Inv /\ Custody /\ Convergent /\ NobodyRevoked /\ RecordTagged /\ [Next]_vars
        => RecordTagged'
  BY RecordTaggedNext
<1>3. Inv /\ Custody /\ Convergent /\ NobodyRevoked /\ RecordTagged => NoOrphanRecord
  <2> SUFFICES ASSUME Inv, Custody, Convergent, NobodyRevoked, RecordTagged, Quiescent,
                      NEW n \in Node, NEW r \in local[n].rows, KindOf[r] = "record",
                      local[n].dead[TargetOf[r]] = "deleted"
               PROVE  FALSE
    BY DEF NoOrphanRecord
  <2>1. /\ local \in [Node -> Stores] /\ sig \in [Id -> Signatures]
        /\ \A k \in Node : /\ GoodStore(local[k], sig) /\ Settled(local[k], sig)
                           /\ alive[k] /\ local[k].rows \subseteq Id
                           /\ \A d \in Node : ~KnowsRevoked(k, d)
    BY DEF Inv, TypeOK, Convergent, NobodyRevoked, KnowsRevoked, Stores
  <2>2. r \in Id /\ sig[r] # Unsigned /\ TargetOf[r] \in Id /\ ~IsTag(r)
    BY <2>1 DEF GoodStore, Counted, OneRecordPerPost, IsTag
  <2>3. PICK t \in Id : /\ OwnTagOf(t, TargetOf[r])
                        /\ t \in local[n].rows \/ local[n].dead[t] # Kept
    BY <2>1, <2>2 DEF Settled, Kept
  <2>4. sig[t] # Unsigned
    BY <2>1, <2>3 DEF GoodStore, Counted
  <2>5. PICK y \in Id : OwnTagOf(y, r) /\ sig[y] # Unsigned
    BY <2>2, <2>3, <2>4 DEF RecordTagged
  <2> DEFINE a == sig[y].dev
  <2>6. a \in Node /\ SeenHas(local[a].seen[sig[y].dev], sig[y].seq)
    BY <2>1, <2>5 DEF Inv, OwnNumbersSeen, Signatures
  <2>7. y \in local[a].rows
    BY <2>1, <2>2, <2>5, <2>6, CountedTagIsHeld
  <2>8. SeenHas(local[n].seen[sig[y].dev], sig[y].seq)
    <3>1. CASE a = n
      BY <2>6, <3>1
    <3>2. CASE a # n
      <4>1. Serving(a, n)
        BY <2>1, <2>6, <3>2 DEF Serving
      <4> QED BY <2>5, <2>6, <2>7, <4>1, TagsAreOffered DEF OwnTagOf
    <3> QED BY <3>1, <3>2
  <2> QED BY <2>1, <2>2, <2>5, <2>6, <2>8, CountedTagIsHeld
<1>4. QED
  BY <1>1, <1>2, <1>3, Invariance, CustodyInvariance, ConvergenceInvariance, NobodyIsRevoked,
     PTL DEF Spec
=============================================================================
