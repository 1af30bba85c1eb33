--------------------------- MODULE KeyFilesProofs ---------------------------
(***************************************************************************)
(* The proofs about KeyFiles.  A handler is a sequence of writes that may  *)
(* be cut off after any of them, so the invariant speaks of three things:  *)
(* what every disk along the way is good for (Safe), what the node object  *)
(* at the end of the handler has to do with the disk at the end of it      *)
(* (Fits), and that no single write hides the paper seed.                  *)
(***************************************************************************)
EXTENDS KeyFiles, SequenceTheorems, TLAPS

----------------------------------------------------------------------------
(***************************************************************************)
(* The invariant.  n is the number of keys generated, t the time.          *)
(***************************************************************************)
\* The paper seed is where someone can get at it.
SeedOn(d) ==
  d.seed \/ (d.lock # Absent /\ d.lock.seed /\ d.lock.under = d.lock.master)

\* The secrets s are worth having beside the database: they speak for the device and
\* the person, open every cached key, and no key in grace opens a message given up on.
Serves(s, db, t) ==
  /\ s.device /\ s.identity
  /\ \A m \in Msg : db.cached[m] # 0 => db.cached[m] = s.storage
  /\ \A m \in db.marked :
       /\ db.rows[m] # 0 /\ db.rows[m] # s.enc
       /\ \A r \in s.retired : r.key = db.rows[m] => t - r.at > Grace

\* The public half p belongs to the current key of s, or to the one before, which is
\* on file and due for rotation: the next maintain_enckey() rotates once more.
Halves(p, s, db, t) ==
  p # s.enc => db.enckey.key = p /\ t - db.enckey.at >= RotationPeriod

\* The sealed record opens with its credential, belongs to an enrolled device that was
\* not revoked, and knows the paper seed if there is one in the open.
Sealed(d) ==
  /\ Enrolled(d) /\ ~d.keys.revoked
  /\ d.lock.under = d.lock.master
  /\ d.seed => d.lock.seed

\* Keys that wait for their certificate: the database holds nothing yet.
Waiting(d) ==
  /\ \A m \in Msg : d.db.cached[m] = 0
  /\ d.db.marked = {}
  /\ d.keys # Absent =>
       /\ d.keys.secrets # Absent /\ d.keys.secrets.device
       /\ d.keys.pub = d.keys.secrets.enc

Numbered(d, n) ==
  /\ d.db.enckey.key <= n
  /\ \A m \in Msg : d.db.rows[m] <= n
  /\ d.keys # Absent => d.keys.pub <= n

\* What a disk is good for, wherever the process dies.
Safe(d, n, t) ==
  /\ d \in Disk
  /\ d.lock # Absent => Sealed(d)
  /\ ~Enrolled(d) => Waiting(d)
  /\ InUse(d) => Serves(Readable(d), d.db, t) /\ Halves(d.keys.pub, Readable(d), d.db, t)
  /\ Numbered(d, n)

\* A sequence of writes from d: every disk on the way is safe, and no write hides
\* the seed.
Before(d, ws, i) == IF i = 1 THEN d ELSE ws[i - 1].disk

Good(d, ws, n, t) ==
  /\ ws \in Seq(Step)
  /\ \A i \in 1..Len(ws) :
       /\ Safe(ws[i].disk, n, t)
       /\ SeedOn(Before(d, ws, i)) => SeedOn(ws[i].disk)

\* The node object can save what it has: app lock is on in both or in neither, and
\* the record is sealed under the master and with the seed that the process holds.
Attached(d, m) ==
  /\ Enrolled(d) /\ ~d.keys.revoked /\ ~d.db.revoked
  /\ ~m.revoked /\ ~m.locked
  /\ m.applock <=> d.lock # Absent
  /\ m.applock => /\ d.keys.secrets = Absent /\ ~d.seed
                  /\ m.master = d.lock.master /\ m.seed = d.lock.seed

\* It holds what a restart would read.
Holds(d, m) == Attached(d, m) /\ m.secrets = Readable(d) /\ m.pub = d.keys.pub

Fits(d, m) ==
  m.phase # "down" =>
    /\ Enrolled(d)
    /\ m.applock <=> d.lock # Absent
    /\ m.applock => d.keys.secrets = Absent /\ ~d.seed
    /\ m.locked => m.applock
    /\ m.revoked => d.keys.revoked
    /\ ~m.locked /\ ~m.revoked => Holds(d, m) /\ (m.kept => d.db.enckey.key = m.secrets.enc)

KeysInv ==
  /\ TypeOK
  /\ Safe(disk, minted, now)
  /\ Good(disk, todo, minted, now)
  /\ Fits(Last(disk, todo), after)
  /\ mem = IF todo = <<>> THEN after ELSE todo[1].mem
  /\ seeded => SeedOn(disk)
  /\ given \subseteq 0..minted
----------------------------------------------------------------------------
(***************************************************************************)
(* Sequences of writes.                                                    *)
(***************************************************************************)
LEMMA NothingWritten ==
  ASSUME NEW d, NEW n, NEW t
  PROVE  Good(d, <<>>, n, t) /\ Last(d, <<>>) = d
  BY DEF Good, Last

LEMMA OneWrite ==
  ASSUME NEW d, NEW e, NEW m \in Memory, NEW n, NEW t,
         Safe(e, n, t), SeedOn(d) => SeedOn(e)
  PROVE  Good(d, To(e, m), n, t) /\ Last(d, To(e, m)) = e
  <1>1. e \in Disk BY DEF Safe
  <1>2. [disk |-> e, mem |-> m] \in Step BY <1>1 DEF Step
  <1> DEFINE w == [disk |-> e, mem |-> m]
  <1>3. w.disk = e OBVIOUS
  <1>4. To(e, m) = <<w>> BY DEF To
  <1> HIDE DEF w
  <1>5. <<w>> \in Seq(Step) /\ Len(<<w>>) = 1 /\ <<w>>[1] = w BY <1>2 DEF w
  <1>6. Good(d, <<w>>, n, t)
    <2>1. ASSUME NEW i \in 1..Len(<<w>>)
          PROVE  Safe(<<w>>[i].disk, n, t) /\ (SeedOn(Before(d, <<w>>, i)) => SeedOn(<<w>>[i].disk))
      <3>1. i = 1 BY <1>5
      <3>. QED BY <3>1, <1>3, <1>5 DEF Before
    <2>. QED BY <2>1, <1>5 DEF Good
  <1>7. Last(d, <<w>>) = e BY <1>5, <1>3 DEF Last
  <1>. QED BY <1>4, <1>6, <1>7

\* Each step of ws, with the disk it finds, is one of us or, after these, of vs.
Joins(d, ws, us, vs) ==
  \A i \in 1..Len(ws) :
    \/ \E j \in 1..Len(us) : ws[i] = us[j] /\ Before(d, ws, i) = Before(d, us, j)
    \/ \E j \in 1..Len(vs) : ws[i] = vs[j] /\ Before(d, ws, i) = Before(Last(d, us), vs, j)

LEMMA ConcatSteps ==
  ASSUME NEW S, NEW d, NEW us \in Seq(S), NEW vs \in Seq(S)
  PROVE  LET ws == us \o vs
         IN  ws \in Seq(S) /\ Joins(d, ws, us, vs) /\ Last(d, ws) = Last(Last(d, us), vs)
  <1> DEFINE ws == us \o vs
  <1>1. /\ ws \in Seq(S) /\ Len(ws) = Len(us) + Len(vs)
        /\ \A i \in 1..Len(ws) : ws[i] = IF i <= Len(us) THEN us[i] ELSE vs[i - Len(us)]
    BY ConcatProperties
  <1>2. Len(us) \in Nat /\ Len(vs) \in Nat BY LenProperties
  <1>3. /\ us = <<>> <=> Len(us) = 0
        /\ vs = <<>> <=> Len(vs) = 0
        /\ ws = <<>> <=> Len(ws) = 0
    BY <1>1, EmptySeq
  <1> HIDE DEF ws
  <1>4. ASSUME NEW i \in 1..Len(ws)
        PROVE  \/ \E j \in 1..Len(us) : ws[i] = us[j] /\ Before(d, ws, i) = Before(d, us, j)
               \/ \E j \in 1..Len(vs) :
                    ws[i] = vs[j] /\ Before(d, ws, i) = Before(Last(d, us), vs, j)
    <2>1. CASE i <= Len(us)
      <3>1. i \in 1..Len(us) /\ ws[i] = us[i] BY <2>1, <1>1, <1>2
      <3>2. i # 1 => ws[i - 1] = us[i - 1] BY <2>1, <1>1, <1>2
      <3>3. Before(d, ws, i) = Before(d, us, i) BY <3>2 DEF Before
      <3>. QED BY <3>1, <3>3
    <2>2. CASE ~(i <= Len(us))
      <3> DEFINE j == i - Len(us)
      <3>1. j \in 1..Len(vs) /\ ws[i] = vs[j] BY <2>2, <1>1, <1>2
      <3>2. Before(d, ws, i) = Before(Last(d, us), vs, j)
        <4>1. CASE j # 1
          <5>1. i # 1 /\ i - 1 \in 1..Len(ws) /\ ~(i - 1 <= Len(us)) /\ i - 1 - Len(us) = j - 1
            BY <4>1, <2>2, <1>1, <1>2, <3>1
          <5>. QED BY <5>1, <4>1, <1>1 DEF Before
        <4>2. CASE j = 1 /\ Len(us) = 0
          <5>1. i = 1 BY <4>2, <1>2
          <5>. QED BY <5>1, <4>2, <1>3 DEF Before, Last
        <4>3. CASE j = 1 /\ Len(us) # 0
          <5>1. i # 1 /\ i - 1 = Len(us) /\ i - 1 \in 1..Len(ws) BY <4>3, <1>1, <1>2
          <5>2. ws[i - 1] = us[Len(us)] BY <5>1, <1>1, <1>2
          <5>. QED BY <5>1, <5>2, <4>3, <1>3 DEF Before, Last
        <4>. QED BY <4>1, <4>2, <4>3
      <3>. QED BY <3>1, <3>2
    <2>. QED BY <2>1, <2>2
  <1>5. Last(d, ws) = Last(Last(d, us), vs)
    <2>1. CASE Len(vs) = 0
      <3>1. Len(ws) = Len(us) /\ (Len(us) # 0 => ws[Len(ws)] = us[Len(us)])
        BY <2>1, <1>1, <1>2
      <3>. QED BY <3>1, <2>1, <1>3 DEF Last
    <2>2. CASE Len(vs) # 0
      <3>1. Len(ws) # 0 /\ ws[Len(ws)] = vs[Len(vs)]
        BY <2>2, <1>1, <1>2
      <3>. QED BY <3>1, <2>2, <1>3 DEF Last
    <2>. QED BY <2>1, <2>2
  <1>6. Joins(d, ws, us, vs) BY <1>4 DEF Joins
  <1>. QED BY <1>1, <1>5, <1>6 DEF ws

\* The first step of a sequence, and the others.
LEMMA TailSteps ==
  ASSUME NEW S, NEW d, NEW ws \in Seq(S), ws # <<>>
  PROVE  LET e == ws[1].disk
             vs == Tail(ws)
         IN  /\ Head(ws) = ws[1] /\ ws[1] \in S /\ 1 \in 1..Len(ws) /\ Before(d, ws, 1) = d
             /\ vs \in Seq(S)
             /\ \A i \in 1..Len(vs) : /\ i + 1 \in 1..Len(ws) /\ vs[i] = ws[i + 1]
                                      /\ Before(e, vs, i) = Before(d, ws, i + 1)
             /\ Last(e, vs) = Last(d, ws)
             /\ vs = <<>> <=> Len(ws) = 1
             /\ vs # <<>> => vs[1] = ws[2]
  <1> DEFINE e == ws[1].disk
             vs == Tail(ws)
  <1>1. /\ Head(ws) \in S /\ vs \in Seq(S) /\ Head(ws) = ws[1]
        /\ Len(vs) = Len(ws) - 1
        /\ \A i \in 1..Len(vs) : vs[i] = ws[i + 1]
    BY HeadTailProperties
  <1>2. Len(ws) \in Nat /\ Len(ws) # 0 BY EmptySeq, LenProperties
  <1>3. vs = <<>> <=> Len(vs) = 0 BY <1>1, EmptySeq
  <1> HIDE DEF vs
  <1>4. 1 \in 1..Len(ws) /\ Before(d, ws, 1) = d BY <1>2 DEF Before
  <1>5. ASSUME NEW i \in 1..Len(vs)
        PROVE  /\ i + 1 \in 1..Len(ws) /\ vs[i] = ws[i + 1]
               /\ Before(e, vs, i) = Before(d, ws, i + 1)
    <2>1. i + 1 \in 1..Len(ws) /\ vs[i] = ws[i + 1] BY <1>1, <1>2
    <2>2. Before(e, vs, i) = Before(d, ws, i + 1)
      <3>1. CASE i = 1 BY <3>1 DEF Before
      <3>2. CASE i # 1
        <4>1. i - 1 \in 1..Len(vs) /\ i + 1 # 1 /\ (i + 1) - 1 = (i - 1) + 1 BY <3>2
        <4>2. vs[i - 1] = ws[(i - 1) + 1] BY <4>1, <1>1
        <4>. QED BY <4>1, <4>2, <3>2 DEF Before
      <3>. QED BY <3>1, <3>2
    <2>. QED BY <2>1, <2>2
  <1>6. Last(e, vs) = Last(d, ws)
    <2>1. CASE Len(vs) = 0
      <3>1. Len(ws) = 1 BY <2>1, <1>1, <1>2
      <3>. QED BY <3>1, <2>1, <1>3 DEF Last
    <2>2. CASE Len(vs) # 0
      <3>1. Len(vs) \in 1..Len(vs) /\ Len(vs) + 1 = Len(ws) BY <2>2, <1>1, <1>2
      <3>2. vs[Len(vs)] = ws[Len(ws)] BY <3>1, <1>1
      <3>. QED BY <3>2, <2>2, <1>3 DEF Last
    <2>. QED BY <2>1, <2>2
  <1>7. vs = <<>> <=> Len(ws) = 1 BY <1>1, <1>2, <1>3
  <1>8. vs # <<>> => vs[1] = ws[2] BY <1>1, <1>2, <1>3
  <1>. QED BY <1>1, <1>4, <1>5, <1>6, <1>7, <1>8 DEF vs

LEMMA ThenWritten ==
  ASSUME NEW d, NEW us, NEW vs, NEW n, NEW t,
         Good(d, us, n, t), Good(Last(d, us), vs, n, t)
  PROVE  Good(d, us \o vs, n, t) /\ Last(d, us \o vs) = Last(Last(d, us), vs)
  <1> DEFINE ws == us \o vs
             c == Last(d, us)
  <1>1. us \in Seq(Step) /\ vs \in Seq(Step) BY DEF Good
  <1>2. ws \in Seq(Step) /\ Joins(d, ws, us, vs) /\ Last(d, ws) = Last(c, vs)
    BY <1>1, ConcatSteps
  <1> HIDE DEF ws
  <1>3. ASSUME NEW i \in 1..Len(ws)
        PROVE  Safe(ws[i].disk, n, t) /\ (SeedOn(Before(d, ws, i)) => SeedOn(ws[i].disk))
    <2>1. \A j \in 1..Len(us) :
            Safe(us[j].disk, n, t) /\ (SeedOn(Before(d, us, j)) => SeedOn(us[j].disk))
      BY DEF Good
    <2>2. \A j \in 1..Len(vs) :
            Safe(vs[j].disk, n, t) /\ (SeedOn(Before(c, vs, j)) => SeedOn(vs[j].disk))
      BY DEF Good
    <2>. QED BY <1>2, <2>1, <2>2 DEF Joins
  <1>. QED BY <1>2, <1>3 DEF Good, ws

LEMMA FirstWrite ==
  ASSUME NEW d, NEW ws, NEW n, NEW t, Good(d, ws, n, t), ws # <<>>
  PROVE  LET e == ws[1].disk
         IN  /\ Head(ws) = ws[1] /\ ws[1] \in Step
             /\ Safe(e, n, t) /\ (SeedOn(d) => SeedOn(e))
             /\ Good(e, Tail(ws), n, t) /\ Last(e, Tail(ws)) = Last(d, ws)
             /\ Tail(ws) = <<>> <=> Len(ws) = 1
             /\ Tail(ws) # <<>> => Tail(ws)[1] = ws[2]
  <1> DEFINE e == ws[1].disk
             vs == Tail(ws)
  <1>1. ws \in Seq(Step) BY DEF Good
  <1>2. /\ Head(ws) = ws[1] /\ ws[1] \in Step /\ 1 \in 1..Len(ws) /\ Before(d, ws, 1) = d
        /\ vs \in Seq(Step)
        /\ \A i \in 1..Len(vs) : /\ i + 1 \in 1..Len(ws) /\ vs[i] = ws[i + 1]
                                 /\ Before(e, vs, i) = Before(d, ws, i + 1)
        /\ Last(e, vs) = Last(d, ws)
        /\ vs = <<>> <=> Len(ws) = 1
        /\ vs # <<>> => vs[1] = ws[2]
    BY <1>1, TailSteps
  <1> HIDE DEF vs
  <1>3. Safe(e, n, t) /\ (SeedOn(d) => SeedOn(e)) BY <1>2 DEF Good
  <1>4. \A i \in 1..Len(vs) :
          Safe(vs[i].disk, n, t) /\ (SeedOn(Before(e, vs, i)) => SeedOn(vs[i].disk))
    BY <1>2 DEF Good
  <1>5. Good(e, vs, n, t) BY <1>2, <1>4 DEF Good
  <1>. QED BY <1>2, <1>3, <1>5 DEF vs
----------------------------------------------------------------------------
(***************************************************************************)
(* Facts about one disk.                                                   *)
(***************************************************************************)
LEMMA NumberTypes ==
  /\ MaxTime \in Nat /\ MaxKeys \in Nat \ {0} /\ Grace \in Nat
  /\ RotationPeriod \in Nat \ {0} /\ Key \subseteq Nat /\ Time \subseteq Nat /\ 0 \in Key
  BY KeyAssumption, KeyBounds DEF Key, Time

\* More keys and a later time leave a disk as good as it was.
LEMMA SafeLater ==
  ASSUME NEW d, NEW n \in Nat, NEW t \in Nat, NEW n2 \in Nat, NEW t2 \in Nat,
         Safe(d, n, t), n <= n2, t <= t2
  PROVE  Safe(d, n2, t2)
  <1>1. d \in Disk BY DEF Safe
  <1>2. d.db \in Database /\ d.keys \in KeyFile \union {Absent} BY <1>1 DEF Disk
  <1>3. Numbered(d, n2)
    <2>1. d.db.enckey.key \in Nat /\ \A m \in Msg : d.db.rows[m] \in Nat
      BY <1>2, NumberTypes DEF Database
    <2>2. d.keys # Absent => d.keys.pub \in Nat BY <1>2, NumberTypes DEF KeyFile
    <2>3. Numbered(d, n) BY DEF Safe
    <2>. QED BY <2>1, <2>2, <2>3 DEF Numbered
  <1>4. ASSUME InUse(d)
        PROVE  Serves(Readable(d), d.db, t2) /\ Halves(d.keys.pub, Readable(d), d.db, t2)
    <2> DEFINE s == Readable(d)
    <2>1. s \in Secrets
      <3>1. d.lock \in LockFile \union {Absent} BY <1>1 DEF Disk
      <3>2. NoSecrets \in Secrets BY NumberTypes DEF NoSecrets, Secrets
      <3>. QED BY <1>2, <3>1, <3>2 DEF Readable, KeyFile, LockFile
    <2>2. \A r \in s.retired : r.at \in Nat
      BY <2>1, NumberTypes DEF Secrets
    <2>3. d.db.enckey.at \in Nat BY <1>2, NumberTypes DEF Database
    <2>4. Serves(s, d.db, t) /\ Halves(d.keys.pub, s, d.db, t) BY <1>4 DEF Safe
    <2>5. Serves(s, d.db, t2)
      <3>1. ASSUME NEW m \in d.db.marked, NEW r \in s.retired, r.key = d.db.rows[m]
            PROVE  t2 - r.at > Grace
        <4>1. t - r.at > Grace BY <2>4, <3>1 DEF Serves
        <4>. QED BY <4>1, <2>2, NumberTypes
      <3>. QED BY <2>4, <3>1 DEF Serves
    <2>6. Halves(d.keys.pub, s, d.db, t2) BY <2>4, <2>3, NumberTypes DEF Halves
    <2>. QED BY <2>5, <2>6
  <1>. QED BY <1>1, <1>3, <1>4 DEF Safe

LEMMA GoodLater ==
  ASSUME NEW d, NEW ws, NEW n \in Nat, NEW t \in Nat, NEW n2 \in Nat,
         Good(d, ws, n, t), n <= n2
  PROVE  Good(d, ws, n2, t)
  <1>1. \A i \in 1..Len(ws) : Safe(ws[i].disk, n2, t) BY SafeLater DEF Good
  <1>. QED BY <1>1 DEF Good

LEMMA ReadableTypes ==
  ASSUME NEW d \in Disk
  PROVE  /\ Readable(d) \in Secrets /\ NoSecrets \in Secrets
         /\ d.db \in Database /\ d.seed \in BOOLEAN
         /\ d.keys # Absent => d.keys \in KeyFile
         /\ d.lock # Absent => d.lock \in LockFile
         /\ d.keys # Absent /\ d.keys.secrets # Absent => d.keys.secrets \in Secrets
  <1>1. d.lock \in LockFile \union {Absent} /\ d.keys \in KeyFile \union {Absent}
    BY DEF Disk
  <1>2. NoSecrets \in Secrets BY NumberTypes DEF NoSecrets, Secrets
  <1>. QED BY <1>1, <1>2 DEF Disk, Readable, KeyFile, LockFile

(***************************************************************************)
(* _save_keys(), of a node object that may save.                           *)
(***************************************************************************)
\* A node object with these secrets may be saved over d.
Savable(d, m, n, t) ==
  /\ Attached(d, m) /\ m \in Memory
  /\ Serves(m.secrets, d.db, t)
  /\ Halves(d.keys.pub, m.secrets, d.db, t) /\ Halves(m.pub, m.secrets, d.db, t)
  /\ m.pub <= n

LEMMA SaveKeysGood ==
  ASSUME NEW d, NEW m, NEW n \in Nat, NEW t \in Nat, Safe(d, n, t), Savable(d, m, n, t)
  PROVE  LET ws == SaveKeys(d, m)
             e == Last(d, ws)
         IN  Good(d, ws, n, t) /\ Holds(e, m) /\ Safe(e, n, t) /\ e.db = d.db
             /\ (SeedOn(d) => SeedOn(e))
  <1> USE DEF Savable
  <1>1. d \in Disk /\ d.db \in Database /\ d.keys \in KeyFile /\ d.keys.cert
    BY ReadableTypes DEF Safe, Attached, Enrolled
  <1>2. Bundle(m) \in KeyFile /\ Bundle(m).secrets = m.secrets /\ Bundle(m).pub = m.pub
        /\ Bundle(m).cert /\ ~Bundle(m).revoked
    BY DEF Bundle, KeyFile, Memory, Attached
  <1>3. m.secrets \in Secrets /\ m.secrets # Absent BY AbsentAssumption DEF Memory
  <1>4. CASE ~m.applock
    <2> DEFINE e == WriteKeys(d, Bundle(m))
    <2>1. e \in Disk /\ e.keys = Bundle(m) /\ e.lock = d.lock /\ e.seed = d.seed /\ e.db = d.db
      BY <1>1, <1>2 DEF WriteKeys, Disk
    <2> HIDE DEF e
    <2>2. e.lock = Absent /\ e.keys # Absent /\ e.keys.secrets # Absent
      BY <2>1, <1>4, <1>2, <1>3, AbsentAssumption DEF Attached
    <2>3. Readable(e) = m.secrets BY <2>1, <2>2, <1>2 DEF Readable
    <2>4. Enrolled(e) /\ Holds(e, m)
      BY <2>1, <2>2, <2>3, <1>2, <1>4 DEF Enrolled, Holds, Attached
    <2>5. Numbered(e, n) BY <2>1, <1>2 DEF Safe, Numbered
    <2>6. Safe(e, n, t) BY <2>1, <2>2, <2>3, <2>4, <2>5, <1>2 DEF Safe
    <2>7. SeedOn(d) => SeedOn(e) BY <2>1 DEF SeedOn
    <2>8. SaveKeys(d, m) = To(e, m) BY <1>4 DEF SaveKeys, e
    <2>. QED BY <2>1, <2>4, <2>6, <2>7, <2>8, OneWrite
  <1>5. CASE m.applock
    <2>1. d.lock \in LockFile /\ d.lock # Absent /\ Sealed(d)
      BY <1>5, <1>1, ReadableTypes DEF Attached, Safe
    <2>2. m.master = d.lock.master /\ m.seed = d.lock.seed /\ d.keys.secrets = Absent /\ ~d.seed
      BY <1>5 DEF Attached
    <2> DEFINE r == Reencrypt(d.lock, m)
               c == [d EXCEPT !.lock = r]
               e == WriteKeys(c, NonSecret(Bundle(m)))
    <2>3. r \in LockFile /\ r.secrets = m.secrets /\ r.seed = d.lock.seed
          /\ r.under = d.lock.master /\ r.master = d.lock.master
      BY <2>1, <2>2, <1>3 DEF Reencrypt, LockFile, Memory
    <2>4. r # Absent BY <2>3, AbsentAssumption
    <2> HIDE DEF r
    <2>5. c \in Disk /\ c.lock = r /\ c.keys = d.keys /\ c.seed = d.seed /\ c.db = d.db
      BY <1>1, <2>3 DEF Disk
    <2> HIDE DEF c
    <2>6. NonSecret(Bundle(m)) \in KeyFile /\ NonSecret(Bundle(m)).secrets = Absent
          /\ NonSecret(Bundle(m)).pub = m.pub /\ NonSecret(Bundle(m)).cert
          /\ ~NonSecret(Bundle(m)).revoked
      BY <1>2 DEF NonSecret, KeyFile
    <2>7. e \in Disk /\ e.lock = r /\ e.keys = NonSecret(Bundle(m)) /\ e.seed = d.seed
          /\ e.db = d.db
      BY <2>5, <2>6 DEF WriteKeys, Disk
    <2> HIDE DEF e
    <2>8. Readable(c) = m.secrets /\ Readable(e) = m.secrets
      BY <2>3, <2>4, <2>5, <2>7 DEF Readable
    <2>9. Enrolled(c) /\ Enrolled(e)
      BY <2>5, <2>6, <2>7, <1>1, AbsentAssumption DEF Enrolled
    <2>10. Holds(e, m)
      <3>1. e.keys.pub = m.pub /\ ~e.keys.revoked /\ e.keys.secrets = Absent /\ ~e.seed
            /\ ~e.db.revoked /\ e.lock # Absent
        BY <2>2, <2>4, <2>6, <2>7 DEF Attached
      <3>2. m.master = e.lock.master /\ m.seed = e.lock.seed BY <2>2, <2>3, <2>7
      <3>3. Attached(e, m) BY <1>5, <2>9, <3>1, <3>2 DEF Attached
      <3>. QED BY <2>8, <3>1, <3>3 DEF Holds
    <2>11. Safe(c, n, t)
      <3>1. Sealed(c) BY <2>1, <2>2, <2>3, <2>5, <2>9 DEF Sealed
      <3>2. Numbered(c, n) BY <2>5 DEF Safe, Numbered
      <3>. QED BY <2>5, <2>8, <2>9, <3>1, <3>2 DEF Safe
    <2>12. Safe(e, n, t)
      <3>1. Sealed(e) BY <2>1, <2>2, <2>3, <2>6, <2>7, <2>9 DEF Sealed
      <3>2. Numbered(e, n) BY <2>6, <2>7 DEF Safe, Numbered
      <3>. QED BY <2>6, <2>7, <2>8, <2>9, <3>1, <3>2 DEF Safe
    <2>13. (SeedOn(d) => SeedOn(c)) /\ (SeedOn(c) => SeedOn(e))
      BY <2>1, <2>2, <2>3, <2>4, <2>5, <2>7 DEF SeedOn
    <2>14. SaveKeys(d, m) = To(c, m) \o To(e, m) BY <1>5 DEF SaveKeys, c, e, r
    <2>15. Good(d, To(c, m), n, t) /\ Last(d, To(c, m)) = c BY <2>11, <2>13, OneWrite
    <2>16. Good(c, To(e, m), n, t) /\ Last(c, To(e, m)) = e BY <2>12, <2>13, OneWrite
    <2>17. Good(d, SaveKeys(d, m), n, t) /\ Last(d, SaveKeys(d, m)) = e
      BY <2>14, <2>15, <2>16, ThenWritten
    <2>. QED BY <2>5, <2>7, <2>10, <2>12, <2>13, <2>17
  <1>. QED BY <1>4, <1>5 DEF Attached, Memory
----------------------------------------------------------------------------
(***************************************************************************)
(* maintain_enckey(): pruning, publishing and rotating.                    *)
(***************************************************************************)
LEMMA KeptFacts ==
  ASSUME NEW m \in Memory, now \in Time
  PROVE  /\ Kept(m) \in Memory
         /\ Kept(m) = [m EXCEPT !.secrets = Kept(m).secrets]
         /\ Kept(m).secrets.enc = m.secrets.enc
         /\ \A db, t : /\ Serves(m.secrets, db, t) => Serves(Kept(m).secrets, db, t)
                       /\ \A p : Halves(p, m.secrets, db, t) <=> Halves(p, Kept(m).secrets, db, t)
  <1>1. m.secrets \in Secrets BY DEF Memory
  <1>2. Pruned(m.secrets) \in Secrets /\ Pruned(m.secrets).enc = m.secrets.enc
        /\ Pruned(m.secrets).device = m.secrets.device
        /\ Pruned(m.secrets).identity = m.secrets.identity
        /\ Pruned(m.secrets).storage = m.secrets.storage
        /\ Pruned(m.secrets).retired \subseteq m.secrets.retired
    BY <1>1 DEF Pruned, Secrets
  <1>3. Kept(m) \in Memory /\ Kept(m).secrets = Pruned(m.secrets)
    BY <1>2 DEF Kept, Memory
  <1>4. Kept(m) = [m EXCEPT !.secrets = Kept(m).secrets] BY <1>3 DEF Kept
  <1>. QED BY <1>2, <1>3, <1>4 DEF Serves, Halves

LEMMA SameButSecrets ==
  ASSUME NEW m \in Memory, NEW k \in Memory, k = [m EXCEPT !.secrets = k.secrets]
  PROVE  /\ k.applock = m.applock /\ k.locked = m.locked /\ k.revoked = m.revoked
         /\ k.pub = m.pub /\ k.seq = m.seq /\ k.master = m.master /\ k.seed = m.seed
         /\ k.phase = m.phase /\ k.kept = m.kept
         /\ \A d : Attached(d, m) => Attached(d, k)
  <1>1. /\ k.applock = m.applock /\ k.locked = m.locked /\ k.revoked = m.revoked
        /\ k.pub = m.pub /\ k.seq = m.seq /\ k.master = m.master /\ k.seed = m.seed
        /\ k.phase = m.phase /\ k.kept = m.kept
    BY DEF Memory
  <1>. QED BY <1>1 DEF Attached

LEMMA HoldsFacts ==
  ASSUME NEW d, NEW m \in Memory, NEW n \in Nat, NEW t \in Nat, Safe(d, n, t), Holds(d, m)
  PROVE  /\ Serves(m.secrets, d.db, t) /\ Halves(m.pub, m.secrets, d.db, t) /\ m.pub <= n
         /\ m.pub = d.keys.pub /\ m.secrets = Readable(d) /\ Attached(d, m)
  BY AbsentAssumption DEF Safe, Holds, Attached, InUse, Enrolled, Numbered

LEMMA PruneGood ==
  ASSUME NEW d, NEW m \in Memory, NEW n \in Nat, now \in Time, Safe(d, n, now), Holds(d, m)
  PROVE  LET e == Last(d, PruneWrites(d, m))
         IN  Good(d, PruneWrites(d, m), n, now) /\ Holds(e, Kept(m)) /\ Safe(e, n, now)
             /\ e.db = d.db
  <1>1. now \in Nat BY NumberTypes
  <1>2. CASE Kept(m) = m
    <2>1. PruneWrites(d, m) = <<>> BY <1>2 DEF PruneWrites
    <2>. QED BY <1>2, <2>1, NothingWritten
  <1>3. CASE Kept(m) # m
    <2>1. PruneWrites(d, m) = SaveKeys(d, Kept(m)) BY <1>3 DEF PruneWrites
    <2>2. Savable(d, Kept(m), n, now)
      <3>1. Serves(m.secrets, d.db, now) /\ Halves(m.pub, m.secrets, d.db, now) /\ m.pub <= n
            /\ m.pub = d.keys.pub /\ Attached(d, m)
        BY <1>1, HoldsFacts
      <3>2. Kept(m) \in Memory /\ Kept(m).pub = m.pub /\ Attached(d, Kept(m))
        BY <3>1, KeptFacts, SameButSecrets
      <3>3. Serves(Kept(m).secrets, d.db, now) /\ Halves(m.pub, Kept(m).secrets, d.db, now)
        BY <3>1, KeptFacts
      <3>. QED BY <3>1, <3>2, <3>3 DEF Savable
    <2>. QED BY <1>1, <2>1, <2>2, SaveKeysGood
  <1>. QED BY <1>2, <1>3

\* What the announcement of a key leaves on the disk.
LEMMA EnckeyFacts ==
  ASSUME NEW d \in Disk, NEW k \in Memory, now \in Time
  PROVE  LET c == IngestEnckey(d, k)
         IN  /\ c \in Disk /\ c.keys = d.keys /\ c.lock = d.lock /\ c.seed = d.seed
             /\ c.db.revoked = d.db.revoked /\ c.db.rows = d.db.rows
             /\ c.db.cached = d.db.cached /\ c.db.marked = d.db.marked
             /\ c.db.enckey = IF Accepts(d, k) THEN [key |-> k.pub, at |-> now]
                              ELSE d.db.enckey
  <1> DEFINE c == IngestEnckey(d, k)
  <1>1. d.db \in Database BY ReadableTypes
  <1>2. /\ c.keys = d.keys /\ c.lock = d.lock /\ c.seed = d.seed
        /\ c.db.revoked = d.db.revoked /\ c.db.rows = d.db.rows /\ c.db.cached = d.db.cached
        /\ c.db.marked = d.db.marked
        /\ c.db.enckey = IF Accepts(d, k) THEN [key |-> k.pub, at |-> now] ELSE d.db.enckey
    BY <1>1 DEF IngestEnckey, Disk, Database
  <1>3. CASE ~Accepts(d, k) BY <1>2, <1>3 DEF IngestEnckey
  <1>4. CASE Accepts(d, k)
    <2>1. [key |-> k.pub, at |-> now] \in [key : Key, at : Time] /\ k.seq \in Nat
      BY DEF Memory
    <2>2. [d.db EXCEPT !.enckey = [key |-> k.pub, at |-> now], !.top = k.seq] \in Database
      BY <2>1, <1>1 DEF Database
    <2>3. c = [d EXCEPT !.db = [d.db EXCEPT !.enckey = [key |-> k.pub, at |-> now],
                                            !.top = k.seq]]
      BY <1>4, <1>1 DEF IngestEnckey, Disk, Database
    <2>4. c \in Disk BY <2>2, <2>3 DEF Disk
    <2>. QED BY <1>2, <2>4
  <1>. QED BY <1>3, <1>4

LEMMA PublishGood ==
  ASSUME NEW d, NEW m \in Memory, NEW n \in Nat, now \in Time, Safe(d, n, now), Holds(d, m),
         m.pub = m.secrets.enc
  PROVE  LET e == Last(d, PublishEnckey(d, m))
         IN  /\ Good(d, PublishEnckey(d, m), n, now)
             /\ Signed(m) \in Memory /\ Holds(e, Signed(m)) /\ Safe(e, n, now)
             /\ Accepts(d, Signed(m)) => e.db.enckey.key = m.pub
  <1> DEFINE k == Signed(m)
             c == IngestEnckey(d, k)
  <1>1. now \in Nat BY NumberTypes
  <1>2. k \in Memory /\ k.secrets = m.secrets /\ k.pub = m.pub /\ k.applock = m.applock
        /\ k.locked = m.locked /\ k.revoked = m.revoked /\ k.master = m.master /\ k.seed = m.seed
    BY DEF Signed, Memory
  <1> HIDE DEF k
  <1>3. d \in Disk BY DEF Safe
  <1>4. /\ c.keys = d.keys /\ c.lock = d.lock /\ c.seed = d.seed
        /\ c.db.revoked = d.db.revoked /\ c.db.rows = d.db.rows /\ c.db.cached = d.db.cached
        /\ c.db.marked = d.db.marked
        /\ c.db.enckey = IF Accepts(d, k) THEN [key |-> k.pub, at |-> now] ELSE d.db.enckey
    BY <1>2, <1>3, EnckeyFacts
  <1>5. c \in Disk BY <1>2, <1>3, EnckeyFacts
  <1> HIDE DEF c
  <1>6. Readable(c) = Readable(d) /\ (Enrolled(c) <=> Enrolled(d)) /\ (InUse(c) <=> InUse(d))
        /\ (SeedOn(c) <=> SeedOn(d)) /\ (Sealed(c) <=> Sealed(d))
    BY <1>4 DEF Readable, Enrolled, InUse, SeedOn, Sealed
  <1>7. Serves(m.secrets, d.db, now) /\ m.pub <= n /\ m.secrets = Readable(d) /\ m.pub = d.keys.pub
        /\ Attached(d, m)
    BY <1>1, HoldsFacts
  <1>8. Serves(m.secrets, c.db, now) BY <1>4, <1>7 DEF Serves
  <1>9. Halves(m.pub, m.secrets, c.db, now) BY DEF Halves
  <1>10. Numbered(c, n) BY <1>2, <1>4, <1>7 DEF Numbered, Safe
  <1>11. Safe(c, n, now)
    <2>1. ~Enrolled(c) => Waiting(c) BY <1>6, <1>7 DEF Attached
    <2>. QED BY <1>4, <1>5, <1>6, <1>7, <1>8, <1>9, <1>10, <2>1 DEF Safe
  <1>12. Attached(c, k) BY <1>2, <1>4, <1>6, <1>7 DEF Attached
  <1>13. Savable(c, k, n, now) BY <1>2, <1>4, <1>7, <1>8, <1>9, <1>12 DEF Savable
  <1>14. Good(d, To(c, k), n, now) /\ Last(d, To(c, k)) = c BY <1>2, <1>6, <1>11, OneWrite
  <1> DEFINE e == Last(c, SaveKeys(c, k))
  <1>15. Good(c, SaveKeys(c, k), n, now) /\ Holds(e, k) /\ Safe(e, n, now) /\ e.db = c.db
    BY <1>1, <1>11, <1>13, SaveKeysGood
  <1>16. PublishEnckey(d, m) = To(c, k) \o SaveKeys(c, k) BY DEF PublishEnckey, c, k
  <1>17. Good(d, PublishEnckey(d, m), n, now) /\ Last(d, PublishEnckey(d, m)) = e
    BY <1>14, <1>15, <1>16, ThenWritten
  <1>18. Accepts(d, k) => e.db.enckey.key = m.pub BY <1>2, <1>4, <1>15
  <1>. QED BY <1>2, <1>15, <1>17, <1>18 DEF k

\* What rotating makes of the node object.
LEMMA RotatedTypes ==
  ASSUME NEW m \in Memory, NEW key \in Key, now \in Time
  PROVE  LET k == Rotated(m, key)
             old == [key |-> m.secrets.enc, at |-> now]
         IN  /\ k \in Memory /\ k.secrets.enc = key /\ k.secrets.storage = m.secrets.storage
             /\ k.secrets.device = m.secrets.device
             /\ k.secrets.identity = m.secrets.identity
             /\ k.secrets.retired = {r \in m.secrets.retired \union {old} : now - r.at <= Grace}
             /\ k.pub = key /\ k.applock = m.applock /\ k.locked = m.locked
             /\ k.revoked = m.revoked /\ k.master = m.master /\ k.seed = m.seed
             /\ k.seq = m.seq /\ k.phase = m.phase /\ k.kept = m.kept
  <1> DEFINE k == Rotated(m, key)
             old == [key |-> m.secrets.enc, at |-> now]
             kept == {r \in m.secrets.retired \union {old} : now - r.at <= Grace}
             s == [m.secrets EXCEPT !.retired = kept, !.enc = key]
  <1>1. now \in Nat /\ Grace \in Nat BY NumberTypes
  <1>2. m.secrets \in Secrets BY DEF Memory
  <1>3. old \in [key : Key, at : Time] BY <1>2 DEF Secrets
  <1>4. kept \subseteq [key : Key, at : Time] BY <1>2, <1>3 DEF Secrets
  <1>5. s \in Secrets /\ s.enc = key /\ s.storage = m.secrets.storage
        /\ s.device = m.secrets.device /\ s.identity = m.secrets.identity /\ s.retired = kept
    BY <1>2, <1>4 DEF Secrets
  <1>6. k = [m EXCEPT !.secrets = s, !.pub = key]
    <2> DEFINE u == [m.secrets EXCEPT !.retired = m.secrets.retired \union {old}, !.enc = key]
    <2>1. u \in Secrets /\ u.retired = m.secrets.retired \union {old}
      BY <1>2, <1>3 DEF Secrets
    <2>2. Pruned(u) = [u EXCEPT !.retired = kept] BY <2>1 DEF Pruned
    <2>3. Pruned(u) = s BY <1>2, <2>2 DEF Secrets
    <2>4. k = [m EXCEPT !.secrets = Pruned(u), !.pub = key] BY DEF Rotated
    <2>. QED BY <2>3, <2>4
  <1> HIDE DEF s, k
  <1>7. k \in Memory /\ k.secrets = s /\ k.pub = key /\ k.applock = m.applock
        /\ k.locked = m.locked /\ k.revoked = m.revoked /\ k.master = m.master
        /\ k.seed = m.seed /\ k.seq = m.seq /\ k.phase = m.phase /\ k.kept = m.kept
    BY <1>5, <1>6 DEF Memory
  <1>. QED BY <1>5, <1>7 DEF k

\* The new key is one that nothing was sealed to yet, and the old one stays in grace.
LEMMA RotatedFacts ==
  ASSUME NEW d, NEW m \in Memory, NEW n \in Nat, NEW key \in Key, now \in Time,
         Safe(d, n, now), Holds(d, m), Numbered(d, key - 1), key <= n, Rotates(d, m)
  PROVE  LET k == Rotated(m, key)
         IN  Savable(d, k, n, now) /\ k.pub = key /\ k.secrets.enc = key /\ k.seq = m.seq
             /\ k.phase = m.phase /\ k.kept = m.kept
  <1> DEFINE k == Rotated(m, key)
             old == [key |-> m.secrets.enc, at |-> now]
             kept == {r \in m.secrets.retired \union {old} : now - r.at <= Grace}
             s == k.secrets
  <1>1. now \in Nat /\ Grace \in Nat BY NumberTypes
  <1>2. s = k.secrets OBVIOUS
  <1> HIDE DEF k
  <1>3. s.enc = key /\ s.storage = m.secrets.storage
        /\ s.device = m.secrets.device /\ s.identity = m.secrets.identity /\ s.retired = kept
    BY <1>2, RotatedTypes DEF k
  <1>4. k \in Memory /\ k.secrets = s /\ k.pub = key /\ k.applock = m.applock
        /\ k.locked = m.locked /\ k.revoked = m.revoked /\ k.master = m.master
        /\ k.seed = m.seed /\ k.seq = m.seq /\ k.phase = m.phase /\ k.kept = m.kept
    BY <1>2, RotatedTypes DEF k
  <1> HIDE DEF s
  <1>5. Serves(m.secrets, d.db, now) /\ m.secrets = Readable(d) /\ m.pub = d.keys.pub
        /\ Attached(d, m)
    BY <1>1, HoldsFacts
  <1>6. Serves(s, d.db, now)
    <2>1. ASSUME NEW x \in d.db.marked
          PROVE  /\ d.db.rows[x] # 0 /\ d.db.rows[x] # s.enc
                 /\ \A r \in s.retired : r.key = d.db.rows[x] => now - r.at > Grace
      <3>1. d.db \in Database BY ReadableTypes DEF Safe
      <3>2. x \in Msg /\ d.db.rows[x] \in Nat BY <3>1, <2>1, NumberTypes DEF Database
      <3>3. d.db.rows[x] <= key - 1 /\ key \in Nat BY <3>2, NumberTypes DEF Numbered
      <3>4. d.db.rows[x] # 0 /\ d.db.rows[x] # m.secrets.enc BY <1>5 DEF Serves
      <3>5. ASSUME NEW r \in s.retired, r.key = d.db.rows[x] PROVE now - r.at > Grace
        <4>1. r # old BY <3>4, <3>5
        <4>2. r \in m.secrets.retired BY <4>1, <1>3
        <4>. QED BY <4>2, <3>5, <1>5 DEF Serves
      <3>. QED BY <3>2, <3>3, <3>4, <3>5, <1>3
    <2>. QED BY <2>1, <1>3, <1>5 DEF Serves
  <1>7. Halves(d.keys.pub, s, d.db, now) BY <1>5 DEF Halves, Rotates, Publishes
  <1>8. Halves(k.pub, s, d.db, now) BY <1>3, <1>4 DEF Halves
  <1>9. Attached(d, k) BY <1>4, <1>5 DEF Attached
  <1>. QED BY <1>3, <1>4, <1>6, <1>7, <1>8, <1>9 DEF Savable, k

LEMMA RotateGood ==
  ASSUME NEW d, NEW m \in Memory, NEW n \in Nat, NEW key \in Key, now \in Time,
         Safe(d, n, now), Holds(d, m), Numbered(d, key - 1), key <= n, Rotates(d, m)
  PROVE  LET k == Rotated(m, key)
             e == Last(d, RotateWrites(d, k))
         IN  /\ Good(d, RotateWrites(d, k), n, now)
             /\ Signed(k) \in Memory /\ Holds(e, Signed(k)) /\ Safe(e, n, now)
             /\ Accepts(d, Signed(m)) => e.db.enckey.key = key
  <1> DEFINE k == Rotated(m, key)
             c == Last(d, SaveKeys(d, k))
             e == Last(c, PublishEnckey(c, k))
  <1>1. Savable(d, k, n, now) /\ k.pub = key /\ k.secrets.enc = key /\ k.seq = m.seq
    BY RotatedFacts
  <1>2. k \in Memory BY <1>1 DEF Savable
  <1>3. Signed(k).seq = Signed(m).seq BY <1>1, <1>2 DEF Signed, Memory
  <1> HIDE DEF k
  <1>4. now \in Nat BY NumberTypes
  <1>5. Good(d, SaveKeys(d, k), n, now) /\ Holds(c, k) /\ Safe(c, n, now) /\ c.db = d.db
    BY <1>1, <1>4, SaveKeysGood
  <1>6. Accepts(c, Signed(k)) <=> Accepts(d, Signed(m)) BY <1>3, <1>5 DEF Accepts
  <1> HIDE DEF c
  <1>7. /\ Good(c, PublishEnckey(c, k), n, now)
        /\ Signed(k) \in Memory /\ Holds(e, Signed(k)) /\ Safe(e, n, now)
        /\ Accepts(c, Signed(k)) => e.db.enckey.key = k.pub
    BY <1>1, <1>2, <1>5, PublishGood
  <1>8. RotateWrites(d, k) = SaveKeys(d, k) \o PublishEnckey(c, k) BY DEF RotateWrites, c
  <1>9. Good(d, RotateWrites(d, k), n, now) /\ Last(d, RotateWrites(d, k)) = e
    BY <1>5, <1>7, <1>8, ThenWritten DEF c
  <1>. QED BY <1>1, <1>6, <1>7, <1>9 DEF k

\* The whole handler: afterwards the node object holds what the disk does, and unless
\* the message was rejected the key on file is the current one.
LEMMA MaintainGood ==
  ASSUME NEW d, NEW m \in Memory, NEW n \in Nat, NEW key \in Key, now \in Time,
         Safe(d, n, now), Holds(d, m), Rotates(d, m) => Numbered(d, key - 1) /\ key <= n
  PROVE  LET k == Maintained(d, m, key)
             ws == MaintainWrites(d, m, key)
             e == Last(d, ws)
         IN  /\ Good(d, ws, n, now) /\ k \in Memory /\ Holds(e, k)
             /\ ~Rejected(d, m) => e.db.enckey.key = k.secrets.enc
             /\ k.phase = m.phase
  <1> DEFINE h == Kept(m)
             b == Last(d, PruneWrites(d, m))
             k == Maintained(d, m, key)
             ws == MaintainWrites(d, m, key)
             e == Last(d, ws)
  <1>1. now \in Nat BY NumberTypes
  <1>2. h \in Memory /\ h.pub = m.pub /\ h.seq = m.seq /\ h.phase = m.phase
        /\ h.secrets.enc = m.secrets.enc
    BY KeptFacts, SameButSecrets
  <1>3. Good(d, PruneWrites(d, m), n, now) /\ Holds(b, h) /\ Safe(b, n, now) /\ b.db = d.db
    BY PruneGood
  <1>4. Signed(h).seq = Signed(m).seq BY <1>2 DEF Signed, Memory
  <1>5. Halves(m.pub, m.secrets, d.db, now) BY <1>1, HoldsFacts
  <1>6. m.pub \in Key /\ d.db.enckey.key \in Key
    <2>1. d.db \in Database BY ReadableTypes DEF Safe
    <2>. QED BY <2>1 DEF Memory, Database
  <1> HIDE DEF h, b
  <1>7. CASE Publishes(d, m)
    <2> DEFINE c == Last(b, PublishEnckey(b, h))
    <2>1. h.pub = h.secrets.enc BY <1>2, <1>5, <1>7 DEF Halves, Publishes
    <2>2. /\ Good(b, PublishEnckey(b, h), n, now)
          /\ Signed(h) \in Memory /\ Holds(c, Signed(h)) /\ Safe(c, n, now)
          /\ Accepts(b, Signed(h)) => c.db.enckey.key = h.pub
      BY <1>2, <1>3, <2>1, PublishGood
    <2>3. ws = PruneWrites(d, m) \o PublishEnckey(b, h) BY <1>7 DEF MaintainWrites, b, h
    <2>4. Good(d, ws, n, now) /\ e = c BY <1>3, <2>2, <2>3, ThenWritten DEF b
    <2>5. ~Rotates(d, m) BY <1>7 DEF Rotates
    <2>6. k = Signed(h) BY <1>7, <2>5 DEF Maintained, h
    <2>7. ~Rejected(d, m) => Accepts(b, Signed(h)) BY <1>3, <1>4, <1>7 DEF Rejected, Accepts
    <2>8. Signed(h).secrets = h.secrets /\ Signed(h).phase = h.phase BY <1>2 DEF Signed, Memory
    <2>. QED BY <1>2, <2>1, <2>2, <2>4, <2>6, <2>7, <2>8
  <1>8. CASE Rotates(d, m)
    <2> DEFINE r == Rotated(h, key)
               c == Last(b, RotateWrites(b, r))
    <2>1. Rotates(b, h) BY <1>2, <1>3, <1>8 DEF Rotates, Publishes
    <2>2. Numbered(b, key - 1)
      <3>1. b.keys.pub = d.keys.pub
        <4>1. b.keys.pub = h.pub BY <1>3 DEF Holds
        <4>2. d.keys.pub = m.pub BY DEF Holds
        <4>. QED BY <4>1, <4>2, <1>2
      <3>2. d.keys # Absent BY DEF Holds, Attached, Enrolled
      <3>. QED BY <1>3, <1>8, <3>1, <3>2 DEF Numbered
    <2>3. /\ Good(b, RotateWrites(b, r), n, now)
          /\ Signed(r) \in Memory /\ Holds(c, Signed(r)) /\ Safe(c, n, now)
          /\ Accepts(b, Signed(h)) => c.db.enckey.key = key
      BY <1>2, <1>3, <1>8, <2>1, <2>2, RotateGood
    <2>4. r \in Memory /\ r.secrets.enc = key /\ r.phase = h.phase
      BY <1>2, <1>3, <1>8, <2>1, <2>2, RotatedFacts DEF Savable
    <2>5. ~Publishes(d, m) BY <1>8 DEF Rotates
    <2>6. ws = PruneWrites(d, m) \o RotateWrites(b, r) BY <1>8, <2>5 DEF MaintainWrites, b, h
    <2>7. Good(d, ws, n, now) /\ e = c BY <1>3, <2>3, <2>6, ThenWritten DEF b
    <2>8. k = Signed(r) BY <1>8 DEF Maintained, h
    <2>9. ~Rejected(d, m) => Accepts(b, Signed(h)) BY <1>3, <1>4, <1>8 DEF Rejected, Accepts
    <2>10. Signed(r).secrets = r.secrets /\ Signed(r).phase = r.phase BY <2>4 DEF Signed, Memory
    <2>. QED BY <1>2, <2>3, <2>4, <2>7, <2>8, <2>9, <2>10
  <1>9. CASE ~Publishes(d, m) /\ ~Rotates(d, m)
    <2>1. ws = PruneWrites(d, m) \o <<>> BY <1>9 DEF MaintainWrites
    <2>2. Good(b, <<>>, n, now) /\ Last(b, <<>>) = b BY NothingWritten
    <2>3. Good(d, ws, n, now) /\ e = b BY <1>3, <2>1, <2>2, ThenWritten DEF b
    <2>4. k = h BY <1>9 DEF Maintained, h
    <2>5. b.db.enckey.key = m.secrets.enc
      <3>1. d.db.enckey.key = m.pub BY <1>9 DEF Publishes
      <3>2. ~(now - d.db.enckey.at >= RotationPeriod) BY <1>9 DEF Rotates
      <3>. QED BY <1>3, <1>5, <3>1, <3>2 DEF Halves
    <2>. QED BY <1>2, <1>3, <2>3, <2>4, <2>5
  <1>. QED BY <1>7, <1>8, <1>9
----------------------------------------------------------------------------
(***************************************************************************)
(* Revocation.                                                             *)
(***************************************************************************)
LEMMA RevokedTypes ==
  ASSUME NEW m \in Memory
  PROVE  /\ Stripped(m) \in Memory /\ Unsecured(m) \in Memory /\ Revoked(m) \in Memory
         /\ Revoked(m).pub = m.pub /\ Revoked(m).revoked /\ ~Revoked(m).locked
         /\ ~Revoked(m).applock /\ Revoked(m).phase = m.phase
         /\ Bundle(Revoked(m)) \in KeyFile /\ Bundle(Revoked(m)).cert
         /\ Bundle(Revoked(m)).revoked /\ Bundle(Revoked(m)).pub = m.pub
  <1>1. NoSecrets \in Secrets BY NumberTypes DEF NoSecrets, Secrets
  <1>2. Stripped(m) \in Memory /\ Stripped(m).pub = m.pub /\ Stripped(m).phase = m.phase
    BY <1>1 DEF Stripped, Memory
  <1>3. Unsecured(m) \in Memory /\ Unsecured(m).pub = m.pub /\ Unsecured(m).phase = m.phase
        /\ ~Unsecured(m).applock
    <2> DEFINE k == Stripped(m)
    <2>1. Unsecured(m) = [k EXCEPT !.applock = FALSE, !.master = 0, !.seed = FALSE]
      BY DEF Unsecured
    <2> HIDE DEF k
    <2>2. k \in Memory /\ k.pub = m.pub /\ k.phase = m.phase BY <1>2 DEF k
    <2>3. 0 \in 0..2 OBVIOUS
    <2>. QED BY <2>1, <2>2, <2>3 DEF Memory
  <1>4. Revoked(m) \in Memory /\ Revoked(m).pub = m.pub /\ Revoked(m).phase = m.phase
        /\ ~Revoked(m).applock /\ Revoked(m).revoked /\ ~Revoked(m).locked
    BY <1>3 DEF Revoked, Memory
  <1>. QED BY <1>2, <1>3, <1>4 DEF Bundle, KeyFile, Memory

LEMMA EmptyDatabaseFacts ==
  /\ EmptyDatabase \in Database /\ ~EmptyDatabase.revoked
  /\ EmptyDatabase.enckey.key = 0 /\ EmptyDatabase.marked = {}
  /\ \A m \in Msg : EmptyDatabase.rows[m] = 0 /\ EmptyDatabase.cached[m] = 0
  /\ [EmptyDatabase EXCEPT !.marked = {}] = EmptyDatabase
  <1>1. 0 \in Key /\ 0 \in Time BY NumberTypes DEF Time
  <1>2. [key |-> 0, at |-> 0] \in [key : Key, at : Time] /\ [m \in Msg |-> 0] \in [Msg -> Key]
    BY <1>1
  <1>3. EmptyDatabase \in Database BY <1>2 DEF EmptyDatabase, Database
  <1>4. /\ ~EmptyDatabase.revoked /\ EmptyDatabase.enckey.key = 0 /\ EmptyDatabase.marked = {}
        /\ \A m \in Msg : EmptyDatabase.rows[m] = 0 /\ EmptyDatabase.cached[m] = 0
    BY DEF EmptyDatabase
  <1>5. [EmptyDatabase EXCEPT !.marked = {}] = EmptyDatabase
    BY <1>3, <1>4 DEF Database
  <1>. QED BY <1>3, <1>4, <1>5

\* Putting the seed back and dropping the record, where there is one.
LEMMA UnsecureGood ==
  ASSUME NEW d, NEW m \in Memory, NEW n \in Nat, NEW t \in Nat, Safe(d, n, t),
         Enrolled(d), d.db.revoked,
         m.applock <=> d.lock # Absent, m.applock => m.seed = d.lock.seed
  PROVE  LET ws == UnsecureWrites(d, m)
             e == Last(d, ws)
         IN  /\ Good(d, ws, n, t)
             /\ e \in Disk /\ e.lock = Absent /\ Enrolled(e) /\ e.keys = d.keys /\ e.db = d.db
             /\ SeedOn(e) => e.seed
  <1>1. d \in Disk BY DEF Safe
  <1>2. Stripped(m) \in Memory BY RevokedTypes
  <1>3. ~InUse(d) /\ Numbered(d, n) BY DEF InUse, Safe
  <1>4. CASE ~m.applock
    <2>1. UnsecureWrites(d, m) = <<>> BY <1>4 DEF UnsecureWrites
    <2>2. d.lock = Absent BY <1>4
    <2>. QED BY <1>1, <2>1, <2>2, NothingWritten DEF SeedOn
  <1>5. CASE m.applock
    <2> DEFINE c == Last(d, RestoreWrites(d, m))
               e == DropLock(c)
    <2>1. d.lock \in LockFile /\ d.lock # Absent /\ Sealed(d) /\ m.seed = d.lock.seed
      BY <1>1, <1>5, ReadableTypes DEF Safe
    <2>2. Good(d, RestoreWrites(d, m), n, t) /\ c \in Disk /\ c.lock = d.lock /\ c.keys = d.keys
          /\ c.db = d.db /\ (SeedOn(d) => c.seed)
      <3>1. CASE ~m.seed
        <4>1. RestoreWrites(d, m) = <<>> BY <3>1 DEF RestoreWrites
        <4>. QED BY <1>1, <2>1, <3>1, <4>1, NothingWritten DEF SeedOn, Sealed
      <3>2. CASE m.seed
        <4> DEFINE r == RestoreSeed(d)
        <4>1. r \in Disk /\ r.seed /\ r.lock = d.lock /\ r.keys = d.keys /\ r.db = d.db
          BY <1>1 DEF RestoreSeed, Disk
        <4>2. Enrolled(r) /\ Sealed(r) /\ ~InUse(r) /\ Numbered(r, n) /\ SeedOn(r)
          BY <1>3, <2>1, <3>2, <4>1 DEF Enrolled, Sealed, InUse, Numbered, SeedOn
        <4>3. Safe(r, n, t) BY <4>1, <4>2 DEF Safe
        <4>4. RestoreWrites(d, m) = To(r, Stripped(m)) BY <3>2 DEF RestoreWrites
        <4>. QED BY <1>2, <4>1, <4>2, <4>3, <4>4, OneWrite
      <3>. QED BY <3>1, <3>2
    <2> HIDE DEF c
    <2>3. e \in Disk /\ e.lock = Absent /\ e.keys = d.keys /\ e.db = d.db /\ e.seed = c.seed
      BY <2>2 DEF DropLock, Disk
    <2> HIDE DEF e
    <2>4. Enrolled(e) /\ ~InUse(e) /\ Numbered(e, n)
      BY <1>3, <2>3 DEF Enrolled, InUse, Numbered
    <2>5. Safe(e, n, t) BY <2>3, <2>4 DEF Safe
    <2>6. SeedOn(c) => SeedOn(e)
      BY <2>1, <2>2, <2>3 DEF SeedOn, Sealed
    <2>7. Good(c, To(e, Stripped(m)), n, t) /\ Last(c, To(e, Stripped(m))) = e
      BY <1>2, <2>5, <2>6, OneWrite
    <2>8. UnsecureWrites(d, m) = RestoreWrites(d, m) \o To(e, Stripped(m))
      BY <1>5 DEF UnsecureWrites, c, e
    <2>9. Good(d, UnsecureWrites(d, m), n, t) /\ Last(d, UnsecureWrites(d, m)) = e
      BY <2>2, <2>7, <2>8, ThenWritten DEF c
    <2>. QED BY <2>3, <2>4, <2>9 DEF SeedOn
  <1>. QED BY <1>4, <1>5

LEMMA RevokeGood ==
  ASSUME NEW d, NEW m \in Memory, NEW n \in Nat, NEW t \in Nat, Safe(d, n, t),
         Enrolled(d), d.db.revoked, m.pub <= n,
         m.applock <=> d.lock # Absent, m.applock => m.seed = d.lock.seed
  PROVE  LET ws == RevokeWrites(d, m)
             e == Last(d, ws)
         IN  /\ Good(d, ws, n, t)
             /\ Safe(e, n, t) /\ e.db = EmptyDatabase
             /\ e.lock = Absent /\ Enrolled(e) /\ e.keys.revoked
  <1> DEFINE us == UnsecureWrites(d, m)
             c == Last(d, us)
             dead == WriteKeys(c, Bundle(Revoked(m)))
             e == Wiped(dead)
  <1>1. /\ Good(d, us, n, t)
        /\ c \in Disk /\ c.lock = Absent /\ c.db = d.db /\ (SeedOn(c) => c.seed)
    BY UnsecureGood
  <1>2. /\ Bundle(Revoked(m)) \in KeyFile /\ Bundle(Revoked(m)).cert
        /\ Bundle(Revoked(m)).revoked /\ Bundle(Revoked(m)).pub = m.pub
        /\ Unsecured(m) \in Memory
    BY RevokedTypes
  <1> HIDE DEF c
  <1>3. dead \in Disk /\ dead.keys = Bundle(Revoked(m)) /\ dead.lock = Absent
        /\ dead.seed = c.seed /\ dead.db = d.db
    BY <1>1, <1>2 DEF WriteKeys, Disk
  <1> HIDE DEF dead
  <1>4. e \in Disk /\ e.keys = dead.keys /\ e.lock = Absent /\ e.seed = c.seed
        /\ e.db = EmptyDatabase
    BY <1>3, EmptyDatabaseFacts DEF Wiped, Disk
  <1> HIDE DEF e
  <1>5. dead.keys # Absent BY <1>2, <1>3, AbsentAssumption
  <1>6. Enrolled(dead) /\ Enrolled(e) /\ ~InUse(dead) /\ ~InUse(e)
    BY <1>2, <1>3, <1>4, <1>5 DEF Enrolled, InUse
  <1>7. Numbered(dead, n) /\ Numbered(e, n)
    BY <1>2, <1>3, <1>4, EmptyDatabaseFacts DEF Numbered, Safe
  <1>8. Safe(dead, n, t) BY <1>3, <1>6, <1>7 DEF Safe
  <1>9. Safe(e, n, t) BY <1>4, <1>6, <1>7 DEF Safe
  <1>10. (SeedOn(c) => SeedOn(dead)) /\ (SeedOn(dead) => SeedOn(e))
    BY <1>1, <1>3, <1>4 DEF SeedOn
  <1>11. Good(c, To(dead, Unsecured(m)), n, t) /\ Last(c, To(dead, Unsecured(m))) = dead
    BY <1>2, <1>8, <1>10, OneWrite
  <1>12. Good(dead, To(e, Unsecured(m)), n, t) /\ Last(dead, To(e, Unsecured(m))) = e
    BY <1>2, <1>9, <1>10, OneWrite
  <1>13. Good(d, us \o To(dead, Unsecured(m)), n, t) /\ Last(d, us \o To(dead, Unsecured(m))) = dead
    BY <1>1, <1>11, ThenWritten DEF c
  <1>14. RevokeWrites(d, m) = (us \o To(dead, Unsecured(m))) \o To(e, Unsecured(m))
    BY DEF RevokeWrites, dead, c, e
  <1>15. Good(d, RevokeWrites(d, m), n, t) /\ Last(d, RevokeWrites(d, m)) = e
    BY <1>12, <1>13, <1>14, ThenWritten
  <1>. QED BY <1>2, <1>3, <1>4, <1>6, <1>9, <1>15
----------------------------------------------------------------------------
(***************************************************************************)
(* What every step has to show.                                            *)
(***************************************************************************)
LEMMA InvFacts ==
  ASSUME KeysInv
  PROVE  /\ now \in Time /\ now \in Nat /\ minted \in Key /\ minted \in Nat
         /\ disk \in Disk /\ mem \in Memory /\ after \in Memory /\ todo \in Seq(Step)
         /\ Idle => Fits(disk, mem) /\ Last(disk, todo) = disk
  <1>1. Idle => Last(disk, todo) = disk /\ mem = after BY DEF Idle, KeysInv, Last
  <1>. QED BY <1>1, NumberTypes DEF KeysInv, TypeOK, Good

LEMMA RunKeeps ==
  ASSUME KeysInv, NEW ws, NEW then \in Memory, Run(ws, then),
         minted' \in Key, minted <= minted', spent' \in Spent,
         Good(disk, ws, minted', now), Fits(Last(disk, ws), then)
  PROVE  KeysInv'
  <1>1. /\ todo' = ws /\ after' = then /\ disk' = disk /\ now' = now /\ given' = given
        /\ seeded' = seeded /\ mem' = IF ws = <<>> THEN then ELSE Head(ws).mem
    BY DEF Run
  <1>2. ws \in Seq(Step) BY DEF Good
  <1>3. ws # <<>> => Head(ws) = ws[1] /\ ws[1] \in Step BY <1>2, HeadTailProperties
  <1>4. mem' = (IF todo' = <<>> THEN after' ELSE todo'[1].mem) BY <1>1, <1>3
  <1>5. mem' \in Memory BY <1>1, <1>3 DEF Step
  <1>6. \A i \in 1..Len(ws) : ws[i] \in Step BY <1>2
  <1>7. now \in Nat /\ minted \in Nat /\ minted' \in Nat BY InvFacts, NumberTypes
  <1>8. TypeOK' BY <1>1, <1>5, <1>6 DEF TypeOK, KeysInv, Key
  <1>9. Safe(disk, minted', now) BY <1>7, SafeLater DEF KeysInv
  <1>10. Safe(disk', minted', now') /\ Good(disk', todo', minted', now')
         /\ Fits(Last(disk', todo'), after')
    BY <1>1, <1>9
  <1>11. given \subseteq 0..minted' BY <1>7 DEF KeysInv
  <1>12. (seeded => SeedOn(disk)) BY DEF KeysInv
  <1>. QED BY <1>1, <1>4, <1>8, <1>10, <1>11, <1>12 DEF KeysInv, SeedOn, Safe, Good, Fits

LEMMA WriteKeeps ==
  ASSUME KeysInv, Write
  PROVE  KeysInv'
  <1> DEFINE e == todo[1].disk
  <1>1. Good(disk, todo, minted, now) /\ todo # <<>> BY DEF Write, Idle, KeysInv
  <1>2. /\ Head(todo) = todo[1] /\ todo[1] \in Step
        /\ Safe(e, minted, now) /\ (SeedOn(disk) => SeedOn(e))
        /\ Good(e, Tail(todo), minted, now) /\ Last(e, Tail(todo)) = Last(disk, todo)
        /\ Tail(todo) = <<>> <=> Len(todo) = 1
        /\ Tail(todo) # <<>> => Tail(todo)[1] = todo[2]
    BY <1>1, FirstWrite
  <1>3. /\ disk' = e /\ todo' = Tail(todo) /\ seeded' = (seeded \/ e.seed)
        /\ mem' = (IF Len(todo) = 1 THEN after ELSE todo[2].mem)
        /\ after' = after /\ now' = now /\ minted' = minted /\ given' = given /\ spent' = spent
    BY <1>2 DEF Write
  <1>4. Tail(todo) \in Seq(Step) BY <1>2 DEF Good
  <1>5. \A i \in 1..Len(Tail(todo)) : Tail(todo)[i] \in Step BY <1>4
  <1>6. Tail(todo) # <<>> => Tail(todo)[1] \in Step BY <1>4, HeadTailProperties
  <1>7. mem' = (IF todo' = <<>> THEN after' ELSE todo'[1].mem) BY <1>2, <1>3
  <1>8. mem' \in Memory BY <1>6, <1>7, <1>3 DEF Step, KeysInv, TypeOK
  <1>9. e \in Disk /\ e.seed \in BOOLEAN BY <1>2 DEF Safe, Disk
  <1>10. TypeOK'
    <2>1. seeded' \in BOOLEAN BY <1>3
    <2>. QED BY <1>3, <1>5, <1>8, <1>9, <2>1 DEF TypeOK, KeysInv, Key
  <1>11. seeded' => SeedOn(e) BY <1>2, <1>3 DEF KeysInv, SeedOn
  <1>12. Fits(Last(disk, todo), after) /\ given \subseteq 0..minted BY DEF KeysInv
  <1>. QED BY <1>2, <1>3, <1>7, <1>10, <1>11, <1>12 DEF KeysInv, SeedOn, Safe, Good, Fits

LEMMA CrashKeeps ==
  ASSUME KeysInv, Crash
  PROVE  KeysInv'
  <1>1. /\ mem' = Down /\ todo' = <<>> /\ after' = Down /\ disk' = disk /\ now' = now
        /\ minted' = minted /\ given' = given /\ seeded' = seeded
        /\ spent' = [spent EXCEPT !.crashes = @ + 1] /\ spent.crashes < MaxCrashes
    BY DEF Crash
  <1>2. spent' \in Spent
    <2>1. spent \in Spent /\ MaxCrashes \in Nat BY KeyBounds DEF KeysInv, TypeOK
    <2>2. spent.crashes + 1 \in 0..MaxCrashes BY <1>1, <2>1 DEF Spent
    <2>. QED BY <1>1, <2>1, <2>2 DEF Spent
  <1>3. Down \in Memory /\ Down.phase = "down"
    <2>1. NoSecrets \in Secrets BY NumberTypes DEF NoSecrets, Secrets
    <2>. QED BY <2>1, NumberTypes DEF Down, Memory
  <1>4. TypeOK' BY <1>1, <1>2, <1>3 DEF TypeOK, KeysInv, Key
  <1>5. Good(disk, <<>>, minted, now) /\ Fits(Last(disk, <<>>), Down)
    BY <1>3, NothingWritten DEF Fits
  <1>6. Safe(disk, minted, now) /\ (seeded => SeedOn(disk)) /\ given \subseteq 0..minted
    BY DEF KeysInv
  <1>. QED BY <1>1, <1>4, <1>5, <1>6 DEF KeysInv, SeedOn, Safe, Good, Fits

LEMMA TickKeeps ==
  ASSUME KeysInv, Tick
  PROVE  KeysInv'
  <1>1. /\ Idle /\ now < MaxTime /\ now' = now + 1 /\ mem' = mem /\ todo' = todo /\ after' = after
        /\ disk' = disk /\ minted' = minted /\ given' = given /\ seeded' = seeded /\ spent' = spent
    BY DEF Tick
  <1>2. now \in Nat /\ minted \in Nat /\ todo = <<>> /\ now' \in Time
    BY <1>1, InvFacts, NumberTypes DEF Idle, Time
  <1>3. TypeOK' BY <1>1, <1>2 DEF TypeOK, KeysInv, Key
  <1>4. Safe(disk, minted, now') BY <1>1, <1>2, SafeLater DEF KeysInv
  <1>5. Good(disk, todo, minted, now') BY <1>2, NothingWritten
  <1>6. Fits(Last(disk, todo), after) /\ (seeded => SeedOn(disk)) /\ given \subseteq 0..minted
        /\ mem = IF todo = <<>> THEN after ELSE todo[1].mem
    BY DEF KeysInv
  <1>. QED BY <1>1, <1>3, <1>4, <1>5, <1>6 DEF KeysInv, SeedOn, Safe, Good, Fits

LEMMA ShareKeeps ==
  ASSUME KeysInv, Share
  PROVE  KeysInv'
  <1>1. /\ given' = given \union Synced /\ mem' = mem /\ todo' = todo /\ after' = after
        /\ disk' = disk /\ minted' = minted /\ now' = now /\ seeded' = seeded /\ spent' = spent
    BY DEF Share
  <1>2. Synced \subseteq 0..minted /\ Synced \subseteq Key
    <2>1. disk.db \in Database BY InvFacts, ReadableTypes
    <2>2. disk.db.enckey.key \in Key /\ disk.db.enckey.key <= minted
      BY <2>1 DEF Database, KeysInv, Safe, Numbered
    <2>3. disk.db.enckey.key \in Nat /\ minted \in Nat BY <2>2, InvFacts, NumberTypes
    <2>4. disk.db.enckey.key \in 0..minted BY <2>2, <2>3
    <2>. QED BY <2>2, <2>4 DEF Synced
  <1>3. TypeOK' BY <1>1, <1>2 DEF TypeOK, KeysInv, Key
  <1>4. Safe(disk, minted, now) /\ Good(disk, todo, minted, now) /\ Fits(Last(disk, todo), after)
        /\ (seeded => SeedOn(disk)) /\ given \union Synced \subseteq 0..minted
        /\ mem = IF todo = <<>> THEN after ELSE todo[1].mem
    BY <1>2 DEF KeysInv
  <1>. QED BY <1>1, <1>3, <1>4 DEF KeysInv, SeedOn, Safe, Good, Fits
----------------------------------------------------------------------------
(***************************************************************************)
(* Enrolling.                                                              *)
(***************************************************************************)
LEMMA DownFacts ==
  /\ Down \in Memory /\ Down.phase = "down" /\ \A d : Fits(d, Down)
  <1>1. NoSecrets \in Secrets BY NumberTypes DEF NoSecrets, Secrets
  <1>2. Down \in Memory /\ Down.phase = "down" BY <1>1, NumberTypes DEF Down, Memory
  <1>. QED BY <1>2 DEF Fits

\* Without app lock, a disk with these keys and a database that holds nothing yet.
LEMMA FreshIsSafe ==
  ASSUME NEW d \in Disk, NEW n \in Nat, NEW t \in Nat,
         d.lock = Absent, d.keys \in KeyFile, d.keys # Absent, d.keys.secrets # Absent,
         d.keys.secrets.device, d.keys.cert => d.keys.secrets.identity,
         d.keys.pub = d.keys.secrets.enc, d.keys.pub <= n,
         \A m \in Msg : d.db.cached[m] = 0 /\ d.db.rows[m] <= n,
         d.db.marked = {}, d.db.enckey.key <= n
  PROVE  Safe(d, n, t)
  <1>1. Readable(d) = d.keys.secrets BY DEF Readable
  <1>2. Numbered(d, n) BY DEF Numbered
  <1>3. Waiting(d) BY DEF Waiting
  <1>4. Enrolled(d) => Serves(Readable(d), d.db, t) BY <1>1 DEF Serves, Enrolled
  <1>5. Halves(d.keys.pub, Readable(d), d.db, t) BY <1>1 DEF Halves
  <1>. QED BY <1>2, <1>3, <1>4, <1>5 DEF Safe, InUse

LEMMA FreshKeysFacts ==
  ASSUME NEW c \in BOOLEAN, minted \in Nat, minted + 2 <= MaxKeys
  PROVE  LET k == FreshKeys(c)
         IN  /\ k \in KeyFile /\ k # Absent /\ k.secrets # Absent /\ (k.cert <=> c)
             /\ k.secrets.device /\ (k.cert => k.secrets.identity) /\ k.pub = k.secrets.enc
             /\ k.pub = minted + 1
  <1> DEFINE s == [device |-> TRUE, identity |-> c, enc |-> minted + 1,
                   retired |-> {}, storage |-> minted + 2]
  <1>1. minted + 1 \in Key /\ minted + 2 \in Key BY KeyBounds DEF Key
  <1>2. s \in Secrets BY <1>1 DEF Secrets
  <1>3. s # Absent BY <1>2, AbsentAssumption
  <1>4. s.device /\ s.identity = c /\ s.enc = minted + 1 OBVIOUS
  <1> HIDE DEF s
  <1>5. FreshKeys(c) = [cert |-> c, pub |-> minted + 1, seq |-> 0, revoked |-> FALSE, secrets |-> s]
    BY DEF FreshKeys, s
  <1>6. FreshKeys(c) \in KeyFile BY <1>1, <1>2, <1>5 DEF KeyFile
  <1>7. FreshKeys(c).secrets = s /\ FreshKeys(c).cert = c /\ FreshKeys(c).pub = minted + 1
    BY <1>5
  <1>8. FreshKeys(c) # Absent BY <1>6, AbsentAssumption
  <1>. QED BY <1>3, <1>4, <1>6, <1>7, <1>8

\* Nothing is locked before the device is enrolled.
LEMMA UnenrolledFacts ==
  ASSUME NEW d, NEW n, NEW t, Safe(d, n, t), ~Enrolled(d)
  PROVE  /\ d \in Disk /\ d.lock = Absent /\ Waiting(d) /\ Numbered(d, n)
         /\ d.db \in Database
  BY ReadableTypes DEF Safe, Sealed

LEMMA CreateKeeps ==
  ASSUME KeysInv, Create
  PROVE  KeysInv'
  <1> DEFINE keys == FreshKeys(TRUE)
             written == WriteKeys(disk, keys)
             noted == [written EXCEPT !.seed = TRUE]
             installed == Install(noted)
             profile == [installed EXCEPT !.db.top = 1]
             saved == WriteKeys(profile, [keys EXCEPT !.seq = 1])
             n == minted'
  <1>1. /\ ~Enrolled(disk) /\ minted + 2 <= MaxKeys /\ minted' = minted + 2 /\ spent' = spent
        /\ Run(To(written, Down) \o To(noted, Down) \o To(installed, Down)
                  \o To(profile, Down) \o To(saved, Down), Down)
    BY DEF Create
  <1>2. now \in Nat /\ minted \in Nat /\ disk \in Disk /\ spent \in Spent
    BY InvFacts DEF KeysInv, TypeOK
  <1>3. n \in Key /\ n \in Nat /\ minted <= n BY <1>1, <1>2, KeyBounds DEF Key
  <1>4. disk.lock = Absent /\ Waiting(disk) /\ Numbered(disk, minted) /\ disk.db \in Database
    BY <1>1, UnenrolledFacts DEF KeysInv
  <1>5. /\ keys \in KeyFile /\ keys # Absent /\ keys.secrets # Absent /\ keys.cert
        /\ keys.secrets.device /\ keys.secrets.identity /\ keys.pub = keys.secrets.enc
        /\ keys.pub = minted + 1 /\ keys.pub <= n
    <2>1. TRUE \in BOOLEAN OBVIOUS
    <2>2. keys.pub = minted + 1 BY <1>1, <1>2, <2>1, FreshKeysFacts
    <2>3. minted + 1 <= n BY <1>1, <1>2
    <2>. QED BY <1>1, <1>2, <2>1, <2>2, <2>3, FreshKeysFacts
  <1> HIDE DEF keys
  <1> DEFINE last == [keys EXCEPT !.seq = 1]
  <1>6. /\ last \in KeyFile /\ last # Absent /\ last.secrets = keys.secrets /\ last.cert
        /\ last.pub = keys.pub
    BY <1>5, AbsentAssumption DEF KeyFile
  <1> HIDE DEF last
  <1>7. /\ \A m \in Msg : disk.db.cached[m] = 0 /\ disk.db.rows[m] <= n
        /\ disk.db.marked = {} /\ disk.db.enckey.key <= n
    <2>1. \A m \in Msg : disk.db.rows[m] \in Nat BY <1>4, NumberTypes DEF Database
    <2>2. disk.db.enckey.key \in Nat BY <1>4, NumberTypes DEF Database
    <2>. QED BY <1>2, <1>3, <1>4, <2>1, <2>2 DEF Waiting, Numbered
  <1>8. /\ written \in Disk /\ written.keys = keys /\ written.lock = Absent
        /\ written.db = disk.db /\ written.seed = disk.seed
    BY <1>2, <1>4, <1>5 DEF WriteKeys, Disk
  <1> HIDE DEF written
  <1>9. /\ noted \in Disk /\ noted.keys = keys /\ noted.lock = Absent
        /\ noted.db = disk.db /\ noted.seed
    BY <1>8 DEF Disk
  <1> HIDE DEF noted
  <1>10. /\ installed \in Disk /\ installed.keys = keys /\ installed.lock = Absent
         /\ installed.db = [disk.db EXCEPT !.own = TRUE] /\ installed.seed
    BY <1>4, <1>9 DEF Disk, Database, Install
  <1>11. installed.db \in Database BY <1>4, <1>10 DEF Database
  <1> HIDE DEF installed
  <1>12. /\ profile \in Disk /\ profile.keys = keys /\ profile.lock = Absent
         /\ profile.db = [installed.db EXCEPT !.top = 1] /\ profile.seed
    BY <1>10, <1>11 DEF Disk, Database
  <1> HIDE DEF profile
  <1>13. /\ saved \in Disk /\ saved.keys = last /\ saved.lock = Absent
         /\ saved.db = profile.db /\ saved.seed
    BY <1>6, <1>12 DEF Disk, WriteKeys, last
  <1> HIDE DEF saved
  <1>14. /\ installed.db.rows = disk.db.rows /\ installed.db.cached = disk.db.cached
         /\ installed.db.marked = disk.db.marked /\ installed.db.enckey = disk.db.enckey
         /\ profile.db.rows = disk.db.rows /\ profile.db.cached = disk.db.cached
         /\ profile.db.marked = disk.db.marked /\ profile.db.enckey = disk.db.enckey
    BY <1>4, <1>10, <1>11, <1>12 DEF Database
  <1>15. Safe(written, n, now) BY <1>2, <1>3, <1>5, <1>7, <1>8, FreshIsSafe
  <1>16. Safe(noted, n, now) BY <1>2, <1>3, <1>5, <1>7, <1>9, FreshIsSafe
  <1>17. Safe(installed, n, now) BY <1>2, <1>3, <1>5, <1>7, <1>10, <1>14, FreshIsSafe
  <1>18. Safe(profile, n, now) BY <1>2, <1>3, <1>5, <1>7, <1>12, <1>14, FreshIsSafe
  <1>19. Safe(saved, n, now)
    BY <1>2, <1>3, <1>5, <1>6, <1>7, <1>13, <1>14, FreshIsSafe
  <1>20. /\ SeedOn(disk) => SeedOn(written)
         /\ SeedOn(noted) /\ SeedOn(installed) /\ SeedOn(profile) /\ SeedOn(saved)
    BY <1>4, <1>8, <1>9, <1>10, <1>12, <1>13 DEF SeedOn
  <1>21. /\ Good(disk, To(written, Down), n, now) /\ Last(disk, To(written, Down)) = written
         /\ Good(written, To(noted, Down), n, now) /\ Last(written, To(noted, Down)) = noted
         /\ Good(noted, To(installed, Down), n, now) /\ Last(noted, To(installed, Down)) = installed
         /\ Good(installed, To(profile, Down), n, now)
         /\ Last(installed, To(profile, Down)) = profile
         /\ Good(profile, To(saved, Down), n, now) /\ Last(profile, To(saved, Down)) = saved
    BY <1>15, <1>16, <1>17, <1>18, <1>19, <1>20, DownFacts, OneWrite
  <1> DEFINE w2 == To(written, Down) \o To(noted, Down)
             w3 == w2 \o To(installed, Down)
             w4 == w3 \o To(profile, Down)
             w5 == w4 \o To(saved, Down)
  <1>22. Good(disk, w2, n, now) /\ Last(disk, w2) = noted BY <1>21, ThenWritten
  <1> HIDE DEF w2
  <1>23. Good(disk, w3, n, now) /\ Last(disk, w3) = installed BY <1>21, <1>22, ThenWritten
  <1> HIDE DEF w3
  <1>24. Good(disk, w4, n, now) /\ Last(disk, w4) = profile BY <1>21, <1>23, ThenWritten
  <1> HIDE DEF w4
  <1>25. Good(disk, w5, n, now) BY <1>21, <1>24, ThenWritten
  <1>26. Run(w5, Down) BY <1>1 DEF w2, w3, w4
  <1> HIDE DEF w5
  <1>. QED BY <1>1, <1>2, <1>3, <1>25, <1>26, DownFacts, RunKeeps

LEMMA PairRequestKeeps ==
  ASSUME KeysInv, PairRequest
  PROVE  KeysInv'
  <1> DEFINE keys == FreshKeys(FALSE)
             written == WriteKeys(disk, keys)
             n == minted'
  <1>1. /\ ~Enrolled(disk) /\ minted + 2 <= MaxKeys /\ minted' = minted + 2 /\ spent' = spent
        /\ Run(To(written, Down), Down)
    BY DEF PairRequest
  <1>2. now \in Nat /\ minted \in Nat /\ disk \in Disk /\ spent \in Spent
    BY InvFacts DEF KeysInv, TypeOK
  <1>3. n \in Key /\ n \in Nat /\ minted <= n BY <1>1, <1>2, KeyBounds DEF Key
  <1>4. disk.lock = Absent /\ Waiting(disk) /\ Numbered(disk, minted) /\ disk.db \in Database
    BY <1>1, UnenrolledFacts DEF KeysInv
  <1>5. /\ keys \in KeyFile /\ keys # Absent /\ keys.secrets # Absent /\ ~keys.cert
        /\ keys.secrets.device /\ keys.pub = keys.secrets.enc
        /\ keys.pub = minted + 1 /\ keys.pub <= n
    <2>1. FALSE \in BOOLEAN OBVIOUS
    <2>2. keys.pub = minted + 1 BY <1>1, <1>2, <2>1, FreshKeysFacts
    <2>3. minted + 1 <= n BY <1>1, <1>2
    <2>. QED BY <1>1, <1>2, <2>1, <2>2, <2>3, FreshKeysFacts
  <1> HIDE DEF keys
  <1>6. /\ \A m \in Msg : disk.db.cached[m] = 0 /\ disk.db.rows[m] <= n
        /\ disk.db.marked = {} /\ disk.db.enckey.key <= n
    <2>1. \A m \in Msg : disk.db.rows[m] \in Nat BY <1>4, NumberTypes DEF Database
    <2>2. disk.db.enckey.key \in Nat BY <1>4, NumberTypes DEF Database
    <2>. QED BY <1>2, <1>3, <1>4, <2>1, <2>2 DEF Waiting, Numbered
  <1>7. /\ written \in Disk /\ written.keys = keys /\ written.lock = Absent
        /\ written.db = disk.db /\ written.seed = disk.seed
    BY <1>2, <1>4, <1>5 DEF WriteKeys, Disk
  <1> HIDE DEF written
  <1>8. Safe(written, n, now) BY <1>2, <1>3, <1>5, <1>6, <1>7, FreshIsSafe
  <1>9. SeedOn(disk) => SeedOn(written) BY <1>4, <1>7 DEF SeedOn
  <1>10. Good(disk, To(written, Down), n, now) BY <1>8, <1>9, DownFacts, OneWrite
  <1>. QED BY <1>1, <1>2, <1>3, <1>10, DownFacts, RunKeeps

LEMMA PairInstallKeeps ==
  ASSUME KeysInv, PairInstall
  PROVE  KeysInv'
  <1> DEFINE keys == [disk.keys EXCEPT !.cert = TRUE, !.secrets.identity = TRUE]
             written == WriteKeys(disk, keys)
             installed == Install(written)
             n == minted'
  <1>1. /\ disk.keys # Absent /\ ~disk.keys.cert /\ minted' = minted /\ spent' = spent
        /\ Run(To(written, Down) \o To(installed, Down), Down)
    BY DEF PairInstall
  <1>2. now \in Nat /\ minted \in Nat /\ minted \in Key /\ disk \in Disk /\ spent \in Spent
    BY InvFacts DEF KeysInv, TypeOK
  <1>3. disk.lock = Absent /\ Waiting(disk) /\ Numbered(disk, minted) /\ disk.db \in Database
    BY <1>1, UnenrolledFacts DEF KeysInv, Enrolled
  <1>4. /\ disk.keys \in KeyFile /\ disk.keys.secrets # Absent /\ disk.keys.secrets \in Secrets
        /\ disk.keys.secrets.device /\ disk.keys.pub = disk.keys.secrets.enc
        /\ disk.keys.pub <= minted
    BY <1>1, <1>2, <1>3, ReadableTypes DEF Waiting, Numbered
  <1> DEFINE s == [disk.keys.secrets EXCEPT !.identity = TRUE]
  <1>5. s \in Secrets /\ s.device /\ s.identity /\ s.enc = disk.keys.pub /\ s # Absent
    BY <1>4, AbsentAssumption DEF Secrets
  <1>6. keys = [disk.keys EXCEPT !.cert = TRUE, !.secrets = s] BY <1>4 DEF KeyFile
  <1> HIDE DEF s, keys
  <1>7. keys \in KeyFile /\ keys # Absent /\ keys.secrets = s /\ keys.pub = disk.keys.pub
        /\ keys.cert
    BY <1>4, <1>5, <1>6, AbsentAssumption DEF KeyFile
  <1>8. /\ written \in Disk /\ written.keys = keys /\ written.lock = Absent
        /\ written.db = disk.db /\ written.seed = disk.seed
    BY <1>2, <1>3, <1>7 DEF WriteKeys, Disk
  <1> HIDE DEF written
  <1>9. /\ installed \in Disk /\ installed.keys = keys /\ installed.lock = Absent
        /\ installed.db = [disk.db EXCEPT !.own = TRUE] /\ installed.seed = disk.seed
    BY <1>3, <1>8 DEF Disk, Database, Install
  <1> HIDE DEF installed
  <1>10. /\ installed.db.rows = disk.db.rows /\ installed.db.cached = disk.db.cached
         /\ installed.db.marked = disk.db.marked /\ installed.db.enckey = disk.db.enckey
    BY <1>3, <1>9 DEF Database
  <1>11. /\ \A m \in Msg : disk.db.cached[m] = 0 /\ disk.db.rows[m] <= minted
         /\ disk.db.marked = {} /\ disk.db.enckey.key <= minted
    BY <1>3 DEF Waiting, Numbered
  <1>12. Safe(written, minted, now) BY <1>2, <1>4, <1>5, <1>7, <1>8, <1>11, FreshIsSafe
  <1>13. Safe(installed, minted, now)
    BY <1>2, <1>4, <1>5, <1>7, <1>9, <1>10, <1>11, FreshIsSafe
  <1>14. (SeedOn(disk) => SeedOn(written)) /\ (SeedOn(written) => SeedOn(installed))
    BY <1>3, <1>8, <1>9 DEF SeedOn
  <1>15. /\ Good(disk, To(written, Down), minted, now) /\ Last(disk, To(written, Down)) = written
         /\ Good(written, To(installed, Down), minted, now)
    BY <1>12, <1>13, <1>14, DownFacts, OneWrite
  <1>16. Good(disk, To(written, Down) \o To(installed, Down), minted, now)
    BY <1>15, ThenWritten
  <1>. QED BY <1>1, <1>2, <1>16, DownFacts, RunKeeps
----------------------------------------------------------------------------
(***************************************************************************)
(* Starting and unlocking.                                                 *)
(***************************************************************************)
LEMMA BootLockedKeeps ==
  ASSUME KeysInv, BootLocked
  PROVE  KeysInv'
  <1> DEFINE m == LockedNode(disk)
             bare == IF disk.keys.secrets = Absent THEN <<>>
                     ELSE To(WriteKeys(disk, NonSecret(disk.keys)), m)
             c == Last(disk, bare)
             e == [c EXCEPT !.seed = FALSE]
             rest == IF c.seed THEN To(e, m) ELSE <<>>
             z == Last(c, rest)
  <1>1. /\ Enrolled(disk) /\ disk.lock # Absent /\ minted' = minted /\ spent' = spent
        /\ Run(Scrub(disk, m), m)
    BY DEF BootLocked
  <1>2. now \in Nat /\ minted \in Nat /\ minted \in Key /\ disk \in Disk /\ spent \in Spent
        /\ Safe(disk, minted, now)
    BY InvFacts DEF KeysInv, TypeOK
  <1>3. disk.keys \in KeyFile /\ disk.keys # Absent /\ Sealed(disk) /\ disk.keys.cert
    BY <1>1, <1>2, ReadableTypes DEF Enrolled, Safe
  <1>4. /\ m \in Memory /\ m.applock /\ m.locked /\ ~m.revoked
    <2>1. ~disk.keys.revoked /\ disk.keys.pub \in Key /\ disk.keys.seq \in Nat
          /\ disk.keys.revoked \in BOOLEAN
      BY <1>3 DEF Sealed, KeyFile
    <2>. QED BY <2>1, DownFacts DEF LockedNode, Memory
  <1> HIDE DEF m
  <1>5. /\ Good(disk, bare, minted, now) /\ Safe(c, minted, now) /\ c \in Disk
        /\ c.lock = disk.lock /\ c.keys # Absent /\ c.keys.secrets = Absent /\ Enrolled(c)
        /\ c.seed = disk.seed
    <2>1. CASE disk.keys.secrets = Absent
      <3>1. bare = <<>> BY <2>1
      <3> HIDE DEF bare
      <3>. QED BY <1>1, <1>2, <1>3, <2>1, <3>1, NothingWritten
    <2>2. CASE disk.keys.secrets # Absent
      <3> DEFINE w == WriteKeys(disk, NonSecret(disk.keys))
      <3>1. NonSecret(disk.keys) \in KeyFile /\ NonSecret(disk.keys).secrets = Absent
            /\ NonSecret(disk.keys).pub = disk.keys.pub /\ NonSecret(disk.keys).cert
            /\ ~NonSecret(disk.keys).revoked
        BY <1>3 DEF NonSecret, KeyFile, Sealed
      <3>2. /\ w \in Disk /\ w.keys = NonSecret(disk.keys) /\ w.lock = disk.lock
            /\ w.db = disk.db /\ w.seed = disk.seed
        BY <1>2, <3>1 DEF WriteKeys, Disk
      <3>3. bare = To(w, m) BY <2>2
      <3> HIDE DEF w, bare
      <3>4. w.keys # Absent BY <3>1, <3>2, AbsentAssumption
      <3>5. Enrolled(w) /\ Sealed(w) BY <1>3, <3>1, <3>2, <3>4 DEF Enrolled, Sealed
      <3>6. Readable(w) = Readable(disk) BY <1>1, <3>2 DEF Readable
      <3>7. InUse(w) <=> InUse(disk) BY <1>1, <1>3, <3>1, <3>2, <3>5 DEF InUse, Sealed
      <3>8. Numbered(w, minted) BY <1>2, <1>3, <3>1, <3>2 DEF Numbered, Safe
      <3>9. Safe(w, minted, now)
        BY <1>2, <3>1, <3>2, <3>5, <3>6, <3>7, <3>8 DEF Safe
      <3>10. SeedOn(disk) => SeedOn(w) BY <3>2 DEF SeedOn
      <3>11. Good(disk, bare, minted, now) /\ c = w BY <1>4, <3>3, <3>9, <3>10, OneWrite
      <3> HIDE DEF c
      <3>. QED BY <3>1, <3>2, <3>4, <3>5, <3>9, <3>11
    <2>. QED BY <2>1, <2>2
  <1>6. Scrub(disk, m) = bare \o rest BY DEF Scrub, m
  <1> HIDE DEF bare, c
  <1>7. /\ Good(c, rest, minted, now) /\ Enrolled(z) /\ z.lock = disk.lock
        /\ z.keys.secrets = Absent /\ ~z.seed
    <2>1. CASE ~c.seed
      <3>1. rest = <<>> BY <2>1
      <3> HIDE DEF rest
      <3>. QED BY <1>5, <2>1, <3>1, NothingWritten
    <2>2. CASE c.seed
      <3>1. e \in Disk /\ e.keys = c.keys /\ e.lock = c.lock /\ e.db = c.db /\ ~e.seed
        BY <1>5 DEF Disk
      <3>2. rest = To(e, m) BY <2>2
      <3> HIDE DEF rest, e
      <3>3. Enrolled(e) /\ Readable(e) = Readable(c) /\ (InUse(e) <=> InUse(c))
        BY <1>5, <3>1 DEF Enrolled, Readable, InUse
      <3>4. Sealed(c) BY <1>1, <1>5 DEF Safe
      <3>5. Sealed(e) BY <3>1, <3>3, <3>4 DEF Sealed
      <3>6. Numbered(e, minted) BY <1>5, <3>1 DEF Numbered, Safe
      <3>7. Safe(e, minted, now) BY <1>5, <3>1, <3>3, <3>5, <3>6 DEF Safe
      <3>8. SeedOn(e) BY <1>1, <1>5, <2>2, <3>1, <3>4 DEF SeedOn, Sealed
      <3>9. Good(c, rest, minted, now) /\ z = e BY <1>4, <3>2, <3>7, <3>8, OneWrite
      <3> HIDE DEF z
      <3>. QED BY <1>5, <3>1, <3>3, <3>9
    <2>. QED BY <2>1, <2>2
  <1> HIDE DEF rest
  <1>8. Good(disk, Scrub(disk, m), minted, now) /\ Last(disk, Scrub(disk, m)) = z
    BY <1>5, <1>6, <1>7, ThenWritten DEF c
  <1> HIDE DEF z
  <1>9. Fits(z, m) BY <1>1, <1>4, <1>7 DEF Fits
  <1>. QED BY <1>1, <1>2, <1>4, <1>8, <1>9, RunKeeps

LEMMA PinnedFacts ==
  ASSUME NEW s \in Secrets, NEW k \in Key
  PROVE  LET p == IF NeedsStorage(s) THEN [s EXCEPT !.storage = k] ELSE s
         IN  /\ p \in Secrets /\ p.enc = s.enc
             /\ \A db, t : Serves(s, db, t) => Serves(p, db, t)
             /\ \A x, db, t : Halves(x, s, db, t) => Halves(x, p, db, t)
  <1>1. CASE ~NeedsStorage(s) BY <1>1
  <1>2. CASE NeedsStorage(s)
    <2> DEFINE p == [s EXCEPT !.storage = k]
    <2>1. p \in Secrets /\ p.enc = s.enc /\ p.device = s.device /\ p.identity = s.identity
          /\ p.retired = s.retired /\ p.storage = k
      BY DEF Secrets
    <2>2. s.storage = 0 BY <1>2 DEF NeedsStorage
    <2> HIDE DEF p
    <2>3. \A db, t : Serves(s, db, t) => Serves(p, db, t) BY <2>1, <2>2 DEF Serves
    <2>4. \A x, db, t : Halves(x, s, db, t) => Halves(x, p, db, t) BY <2>1 DEF Halves
    <2>. QED BY <1>2, <2>1, <2>3, <2>4 DEF p
  <1>. QED BY <1>1, <1>2

\* What follows once the secrets of the disk are in memory, the storage key pinned.
LEMMA UnsealGood ==
  ASSUME NEW d, NEW m \in Memory, NEW n \in Nat, NEW t \in Nat, NEW k \in Key, Safe(d, n, t),
         Enrolled(d), m.phase # "down", ~m.locked, ~m.kept, m.revoked = d.keys.revoked,
         m.secrets = IF NeedsStorage(Readable(d)) THEN [Readable(d) EXCEPT !.storage = k]
                     ELSE Readable(d),
         m.pub = d.keys.pub,
         m.applock <=> d.lock # Absent,
         m.applock => /\ d.keys.secrets = Absent /\ ~d.seed
                      /\ m.master = d.lock.master /\ m.seed = d.lock.seed
  PROVE  LET ws == Unsealed(d, m, Readable(d))
             e == Last(d, ws)
         IN  /\ Good(d, ws, n, t) /\ Safe(e, n, t)
             /\ UnsealedNode(d, m) \in Memory /\ Fits(e, UnsealedNode(d, m))
  <1> DEFINE ws == Unsealed(d, m, Readable(d))
             e == Last(d, ws)
  <1>1. d \in Disk /\ Readable(d) \in Secrets BY ReadableTypes DEF Safe
  <1>2. m.pub <= n BY DEF Safe, Numbered, Enrolled
  <1>3. CASE m.revoked
    <2>1. ws = <<>> /\ UnsealedNode(d, m) = m BY <1>3 DEF Unsealed, UnsealedNode
    <2>2. ~m.applock BY <1>3 DEF Safe, Sealed
    <2>3. Fits(d, m) BY <1>3, <2>2 DEF Fits
    <2>. QED BY <2>1, <2>3, NothingWritten
  <1>4. CASE ~m.revoked /\ d.db.revoked
    <2>1. ws = RevokeWrites(d, m) /\ UnsealedNode(d, m) = Revoked(m)
      BY <1>4 DEF Unsealed, UnsealedNode
    <2>2. /\ Good(d, ws, n, t) /\ Safe(e, n, t)
          /\ e.lock = Absent /\ Enrolled(e) /\ e.keys.revoked
      BY <1>2, <1>4, <2>1, RevokeGood
    <2>3. Revoked(m) \in Memory /\ Revoked(m).revoked /\ ~Revoked(m).locked /\ ~Revoked(m).applock
      BY RevokedTypes
    <2> HIDE DEF e, ws
    <2>4. Fits(e, Revoked(m)) BY <2>2, <2>3 DEF Fits
    <2>. QED BY <2>1, <2>2, <2>3, <2>4 DEF e, ws
  <1>5. CASE ~m.revoked /\ ~d.db.revoked
    <2>1. InUse(d) BY <1>5 DEF InUse
    <2>2. Serves(Readable(d), d.db, t) /\ Halves(d.keys.pub, Readable(d), d.db, t)
      BY <2>1 DEF Safe
    <2>3. Serves(m.secrets, d.db, t) /\ Halves(m.pub, m.secrets, d.db, t)
      BY <1>1, <2>2, PinnedFacts
    <2>4. Attached(d, m) BY <1>5 DEF Attached
    <2>5. UnsealedNode(d, m) = m BY <1>5 DEF UnsealedNode
    <2>6. Good(d, ws, n, t) /\ Safe(e, n, t) /\ Holds(e, m)
      <3>1. CASE NeedsStorage(Readable(d))
        <4>1. ws = SaveKeys(d, m) BY <1>5, <3>1 DEF Unsealed
        <4>2. Savable(d, m, n, t) BY <1>2, <2>3, <2>4 DEF Savable
        <4>. QED BY <4>1, <4>2, SaveKeysGood
      <3>2. CASE ~NeedsStorage(Readable(d))
        <4>1. ws = <<>> BY <1>5, <3>2 DEF Unsealed
        <4>2. Holds(d, m) BY <2>4, <3>2 DEF Holds
        <4>. QED BY <4>1, <4>2, NothingWritten
      <3>. QED BY <3>1, <3>2
    <2> HIDE DEF e, ws
    <2>7. Fits(e, m) BY <1>5, <2>6 DEF Fits, Holds, Attached
    <2>. QED BY <2>5, <2>6, <2>7 DEF e, ws
  <1>. QED BY <1>3, <1>4, <1>5

LEMMA MintFacts ==
  ASSUME KeysInv, NEW secrets, Mints(secrets)
  PROVE  LET k == IF NeedsStorage(secrets) THEN minted + 1 ELSE 0
         IN  /\ minted' \in Key /\ minted' \in Nat /\ minted <= minted' /\ k \in Key
             /\ Pinned(secrets) = IF NeedsStorage(secrets) THEN [secrets EXCEPT !.storage = k]
                                  ELSE secrets
  <1>1. minted \in Nat /\ minted \in Key /\ MaxKeys \in Nat BY InvFacts, NumberTypes
  <1>. QED BY <1>1 DEF Mints, Key, Pinned

LEMMA BootKeeps ==
  ASSUME KeysInv, Boot
  PROVE  KeysInv'
  <1> DEFINE s == disk.keys.secrets
             m == [Down EXCEPT !.phase = "starting", !.revoked = disk.keys.revoked,
                               !.secrets = Pinned(s), !.pub = disk.keys.pub,
                               !.seq = disk.keys.seq]
             k == IF NeedsStorage(s) THEN minted + 1 ELSE 0
             n == minted'
  <1>1. /\ Enrolled(disk) /\ disk.lock = Absent /\ s # Absent /\ Mints(s) /\ spent' = spent
        /\ Run(Unsealed(disk, m, s), UnsealedNode(disk, m))
    BY DEF Boot
  <1>2. now \in Nat /\ disk \in Disk /\ spent \in Spent /\ minted \in Nat
        /\ Safe(disk, minted, now)
    BY InvFacts DEF KeysInv, TypeOK
  <1>3. /\ n \in Key /\ n \in Nat /\ minted <= n /\ k \in Key
        /\ Pinned(s) = IF NeedsStorage(s) THEN [s EXCEPT !.storage = k] ELSE s
    BY <1>1, MintFacts
  <1>4. disk.keys \in KeyFile /\ s \in Secrets BY <1>1, <1>2, ReadableTypes DEF Enrolled
  <1>5. Readable(disk) = s BY <1>1 DEF Readable, Enrolled
  <1>6. Pinned(s) \in Secrets BY <1>3, <1>4 DEF Secrets
  <1>7. /\ m \in Memory /\ m.phase = "starting" /\ ~m.locked /\ ~m.kept /\ ~m.applock
        /\ m.revoked = disk.keys.revoked /\ m.secrets = Pinned(s) /\ m.pub = disk.keys.pub
    <2>1. disk.keys.revoked \in BOOLEAN /\ disk.keys.pub \in Key /\ disk.keys.seq \in Nat
      BY <1>4 DEF KeyFile
    <2>. QED BY <1>6, <2>1, DownFacts DEF Down, Memory
  <1> HIDE DEF m, k, s
  <1>8. Safe(disk, n, now) BY <1>2, <1>3, SafeLater
  <1>9. /\ Good(disk, Unsealed(disk, m, s), n, now)
        /\ UnsealedNode(disk, m) \in Memory
        /\ Fits(Last(disk, Unsealed(disk, m, s)), UnsealedNode(disk, m))
    BY <1>1, <1>2, <1>3, <1>5, <1>7, <1>8, UnsealGood
  <1>10. spent' \in Spent BY <1>1, <1>2
  <1>. QED BY <1>1, <1>3, <1>9, <1>10, RunKeeps

\* A write that touches nothing in the database but rows, the cache and its marks.
LEMMA DbWrite ==
  ASSUME NEW d, NEW n \in Nat, NEW t \in Nat, Safe(d, n, t), Enrolled(d), NEW e \in Disk,
         e.keys = d.keys, e.lock = d.lock, e.seed = d.seed,
         e.db.enckey = d.db.enckey, e.db.revoked = d.db.revoked,
         \A m \in Msg : e.db.rows[m] <= n,
         InUse(d) => Serves(Readable(d), e.db, t)
  PROVE  /\ Safe(e, n, t) /\ (SeedOn(d) => SeedOn(e))
         /\ \A m : Fits(d, m) => Fits(e, m)
  <1>1. Readable(e) = Readable(d) /\ Enrolled(e) /\ (InUse(e) <=> InUse(d))
        /\ (SeedOn(d) => SeedOn(e)) /\ (Sealed(d) <=> Sealed(e))
    BY DEF Readable, Enrolled, InUse, SeedOn, Sealed
  <1>2. InUse(e) => Halves(e.keys.pub, Readable(e), e.db, t)
    BY <1>1 DEF Safe, Halves
  <1>3. Numbered(e, n) BY DEF Safe, Numbered
  <1>4. Safe(e, n, t) BY <1>1, <1>2, <1>3 DEF Safe
  <1>5. \A m : Attached(d, m) => Attached(e, m) BY <1>1 DEF Attached
  <1>6. \A m : Holds(d, m) => Holds(e, m) BY <1>1, <1>5 DEF Holds
  <1>7. \A m : Fits(d, m) => Fits(e, m) BY <1>1, <1>6 DEF Fits
  <1>. QED BY <1>1, <1>4, <1>7

LEMMA UnlockKeeps ==
  ASSUME KeysInv, NEW c \in Credential, Unlock(c)
  PROVE  KeysInv'
  <1> DEFINE s == disk.lock.secrets
             m == [mem EXCEPT !.locked = FALSE, !.secrets = Pinned(s),
                              !.seed = disk.lock.seed, !.master = disk.lock.master,
                              !.pub = disk.keys.pub, !.seq = disk.keys.seq, !.kept = FALSE]
             ws == Unsealed(disk, m, s)
             e == Last(disk, ws)
             z == [e EXCEPT !.db.marked = {}]
             k == IF NeedsStorage(s) THEN minted + 1 ELSE 0
             n == minted'
             then == UnsealedNode(disk, m)
  <1>1. /\ Serving /\ mem.applock /\ mem.locked /\ Mints(s) /\ spent' = spent
        /\ Run(ws \o To(z, then), then)
    BY DEF Unlock
  <1>2. now \in Nat /\ disk \in Disk /\ spent \in Spent /\ minted \in Nat /\ mem \in Memory
        /\ Safe(disk, minted, now) /\ Fits(disk, mem)
    BY <1>1, InvFacts DEF KeysInv, TypeOK, Serving
  <1>3. /\ n \in Key /\ n \in Nat /\ minted <= n /\ k \in Key
        /\ Pinned(s) = IF NeedsStorage(s) THEN [s EXCEPT !.storage = k] ELSE s
    BY <1>1, MintFacts
  <1>4. /\ Enrolled(disk) /\ disk.lock # Absent /\ disk.keys.secrets = Absent /\ ~disk.seed
        /\ (mem.revoked => disk.keys.revoked) /\ Sealed(disk)
    BY <1>1, <1>2 DEF Fits, Serving, Safe
  <1>5. disk.keys \in KeyFile /\ disk.lock \in LockFile /\ s \in Secrets
    BY <1>2, <1>4, ReadableTypes DEF Enrolled, LockFile
  <1>6. Readable(disk) = s BY <1>4 DEF Readable, Sealed
  <1>7. Pinned(s) \in Secrets BY <1>3, <1>5 DEF Secrets
  <1>8. /\ m \in Memory /\ m.phase = "serving" /\ ~m.locked /\ ~m.kept /\ m.applock
        /\ m.revoked = disk.keys.revoked /\ m.secrets = Pinned(s) /\ m.pub = disk.keys.pub
        /\ m.master = disk.lock.master /\ m.seed = disk.lock.seed
    <2>1. disk.keys.revoked = FALSE /\ disk.keys.pub \in Key /\ disk.keys.seq \in Nat
          /\ disk.lock.master \in 0..2 /\ disk.lock.seed \in BOOLEAN /\ mem.revoked = FALSE
      BY <1>2, <1>4, <1>5 DEF KeyFile, LockFile, Sealed, Memory
    <2>. QED BY <1>1, <1>2, <1>7, <2>1 DEF Memory, Serving
  <1> HIDE DEF m, k, s
  <1>9. Safe(disk, n, now) BY <1>2, <1>3, SafeLater
  <1>10. /\ Good(disk, ws, n, now) /\ then \in Memory /\ Fits(e, then) /\ Safe(e, n, now)
    BY <1>2, <1>3, <1>4, <1>6, <1>8, <1>9, UnsealGood
  <1>11. then.phase # "down"
    BY <1>8, RevokedTypes DEF UnsealedNode
  <1> HIDE DEF ws, e, then
  <1>12. Enrolled(e) BY <1>10, <1>11 DEF Fits
  <1>13. e \in Disk /\ e.db \in Database BY <1>10, ReadableTypes DEF Safe
  <1>14. /\ z \in Disk /\ z.keys = e.keys /\ z.lock = e.lock /\ z.seed = e.seed
         /\ z.db.enckey = e.db.enckey /\ z.db.revoked = e.db.revoked
         /\ z.db.rows = e.db.rows /\ z.db.cached = e.db.cached /\ z.db.marked = {}
    BY <1>13 DEF Disk, Database
  <1> HIDE DEF z
  <1>15. \A x \in Msg : z.db.rows[x] <= n BY <1>10, <1>14 DEF Safe, Numbered
  <1>16. InUse(e) => Serves(Readable(e), z.db, now) BY <1>10, <1>14 DEF Safe, Serves
  <1>17. Safe(z, n, now) /\ (SeedOn(e) => SeedOn(z)) /\ Fits(z, then)
    BY <1>2, <1>3, <1>10, <1>12, <1>14, <1>15, <1>16, DbWrite
  <1>18. Good(e, To(z, then), n, now) /\ Last(e, To(z, then)) = z BY <1>10, <1>17, OneWrite
  <1>19. Good(disk, ws \o To(z, then), n, now) /\ Last(disk, ws \o To(z, then)) = z
    BY <1>10, <1>18, ThenWritten DEF e
  <1>20. Fits(Last(disk, ws \o To(z, then)), then) BY <1>17, <1>19
  <1>21. Run(ws \o To(z, then), then) /\ spent' \in Spent
    BY <1>1, <1>2 DEF z, ws, e, then, m, s
  <1>. QED BY <1>3, <1>10, <1>19, <1>20, <1>21, RunKeeps
----------------------------------------------------------------------------
(***************************************************************************)
(* Serving.                                                                *)
(***************************************************************************)
LEMMA RotationFacts ==
  ASSUME KeysInv, NEW r \in BOOLEAN, Mint(r)
  PROVE  LET key == IF r THEN minted + 1 ELSE 0
         IN  /\ minted' \in Key /\ minted' \in Nat /\ minted <= minted' /\ key \in Key
             /\ r => key = minted + 1 /\ Numbered(disk, key - 1) /\ key <= minted'
  <1>1. minted \in Nat /\ minted \in Key /\ MaxKeys \in Nat BY InvFacts, NumberTypes
  <1>2. Numbered(disk, minted) BY DEF KeysInv, Safe
  <1>3. CASE r
    <2>1. minted < MaxKeys /\ minted' = minted + 1 BY <1>3 DEF Mint
    <2>2. minted + 1 \in Key /\ (minted + 1) - 1 = minted BY <1>1, <2>1 DEF Key
    <2>. QED BY <1>1, <1>2, <1>3, <2>1, <2>2
  <1>4. CASE ~r BY <1>1, <1>4, NumberTypes DEF Mint
  <1>. QED BY <1>3, <1>4

\* The phase and the kept flag of a node object do not decide what it holds.
LEMMA FlagsFit ==
  ASSUME NEW e, NEW k \in Memory, Holds(e, k), NEW phase \in {"down", "starting", "serving"},
         NEW kept \in BOOLEAN, kept => e.db.enckey.key = k.secrets.enc
  PROVE  LET m == [k EXCEPT !.phase = phase, !.kept = kept]
         IN  m \in Memory /\ Fits(e, m)
  <1> DEFINE m == [k EXCEPT !.phase = phase, !.kept = kept]
  <1>1. /\ m \in Memory /\ m.applock = k.applock /\ m.locked = k.locked /\ m.revoked = k.revoked
        /\ m.secrets = k.secrets /\ m.pub = k.pub /\ m.master = k.master /\ m.seed = k.seed
        /\ m.kept = kept
    BY DEF Memory
  <1> HIDE DEF m
  <1>2. Attached(e, k) BY DEF Holds
  <1>3. Attached(e, m) BY <1>1, <1>2 DEF Attached
  <1>4. Holds(e, m) BY <1>1, <1>3 DEF Holds
  <1>5. Fits(e, m) BY <1>1, <1>3, <1>4 DEF Fits, Attached
  <1>. QED BY <1>1, <1>5 DEF m

LEMMA KeyNotUsed ==
  ASSUME NEW d, NEW m, NEW key, NEW other, Rotates(d, m) => key = other
  PROVE  /\ MaintainWrites(d, m, key) = MaintainWrites(d, m, other)
         /\ Maintained(d, m, key) = Maintained(d, m, other)
  BY DEF MaintainWrites, Maintained

LEMMA KeptFlag ==
  ASSUME NEW d, NEW m \in Memory, NEW b \in BOOLEAN, NEW key \in Key, now \in Time
  PROVE  LET k == [m EXCEPT !.kept = b]
         IN  /\ k \in Memory
             /\ Maintained(d, k, key) = [Maintained(d, m, key) EXCEPT !.kept = b]
             /\ Maintained(d, m, key) \in Memory
             /\ Rotates(d, k) <=> Rotates(d, m)
             /\ Rejected(d, k) <=> Rejected(d, m)
  <1> DEFINE k == [m EXCEPT !.kept = b]
  <1>1. /\ k \in Memory /\ k.secrets = m.secrets /\ k.pub = m.pub /\ k.seq = m.seq
    BY DEF Memory
  <1>2. Kept(m) \in Memory BY KeptFacts
  <1>3. Kept(k) = [Kept(m) EXCEPT !.kept = b]
    <2>1. Kept(k) = [k EXCEPT !.secrets = Pruned(m.secrets)] BY <1>1 DEF Kept
    <2>2. Kept(m) = [m EXCEPT !.secrets = Pruned(m.secrets)] BY DEF Kept
    <2>. QED BY <2>1, <2>2 DEF Memory
  <1>4. ASSUME NEW x \in Memory
        PROVE  /\ Signed(x) \in Memory
               /\ Signed([x EXCEPT !.kept = b]) = [Signed(x) EXCEPT !.kept = b]
    <2>1. x.seq \in Nat /\ x.seq + 1 \in Nat BY DEF Memory
    <2>2. Signed(x) = [x EXCEPT !.seq = x.seq + 1] BY DEF Signed
    <2>3. [x EXCEPT !.kept = b].seq = x.seq BY DEF Memory
    <2>4. Signed([x EXCEPT !.kept = b]) = [[x EXCEPT !.kept = b] EXCEPT !.seq = x.seq + 1]
      BY <2>3 DEF Signed
    <2>5. Signed(x) \in Memory BY <2>1, <2>2 DEF Memory
    <2>6. Signed([x EXCEPT !.kept = b]) = [Signed(x) EXCEPT !.kept = b]
      BY <2>2, <2>4 DEF Memory
    <2>. QED BY <2>5, <2>6
  <1>5. ASSUME NEW x \in Memory
        PROVE  /\ Rotated(x, key) \in Memory
               /\ Rotated([x EXCEPT !.kept = b], key) = [Rotated(x, key) EXCEPT !.kept = b]
    <2> DEFINE old == [key |-> x.secrets.enc, at |-> now]
               s == [x.secrets EXCEPT !.retired = @ \union {old}, !.enc = key]
    <2>1. x.secrets \in Secrets /\ [x EXCEPT !.kept = b].secrets = x.secrets BY DEF Memory
    <2>2. old \in [key : Key, at : Time] BY <2>1 DEF Secrets
    <2>3. s \in Secrets BY <2>1, <2>2 DEF Secrets
    <2>4. Pruned(s) \in Secrets BY <2>3 DEF Pruned, Secrets
    <2>5. Rotated(x, key) = [x EXCEPT !.secrets = Pruned(s), !.pub = key] BY DEF Rotated
    <2>6. Rotated([x EXCEPT !.kept = b], key)
            = [[x EXCEPT !.kept = b] EXCEPT !.secrets = Pruned(s), !.pub = key]
      BY <2>1 DEF Rotated
    <2> DEFINE q == Pruned(s)
    <2> HIDE DEF s, q
    <2>7. Rotated(x, key) = [x EXCEPT !.secrets = q, !.pub = key] BY <2>5 DEF q
    <2>8. Rotated([x EXCEPT !.kept = b], key)
            = [[x EXCEPT !.kept = b] EXCEPT !.secrets = q, !.pub = key]
      BY <2>6 DEF q
    <2>9. Rotated(x, key) \in Memory BY <2>4, <2>7 DEF Memory, q
    <2>10. Rotated([x EXCEPT !.kept = b], key) = [Rotated(x, key) EXCEPT !.kept = b]
      BY <2>7, <2>8 DEF Memory
    <2>. QED BY <2>9, <2>10
  <1>6. (Publishes(d, k) <=> Publishes(d, m)) /\ (Rotates(d, k) <=> Rotates(d, m))
    BY <1>1 DEF Publishes, Rotates
  <1>7. Signed(k).seq = Signed(m).seq BY <1>1 DEF Signed, Memory
  <1>8. Rejected(d, k) <=> Rejected(d, m) BY <1>6, <1>7 DEF Rejected, Accepts
  <1>9. Maintained(d, m, key) \in Memory BY <1>2, <1>4, <1>5 DEF Maintained
  <1>10. Maintained(d, k, key) = [Maintained(d, m, key) EXCEPT !.kept = b]
    <2> DEFINE x == IF Rotates(d, m) THEN Rotated(Kept(m), key) ELSE Kept(m)
               y == IF Rotates(d, k) THEN Rotated(Kept(k), key) ELSE Kept(k)
    <2>1. x \in Memory /\ y = [x EXCEPT !.kept = b] BY <1>2, <1>3, <1>5, <1>6
    <2>2. Maintained(d, m, key) = IF Publishes(d, m) \/ Rotates(d, m) THEN Signed(x) ELSE x
      BY DEF Maintained
    <2>3. Maintained(d, k, key) = IF Publishes(d, m) \/ Rotates(d, m) THEN Signed(y) ELSE y
      BY <1>6 DEF Maintained
    <2> HIDE DEF x, y
    <2>. QED BY <1>4, <2>1, <2>2, <2>3
  <1>. QED BY <1>1, <1>6, <1>8, <1>9, <1>10

LEMMA UnlockedFacts ==
  ASSUME KeysInv, Idle, Unlocked
  PROVE  /\ Holds(disk, mem) /\ Attached(disk, mem) /\ mem \in Memory /\ Fits(disk, mem)
         /\ mem.kept => disk.db.enckey.key = mem.secrets.enc
         /\ Enrolled(disk) /\ InUse(disk) /\ Readable(disk) = mem.secrets
         /\ disk \in Disk /\ now \in Nat /\ now \in Time /\ minted \in Nat /\ minted \in Key
         /\ Safe(disk, minted, now) /\ spent \in Spent
  BY InvFacts DEF Unlocked, Fits, Holds, Attached, InUse, KeysInv, TypeOK

LEMMA StartServingKeeps ==
  ASSUME KeysInv, StartServing
  PROVE  KeysInv'
  <1> DEFINE r == Rotates(disk, mem)
             key == IF r THEN minted + 1 ELSE 0
             m == Maintained(disk, mem, key)
             ws == MaintainWrites(disk, mem, key)
             e == Last(disk, ws)
             then == IF Rejected(disk, mem) THEN Down
                     ELSE [m EXCEPT !.phase = "serving", !.kept = TRUE]
             n == minted'
  <1>1. /\ Idle /\ Unlocked /\ Mint(r) /\ spent' = spent
        /\ Run(MaintainWrites(disk, mem, minted + 1),
                IF Rejected(disk, mem) THEN Down
                ELSE [Maintained(disk, mem, minted + 1) EXCEPT !.phase = "serving", !.kept = TRUE])
    BY DEF StartServing, Run
  <1>2. Run(ws, then) BY <1>1, KeyNotUsed
  <1>3. /\ Holds(disk, mem) /\ mem \in Memory /\ now \in Nat /\ now \in Time
        /\ minted \in Nat /\ Safe(disk, minted, now) /\ spent' \in Spent
    BY <1>1, UnlockedFacts
  <1>4. r \in BOOLEAN BY DEF Rotates
  <1>5. /\ n \in Key /\ n \in Nat /\ minted <= n /\ key \in Key
        /\ r => Numbered(disk, key - 1) /\ key <= n
    BY <1>1, <1>4, RotationFacts
  <1> HIDE DEF key
  <1>6. Safe(disk, n, now) BY <1>3, <1>5, SafeLater
  <1>7. /\ Good(disk, ws, n, now) /\ m \in Memory /\ Holds(e, m)
        /\ ~Rejected(disk, mem) => e.db.enckey.key = m.secrets.enc
    BY <1>3, <1>5, <1>6, MaintainGood
  <1> HIDE DEF ws, m
  <1>8. then \in Memory /\ Fits(e, then)
    <2>1. CASE Rejected(disk, mem) BY <2>1, DownFacts
    <2>2. CASE ~Rejected(disk, mem)
      <3>1. then = [m EXCEPT !.phase = "serving", !.kept = TRUE] BY <2>2
      <3>. QED BY <1>7, <2>2, <3>1, FlagsFit
    <2>. QED BY <2>1, <2>2
  <1> HIDE DEF then
  <1>. QED BY <1>2, <1>3, <1>5, <1>7, <1>8, RunKeeps

LEMMA MaintainEnckeyKeeps ==
  ASSUME KeysInv, MaintainEnckey
  PROVE  KeysInv'
  <1> DEFINE r == Rotates(disk, mem)
             key == IF r THEN minted + 1 ELSE 0
             b == ~Rejected(disk, mem)
             u == [mem EXCEPT !.kept = FALSE]
             k == Maintained(disk, u, key)
             ws == MaintainWrites(disk, u, key)
             e == Last(disk, ws)
             then == [Maintained(disk, mem, key) EXCEPT !.kept = b]
             n == minted'
  <1>1. /\ Idle /\ Unlocked /\ Mint(r) /\ spent' = spent /\ mem.phase = "serving"
        /\ Run(MaintainWrites(disk, u, minted + 1),
                [Maintained(disk, mem, minted + 1) EXCEPT !.kept = b])
    BY DEF MaintainEnckey, Serving
  <1>2. /\ Holds(disk, mem) /\ mem \in Memory /\ now \in Nat /\ now \in Time
        /\ minted \in Nat /\ Safe(disk, minted, now) /\ spent' \in Spent
    BY <1>1, UnlockedFacts
  <1>3. r \in BOOLEAN BY DEF Rotates
  <1>4. /\ n \in Key /\ n \in Nat /\ minted <= n /\ key \in Key
        /\ r => key = minted + 1 /\ Numbered(disk, key - 1) /\ key <= n
    BY <1>1, <1>3, RotationFacts
  <1> HIDE DEF key
  <1>5. /\ u \in Memory /\ k = [Maintained(disk, mem, key) EXCEPT !.kept = FALSE]
        /\ Maintained(disk, mem, key) \in Memory
        /\ (Rotates(disk, u) <=> r) /\ (Rejected(disk, u) <=> Rejected(disk, mem))
    <2> DEFINE f == FALSE
    <2>1. f \in BOOLEAN OBVIOUS
    <2> HIDE DEF f
    <2>2. u \in Memory BY <1>2, <1>4, <2>1, KeptFlag DEF f
    <2>3. k = [Maintained(disk, mem, key) EXCEPT !.kept = FALSE]
          /\ Maintained(disk, mem, key) \in Memory
      <3>1. /\ Maintained(disk, [mem EXCEPT !.kept = f], key)
                 = [Maintained(disk, mem, key) EXCEPT !.kept = f]
            /\ Maintained(disk, mem, key) \in Memory
        BY <1>2, <1>4, <2>1, KeptFlag
      <3>. QED BY <3>1 DEF f
    <2>4. (Rotates(disk, u) <=> r) /\ (Rejected(disk, u) <=> Rejected(disk, mem))
      BY <1>2, <1>4, <2>1, KeptFlag DEF f
    <2>. QED BY <2>2, <2>3, <2>4
  <1>6. Run(ws, then)
    <2>1. ws = MaintainWrites(disk, u, minted + 1) BY <1>4, <1>5, KeyNotUsed
    <2>2. Maintained(disk, mem, key) = Maintained(disk, mem, minted + 1) BY <1>4, KeyNotUsed
    <2>. QED BY <1>1, <2>1, <2>2
  <1>7. u.phase = "serving" /\ Holds(disk, u)
    <2>1. /\ u.applock = mem.applock /\ u.locked = mem.locked /\ u.revoked = mem.revoked
          /\ u.secrets = mem.secrets /\ u.pub = mem.pub /\ u.master = mem.master
          /\ u.seed = mem.seed /\ u.phase = mem.phase
      BY <1>2 DEF Memory
    <2> HIDE DEF u
    <2>2. Attached(disk, u) BY <1>2, <2>1 DEF Holds, Attached
    <2>. QED BY <1>1, <1>2, <2>1, <2>2 DEF Holds
  <1>8. Safe(disk, n, now) BY <1>2, <1>4, SafeLater
  <1>9. /\ Good(disk, ws, n, now) /\ k \in Memory /\ Holds(e, k) /\ k.phase = "serving"
        /\ ~Rejected(disk, mem) => e.db.enckey.key = k.secrets.enc
    <2>1. u \in Memory /\ u.phase = "serving" /\ (Rejected(disk, u) <=> Rejected(disk, mem))
          /\ (Rotates(disk, u) => Numbered(disk, key - 1) /\ key <= n)
      BY <1>4, <1>5, <1>7
    <2> HIDE DEF u
    <2>2. k.phase = u.phase /\ Good(disk, ws, n, now) /\ k \in Memory /\ Holds(e, k)
          /\ (~Rejected(disk, u) => e.db.enckey.key = k.secrets.enc)
      BY <1>2, <1>4, <1>7, <1>8, <2>1, MaintainGood
    <2>. QED BY <2>1, <2>2
  <1> HIDE DEF ws, u, k
  <1>10. then = [k EXCEPT !.phase = "serving", !.kept = b]
    BY <1>5, <1>9 DEF Memory
  <1>11. b \in BOOLEAN BY DEF Rejected
  <1>12. then \in Memory /\ Fits(e, then) BY <1>9, <1>10, <1>11, FlagsFit
  <1> HIDE DEF then
  <1>. QED BY <1>2, <1>4, <1>6, <1>9, <1>12, RunKeeps

LEMMA StartServingIdleKeeps ==
  ASSUME KeysInv, StartServingIdle
  PROVE  KeysInv'
  <1> DEFINE m == [mem EXCEPT !.phase = "serving"]
  <1>1. /\ Idle /\ mem.phase = "starting" /\ ~Unlocked /\ minted' = minted /\ spent' = spent
        /\ Run(<<>>, m)
    BY DEF StartServingIdle, Run
  <1>2. /\ mem \in Memory /\ Fits(disk, mem) /\ minted \in Nat /\ minted \in Key /\ spent \in Spent
    BY <1>1, InvFacts DEF KeysInv, TypeOK
  <1>3. /\ m \in Memory /\ m.applock = mem.applock /\ m.locked = mem.locked
        /\ m.revoked = mem.revoked
    BY <1>2 DEF Memory
  <1>4. mem.locked \/ mem.revoked BY <1>1 DEF Unlocked
  <1> HIDE DEF m
  <1>5. Fits(disk, m) BY <1>1, <1>2, <1>3, <1>4 DEF Fits
  <1>6. Good(disk, <<>>, minted, now) /\ Fits(Last(disk, <<>>), m) BY <1>5, NothingWritten
  <1>. QED BY <1>1, <1>2, <1>3, <1>6, RunKeeps

LEMMA LockKeeps ==
  ASSUME KeysInv, Lock
  PROVE  KeysInv'
  <1> DEFINE m == [mem EXCEPT !.locked = TRUE, !.secrets = NoSecrets, !.master = 0,
                              !.seed = FALSE, !.kept = FALSE]
  <1>1. /\ Idle /\ mem.phase = "serving" /\ mem.applock /\ minted' = minted /\ spent' = spent
        /\ Run(<<>>, m)
    BY DEF Lock, Serving
  <1>2. /\ mem \in Memory /\ Fits(disk, mem) /\ minted \in Nat /\ minted \in Key /\ spent \in Spent
        /\ NoSecrets \in Secrets
    BY <1>1, InvFacts, ReadableTypes DEF KeysInv, TypeOK
  <1>3. /\ m \in Memory /\ m.applock = mem.applock /\ m.locked /\ m.revoked = mem.revoked
    <2>1. 0 \in 0..2 OBVIOUS
    <2>. QED BY <1>2, <2>1 DEF Memory
  <1> HIDE DEF m
  <1>4. Fits(disk, m) BY <1>1, <1>2, <1>3 DEF Fits
  <1>5. Good(disk, <<>>, minted, now) /\ Fits(Last(disk, <<>>), m) BY <1>4, NothingWritten
  <1>. QED BY <1>1, <1>2, <1>3, <1>5, RunKeeps
----------------------------------------------------------------------------
(***************************************************************************)
(* App lock.                                                               *)
(***************************************************************************)
LEMMA SpentFacts ==
  ASSUME KeysInv, LockChange
  PROVE  spent' \in Spent
  <1>1. spent \in Spent /\ MaxLocks \in Nat BY KeyBounds DEF KeysInv, TypeOK
  <1>2. spent.locks + 1 \in 0..MaxLocks BY <1>1 DEF LockChange, Spent
  <1>. QED BY <1>1, <1>2 DEF LockChange, Spent

LEMMA EnableApplockKeeps ==
  ASSUME KeysInv, NEW c \in Credential, EnableApplock(c)
  PROVE  KeysInv'
  <1> DEFINE record == [credential |-> c, master |-> 1, under |-> 1,
                        secrets |-> mem.secrets, seed |-> disk.seed]
             locked == [disk EXCEPT !.lock = record]
             bare == WriteKeys(locked, NonSecret(Bundle(mem)))
             open == [bare EXCEPT !.seed = FALSE]
             hidden == IF disk.seed THEN To(open, mem) ELSE <<>>
             z == Last(bare, hidden)
             then == [mem EXCEPT !.applock = TRUE, !.master = 1, !.seed = disk.seed]
  <1>1. /\ Idle /\ Unlocked /\ ~mem.applock /\ minted' = minted /\ spent' \in Spent
        /\ Run(To(locked, mem) \o To(bare, mem) \o hidden, then)
    BY SpentFacts DEF EnableApplock, Serving
  <1>2. /\ Holds(disk, mem) /\ Attached(disk, mem) /\ mem \in Memory
        /\ mem.kept => disk.db.enckey.key = mem.secrets.enc
        /\ Enrolled(disk) /\ InUse(disk) /\ Readable(disk) = mem.secrets
        /\ disk \in Disk /\ now \in Nat /\ minted \in Nat /\ minted \in Key
        /\ Safe(disk, minted, now)
    BY <1>1, UnlockedFacts
  <1>3. disk.lock = Absent /\ ~mem.revoked /\ ~mem.locked /\ mem.pub = disk.keys.pub
        /\ ~disk.db.revoked /\ ~disk.keys.revoked /\ disk.keys # Absent /\ disk.keys.cert
    BY <1>1, <1>2 DEF Holds, Attached, Enrolled
  <1>4. disk.seed \in BOOLEAN /\ mem.secrets \in Secrets /\ disk.keys \in KeyFile
    BY <1>2, <1>3, ReadableTypes DEF Memory
  <1>5. /\ record \in LockFile /\ record # Absent /\ record.secrets = mem.secrets
        /\ record.seed = disk.seed /\ record.master = 1 /\ record.under = 1
    <2>1. record \in LockFile BY <1>4 DEF LockFile
    <2>. QED BY <2>1, AbsentAssumption
  <1> HIDE DEF record
  <1>6. /\ locked \in Disk /\ locked.lock = record /\ locked.keys = disk.keys
        /\ locked.seed = disk.seed /\ locked.db = disk.db
    BY <1>2, <1>5 DEF Disk
  <1> HIDE DEF locked
  <1>7. /\ NonSecret(Bundle(mem)) \in KeyFile /\ NonSecret(Bundle(mem)).secrets = Absent
        /\ NonSecret(Bundle(mem)).pub = mem.pub /\ NonSecret(Bundle(mem)).cert
        /\ ~NonSecret(Bundle(mem)).revoked
    <2>1. Bundle(mem) \in KeyFile /\ Bundle(mem).pub = mem.pub /\ Bundle(mem).cert
          /\ ~Bundle(mem).revoked
      BY <1>2, <1>3 DEF Bundle, KeyFile, Memory
    <2>. QED BY <2>1 DEF NonSecret, KeyFile
  <1>8. /\ bare \in Disk /\ bare.lock = record /\ bare.keys = NonSecret(Bundle(mem))
        /\ bare.seed = disk.seed /\ bare.db = disk.db
    BY <1>6, <1>7 DEF WriteKeys, Disk
  <1> HIDE DEF bare
  <1>9. /\ open \in Disk /\ open.lock = record /\ open.keys = bare.keys
        /\ ~open.seed /\ open.db = disk.db
    BY <1>8 DEF Disk
  <1> HIDE DEF open
  <1>10. ASSUME NEW d \in Disk, d.lock = record, d.db = disk.db, d.keys # Absent, d.keys.cert,
                d.keys.pub = mem.pub, ~d.keys.revoked, d.seed => disk.seed
         PROVE  Enrolled(d) /\ Safe(d, minted, now) /\ (disk.seed => SeedOn(d))
                /\ Readable(d) = mem.secrets
    <2>1. Enrolled(d) BY <1>10 DEF Enrolled
    <2>2. Sealed(d) BY <1>5, <1>10, <2>1 DEF Sealed
    <2>3. Readable(d) = mem.secrets BY <1>5, <1>10 DEF Readable
    <2>4. Numbered(d, minted) BY <1>2, <1>3, <1>10 DEF Safe, Numbered
    <2>5. Serves(Readable(d), d.db, now) /\ Halves(d.keys.pub, Readable(d), d.db, now)
      BY <1>2, <1>3, <1>10, <2>3 DEF Safe
    <2>6. Safe(d, minted, now) BY <1>5, <1>10, <2>1, <2>2, <2>4, <2>5 DEF Safe
    <2>7. disk.seed => SeedOn(d) BY <1>5, <1>10 DEF SeedOn
    <2>. QED BY <2>1, <2>3, <2>6, <2>7
  <1>11. SeedOn(disk) => disk.seed BY <1>3 DEF SeedOn
  <1>12. bare.keys # Absent BY <1>7, <1>8, AbsentAssumption
  <1>13. Safe(locked, minted, now) /\ (SeedOn(disk) => SeedOn(locked))
    BY <1>3, <1>6, <1>10, <1>11
  <1>14. Enrolled(bare) /\ Safe(bare, minted, now) /\ (SeedOn(locked) => SeedOn(bare))
         /\ Readable(bare) = mem.secrets
    <2>1. Enrolled(bare) /\ Safe(bare, minted, now) /\ (disk.seed => SeedOn(bare))
          /\ Readable(bare) = mem.secrets
      BY <1>7, <1>8, <1>10, <1>12
    <2>2. SeedOn(locked) => disk.seed BY <1>5, <1>6 DEF SeedOn
    <2>. QED BY <2>1, <2>2
  <1>15. Good(disk, To(locked, mem), minted, now) /\ Last(disk, To(locked, mem)) = locked
    BY <1>2, <1>13, OneWrite
  <1>16. Good(locked, To(bare, mem), minted, now) /\ Last(locked, To(bare, mem)) = bare
    BY <1>2, <1>14, OneWrite
  <1> DEFINE us == To(locked, mem) \o To(bare, mem)
  <1>17. Good(disk, us, minted, now) /\ Last(disk, us) = bare BY <1>15, <1>16, ThenWritten
  <1> HIDE DEF us
  <1>18. /\ Good(bare, hidden, minted, now) /\ z.lock = record /\ z.keys = bare.keys /\ ~z.seed
         /\ z.db = disk.db /\ Enrolled(z) /\ Readable(z) = mem.secrets
    <2>1. CASE ~disk.seed
      <3>1. hidden = <<>> BY <2>1
      <3> HIDE DEF hidden
      <3>. QED BY <1>8, <1>14, <2>1, <3>1, NothingWritten
    <2>2. CASE disk.seed
      <3>1. hidden = To(open, mem) BY <2>2
      <3> HIDE DEF hidden
      <3>2. Enrolled(open) /\ Safe(open, minted, now) /\ (disk.seed => SeedOn(open))
            /\ Readable(open) = mem.secrets
        BY <1>7, <1>8, <1>9, <1>10, <1>12
      <3>3. Good(bare, hidden, minted, now) /\ z = open BY <1>2, <2>2, <3>1, <3>2, OneWrite
      <3> HIDE DEF z
      <3>. QED BY <1>9, <3>2, <3>3
    <2>. QED BY <2>1, <2>2
  <1> HIDE DEF hidden
  <1>19. Good(disk, us \o hidden, minted, now) /\ Last(disk, us \o hidden) = z
    BY <1>17, <1>18, ThenWritten
  <1> HIDE DEF z
  <1>20. /\ then \in Memory /\ then.applock /\ then.master = 1 /\ then.seed = disk.seed
         /\ then.locked = mem.locked /\ then.revoked = mem.revoked /\ then.pub = mem.pub
         /\ then.secrets = mem.secrets /\ then.kept = mem.kept
    <2>1. 1 \in 0..2 OBVIOUS
    <2>. QED BY <1>2, <1>4, <2>1 DEF Memory
  <1> HIDE DEF then
  <1>21. Fits(z, then)
    <2>1. Attached(z, then)
      BY <1>2, <1>3, <1>5, <1>7, <1>8, <1>18, <1>20 DEF Attached
    <2>2. Holds(z, then) BY <1>7, <1>8, <1>18, <1>20, <2>1 DEF Holds
    <2>3. then.kept => z.db.enckey.key = then.secrets.enc BY <1>2, <1>18, <1>20
    <2>. QED BY <2>1, <2>2, <2>3, <1>3, <1>20 DEF Fits, Attached
  <1>22. Run(us \o hidden, then) BY <1>1 DEF us, then, locked, bare, hidden, open, record
  <1>. QED BY <1>1, <1>2, <1>19, <1>20, <1>21, <1>22, RunKeeps

LEMMA ChangeCredentialKeeps ==
  ASSUME KeysInv, NEW old \in Credential, NEW new \in Credential, ChangeCredential(old, new)
  PROVE  KeysInv'
  <1> DEFINE master == 3 - disk.lock.master
             record == [disk.lock EXCEPT !.credential = new, !.master = master, !.under = master]
             d == [disk EXCEPT !.lock = record]
             then == [mem EXCEPT !.master = master]
  <1>1. /\ Idle /\ Unlocked /\ mem.applock /\ minted' = minted /\ spent' \in Spent
        /\ Run(To(d, mem), then)
    BY SpentFacts DEF ChangeCredential, Serving
  <1>2. /\ Holds(disk, mem) /\ Attached(disk, mem) /\ mem \in Memory
        /\ mem.kept => disk.db.enckey.key = mem.secrets.enc
        /\ Enrolled(disk) /\ InUse(disk) /\ Readable(disk) = mem.secrets
        /\ disk \in Disk /\ now \in Nat /\ minted \in Nat /\ minted \in Key
        /\ Safe(disk, minted, now)
    BY <1>1, UnlockedFacts
  <1>3. disk.lock # Absent /\ disk.lock \in LockFile /\ Sealed(disk)
        /\ Readable(disk) = disk.lock.secrets
    BY <1>1, <1>2, ReadableTypes DEF Attached, Safe, Readable, Sealed
  <1>4. master \in {1, 2} /\ master \in 0..2 BY <1>3 DEF LockFile
  <1> HIDE DEF master
  <1>5. /\ record \in LockFile /\ record # Absent /\ record.secrets = disk.lock.secrets
        /\ record.seed = disk.lock.seed /\ record.master = master /\ record.under = master
    <2>1. record \in LockFile BY <1>3, <1>4 DEF LockFile
    <2>2. record.secrets = disk.lock.secrets /\ record.seed = disk.lock.seed
          /\ record.master = master /\ record.under = master
      BY <1>3 DEF LockFile
    <2>. QED BY <2>1, <2>2, AbsentAssumption
  <1> HIDE DEF record
  <1>6. /\ d \in Disk /\ d.lock = record /\ d.keys = disk.keys /\ d.seed = disk.seed
        /\ d.db = disk.db
    BY <1>2, <1>5 DEF Disk
  <1> HIDE DEF d
  <1>7. Enrolled(d) /\ Readable(d) = mem.secrets /\ Sealed(d)
    BY <1>2, <1>3, <1>5, <1>6 DEF Enrolled, Readable, Sealed
  <1>8. Numbered(d, minted) BY <1>2, <1>6 DEF Safe, Numbered
  <1>9. Safe(d, minted, now) BY <1>2, <1>6, <1>7, <1>8 DEF Safe
  <1>10. SeedOn(disk) => SeedOn(d) BY <1>3, <1>5, <1>6 DEF SeedOn
  <1>11. Good(disk, To(d, mem), minted, now) /\ Last(disk, To(d, mem)) = d
    BY <1>2, <1>9, <1>10, OneWrite
  <1>12. /\ then \in Memory /\ then.master = master /\ then.seed = mem.seed
         /\ then.applock = mem.applock
         /\ then.locked = mem.locked /\ then.revoked = mem.revoked /\ then.pub = mem.pub
         /\ then.secrets = mem.secrets /\ then.kept = mem.kept
    BY <1>2, <1>4 DEF Memory
  <1>13. Fits(d, then)
    <2> HIDE DEF then
    <2>1. Attached(d, then)
      BY <1>1, <1>2, <1>5, <1>6, <1>7, <1>12 DEF Attached
    <2>2. Holds(d, then) BY <1>2, <1>6, <1>7, <1>12, <2>1 DEF Holds
    <2>3. then.kept => d.db.enckey.key = then.secrets.enc BY <1>2, <1>6, <1>12
    <2>. QED BY <2>1, <2>2, <2>3 DEF Fits, Attached
  <1>. QED BY <1>1, <1>2, <1>11, <1>12, <1>13, RunKeeps

LEMMA DisableApplockKeeps ==
  ASSUME KeysInv, NEW c \in Credential, DisableApplock(c)
  PROVE  KeysInv'
  <1> DEFINE r == RestoreSeed(disk)
             restored == IF disk.lock.seed THEN To(r, mem) ELSE <<>>
             e == Last(disk, restored)
             plain == WriteKeys(e, Bundle(mem))
             z == DropLock(plain)
             then == [mem EXCEPT !.applock = FALSE, !.master = 0, !.seed = FALSE]
  <1>1. /\ Idle /\ Unlocked /\ mem.applock /\ minted' = minted /\ spent' = spent
        /\ Run(restored \o To(plain, mem) \o To(z, mem), then)
    BY DEF DisableApplock, Serving
  <1>2. /\ Holds(disk, mem) /\ Attached(disk, mem) /\ mem \in Memory /\ spent \in Spent
        /\ mem.kept => disk.db.enckey.key = mem.secrets.enc
        /\ Enrolled(disk) /\ InUse(disk) /\ Readable(disk) = mem.secrets
        /\ disk \in Disk /\ now \in Nat /\ minted \in Nat /\ minted \in Key
        /\ Safe(disk, minted, now)
    BY <1>1, UnlockedFacts
  <1>3. disk.lock # Absent /\ Sealed(disk) /\ ~disk.seed /\ mem.pub = disk.keys.pub
        /\ ~mem.revoked /\ ~mem.locked
    BY <1>1, <1>2 DEF Attached, Safe, Holds
  <1>4. /\ Good(disk, restored, minted, now) /\ e \in Disk /\ Safe(e, minted, now)
        /\ e.lock = disk.lock /\ e.keys = disk.keys /\ e.db = disk.db
        /\ (e.seed <=> disk.lock.seed)
    <2>1. CASE ~disk.lock.seed
      <3>1. restored = <<>> BY <2>1
      <3> HIDE DEF restored
      <3>. QED BY <1>2, <1>3, <2>1, <3>1, NothingWritten
    <2>2. CASE disk.lock.seed
      <3>1. restored = To(r, mem) BY <2>2
      <3>2. r \in Disk /\ r.seed /\ r.lock = disk.lock /\ r.keys = disk.keys /\ r.db = disk.db
        BY <1>2 DEF RestoreSeed, Disk
      <3> HIDE DEF restored, r
      <3>3. Enrolled(r) /\ Sealed(r) /\ Readable(r) = Readable(disk) /\ SeedOn(r)
        BY <1>2, <1>3, <2>2, <3>2 DEF Enrolled, Sealed, Readable, SeedOn
      <3>4. Numbered(r, minted) BY <1>2, <3>2 DEF Safe, Numbered
      <3>5. Safe(r, minted, now) BY <1>2, <3>2, <3>3, <3>4 DEF Safe
      <3>6. Good(disk, restored, minted, now) /\ e = r BY <1>2, <3>1, <3>3, <3>5, OneWrite
      <3> HIDE DEF e
      <3>. QED BY <2>2, <3>2, <3>5, <3>6
    <2>. QED BY <2>1, <2>2
  <1> HIDE DEF restored, e, r
  <1>5. /\ Bundle(mem) \in KeyFile /\ Bundle(mem).secrets = mem.secrets /\ Bundle(mem).cert
        /\ Bundle(mem).pub = mem.pub /\ ~Bundle(mem).revoked /\ Bundle(mem) # Absent
        /\ mem.secrets # Absent
    <2>1. Bundle(mem) \in KeyFile BY <1>2 DEF Bundle, KeyFile, Memory
    <2>. QED BY <1>2, <1>3, <2>1, AbsentAssumption DEF Bundle, Memory
  <1>6. /\ plain \in Disk /\ plain.keys = Bundle(mem) /\ plain.lock = disk.lock
        /\ plain.seed = e.seed /\ plain.db = disk.db
    BY <1>4, <1>5 DEF WriteKeys, Disk
  <1> HIDE DEF plain
  <1>7. /\ z \in Disk /\ z.keys = Bundle(mem) /\ z.lock = Absent
        /\ z.seed = e.seed /\ z.db = disk.db
    BY <1>6 DEF DropLock, Disk
  <1> HIDE DEF z
  <1>8. Enrolled(plain) /\ Enrolled(z) /\ Readable(plain) = mem.secrets /\ Readable(z) = mem.secrets
    BY <1>2, <1>3, <1>5, <1>6, <1>7 DEF Enrolled, Readable, Sealed
  <1>9. Sealed(plain) BY <1>3, <1>4, <1>5, <1>6, <1>8 DEF Sealed
  <1>10. Serves(mem.secrets, disk.db, now) /\ Halves(mem.pub, mem.secrets, disk.db, now)
         /\ mem.pub <= minted
    BY <1>2, HoldsFacts
  <1>11. Numbered(plain, minted) /\ Numbered(z, minted)
    BY <1>2, <1>5, <1>6, <1>7, <1>10 DEF Safe, Numbered
  <1>12. Safe(plain, minted, now) /\ Safe(z, minted, now)
    BY <1>5, <1>6, <1>7, <1>8, <1>9, <1>10, <1>11 DEF Safe
  <1>13. (SeedOn(e) => SeedOn(plain)) /\ (SeedOn(plain) => SeedOn(z))
    BY <1>3, <1>4, <1>6, <1>7 DEF SeedOn
  <1>14. /\ Good(e, To(plain, mem), minted, now) /\ Last(e, To(plain, mem)) = plain
         /\ Good(plain, To(z, mem), minted, now) /\ Last(plain, To(z, mem)) = z
    BY <1>2, <1>12, <1>13, OneWrite
  <1> DEFINE us == restored \o To(plain, mem)
  <1>15. Good(disk, us, minted, now) /\ Last(disk, us) = plain
    BY <1>4, <1>14, ThenWritten DEF e
  <1> HIDE DEF us
  <1>16. Good(disk, us \o To(z, mem), minted, now) /\ Last(disk, us \o To(z, mem)) = z
    BY <1>14, <1>15, ThenWritten
  <1>17. /\ then \in Memory /\ ~then.applock
         /\ then.locked = mem.locked /\ then.revoked = mem.revoked /\ then.pub = mem.pub
         /\ then.secrets = mem.secrets /\ then.kept = mem.kept
    <2>1. 0 \in 0..2 OBVIOUS
    <2>. QED BY <1>2, <2>1 DEF Memory
  <1> HIDE DEF then
  <1>18. Fits(z, then)
    <2>1. Attached(z, then)
      BY <1>2, <1>3, <1>5, <1>7, <1>8, <1>17 DEF Attached
    <2>2. Holds(z, then) BY <1>5, <1>7, <1>8, <1>17, <2>1 DEF Holds
    <2>3. then.kept => z.db.enckey.key = then.secrets.enc BY <1>2, <1>7, <1>17
    <2>. QED BY <1>3, <1>7, <1>17, <2>1, <2>2, <2>3 DEF Fits, Attached
  <1>19. Run(us \o To(z, mem), then) /\ spent' \in Spent
    BY <1>1, <1>2 DEF us, then, z, plain, restored, e, r
  <1>. QED BY <1>1, <1>2, <1>16, <1>17, <1>18, <1>19, RunKeeps
----------------------------------------------------------------------------
(***************************************************************************)
(* Messages and the revocation.                                            *)
(***************************************************************************)
\* One write of a served node, to rows, cache and marks.
LEMMA MessageKeeps ==
  ASSUME KeysInv, Idle, Unlocked, NEW db \in Database,
         Run(To([disk EXCEPT !.db = db], mem), mem), minted' = minted, spent' = spent,
         db.enckey = disk.db.enckey, db.revoked = disk.db.revoked,
         \A m \in Msg : db.rows[m] <= minted,
         Serves(mem.secrets, db, now)
  PROVE  KeysInv'
  <1> DEFINE e == [disk EXCEPT !.db = db]
  <1>1. /\ mem \in Memory /\ Fits(disk, mem) /\ Enrolled(disk) /\ Readable(disk) = mem.secrets
        /\ disk \in Disk /\ now \in Nat /\ minted \in Nat /\ minted \in Key
        /\ Safe(disk, minted, now) /\ spent \in Spent
    BY UnlockedFacts
  <1>2. /\ e \in Disk /\ e.keys = disk.keys /\ e.lock = disk.lock /\ e.seed = disk.seed
        /\ e.db = db
    BY <1>1 DEF Disk
  <1> HIDE DEF e
  <1>3. Safe(e, minted, now) /\ (SeedOn(disk) => SeedOn(e)) /\ Fits(e, mem)
    BY <1>1, <1>2, DbWrite
  <1>4. Good(disk, To(e, mem), minted, now) /\ Last(disk, To(e, mem)) = e
    BY <1>1, <1>3, OneWrite
  <1>. QED BY <1>1, <1>3, <1>4, RunKeeps DEF e

LEMMA DatabaseFacts ==
  ASSUME KeysInv, Idle, Unlocked
  PROVE  /\ disk \in Disk /\ disk.db \in Database /\ disk.db.rows \in [Msg -> Key]
         /\ disk.db.cached \in [Msg -> Key] /\ disk.db.marked \subseteq Msg
         /\ mem.secrets \in Secrets /\ Serves(mem.secrets, disk.db, now)
         /\ (\A m \in Msg : disk.db.rows[m] <= minted) /\ minted \in Nat
  <1>1. disk \in Disk /\ disk.db \in Database BY UnlockedFacts, ReadableTypes
  <1>2. mem.secrets \in Secrets BY UnlockedFacts DEF Memory
  <1>3. Serves(mem.secrets, disk.db, now) BY UnlockedFacts DEF Safe
  <1>4. \A m \in Msg : disk.db.rows[m] <= minted BY UnlockedFacts DEF Safe, Numbered
  <1>. QED BY <1>1, <1>2, <1>3, <1>4, UnlockedFacts DEF Database

LEMMA DeliverKeeps ==
  ASSUME KeysInv, NEW m \in Msg, NEW key \in given, Deliver(m, key)
  PROVE  KeysInv'
  <1> DEFINE db == [disk.db EXCEPT !.rows = [disk.db.rows EXCEPT ![m] = key]]
  <1>1. /\ Idle /\ Unlocked /\ minted' = minted /\ spent' = spent /\ disk.db.rows[m] = 0
        /\ Run(To([disk EXCEPT !.db.rows[m] = key], mem), mem)
    BY DEF Deliver, Serving
  <1>2. /\ disk \in Disk /\ disk.db \in Database /\ disk.db.rows \in [Msg -> Key]
        /\ disk.db.marked \subseteq Msg /\ Serves(mem.secrets, disk.db, now)
        /\ \A x \in Msg : disk.db.rows[x] <= minted
    BY <1>1, DatabaseFacts
  <1>3. key \in Key /\ key <= minted BY DEF KeysInv, TypeOK
  <1>4. [disk EXCEPT !.db.rows[m] = key] = [disk EXCEPT !.db = db] BY <1>2 DEF Disk, Database
  <1>5. /\ db \in Database /\ db.enckey = disk.db.enckey /\ db.revoked = disk.db.revoked
        /\ db.cached = disk.db.cached /\ db.marked = disk.db.marked
        /\ db.rows = [disk.db.rows EXCEPT ![m] = key]
    BY <1>2, <1>3 DEF Database
  <1> HIDE DEF db
  <1>6. \A x \in Msg : db.rows[x] = IF x = m THEN key ELSE disk.db.rows[x] BY <1>2, <1>5
  <1>7. m \notin disk.db.marked BY <1>1, <1>2 DEF Serves
  <1>8. Serves(mem.secrets, db, now) BY <1>2, <1>5, <1>6, <1>7 DEF Serves
  <1>9. \A x \in Msg : db.rows[x] <= minted BY <1>2, <1>3, <1>6
  <1>. QED BY <1>1, <1>4, <1>5, <1>8, <1>9, MessageKeeps

LEMMA ViewKeeps ==
  ASSUME KeysInv, NEW m \in Msg, View(m)
  PROVE  KeysInv'
  <1> DEFINE s == mem.secrets
             db == [disk.db EXCEPT !.cached = [disk.db.cached EXCEPT ![m] = s.storage],
                                   !.marked = disk.db.marked \ {m}]
  <1>1. /\ Idle /\ Unlocked /\ minted' = minted /\ spent' = spent
        /\ Resolve(disk, m, s) # disk /\ Run(To(Resolve(disk, m, s), mem), mem)
    BY DEF View, Serving
  <1>2. /\ disk \in Disk /\ disk.db \in Database /\ disk.db.cached \in [Msg -> Key]
        /\ disk.db.marked \subseteq Msg /\ Serves(s, disk.db, now) /\ s \in Secrets
        /\ \A x \in Msg : disk.db.rows[x] <= minted
    BY <1>1, DatabaseFacts
  <1>3. s.storage \in Key BY <1>2 DEF Secrets
  <1> HIDE DEF s
  <1>4. Resolve(disk, m, s) = [disk EXCEPT !.db = db]
    BY <1>1, <1>2 DEF Resolve, Disk, Database
  <1>5. /\ db \in Database /\ db.enckey = disk.db.enckey /\ db.revoked = disk.db.revoked
        /\ db.rows = disk.db.rows /\ db.marked = disk.db.marked \ {m}
        /\ db.cached = [disk.db.cached EXCEPT ![m] = s.storage]
    BY <1>2, <1>3 DEF Database
  <1> HIDE DEF db
  <1>6. \A x \in Msg : db.cached[x] = IF x = m THEN s.storage ELSE disk.db.cached[x] BY <1>2, <1>5
  <1>7. Serves(s, db, now) BY <1>2, <1>5, <1>6 DEF Serves
  <1>. QED BY <1>1, <1>2, <1>4, <1>5, <1>7, MessageKeeps DEF s

LEMMA CacheMessageKeysKeeps ==
  ASSUME KeysInv, CacheMessageKeys
  PROVE  KeysInv'
  <1> DEFINE s == mem.secrets
             U == Uncached(disk)
             cached == [m \in Msg |-> IF m \in U /\ Unwraps(disk, m, s) THEN s.storage
                                      ELSE disk.db.cached[m]]
             marked == disk.db.marked \union {m \in U : ~Unwraps(disk, m, s)}
             db == [disk.db EXCEPT !.cached = cached, !.marked = marked]
  <1>1. /\ Idle /\ Unlocked /\ minted' = minted /\ spent' = spent
        /\ Run(To(Swept(disk, s), mem), mem)
    BY DEF CacheMessageKeys, Serving, Sweepable
  <1>2. /\ disk \in Disk /\ disk.db \in Database /\ disk.db.cached \in [Msg -> Key]
        /\ disk.db.marked \subseteq Msg /\ Serves(s, disk.db, now) /\ s \in Secrets
        /\ \A x \in Msg : disk.db.rows[x] <= minted
    BY <1>1, DatabaseFacts
  <1>3. s.storage \in Key BY <1>2 DEF Secrets
  <1>4. U \subseteq Msg /\ \A x \in U : disk.db.rows[x] # 0 BY DEF Uncached
  <1> HIDE DEF s, U
  <1>5. cached \in [Msg -> Key] /\ marked \subseteq Msg BY <1>2, <1>3, <1>4
  <1>6. Swept(disk, s) = [disk EXCEPT !.db = db]
    BY <1>2 DEF Swept, Disk, Database, U
  <1>7. \A x \in Msg : cached[x] = s.storage \/ cached[x] = disk.db.cached[x] OBVIOUS
  <1>8. \A x \in marked : x \in disk.db.marked \/ (x \in U /\ ~Unwraps(disk, x, s)) OBVIOUS
  <1> HIDE DEF cached, marked
  <1>9. /\ db \in Database /\ db.enckey = disk.db.enckey /\ db.revoked = disk.db.revoked
        /\ db.rows = disk.db.rows /\ db.marked = marked /\ db.cached = cached
    BY <1>2, <1>5 DEF Database
  <1> HIDE DEF db
  <1>10. \A x \in U : ~Unwraps(disk, x, s) =>
           disk.db.rows[x] # s.enc /\ \A r \in s.retired : r.key # disk.db.rows[x]
    BY <1>4 DEF Unwraps, EncPrivs
  <1>11. Serves(s, db, now)
    <2>1. \A x \in Msg : db.cached[x] # 0 => db.cached[x] = s.storage
      BY <1>2, <1>7, <1>9 DEF Serves
    <2>2. ASSUME NEW x \in db.marked
          PROVE  /\ db.rows[x] # 0 /\ db.rows[x] # s.enc
                 /\ \A r \in s.retired : r.key = db.rows[x] => now - r.at > Grace
      <3>1. CASE x \in disk.db.marked BY <3>1, <1>2, <1>9 DEF Serves
      <3>2. CASE x \in U /\ ~Unwraps(disk, x, s) BY <3>2, <1>4, <1>9, <1>10
      <3>. QED BY <3>1, <3>2, <1>8, <1>9
    <2>. QED BY <2>1, <2>2, <1>2 DEF Serves
  <1>. QED BY <1>1, <1>2, <1>6, <1>9, <1>11, MessageKeeps DEF s

LEMMA LearnRevocationKeeps ==
  ASSUME KeysInv, LearnRevocation
  PROVE  KeysInv'
  <1> DEFINE told == [disk EXCEPT !.db.revoked = TRUE]
             ws == RevokeWrites(told, mem)
             e == Last(told, ws)
  <1>1. /\ Idle /\ Unlocked /\ minted' = minted /\ spent' = spent
        /\ Run(To(told, mem) \o ws, Revoked(mem))
    BY DEF LearnRevocation, Serving
  <1>2. /\ Holds(disk, mem) /\ Attached(disk, mem) /\ mem \in Memory
        /\ Enrolled(disk) /\ disk \in Disk /\ now \in Nat /\ minted \in Nat /\ minted \in Key
        /\ Safe(disk, minted, now) /\ spent \in Spent
    BY <1>1, UnlockedFacts
  <1>3. disk.db \in Database BY <1>2, ReadableTypes
  <1>4. /\ told \in Disk /\ told.keys = disk.keys /\ told.lock = disk.lock
        /\ told.seed = disk.seed /\ told.db.revoked /\ told.db.rows = disk.db.rows
        /\ told.db.enckey = disk.db.enckey
    BY <1>2, <1>3 DEF Disk, Database
  <1> HIDE DEF told
  <1>5. Enrolled(told) /\ ~InUse(told) /\ (SeedOn(disk) => SeedOn(told))
        /\ (Sealed(disk) => Sealed(told))
    BY <1>2, <1>4 DEF Enrolled, InUse, SeedOn, Sealed
  <1>6. Numbered(told, minted) BY <1>2, <1>4 DEF Safe, Numbered
  <1>7. Safe(told, minted, now) BY <1>2, <1>4, <1>5, <1>6 DEF Safe
  <1>8. Good(disk, To(told, mem), minted, now) /\ Last(disk, To(told, mem)) = told
    BY <1>2, <1>5, <1>7, OneWrite
  <1>9. mem.pub <= minted BY <1>2, HoldsFacts
  <1>10. (mem.applock <=> told.lock # Absent) /\ (mem.applock => mem.seed = told.lock.seed)
    BY <1>2, <1>4 DEF Attached
  <1>11. /\ Good(told, ws, minted, now)
         /\ e.lock = Absent /\ Enrolled(e) /\ e.keys.revoked
    BY <1>2, <1>4, <1>5, <1>7, <1>9, <1>10, RevokeGood
  <1> HIDE DEF ws, e
  <1>12. Good(disk, To(told, mem) \o ws, minted, now) /\ Last(disk, To(told, mem) \o ws) = e
    BY <1>8, <1>11, ThenWritten DEF e
  <1>13. /\ Revoked(mem) \in Memory /\ Revoked(mem).revoked /\ ~Revoked(mem).locked
         /\ ~Revoked(mem).applock
    BY <1>2, RevokedTypes
  <1>14. Fits(e, Revoked(mem)) BY <1>11, <1>13 DEF Fits
  <1>. QED BY <1>1, <1>2, <1>12, <1>13, <1>14, RunKeeps
----------------------------------------------------------------------------
(***************************************************************************)
(* The theorems.                                                           *)
(***************************************************************************)
LEMMA KeysInitially == Init => KeysInv
  <1> SUFFICES ASSUME Init PROVE KeysInv OBVIOUS
  <1>1. /\ disk \in {NewFiles, OldFiles} /\ mem = Down /\ todo = <<>> /\ after = Down /\ now = 0
        /\ minted = (IF disk = OldFiles THEN 1 ELSE 0)
        /\ given = (IF disk = OldFiles THEN {1} ELSE {})
        /\ seeded = disk.seed /\ spent = [crashes |-> 0, failures |-> 0, locks |-> 0]
    BY DEF Init
  <1>2. 0 \in Key /\ 1 \in Key /\ 0 \in Time /\ 0 \in Nat /\ 1 \in Nat BY KeyBounds DEF Key, Time
  <1>3. spent \in Spent BY <1>1, KeyBounds DEF Spent
  <1>4. NewFiles.keys = Absent /\ NewFiles.lock = Absent /\ ~NewFiles.seed
        /\ NewFiles.db = EmptyDatabase
    BY DEF NewFiles
  <1>5. NewFiles \in Disk
    BY EmptyDatabaseFacts DEF NewFiles, Disk
  <1>6. ~Enrolled(NewFiles) /\ Safe(NewFiles, 0, 0)
    <2>1. ~Enrolled(NewFiles) BY <1>4 DEF Enrolled
    <2>2. Waiting(NewFiles) /\ Numbered(NewFiles, 0)
      BY <1>4, EmptyDatabaseFacts DEF Waiting, Numbered
    <2>. QED BY <1>4, <1>5, <2>1, <2>2 DEF Safe, InUse
  <1> DEFINE s == [device |-> TRUE, identity |-> TRUE, enc |-> 1, retired |-> {}, storage |-> 0]
             keys == [cert |-> TRUE, pub |-> 1, seq |-> 1, revoked |-> FALSE, secrets |-> s]
             db == [EmptyDatabase EXCEPT !.own = TRUE, !.top = 1, !.enckey = [key |-> 1, at |-> 0]]
  <1>7. OldFiles = [keys |-> keys, lock |-> Absent, seed |-> TRUE, db |-> db]
    BY DEF OldFiles
  <1>8. s \in Secrets /\ s.device /\ s.identity /\ s.enc = 1 BY <1>2 DEF Secrets
  <1> HIDE DEF s
  <1>9. /\ keys \in KeyFile /\ keys.secrets = s /\ keys.pub = 1 /\ keys.cert
        /\ keys # Absent /\ keys.secrets # Absent
    <2>1. keys \in KeyFile BY <1>2, <1>8 DEF KeyFile
    <2>2. keys.secrets = s /\ keys.pub = 1 /\ keys.cert OBVIOUS
    <2>. QED BY <2>1, <2>2, <1>8, AbsentAssumption
  <1> HIDE DEF keys
  <1>10. /\ db \in Database /\ db.rows = EmptyDatabase.rows /\ db.cached = EmptyDatabase.cached
         /\ db.marked = EmptyDatabase.marked /\ db.enckey.key = 1
    <2>1. [key |-> 1, at |-> 0] \in [key : Key, at : Time] BY <1>2
    <2>. QED BY <1>2, <2>1, EmptyDatabaseFacts DEF Database
  <1> HIDE DEF db
  <1>11. /\ OldFiles \in Disk /\ OldFiles.keys = keys /\ OldFiles.lock = Absent /\ OldFiles.seed
         /\ OldFiles.db = db
    BY <1>7, <1>9, <1>10 DEF Disk
  <1>12. \A m \in Msg : db.cached[m] = 0 /\ db.rows[m] <= 1 BY <1>10, EmptyDatabaseFacts
  <1>13. Safe(OldFiles, 1, 0)
    BY <1>2, <1>8, <1>9, <1>10, <1>11, <1>12, EmptyDatabaseFacts, FreshIsSafe
  <1>14. disk # OldFiles => disk = NewFiles BY <1>1
  <1>15. disk \in Disk /\ minted \in Key /\ Safe(disk, minted, now)
    BY <1>1, <1>2, <1>5, <1>6, <1>11, <1>13
  <1>16. disk.seed \in BOOLEAN BY <1>15 DEF Disk
  <1>17. TypeOK
    <2>1. todo = <<>> /\ Len(todo) = 0 BY <1>1
    <2>2. given \subseteq Key BY <1>1, <1>2
    <2>. QED BY <1>1, <1>2, <1>3, <1>15, <1>16, <2>1, <2>2, DownFacts DEF TypeOK
  <1>18. Good(disk, todo, minted, now) /\ Fits(Last(disk, todo), after)
    BY <1>1, DownFacts, NothingWritten
  <1>19. seeded => SeedOn(disk) BY <1>1 DEF SeedOn
  <1>20. given \subseteq 0..minted BY <1>1
  <1>. QED BY <1>1, <1>15, <1>17, <1>18, <1>19, <1>20 DEF KeysInv

LEMMA KeysStuttering ==
  ASSUME KeysInv, UNCHANGED vars
  PROVE  KeysInv'
  BY DEF vars, KeysInv, TypeOK, Safe, Good, Fits, SeedOn, Key

LEMMA KeysInductive == KeysInv /\ [Next]_vars => KeysInv'
  <1> SUFFICES ASSUME KeysInv, [Next]_vars PROVE KeysInv' OBVIOUS
  <1>1. CASE Write BY <1>1, WriteKeeps
  <1>2. CASE Crash BY <1>2, CrashKeeps
  <1>3. CASE Tick BY <1>3, TickKeeps
  <1>4. CASE Share BY <1>4, ShareKeeps
  <1>5. CASE Operation
    <2>1. CASE Create \/ PairRequest \/ PairInstall
      BY <2>1, CreateKeeps, PairRequestKeeps, PairInstallKeeps
    <2>2. CASE BootLocked \/ Boot \/ StartServing \/ StartServingIdle \/ MaintainEnckey
      BY <2>2, BootLockedKeeps, BootKeeps, StartServingKeeps, StartServingIdleKeeps,
         MaintainEnckeyKeeps
    <2>3. ASSUME NEW c \in Credential, EnableApplock(c) \/ Unlock(c) \/ DisableApplock(c)
          PROVE  KeysInv'
      BY <2>3, EnableApplockKeeps, UnlockKeeps, DisableApplockKeeps
    <2>4. ASSUME NEW old \in Credential, NEW new \in Credential, ChangeCredential(old, new)
          PROVE  KeysInv'
      BY <2>4, ChangeCredentialKeeps
    <2>5. CASE Lock BY <2>5, LockKeeps
    <2>6. ASSUME NEW m \in Msg, View(m) \/ \E key \in given : Deliver(m, key)
          PROVE  KeysInv'
      BY <2>6, ViewKeeps, DeliverKeeps
    <2>7. CASE CacheMessageKeys \/ LearnRevocation
      BY <2>7, CacheMessageKeysKeeps, LearnRevocationKeeps
    <2>. QED BY <1>5, <2>1, <2>2, <2>3, <2>4, <2>5, <2>6, <2>7 DEF Operation
  <1>6. CASE UNCHANGED vars BY <1>6, KeysStuttering
  <1>. QED BY <1>1, <1>2, <1>3, <1>4, <1>5, <1>6 DEF Next

\* KeysInv is an invariant of every behaviour with crashes: whatever handler is in
\* progress, all the disks it passes through are safe to die on, and the node object
\* at its end fits the disk at its end (node.py, identity.py, store.py, applock.py).
THEOREM KeysInvariance == Spec => []KeysInv
  BY KeysInitially, KeysInductive, PTL DEF Spec

\* The files, the node object and every step of a handler in progress are of their type.
THEOREM KeyTypesCorrect == Spec => []TypeOK
  <1>1. KeysInv => TypeOK BY DEF KeysInv
  <1>. QED BY <1>1, KeysInvariance, PTL

\* The paper seed, once written down, is in the open or in the sealed record, through
\* lock changes, rotations, crashes and the revocation of the device (node.py:3158).
THEOREM SeedIsKept == Spec => []SeedKept
  <1>1. KeysInv => SeedKept BY DEF KeysInv, SeedOn, SeedKept
  <1>. QED BY <1>1, KeysInvariance, PTL

\* Under app lock, between two handlers, neither the keys nor the seed lie in the open,
\* whatever crash came before (node.py:297).
THEOREM KeysAreSealedAtRest == Spec => []SealedAtRest
  <1>1. KeysInv => SealedAtRest BY InvFacts DEF Fits, SealedAtRest
  <1>. QED BY <1>1, KeysInvariance, PTL

\* At every point between two writes a restart can read the signing and identity keys,
\* and between two handlers all that the process can (node.py:397, 563).
THEOREM KeysAreRecoverable == Spec => []KeysRecoverable
  <1>1. KeysInv => KeysRecoverable
    <2> SUFFICES ASSUME KeysInv, InUse(disk)
                 PROVE  /\ Readable(disk).device /\ Readable(disk).identity
                        /\ (Idle /\ mem.phase # "down" /\ Unlocked) =>
                              Readable(disk) = mem.secrets
      BY DEF KeysRecoverable
    <2>1. Readable(disk).device /\ Readable(disk).identity BY DEF KeysInv, Safe, Serves
    <2>2. (Idle /\ Unlocked) => Readable(disk) = mem.secrets BY UnlockedFacts
    <2>. QED BY <2>1, <2>2
  <1>. QED BY <1>1, KeysInvariance, PTL

\* After every maintain_enckey() that went through, the device holds the private half
\* of the encryption key it published last (node.py:2072).
THEOREM PublishedKeyIsHeld == Spec => []PublishedKeyHeld
  <1>1. KeysInv => PublishedKeyHeld BY UnlockedFacts DEF PublishedKeyHeld, EncPrivs
  <1>. QED BY <1>1, KeysInvariance, PTL

\* A cached content key opens with the storage key a restart reads, and a message that
\* the sweep gave up on is one that no key within grace opens (node.py:3064).
THEOREM KeyCacheIsRight == Spec => []CacheIsRight
  <1>1. KeysInv => CacheIsRight
    <2> SUFFICES ASSUME KeysInv, InUse(disk), NEW m \in Msg
                 PROVE  /\ disk.db.cached[m] # 0 => disk.db.cached[m] = Readable(disk).storage
                        /\ m \in disk.db.marked =>
                              disk.db.rows[m] \notin EncPrivs(Pruned(Readable(disk)))
      BY DEF CacheIsRight
    <2> DEFINE s == Readable(disk)
    <2>1. Serves(s, disk.db, now) BY DEF KeysInv, Safe
    <2>2. s \in Secrets BY InvFacts, ReadableTypes
    <2> HIDE DEF s
    <2>3. Pruned(s).enc = s.enc
          /\ Pruned(s).retired = {r \in s.retired : now - r.at <= Grace}
      BY <2>2 DEF Pruned, Secrets
    <2>4. now \in Nat /\ Grace \in Nat /\ \A r \in s.retired : r.at \in Nat
      BY <2>2, InvFacts, NumberTypes DEF Secrets
    <2>5. ASSUME m \in disk.db.marked, NEW r \in Pruned(s).retired
          PROVE  r.key # disk.db.rows[m]
      BY <2>1, <2>3, <2>4, <2>5 DEF Serves
    <2>6. m \in disk.db.marked => disk.db.rows[m] \notin EncPrivs(Pruned(s))
      BY <2>1, <2>3, <2>5 DEF Serves, EncPrivs
    <2>. QED BY <2>1, <2>6 DEF Serves, s
  <1>. QED BY <1>1, KeysInvariance, PTL
=============================================================================
