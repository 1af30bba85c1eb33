------------------------- MODULE FailedWriteProofs -------------------------
(***************************************************************************)
(* What of KeyFiles holds when writes fail as well.  The handler raises    *)
(* and the process carries on with files and a node object that no longer  *)
(* fit each other, so nothing here compares keys.  What is left is what    *)
(* cannot be made again: the paper seed, and the keys that speak for the   *)
(* device and the person.  For these it is enough that every disk along    *)
(* the way endures, and that wherever a write may fail the node object     *)
(* knows the disk it finds.                                                *)
(***************************************************************************)
EXTENDS KeyFilesProofs

----------------------------------------------------------------------------
(***************************************************************************)
(* The invariant.                                                          *)
(***************************************************************************)
Speaks(s) == s.device /\ s.identity

\* A disk that may be died on: the sealed record opens and knows the paper seed if there
\* is one in the open, so that scrubbing loses nothing; and what a restart reads speaks.
Endures(d) ==
  /\ d \in Disk
  /\ d.lock # Absent => /\ Enrolled(d) /\ d.lock.under = d.lock.master
                        /\ d.seed => d.lock.seed
  /\ InUse(d) => Speaks(Readable(d))
  /\ (~Enrolled(d) /\ d.keys # Absent) => d.keys.secrets # Absent /\ d.keys.secrets.device

\* The node object goes with the disk as far as the seed is concerned.  An enable_applock()
\* that failed leaves a record that the node object does not know of; the seed is in the
\* open then.
Linked(d, m) ==
  /\ Enrolled(d)
  /\ m.applock => d.lock # Absent
  /\ (~m.applock /\ d.lock # Absent /\ d.lock.seed) => d.seed
  /\ ~m.revoked => ~d.keys.revoked
  /\ (m.applock /\ ~m.locked /\ ~m.revoked) =>
        m.master = d.lock.master /\ m.seed = d.lock.seed

Knows(d, m) ==
  m.phase # "down" =>
    /\ Linked(d, m)
    /\ (~m.locked /\ ~m.revoked) => ~d.db.revoked /\ Speaks(m.secrets)

\* A sequence of writes from d.  No write fails once the revocation is on file.
FirmAt(d, e, m) ==
  /\ Endures(e) /\ (SeedOn(d) => SeedOn(e))
  /\ ~d.db.revoked => Knows(d, m)

Firm(d, ws) ==
  /\ ws \in Seq(Step)
  /\ \A i \in 1..Len(ws) : FirmAt(Before(d, ws, i), ws[i].disk, ws[i].mem)

FailInv ==
  /\ TypeOK
  /\ Endures(disk)
  /\ Firm(disk, todo)
  /\ Knows(Last(disk, todo), after)
  /\ mem = IF todo = <<>> THEN after ELSE todo[1].mem
  /\ seeded => SeedOn(disk)
----------------------------------------------------------------------------
(***************************************************************************)
(* Sequences of writes.                                                    *)
(***************************************************************************)
LEMMA FirmNothing ==
  ASSUME NEW d
  PROVE  Firm(d, <<>>) /\ Last(d, <<>>) = d
  BY DEF Firm, Last

LEMMA FirmWrite ==
  ASSUME NEW d, NEW e, NEW m \in Memory, FirmAt(d, e, m)
  PROVE  Firm(d, To(e, m)) /\ Last(d, To(e, m)) = e
  <1> DEFINE w == [disk |-> e, mem |-> m]
  <1>1. w \in Step /\ w.disk = e /\ w.mem = m BY DEF FirmAt, Endures, Step
  <1>2. To(e, m) = <<w>> BY DEF To
  <1> HIDE DEF w
  <1>3. <<w>> \in Seq(Step) /\ Len(<<w>>) = 1 /\ <<w>>[1] = w BY <1>1
  <1>4. ASSUME NEW i \in 1..Len(<<w>>)
        PROVE  FirmAt(Before(d, <<w>>, i), <<w>>[i].disk, <<w>>[i].mem)
    <2>1. i = 1 BY <1>3
    <2>. QED BY <2>1, <1>1, <1>3 DEF Before
  <1>5. Firm(d, <<w>>) BY <1>3, <1>4 DEF Firm
  <1>6. Last(d, <<w>>) = e BY <1>1, <1>3 DEF Last
  <1>. QED BY <1>2, <1>5, <1>6

LEMMA FirmThen ==
  ASSUME NEW d, NEW us, NEW vs, Firm(d, us), Firm(Last(d, us), vs)
  PROVE  Firm(d, us \o vs) /\ Last(d, us \o vs) = Last(Last(d, us), vs)
  <1> DEFINE ws == us \o vs
  <1>1. us \in Seq(Step) /\ vs \in Seq(Step) BY DEF Firm
  <1>2. ws \in Seq(Step) /\ Joins(d, ws, us, vs) /\ Last(d, ws) = Last(Last(d, us), vs)
    BY <1>1, ConcatSteps
  <1> HIDE DEF ws
  <1>3. ASSUME NEW i \in 1..Len(ws)
        PROVE  FirmAt(Before(d, ws, i), ws[i].disk, ws[i].mem)
    <2>1. \A j \in 1..Len(us) : FirmAt(Before(d, us, j), us[j].disk, us[j].mem)
      BY DEF Firm
    <2>2. \A j \in 1..Len(vs) : FirmAt(Before(Last(d, us), vs, j), vs[j].disk, vs[j].mem)
      BY DEF Firm
    <2>. QED BY <1>2, <2>1, <2>2 DEF Joins
  <1>. QED BY <1>2, <1>3 DEF Firm, ws

LEMMA FirmFirst ==
  ASSUME NEW d, NEW ws, Firm(d, ws), ws # <<>>
  PROVE  LET e == ws[1].disk
         IN  /\ Head(ws) = ws[1] /\ ws[1] \in Step /\ FirmAt(d, e, ws[1].mem)
             /\ Firm(e, Tail(ws)) /\ Last(e, Tail(ws)) = Last(d, ws)
             /\ Tail(ws) = <<>> <=> Len(ws) = 1
             /\ Tail(ws) # <<>> => Tail(ws)[1] = ws[2]
  <1> DEFINE e == ws[1].disk
             vs == Tail(ws)
  <1>1. ws \in Seq(Step) BY DEF Firm
  <1>2. /\ Head(ws) = ws[1] /\ ws[1] \in Step /\ 1 \in 1..Len(ws) /\ Before(d, ws, 1) = d
        /\ vs \in Seq(Step)
        /\ \A i \in 1..Len(vs) : /\ i + 1 \in 1..Len(ws) /\ vs[i] = ws[i + 1]
                                 /\ Before(e, vs, i) = Before(d, ws, i + 1)
        /\ Last(e, vs) = Last(d, ws)
        /\ vs = <<>> <=> Len(ws) = 1
        /\ vs # <<>> => vs[1] = ws[2]
    BY <1>1, TailSteps
  <1> HIDE DEF vs
  <1>3. FirmAt(d, e, ws[1].mem) BY <1>2 DEF Firm
  <1>4. \A i \in 1..Len(vs) : FirmAt(Before(e, vs, i), vs[i].disk, vs[i].mem)
    BY <1>2 DEF Firm
  <1>5. Firm(e, vs) BY <1>2, <1>4 DEF Firm
  <1>. QED BY <1>2, <1>3, <1>5 DEF vs
----------------------------------------------------------------------------
(***************************************************************************)
(* Disks and node objects.                                                 *)
(***************************************************************************)
\* A write that leaves the record and the seed alone.
LEMMA SameLock ==
  ASSUME NEW d, Endures(d), NEW e \in Disk, e.lock = d.lock, e.seed = d.seed, Enrolled(e),
         InUse(e) => IF d.lock = Absent THEN e.keys.secrets # Absent /\ Speaks(e.keys.secrets)
                     ELSE Speaks(d.lock.secrets)
  PROVE  Endures(e) /\ (SeedOn(d) => SeedOn(e))
  <1>1. SeedOn(d) => SeedOn(e) BY DEF SeedOn
  <1>2. e.keys # Absent BY DEF Enrolled
  <1>3. CASE d.lock = Absent BY <1>1, <1>2, <1>3 DEF Endures, Readable
  <1>4. CASE d.lock # Absent
    <2>1. d.lock.under = d.lock.master /\ (d.seed => d.lock.seed) BY <1>4 DEF Endures
    <2>2. Readable(e) = d.lock.secrets BY <1>4, <2>1 DEF Readable
    <2>. QED BY <1>1, <1>2, <1>4, <2>1, <2>2 DEF Endures
  <1>. QED BY <1>1, <1>3, <1>4

\* What the sealed record of a disk in use says.
LEMMA SealedSpeaks ==
  ASSUME NEW d, Endures(d), InUse(d)
  PROVE  IF d.lock = Absent THEN d.keys.secrets # Absent /\ Speaks(d.keys.secrets)
         ELSE Speaks(d.lock.secrets)
  <1>1. Speaks(Readable(d)) /\ d.keys # Absent BY DEF Endures, InUse, Enrolled
  <1>2. ~Speaks(NoSecrets) BY DEF Speaks, NoSecrets
  <1>3. CASE d.lock = Absent BY <1>1, <1>2, <1>3 DEF Readable
  <1>4. CASE d.lock # Absent BY <1>1, <1>4 DEF Readable, Endures
  <1>. QED BY <1>3, <1>4

\* Only these parts of a node object decide what it knows.
Alike(m, k) ==
  /\ k.phase # "down" => m.phase # "down"
  /\ k.applock = m.applock /\ k.locked = m.locked /\ k.revoked = m.revoked
  /\ k.master = m.master /\ k.seed = m.seed
  /\ Speaks(m.secrets) => Speaks(k.secrets)

LEMMA KnowsAlike ==
  ASSUME NEW d, NEW m, NEW k, Knows(d, m), Alike(m, k)
  PROVE  Knows(d, k)
  BY DEF Knows, Linked, Alike

LEMMA AlikeThen ==
  ASSUME NEW m, NEW k, NEW l, Alike(m, k), Alike(k, l)
  PROVE  Alike(m, l)
  BY DEF Alike

\* A database that is no more revoked is none of the node object's business.
LEMMA KnowsSame ==
  ASSUME NEW d, NEW e, NEW m, Knows(d, m), e.lock = d.lock, e.seed = d.seed,
         e.keys = d.keys, e.db.revoked => d.db.revoked
  PROVE  Knows(e, m)
  BY DEF Knows, Linked, Enrolled
----------------------------------------------------------------------------
(***************************************************************************)
(* _save_keys() and maintain_enckey(), of a node object that is unlocked.  *)
(***************************************************************************)
\* A node object that may sign, and with it write.
Signs(d, m) ==
  /\ m \in Memory /\ m.phase # "down" /\ ~m.locked /\ ~m.revoked
  /\ Knows(d, m)

LEMMA SignsAlike ==
  ASSUME NEW d, NEW m, NEW k \in Memory, Signs(d, m), Alike(m, k), k.phase # "down"
  PROVE  Signs(d, k)
  <1>1. Knows(d, k) BY KnowsAlike DEF Signs
  <1>. QED BY <1>1 DEF Signs, Alike

LEMMA BundleFacts ==
  ASSUME NEW m \in Memory
  PROVE  /\ Bundle(m) \in KeyFile /\ Bundle(m) # Absent /\ Bundle(m).cert
         /\ Bundle(m).secrets = m.secrets /\ Bundle(m).revoked = m.revoked
         /\ NonSecret(Bundle(m)) \in KeyFile /\ NonSecret(Bundle(m)) # Absent
         /\ NonSecret(Bundle(m)).cert /\ NonSecret(Bundle(m)).revoked = m.revoked
         /\ m.secrets \in Secrets /\ m.secrets # Absent
  <1>1. Bundle(m) \in KeyFile /\ Bundle(m).cert
        /\ Bundle(m).secrets = m.secrets /\ Bundle(m).revoked = m.revoked
        /\ m.secrets \in Secrets
    BY DEF Bundle, KeyFile, Memory
  <1>2. NonSecret(Bundle(m)) \in KeyFile /\ NonSecret(Bundle(m)).cert
        /\ NonSecret(Bundle(m)).revoked = m.revoked
    BY <1>1 DEF NonSecret, KeyFile
  <1>. QED BY <1>1, <1>2, AbsentAssumption

LEMMA WriteKeysFacts ==
  ASSUME NEW d \in Disk, NEW keys \in KeyFile
  PROVE  LET e == WriteKeys(d, keys)
         IN  /\ e \in Disk /\ e.keys = keys /\ e.keys # Absent
             /\ e.lock = d.lock /\ e.seed = d.seed /\ e.db = d.db
  BY AbsentAssumption DEF WriteKeys, Disk

LEMMA SaveKeysFirm ==
  ASSUME NEW d, NEW m, Endures(d), Signs(d, m)
  PROVE  LET ws == SaveKeys(d, m)
             e == Last(d, ws)
         IN  Firm(d, ws) /\ Endures(e) /\ Signs(e, m) /\ e.db = d.db
  <1>1. /\ d \in Disk /\ m \in Memory /\ Knows(d, m) /\ Linked(d, m) /\ Enrolled(d)
        /\ ~d.db.revoked /\ ~d.keys.revoked /\ ~m.revoked /\ ~m.locked /\ Speaks(m.secrets)
    BY DEF Endures, Signs, Knows, Linked
  <1>2. InUse(d) BY <1>1 DEF InUse
  <1>3. /\ Bundle(m) \in KeyFile /\ Bundle(m) # Absent /\ Bundle(m).cert
        /\ Bundle(m).secrets = m.secrets /\ Bundle(m).revoked = m.revoked
        /\ NonSecret(Bundle(m)) \in KeyFile /\ NonSecret(Bundle(m)) # Absent
        /\ NonSecret(Bundle(m)).cert /\ NonSecret(Bundle(m)).revoked = m.revoked
        /\ m.secrets \in Secrets /\ m.secrets # Absent
    BY <1>1, BundleFacts
  <1>4. CASE ~m.applock
    <2> DEFINE e == WriteKeys(d, Bundle(m))
    <2>1. e \in Disk /\ e.keys = Bundle(m) /\ e.keys # Absent
          /\ e.lock = d.lock /\ e.seed = d.seed /\ e.db = d.db
      BY <1>1, <1>3, WriteKeysFacts
    <2>2. SaveKeys(d, m) = To(e, m) BY <1>4 DEF SaveKeys
    <2> HIDE DEF e
    <2>3. Enrolled(e) /\ ~e.keys.revoked BY <1>1, <1>3, <2>1 DEF Enrolled
    <2>4. Endures(e) /\ (SeedOn(d) => SeedOn(e))
      BY <1>1, <1>2, <1>3, <2>1, <2>3, SameLock, SealedSpeaks
    <2>5. Knows(e, m) BY <1>1, <1>4, <2>1, <2>3 DEF Knows, Linked
    <2>6. Firm(d, To(e, m)) /\ Last(d, To(e, m)) = e BY <1>1, <2>4, FirmWrite DEF FirmAt
    <2>. QED BY <2>1, <2>2, <2>4, <2>5, <2>6 DEF Signs
  <1>5. CASE m.applock
    <2> DEFINE r == Reencrypt(d.lock, m)
               c == [d EXCEPT !.lock = r]
               e == WriteKeys(c, NonSecret(Bundle(m)))
    <2>1. d.lock # Absent /\ d.lock \in LockFile /\ d.lock.under = d.lock.master
          /\ (d.seed => d.lock.seed) /\ m.master = d.lock.master /\ m.seed = d.lock.seed
      BY <1>1, <1>5, ReadableTypes DEF Linked, Endures
    <2>2. r \in LockFile /\ r.secrets = m.secrets /\ r.seed = d.lock.seed
          /\ r.under = d.lock.master /\ r.master = d.lock.master
      BY <1>1, <1>3, <2>1 DEF Reencrypt, LockFile, Memory
    <2>3. r # Absent BY <2>2, AbsentAssumption
    <2> HIDE DEF r
    <2>4. c \in Disk /\ c.lock = r /\ c.keys = d.keys /\ c.seed = d.seed /\ c.db = d.db
      BY <1>1, <2>2 DEF Disk
    <2>5. SaveKeys(d, m) = To(c, m) \o To(e, m) BY <1>5 DEF SaveKeys, r
    <2> HIDE DEF c
    <2>6. e \in Disk /\ e.keys = NonSecret(Bundle(m)) /\ e.keys # Absent
          /\ e.lock = r /\ e.seed = d.seed /\ e.db = d.db
      BY <1>3, <2>4, WriteKeysFacts
    <2> HIDE DEF e
    <2>7. Enrolled(c) /\ Enrolled(e) BY <1>1, <1>3, <2>4, <2>6 DEF Enrolled
    <2>8. Readable(c) = m.secrets /\ Readable(e) = m.secrets
      BY <2>2, <2>3, <2>4, <2>6 DEF Readable
    <2>9. Endures(c) /\ Endures(e)
      BY <1>1, <2>1, <2>2, <2>3, <2>4, <2>6, <2>7, <2>8 DEF Endures
    <2>10. (SeedOn(d) => SeedOn(c)) /\ (SeedOn(c) => SeedOn(e))
      BY <2>1, <2>2, <2>3, <2>4, <2>6 DEF SeedOn
    <2>11. Knows(c, m) /\ Knows(e, m)
      BY <1>1, <1>3, <1>5, <2>1, <2>2, <2>3, <2>4, <2>6, <2>7 DEF Knows, Linked
    <2>12. Firm(d, To(c, m)) /\ Last(d, To(c, m)) = c
      BY <1>1, <2>9, <2>10, FirmWrite DEF FirmAt
    <2>13. Firm(c, To(e, m)) /\ Last(c, To(e, m)) = e
      BY <1>1, <2>9, <2>10, <2>11, FirmWrite DEF FirmAt
    <2>14. Firm(d, SaveKeys(d, m)) /\ Last(d, SaveKeys(d, m)) = e
      BY <2>5, <2>12, <2>13, FirmThen
    <2>. QED BY <2>6, <2>9, <2>11, <2>14 DEF Signs
  <1>. QED BY <1>1, <1>4, <1>5 DEF Memory

LEMMA KeptAlike ==
  ASSUME NEW m \in Memory, now \in Time
  PROVE  Kept(m) \in Memory /\ Alike(m, Kept(m)) /\ Kept(m).phase = m.phase
  <1>1. Kept(m) \in Memory /\ Kept(m) = [m EXCEPT !.secrets = Kept(m).secrets] BY KeptFacts
  <1>2. /\ Kept(m).applock = m.applock /\ Kept(m).locked = m.locked
        /\ Kept(m).revoked = m.revoked /\ Kept(m).master = m.master /\ Kept(m).seed = m.seed
        /\ Kept(m).phase = m.phase
    BY <1>1, SameButSecrets
  <1>3. Kept(m).secrets = Pruned(m.secrets) BY DEF Kept, Memory
  <1>4. Pruned(m.secrets).device = m.secrets.device
        /\ Pruned(m.secrets).identity = m.secrets.identity
    BY DEF Pruned, Memory, Secrets
  <1>. QED BY <1>1, <1>2, <1>3, <1>4 DEF Alike, Speaks

LEMMA RotatedAlike ==
  ASSUME NEW m \in Memory, NEW key \in Key, now \in Time
  PROVE  Rotated(m, key) \in Memory /\ Alike(m, Rotated(m, key))
         /\ Rotated(m, key).phase = m.phase
  BY RotatedTypes DEF Alike, Speaks

LEMMA SignedAlike ==
  ASSUME NEW m \in Memory
  PROVE  Signed(m) \in Memory /\ Alike(m, Signed(m)) /\ Signed(m).phase = m.phase
  BY DEF Signed, Memory, Alike

LEMMA PublishFirm ==
  ASSUME NEW d, NEW m, now \in Time, Endures(d), Signs(d, m)
  PROVE  LET ws == PublishEnckey(d, m)
             e == Last(d, ws)
         IN  Firm(d, ws) /\ Endures(e) /\ Signs(e, m)
  <1> DEFINE k == Signed(m)
             c == IngestEnckey(d, k)
             e == Last(c, SaveKeys(c, k))
  <1>1. d \in Disk /\ m \in Memory /\ Enrolled(d) /\ ~d.db.revoked /\ ~d.keys.revoked
    BY DEF Endures, Signs, Knows, Linked
  <1>2. k \in Memory /\ Alike(m, k) /\ Alike(k, m) /\ k.phase = m.phase
    BY <1>1, SignedAlike DEF Alike, Signed, Memory
  <1>3. PublishEnckey(d, m) = To(c, k) \o SaveKeys(c, k) BY DEF PublishEnckey
  <1>4. /\ c \in Disk /\ c.keys = d.keys /\ c.lock = d.lock /\ c.seed = d.seed
        /\ c.db.revoked = d.db.revoked
    BY <1>1, <1>2, EnckeyFacts
  <1> HIDE DEF k, c
  <1>5. Signs(d, k) BY <1>2, SignsAlike DEF Signs
  <1>6. Knows(c, k) BY <1>4, <1>5, KnowsSame DEF Signs
  <1>7. Signs(c, k) BY <1>5, <1>6 DEF Signs
  <1>8. InUse(d) /\ Enrolled(c) BY <1>1, <1>4 DEF InUse, Enrolled
  <1>9. Endures(c) /\ (SeedOn(d) => SeedOn(c))
    BY <1>4, <1>8, SameLock, SealedSpeaks
  <1>10. Firm(d, To(c, k)) /\ Last(d, To(c, k)) = c
    BY <1>2, <1>5, <1>9, FirmWrite DEF FirmAt, Signs
  <1>11. Firm(c, SaveKeys(c, k)) /\ Endures(e) /\ Signs(e, k) BY <1>7, <1>9, SaveKeysFirm
  <1>12. Firm(d, PublishEnckey(d, m)) /\ Last(d, PublishEnckey(d, m)) = e
    BY <1>3, <1>10, <1>11, FirmThen
  <1>13. Signs(e, m) BY <1>1, <1>2, <1>11, SignsAlike DEF Signs
  <1>. QED BY <1>11, <1>12, <1>13

LEMMA PruneFirm ==
  ASSUME NEW d, NEW m, now \in Time, Endures(d), Signs(d, m)
  PROVE  LET ws == PruneWrites(d, m)
             e == Last(d, ws)
         IN  Firm(d, ws) /\ Endures(e) /\ Signs(e, Kept(m))
  <1> DEFINE h == Kept(m)
  <1>1. h \in Memory /\ Alike(m, h) /\ h.phase = m.phase BY KeptAlike DEF Signs
  <1> HIDE DEF h
  <1>2. Signs(d, h) BY <1>1, SignsAlike DEF Signs
  <1>3. CASE h = m
    <2>1. PruneWrites(d, m) = <<>> BY <1>3 DEF PruneWrites, h
    <2>. QED BY <1>2, <2>1, FirmNothing DEF h
  <1>4. CASE h # m
    <2>1. PruneWrites(d, m) = SaveKeys(d, h) BY <1>4 DEF PruneWrites, h
    <2>. QED BY <1>2, <2>1, SaveKeysFirm DEF h
  <1>. QED BY <1>3, <1>4

LEMMA RotateFirm ==
  ASSUME NEW d, NEW m, now \in Time, Endures(d), Signs(d, m)
  PROVE  LET ws == RotateWrites(d, m)
             e == Last(d, ws)
         IN  Firm(d, ws) /\ Endures(e) /\ Signs(e, m)
  <1> DEFINE c == Last(d, SaveKeys(d, m))
             e == Last(c, PublishEnckey(c, m))
  <1>1. Firm(d, SaveKeys(d, m)) /\ Endures(c) /\ Signs(c, m) BY SaveKeysFirm
  <1> HIDE DEF c
  <1>2. Firm(c, PublishEnckey(c, m)) /\ Endures(e) /\ Signs(e, m) BY <1>1, PublishFirm
  <1>3. RotateWrites(d, m) = SaveKeys(d, m) \o PublishEnckey(c, m) BY DEF RotateWrites, c
  <1>4. Firm(d, RotateWrites(d, m)) /\ Last(d, RotateWrites(d, m)) = e
    BY <1>1, <1>2, <1>3, FirmThen DEF c
  <1>. QED BY <1>2, <1>4

\* The whole handler, whatever a write that failed before has left behind.
LEMMA MaintainFirm ==
  ASSUME NEW d, NEW m, NEW key \in Key, now \in Time, Endures(d), Signs(d, m)
  PROVE  LET ws == MaintainWrites(d, m, key)
             e == Last(d, ws)
         IN  Firm(d, ws) /\ Endures(e) /\ Signs(e, Maintained(d, m, key))
  <1> DEFINE h == Kept(m)
             us == PruneWrites(d, m)
             b == Last(d, us)
             ws == MaintainWrites(d, m, key)
             e == Last(d, ws)
             k == Maintained(d, m, key)
  <1>1. h \in Memory BY KeptAlike DEF Signs
  <1>2. Firm(d, us) /\ Endures(b) /\ Signs(b, h) BY PruneFirm
  <1>3. k = IF Publishes(d, m) THEN Signed(h)
            ELSE IF Rotates(d, m) THEN Signed(Rotated(h, key)) ELSE h
    BY DEF Maintained, Rotates
  <1>4. ws = us \o (IF Publishes(d, m) THEN PublishEnckey(b, h)
                    ELSE IF Rotates(d, m) THEN RotateWrites(b, Rotated(h, key)) ELSE <<>>)
    BY DEF MaintainWrites
  <1> HIDE DEF h, us, b, ws, k
  <1>5. ASSUME NEW vs, NEW n, Firm(b, vs), Endures(Last(b, vs)), Signs(Last(b, vs), n),
               ws = us \o vs, k = n \/ k = Signed(n)
        PROVE  Firm(d, ws) /\ Endures(e) /\ Signs(e, k)
    <2>1. Firm(d, ws) /\ e = Last(b, vs) BY <1>2, <1>5, FirmThen DEF b
    <2>2. n \in Memory /\ n.phase # "down" BY <1>5 DEF Signs
    <2>3. Signed(n) \in Memory /\ Alike(n, Signed(n)) /\ Signed(n).phase # "down"
      BY <2>2, SignedAlike
    <2> HIDE DEF e
    <2>4. Signs(e, Signed(n)) BY <1>5, <2>1, <2>3, SignsAlike
    <2>. QED BY <1>5, <2>1, <2>4
  <1>6. CASE Publishes(d, m)
    <2> DEFINE vs == PublishEnckey(b, h)
    <2>1. Firm(b, vs) /\ Endures(Last(b, vs)) /\ Signs(Last(b, vs), h)
      BY <1>2, PublishFirm
    <2>2. ws = us \o vs /\ k = Signed(h) BY <1>3, <1>4, <1>6
    <2> HIDE DEF vs
    <2>3. Firm(d, ws) /\ Endures(e) /\ Signs(e, k) BY <1>5, <2>1, <2>2
    <2>. QED BY <2>3 DEF ws, k
  <1>7. CASE ~Publishes(d, m) /\ Rotates(d, m)
    <2> DEFINE n == Rotated(h, key)
               vs == RotateWrites(b, n)
    <2>1. n \in Memory /\ Alike(h, n) /\ n.phase = h.phase BY <1>1, RotatedAlike
    <2> HIDE DEF n
    <2>2. Signs(b, n) BY <1>2, <2>1, SignsAlike DEF Signs
    <2>3. Firm(b, vs) /\ Endures(Last(b, vs)) /\ Signs(Last(b, vs), n)
      BY <1>2, <2>2, RotateFirm
    <2>4. ws = us \o vs /\ k = Signed(n) BY <1>3, <1>4, <1>7 DEF n
    <2> HIDE DEF vs
    <2>5. Firm(d, ws) /\ Endures(e) /\ Signs(e, k) BY <1>5, <2>3, <2>4
    <2>. QED BY <2>5 DEF ws, k
  <1>8. CASE ~Publishes(d, m) /\ ~Rotates(d, m)
    <2>1. Firm(b, <<>>) /\ Last(b, <<>>) = b BY FirmNothing
    <2>2. ws = us \o <<>> /\ k = h BY <1>3, <1>4, <1>8
    <2>3. Firm(d, ws) /\ Endures(e) /\ Signs(e, k) BY <1>2, <1>5, <2>1, <2>2
    <2>. QED BY <2>3 DEF ws, k
  <1>. QED BY <1>6, <1>7, <1>8
----------------------------------------------------------------------------
(***************************************************************************)
(* Revocation, starting and unlocking.                                     *)
(***************************************************************************)
\* No write fails once the revocation is on file, so only the disks count.
LEMMA FirmRevoked ==
  ASSUME NEW d, NEW e, NEW m \in Memory, d.db.revoked, Endures(e), SeedOn(d) => SeedOn(e)
  PROVE  Firm(d, To(e, m)) /\ Last(d, To(e, m)) = e
  BY FirmWrite DEF FirmAt

\* A disk that is not in use endures when its record does.
LEMMA UnusedEndures ==
  ASSUME NEW e \in Disk, Enrolled(e), ~InUse(e),
         e.lock # Absent => e.lock.under = e.lock.master /\ (e.seed => e.lock.seed)
  PROVE  Endures(e)
  BY DEF Endures

LEMMA UnsecureFirm ==
  ASSUME NEW d, NEW m \in Memory, Endures(d), Linked(d, m), d.db.revoked,
         ~m.locked, ~m.revoked
  PROVE  LET ws == UnsecureWrites(d, m)
             e == Last(d, ws)
         IN  /\ Firm(d, ws) /\ Endures(e) /\ Enrolled(e) /\ e.db = d.db
             /\ (e.lock # Absent /\ e.lock.seed) => e.seed
  <1>1. d \in Disk /\ Enrolled(d) /\ ~InUse(d) /\ Stripped(m) \in Memory
    BY RevokedTypes DEF Endures, Linked, InUse
  <1>2. CASE ~m.applock
    <2>1. UnsecureWrites(d, m) = <<>> BY <1>2 DEF UnsecureWrites
    <2>. QED BY <1>1, <1>2, <2>1, FirmNothing DEF Linked
  <1>3. CASE m.applock
    <2> DEFINE us == RestoreWrites(d, m)
               c == Last(d, us)
               e == DropLock(c)
    <2>1. d.lock # Absent /\ d.lock.under = d.lock.master /\ (d.seed => d.lock.seed)
          /\ m.seed = d.lock.seed
      BY <1>3 DEF Linked, Endures
    <2>2. Firm(d, us) /\ c \in Disk /\ c.lock = d.lock /\ c.keys = d.keys /\ c.db = d.db
          /\ (d.lock.seed => c.seed)
      <3>1. CASE ~m.seed
        <4>1. us = <<>> BY <3>1 DEF RestoreWrites
        <4>. QED BY <1>1, <2>1, <3>1, <4>1, FirmNothing
      <3>2. CASE m.seed
        <4> DEFINE r == RestoreSeed(d)
        <4>1. r \in Disk /\ r.seed /\ r.lock = d.lock /\ r.keys = d.keys /\ r.db = d.db
          BY <1>1 DEF RestoreSeed, Disk
        <4>2. us = To(r, Stripped(m)) BY <3>2 DEF RestoreWrites
        <4> HIDE DEF r
        <4>3. Enrolled(r) /\ ~InUse(r) /\ SeedOn(r)
          BY <1>1, <4>1 DEF Enrolled, InUse, SeedOn
        <4>4. Endures(r) BY <2>1, <3>2, <4>1, <4>3, UnusedEndures
        <4>5. Firm(d, To(r, Stripped(m))) /\ Last(d, To(r, Stripped(m))) = r
          BY <1>1, <4>3, <4>4, FirmRevoked
        <4>. QED BY <4>1, <4>2, <4>5
      <3>. QED BY <3>1, <3>2
    <2> HIDE DEF us, c
    <2>3. e \in Disk /\ e.lock = Absent /\ e.keys = d.keys /\ e.db = d.db /\ e.seed = c.seed
      BY <2>2 DEF DropLock, Disk
    <2>4. UnsecureWrites(d, m) = us \o To(e, Stripped(m))
      BY <1>3 DEF UnsecureWrites, us, c
    <2> HIDE DEF e
    <2>5. Enrolled(e) /\ ~InUse(e) BY <1>1, <2>3 DEF Enrolled, InUse
    <2>6. Endures(e) BY <2>3, <2>5, UnusedEndures
    <2>7. SeedOn(c) => SeedOn(e) BY <2>2, <2>3 DEF SeedOn
    <2>8. Firm(c, To(e, Stripped(m))) /\ Last(c, To(e, Stripped(m))) = e
      BY <1>1, <2>2, <2>6, <2>7, FirmRevoked
    <2>9. Firm(d, UnsecureWrites(d, m)) /\ Last(d, UnsecureWrites(d, m)) = e
      BY <2>2, <2>4, <2>8, FirmThen DEF c
    <2>. QED BY <2>3, <2>5, <2>6, <2>9
  <1>. QED BY <1>2, <1>3

\* revoke() ends with a device that knows its disk: there is nothing left to lose but
\* the seed, which lies in the open.
LEMMA RevokeFirm ==
  ASSUME NEW d, NEW m \in Memory, Endures(d), Linked(d, m), d.db.revoked,
         ~m.locked, ~m.revoked
  PROVE  LET ws == RevokeWrites(d, m)
             e == Last(d, ws)
         IN  /\ Firm(d, ws) /\ Endures(e) /\ e.db = EmptyDatabase
             /\ Revoked(m) \in Memory /\ Revoked(m).phase = m.phase /\ Knows(e, Revoked(m))
  <1> DEFINE us == UnsecureWrites(d, m)
             c == Last(d, us)
             dead == WriteKeys(c, Bundle(Revoked(m)))
             e == Wiped(dead)
             k == Unsecured(m)
  <1>1. /\ Firm(d, us) /\ Endures(c) /\ Enrolled(c) /\ c.db = d.db
        /\ (c.lock # Absent /\ c.lock.seed) => c.seed
    BY UnsecureFirm
  <1>2. /\ Bundle(Revoked(m)) \in KeyFile /\ Bundle(Revoked(m)).cert
        /\ Bundle(Revoked(m)).revoked /\ k \in Memory
        /\ Revoked(m) \in Memory /\ Revoked(m).revoked /\ ~Revoked(m).locked
        /\ ~Revoked(m).applock /\ Revoked(m).phase = m.phase
    BY RevokedTypes
  <1>3. RevokeWrites(d, m) = (us \o To(dead, k)) \o To(e, k) BY DEF RevokeWrites
  <1> HIDE DEF us, c, k
  <1>4. /\ dead \in Disk /\ dead.keys = Bundle(Revoked(m)) /\ dead.keys # Absent
        /\ dead.lock = c.lock /\ dead.seed = c.seed /\ dead.db = d.db
    BY <1>1, <1>2, WriteKeysFacts DEF Endures
  <1> HIDE DEF dead
  <1>5. e \in Disk /\ e.keys = dead.keys /\ e.lock = c.lock /\ e.seed = c.seed
        /\ e.db = EmptyDatabase
    BY <1>4, EmptyDatabaseFacts DEF Wiped, Disk
  <1> HIDE DEF e
  <1>6. Enrolled(dead) /\ Enrolled(e) /\ ~InUse(dead) /\ ~InUse(e)
    BY <1>2, <1>4, <1>5 DEF Enrolled, InUse
  <1>7. c.lock # Absent => c.lock.under = c.lock.master /\ (c.seed => c.lock.seed)
    BY <1>1 DEF Endures
  <1>8. Endures(dead) /\ Endures(e) BY <1>4, <1>5, <1>6, <1>7, UnusedEndures
  <1>9. (SeedOn(c) => SeedOn(dead)) /\ (SeedOn(dead) => SeedOn(e))
    BY <1>4, <1>5 DEF SeedOn
  <1>10. Firm(c, To(dead, k)) /\ Last(c, To(dead, k)) = dead
    BY <1>1, <1>2, <1>8, <1>9, FirmRevoked
  <1>11. Firm(dead, To(e, k)) /\ Last(dead, To(e, k)) = e
    BY <1>2, <1>4, <1>8, <1>9, FirmRevoked
  <1>12. Firm(d, us \o To(dead, k)) /\ Last(d, us \o To(dead, k)) = dead
    BY <1>1, <1>10, FirmThen DEF c
  <1>13. Firm(d, RevokeWrites(d, m)) /\ Last(d, RevokeWrites(d, m)) = e
    BY <1>3, <1>11, <1>12, FirmThen
  <1>14. Knows(e, Revoked(m)) BY <1>1, <1>2, <1>5, <1>6 DEF Knows, Linked
  <1>. QED BY <1>2, <1>5, <1>8, <1>13, <1>14

\* What follows once the secrets are in memory.
LEMMA UnsealFirm ==
  ASSUME NEW d, NEW m \in Memory, NEW s, Endures(d), Linked(d, m),
         m.phase # "down", ~m.locked,
         (~m.revoked /\ ~d.db.revoked) => Speaks(m.secrets)
  PROVE  LET ws == Unsealed(d, m, s)
             e == Last(d, ws)
             k == UnsealedNode(d, m)
         IN  Firm(d, ws) /\ Endures(e) /\ k \in Memory /\ k.phase = m.phase /\ Knows(e, k)
  <1>1. CASE m.revoked
    <2>1. Unsealed(d, m, s) = <<>> /\ UnsealedNode(d, m) = m
      BY <1>1 DEF Unsealed, UnsealedNode
    <2>2. Knows(d, m) BY <1>1 DEF Knows
    <2>. QED BY <2>1, <2>2, FirmNothing
  <1>2. CASE ~m.revoked /\ d.db.revoked
    <2>1. Unsealed(d, m, s) = RevokeWrites(d, m) /\ UnsealedNode(d, m) = Revoked(m)
      BY <1>2 DEF Unsealed, UnsealedNode
    <2>. QED BY <1>2, <2>1, RevokeFirm
  <1>3. CASE ~m.revoked /\ ~d.db.revoked
    <2>1. UnsealedNode(d, m) = m BY <1>3 DEF UnsealedNode
    <2>2. Knows(d, m) /\ Signs(d, m) BY <1>3 DEF Knows, Signs
    <2>3. CASE NeedsStorage(s)
      <3>1. Unsealed(d, m, s) = SaveKeys(d, m) BY <1>3, <2>3 DEF Unsealed
      <3>. QED BY <2>1, <2>2, <3>1, SaveKeysFirm DEF Signs
    <2>4. CASE ~NeedsStorage(s)
      <3>1. Unsealed(d, m, s) = <<>> BY <1>3, <2>4 DEF Unsealed
      <3>. QED BY <2>1, <2>2, <3>1, FirmNothing
    <2>. QED BY <2>3, <2>4
  <1>. QED BY <1>1, <1>2, <1>3
----------------------------------------------------------------------------
(***************************************************************************)
(* What every step has to show.                                            *)
(***************************************************************************)
LEMMA FailFacts ==
  ASSUME FailInv
  PROVE  /\ now \in Time /\ minted \in Key /\ minted \in Nat /\ spent \in Spent
         /\ disk \in Disk /\ disk.db \in Database /\ mem \in Memory /\ after \in Memory
         /\ Endures(disk)
         /\ Idle => Knows(disk, mem)
         /\ (Idle /\ Unlocked) => /\ Signs(disk, mem) /\ Linked(disk, mem) /\ InUse(disk)
                                  /\ Speaks(mem.secrets)
         /\ ~disk.db.revoked => Knows(disk, mem)
  <1>1. Idle => Knows(disk, mem) BY DEF Idle, FailInv, Last
  <1>2. ~disk.db.revoked => Knows(disk, mem)
    <2>1. CASE Idle BY <1>1, <2>1
    <2>2. CASE ~Idle
      <3>1. todo # <<>> /\ mem = todo[1].mem BY <2>2 DEF Idle, FailInv
      <3>2. FirmAt(disk, todo[1].disk, todo[1].mem) BY <3>1, FirmFirst DEF FailInv
      <3>. QED BY <3>1, <3>2 DEF FirmAt
    <2>. QED BY <2>1, <2>2
  <1>3. mem \in Memory /\ disk \in Disk BY DEF FailInv, TypeOK
  <1>4. (Idle /\ Unlocked) => /\ Signs(disk, mem) /\ Linked(disk, mem) /\ InUse(disk)
                              /\ Speaks(mem.secrets)
    BY <1>1, <1>3 DEF Unlocked, Signs, Knows, Linked, InUse
  <1>. QED BY <1>1, <1>2, <1>3, <1>4, NumberTypes, ReadableTypes DEF FailInv, TypeOK

LEMMA RunFirm ==
  ASSUME FailInv, NEW ws, NEW then \in Memory, Run(ws, then),
         minted' \in Key, spent' \in Spent,
         Firm(disk, ws), Knows(Last(disk, ws), then)
  PROVE  FailInv'
  <1>1. /\ todo' = ws /\ after' = then /\ disk' = disk /\ now' = now /\ given' = given
        /\ seeded' = seeded /\ mem' = IF ws = <<>> THEN then ELSE Head(ws).mem
    BY DEF Run
  <1>2. ws \in Seq(Step) BY DEF Firm
  <1>3. ws # <<>> => Head(ws) = ws[1] /\ ws[1] \in Step BY <1>2, HeadTailProperties
  <1>4. mem' = (IF todo' = <<>> THEN after' ELSE todo'[1].mem) BY <1>1, <1>3
  <1>5. mem' \in Memory BY <1>1, <1>3 DEF Step
  <1>6. \A i \in 1..Len(ws) : ws[i] \in Step BY <1>2
  <1>7. TypeOK' BY <1>1, <1>5, <1>6 DEF TypeOK, FailInv, Key
  <1>8. Endures(disk) /\ (seeded => SeedOn(disk)) BY DEF FailInv
  <1>. QED BY <1>1, <1>4, <1>7, <1>8 DEF FailInv, SeedOn, Endures, Firm, Knows

\* A handler that writes nothing.
LEMMA RunNothing ==
  ASSUME FailInv, NEW then \in Memory, Run(<<>>, then), minted' \in Key, spent' \in Spent,
         Knows(disk, then)
  PROVE  FailInv'
  BY FirmNothing, RunFirm

LEMMA WriteFirm ==
  ASSUME FailInv, Write
  PROVE  FailInv'
  <1> DEFINE e == todo[1].disk
  <1>1. Firm(disk, todo) /\ todo # <<>> BY DEF Write, Idle, FailInv
  <1>2. /\ Head(todo) = todo[1] /\ todo[1] \in Step
        /\ FirmAt(disk, e, todo[1].mem)
        /\ Firm(e, Tail(todo)) /\ Last(e, Tail(todo)) = Last(disk, todo)
        /\ Tail(todo) = <<>> <=> Len(todo) = 1
        /\ Tail(todo) # <<>> => Tail(todo)[1] = todo[2]
    BY <1>1, FirmFirst
  <1>3. /\ disk' = e /\ todo' = Tail(todo) /\ seeded' = (seeded \/ e.seed)
        /\ mem' = (IF Len(todo) = 1 THEN after ELSE todo[2].mem)
        /\ after' = after /\ now' = now /\ minted' = minted /\ given' = given /\ spent' = spent
    BY <1>2 DEF Write
  <1>4. Tail(todo) \in Seq(Step) BY <1>2 DEF Firm
  <1>5. \A i \in 1..Len(Tail(todo)) : Tail(todo)[i] \in Step BY <1>4
  <1>6. Tail(todo) # <<>> => Tail(todo)[1] \in Step BY <1>4, HeadTailProperties
  <1>7. mem' = (IF todo' = <<>> THEN after' ELSE todo'[1].mem) BY <1>2, <1>3
  <1>8. mem' \in Memory BY <1>6, <1>7, <1>3 DEF Step, FailInv, TypeOK
  <1>9. Endures(e) /\ (SeedOn(disk) => SeedOn(e)) BY <1>2 DEF FirmAt
  <1>10. e \in Disk /\ e.seed \in BOOLEAN BY <1>9 DEF Endures, Disk
  <1>11. TypeOK'
    <2>1. seeded' \in BOOLEAN BY <1>3
    <2>. QED BY <1>3, <1>5, <1>8, <1>10, <2>1 DEF TypeOK, FailInv, Key
  <1>12. seeded' => SeedOn(e) BY <1>3, <1>9 DEF FailInv, SeedOn
  <1>13. Knows(Last(disk, todo), after) BY DEF FailInv
  <1>. QED BY <1>2, <1>3, <1>7, <1>9, <1>11, <1>12, <1>13
       DEF FailInv, SeedOn, Endures, Firm, Knows

\* The handler stops where it is, and so does its node object.
LEMMA FailedWriteFirm ==
  ASSUME FailInv, FailedWrite
  PROVE  FailInv'
  <1>1. /\ ~disk.db.revoked /\ todo' = <<>> /\ after' = mem /\ disk' = disk /\ mem' = mem
        /\ now' = now /\ minted' = minted /\ given' = given /\ seeded' = seeded
        /\ spent' = [spent EXCEPT !.failures = @ + 1] /\ spent.failures < MaxFailures
    BY DEF FailedWrite
  <1>2. mem \in Memory /\ Knows(disk, mem) /\ spent \in Spent BY <1>1, FailFacts
  <1>3. spent' \in Spent
    <2>1. spent.failures + 1 \in 0..MaxFailures BY <1>1, <1>2, KeyBounds DEF Spent
    <2>. QED BY <1>1, <1>2, <2>1 DEF Spent
  <1>4. TypeOK' BY <1>1, <1>2, <1>3 DEF TypeOK, FailInv, Key
  <1>5. Firm(disk, <<>>) /\ Last(disk, <<>>) = disk BY FirmNothing
  <1>6. Endures(disk) /\ (seeded => SeedOn(disk)) BY DEF FailInv
  <1>. QED BY <1>1, <1>2, <1>4, <1>5, <1>6 DEF FailInv, SeedOn, Endures, Firm, Knows

LEMMA DownKnows ==
  Down \in Memory /\ \A d : Knows(d, Down)
  BY DownFacts DEF Knows

LEMMA CrashFirm ==
  ASSUME FailInv, Crash
  PROVE  FailInv'
  <1>1. /\ mem' = Down /\ todo' = <<>> /\ after' = Down /\ disk' = disk /\ now' = now
        /\ minted' = minted /\ given' = given /\ seeded' = seeded
        /\ spent' = [spent EXCEPT !.crashes = @ + 1] /\ spent.crashes < MaxCrashes
    BY DEF Crash
  <1>2. spent' \in Spent
    <2>1. spent \in Spent /\ MaxCrashes \in Nat BY KeyBounds DEF FailInv, TypeOK
    <2>2. spent.crashes + 1 \in 0..MaxCrashes BY <1>1, <2>1 DEF Spent
    <2>. QED BY <1>1, <2>1, <2>2 DEF Spent
  <1>3. TypeOK' BY <1>1, <1>2, DownKnows DEF TypeOK, FailInv, Key
  <1>4. Firm(disk, <<>>) /\ Last(disk, <<>>) = disk /\ Knows(disk, Down)
    BY FirmNothing, DownKnows
  <1>5. Endures(disk) /\ (seeded => SeedOn(disk)) BY DEF FailInv
  <1>. QED BY <1>1, <1>3, <1>4, <1>5 DEF FailInv, SeedOn, Endures, Firm, Knows

LEMMA TickOrShareFirm ==
  ASSUME FailInv, Tick \/ Share
  PROVE  FailInv'
  <1>1. /\ mem' = mem /\ todo' = todo /\ after' = after /\ disk' = disk /\ minted' = minted
        /\ seeded' = seeded /\ spent' = spent
    BY DEF Tick, Share
  <1>2. now' \in Time /\ given' \subseteq Key
    <2>1. CASE Tick
      <3>1. now < MaxTime /\ now' = now + 1 /\ given' = given BY <2>1 DEF Tick
      <3>. QED BY <3>1, FailFacts, NumberTypes DEF Time, FailInv, TypeOK
    <2>2. CASE Share
      <3>1. now' = now /\ given' = given \union Synced BY <2>2 DEF Share
      <3>2. disk.db.enckey.key \in Key BY FailFacts DEF Database
      <3>. QED BY <3>1, <3>2 DEF Synced, FailInv, TypeOK
    <2>. QED BY <2>1, <2>2
  <1>3. TypeOK' BY <1>1, <1>2 DEF TypeOK, FailInv, Key
  <1>. QED BY <1>1, <1>3 DEF FailInv, SeedOn, Endures, Firm, Knows
----------------------------------------------------------------------------
(***************************************************************************)
(* Enrolling: no app lock yet, and every disk is one with fresh keys.      *)
(***************************************************************************)
LEMMA FreshEndures ==
  ASSUME NEW e \in Disk, e.lock = Absent, e.keys # Absent, e.keys.secrets # Absent,
         e.keys.secrets.device, e.keys.cert => e.keys.secrets.identity
  PROVE  Endures(e)
  <1>1. Readable(e) = e.keys.secrets BY DEF Readable
  <1>. QED BY <1>1 DEF Endures, InUse, Enrolled, Speaks

LEMMA DownWrite ==
  ASSUME NEW d, NEW e, Endures(e), SeedOn(d) => SeedOn(e)
  PROVE  Firm(d, To(e, Down)) /\ Last(d, To(e, Down)) = e
  BY DownKnows, FirmWrite DEF FirmAt

LEMMA UnenrolledEndures ==
  ASSUME FailInv, ~Enrolled(disk)
  PROVE  disk.lock = Absent /\ disk \in Disk /\ disk.db \in Database
         /\ (disk.keys # Absent => disk.keys.secrets # Absent /\ disk.keys.secrets.device)
  BY FailFacts DEF Endures

LEMMA CreateFirm ==
  ASSUME FailInv, Create
  PROVE  FailInv'
  <1> DEFINE keys == FreshKeys(TRUE)
             written == WriteKeys(disk, keys)
             noted == [written EXCEPT !.seed = TRUE]
             installed == Install(noted)
             profile == [installed EXCEPT !.db.top = 1]
             saved == WriteKeys(profile, [keys EXCEPT !.seq = 1])
  <1>1. /\ ~Enrolled(disk) /\ minted + 2 <= MaxKeys /\ minted' = minted + 2 /\ spent' = spent
        /\ Run(To(written, Down) \o To(noted, Down) \o To(installed, Down)
                  \o To(profile, Down) \o To(saved, Down), Down)
    BY DEF Create
  <1>2. minted \in Nat /\ minted' \in Key /\ disk \in Disk /\ spent \in Spent
        /\ disk.lock = Absent /\ disk.db \in Database
    BY <1>1, FailFacts, UnenrolledEndures, KeyBounds DEF Key
  <1>3. /\ keys \in KeyFile /\ keys # Absent /\ keys.secrets # Absent
        /\ keys.secrets.device /\ (keys.cert => keys.secrets.identity)
    <2>1. TRUE \in BOOLEAN OBVIOUS
    <2>. QED BY <1>1, <1>2, <2>1, FreshKeysFacts
  <1> HIDE DEF keys
  <1> DEFINE last == [keys EXCEPT !.seq = 1]
  <1>4. /\ last \in KeyFile /\ last # Absent /\ last.secrets = keys.secrets
        /\ last.cert = keys.cert
    BY <1>3, AbsentAssumption DEF KeyFile
  <1> HIDE DEF last
  <1>5. /\ written \in Disk /\ written.keys = keys /\ written.lock = Absent
        /\ written.db = disk.db /\ written.seed = disk.seed
    BY <1>2, <1>3, WriteKeysFacts
  <1> HIDE DEF written
  <1>6. /\ noted \in Disk /\ noted.keys = keys /\ noted.lock = Absent
        /\ noted.db = disk.db /\ noted.seed
    BY <1>5 DEF Disk
  <1> HIDE DEF noted
  <1>7. /\ installed \in Disk /\ installed.keys = keys /\ installed.lock = Absent
        /\ installed.db \in Database /\ installed.seed
    BY <1>2, <1>6 DEF Disk, Database, Install
  <1> HIDE DEF installed
  <1>8. /\ profile \in Disk /\ profile.keys = keys /\ profile.lock = Absent /\ profile.seed
    BY <1>7 DEF Disk, Database
  <1> HIDE DEF profile
  <1>9. /\ saved \in Disk /\ saved.keys = last /\ saved.lock = Absent /\ saved.seed
    BY <1>4, <1>8, WriteKeysFacts DEF last
  <1> HIDE DEF saved
  <1>10. /\ Endures(written) /\ Endures(noted) /\ Endures(installed) /\ Endures(profile)
         /\ Endures(saved)
    BY <1>3, <1>4, <1>5, <1>6, <1>7, <1>8, <1>9, FreshEndures
  <1>11. /\ SeedOn(disk) => SeedOn(written)
         /\ SeedOn(noted) /\ SeedOn(installed) /\ SeedOn(profile) /\ SeedOn(saved)
    BY <1>2, <1>5, <1>6, <1>7, <1>8, <1>9 DEF SeedOn
  <1>12. /\ Firm(disk, To(written, Down)) /\ Last(disk, To(written, Down)) = written
         /\ Firm(written, To(noted, Down)) /\ Last(written, To(noted, Down)) = noted
         /\ Firm(noted, To(installed, Down)) /\ Last(noted, To(installed, Down)) = installed
         /\ Firm(installed, To(profile, Down)) /\ Last(installed, To(profile, Down)) = profile
         /\ Firm(profile, To(saved, Down)) /\ Last(profile, To(saved, Down)) = saved
    BY <1>10, <1>11, DownWrite
  <1> DEFINE w2 == To(written, Down) \o To(noted, Down)
             w3 == w2 \o To(installed, Down)
             w4 == w3 \o To(profile, Down)
             w5 == w4 \o To(saved, Down)
  <1>13. Firm(disk, w2) /\ Last(disk, w2) = noted BY <1>12, FirmThen
  <1> HIDE DEF w2
  <1>14. Firm(disk, w3) /\ Last(disk, w3) = installed BY <1>12, <1>13, FirmThen
  <1> HIDE DEF w3
  <1>15. Firm(disk, w4) /\ Last(disk, w4) = profile BY <1>12, <1>14, FirmThen
  <1> HIDE DEF w4
  <1>16. Firm(disk, w5) BY <1>12, <1>15, FirmThen
  <1>17. Run(w5, Down) BY <1>1 DEF w2, w3, w4
  <1> HIDE DEF w5
  <1>. QED BY <1>1, <1>2, <1>16, <1>17, DownKnows, RunFirm

LEMMA PairRequestFirm ==
  ASSUME FailInv, PairRequest
  PROVE  FailInv'
  <1> DEFINE keys == FreshKeys(FALSE)
             written == WriteKeys(disk, keys)
  <1>1. /\ ~Enrolled(disk) /\ minted + 2 <= MaxKeys /\ minted' = minted + 2 /\ spent' = spent
        /\ Run(To(written, Down), Down)
    BY DEF PairRequest
  <1>2. minted \in Nat /\ minted' \in Key /\ disk \in Disk /\ spent \in Spent
        /\ disk.lock = Absent
    BY <1>1, FailFacts, UnenrolledEndures, KeyBounds DEF Key
  <1>3. /\ keys \in KeyFile /\ keys # Absent /\ keys.secrets # Absent
        /\ keys.secrets.device /\ (keys.cert => keys.secrets.identity)
    <2>1. FALSE \in BOOLEAN OBVIOUS
    <2>. QED BY <1>1, <1>2, <2>1, FreshKeysFacts
  <1> HIDE DEF keys
  <1>4. /\ written \in Disk /\ written.keys = keys /\ written.lock = Absent
        /\ written.seed = disk.seed
    BY <1>2, <1>3, WriteKeysFacts
  <1> HIDE DEF written
  <1>5. Endures(written) BY <1>3, <1>4, FreshEndures
  <1>6. SeedOn(disk) => SeedOn(written) BY <1>2, <1>4 DEF SeedOn
  <1>7. Firm(disk, To(written, Down)) BY <1>5, <1>6, DownWrite
  <1>. QED BY <1>1, <1>2, <1>7, DownKnows, RunFirm

LEMMA PairInstallFirm ==
  ASSUME FailInv, PairInstall
  PROVE  FailInv'
  <1> DEFINE keys == [disk.keys EXCEPT !.cert = TRUE, !.secrets.identity = TRUE]
             written == WriteKeys(disk, keys)
             installed == Install(written)
  <1>1. /\ disk.keys # Absent /\ ~disk.keys.cert /\ minted' = minted /\ spent' = spent
        /\ Run(To(written, Down) \o To(installed, Down), Down)
    BY DEF PairInstall
  <1>2. minted \in Key /\ disk \in Disk /\ spent \in Spent
        /\ disk.lock = Absent /\ disk.db \in Database
        /\ disk.keys.secrets # Absent /\ disk.keys.secrets.device
    BY <1>1, FailFacts, UnenrolledEndures DEF Enrolled
  <1>3. disk.keys \in KeyFile /\ disk.keys.secrets \in Secrets
    BY <1>1, <1>2, ReadableTypes
  <1> DEFINE s == [disk.keys.secrets EXCEPT !.identity = TRUE]
  <1>4. s \in Secrets /\ s.device /\ s.identity /\ s # Absent
    BY <1>2, <1>3, AbsentAssumption DEF Secrets
  <1>5. keys = [disk.keys EXCEPT !.cert = TRUE, !.secrets = s] BY <1>3 DEF KeyFile
  <1> HIDE DEF s, keys
  <1>6. keys \in KeyFile /\ keys # Absent /\ keys.secrets = s
    BY <1>3, <1>4, <1>5, AbsentAssumption DEF KeyFile
  <1>7. /\ written \in Disk /\ written.keys = keys /\ written.lock = Absent
        /\ written.db = disk.db /\ written.seed = disk.seed
    BY <1>2, <1>6, WriteKeysFacts
  <1> HIDE DEF written
  <1>8. /\ installed \in Disk /\ installed.keys = keys /\ installed.lock = Absent
        /\ installed.seed = disk.seed
    BY <1>2, <1>7 DEF Disk, Database, Install
  <1> HIDE DEF installed
  <1>9. Endures(written) /\ Endures(installed)
    BY <1>4, <1>6, <1>7, <1>8, FreshEndures
  <1>10. (SeedOn(disk) => SeedOn(written)) /\ (SeedOn(written) => SeedOn(installed))
    BY <1>2, <1>7, <1>8 DEF SeedOn
  <1>11. /\ Firm(disk, To(written, Down)) /\ Last(disk, To(written, Down)) = written
         /\ Firm(written, To(installed, Down))
    BY <1>9, <1>10, DownWrite
  <1>12. Firm(disk, To(written, Down) \o To(installed, Down)) BY <1>11, FirmThen
  <1>. QED BY <1>1, <1>2, <1>12, DownKnows, RunFirm
----------------------------------------------------------------------------
(***************************************************************************)
(* Starting and unlocking.                                                 *)
(***************************************************************************)
LEMMA BootLockedFirm ==
  ASSUME FailInv, BootLocked
  PROVE  FailInv'
  <1> DEFINE m == LockedNode(disk)
             bare == IF disk.keys.secrets = Absent THEN <<>>
                     ELSE To(WriteKeys(disk, NonSecret(disk.keys)), m)
             c == Last(disk, bare)
             e == [c EXCEPT !.seed = FALSE]
             rest == IF c.seed THEN To(e, m) ELSE <<>>
             z == Last(c, rest)
  <1>1. /\ Enrolled(disk) /\ disk.lock # Absent /\ minted' = minted /\ spent' = spent
        /\ Run(Scrub(disk, m), m)
    BY DEF BootLocked
  <1>2. minted \in Key /\ disk \in Disk /\ spent \in Spent /\ Endures(disk) BY FailFacts
  <1>3. /\ disk.keys \in KeyFile /\ disk.keys # Absent /\ disk.keys.cert
        /\ disk.lock.under = disk.lock.master /\ (disk.seed => disk.lock.seed)
    BY <1>1, <1>2, ReadableTypes DEF Enrolled, Endures
  <1>4. /\ m \in Memory /\ m.applock /\ m.locked /\ m.revoked = disk.keys.revoked
    <2>1. disk.keys.revoked \in BOOLEAN /\ disk.keys.pub \in Key /\ disk.keys.seq \in Nat
      BY <1>3 DEF KeyFile
    <2>. QED BY <2>1, DownFacts DEF LockedNode, Memory
  <1> HIDE DEF m
  <1>5. ASSUME NEW d \in Disk, d.lock = disk.lock, Enrolled(d), d.db = disk.db,
               d.keys.revoked = disk.keys.revoked, d.seed => disk.seed
        PROVE  Endures(d) /\ Knows(d, m) /\ (SeedOn(disk) => SeedOn(d))
    <2>1. Readable(d) = disk.lock.secrets /\ Readable(disk) = disk.lock.secrets
      BY <1>1, <1>3, <1>5 DEF Readable
    <2>2. InUse(d) => InUse(disk) BY <1>1, <1>5 DEF InUse
    <2>3. Endures(d) BY <1>2, <1>3, <1>5, <2>1, <2>2 DEF Endures
    <2>4. SeedOn(disk) => SeedOn(d) BY <1>1, <1>3, <1>5 DEF SeedOn
    <2>5. Knows(d, m) BY <1>1, <1>4, <1>5 DEF Knows, Linked
    <2>. QED BY <2>3, <2>4, <2>5
  <1>6. /\ Firm(disk, bare) /\ c \in Disk
        /\ c.lock = disk.lock /\ Enrolled(c) /\ c.db = disk.db
        /\ c.keys.revoked = disk.keys.revoked /\ c.seed = disk.seed
    <2>1. CASE disk.keys.secrets = Absent
      <3>1. bare = <<>> BY <2>1
      <3> HIDE DEF bare
      <3>. QED BY <1>1, <1>2, <3>1, FirmNothing
    <2>2. CASE disk.keys.secrets # Absent
      <3> DEFINE w == WriteKeys(disk, NonSecret(disk.keys))
      <3>1. NonSecret(disk.keys) \in KeyFile /\ NonSecret(disk.keys).cert
            /\ NonSecret(disk.keys).revoked = disk.keys.revoked
        BY <1>3 DEF NonSecret, KeyFile
      <3>2. /\ w \in Disk /\ w.keys = NonSecret(disk.keys) /\ w.keys # Absent
            /\ w.lock = disk.lock /\ w.db = disk.db /\ w.seed = disk.seed
        BY <1>2, <3>1, WriteKeysFacts
      <3>3. bare = To(w, m) BY <2>2
      <3> HIDE DEF w, bare
      <3>4. Enrolled(w) BY <3>1, <3>2 DEF Enrolled
      <3>5. Enrolled(disk) /\ Knows(disk, m) BY <1>1, <1>2, <1>5
      <3>6. Endures(w) /\ (SeedOn(disk) => SeedOn(w)) BY <1>5, <3>1, <3>2, <3>4
      <3>7. Firm(disk, bare) /\ c = w BY <1>4, <3>3, <3>5, <3>6, FirmWrite DEF FirmAt
      <3> HIDE DEF c
      <3>. QED BY <3>1, <3>2, <3>4, <3>7
    <2>. QED BY <2>1, <2>2
  <1>7. Scrub(disk, m) = bare \o rest BY DEF Scrub
  <1> HIDE DEF bare, c
  <1>8. Endures(c) /\ Knows(c, m) /\ (SeedOn(disk) => SeedOn(c)) BY <1>5, <1>6
  <1>9. Firm(c, rest) /\ Knows(z, m)
    <2>1. CASE ~c.seed
      <3>1. rest = <<>> BY <2>1
      <3> HIDE DEF rest
      <3>. QED BY <1>8, <3>1, FirmNothing
    <2>2. CASE c.seed
      <3>1. /\ e \in Disk /\ e.keys = c.keys /\ e.lock = disk.lock /\ e.db = disk.db
            /\ ~e.seed
        BY <1>6 DEF Disk
      <3>2. rest = To(e, m) BY <2>2
      <3> HIDE DEF rest, e
      <3>3. Enrolled(e) BY <1>6, <3>1 DEF Enrolled
      <3>4. Endures(e) /\ Knows(e, m) BY <1>5, <1>6, <3>1, <3>3
      <3>5. SeedOn(e) BY <1>1, <1>3, <1>6, <2>2, <3>1 DEF SeedOn
      <3>6. Firm(c, rest) /\ z = e BY <1>4, <1>8, <3>2, <3>4, <3>5, FirmWrite DEF FirmAt
      <3> HIDE DEF z
      <3>. QED BY <3>4, <3>6
    <2>. QED BY <2>1, <2>2
  <1> HIDE DEF rest, z
  <1>10. Firm(disk, Scrub(disk, m)) /\ Last(disk, Scrub(disk, m)) = z
    BY <1>6, <1>7, <1>9, FirmThen DEF c, z
  <1>. QED BY <1>1, <1>2, <1>4, <1>9, <1>10, RunFirm

\* A write to the database that says no more of a revocation than before.
LEMMA DbFirm ==
  ASSUME NEW d, NEW k \in Memory, NEW e \in Disk, Endures(d), Knows(d, k), k.phase # "down",
         e.keys = d.keys, e.lock = d.lock, e.seed = d.seed, e.db.revoked = d.db.revoked
  PROVE  /\ Firm(d, To(e, k)) /\ Last(d, To(e, k)) = e
         /\ Endures(e) /\ Knows(e, k)
  <1>1. Enrolled(d) /\ Enrolled(e) BY DEF Knows, Linked, Enrolled
  <1>2. InUse(e) => InUse(d) BY <1>1 DEF InUse
  <1>3. Endures(e) /\ (SeedOn(d) => SeedOn(e)) BY <1>1, <1>2, SameLock, SealedSpeaks
  <1>4. Knows(e, k) BY KnowsSame
  <1>. QED BY <1>3, <1>4, FirmWrite DEF FirmAt

LEMMA PinnedSpeaks ==
  ASSUME NEW s \in Secrets, minted \in Key, Mints(s)
  PROVE  minted' \in Key /\ Pinned(s) \in Secrets /\ (Speaks(s) => Speaks(Pinned(s)))
  <1>1. CASE ~NeedsStorage(s) BY <1>1 DEF Mints, Pinned
  <1>2. CASE NeedsStorage(s)
    <2>1. minted + 1 \in Key /\ minted' = minted + 1
      BY <1>2, NumberTypes DEF Mints, Key
    <2>2. Pinned(s) = [s EXCEPT !.storage = minted + 1] BY <1>2 DEF Pinned
    <2>. QED BY <2>1, <2>2 DEF Secrets, Speaks
  <1>. QED BY <1>1, <1>2

LEMMA BootFirm ==
  ASSUME FailInv, Boot
  PROVE  FailInv'
  <1> DEFINE s == disk.keys.secrets
             m == [Down EXCEPT !.phase = "starting", !.revoked = disk.keys.revoked,
                               !.secrets = Pinned(s), !.pub = disk.keys.pub,
                               !.seq = disk.keys.seq]
  <1>1. /\ Enrolled(disk) /\ disk.lock = Absent /\ s # Absent /\ Mints(s) /\ spent' = spent
        /\ Run(Unsealed(disk, m, s), UnsealedNode(disk, m))
    BY DEF Boot
  <1>2. disk \in Disk /\ spent \in Spent /\ minted \in Key /\ Endures(disk) BY FailFacts
  <1>3. disk.keys \in KeyFile /\ s \in Secrets BY <1>1, <1>2, ReadableTypes DEF Enrolled
  <1>4. minted' \in Key /\ Pinned(s) \in Secrets /\ (Speaks(s) => Speaks(Pinned(s)))
    BY <1>1, <1>2, <1>3, PinnedSpeaks
  <1>5. /\ m \in Memory /\ m.phase = "starting" /\ ~m.locked /\ ~m.applock
        /\ m.revoked = disk.keys.revoked /\ m.secrets = Pinned(s)
    <2>1. disk.keys.revoked \in BOOLEAN /\ disk.keys.pub \in Key /\ disk.keys.seq \in Nat
      BY <1>3 DEF KeyFile
    <2>. QED BY <1>4, <2>1, DownFacts DEF Down, Memory
  <1>6. (~disk.keys.revoked /\ ~disk.db.revoked) => Speaks(s)
    BY <1>1, <1>2, SealedSpeaks DEF InUse
  <1> HIDE DEF m, s
  <1>7. Linked(disk, m) BY <1>1, <1>5 DEF Linked
  <1>8. /\ Firm(disk, Unsealed(disk, m, s)) /\ UnsealedNode(disk, m) \in Memory
        /\ Knows(Last(disk, Unsealed(disk, m, s)), UnsealedNode(disk, m))
    BY <1>2, <1>4, <1>5, <1>6, <1>7, UnsealFirm
  <1>. QED BY <1>1, <1>2, <1>4, <1>8, RunFirm

LEMMA UnlockFirm ==
  ASSUME FailInv, NEW c \in Credential, Unlock(c)
  PROVE  FailInv'
  <1> DEFINE s == disk.lock.secrets
             m == [mem EXCEPT !.locked = FALSE, !.secrets = Pinned(s),
                              !.seed = disk.lock.seed, !.master = disk.lock.master,
                              !.pub = disk.keys.pub, !.seq = disk.keys.seq, !.kept = FALSE]
             ws == Unsealed(disk, m, s)
             e == Last(disk, ws)
             z == [e EXCEPT !.db.marked = {}]
             then == UnsealedNode(disk, m)
  <1>1. /\ Idle /\ mem.phase = "serving" /\ mem.applock /\ mem.locked /\ Mints(s)
        /\ spent' = spent /\ Run(ws \o To(z, then), then)
    BY DEF Unlock, Serving
  <1>2. disk \in Disk /\ spent \in Spent /\ minted \in Key /\ mem \in Memory
        /\ Endures(disk) /\ Linked(disk, mem)
    BY <1>1, FailFacts DEF Knows
  <1>3. disk.lock # Absent /\ disk.keys # Absent BY <1>1, <1>2 DEF Linked, Enrolled
  <1>4. disk.keys \in KeyFile /\ disk.lock \in LockFile /\ s \in Secrets
    BY <1>2, <1>3, ReadableTypes DEF LockFile
  <1>5. minted' \in Key /\ Pinned(s) \in Secrets /\ (Speaks(s) => Speaks(Pinned(s)))
    BY <1>1, <1>2, <1>4, PinnedSpeaks
  <1>6. /\ m \in Memory /\ m.phase = "serving" /\ ~m.locked /\ m.applock
        /\ m.revoked = mem.revoked /\ m.secrets = Pinned(s)
        /\ m.master = disk.lock.master /\ m.seed = disk.lock.seed
    <2>1. disk.keys.pub \in Key /\ disk.keys.seq \in Nat
          /\ disk.lock.master \in 0..2 /\ disk.lock.seed \in BOOLEAN
      BY <1>4 DEF KeyFile, LockFile
    <2>. QED BY <1>1, <1>2, <1>5, <2>1 DEF Memory
  <1>7. (~mem.revoked /\ ~disk.db.revoked) => Speaks(s)
    <2>1. (~mem.revoked /\ ~disk.db.revoked) => InUse(disk) BY <1>2 DEF Linked, InUse
    <2>. QED BY <1>2, <1>3, <2>1, SealedSpeaks
  <1> HIDE DEF m, s
  <1>8. Linked(disk, m) BY <1>2, <1>3, <1>6 DEF Linked
  <1>9. Firm(disk, ws) /\ Endures(e) /\ then \in Memory /\ then.phase = m.phase
        /\ Knows(e, then)
    BY <1>2, <1>5, <1>6, <1>7, <1>8, UnsealFirm
  <1> HIDE DEF ws, e, then
  <1>10. e \in Disk /\ e.db \in Database BY <1>9, ReadableTypes DEF Endures
  <1>11. /\ z \in Disk /\ z.keys = e.keys /\ z.lock = e.lock /\ z.seed = e.seed
         /\ z.db.revoked = e.db.revoked
    BY <1>10 DEF Disk, Database
  <1> HIDE DEF z
  <1>12. Firm(e, To(z, then)) /\ Last(e, To(z, then)) = z /\ Knows(z, then)
    BY <1>6, <1>9, <1>11, DbFirm
  <1>13. Firm(disk, ws \o To(z, then)) /\ Last(disk, ws \o To(z, then)) = z
    BY <1>9, <1>12, FirmThen DEF e
  <1>14. Run(ws \o To(z, then), then) /\ spent' \in Spent
    BY <1>1, <1>2 DEF z, ws, e, then, m, s
  <1>. QED BY <1>5, <1>9, <1>12, <1>13, <1>14, RunFirm
----------------------------------------------------------------------------
(***************************************************************************)
(* Serving.                                                                *)
(***************************************************************************)
\* The key a rotation takes; without one any will do.
LEMMA MintTypes ==
  ASSUME minted \in Key, NEW r \in BOOLEAN, Mint(r)
  PROVE  LET key == IF r THEN minted + 1 ELSE 0
         IN  key \in Key /\ minted' \in Key
  BY NumberTypes DEF Mint, Key

LEMMA StartServingFirm ==
  ASSUME FailInv, StartServing
  PROVE  FailInv'
  <1> DEFINE r == Rotates(disk, mem)
             key == IF r THEN minted + 1 ELSE 0
             m == Maintained(disk, mem, key)
             ws == MaintainWrites(disk, mem, key)
             e == Last(disk, ws)
             then == IF Rejected(disk, mem) THEN Down
                     ELSE [m EXCEPT !.phase = "serving", !.kept = TRUE]
  <1>1. /\ Idle /\ Unlocked /\ Mint(r) /\ spent' = spent
        /\ Run(MaintainWrites(disk, mem, minted + 1),
                IF Rejected(disk, mem) THEN Down
                ELSE [Maintained(disk, mem, minted + 1) EXCEPT !.phase = "serving", !.kept = TRUE])
    BY DEF StartServing, Run
  <1>2. Run(ws, then) BY <1>1, KeyNotUsed
  <1>3. Signs(disk, mem) /\ Endures(disk) /\ now \in Time /\ minted \in Key /\ spent' \in Spent
    BY <1>1, FailFacts
  <1>4. r \in BOOLEAN BY DEF Rotates
  <1>5. key \in Key /\ minted' \in Key BY <1>1, <1>3, <1>4, MintTypes
  <1> HIDE DEF key
  <1>6. Firm(disk, ws) /\ Signs(e, m) BY <1>3, <1>5, MaintainFirm
  <1> HIDE DEF ws, m, e
  <1>7. then \in Memory /\ Knows(e, then)
    <2>1. CASE Rejected(disk, mem) BY <2>1, DownKnows
    <2>2. CASE ~Rejected(disk, mem)
      <3>1. then = [m EXCEPT !.phase = "serving", !.kept = TRUE] BY <2>2
      <3> HIDE DEF then
      <3>2. then \in Memory /\ Alike(m, then) BY <1>6, <3>1 DEF Signs, Memory, Alike
      <3>. QED BY <1>6, <3>2, KnowsAlike DEF Signs
    <2>. QED BY <2>1, <2>2
  <1> HIDE DEF then
  <1>. QED BY <1>2, <1>3, <1>5, <1>6, <1>7, RunFirm DEF e

LEMMA MaintainEnckeyFirm ==
  ASSUME FailInv, MaintainEnckey
  PROVE  FailInv'
  <1> DEFINE r == Rotates(disk, mem)
             key == IF r THEN minted + 1 ELSE 0
             b == ~Rejected(disk, mem)
             f == FALSE
             u == [mem EXCEPT !.kept = f]
             k == Maintained(disk, u, key)
             m == Maintained(disk, mem, key)
             ws == MaintainWrites(disk, u, key)
             e == Last(disk, ws)
             then == [m EXCEPT !.kept = b]
  <1>1. /\ Idle /\ Unlocked /\ Mint(r) /\ spent' = spent
        /\ Run(MaintainWrites(disk, u, minted + 1),
                [Maintained(disk, mem, minted + 1) EXCEPT !.kept = b])
    BY DEF MaintainEnckey, Serving
  <1>2. Signs(disk, mem) /\ Endures(disk) /\ now \in Time /\ minted \in Key /\ spent' \in Spent
        /\ mem \in Memory
    BY <1>1, FailFacts
  <1>3. r \in BOOLEAN /\ b \in BOOLEAN /\ f \in BOOLEAN BY DEF Rotates, Rejected
  <1>4. key \in Key /\ minted' \in Key BY <1>1, <1>2, <1>3, MintTypes
  <1>5. Rotates(disk, mem) => key = minted + 1 OBVIOUS
  <1> HIDE DEF key, b, f
  <1>6. /\ u \in Memory /\ k = [m EXCEPT !.kept = f] /\ m \in Memory
        /\ (Rotates(disk, u) <=> r)
    BY <1>2, <1>3, <1>4, KeptFlag
  <1>7. Run(ws, then)
    <2>1. ws = MaintainWrites(disk, u, minted + 1) BY <1>5, <1>6, KeyNotUsed
    <2>2. m = Maintained(disk, mem, minted + 1) BY <1>5, KeyNotUsed
    <2>. QED BY <1>1, <2>1, <2>2
  <1>8. Alike(mem, u) /\ u.phase = mem.phase BY <1>2 DEF Memory, Alike
  <1> HIDE DEF u
  <1>9. Signs(disk, u) BY <1>2, <1>6, <1>8, SignsAlike DEF Signs
  <1>10. Firm(disk, ws) /\ Signs(e, k) BY <1>2, <1>4, <1>9, MaintainFirm
  <1> HIDE DEF ws, k, m, e
  <1>11. then \in Memory /\ Alike(k, then) BY <1>3, <1>6 DEF Memory, Alike
  <1> HIDE DEF then
  <1>12. Knows(e, then) BY <1>10, <1>11, KnowsAlike DEF Signs
  <1>. QED BY <1>2, <1>4, <1>7, <1>10, <1>11, <1>12, RunFirm DEF e

LEMMA StartServingIdleFirm ==
  ASSUME FailInv, StartServingIdle
  PROVE  FailInv'
  <1> DEFINE m == [mem EXCEPT !.phase = "serving"]
  <1>1. /\ Idle /\ mem.phase = "starting" /\ minted' = minted /\ spent' = spent
        /\ Run(<<>>, m)
    BY DEF StartServingIdle, Run
  <1>2. mem \in Memory /\ Knows(disk, mem) /\ minted \in Key /\ spent \in Spent
    BY <1>1, FailFacts
  <1>3. m \in Memory /\ Alike(mem, m) BY <1>1, <1>2 DEF Memory, Alike
  <1> HIDE DEF m
  <1>4. Knows(disk, m) BY <1>2, <1>3, KnowsAlike
  <1>. QED BY <1>1, <1>2, <1>3, <1>4, RunNothing

LEMMA LockFirm ==
  ASSUME FailInv, Lock
  PROVE  FailInv'
  <1> DEFINE m == [mem EXCEPT !.locked = TRUE, !.secrets = NoSecrets, !.master = 0,
                              !.seed = FALSE, !.kept = FALSE]
  <1>1. /\ Idle /\ mem.phase = "serving" /\ mem.applock /\ minted' = minted /\ spent' = spent
        /\ Run(<<>>, m)
    BY DEF Lock, Serving
  <1>2. /\ mem \in Memory /\ Linked(disk, mem) /\ minted \in Key /\ spent \in Spent
        /\ NoSecrets \in Secrets
    BY <1>1, FailFacts, ReadableTypes DEF Knows
  <1>3. /\ m \in Memory /\ m.applock = mem.applock /\ m.locked /\ m.revoked = mem.revoked
    <2>1. 0 \in 0..2 OBVIOUS
    <2>. QED BY <1>2, <2>1 DEF Memory
  <1> HIDE DEF m
  <1>4. Knows(disk, m) BY <1>1, <1>2, <1>3 DEF Knows, Linked
  <1>. QED BY <1>1, <1>2, <1>3, <1>4, RunNothing
----------------------------------------------------------------------------
(***************************************************************************)
(* App lock.                                                               *)
(***************************************************************************)
LEMMA LockChangeSpent ==
  ASSUME spent \in Spent, LockChange
  PROVE  spent' \in Spent
  <1>1. spent.locks + 1 \in 0..MaxLocks BY KeyBounds DEF LockChange, Spent
  <1>. QED BY <1>1 DEF LockChange, Spent

\* A record left by an attempt that failed is simply replaced.
LEMMA EnableApplockFirm ==
  ASSUME FailInv, NEW c \in Credential, EnableApplock(c)
  PROVE  FailInv'
  <1> DEFINE record == [credential |-> c, master |-> 1, under |-> 1,
                        secrets |-> mem.secrets, seed |-> disk.seed]
             locked == [disk EXCEPT !.lock = record]
             bare == WriteKeys(locked, NonSecret(Bundle(mem)))
             open == [bare EXCEPT !.seed = FALSE]
             hidden == IF disk.seed THEN To(open, mem) ELSE <<>>
             z == Last(bare, hidden)
             then == [mem EXCEPT !.applock = TRUE, !.master = 1, !.seed = disk.seed]
  <1>1. /\ Idle /\ Unlocked /\ ~mem.applock /\ minted' = minted /\ LockChange
        /\ Run(To(locked, mem) \o To(bare, mem) \o hidden, then)
    BY DEF EnableApplock, Serving
  <1>2. /\ Signs(disk, mem) /\ Linked(disk, mem) /\ InUse(disk) /\ Speaks(mem.secrets)
        /\ mem \in Memory /\ disk \in Disk /\ minted \in Key /\ spent' \in Spent
        /\ Knows(disk, mem)
    BY <1>1, FailFacts, LockChangeSpent DEF Signs
  <1>3. /\ ~mem.revoked /\ ~mem.locked /\ disk.keys # Absent /\ disk.keys.cert
        /\ ~disk.db.revoked /\ ~disk.keys.revoked /\ (SeedOn(disk) => disk.seed)
    BY <1>1, <1>2 DEF Unlocked, InUse, Enrolled, Linked, SeedOn
  <1>4. /\ record \in LockFile /\ record # Absent /\ record.secrets = mem.secrets
        /\ record.seed = disk.seed /\ record.master = 1 /\ record.under = 1
    <2>1. disk.seed \in BOOLEAN /\ mem.secrets \in Secrets BY <1>2 DEF Disk, Memory
    <2>2. record \in LockFile BY <2>1 DEF LockFile
    <2>. QED BY <2>2, AbsentAssumption
  <1> HIDE DEF record
  <1>5. /\ locked \in Disk /\ locked.lock = record /\ locked.keys = disk.keys
        /\ locked.seed = disk.seed /\ locked.db = disk.db
    BY <1>2, <1>4 DEF Disk
  <1> HIDE DEF locked
  <1>6. NonSecret(Bundle(mem)) \in KeyFile /\ NonSecret(Bundle(mem)).cert
        /\ ~NonSecret(Bundle(mem)).revoked
    BY <1>2, <1>3, BundleFacts
  <1>7. /\ bare \in Disk /\ bare.keys = NonSecret(Bundle(mem)) /\ bare.keys # Absent
        /\ bare.lock = record /\ bare.seed = disk.seed /\ bare.db = disk.db
    BY <1>5, <1>6, WriteKeysFacts
  <1> HIDE DEF bare
  <1>8. /\ open \in Disk /\ open.lock = record /\ open.keys = bare.keys
        /\ ~open.seed /\ open.db = disk.db
    BY <1>7 DEF Disk
  <1> HIDE DEF open
  <1>9. ASSUME NEW d \in Disk, d.lock = record, d.db = disk.db, d.keys # Absent, d.keys.cert,
               ~d.keys.revoked, d.seed => disk.seed
        PROVE  /\ Enrolled(d) /\ Endures(d) /\ (disk.seed => SeedOn(d))
               /\ (d.seed = disk.seed => Knows(d, mem)) /\ Knows(d, then)
    <2>1. Enrolled(d) BY <1>9 DEF Enrolled
    <2>2. Readable(d) = mem.secrets BY <1>4, <1>9 DEF Readable
    <2>3. Endures(d) BY <1>2, <1>4, <1>9, <2>1, <2>2 DEF Endures
    <2>4. disk.seed => SeedOn(d) BY <1>4, <1>9 DEF SeedOn
    <2>5. d.seed = disk.seed => Knows(d, mem)
      BY <1>1, <1>2, <1>3, <1>4, <1>9, <2>1 DEF Knows, Linked
    <2>6. /\ then.applock /\ then.master = 1 /\ then.seed = disk.seed /\ ~then.locked
          /\ ~then.revoked /\ then.secrets = mem.secrets
      BY <1>2, <1>3 DEF Memory
    <2> HIDE DEF then
    <2>7. Knows(d, then) BY <1>2, <1>3, <1>4, <1>9, <2>1, <2>6 DEF Knows, Linked
    <2>. QED BY <2>1, <2>3, <2>4, <2>5, <2>7
  <1>10. then \in Memory
    <2>1. 1 \in 0..2 /\ disk.seed \in BOOLEAN BY <1>2 DEF Disk
    <2>. QED BY <1>2, <2>1 DEF Memory
  <1> HIDE DEF then
  <1>11. Endures(locked) /\ (disk.seed => SeedOn(locked)) /\ Knows(locked, mem)
    BY <1>3, <1>5, <1>9
  <1>12. Endures(bare) /\ (disk.seed => SeedOn(bare)) /\ Knows(bare, mem) /\ Knows(bare, then)
    BY <1>6, <1>7, <1>9
  <1>13. Endures(open) /\ (disk.seed => SeedOn(open)) /\ Knows(open, then)
    BY <1>6, <1>7, <1>8, <1>9
  <1>14. SeedOn(locked) => disk.seed BY <1>4, <1>5 DEF SeedOn
  <1>15. Firm(disk, To(locked, mem)) /\ Last(disk, To(locked, mem)) = locked
    BY <1>2, <1>3, <1>11, FirmWrite DEF FirmAt
  <1>16. Firm(locked, To(bare, mem)) /\ Last(locked, To(bare, mem)) = bare
    BY <1>2, <1>11, <1>12, <1>14, FirmWrite DEF FirmAt
  <1> DEFINE us == To(locked, mem) \o To(bare, mem)
  <1>17. Firm(disk, us) /\ Last(disk, us) = bare BY <1>15, <1>16, FirmThen
  <1> HIDE DEF us
  <1>18. Firm(bare, hidden) /\ Knows(z, then)
    <2>1. CASE ~disk.seed
      <3>1. hidden = <<>> BY <2>1
      <3> HIDE DEF hidden
      <3>. QED BY <1>12, <3>1, FirmNothing
    <2>2. CASE disk.seed
      <3>1. hidden = To(open, mem) BY <2>2
      <3> HIDE DEF hidden
      <3>2. Firm(bare, hidden) /\ z = open
        BY <1>2, <1>12, <1>13, <2>2, <3>1, FirmWrite DEF FirmAt
      <3> HIDE DEF z
      <3>. QED BY <1>13, <3>2
    <2>. QED BY <2>1, <2>2
  <1> HIDE DEF hidden
  <1>19. Firm(disk, us \o hidden) /\ Last(disk, us \o hidden) = z
    BY <1>17, <1>18, FirmThen
  <1> HIDE DEF z
  <1>20. Run(us \o hidden, then) BY <1>1 DEF us, then, locked, bare, hidden, open, record
  <1>21. minted' \in Key BY <1>1, <1>2
  <1>. QED BY <1>2, <1>10, <1>18, <1>19, <1>20, <1>21, RunFirm

LEMMA ChangeCredentialFirm ==
  ASSUME FailInv, NEW old \in Credential, NEW new \in Credential, ChangeCredential(old, new)
  PROVE  FailInv'
  <1> DEFINE master == 3 - disk.lock.master
             record == [disk.lock EXCEPT !.credential = new, !.master = master, !.under = master]
             d == [disk EXCEPT !.lock = record]
             then == [mem EXCEPT !.master = master]
  <1>1. /\ Idle /\ Unlocked /\ mem.applock /\ minted' = minted /\ LockChange
        /\ Run(To(d, mem), then)
    BY DEF ChangeCredential, Serving
  <1>2. /\ Signs(disk, mem) /\ Linked(disk, mem) /\ InUse(disk) /\ Speaks(mem.secrets)
        /\ mem \in Memory /\ disk \in Disk /\ minted \in Key /\ spent' \in Spent
        /\ Knows(disk, mem) /\ Endures(disk)
    BY <1>1, FailFacts, LockChangeSpent DEF Signs
  <1>3. /\ disk.lock # Absent /\ disk.lock \in LockFile /\ disk.lock.under = disk.lock.master
        /\ (disk.seed => disk.lock.seed) /\ Speaks(disk.lock.secrets)
        /\ mem.seed = disk.lock.seed /\ ~mem.revoked /\ ~mem.locked
    BY <1>1, <1>2, ReadableTypes, SealedSpeaks DEF Linked, Endures, Unlocked
  <1>4. master \in {1, 2} /\ master \in 0..2 BY <1>3 DEF LockFile
  <1> HIDE DEF master
  <1>5. /\ record \in LockFile /\ record # Absent /\ record.secrets = disk.lock.secrets
        /\ record.seed = disk.lock.seed /\ record.master = master /\ record.under = master
    <2>1. record \in LockFile BY <1>3, <1>4 DEF LockFile
    <2>2. record.secrets = disk.lock.secrets /\ record.seed = disk.lock.seed
          /\ record.master = master /\ record.under = master
      BY <1>3 DEF LockFile
    <2>. QED BY <2>1, <2>2, AbsentAssumption
  <1> HIDE DEF record
  <1>6. /\ d \in Disk /\ d.lock = record /\ d.keys = disk.keys /\ d.seed = disk.seed
        /\ d.db = disk.db
    BY <1>2, <1>5 DEF Disk
  <1> HIDE DEF d
  <1>7. Enrolled(d) /\ Readable(d) = disk.lock.secrets
    BY <1>2, <1>5, <1>6 DEF InUse, Enrolled, Readable
  <1>8. Endures(d) /\ (SeedOn(disk) => SeedOn(d))
    BY <1>3, <1>5, <1>6, <1>7 DEF Endures, SeedOn
  <1>9. Firm(disk, To(d, mem)) /\ Last(disk, To(d, mem)) = d
    BY <1>2, <1>8, FirmWrite DEF FirmAt
  <1>10. /\ then \in Memory /\ then.master = master /\ then.seed = mem.seed
         /\ then.applock = mem.applock /\ then.locked = mem.locked
         /\ then.revoked = mem.revoked /\ then.secrets = mem.secrets
    BY <1>2, <1>4 DEF Memory
  <1> HIDE DEF then
  <1>11. Knows(d, then)
    BY <1>1, <1>2, <1>3, <1>5, <1>6, <1>7, <1>10 DEF Knows, Linked, InUse
  <1>12. minted' \in Key BY <1>1, <1>2
  <1>. QED BY <1>1, <1>2, <1>9, <1>10, <1>11, <1>12, RunFirm

LEMMA DisableApplockFirm ==
  ASSUME FailInv, NEW c \in Credential, DisableApplock(c)
  PROVE  FailInv'
  <1> DEFINE r == RestoreSeed(disk)
             restored == IF disk.lock.seed THEN To(r, mem) ELSE <<>>
             e == Last(disk, restored)
             plain == WriteKeys(e, Bundle(mem))
             z == DropLock(plain)
             then == [mem EXCEPT !.applock = FALSE, !.master = 0, !.seed = FALSE]
  <1>1. /\ Idle /\ Unlocked /\ mem.applock /\ minted' = minted /\ spent' = spent
        /\ Run(restored \o To(plain, mem) \o To(z, mem), then)
    BY DEF DisableApplock, Serving
  <1>2. /\ Signs(disk, mem) /\ Linked(disk, mem) /\ InUse(disk) /\ Speaks(mem.secrets)
        /\ mem \in Memory /\ disk \in Disk /\ minted \in Key /\ spent \in Spent
        /\ Knows(disk, mem) /\ Endures(disk)
    BY <1>1, FailFacts DEF Signs
  <1>3. /\ disk.lock # Absent /\ disk.lock.under = disk.lock.master
        /\ (disk.seed => disk.lock.seed) /\ Speaks(disk.lock.secrets)
        /\ ~mem.revoked /\ ~mem.locked /\ ~disk.db.revoked /\ ~disk.keys.revoked
    BY <1>1, <1>2, SealedSpeaks DEF Linked, Endures, Unlocked, InUse
  <1>4. ASSUME NEW d \in Disk, Enrolled(d), d.lock = disk.lock, d.db = disk.db,
               ~d.keys.revoked, d.seed => disk.lock.seed
        PROVE  Endures(d) /\ Knows(d, mem)
    <2>1. Readable(d) = disk.lock.secrets BY <1>3, <1>4 DEF Readable
    <2>2. Endures(d) BY <1>3, <1>4, <2>1 DEF Endures
    <2>3. Knows(d, mem) BY <1>1, <1>2, <1>3, <1>4 DEF Knows, Linked
    <2>. QED BY <2>2, <2>3
  <1>5. /\ Firm(disk, restored) /\ e \in Disk /\ Endures(e) /\ Knows(e, mem)
        /\ e.lock = disk.lock /\ e.keys = disk.keys /\ e.db = disk.db
        /\ (e.seed <=> disk.lock.seed)
    <2>1. CASE ~disk.lock.seed
      <3>1. restored = <<>> BY <2>1
      <3> HIDE DEF restored
      <3>. QED BY <1>2, <1>3, <2>1, <3>1, FirmNothing
    <2>2. CASE disk.lock.seed
      <3>1. restored = To(r, mem) BY <2>2
      <3>2. r \in Disk /\ r.seed /\ r.lock = disk.lock /\ r.keys = disk.keys /\ r.db = disk.db
        BY <1>2 DEF RestoreSeed, Disk
      <3> HIDE DEF restored, r
      <3>3. Enrolled(r) /\ SeedOn(r) BY <1>2, <3>2 DEF InUse, Enrolled, SeedOn
      <3>4. Endures(r) /\ Knows(r, mem) BY <1>3, <1>4, <2>2, <3>2, <3>3
      <3>5. Firm(disk, restored) /\ e = r
        BY <1>2, <3>1, <3>3, <3>4, FirmWrite DEF FirmAt
      <3> HIDE DEF e
      <3>. QED BY <2>2, <3>2, <3>4, <3>5
    <2>. QED BY <2>1, <2>2
  <1> HIDE DEF restored, e, r
  <1>6. /\ Bundle(mem) \in KeyFile /\ Bundle(mem).secrets = mem.secrets /\ Bundle(mem).cert
        /\ ~Bundle(mem).revoked /\ mem.secrets # Absent
    BY <1>2, <1>3, BundleFacts
  <1>7. /\ plain \in Disk /\ plain.keys = Bundle(mem) /\ plain.keys # Absent
        /\ plain.lock = disk.lock /\ plain.seed = e.seed /\ plain.db = disk.db
    BY <1>5, <1>6, WriteKeysFacts
  <1> HIDE DEF plain
  <1>8. /\ z \in Disk /\ z.keys = plain.keys /\ z.lock = Absent /\ z.seed = e.seed
    BY <1>7 DEF DropLock, Disk
  <1> HIDE DEF z
  <1>9. Enrolled(plain) /\ Enrolled(z) BY <1>6, <1>7, <1>8 DEF Enrolled
  <1>10. Endures(plain) /\ Knows(plain, mem) BY <1>4, <1>5, <1>6, <1>7, <1>9
  <1>11. Endures(z) BY <1>2, <1>6, <1>7, <1>8, FreshEndures DEF Speaks
  <1>12. (SeedOn(e) => SeedOn(plain)) /\ (SeedOn(plain) => SeedOn(z))
    BY <1>5, <1>7, <1>8 DEF SeedOn
  <1>13. /\ Firm(e, To(plain, mem)) /\ Last(e, To(plain, mem)) = plain
         /\ Firm(plain, To(z, mem)) /\ Last(plain, To(z, mem)) = z
    BY <1>2, <1>5, <1>10, <1>11, <1>12, FirmWrite DEF FirmAt
  <1> DEFINE us == restored \o To(plain, mem)
  <1>14. Firm(disk, us) /\ Last(disk, us) = plain BY <1>5, <1>13, FirmThen DEF e
  <1> HIDE DEF us
  <1>15. Firm(disk, us \o To(z, mem)) /\ Last(disk, us \o To(z, mem)) = z
    BY <1>13, <1>14, FirmThen
  <1>16. /\ then \in Memory /\ ~then.applock /\ ~then.locked /\ ~then.revoked
         /\ then.secrets = mem.secrets
    <2>1. 0 \in 0..2 OBVIOUS
    <2>. QED BY <1>2, <1>3, <2>1 DEF Memory
  <1> HIDE DEF then
  <1>17. ~z.db.revoked /\ ~z.keys.revoked
    BY <1>3, <1>6, <1>7, <1>8 DEF z, DropLock, Disk
  <1>18. Knows(z, then) BY <1>2, <1>8, <1>9, <1>16, <1>17 DEF Knows, Linked
  <1>19. Run(us \o To(z, mem), then) /\ spent' \in Spent /\ minted' \in Key
    BY <1>1, <1>2 DEF us, then, z, plain, restored, e, r
  <1>. QED BY <1>15, <1>16, <1>18, <1>19, RunFirm
----------------------------------------------------------------------------
(***************************************************************************)
(* Messages and the revocation.                                            *)
(***************************************************************************)
LEMMA MessageFirm ==
  ASSUME FailInv, Idle, Unlocked, NEW db \in Database, db.revoked = disk.db.revoked,
         Run(To([disk EXCEPT !.db = db], mem), mem), minted' = minted, spent' = spent
  PROVE  FailInv'
  <1> DEFINE e == [disk EXCEPT !.db = db]
  <1>1. /\ Signs(disk, mem) /\ Knows(disk, mem) /\ Endures(disk) /\ mem \in Memory
        /\ mem.phase # "down" /\ disk \in Disk /\ minted \in Key /\ spent \in Spent
    BY FailFacts DEF Signs
  <1>2. /\ e \in Disk /\ e.keys = disk.keys /\ e.lock = disk.lock /\ e.seed = disk.seed
        /\ e.db = db
    BY <1>1 DEF Disk
  <1> HIDE DEF e
  <1>3. Firm(disk, To(e, mem)) /\ Last(disk, To(e, mem)) = e /\ Knows(e, mem)
    BY <1>1, <1>2, DbFirm
  <1>. QED BY <1>1, <1>3, RunFirm DEF e

LEMMA DeliverFirm ==
  ASSUME FailInv, NEW m \in Msg, NEW key \in given, Deliver(m, key)
  PROVE  FailInv'
  <1> DEFINE db == [disk.db EXCEPT !.rows = [disk.db.rows EXCEPT ![m] = key]]
  <1>1. /\ Idle /\ Unlocked /\ minted' = minted /\ spent' = spent
        /\ Run(To([disk EXCEPT !.db.rows[m] = key], mem), mem)
    BY DEF Deliver, Serving
  <1>2. disk \in Disk /\ disk.db \in Database BY FailFacts
  <1>3. key \in Key BY DEF FailInv, TypeOK
  <1>4. [disk EXCEPT !.db.rows[m] = key] = [disk EXCEPT !.db = db] BY <1>2 DEF Disk, Database
  <1>5. db \in Database /\ db.revoked = disk.db.revoked BY <1>2, <1>3 DEF Database
  <1> HIDE DEF db
  <1>. QED BY <1>1, <1>4, <1>5, MessageFirm

LEMMA ViewFirm ==
  ASSUME FailInv, NEW m \in Msg, View(m)
  PROVE  FailInv'
  <1> DEFINE s == mem.secrets
             db == [disk.db EXCEPT !.cached = [disk.db.cached EXCEPT ![m] = s.storage],
                                   !.marked = disk.db.marked \ {m}]
  <1>1. /\ Idle /\ Unlocked /\ minted' = minted /\ spent' = spent
        /\ Resolve(disk, m, s) # disk /\ Run(To(Resolve(disk, m, s), mem), mem)
    BY DEF View, Serving
  <1>2. disk \in Disk /\ disk.db \in Database /\ s \in Secrets
    BY FailFacts DEF Memory
  <1>3. s.storage \in Key BY <1>2 DEF Secrets
  <1> HIDE DEF s
  <1>4. Resolve(disk, m, s) = [disk EXCEPT !.db = db]
    BY <1>1, <1>2 DEF Resolve, Disk, Database
  <1>5. db \in Database /\ db.revoked = disk.db.revoked BY <1>2, <1>3 DEF Database
  <1> HIDE DEF db
  <1>. QED BY <1>1, <1>4, <1>5, MessageFirm

LEMMA CacheMessageKeysFirm ==
  ASSUME FailInv, CacheMessageKeys
  PROVE  FailInv'
  <1> DEFINE s == mem.secrets
             U == Uncached(disk)
             cached == [m \in Msg |-> IF m \in U /\ Unwraps(disk, m, s) THEN s.storage
                                      ELSE disk.db.cached[m]]
             marked == disk.db.marked \union {m \in U : ~Unwraps(disk, m, s)}
             db == [disk.db EXCEPT !.cached = cached, !.marked = marked]
  <1>1. /\ Idle /\ Unlocked /\ minted' = minted /\ spent' = spent
        /\ Run(To(Swept(disk, s), mem), mem)
    BY DEF CacheMessageKeys, Serving, Sweepable
  <1>2. /\ disk \in Disk /\ disk.db \in Database /\ disk.db.cached \in [Msg -> Key]
        /\ disk.db.marked \subseteq Msg /\ s \in Secrets
    BY FailFacts DEF Memory, Database
  <1>3. s.storage \in Key BY <1>2 DEF Secrets
  <1>4. U \subseteq Msg BY DEF Uncached
  <1> HIDE DEF s, U
  <1>5. cached \in [Msg -> Key] /\ marked \subseteq Msg BY <1>2, <1>3, <1>4
  <1>6. Swept(disk, s) = [disk EXCEPT !.db = db]
    BY <1>2 DEF Swept, Disk, Database, U
  <1> HIDE DEF cached, marked
  <1>7. db \in Database /\ db.revoked = disk.db.revoked BY <1>2, <1>5 DEF Database
  <1> HIDE DEF db
  <1>. QED BY <1>1, <1>6, <1>7, MessageFirm

LEMMA LearnRevocationFirm ==
  ASSUME FailInv, LearnRevocation
  PROVE  FailInv'
  <1> DEFINE told == [disk EXCEPT !.db.revoked = TRUE]
             ws == RevokeWrites(told, mem)
             e == Last(told, ws)
  <1>1. /\ Idle /\ Unlocked /\ minted' = minted /\ spent' = spent
        /\ Run(To(told, mem) \o ws, Revoked(mem))
    BY DEF LearnRevocation, Serving
  <1>2. /\ Linked(disk, mem) /\ Knows(disk, mem) /\ mem \in Memory /\ Endures(disk)
        /\ disk \in Disk /\ disk.db \in Database /\ minted \in Key /\ spent \in Spent
        /\ ~mem.locked /\ ~mem.revoked
    BY <1>1, FailFacts DEF Unlocked
  <1>3. /\ told \in Disk /\ told.keys = disk.keys /\ told.lock = disk.lock
        /\ told.seed = disk.seed /\ told.db.revoked
    BY <1>2 DEF Disk, Database
  <1> HIDE DEF told
  <1>4. Enrolled(told) /\ ~InUse(told) /\ (SeedOn(disk) => SeedOn(told))
    BY <1>2, <1>3 DEF Linked, Enrolled, InUse, SeedOn
  <1>5. Endures(told) BY <1>2, <1>3, <1>4, UnusedEndures DEF Endures
  <1>6. Linked(told, mem) BY <1>2, <1>3, <1>4 DEF Linked
  <1>7. Firm(disk, To(told, mem)) /\ Last(disk, To(told, mem)) = told
    BY <1>2, <1>4, <1>5, FirmWrite DEF FirmAt
  <1>8. Firm(told, ws) /\ Revoked(mem) \in Memory /\ Knows(e, Revoked(mem))
    BY <1>2, <1>3, <1>5, <1>6, RevokeFirm
  <1> HIDE DEF ws, e
  <1>9. Firm(disk, To(told, mem) \o ws) /\ Last(disk, To(told, mem) \o ws) = e
    BY <1>7, <1>8, FirmThen DEF e
  <1>. QED BY <1>1, <1>2, <1>8, <1>9, RunFirm
----------------------------------------------------------------------------
(***************************************************************************)
(* The theorems.                                                           *)
(***************************************************************************)
LEMMA FailInitially == Init => FailInv
  <1> SUFFICES ASSUME Init PROVE FailInv OBVIOUS
  <1>1. KeysInv /\ todo = <<>> /\ after = Down /\ mem = Down
    BY KeysInitially DEF Init
  <1>2. Safe(disk, minted, now) BY <1>1 DEF KeysInv
  <1>3. disk.lock = Absent BY DEF Init, NewFiles, OldFiles
  <1>4. Endures(disk)
    <2>1. disk \in Disk BY <1>2 DEF Safe
    <2>2. InUse(disk) => Speaks(Readable(disk)) BY <1>2 DEF Safe, Serves, Speaks
    <2>3. ~Enrolled(disk) => Waiting(disk) BY <1>2 DEF Safe
    <2>. QED BY <1>3, <2>1, <2>2, <2>3 DEF Endures, Waiting
  <1>5. Firm(disk, todo) /\ Knows(Last(disk, todo), after) BY <1>1, FirmNothing, DownKnows
  <1>. QED BY <1>1, <1>4, <1>5 DEF FailInv, KeysInv

LEMMA FailStuttering ==
  ASSUME FailInv, UNCHANGED vars
  PROVE  FailInv'
  BY DEF vars, FailInv, TypeOK, Endures, Firm, Knows, SeedOn, Key

LEMMA FailInductive == FailInv /\ [Next \/ FailedWrite]_vars => FailInv'
  <1> SUFFICES ASSUME FailInv, [Next \/ FailedWrite]_vars PROVE FailInv' OBVIOUS
  <1>1. CASE FailedWrite BY <1>1, FailedWriteFirm
  <1>2. CASE Write BY <1>2, WriteFirm
  <1>3. CASE Crash BY <1>3, CrashFirm
  <1>4. CASE Tick \/ Share BY <1>4, TickOrShareFirm
  <1>5. CASE Operation
    <2>1. CASE Create \/ PairRequest \/ PairInstall
      BY <2>1, CreateFirm, PairRequestFirm, PairInstallFirm
    <2>2. CASE BootLocked \/ Boot \/ StartServing \/ StartServingIdle \/ MaintainEnckey
      BY <2>2, BootLockedFirm, BootFirm, StartServingFirm, StartServingIdleFirm,
         MaintainEnckeyFirm
    <2>3. ASSUME NEW c \in Credential, EnableApplock(c) \/ Unlock(c) \/ DisableApplock(c)
          PROVE  FailInv'
      BY <2>3, EnableApplockFirm, UnlockFirm, DisableApplockFirm
    <2>4. ASSUME NEW old \in Credential, NEW new \in Credential, ChangeCredential(old, new)
          PROVE  FailInv'
      BY <2>4, ChangeCredentialFirm
    <2>5. CASE Lock BY <2>5, LockFirm
    <2>6. ASSUME NEW m \in Msg, View(m) \/ \E key \in given : Deliver(m, key)
          PROVE  FailInv'
      BY <2>6, ViewFirm, DeliverFirm
    <2>7. CASE CacheMessageKeys \/ LearnRevocation
      BY <2>7, CacheMessageKeysFirm, LearnRevocationFirm
    <2>. QED BY <1>5, <2>1, <2>2, <2>3, <2>4, <2>5, <2>6, <2>7 DEF Operation
  <1>6. CASE UNCHANGED vars BY <1>6, FailStuttering
  <1>. QED BY <1>1, <1>2, <1>3, <1>4, <1>5, <1>6 DEF Next

\* FailInv is an invariant of every behaviour in which the process may die, and a write
\* of a serving node fail with an OSError, before any write of any handler.
THEOREM FailuresInvariance == SpecWithFailures => []FailInv
  BY FailInitially, FailInductive, PTL DEF SpecWithFailures

\* The files, the node object and the steps to come stay of their type.
THEOREM FailuresKeepTypes == SpecWithFailures => []TypeOK
  <1>1. FailInv => TypeOK BY DEF FailInv
  <1>. QED BY <1>1, FailuresInvariance, PTL

\* The paper seed survives failed writes too: whatever handler was cut short and carried
\* on from, with whatever node object, it is in the open or in the sealed record
\* (node.py:3158).
THEOREM SeedSurvivesFailures == SpecWithFailures => []SeedKept
  <1>1. FailInv => SeedKept BY DEF FailInv, SeedOn, SeedKept
  <1>. QED BY <1>1, FailuresInvariance, PTL

\* So do the keys that speak for the device and the person: as long as the device is in
\* use a restart reads both (node.py:397, 563).  KeysRecoverable says the same of the
\* storage key and the encryption keys, and that needs writes that do not fail.
THEOREM SigningKeysSurvive ==
  SpecWithFailures =>
    [](InUse(disk) => Readable(disk).device /\ Readable(disk).identity)
  <1>1. FailInv => (InUse(disk) => Readable(disk).device /\ Readable(disk).identity)
    BY DEF FailInv, Endures, Speaks
  <1>. QED BY <1>1, FailuresInvariance, PTL
=============================================================================
