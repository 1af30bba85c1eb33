------------------------------ MODULE KeyFiles ------------------------------
(***************************************************************************)
(* The key material of one device: the files it lives in (keys.json, the   *)
(* sealed applock.json, paper_seed.txt), the copy a running process holds, *)
(* the rotation of the encryption key and its publication, and the cache   *)
(* of content keys that outlives the keys (node.py, identity.py,           *)
(* applock.py, store.py, runner.py).                                       *)
(*                                                                         *)
(* A handler runs without awaiting, so nothing interleaves with it, but it *)
(* writes its files and commits its transactions one after another.  Every *)
(* handler is therefore a sequence of steps, which Write carries out one   *)
(* at a time; the process may die, or a write fail with an OSError, before *)
(* any of them.                                                            *)
(***************************************************************************)
EXTENDS Naturals, Sequences, FiniteSets

CONSTANTS
  Msg,             \* messages sealed to this device
  Credential,      \* PINs and passphrases
  Absent,          \* a file, or the secret part of one, that is not there
  RotationPeriod,  \* ENC_ROTATION_PERIOD
  Grace,           \* ENC_GRACE
  HasDpapi,        \* DPAPI_AVAILABLE: app lock needs Windows
  MaxTime,         \* the last instant
  MaxKeys,         \* how many keys are generated
  MaxCrashes,      \* how often the process dies
  MaxFailures,     \* how many writes fail
  MaxLocks         \* how often app lock is enabled or its credential changed

ASSUME KeyAssumption ==
  /\ RotationPeriod \in Nat \ {0} /\ Grace \in Nat /\ HasDpapi \in BOOLEAN
  /\ Credential # {}

\* The files of an old release hold one key.
ASSUME KeyBounds ==
  /\ {MaxTime, MaxKeys, MaxCrashes, MaxFailures, MaxLocks} \subseteq Nat
  /\ MaxKeys # 0

VARIABLES
  disk,      \* the data directory
  mem,       \* the node object of the running process
  todo,      \* the steps that the handler in progress still has to make
  after,     \* the node object once that handler is done
  now,       \* time
  minted,    \* how many keys were generated
  given,     \* the encryption keys that others have seen published
  seeded,    \* a paper seed was written down for this identity
  spent      \* crashes, failures and lock changes so far

vars == <<disk, mem, todo, after, now, minted, given, seeded, spent>>
----------------------------------------------------------------------------
(***************************************************************************)
(* Keys are numbered in the order they are generated; 0 is no key.  The    *)
(* private and public half of an encryption key share their number, which  *)
(* does not mean that whoever has one half has the other.                  *)
(***************************************************************************)
Key == 0..MaxKeys
Time == 0..MaxTime

\* SECRET_FIELDS of DeviceKeys.
Secrets ==
  [device : BOOLEAN, identity : BOOLEAN, enc : Key,
   retired : SUBSET [key : Key, at : Time], storage : Key]

NoSecrets ==
  [device |-> FALSE, identity |-> FALSE, enc |-> 0, retired |-> {}, storage |-> 0]

\* keys.json: the public half, and the secrets unless app lock took them away.
KeyFile ==
  [cert : BOOLEAN, pub : Key, seq : Nat, revoked : BOOLEAN,
   secrets : Secrets \union {Absent}]

\* applock.json: the bundle sealed under a master key, which is derived from the
\* credential and the record's own device secret; masters are numbered 1 and 2.
LockFile ==
  [credential : Credential, master : {1, 2}, under : 0..2,
   secrets : Secrets, seed : BOOLEAN]

\* hearth.db: whether the identity and the device's view are on file, whether the
\* view is revoked, the latest enckey message of this device, the highest sequence
\* number accepted from it, the messages with the key each is sealed to, the cached
\* content keys with the storage key that seals each, and the negative cache.
Database ==
  [own : BOOLEAN, revoked : BOOLEAN, enckey : [key : Key, at : Time],
   top : Nat, rows : [Msg -> Key], cached : [Msg -> Key], marked : SUBSET Msg]

EmptyDatabase ==
  [own |-> FALSE, revoked |-> FALSE, enckey |-> [key |-> 0, at |-> 0], top |-> 0,
   rows |-> [m \in Msg |-> 0], cached |-> [m \in Msg |-> 0], marked |-> {}]

\* A file that is not there is no file.
ASSUME AbsentAssumption == Absent \notin Secrets \union KeyFile \union LockFile

Disk ==
  [keys : KeyFile \union {Absent}, lock : LockFile \union {Absent},
   seed : BOOLEAN, db : Database]

\* The node object.  kept: the last maintain_enckey() since the secrets were read
\* went through.
Memory ==
  [phase : {"down", "starting", "serving"}, applock : BOOLEAN, locked : BOOLEAN,
   revoked : BOOLEAN, secrets : Secrets, pub : Key, seq : Nat, master : 0..2,
   seed : BOOLEAN, kept : BOOLEAN]

Down ==
  [phase |-> "down", applock |-> FALSE, locked |-> FALSE, revoked |-> FALSE,
   secrets |-> NoSecrets, pub |-> 0, seq |-> 0, master |-> 0, seed |-> FALSE,
   kept |-> FALSE]

\* The runner starts a node only from an enrolled keys.json.
Enrolled(d) == d.keys # Absent /\ d.keys.cert

\* The private keys that may open a message: the current one and the retired ones.
EncPrivs(s) == {s.enc} \union {r.key : r \in s.retired}

\* A step: what the disk becomes, and the node object at the time of writing it.
Step == [disk : Disk, mem : Memory]

To(d, m) == <<[disk |-> d, mem |-> m]>>

\* The disk at the end of a sequence of steps that starts from d.
Last(d, ws) == IF ws = <<>> THEN d ELSE ws[Len(ws)].disk
----------------------------------------------------------------------------
(***************************************************************************)
(* Writing the key files.                                                  *)
(***************************************************************************)
Bundle(m) ==
  [cert |-> TRUE, pub |-> m.pub, seq |-> m.seq, revoked |-> m.revoked,
   secrets |-> m.secrets]

NonSecret(keys) == [keys EXCEPT !.secrets = Absent]

\* A plausible defect: sealing again leaves out what is not a key.
ReencryptKeys(record, m) ==
  [record EXCEPT !.secrets = m.secrets, !.seed = FALSE, !.under = m.master]

\* Sealing under the master the process holds; the record keeps its device secret.
Reencrypt(record, m) ==
  [record EXCEPT !.secrets = m.secrets, !.seed = m.seed, !.under = m.master]

WriteKeys(d, keys) == [d EXCEPT !.keys = keys]

\* A plausible defect: under app lock only keys.json is written.
SavePublicHalf(d, m) ==
  To(WriteKeys(d, IF m.applock THEN NonSecret(Bundle(m)) ELSE Bundle(m)), m)

SaveKeys(d, m) ==
  IF m.applock
  THEN LET sealed == [d EXCEPT !.lock = Reencrypt(d.lock, m)]
       IN  To(sealed, m) \o To(WriteKeys(sealed, NonSecret(Bundle(m))), m)
  ELSE To(WriteKeys(d, Bundle(m)), m)

(***************************************************************************)
(* Signing takes the next sequence number; the store accepts a message of  *)
(* a known identity whose number it has not seen; the number is saved only *)
(* then.  The one message that matters here announces the encryption key.  *)
(***************************************************************************)
Signed(m) == [m EXCEPT !.seq = m.seq + 1]

Accepts(d, m) == d.db.own /\ m.seq > d.db.top

IngestEnckey(d, m) ==
  IF Accepts(d, m)
  THEN [d EXCEPT !.db.enckey = [key |-> m.pub, at |-> now], !.db.top = m.seq]
  ELSE d

PublishEnckey(d, m) ==
  LET n == Signed(m)
  IN  To(IngestEnckey(d, n), n) \o SaveKeys(IngestEnckey(d, n), n)
----------------------------------------------------------------------------
(***************************************************************************)
(* Rotation.  Retired keys are deleted past the grace period: that is the  *)
(* forward secrecy of the design.                                          *)
(***************************************************************************)
Pruned(s) == [s EXCEPT !.retired = {r \in s.retired : now - r.at <= Grace}]

Rotated(m, key) ==
  LET old == [key |-> m.secrets.enc, at |-> now]
      s == [m.secrets EXCEPT !.retired = @ \union {old}, !.enc = key]
  IN  [m EXCEPT !.secrets = Pruned(s), !.pub = key]

Kept(m) == [m EXCEPT !.secrets = Pruned(m.secrets)]

Publishes(d, m) == d.db.enckey.key # m.pub

Rotates(d, m) == ~Publishes(d, m) /\ now - d.db.enckey.at >= RotationPeriod

PruneWrites(d, m) == IF Kept(m) = m THEN <<>> ELSE SaveKeys(d, Kept(m))

\* A plausible defect: the new key is only saved with the sequence number.
RotateUnsaved(d, m) == PublishEnckey(d, m)

RotateWrites(d, m) ==
  LET saved == SaveKeys(d, m) IN saved \o PublishEnckey(Last(d, saved), m)

MaintainWrites(d, m, key) ==
  LET pruned == PruneWrites(d, m)
      e == Last(d, pruned)
  IN  pruned \o (IF Publishes(d, m) THEN PublishEnckey(e, Kept(m))
                 ELSE IF Rotates(d, m) THEN RotateWrites(e, Rotated(Kept(m), key))
                 ELSE <<>>)

\* What the node object has become, unless the store rejected the message.
Maintained(d, m, key) ==
  LET n == IF Rotates(d, m) THEN Rotated(Kept(m), key) ELSE Kept(m)
  IN  IF Publishes(d, m) \/ Rotates(d, m) THEN Signed(n) ELSE n

Rejected(d, m) == (Publishes(d, m) \/ Rotates(d, m)) /\ ~Accepts(d, Signed(m))
----------------------------------------------------------------------------
(***************************************************************************)
(* Revocation: every key is destroyed, the paper seed is put back in the   *)
(* open (it protects the person, not this device), and the store is wiped. *)
(***************************************************************************)
Stripped(m) == [m EXCEPT !.secrets = NoSecrets]

Unsecured(m) == [Stripped(m) EXCEPT !.applock = FALSE, !.master = 0, !.seed = FALSE]

Revoked(m) == [Unsecured(m) EXCEPT !.revoked = TRUE, !.locked = FALSE]

DropLock(d) == [d EXCEPT !.lock = Absent]

RestoreSeed(d) == [d EXCEPT !.seed = TRUE]

RestoreWrites(d, m) == IF m.seed THEN To(RestoreSeed(d), Stripped(m)) ELSE <<>>

UnsecureWrites(d, m) ==
  IF m.applock
  THEN RestoreWrites(d, m) \o To(DropLock(Last(d, RestoreWrites(d, m))), Stripped(m))
  ELSE <<>>

Wiped(d) == [d EXCEPT !.db = EmptyDatabase]

RevokeWrites(d, m) ==
  LET dead == WriteKeys(Last(d, UnsecureWrites(d, m)), Bundle(Revoked(m)))
  IN  UnsecureWrites(d, m) \o To(dead, Unsecured(m)) \o To(Wiped(dead), Unsecured(m))
----------------------------------------------------------------------------
(***************************************************************************)
(* The actions.  Run starts a handler that makes the given writes.         *)
(***************************************************************************)
Spent == [crashes : 0..MaxCrashes, failures : 0..MaxFailures, locks : 0..MaxLocks]

\* A release from before there were storage keys left its files behind.
OldFiles ==
  [keys |-> [cert |-> TRUE, pub |-> 1, seq |-> 1, revoked |-> FALSE,
             secrets |-> [device |-> TRUE, identity |-> TRUE, enc |-> 1,
                          retired |-> {}, storage |-> 0]],
   lock |-> Absent, seed |-> TRUE,
   db |-> [EmptyDatabase EXCEPT !.own = TRUE, !.top = 1,
                                !.enckey = [key |-> 1, at |-> 0]]]

NewFiles == [keys |-> Absent, lock |-> Absent, seed |-> FALSE, db |-> EmptyDatabase]

Init ==
  /\ disk \in {NewFiles, OldFiles}
  /\ mem = Down /\ todo = <<>> /\ after = Down /\ now = 0
  /\ minted = (IF disk = OldFiles THEN 1 ELSE 0)
  /\ given = (IF disk = OldFiles THEN {1} ELSE {})
  /\ seeded = disk.seed
  /\ spent = [crashes |-> 0, failures |-> 0, locks |-> 0]

Idle == todo = <<>>

Run(writes, then) ==
  /\ Idle
  /\ todo' = writes /\ after' = then
  /\ mem' = (IF writes = <<>> THEN then ELSE Head(writes).mem)
  /\ UNCHANGED <<disk, now, given, seeded>>

Serving == mem.phase = "serving" /\ Idle
Unlocked == mem.phase # "down" /\ ~mem.locked /\ ~mem.revoked

(***************************************************************************)
(* A new device: creating an identity (with the paper seed and a first     *)
(* profile message), or asking to be paired and installing the package.    *)
(***************************************************************************)
FreshKeys(enrolled) ==
  [cert |-> enrolled, pub |-> minted + 1, seq |-> 0, revoked |-> FALSE,
   secrets |-> [device |-> TRUE, identity |-> enrolled, enc |-> minted + 1,
                retired |-> {}, storage |-> minted + 2]]

\* add_identity() and save_views() for this device.
Install(d) == [d EXCEPT !.db.own = TRUE]

Create ==
  /\ mem.phase = "down" /\ ~Enrolled(disk)
  /\ minted + 2 <= MaxKeys /\ minted' = minted + 2
  /\ LET keys == FreshKeys(TRUE)
         written == WriteKeys(disk, keys)
         noted == [written EXCEPT !.seed = TRUE]
         installed == Install(noted)
         profile == [installed EXCEPT !.db.top = 1]
         saved == WriteKeys(profile, [keys EXCEPT !.seq = 1])
     IN  Run(To(written, Down) \o To(noted, Down) \o To(installed, Down)
               \o To(profile, Down) \o To(saved, Down), Down)
  /\ UNCHANGED spent

PairRequest ==
  /\ mem.phase = "down" /\ ~Enrolled(disk)
  /\ minted + 2 <= MaxKeys /\ minted' = minted + 2
  /\ Run(To(WriteKeys(disk, FreshKeys(FALSE)), Down), Down)
  /\ UNCHANGED spent

PairInstall ==
  /\ mem.phase = "down" /\ disk.keys # Absent /\ ~disk.keys.cert
  /\ LET keys == [disk.keys EXCEPT !.cert = TRUE, !.secrets.identity = TRUE]
         written == WriteKeys(disk, keys)
     IN  Run(To(written, Down) \o To(Install(written), Down), Down)
  /\ UNCHANGED <<minted, spent>>
----------------------------------------------------------------------------
(***************************************************************************)
(* Starting.  With applock.json there, whatever an interrupted handler     *)
(* left in the open is scrubbed and the node starts locked.  Otherwise the *)
(* secrets are read, a revocation on file is acted on, and a missing       *)
(* storage key is generated and pinned.                                    *)
(***************************************************************************)
LockedNode(d) ==
  [Down EXCEPT !.phase = "starting", !.applock = TRUE, !.locked = TRUE,
               !.revoked = d.keys.revoked, !.pub = d.keys.pub, !.seq = d.keys.seq]

\* A plausible defect: only keys.json is looked at.
ScrubKeys(d, m) ==
  IF d.keys.secrets = Absent THEN <<>> ELSE To(WriteKeys(d, NonSecret(d.keys)), m)

Scrub(d, m) ==
  LET bare == IF d.keys.secrets = Absent THEN <<>>
              ELSE To(WriteKeys(d, NonSecret(d.keys)), m)
      e == Last(d, bare)
  IN  bare \o (IF e.seed THEN To([e EXCEPT !.seed = FALSE], m) ELSE <<>>)

BootLocked ==
  /\ mem.phase = "down" /\ Enrolled(disk) /\ disk.lock # Absent
  /\ Run(Scrub(disk, LockedNode(disk)), LockedNode(disk))
  /\ UNCHANGED <<minted, spent>>

\* A device that has its signing key but no storage key gets one.
NeedsStorage(secrets) == secrets.device /\ secrets.storage = 0

Pinned(secrets) ==
  IF NeedsStorage(secrets) THEN [secrets EXCEPT !.storage = minted + 1] ELSE secrets

Mints(secrets) ==
  /\ NeedsStorage(secrets) => minted < MaxKeys
  /\ minted' = IF NeedsStorage(secrets) THEN minted + 1 ELSE minted

\* The checks that follow once the secrets are in memory.
Unsealed(d, m, secrets) ==
  IF ~m.revoked /\ d.db.revoked THEN RevokeWrites(d, m)
  ELSE IF ~m.revoked /\ NeedsStorage(secrets) THEN SaveKeys(d, m)
  ELSE <<>>

UnsealedNode(d, m) == IF ~m.revoked /\ d.db.revoked THEN Revoked(m) ELSE m

Boot ==
  /\ mem.phase = "down" /\ Enrolled(disk) /\ disk.lock = Absent
  /\ disk.keys.secrets # Absent   \* from_json() raises a KeyError otherwise
  /\ Mints(disk.keys.secrets)
  /\ LET m == [Down EXCEPT !.phase = "starting", !.revoked = disk.keys.revoked,
                           !.secrets = Pinned(disk.keys.secrets),
                           !.pub = disk.keys.pub, !.seq = disk.keys.seq]
     IN  Run(Unsealed(disk, m, disk.keys.secrets), UnsealedNode(disk, m))
  /\ UNCHANGED spent

(***************************************************************************)
(* maintain_enckey() runs when the application is built, before anything   *)
(* is served, and in every gossip round.  A rejected message raises: the   *)
(* start fails, a round goes on to the next one.                           *)
(***************************************************************************)
Mint(rotates) ==
  /\ rotates => minted < MaxKeys
  /\ minted' = IF rotates THEN minted + 1 ELSE minted

StartServing ==
  /\ mem.phase = "starting" /\ Unlocked /\ Mint(Rotates(disk, mem))
  /\ LET m == Maintained(disk, mem, minted + 1)
     IN  Run(MaintainWrites(disk, mem, minted + 1),
             IF Rejected(disk, mem) THEN Down
             ELSE [m EXCEPT !.phase = "serving", !.kept = TRUE])
  /\ UNCHANGED spent

StartServingIdle ==
  /\ mem.phase = "starting" /\ ~Unlocked
  /\ Run(<<>>, [mem EXCEPT !.phase = "serving"])
  /\ UNCHANGED <<minted, spent>>

MaintainEnckey ==
  /\ Serving /\ Unlocked /\ Mint(Rotates(disk, mem))
  /\ LET m == Maintained(disk, mem, minted + 1)
     IN  Run(MaintainWrites(disk, [mem EXCEPT !.kept = FALSE], minted + 1),
             [m EXCEPT !.kept = ~Rejected(disk, mem)])
  /\ UNCHANGED spent
----------------------------------------------------------------------------
(***************************************************************************)
(* App lock.                                                               *)
(***************************************************************************)
LockChange == spent.locks < MaxLocks /\ spent' = [spent EXCEPT !.locks = @ + 1]

EnableApplock(c) ==
  /\ HasDpapi /\ Serving /\ Unlocked /\ ~mem.applock /\ LockChange
  /\ LET locked == [disk EXCEPT !.lock = [credential |-> c, master |-> 1, under |-> 1,
                                          secrets |-> mem.secrets, seed |-> disk.seed]]
         bare == WriteKeys(locked, NonSecret(Bundle(mem)))
         hidden == IF disk.seed THEN To([bare EXCEPT !.seed = FALSE], mem) ELSE <<>>
     IN  Run(To(locked, mem) \o To(bare, mem) \o hidden,
             [mem EXCEPT !.applock = TRUE, !.master = 1, !.seed = disk.seed])
  /\ UNCHANGED minted

\* The credential must match, and the bundle be sealed under the master it yields.
Opens(record, c) == record.credential = c /\ record.under = record.master

Unlock(c) ==
  /\ Serving /\ mem.applock /\ mem.locked /\ Opens(disk.lock, c)
  /\ LET secrets == disk.lock.secrets
         m == [mem EXCEPT !.locked = FALSE, !.secrets = Pinned(secrets),
                          !.seed = disk.lock.seed, !.master = disk.lock.master,
                          !.pub = disk.keys.pub, !.seq = disk.keys.seq, !.kept = FALSE]
     IN  /\ Mints(secrets)
         /\ LET checked == Unsealed(disk, m, secrets)
                e == Last(disk, checked)
            IN  Run(checked \o To([e EXCEPT !.db.marked = {}], UnsealedNode(disk, m)),
                    UnsealedNode(disk, m))
  /\ UNCHANGED spent

\* By hand, or by the tick of the gossip loop.
Lock ==
  /\ Serving /\ mem.applock /\ ~mem.locked
  /\ Run(<<>>, [mem EXCEPT !.locked = TRUE, !.secrets = NoSecrets, !.master = 0,
                           !.seed = FALSE, !.kept = FALSE])
  /\ UNCHANGED <<minted, spent>>

\* A changed credential comes with a new device secret, hence a new master.
ChangeCredential(old, new) ==
  /\ Serving /\ Unlocked /\ mem.applock /\ Opens(disk.lock, old) /\ LockChange
  /\ LET master == 3 - disk.lock.master
         record == [disk.lock EXCEPT !.credential = new, !.master = master,
                                     !.under = master]
     IN  Run(To([disk EXCEPT !.lock = record], mem), [mem EXCEPT !.master = master])
  /\ UNCHANGED minted

\* Everything is back in the open before the sealed copy goes.
DisableApplock(c) ==
  /\ Serving /\ Unlocked /\ mem.applock /\ Opens(disk.lock, c)
  /\ LET m == [mem EXCEPT !.applock = FALSE, !.master = 0, !.seed = FALSE]
         restored == IF disk.lock.seed THEN To(RestoreSeed(disk), mem) ELSE <<>>
         plain == WriteKeys(Last(disk, restored), Bundle(mem))
     IN  Run(restored \o To(plain, mem) \o To(DropLock(plain), mem), m)
  /\ UNCHANGED <<minted, spent>>
----------------------------------------------------------------------------
(***************************************************************************)
(* Messages.  A session proves the device key, so a locked or revoked node *)
(* takes part in none.  A sender seals to a key it has seen published.     *)
(***************************************************************************)
Synced == {disk.db.enckey.key} \ {0}

Deliver(m, key) ==
  /\ Serving /\ Unlocked /\ disk.db.rows[m] = 0
  /\ Run(To([disk EXCEPT !.db.rows[m] = key], mem), mem)
  /\ UNCHANGED <<minted, spent>>

\* A sealed row of the cache opens with the storage key it was sealed with.
Cached(d, m, s) == d.db.cached[m] # 0 /\ d.db.cached[m] = s.storage

Unwraps(d, m, s) == d.db.rows[m] \in EncPrivs(s) \ {0}

\* _content_key(): the cache, then the envelope; a key found there is cached, and
\* takes the place of a row that no longer opens.
Resolve(d, m, s) ==
  IF ~Cached(d, m, s) /\ Unwraps(d, m, s) /\ s.storage # 0
  THEN [d EXCEPT !.db.cached[m] = s.storage, !.db.marked = @ \ {m}]
  ELSE d

\* Somebody looks at the thread; nothing is marked.
View(m) ==
  /\ Serving /\ Unlocked /\ disk.db.rows[m] # 0 /\ Resolve(disk, m, mem.secrets) # disk
  /\ Run(To(Resolve(disk, m, mem.secrets), mem), mem)
  /\ UNCHANGED <<minted, spent>>

\* A plausible defect: the sweep runs whether or not the keys are there.
AlwaysSweepable == mem.phase # "down"

\* The sweep at the end of a round: what cannot be opened is marked, and never
\* tried again.
Sweepable == Unlocked /\ mem.secrets.storage # 0

Uncached(d) ==
  {m \in Msg : d.db.rows[m] # 0 /\ d.db.cached[m] = 0 /\ m \notin d.db.marked}

Swept(d, s) ==
  [d EXCEPT
    !.db.cached = [m \in Msg |-> IF m \in Uncached(d) /\ Unwraps(d, m, s)
                                 THEN s.storage ELSE d.db.cached[m]],
    !.db.marked = @ \union {m \in Uncached(d) : ~Unwraps(d, m, s)}]

CacheMessageKeys ==
  /\ Serving /\ Sweepable /\ Uncached(disk) # {}
  /\ Run(To(Swept(disk, mem.secrets), mem), mem)
  /\ UNCHANGED <<minted, spent>>

\* A sibling's session brings the revocation of this device.
LearnRevocation ==
  /\ Serving /\ Unlocked
  /\ LET told == [disk EXCEPT !.db.revoked = TRUE]
     IN  Run(To(told, mem) \o RevokeWrites(told, mem), Revoked(mem))
  /\ UNCHANGED <<minted, spent>>
----------------------------------------------------------------------------
(***************************************************************************)
(* The steps of a handler, and what goes wrong.                            *)
(***************************************************************************)
Write ==
  /\ ~Idle
  /\ disk' = Head(todo).disk /\ todo' = Tail(todo)
  /\ mem' = (IF Len(todo) = 1 THEN after ELSE todo[2].mem)
  /\ seeded' = (seeded \/ disk'.seed)
  /\ UNCHANGED <<after, now, minted, given, spent>>

\* Others learn the key that is on file.
Share ==
  /\ Serving /\ Unlocked /\ ~(Synced \subseteq given)
  /\ given' = given \union Synced
  /\ UNCHANGED <<disk, mem, todo, after, now, minted, seeded, spent>>

Tick ==
  /\ Idle /\ now < MaxTime /\ now' = now + 1
  /\ UNCHANGED <<disk, mem, todo, after, minted, given, seeded, spent>>

\* Not while enrolling, which leaves a device that never starts (see the README).
Crash ==
  /\ mem.phase # "down" /\ spent.crashes < MaxCrashes
  /\ spent' = [spent EXCEPT !.crashes = @ + 1]
  /\ mem' = Down /\ todo' = <<>> /\ after' = Down
  /\ UNCHANGED <<disk, now, minted, given, seeded>>

\* A write fails: the handler raises, and the process carries on with the node object
\* as it was at that point.  Only SpecWithFailures takes this step.
FailedWrite ==
  /\ ~Idle /\ mem.phase = "serving" /\ ~disk.db.revoked
  /\ spent.failures < MaxFailures
  /\ spent' = [spent EXCEPT !.failures = @ + 1]
  /\ todo' = <<>> /\ after' = mem
  /\ UNCHANGED <<disk, mem, now, minted, given, seeded>>

Operation ==
  \/ Create \/ PairRequest \/ PairInstall
  \/ BootLocked \/ Boot \/ StartServing \/ StartServingIdle \/ MaintainEnckey
  \/ \E c \in Credential : EnableApplock(c) \/ Unlock(c) \/ DisableApplock(c)
  \/ \E old, new \in Credential : ChangeCredential(old, new)
  \/ Lock
  \/ \E m \in Msg : View(m) \/ \E key \in given : Deliver(m, key)
  \/ CacheMessageKeys
  \/ LearnRevocation

Next == Operation \/ Write \/ Share \/ Tick \/ Crash

Spec == Init /\ [][Next]_vars

SpecWithFailures == Init /\ [][Next \/ FailedWrite]_vars
----------------------------------------------------------------------------
(***************************************************************************)
(* Properties.                                                             *)
(***************************************************************************)
\* Every value is of its type: the files, the node object and the steps to come.
TypeOK ==
  /\ disk \in Disk /\ mem \in Memory /\ after \in Memory
  /\ \A i \in 1..Len(todo) : todo[i] \in Step
  /\ now \in Time /\ minted \in Key /\ given \subseteq Key
  /\ seeded \in BOOLEAN /\ spent \in Spent

\* What starting the node, and unlocking it with the right credential, would read.
Readable(d) ==
  IF d.lock # Absent
  THEN IF d.lock.under = d.lock.master THEN d.lock.secrets ELSE NoSecrets
  ELSE IF d.keys = Absent \/ d.keys.secrets = Absent THEN NoSecrets ELSE d.keys.secrets

InUse(d) == Enrolled(d) /\ ~d.db.revoked /\ ~d.keys.revoked

\* No sequence of crashes, lock changes and rotations loses key
\* material: at every point between two writes, a restart can read the signing and
\* identity keys, and between two handlers also the storage key and every encryption
\* key others may be sealing to that the process still has (enable_applock(),
\* disable_applock() and _save_keys() write in the order that ensures it,
\* node.py:397, 563).
KeysRecoverable ==
  InUse(disk) =>
    /\ Readable(disk).device /\ Readable(disk).identity
    /\ (Idle /\ mem.phase # "down" /\ Unlocked) =>
         /\ Readable(disk).storage = mem.secrets.storage
         /\ EncPrivs(mem.secrets) \intersect (given \union {disk.db.enckey.key})
              \subseteq EncPrivs(Readable(disk))

\* The paper seed, once written down, is always in the open or in the sealed bundle,
\* through lock changes, rotations, crashes and the revocation of the device, after
\* which it is the only way back (CRITICAL #1, node.py:3158).
SeedKept ==
  seeded => \/ disk.seed
            \/ disk.lock # Absent /\ disk.lock.seed /\ disk.lock.under = disk.lock.master

\* While app lock is on and no handler is writing, neither the keys nor the paper
\* seed lie on the disk in the open, whatever crash came before (node.py:297).
SealedAtRest ==
  (mem.phase # "down" /\ mem.applock /\ Idle) =>
    disk.keys.secrets = Absent /\ ~disk.seed

\* Others seal messages to the key published last.  After every maintain_enckey()
\* that went through, and as long as no later one was cut short, the device holds
\* the private half of it, although the two halves are in different files and the
\* publication is a third write (node.py:2072).
PublishedKeyHeld ==
  (Idle /\ Unlocked /\ mem.kept) => disk.db.enckey.key \in EncPrivs(mem.secrets)

\* The content key cache is right: a cached key opens with the storage key that a
\* restart reads, and a message that the sweep gave up on is one that no key on the
\* disk within grace opens (node.py:3064: a sweep of a locked node would give up on
\* all of them).
CacheIsRight ==
  InUse(disk) =>
    \A m \in Msg :
      /\ disk.db.cached[m] # 0 => disk.db.cached[m] = Readable(disk).storage
      /\ m \in disk.db.marked => disk.db.rows[m] \notin EncPrivs(Pruned(Readable(disk)))

\* "it is always safe to scrub keys.json back down" (node.py:293): when both files
\* hold secrets, the sealed ones include every key that the plain ones do.
ScrubIsSafe ==
  (InUse(disk) /\ disk.lock # Absent /\ disk.keys.secrets # Absent) =>
    EncPrivs(disk.keys.secrets) \subseteq EncPrivs(disk.lock.secrets)

\* A revoked device that has started has nothing left in its store.
RevokedIsWiped ==
  (mem.phase = "serving" /\ mem.revoked /\ Idle) => disk.db = EmptyDatabase
=============================================================================
