---------------------------- MODULE HearthStore ----------------------------
(***************************************************************************)
(* The replicated message store of Kreds (store.py, with the acceptance    *)
(* pipeline of identity.py and the REVOCATIONS and MESSAGES phases of a    *)
(* session, sync.py).  Each node is one device of one identity.  A node    *)
(* signs messages under consecutive sequence numbers, keeps the rows it    *)
(* accepted, and remembers for ever what it buried (tombstones) and, per   *)
(* device, which sequence numbers it accepted.  Sessions between two nodes *)
(* are lossy and deliver in any order, and a process may crash between     *)
(* storing its own message and saving its keys.                            *)
(*                                                                         *)
(* Time, content and cryptography are abstracted: a message is a member of *)
(* Id whose kind, author, target and audience are fixed (they are signed), *)
(* while the device, the moment and the sequence number it is signed with  *)
(* are chosen by the steps.  Every node knows every identity here; who     *)
(* knows whom changes in module Unfriend.                                  *)
(***************************************************************************)
EXTENDS SeenSet

CONSTANTS
  Node,          \* devices, each running one node
  Identity,      \* identities (people)
  OwnerOf,       \* the identity a device is enrolled under
  Id,            \* the messages that may be written
  KindOf,        \* "content", "record", "grant" or "delete"
  AuthorOf,      \* the identity that signs the message
  TargetOf,      \* the message a record, a grant or a delete tag is about
  Audience,      \* the identities whose devices the message's wraps name
  Expiring,      \* messages that carry an expires_at
  Revocable,     \* bound: the devices an owner may decide to revoke
  Scenarios,     \* bound: the messages written in one behaviour are among one of these sets
  NoId           \* the target of a message that has none

Kinds == {"content", "record", "grant", "delete"}

ASSUME ConstantsAssumption ==
  /\ OwnerOf \in [Node -> Identity]
  /\ KindOf \in [Id -> Kinds]
  /\ AuthorOf \in [Id -> Identity]
  /\ TargetOf \in [Id -> Id \union {NoId}]
  /\ Audience \in [Id -> SUBSET Identity]
  /\ Expiring \in SUBSET Id
  /\ Revocable \in SUBSET Node
  /\ Scenarios \in SUBSET SUBSET Id
  /\ NoId \notin Id
  /\ \A x \in Id : TargetOf[x] # x

VARIABLES
  local,     \* what each node has on disk: its store and its seq counter
  alive,     \* FALSE once a node has logged out because it was revoked
  sig,       \* the device and sequence number of every message in existence
  wire       \* wire[m][n]: the MESSAGES frame on its way from m to n

vars == <<local, alive, sig, wire>>

Kept == "kept"             \* not tombstoned
Reasons == {"deleted", "invalid", "expired", "retro-drop"}
NotRevoked == -1
Unsigned == [dev |-> NoId, seq |-> 0]
Signatures == [dev : Node, seq : SeqNo] \union {Unsigned}

EmptyStore ==
  [rows |-> {},                             \* messages table
   dead |-> [x \in Id |-> Kept],            \* tombstones table, with the reason
   seen |-> [d \in Node |-> EmptySeen],     \* device_views: accepted numbers
   rev  |-> [d \in Node |-> NotRevoked],    \* device_views: last_valid_seq
   seq  |-> 0]                              \* keys.json: last number signed

Bounds == {NotRevoked} \union 0..MaxSeq

Stores == [rows : SUBSET Id,
           dead : [Id -> Reasons \union {Kept}],
           seen : [Node -> SeenSets],
           rev  : [Node -> Bounds],
           seq  : 0..MaxSeq]

IsTag(x) == KindOf[x] = "delete"
Tags == {x \in Id : IsTag(x)}
IsGrant(x) == KindOf[x] = "grant"

\* make_wrap_grant() is only called about posts, direct messages and records.
ASSUME GrantsAssumption ==
  \A g \in Id : IsGrant(g) => TargetOf[g] \in Id /\ ~IsGrant(TargetOf[g])

\* make_delete() gives a tag no expires_at.
ASSUME TagsAssumption == \A x \in Expiring : ~IsTag(x)
----------------------------------------------------------------------------
(***************************************************************************)
(* The store of one node: operators on its record s.                       *)
(***************************************************************************)

\* Mutant of Bury: a bare row delete, without a tombstone.
DropRows(s, ids, reason) == [s EXCEPT !.rows = @ \ ids]

\* _tombstone(): drop the rows and remember the first reason they died for.
Bury(s, ids, reason) ==
  [s EXCEPT !.rows = @ \ ids,
            !.dead = [x \in Id |-> IF x \in ids /\ @[x] = Kept THEN reason ELSE @[x]]]

\* Mutant of Verified: no replay check.
VerifiedOnce(s, d, q) == s.rev[d] = NotRevoked \/ q <= s.rev[d]

\* verify_message(): below the device's revocation bound and never used before
Verified(s, d, q) ==
  /\ s.rev[d] = NotRevoked \/ q <= s.rev[d]
  /\ ~SeenHas(s.seen[d], q)

\* Mutant of OwnTags: anybody's tag.
AnyTags(s, x) == {t \in s.rows : IsTag(t) /\ TargetOf[t] = x}

\* Held tags of x's own author that ask for x to be deleted
OwnTags(s, x) ==
  {t \in s.rows : IsTag(t) /\ TargetOf[t] = x /\ AuthorOf[t] = AuthorOf[x]}

\* Mutant of Refused: only authorization, so a tag may delete a tag.
RefusedByAuthor(s, x) ==
  IsTag(x) /\ TargetOf[x] \in s.rows /\ AuthorOf[TargetOf[x]] # AuthorOf[x]

\* A delete tag is refused when its target is held and is itself a tag, or
\* somebody else's message.
Refused(s, x) ==
  /\ IsTag(x)
  /\ TargetOf[x] \in s.rows
  /\ IsTag(TargetOf[x]) \/ AuthorOf[TargetOf[x]] # AuthorOf[x]

\* Mutant of Deleted: a tag that came before its target is forgotten.
DeletedIfHeld(s, x) == {TargetOf[y] : y \in {x} \intersect Tags} \intersect s.rows

\* What accepting x deletes: the held target of a tag, or x itself when its
\* author's tag came first.
Deleted(s, x) ==
  IF IsTag(x) THEN {TargetOf[x]} \intersect s.rows
              ELSE {y \in {x} : OwnTags(s, y) # {}}

\* Mutant of Invalidated: a grant that comes after its target died is kept.
InvalidatedByTag(s, x) ==
  IF IsTag(x)
  THEN {y \in s.rows : \/ IsGrant(y) /\ TargetOf[y] = TargetOf[x]
                       \/ IsTag(y) /\ TargetOf[y] = x}
  ELSE {}

\* What accepting x invalidates: the held grants of a tag's target and the held
\* tags against a tag, or x itself when it grants a message already buried.
Invalidated(s, x) ==
  IF IsTag(x)
  THEN {y \in s.rows : \/ IsGrant(y) /\ TargetOf[y] = TargetOf[x]
                       \/ IsTag(y) /\ TargetOf[y] = x}
  ELSE {y \in {x} : /\ IsGrant(y)
                    /\ OwnTags(s, y) = {}
                    /\ TargetOf[y] # NoId
                    /\ s.dead[TargetOf[y]] # Kept}

Accepts(s, x, d, q) ==
  x \notin s.rows /\ s.dead[x] = Kept /\ Verified(s, d, q) /\ ~Refused(s, x)

\* Mutants of Ingest: a message that is deleted on arrival is not counted, and
\* neither is one that is refused.
CountIfKept(s, x, d, q) ==
  LET t == [s EXCEPT !.seen[d] = SeenAdd(@, q), !.rows = @ \union {x}]
  IN  IF ~Accepts(s, x, d, q) THEN s
      ELSE IF x \in Deleted(s, x) THEN Bury(s, {x}, "deleted")
      ELSE Bury(Bury(t, Deleted(s, x), "deleted"), Invalidated(s, x), "invalid")
CountIfAllowed(s, x, d, q) ==
  LET t == [s EXCEPT !.seen[d] = SeenAdd(@, q), !.rows = @ \union {x}]
  IN  IF ~Accepts(s, x, d, q) THEN s
      ELSE Bury(Bury(t, Deleted(s, x), "deleted"), Invalidated(s, x), "invalid")

\* ingest_message() of message x signed by device d under number q
Ingest(s, x, d, q) ==
  LET known == [s EXCEPT !.seen[d] = SeenAdd(@, q)]
      held  == [known EXCEPT !.rows = @ \union {x}]
  IN  IF x \in s.rows \/ s.dead[x] # Kept \/ ~Verified(s, d, q) THEN s
      ELSE IF Refused(s, x) THEN known
      ELSE Bury(Bury(held, Deleted(s, x), "deleted"), Invalidated(s, x), "invalid")

\* Mutant of IngestRevocations: what was accepted before the bound stays.
FutureOnly(s, revs) ==
  [s EXCEPT !.rev = [d \in Node |-> IF revs[d] # NotRevoked THEN revs[d] ELSE @[d]]]

\* ingest_revocation() of every revocation in revs: the bound that arrives
\* replaces the one on file, and the device's later messages are dropped.
IngestRevocations(s, revs) ==
  LET bound == [d \in Node |-> IF revs[d] # NotRevoked THEN revs[d] ELSE s.rev[d]]
      late  == {x \in s.rows : LET d == sig[x].dev IN
                  revs[d] # NotRevoked /\ sig[x].seq > revs[d]}
  IN  Bury([s EXCEPT !.rev = bound], late, "retro-drop")
----------------------------------------------------------------------------
(***************************************************************************)
(* Writing: a node signs a message, stores it and saves its keys.          *)
(***************************************************************************)

\* Who can write x now: its author, on a live device, about a post it holds.  A
\* tag may name anything but a tag the node holds.
Writable(n, x) ==
  /\ alive[n]
  /\ OwnerOf[n] = AuthorOf[x]
  /\ sig[x] = Unsigned
  /\ local[n].seq < MaxSeq
  /\ \E S \in Scenarios : x \in S /\ \A y \in Id : sig[y] # Unsigned => y \in S
  /\ IF IsTag(x) THEN ~(TargetOf[x] \in local[n].rows /\ IsTag(TargetOf[x]))
     ELSE KindOf[x] \in {"grant", "record"} => TargetOf[x] \in local[n].rows

\* _publish() on the node's record: sign under the next number, store, save.
Published(s, n, x) == [Ingest(s, x, n, s.seq + 1) EXCEPT !.seq = @ + 1]

\* A message its own store refused is discarded: it never leaves the node.
SignedBy(sg, s, n, x) ==
  IF Accepts(s, x, n, s.seq + 1)
  THEN [sg EXCEPT ![x] = [dev |-> n, seq |-> s.seq + 1]] ELSE sg

Publish(n, x) ==
  /\ Writable(n, x)
  /\ local' = [local EXCEPT ![n] = Published(@, n, x)]
  /\ sig' = SignedBy(sig, local[n], n, x)
  /\ UNCHANGED <<alive, wire>>

\* Mutant of Records: the record is looked up after the post died.
NoRecords(n, t) == {}

\* The author's own responses records about t that node n holds
Records(n, t) ==
  {r \in local[n].rows : /\ KindOf[r] = "record"
                         /\ TargetOf[r] = t
                         /\ AuthorOf[r] = OwnerOf[n]}

\* delete_post(): the tag x of a post without a responses record
DeletePost(n, x) ==
  /\ Writable(n, x)
  /\ Records(n, TargetOf[x]) = {}
  /\ local' = [local EXCEPT ![n] = Published(@, n, x)]
  /\ sig' = SignedBy(sig, local[n], n, x)
  /\ UNCHANGED <<alive, wire>>

\* delete_post(): the latest record's tag y goes first, then the post's tag x;
\* a y the store rejects raises before x is signed.
DeletePostAndRecord(n, y, x) ==
  /\ TargetOf[y] \in Records(n, TargetOf[x])
  /\ Writable(n, x) /\ Writable(n, y)
  /\ local[n].seq + 2 <= MaxSeq
  /\ LET s == local[n]
         t == Published(s, n, y)
     IN  IF Accepts(s, y, n, s.seq + 1)
         THEN /\ local' = [local EXCEPT ![n] = Published(t, n, x)]
              /\ sig' = SignedBy(SignedBy(sig, s, n, y), t, n, x)
         ELSE /\ local' = [local EXCEPT ![n] = t]
              /\ sig' = sig
  /\ UNCHANGED <<alive, wire>>

\* The process dies and starts again: the sessions of n are gone.
Restarted(n) ==
  wire' = [m \in Node |-> [k \in Node |-> IF n \in {m, k} THEN {} ELSE wire[m][k]]]

\* The process dies after _publish() stored x and before it saved the keys: the
\* counter restarts from the old number.
CrashInPublish(n, x) ==
  /\ Writable(n, x)
  /\ IsTag(x) => Records(n, TargetOf[x]) = {}
  /\ local' = [local EXCEPT ![n] = Ingest(@, x, n, @.seq + 1)]
  /\ sig' = SignedBy(sig, local[n], n, x)
  /\ Restarted(n)
  /\ UNCHANGED alive

\* The same in the second _publish() of delete_post(): the record's tag y is
\* published and saved, the post's tag x is only stored.
CrashInDeletePost(n, y, x) ==
  /\ TargetOf[y] \in Records(n, TargetOf[x])
  /\ Writable(n, x) /\ Writable(n, y)
  /\ local[n].seq + 2 <= MaxSeq
  /\ LET s == local[n]
         t == Published(s, n, y)
     IN  /\ Accepts(s, y, n, s.seq + 1)
         /\ local' = [local EXCEPT ![n] = Ingest(t, x, n, t.seq + 1)]
         /\ sig' = SignedBy(SignedBy(sig, s, n, y), t, n, x)
  /\ Restarted(n)
  /\ UNCHANGED alive

\* sweep_expired(): every row past its expiry dies with its grants.  Which have
\* passed is the clock's choice.
SweepExpired(n) ==
  \E late \in (SUBSET (local[n].rows \intersect Expiring)) \ {{}} :
    /\ alive[n]
    /\ LET grants == {g \in local[n].rows : IsGrant(g) /\ TargetOf[g] \in late}
       IN  local' = [local EXCEPT ![n] = Bury(@, late \union grants, "expired")]
    /\ UNCHANGED <<alive, sig, wire>>

\* revoke_device(): the bound is the highest number seen from the device
RevokeDevice(n, d) ==
  /\ alive[n]
  /\ d \in Revocable /\ n # d /\ OwnerOf[n] = OwnerOf[d]
  /\ LET bound == MaxSeen(local[n].seen[d])
         revs  == [e \in Node |-> IF e = d THEN bound ELSE NotRevoked]
     IN  local' = [local EXCEPT ![n] = IngestRevocations(@, revs)]
  /\ UNCHANGED <<alive, sig, wire>>
----------------------------------------------------------------------------
(***************************************************************************)
(* Sessions.                                                               *)
(***************************************************************************)

KnowsRevoked(n, d) == local[n].rev[d] # NotRevoked

\* Neither side of a session serves the other when it knows it as revoked.
Serving(m, n) ==
  /\ m # n
  /\ alive[m] /\ alive[n]
  /\ ~KnowsRevoked(m, n) /\ ~KnowsRevoked(n, m)

\* Mutant of SwapRevocations: a revoked sibling is refused like anybody else.
SwapIfServing(m, n) ==
  /\ Serving(m, n)
  /\ local' = [local EXCEPT ![m] = IngestRevocations(@, local[n].rev),
                           ![n] = IngestRevocations(@, local[m].rev)]
  /\ UNCHANGED <<alive, sig, wire>>

\* REVOCATIONS phase: both frames are built before either is applied.  A device
\* of another identity that is known as revoked is refused before this phase; a
\* sibling is not, so that it learns of its own revocation and wipes itself.
SwapRevocations(m, n) ==
  /\ m # n
  /\ alive[m] /\ alive[n]
  /\ OwnerOf[m] # OwnerOf[n] => Serving(m, n)
  /\ LET After(k, peer) ==
           IF KnowsRevoked(peer, k) THEN EmptyStore
           ELSE IngestRevocations(local[k], local[peer].rev)
     IN  local' = [local EXCEPT ![m] = After(m, n), ![n] = After(n, m)]
  /\ alive' = [alive EXCEPT ![m] = ~KnowsRevoked(n, m), ![n] = ~KnowsRevoked(m, n)]
  /\ UNCHANGED <<sig, wire>>

\* Mutant of Routed: content goes to everybody who knows its author.
RoutedOpenly(m, x, peer) ==
  IsTag(x) \/ KindOf[x] = "content" \/ peer \in {AuthorOf[x]} \union Audience[x]

\* The identities m may hand x to: its author's and those its wraps name, and
\* for content also those named by the author's own grants that m holds.  A
\* delete tag goes to everybody who knows its author.
Routed(m, x, peer) ==
  \/ IsTag(x)
  \/ peer = AuthorOf[x]
  \/ peer \in Audience[x]
  \/ /\ KindOf[x] = "content"
     /\ \E g \in local[m].rows : /\ IsGrant(g) /\ TargetOf[g] = x
                                 /\ AuthorOf[g] = AuthorOf[x]
                                 /\ peer \in Audience[g]

\* messages_not_in(): the rows n may have whose numbers it has not seen
Offer(m, n) ==
  {x \in local[m].rows : /\ Routed(m, x, OwnerOf[n])
                         /\ ~SeenHas(local[n].seen[sig[x].dev], sig[x].seq)}

SendMessages(m, n) ==
  /\ Serving(m, n)
  /\ wire[m][n] = {}
  /\ Offer(m, n) # {}
  /\ wire' = [wire EXCEPT ![m][n] = Offer(m, n)]
  /\ UNCHANGED <<local, alive, sig>>

\* The frame is ingested message by message in the order of their numbers, each
\* in a transaction of its own.
ReceiveMessage(m, n, x) ==
  /\ alive[n]
  /\ x \in wire[m][n]
  /\ \A y \in wire[m][n] : sig[x].seq <= sig[y].seq
  /\ local' = [local EXCEPT ![n] = Ingest(@, x, sig[x].dev, sig[x].seq)]
  /\ wire' = [wire EXCEPT ![m][n] = @ \ {x}]
  /\ UNCHANGED <<alive, sig>>

\* The connection breaks, or a deadline passes, before the frame is ingested.
LoseConnection(m, n) ==
  /\ wire[m][n] # {}
  /\ wire' = [wire EXCEPT ![m][n] = {}]
  /\ UNCHANGED <<local, alive, sig>>
----------------------------------------------------------------------------
Init ==
  /\ local = [n \in Node |-> EmptyStore]
  /\ alive = [n \in Node |-> TRUE]
  /\ sig = [x \in Id |-> Unsigned]
  /\ wire = [m \in Node |-> [n \in Node |-> {}]]

Next ==
  \/ \E n \in Node, x \in Id \ Tags : Publish(n, x)
  \/ \E n \in Node, x \in Tags : DeletePost(n, x)
  \/ \E n \in Node, x, y \in Tags : \/ DeletePostAndRecord(n, y, x)
                                   \/ CrashInDeletePost(n, y, x)
  \/ \E n \in Node, x \in Id : CrashInPublish(n, x)
  \/ \E n \in Node : SweepExpired(n)
  \/ \E m, n \in Node : \/ RevokeDevice(m, n)
                        \/ SwapRevocations(m, n)
                        \/ SendMessages(m, n)
                        \/ LoseConnection(m, n)
  \/ \E m, n \in Node, x \in Id : ReceiveMessage(m, n, x)

Spec == Init /\ [][Next]_vars

(***************************************************************************)
(* The gossip loop dials every peer again and again (WF on what a session  *)
(* starts with), and a link that is tried for ever eventually carries a    *)
(* message (SF on its arrival, which a broken connection may disable).     *)
(* Nobody has to write, delete or revoke, and no expiry has to pass.       *)
(***************************************************************************)
Fairness ==
  \A m \in Node : \A n \in Node \ {m} :
    /\ WF_vars(SwapRevocations(m, n))
    /\ WF_vars(SendMessages(m, n))
    /\ SF_vars(\E x \in Id : ReceiveMessage(m, n, x))

FairSpec == Spec /\ Fairness
----------------------------------------------------------------------------
(***************************************************************************)
(* Properties.                                                             *)
(***************************************************************************)

\* The type of every variable.
TypeOK ==
  /\ local \in [Node -> Stores]
  /\ alive \in [Node -> BOOLEAN]
  /\ sig \in [Id -> Signatures]
  /\ wire \in [Node -> [Node -> SUBSET Id]]

\* A device never has two messages in circulation under one sequence number,
\* although a crash between storing and saving makes it count from an old one.
OneMessagePerNumber ==
  \A x, y \in Id : sig[x] = sig[y] /\ sig[x] # Unsigned => x = y

\* What a node shows or buried it has counted: the number is in its summary, so
\* peers stop offering the message.
HeldIsSeen ==
  \A n \in Node : \A x \in Id :
    x \in local[n].rows \/ local[n].dead[x] # Kept
      => sig[x] # Unsigned /\ SeenHas(local[n].seen[sig[x].dev], sig[x].seq)

\* Only the author of a message can delete it, in any order of arrival.
DeletedByAuthorOnly ==
  \A n \in Node, x \in Id :
    local[n].dead[x] = "deleted"
      => \E t \in Id : /\ IsTag(t) /\ TargetOf[t] = x
                       /\ AuthorOf[t] = AuthorOf[x]
                       /\ sig[t] # Unsigned

\* Delete tags are immune to deletion: the only tags that die are those aimed
\* at a tag that exists, and those of a revoked device.
TagsAreImmune ==
  \A n \in Node, t \in Id :
    IsTag(t) /\ local[n].dead[t] \in {"deleted", "invalid"}
      => IsTag(TargetOf[t]) /\ sig[TargetOf[t]] # Unsigned

\* No node keeps a message of a device above the bound it has on file.
RevokedStaysCutOff ==
  \A n \in Node : \A x \in local[n].rows :
    LET d == sig[x].dev IN KnowsRevoked(n, d) => sig[x].seq <= local[n].rev[d]

\* Content is stored only by the devices of its author and of the identities it
\* or a grant of its author names, whoever relays it.
AudienceOnly ==
  \A n \in Node : \A x \in local[n].rows :
    KindOf[x] = "content" =>
      \/ OwnerOf[n] \in {AuthorOf[x]} \union Audience[x]
      \/ \E g \in Id : /\ IsGrant(g) /\ TargetOf[g] = x
                       /\ AuthorOf[g] = AuthorOf[x]
                       /\ sig[g] # Unsigned
                       /\ OwnerOf[n] \in Audience[g]

\* Each node shows a message and buries it, and never goes back.
Lifecycle == INSTANCE ReplicaLifecycle WITH
  shown  <- [n \in Node |-> local[n].rows],
  buried <- [n \in Node |-> IF alive[n] THEN {x \in Id : local[n].dead[x] # Kept} ELSE Id]

NeverResurrected == Lifecycle!Spec

\* "A wall is a wall": a node that deleted a post holds no grant of it any more
\* (the comment in ingest_message: "a deleted post's grants must stop gossiping").
GrantsDieWithPost ==
  \A n \in Node : \A g \in local[n].rows :
    IsGrant(g) => local[n].dead[TargetOf[g]] # "deleted"

\* Nothing is in flight to a live node and no node has anything to offer another.
Quiescent ==
  \A m, n \in Node : /\ alive[n] => wire[m][n] = {}
                     /\ Serving(m, n) => Offer(m, n) = {}

\* Gossip settles: no message is offered over and over to a peer that will not
\* count it (the comment in ingest_message: "a bare refusal would leave a summary
\* gap and re-offers forever").
GossipSettles == <>[]Quiescent

\* A node holds no grant of a message that expired, whichever came first.
NoGrantOfExpired ==
  \A n \in Node : \A g \in local[n].rows :
    IsGrant(g) => local[n].dead[TargetOf[g]] # "expired"

\* A responses record dies with its post, however the two deletes, a crash between
\* them and their messages interleave (the comment in delete_post: it is "orphaned
\* content the instant the post itself is gone").  The author has one device.
NoOrphanRecord ==
  Quiescent => \A n \in Node : \A x \in local[n].rows :
                 KindOf[x] = "record" => local[n].dead[TargetOf[x]] # "deleted"

\* Once every message has been exchanged, whatever one node has deleted is
\* deleted at all of them: the order of arrival does not matter.
DeletesConverge ==
  Quiescent => \A m, n \in Node, x \in Id :
                 Serving(m, n) /\ local[m].dead[x] = "deleted" => x \notin local[n].rows

\* The same where devices may be revoked: what one node deleted another shows in the
\* end only when the tag came from a device that one of the two has cut off, for its
\* tag is then dropped by the nodes that hold it, and refused by those that do not
\* (ingest_revocation() and verify_message(); run revoked_tag shows such a case).
DeletionsStand ==
  Quiescent => \A m, n \in Node, x \in Id :
    Serving(m, n) /\ local[m].dead[x] = "deleted" /\ x \in local[n].rows
      => \E t \in Id : /\ IsTag(t) /\ TargetOf[t] = x /\ AuthorOf[t] = AuthorOf[x]
                       /\ sig[t] # Unsigned
                       /\ KnowsRevoked(m, sig[t].dev) \/ KnowsRevoked(n, sig[t].dev)

\* A deletion that one node has carried out is carried out everywhere in the end
\* and stays so, as long as no device is revoked.
DeletionReachesAll ==
  \A x \in Id \ Tags :
    (\E n \in Node : local[n].dead[x] = "deleted")
      ~> \/ [](\A n \in Node : x \notin local[n].rows)
         \/ \E m, n \in Node : KnowsRevoked(m, n)

\* A revoked device that keeps meeting a sibling logs out and wipes itself.
RevokedLogsOut ==
  \A n \in Revocable :
    LET Told == \E m \in Node : alive[m] /\ OwnerOf[m] = OwnerOf[n] /\ KnowsRevoked(m, n)
    IN  Told ~> ~alive[n] \/ ~Told
=============================================================================
