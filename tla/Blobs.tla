-------------------------------- MODULE Blobs --------------------------------
(***************************************************************************)
(* The bytes that messages refer to: photos, videos, thumbnails, avatars.  *)
(* They are kept by hash, so two messages may share one.  A session asks   *)
(* for those that are missing, at its end; what is given in one session is *)
(* limited; what no message refers to is collected whenever a message goes *)
(* (store.py, the BLOBS phase of sync.py).  Between the frames of a        *)
(* session messages come and go on both sides.                             *)
(***************************************************************************)
EXTENDS Naturals, FiniteSetsExt

CONSTANTS
  Node,       \* devices of people who are friends of each other
  Content,    \* posts, stories, profiles and direct messages
  Bytes,      \* blobs, numbered in the order of their hashes
  Refs,       \* referenced_blobs(), of one message
  Size,       \* the length of a blob, as it is sent
  GiveBudget  \* BLOB_GIVE_BUDGET, which any single blob fits (sync.py:46)

ASSUME BlobAssumption ==
  /\ Bytes \subseteq Nat /\ Refs \in [Content -> SUBSET Bytes]
  /\ Size \in [Bytes -> Nat \ {0}] /\ GiveBudget \in Nat
  /\ \A b \in Bytes : Size[b] <= GiveBudget

VARIABLES
  author,     \* who composed a message, if anybody did
  peers,      \* the nodes that each node has not unfriended
  shelf,      \* what each node stores
  exchange    \* the BLOBS phase, where the first node receives from the second

blobVars == <<author, peers, shelf, exchange>>
----------------------------------------------------------------------------
Nobody == "nobody"

\* The messages it has, those it knows to be deleted, and the blobs table.
Shelf == [live : SUBSET Content, gone : SUBSET Content, blobs : SUBSET Bytes]

Exchange == [at : {"idle", "asked", "given"}, blobs : SUBSET Bytes]

NoExchange == [at |-> "idle", blobs |-> {}]

BlobInit ==
  /\ author = [c \in Content |-> Nobody]
  /\ peers = [n \in Node |-> Node \ {n}]
  /\ shelf = [n \in Node |-> [live |-> {}, gone |-> {}, blobs |-> {}]]
  /\ exchange = [p \in Node \X Node |-> NoExchange]
----------------------------------------------------------------------------
Referenced(live) == UNION {Refs[c] : c \in live}

\* A plausible defect: what the dropped messages refer to is dropped with them.
DropsTheirs(s, live) ==
  [s EXCEPT !.live = live, !.blobs = @ \ Referenced(s.live \ live)]

\* gc_blobs(), after some messages went.
Collected(s, live) == [s EXCEPT !.live = live, !.blobs = @ \intersect Referenced(live)]

\* A delete tag, which may come before the message does.
Deleted(s, c) ==
  LET kept == IF c \in s.live THEN Collected(s, s.live \ {c}) ELSE s
  IN  [kept EXCEPT !.gone = @ \union {c}]

Missing(n) == Referenced(shelf[n].live) \ shelf[n].blobs

LinkedPeers(n, g) == g \in peers[n] /\ n \in peers[g]

\* Composing stores the bytes and then publishes; the process may die in between.
ComposeContent(n, c, cut) ==
  /\ author[c] = Nobody
  /\ author' = IF cut THEN author ELSE [author EXCEPT ![c] = n]
  /\ shelf' = [shelf EXCEPT ![n].blobs = @ \union Refs[c],
                            ![n].live = IF cut THEN @ ELSE @ \union {c}]
  /\ shelf' # shelf
  /\ UNCHANGED <<peers, exchange>>

\* delete_post() by its author.
DeleteContent(n, c) ==
  /\ author[c] = n /\ c \in shelf[n].live
  /\ shelf' = [shelf EXCEPT ![n] = Deleted(@, c)]
  /\ UNCHANGED <<author, peers, exchange>>

\* unfriend(): all that the other one published goes.
Part(n, g) ==
  /\ g \in peers[n] /\ peers' = [peers EXCEPT ![n] = @ \ {g}]
  /\ shelf' = [shelf EXCEPT ![n] = Collected(@, {c \in @.live : author[c] # g})]
  /\ UNCHANGED <<author, exchange>>

\* MESSAGES of a session: a message, and a delete tag, which may come first.
Knows(n, c) == author[c] = n \/ author[c] \in peers[n]

ReceiveContent(n, g, c) ==
  /\ LinkedPeers(n, g) /\ Knows(n, c)
  /\ c \in shelf[g].live \ (shelf[n].live \union shelf[n].gone)
  /\ shelf' = [shelf EXCEPT ![n].live = @ \union {c}]
  /\ UNCHANGED <<author, peers, exchange>>

ReceiveDeletion(n, g, c) ==
  /\ LinkedPeers(n, g) /\ Knows(n, c) /\ c \in shelf[g].gone \ shelf[n].gone
  /\ shelf' = [shelf EXCEPT ![n] = Deleted(@, c)]
  /\ UNCHANGED <<author, peers, exchange>>
----------------------------------------------------------------------------
(***************************************************************************)
(* BLOBS.                                                                  *)
(***************************************************************************)
\* Smallest first; ties in the order of the hashes.
Ahead(b, c) == Size[b] < Size[c] \/ (Size[b] = Size[c] /\ b <= c)

SizeUpTo(wanted, b) ==
  MapThenSumSet(LAMBDA c : Size[c], {c \in wanted : Ahead(c, b)})

\* As many as the budget allows, and one in any case.
Given(wanted) ==
  {b \in wanted : \/ \A c \in wanted : Ahead(b, c)
                  \/ SizeUpTo(wanted, b) <= GiveBudget}

Want(n, g) ==
  /\ exchange[<<n, g>>].at = "idle" /\ LinkedPeers(n, g) /\ Missing(n) # {}
  /\ exchange' = [exchange EXCEPT ![<<n, g>>] = [at |-> "asked", blobs |-> Missing(n)]]
  /\ UNCHANGED <<author, peers, shelf>>

\* Whatever is asked for is given, if it is there.
Give(n, g) ==
  /\ exchange[<<n, g>>].at = "asked"
  /\ exchange' = [exchange EXCEPT ![<<n, g>>] =
       [at |-> "given", blobs |-> Given(@.blobs \intersect shelf[g].blobs)]]
  /\ UNCHANGED <<author, peers, shelf>>

\* Whatever comes is stored, wanted or not.
Store(n, g) ==
  /\ exchange[<<n, g>>].at = "given"
  /\ shelf' = [shelf EXCEPT ![n].blobs = @ \union exchange[<<n, g>>].blobs]
  /\ exchange' = [exchange EXCEPT ![<<n, g>>] = NoExchange]
  /\ UNCHANGED <<author, peers>>

Break(n, g) ==
  /\ exchange[<<n, g>>].at # "idle"
  /\ exchange' = [exchange EXCEPT ![<<n, g>>] = NoExchange]
  /\ UNCHANGED <<author, peers, shelf>>

BlobNext ==
  \E n \in Node :
    \/ \E c \in Content :
         \/ \E cut \in BOOLEAN : ComposeContent(n, c, cut)
         \/ DeleteContent(n, c)
         \/ \E g \in Node \ {n} : ReceiveContent(n, g, c) \/ ReceiveDeletion(n, g, c)
    \/ \E g \in Node \ {n} :
         Part(n, g) \/ Want(n, g) \/ Give(n, g) \/ Store(n, g) \/ Break(n, g)

BlobSpec == BlobInit /\ [][BlobNext]_blobVars
----------------------------------------------------------------------------
BlobTypeOK ==
  /\ author \in [Content -> Node \union {Nobody}] /\ peers \in [Node -> SUBSET Node]
  /\ shelf \in [Node -> Shelf] /\ exchange \in [Node \X Node -> Exchange]

\* Nothing more would come of another session between these two.
Exhausted(n, g) ==
  /\ exchange[<<n, g>>].at = "idle"
  /\ Given(Missing(n) \intersect shelf[g].blobs) = {}

\* Bytes follow their messages: the author of a message has all of it, whatever it
\* deleted or collected since; and once sessions with the author have nothing more to
\* give, so has everybody else who holds it, whatever shares its bytes and was deleted,
\* or collected while it was asked for (sync.py:795-822, store.py:1261).
BytesFollow ==
  \A c \in Content, n \in Node :
    (c \in shelf[n].live /\ author[c] # Nobody) =>
      \/ n = author[c] /\ Refs[c] \subseteq shelf[n].blobs
      \/ /\ n # author[c]
         /\ (/\ LinkedPeers(n, author[c]) /\ Exhausted(n, author[c])
             /\ c \in shelf[author[c]].live) => Refs[c] \subseteq shelf[n].blobs
=============================================================================
