------------------------------ MODULE Unfriend ------------------------------
(***************************************************************************)
(* The friend graph of Kreds: unfriending, the signed defriend notice and  *)
(* its delivery, and the invite ceremony that makes two people friends     *)
(* (node.py, store.py), over the session protocol that carries all of it   *)
(* (sync.py).  Each node is a device of an identity and has one address,   *)
(* its own name.                                                           *)
(*                                                                         *)
(* A session is modelled frame by frame: what a side read before an await  *)
(* is a field of the session, and everything else is read when it is used. *)
(* A node dials one peer at a time, since its gossip loop awaits each      *)
(* session, but answers any number.  Every identity has written one post,  *)
(* wrapped for all of the others; it stands for all of its content.        *)
(***************************************************************************)
EXTENDS Naturals, FiniteSets

CONSTANTS
  Node,          \* devices
  Identity,      \* people
  OwnerOf,       \* the identity a device is enrolled under
  NoAddress,     \* in an outbox record: no address was on file
  MayUnfriend,   \* the <<device, identity>> pairs explored by Unfriend
  MayInvite,     \* the devices that issue invites
  MaxUnfriends,  \* how often each of those pairs is explored
  MaxInvites,    \* how many invites are issued in all
  MaxSessions,   \* how many sessions are open at once
  MaxFailures    \* how many connections break and processes die in all

ASSUME FriendsAssumption ==
  /\ OwnerOf \in [Node -> Identity]
  /\ NoAddress \notin Node
  /\ MayUnfriend \subseteq Node \X Identity
  /\ \A p \in MayUnfriend : OwnerOf[p[1]] # p[2]
  /\ MayInvite \subseteq Node

ASSUME BoundsAssumption ==
  {MaxUnfriends, MaxInvites, MaxSessions, MaxFailures} \subseteq Nat

VARIABLES
  local,     \* what each node has on disk
  session,   \* the session each node has dialled
  live,      \* the invite each node would accept a response to, 0 for none
  answers,   \* the responses to invites that are in circulation
  open,      \* the responses whose senders still wait for the final
  finals,    \* the finals in circulation
  left,      \* how often each node unfriended each identity
  torn,      \* the nodes that died in the middle of a teardown
  halfway,   \* the friends that nodes which died were adding, <<node, friend>>
  failures   \* how many connections broke and processes died

disk == <<local, left, torn, halfway>>
ceremony == <<live, answers, open, finals>>
vars == <<disk, session, ceremony, failures>>
----------------------------------------------------------------------------
(***************************************************************************)
(* The store of a node: the identities it knows, the posts it holds, the   *)
(* device views (certificates on file, and the posts counted as seen), the *)
(* addresses it dials, the "no longer connected" marks, and the outbox     *)
(* with at most one notice per target.                                     *)
(***************************************************************************)
Entries == [at : Node \union {NoAddress}, status : {"none", "pending", "expired"}]

NoRecord == [at |-> NoAddress, status |-> "none"]

Stores ==
  [known : SUBSET Identity, rows : SUBSET Identity, views : SUBSET Identity,
   seen : SUBSET Identity, peers : SUBSET Node, gone : SUBSET Identity,
   outbox : [Identity -> Entries]]

DevicesOf(i) == {n \in Node : OwnerOf[n] = i}

\* Everybody is friends with everybody and has synced.
FriendsStore(n) ==
  [known |-> Identity, rows |-> Identity, views |-> Identity, seen |-> Identity,
   peers |-> Node \ {n}, gone |-> {}, outbox |-> [i \in Identity |-> NoRecord]]

\* add_outbox() replaces the target's record; drop_outbox() deletes it.
AddRecord(s, i, address) ==
  [s EXCEPT !.outbox[i] = [at |-> address, status |-> "pending"]]

DropRecord(s, i) == [s EXCEPT !.outbox[i] = NoRecord]

\* The admission check of a session: known, or owed a notice that has not expired
HasNotice(s, i) == s.outbox[i].status = "pending"

Admits(s, i) == i \in s.known \/ HasNotice(s, i)

\* remove_peer_identity()
Unlist(s, i) == [s EXCEPT !.peers = @ \ DevicesOf(i)]

\* Mutant of Forget: the device views of a former friend stay.
ForgetAddresses(s, i) == Unlist(s, i)

\* remove_peer_identity(), then remove_device_views()
Forget(s, i) == [Unlist(s, i) EXCEPT !.views = @ \ {i}, !.seen = @ \ {i}]

Purge(s, i) == [s EXCEPT !.rows = @ \ {i}]

Disown(s, i) == [Purge(s, i) EXCEPT !.known = @ \ {i}]

\* unfriend_teardown(): Disown is one transaction.
Teardown(s, i) == Forget(Disown(s, i), i)

\* apply_defriend_notice() of a notice by i
Applied(s, i) ==
  IF i \in s.known THEN [Teardown(s, i) EXCEPT !.gone = @ \union {i}] ELSE s

\* What a crash can leave of a teardown; applying a notice commits the purge and
\* the removal of the identity one after the other.
HalfTornDown(s, i) == {Disown(s, i), Unlist(Disown(s, i), i), Teardown(s, i)}

HalfApplied(s, i) == {Purge(s, i)} \union HalfTornDown(s, i)

\* Mutant of AddFriend: a notice in the outbox survives re-friending.
AddFriendOnly(s, k) ==
  LET i == OwnerOf[k]
  IN  [s EXCEPT !.known = @ \union {i}, !.views = @ \union {i},
                !.gone = @ \ {i}, !.peers = @ \union {k}]

\* _add_friend() of the device k, at its address
AddFriend(s, k) ==
  LET i == OwnerOf[k]
  IN  [DropRecord(s, i) EXCEPT !.known = @ \union {i}, !.views = @ \union {i},
                               !.gone = @ \ {i}, !.peers = @ \union {k}]

\* What a crash can leave of it: every line of _add_friend() commits on its own.
HalfAdded(s, k) ==
  LET i       == OwnerOf[k]
      known   == [s EXCEPT !.known = @ \union {i}]
      dropped == DropRecord(known, i)
      cleared == [dropped EXCEPT !.gone = @ \ {i}]
      viewed  == [cleared EXCEPT !.views = @ \union {i}]
  IN  {known, dropped, cleared, viewed, AddFriend(s, k)}
----------------------------------------------------------------------------
(***************************************************************************)
(* Frames of a session.                                                    *)
(***************************************************************************)
HaveFrames == [known : SUBSET Identity, seen : SUBSET Identity, peers : SUBSET Node]

NoHave == [known |-> {}, seen |-> {}, peers |-> {}]

\* The HAVE frame of a node with store s
Have(s) == [known |-> s.known, seen |-> s.seen, peers |-> s.peers]

\* Node n takes over what it learns from node k's HAVE frame f: a sibling's friend
\* list, k's address, and the addresses of identities n knows.
MergeHave(s, n, k, f) ==
  LET known == IF OwnerOf[n] = OwnerOf[k] THEN s.known \union f.known ELSE s.known
      told  == {h \in f.peers : OwnerOf[h] \in known /\ h # n}
  IN  [s EXCEPT !.known = known, !.peers = @ \union {k} \union told]

\* messages_not_in(): the posts of identities both sides know, wrapped for a device
\* of the peer that s has a view of
Offer(s, k, f) ==
  {i \in s.rows \intersect s.known \intersect f.known :
     i \notin f.seen /\ (OwnerOf[k] = i \/ OwnerOf[k] \in s.views)}

\* Mutant of Ingest: whoever was known when the HAVE frames were swapped.
IngestAll(s, posts) ==
  [s EXCEPT !.rows = @ \union (posts \ s.seen), !.seen = @ \union posts,
            !.views = @ \union posts]

\* ingest_message() of every post of a frame: strangers and replays are refused.
Ingest(s, posts) ==
  LET fresh == (posts \intersect s.known) \ s.seen
  IN  [s EXCEPT !.rows = @ \union fresh, !.seen = @ \union fresh,
                !.views = @ \union fresh]

Phases == {"idle", "hello", "welcome", "refused", "notice", "answer", "have",
           "summary", "messages", "reply"}

(***************************************************************************)
(* A session of an initiator m with a responder n.  init fields hold what  *)
(* m sent or prepared, resp fields what n did; ack is the applied list of  *)
(* n's DEFRIENDS frame and ended tells that n left the session after it.   *)
(***************************************************************************)
Sessions ==
  [phase : Phases, to : Node \union {NoAddress}, why : {"gossip", "deliver"},
   initNotice : BOOLEAN, respNotice : BOOLEAN, ack : BOOLEAN, ended : BOOLEAN,
   initHave : HaveFrames, respHave : HaveFrames,
   initPosts : SUBSET Identity, respPosts : SUBSET Identity]

Idle ==
  [phase |-> "idle", to |-> NoAddress, why |-> "gossip",
   initNotice |-> FALSE, respNotice |-> FALSE, ack |-> FALSE, ended |-> FALSE,
   initHave |-> NoHave, respHave |-> NoHave, initPosts |-> {}, respPosts |-> {}]
----------------------------------------------------------------------------
(***************************************************************************)
(* What the user does: unfriend, and the invite ceremony.                  *)
(***************************************************************************)

\* unfriend(): tear down, then queue the notice for the address that was on file.
\* Nothing asks whether i is still a friend.
Unfriend(n, i) ==
  /\ <<n, i>> \in MayUnfriend
  /\ left[n][i] < MaxUnfriends
  /\ LET known == local[n].peers \intersect DevicesOf(i)
     IN  \E address \in IF known = {} THEN {NoAddress} ELSE known :
           local' = [local EXCEPT ![n] = AddRecord(Teardown(@, i), i, address)]
  /\ left' = [left EXCEPT ![n][i] = @ + 1]
  /\ UNCHANGED <<torn, halfway, session, ceremony, failures>>

Responses == [from : Node, to : Node, invite : 1..MaxInvites]

Issued == {live[n] : n \in Node} \union {r.invite : r \in answers}

\* create_invite(): the previous invite of n is forgotten.
CreateInvite(n, k) ==
  /\ n \in MayInvite
  /\ k \in 1..MaxInvites /\ \A j \in Issued : j < k
  /\ live' = [live EXCEPT ![n] = k]
  /\ UNCHANGED <<disk, session, answers, open, finals, failures>>

\* Mutant of RespondToInvite: a response names an invite that is over.
RespondAnytime(m, n) ==
  /\ OwnerOf[m] # OwnerOf[n]
  /\ LET r == [from |-> m, to |-> n, invite |-> live[n]]
     IN  /\ r \notin answers
         /\ answers' = answers \union {r}
         /\ open' = open \union {r}
  /\ UNCHANGED <<disk, session, live, finals, failures>>

\* respond_to_invite(): the code is on n's screen, so anybody may read it.
RespondToInvite(m, n) ==
  /\ live[n] # 0
  /\ OwnerOf[m] # OwnerOf[n]
  /\ LET r == [from |-> m, to |-> n, invite |-> live[n]]
     IN  /\ r \notin answers
         /\ answers' = answers \union {r}
         /\ open' = open \union {r}
  /\ UNCHANGED <<disk, session, live, finals, failures>>

\* Mutant of FinalizeInvite: the invite is not consumed.
FinalizeKeeping(r) ==
  /\ r \in answers
  /\ live[r.to] = r.invite
  /\ local' = [local EXCEPT ![r.to] = AddFriend(@, r.from)]
  /\ halfway' = halfway \ {<<r.to, OwnerOf[r.from]>>}
  /\ finals' = finals \union {r}
  /\ UNCHANGED <<left, torn, session, live, answers, open, failures>>

\* finalize_invite(): a response may arrive late or twice, dialled or pasted; the
\* invite is consumed by the first.
FinalizeInvite(r) ==
  /\ r \in answers
  /\ live[r.to] = r.invite
  /\ local' = [local EXCEPT ![r.to] = AddFriend(@, r.from)]
  /\ halfway' = halfway \ {<<r.to, OwnerOf[r.from]>>}
  /\ live' = [live EXCEPT ![r.to] = 0]
  /\ finals' = finals \union {r}
  /\ UNCHANGED <<left, torn, session, answers, open, failures>>

\* complete_invite()
CompleteInvite(r) ==
  /\ r \in finals \intersect open
  /\ open' = open \ {r}
  /\ local' = [local EXCEPT ![r.from] = AddFriend(@, r.to)]
  /\ halfway' = halfway \ {<<r.from, OwnerOf[r.to]>>}
  /\ UNCHANGED <<left, torn, session, live, answers, finals, failures>>

\* An invite, or a response, is ten minutes old.
ExpireInvite(n) ==
  /\ live[n] # 0
  /\ live' = [live EXCEPT ![n] = 0]
  /\ UNCHANGED <<disk, session, answers, open, finals, failures>>

ExpireResponse(r) ==
  /\ open' = open \ {r}
  /\ r \in open
  /\ UNCHANGED <<disk, session, live, answers, finals, failures>>
----------------------------------------------------------------------------
(***************************************************************************)
(* The outbox.                                                             *)
(***************************************************************************)

\* The notice for i is fourteen days old.
ExpireNotice(n, i) ==
  /\ HasNotice(local[n], i)
  /\ local' = [local EXCEPT ![n].outbox[i].status = "expired"]
  /\ UNCHANGED <<left, torn, halfway, session, ceremony, failures>>

\* deliver_defriends() gives up on a record that expired or has no address.
GiveUp(n, i) ==
  LET r == local[n].outbox[i]
  IN  /\ r.status = "expired" \/ (r.status = "pending" /\ r.at = NoAddress)
      /\ local' = [local EXCEPT ![n] = DropRecord(@, i)]
      /\ UNCHANGED <<left, torn, halfway, session, ceremony, failures>>

\* Mutant of Settled: any end of the session counts as a delivery.
SettledAnyhow(s, x, done) ==
  IF x.why = "deliver" THEN DropRecord(s, OwnerOf[x.to]) ELSE s

\* What deliver_defriends() makes of its session x: a record that is done with is
\* dropped, any other is tried again.  A gossip session leaves the outbox alone.
Settled(s, x, done) ==
  IF x.why = "deliver" /\ done THEN DropRecord(s, OwnerOf[x.to]) ELSE s
----------------------------------------------------------------------------
(***************************************************************************)
(* The session of an initiator m.                                          *)
(***************************************************************************)
InPhase(m, p) == session[m].phase = p

\* The gossip loop dials every address on file, and then the address of every
\* notice; the backoff of a record is left to the scheduler.
Dial(m, n, why) ==
  /\ m # n
  /\ InPhase(m, "idle")
  /\ Cardinality({k \in Node : ~InPhase(k, "idle")}) < MaxSessions
  /\ IF why = "gossip" THEN n \in local[m].peers
     ELSE local[m].outbox[OwnerOf[n]] = [at |-> n, status |-> "pending"]
  /\ session' = [session EXCEPT ![m] =
                   [Idle EXCEPT !.phase = "hello", !.to = n, !.why = why]]
  /\ UNCHANGED <<disk, ceremony, failures>>

\* The responder admits m or refuses it, and notes whether it owes it a notice.
Admit(m) ==
  /\ InPhase(m, "hello")
  /\ LET s == local[session[m].to]
         i == OwnerOf[m]
     IN  session' = [session EXCEPT
           ![m].phase = IF Admits(s, i) THEN "welcome" ELSE "refused",
           ![m].respNotice = HasNotice(s, i)]
  /\ UNCHANGED <<disk, ceremony, failures>>

\* Mutant of Refused: being refused counts as being unfriended.
RefusedIsRemoval(m) ==
  /\ InPhase(m, "refused")
  /\ local' = [local EXCEPT ![m] = Applied(@, OwnerOf[session[m].to])]
  /\ session' = [session EXCEPT ![m] = Idle]
  /\ UNCHANGED <<left, torn, halfway, ceremony, failures>>

\* The initiator reads a refusal; it settles a notice for the one who refused,
\* unless m itself refuses first.
Refused(m) ==
  /\ InPhase(m, "refused")
  /\ LET i == OwnerOf[session[m].to]
     IN  local' = [local EXCEPT ![m] = Settled(@, session[m], Admits(@, i))]
  /\ session' = [session EXCEPT ![m] = Idle]
  /\ UNCHANGED <<left, torn, halfway, ceremony, failures>>

\* The initiator admits the responder and sends its DEFRIENDS frame, or hangs up.
Enter(m) ==
  /\ InPhase(m, "welcome")
  /\ LET s == local[m]
         i == OwnerOf[session[m].to]
     IN  session' = [session EXCEPT ![m] =
           IF Admits(s, i)
           THEN [@ EXCEPT !.phase = "notice", !.initNotice = HasNotice(s, i)]
           ELSE Idle]
  /\ UNCHANGED <<disk, ceremony, failures>>

\* The responder applies m's notice before it answers with its own DEFRIENDS
\* frame.  It goes on, with its HAVE frame, only with somebody it knows.
ApplyNotice(m) ==
  /\ InPhase(m, "notice")
  /\ LET x == session[m]
         i == OwnerOf[m]
         s == IF x.initNotice THEN Applied(local[x.to], i) ELSE local[x.to]
     IN  /\ local' = [local EXCEPT ![x.to] = s]
         /\ session' = [session EXCEPT ![m] =
              [x EXCEPT !.phase = "answer", !.initNotice = FALSE,
                        !.ack = x.initNotice /\ i \in local[x.to].known,
                        !.ended = i \notin s.known,
                        !.respHave = IF i \in s.known THEN Have(s) ELSE NoHave]]
  /\ UNCHANGED <<left, torn, halfway, ceremony, failures>>

\* The initiator reads the answer and applies the responder's notice.  It leaves a
\* peer it does not know; one that has left meanwhile is a failed session, and its
\* acknowledgement is lost.
Learn(m) ==
  /\ InPhase(m, "answer")
  /\ LET x == session[m]
         i == OwnerOf[x.to]
         s == IF x.respNotice THEN Applied(local[m], i) ELSE local[m]
     IN  IF i \in s.known /\ ~x.ended
         THEN /\ local' = [local EXCEPT ![m] = s]
              /\ session' = [session EXCEPT ![m].phase = "have",
                                            ![m].respNotice = FALSE,
                                            ![m].initHave = Have(s)]
         ELSE /\ local' = [local EXCEPT ![m] = Settled(s, x, x.ack /\ i \notin s.known)]
              /\ session' = [session EXCEPT ![m] = Idle]
  /\ UNCHANGED <<left, torn, halfway, ceremony, failures>>

\* The responder reads the initiator's HAVE frame and prepares its MESSAGES frame.
Serve(m) ==
  /\ InPhase(m, "have")
  /\ LET x == session[m]
         s == MergeHave(local[x.to], x.to, m, x.initHave)
     IN  /\ local' = [local EXCEPT ![x.to] = s]
         /\ session' = [session EXCEPT ![m].phase = "summary",
                                       ![m].initHave = NoHave,
                                       ![m].respPosts = Offer(s, m, x.initHave)]
  /\ UNCHANGED <<left, torn, halfway, ceremony, failures>>

\* The initiator reads the responder's HAVE frame and sends its MESSAGES frame.
Send(m) ==
  /\ InPhase(m, "summary")
  /\ LET x == session[m]
         s == MergeHave(local[m], m, x.to, x.respHave)
     IN  /\ local' = [local EXCEPT ![m] = s]
         /\ session' = [session EXCEPT ![m].phase = "messages",
                                       ![m].respHave = NoHave,
                                       ![m].initPosts = Offer(s, x.to, x.respHave)]
  /\ UNCHANGED <<left, torn, halfway, ceremony, failures>>

\* The responder ingests the initiator's messages, and the initiator the
\* responder's.
Take(m) ==
  /\ InPhase(m, "messages")
  /\ LET x == session[m]
     IN  local' = [local EXCEPT ![x.to] = Ingest(@, x.initPosts)]
  /\ session' = [session EXCEPT ![m].phase = "reply", ![m].initPosts = {}]
  /\ UNCHANGED <<left, torn, halfway, ceremony, failures>>

Finish(m) ==
  /\ InPhase(m, "reply")
  /\ LET x == session[m]
     IN  local' = [local EXCEPT ![m] = Settled(Ingest(@, x.respPosts), x, x.ack)]
  /\ session' = [session EXCEPT ![m] = Idle]
  /\ UNCHANGED <<left, torn, halfway, ceremony, failures>>

Advance(m) ==
  \/ Admit(m) \/ Refused(m) \/ Enter(m) \/ ApplyNotice(m) \/ Learn(m)
  \/ Serve(m) \/ Send(m) \/ Take(m) \/ Finish(m)
----------------------------------------------------------------------------
(***************************************************************************)
(* Failures.                                                               *)
(***************************************************************************)
Failing ==
  /\ failures < MaxFailures
  /\ failures' = failures + 1

\* The connection breaks, or a deadline passes.
BreakSession(m) ==
  /\ Failing
  /\ ~InPhase(m, "idle")
  /\ local' = [local EXCEPT ![m] = Settled(@, session[m], FALSE)]
  /\ session' = [session EXCEPT ![m] = Idle]
  /\ UNCHANGED <<left, torn, halfway, ceremony>>

\* The process of n dies and starts again with what is on disk.
Restarted(n) ==
  /\ Failing
  /\ session' = [m \in Node |-> IF n \in {m, session[m].to} THEN Idle ELSE session[m]]
  /\ live' = [live EXCEPT ![n] = 0]
  /\ open' = {r \in open : r.from # n}
  /\ UNCHANGED <<answers, finals>>

Restart(n) ==
  /\ Restarted(n)
  /\ UNCHANGED disk

\* It dies in unfriend(), before the notice is queued.
CrashInUnfriend(n, i) ==
  /\ <<n, i>> \in MayUnfriend
  /\ left[n][i] < MaxUnfriends
  /\ \E s \in HalfTornDown(local[n], i) : local' = [local EXCEPT ![n] = s]
  /\ left' = [left EXCEPT ![n][i] = @ + 1]
  /\ torn' = torn \union {n}
  /\ Restarted(n)
  /\ UNCHANGED halfway

\* It dies while it applies a notice that m sent, or that the responder sent to m.
CrashInApply(m, n) ==
  /\ \/ InPhase(m, "notice") /\ session[m].initNotice /\ n = session[m].to
     \/ InPhase(m, "answer") /\ session[m].respNotice /\ n = m
  /\ LET i == IF n = m THEN OwnerOf[session[m].to] ELSE OwnerOf[m]
     IN  /\ i \in local[n].known
         /\ \E s \in HalfApplied(local[n], i) : local' = [local EXCEPT ![n] = s]
  /\ torn' = torn \union {n}
  /\ Restarted(n)
  /\ UNCHANGED <<left, halfway>>

\* It dies while it adds k as a friend: after it took a response to its invite and
\* before its final is out, or after it took the final.
CrashInAddFriend(n, k) ==
  /\ \/ \E r \in answers : r.to = n /\ r.from = k /\ live[n] = r.invite
     \/ \E r \in finals \intersect open : r.from = n /\ r.to = k
  /\ \E s \in HalfAdded(local[n], k) : local' = [local EXCEPT ![n] = s]
  /\ halfway' = halfway \union {<<n, OwnerOf[k]>>}
  /\ Restarted(n)
  /\ UNCHANGED <<left, torn>>
----------------------------------------------------------------------------
Init ==
  /\ local = [n \in Node |-> FriendsStore(n)]
  /\ session = [n \in Node |-> Idle]
  /\ live = [n \in Node |-> 0]
  /\ answers = {} /\ open = {} /\ finals = {}
  /\ left = [n \in Node |-> [i \in Identity |-> 0]]
  /\ torn = {} /\ halfway = {}
  /\ failures = 0

Next ==
  \/ \E n \in Node, i \in Identity : \/ Unfriend(n, i)
                                     \/ ExpireNotice(n, i)
                                     \/ GiveUp(n, i)
                                     \/ CrashInUnfriend(n, i)
  \/ \E n \in Node, k \in 1..MaxInvites : CreateInvite(n, k)
  \/ \E m, n \in Node : \/ RespondToInvite(m, n)
                            \/ CrashInApply(m, n)
                            \/ CrashInAddFriend(m, n)
  \/ \E r \in answers : FinalizeInvite(r) \/ CompleteInvite(r) \/ ExpireResponse(r)
  \/ \E m, n \in Node, why \in {"gossip", "deliver"} : Dial(m, n, why)
  \/ \E m \in Node : Advance(m) \/ BreakSession(m) \/ Restart(m) \/ ExpireInvite(m)

Spec == Init /\ [][Next]_vars

(***************************************************************************)
(* The gossip loop awaits every session it opens, so a session runs to its *)
(* end unless it breaks (WF), and it dials every address and every pending *)
(* notice round after round (SF: other sessions may be in the way).  At    *)
(* most MaxFailures connections break and nobody has to do anything else.  *)
(***************************************************************************)
Fairness ==
  /\ \A m \in Node : WF_vars(Advance(m))
  /\ \A m \in Node : \A n \in Node \ {m} :
       /\ SF_vars(Dial(m, n, "gossip"))
       /\ SF_vars(Dial(m, n, "deliver"))

FairSpec == Spec /\ Fairness
----------------------------------------------------------------------------
(***************************************************************************)
(* Properties.                                                             *)
(***************************************************************************)

\* The type of every variable.
TypeOK ==
  /\ local \in [Node -> Stores]
  /\ session \in [Node -> Sessions]
  /\ live \in [Node -> 0..MaxInvites]
  /\ answers \subseteq Responses
  /\ open \subseteq answers /\ finals \subseteq answers
  /\ left \in [Node -> [Identity -> 0..MaxUnfriends]]
  /\ torn \subseteq Node
  /\ halfway \subseteq Node \X Identity
  /\ failures \in 0..MaxFailures

\* Resurrection is blocked: no node holds content of an identity it does not know,
\* whatever frames were on their way when it forgot the author, from whomever, and
\* wherever it crashed.
NoStrangersContent == \A n \in Node : local[n].rows \subseteq local[n].known

\* A pending notice never names a friend: re-friending takes it back, so that it
\* cannot undo the re-friending (the comment in _add_friend).  A process that died
\* between adding the friend and dropping the notice is the only exception, until the
\* two meet again by another invite.
NoNoticeToFriend ==
  \A n \in Node, i \in Identity :
    HasNotice(local[n], i) /\ i \in local[n].known => <<n, i>> \in halfway

\* Only a notice purges: whoever is marked as gone at n has unfriended n, by a device
\* of theirs; a refusal or an unreachable peer never does it.
GoneMeansLeft ==
  \A n \in Node : \A i \in local[n].gone :
    \E k \in DevicesOf(i) : left[k][OwnerOf[n]] > 0

\* The step uses up an invite of n or a response, by its end or by a crash of n.
UsesUp(n) ==
  \/ finals' # finals \/ open' # open
  \/ failures' # failures /\ live[n] # 0 /\ live'[n] = 0

\* The only way to become friends, and the only way back, is the invite ceremony, and
\* an invite and a response work once: nobody enters a node's friend list in a step
\* that does not use one up, also when a crash cuts the ceremony short.
OnlyCeremonyBefriends ==
  [][\A n \in Node : local'[n].known \subseteq local[n].known \/ UsesUp(n)]_vars

Forgotten(n, k) == OwnerOf[n] \notin local[k].known

Superseded(n, i) == local[n].outbox[i].status = "expired" \/ i \in local[n].known

Pending(n, k) == local[n].outbox[OwnerOf[k]] = [at |-> k, status |-> "pending"]

\* A notice that is pending while no session of n is under way reaches its target
\* in spite of broken sessions, unless it expires first or re-friending supersedes it.
NoticeDelivered ==
  \A n \in Node : \A k \in Node \ {n} :
    Pending(n, k) /\ InPhase(n, "idle")
      ~> Forgotten(n, k) \/ Superseded(n, OwnerOf[k])

\* Parting forgets every address of the other, "so an ex-friend's IP is never dialed
\* again" (store.py, remove_peer_identity()): gossip dials friends only.  The code does
\* not ensure it: a HAVE frame on its way puts the address back.
ExFriendsNotDialed ==
  [][\A m, n \in Node : Dial(m, n, "gossip") => OwnerOf[n] \in local[m].known]_vars

\* Re-friending "must not leave a stale notice in flight that would later arrive and
\* silently undo this re-friend" (_add_friend): nobody forgets a node that knows them
\* again because of a notice it queued before.  The code does not ensure it for a
\* notice that a session has read already.
RefriendingStands ==
  [][\A m \in Node :
       LET k == session[m].to
       IN  ApplyNotice(m) /\ OwnerOf[k] \in local[m].known
             => local'[k].known = local[k].known]_vars

\* The outbox keeps retrying, un-acked, for up to fourteen days
\* (docs/engineering-notes.md): no pending notice is lost before.
NoticeRetried ==
  \A n \in Node : \A k \in Node \ {n} :
    Pending(n, k) ~> Forgotten(n, k) \/ Superseded(n, OwnerOf[k])

\* Friends see each other's posts, also after they parted and met again: what was
\* forgotten at parting leaves nothing behind that keeps content away.  A teardown
\* that a crash cut short does leave such traces, and two who both died while they
\* added the other may have no address of each other.
FriendsExchange ==
  \A m \in Node : \A n \in Node \ {m} :
    <>[](/\ OwnerOf[m] \in local[n].known /\ OwnerOf[n] \in local[m].known
         /\ torn = {}
         /\ ~({<<m, OwnerOf[n]>>, <<n, OwnerOf[m]>>} \subseteq halfway))
      => <>[](OwnerOf[n] \in local[m].rows)
=============================================================================
