--------------------------- MODULE UnfriendProofs ---------------------------
(***************************************************************************)
(* Theorems about Unfriend, for any devices, people and bounds: no content *)
(* of strangers is held, and nobody is marked as gone who has not left.    *)
(*                                                                         *)
(* Neither is inductive alone.  That a purge has a cause rests on the      *)
(* notices: those in an outbox, and those a session read from it before    *)
(* the outbox changed, all come from somebody who left.                    *)
(*                                                                         *)
(* Where each person has one device, two more: no notice waits for a       *)
(* friend, but for one that a crash let in half way, and only the invite   *)
(* ceremony makes friends.  Siblings break both, since they hand each      *)
(* other friends over in their HAVE frames.                                *)
(***************************************************************************)
EXTENDS Unfriend, TLAPS

\* Whoever has a notice in the outbox has left.
NoticesMeant ==
  \A n \in Node, i \in Identity : HasNotice(local[n], i) => left[n][i] > 0

\* The same of a session x of m, where l counts who left whom.
Carries(l, m, x) ==
  /\ x.phase # "idle" => x.to \in Node
  /\ x.initNotice => x.phase # "idle" /\ l[m][OwnerOf[x.to]] > 0
  /\ x.respNotice => x.phase # "idle" /\ l[x.to][OwnerOf[m]] > 0

CarriedMeant == \A m \in Node : Carries(left, m, session[m])

StoresTyped == local \in [Node -> Stores] /\ left \in [Node -> [Identity -> 0..MaxUnfriends]]

StoreInv == StoresTyped /\ NoStrangersContent /\ GoneMeansLeft /\ NoticesMeant

SessionInv == session \in [Node -> Sessions] /\ CarriedMeant

RestTyped ==
  /\ live \in [Node -> 0..MaxInvites]
  /\ answers \subseteq Responses
  /\ open \subseteq answers /\ finals \subseteq answers
  /\ torn \subseteq Node
  /\ halfway \subseteq Node \X Identity
  /\ failures \in 0..MaxFailures

Inv == StoreInv /\ SessionInv /\ RestTyped
----------------------------------------------------------------------------
(***************************************************************************)
(* The operators on stores.  Kept(s, t): t is a sound store that has no    *)
(* mark and no notice that s has not.                                      *)
(***************************************************************************)
Sound(s) == s \in Stores /\ s.rows \subseteq s.known

Kept(s, t) ==
  /\ Sound(t)
  /\ t.gone \subseteq s.gone
  /\ \A i \in Identity : HasNotice(t, i) => HasNotice(s, i)

\* Forgetting a person keeps a store sound, also when it stops half way.
LEMMA TeardownKeeps ==
  ASSUME NEW s, Sound(s), NEW i \in Identity
  PROVE  /\ Kept(s, Teardown(s, i))
         /\ \A t \in HalfApplied(s, i) : Kept(s, t)
         /\ \A t \in HalfTornDown(s, i) : Kept(s, t)
  <1>1. Kept(s, Purge(s, i))
    BY DEF Sound, Kept, Purge, Stores, HasNotice, Entries
  <1>2. Kept(s, Disown(s, i))
    BY DEF Sound, Kept, Disown, Purge, Stores, HasNotice, Entries
  <1>3. Kept(s, Unlist(Disown(s, i), i))
    BY DEF Sound, Kept, Unlist, Disown, Purge, Stores, HasNotice, Entries
  <1>4. Kept(s, Teardown(s, i))
    BY DEF Sound, Kept, Teardown, Forget, Unlist, Disown, Purge, Stores, HasNotice, Entries
  <1> QED
    BY <1>1, <1>2, <1>3, <1>4 DEF HalfApplied, HalfTornDown

\* Applying a notice of i adds at most the mark of i.
LEMMA AppliedFacts ==
  ASSUME NEW s, Sound(s), NEW i \in Identity
  PROVE  /\ Sound(Applied(s, i))
         /\ Applied(s, i).gone \subseteq s.gone \union {i}
         /\ \A j \in Identity : HasNotice(Applied(s, i), j) => HasNotice(s, j)
  BY DEF Sound, Applied, Teardown, Forget, Unlist, Disown, Purge, Stores, HasNotice, Entries

\* A queued notice is the only new one, and marks nobody.
LEMMA AddRecordFacts ==
  ASSUME NEW s, Sound(s), NEW i \in Identity, NEW address \in Node \union {NoAddress}
  PROVE  /\ Sound(AddRecord(s, i, address))
         /\ AddRecord(s, i, address).gone = s.gone
         /\ \A j \in Identity : HasNotice(AddRecord(s, i, address), j) => HasNotice(s, j) \/ j = i
  BY DEF Sound, AddRecord, Stores, HasNotice, Entries

\* Dropping a record and settling a session keep the rest.
LEMMA SettledKeeps ==
  ASSUME NEW s, Sound(s), NEW i \in Identity
  PROVE  /\ Kept(s, s)
         /\ Kept(s, DropRecord(s, i))
  BY DEF Sound, Kept, DropRecord, NoRecord, Stores, HasNotice, Entries

\* Befriending a device adds its owner and keeps the rest.
LEMMA WelcomeKeeps ==
  ASSUME NEW s, Sound(s), NEW i \in Identity, NEW k \in Node
  PROVE  Kept(s, [s EXCEPT !.known = @ \union {i}, !.views = @ \union {i},
                           !.gone = @ \ {i}, !.peers = @ \union {k}])
  BY DEF Sound, Kept, Stores, HasNotice, Entries

LEMMA AddFriendKeeps ==
  ASSUME NEW s, Sound(s), NEW k \in Node
  PROVE  Kept(s, AddFriend(s, k))
  <1>1. OwnerOf[k] \in Identity
    BY FriendsAssumption
  <1>2. Kept(s, DropRecord(s, OwnerOf[k]))
    BY <1>1, SettledKeeps
  <1>3. Sound(DropRecord(s, OwnerOf[k]))
    BY <1>2 DEF Kept
  <1>4. Kept(DropRecord(s, OwnerOf[k]), AddFriend(s, k))
    BY <1>1, <1>3, WelcomeKeeps DEF AddFriend
  <1> QED
    BY <1>2, <1>4 DEF Kept

\* Befriending keeps a store sound also when it stops half way.
LEMMA HalfAddedKeeps ==
  ASSUME NEW s, Sound(s), NEW k \in Node
  PROVE  \A t \in HalfAdded(s, k) : Kept(s, t)
  <1> DEFINE i       == OwnerOf[k]
             known   == [s EXCEPT !.known = @ \union {i}]
             dropped == DropRecord(known, i)
             cleared == [dropped EXCEPT !.gone = @ \ {i}]
             viewed  == [cleared EXCEPT !.views = @ \union {i}]
  <1>1. i \in Identity
    BY FriendsAssumption
  <1>2. Kept(s, known)
    BY <1>1 DEF Sound, Kept, Stores, HasNotice, Entries
  <1>3. Kept(known, dropped)
    <2> HIDE DEF known
    <2> QED
      BY <1>1, <1>2, SettledKeeps DEF Kept
  <1>4. Kept(dropped, cleared)
    <2> HIDE DEF dropped
    <2> QED
      BY <1>1, <1>3 DEF Sound, Kept, Stores, HasNotice, Entries
  <1>5. Kept(cleared, viewed)
    <2> HIDE DEF cleared
    <2> QED
      BY <1>1, <1>4 DEF Sound, Kept, Stores, HasNotice, Entries
  <1>6. Kept(s, dropped) /\ Kept(s, cleared) /\ Kept(s, viewed)
    BY <1>2, <1>3, <1>4, <1>5 DEF Kept
  <1>7. Kept(s, AddFriend(s, k))
    BY AddFriendKeeps
  <1> QED
    BY <1>2, <1>6, <1>7 DEF HalfAdded

\* What a session brings keeps a store sound.
LEMMA MergeHaveKeeps ==
  ASSUME NEW s, Sound(s), NEW n \in Node, NEW k \in Node, NEW f \in HaveFrames
  PROVE  Kept(s, MergeHave(s, n, k, f))
  BY DEF Sound, Kept, MergeHave, HaveFrames, Stores, HasNotice, Entries

LEMMA IngestKeeps ==
  ASSUME NEW s, Sound(s), NEW posts \in SUBSET Identity
  PROVE  Kept(s, Ingest(s, posts))
  BY DEF Sound, Kept, Ingest, Stores, HasNotice, Entries

LEMMA FramesTyped ==
  ASSUME NEW s \in Stores, NEW k \in Node, NEW f \in HaveFrames
  PROVE  Have(s) \in HaveFrames /\ Offer(s, k, f) \in SUBSET Identity
  BY DEF Have, Offer, HaveFrames, Stores
----------------------------------------------------------------------------
(***************************************************************************)
(* What a step has to show about the store or the session it changes.      *)
(***************************************************************************)
LeftGrows ==
  /\ left' \in [Node -> [Identity -> 0..MaxUnfriends]]
  /\ \A k \in Node, i \in Identity : left[k][i] > 0 => left'[k][i] > 0

\* Store t of node n has no mark and no notice without a cause.
Caused(n, t) ==
  /\ Sound(t)
  /\ \A i \in t.gone : \/ i \in local[n].gone
                       \/ \E k \in DevicesOf(i) : left[k][OwnerOf[n]] > 0
  /\ \A i \in Identity : HasNotice(t, i) => HasNotice(local[n], i) \/ left'[n][i] > 0

LEMMA SoundStores ==
  ASSUME StoreInv, NEW n \in Node
  PROVE  Sound(local[n]) /\ local[n] \in Stores
  BY DEF StoreInv, StoresTyped, NoStrangersContent, Sound

LEMMA StoreStep ==
  ASSUME StoreInv, LeftGrows, NEW n \in Node, NEW t, Caused(n, t),
         local' = [local EXCEPT ![n] = t]
  PROVE  StoreInv'
  <1>1. \A m \in Node : local'[m] = IF m = n THEN t ELSE local[m]
    BY DEF StoreInv, StoresTyped
  <1>2. t \in Stores /\ t.rows \subseteq t.known
    BY DEF Caused, Sound
  <1>3. StoresTyped'
    BY <1>2 DEF StoreInv, StoresTyped, LeftGrows
  <1>4. NoStrangersContent'
    BY <1>1, <1>2 DEF StoreInv, NoStrangersContent
  <1>5. ASSUME NEW m \in Node, NEW i \in local'[m].gone
        PROVE  \E k \in DevicesOf(i) : left'[k][OwnerOf[m]] > 0
    <2>1. OwnerOf[m] \in Identity
      BY FriendsAssumption
    <2>2. \/ i \in local[m].gone
          \/ \E k \in DevicesOf(i) : left[k][OwnerOf[m]] > 0
      BY <1>1, <1>5 DEF Caused
    <2>3. PICK k \in DevicesOf(i) : left[k][OwnerOf[m]] > 0
      BY <2>2 DEF StoreInv, GoneMeansLeft
    <2>4. k \in Node
      BY DEF DevicesOf
    <2> QED
      BY <2>1, <2>3, <2>4 DEF LeftGrows
  <1>6. ASSUME NEW m \in Node, NEW i \in Identity, HasNotice(local'[m], i)
        PROVE  left'[m][i] > 0
    <2>1. CASE m = n
      <3>1. HasNotice(local[n], i) \/ left'[n][i] > 0
        BY <1>1, <1>6, <2>1 DEF Caused
      <3> QED
        BY <2>1, <3>1 DEF StoreInv, NoticesMeant, LeftGrows
    <2>2. CASE m # n
      <3>1. HasNotice(local[m], i)
        BY <1>1, <1>6, <2>2
      <3> QED
        BY <3>1 DEF StoreInv, NoticesMeant, LeftGrows
    <2> QED
      BY <2>1, <2>2
  <1> QED
    BY <1>3, <1>4, <1>5, <1>6 DEF StoreInv, GoneMeansLeft, NoticesMeant, HasNotice

LEMMA KeptIsCaused ==
  ASSUME NEW n \in Node, NEW t, Kept(local[n], t)
  PROVE  Caused(n, t)
  BY DEF Kept, Caused

\* A step that keeps every store and every record of who left.
LEMMA StoresStutter ==
  ASSUME StoreInv, UNCHANGED <<local, left>>
  PROVE  StoreInv'
  BY DEF StoreInv, StoresTyped, NoStrangersContent, GoneMeansLeft, NoticesMeant, HasNotice

LEMMA LeftStays ==
  ASSUME StoreInv, UNCHANGED left
  PROVE  LeftGrows
  BY DEF StoreInv, StoresTyped, LeftGrows

LEMMA CarriesStays ==
  ASSUME LeftGrows, NEW m \in Node, NEW x, Carries(left, m, x)
  PROVE  Carries(left', m, x)
  <1>1. \A k \in Node : OwnerOf[k] \in Identity
    BY FriendsAssumption
  <1> QED
    BY <1>1 DEF LeftGrows, Carries

LEMMA SessionStep ==
  ASSUME SessionInv, LeftGrows, NEW m \in Node, NEW y \in Sessions, Carries(left', m, y),
         session' = [session EXCEPT ![m] = y]
  PROVE  SessionInv'
  <1>1. session' \in [Node -> Sessions]
    BY DEF SessionInv
  <1>2. ASSUME NEW k \in Node
        PROVE  Carries(left', k, session'[k])
    <2>1. CASE k = m
      BY <2>1 DEF SessionInv, Carries
    <2>2. CASE k # m
      <3>1. session'[k] = session[k]
        BY <2>2 DEF SessionInv
      <3>2. Carries(left, k, session[k])
        BY DEF SessionInv, CarriedMeant
      <3>3. \A j \in Node : OwnerOf[j] \in Identity
        BY FriendsAssumption
      <3> QED
        BY <3>1, <3>2, <3>3 DEF LeftGrows, Carries
    <2> QED
      BY <2>1, <2>2
  <1> QED
    BY <1>1, <1>2 DEF SessionInv, CarriedMeant

LEMMA IdleFacts ==
  /\ Idle \in Sessions
  /\ \A l, m : Carries(l, m, Idle)
  BY DEF Idle, Sessions, Phases, HaveFrames, NoHave, Carries

LEMMA SessionsStutter ==
  ASSUME SessionInv, LeftGrows, UNCHANGED session
  PROVE  SessionInv'
  <1>1. \A j \in Node : OwnerOf[j] \in Identity
    BY FriendsAssumption
  <1> QED
    BY <1>1 DEF SessionInv, CarriedMeant, Carries, LeftGrows
----------------------------------------------------------------------------
(***************************************************************************)
(* One lemma per action.                                                   *)
(***************************************************************************)
LEMMA UnfriendPreservesInv ==
  ASSUME Inv, NEW n \in Node, NEW i \in Identity, Unfriend(n, i)
  PROVE  Inv'
  <1>1. PICK address \in Node \union {NoAddress} :
          local' = [local EXCEPT ![n] = AddRecord(Teardown(local[n], i), i, address)]
    BY DEF Unfriend, Inv, StoreInv, StoresTyped, DevicesOf
  <1> DEFINE t == AddRecord(Teardown(local[n], i), i, address)
  <1>2. LeftGrows /\ left'[n][i] > 0
    BY BoundsAssumption DEF Unfriend, LeftGrows, Inv, StoreInv, StoresTyped
  <1>3. Kept(local[n], Teardown(local[n], i))
    BY SoundStores, TeardownKeeps DEF Inv
  <1>4. /\ Sound(t)
        /\ t.gone = Teardown(local[n], i).gone
        /\ \A j \in Identity : HasNotice(t, j) => HasNotice(Teardown(local[n], i), j) \/ j = i
    BY <1>3, AddRecordFacts DEF Kept
  <1>5. Caused(n, t)
    BY <1>2, <1>3, <1>4 DEF Kept, Caused
  <1>6. StoreInv'
    BY <1>1, <1>2, <1>5, StoreStep DEF Inv
  <1>7. SessionInv' /\ RestTyped'
    BY <1>2, SessionsStutter DEF Inv, Unfriend, RestTyped, ceremony
  <1> QED
    BY <1>6, <1>7 DEF Inv

LEMMA CreateInvitePreservesInv ==
  ASSUME Inv, NEW n \in Node, NEW k \in 1..MaxInvites, CreateInvite(n, k)
  PROVE  Inv'
  <1>1. LeftGrows
    BY LeftStays DEF Inv, CreateInvite, disk
  <1>2. RestTyped'
    BY BoundsAssumption DEF Inv, RestTyped, CreateInvite, disk
  <1> QED
    BY <1>1, <1>2, StoresStutter, SessionsStutter DEF Inv, CreateInvite, disk

LEMMA RespondToInvitePreservesInv ==
  ASSUME Inv, NEW m \in Node, NEW n \in Node, RespondToInvite(m, n)
  PROVE  Inv'
  <1>1. LeftGrows
    BY LeftStays DEF Inv, RespondToInvite, disk
  <1>2. live[n] \in 1..MaxInvites
    BY BoundsAssumption DEF Inv, RestTyped, RespondToInvite
  <1>3. RestTyped'
    BY <1>2 DEF Inv, RestTyped, RespondToInvite, disk, Responses
  <1> QED
    BY <1>1, <1>3, StoresStutter, SessionsStutter DEF Inv, RespondToInvite, disk

LEMMA FinalizeInvitePreservesInv ==
  ASSUME Inv, NEW r \in answers, FinalizeInvite(r)
  PROVE  Inv'
  <1>1. r.from \in Node /\ r.to \in Node
    BY DEF Inv, RestTyped, Responses
  <1>2. LeftGrows
    BY LeftStays DEF Inv, FinalizeInvite
  <1>3. Caused(r.to, AddFriend(local[r.to], r.from))
    BY <1>1, SoundStores, AddFriendKeeps, KeptIsCaused DEF Inv
  <1>4. StoreInv'
    BY <1>1, <1>2, <1>3, StoreStep DEF Inv, FinalizeInvite
  <1>5. live' \in [Node -> 0..MaxInvites]
    BY <1>1, BoundsAssumption DEF Inv, RestTyped, FinalizeInvite
  <1>6. RestTyped'
    BY <1>5 DEF Inv, RestTyped, FinalizeInvite
  <1> QED
    BY <1>2, <1>4, <1>6, SessionsStutter DEF Inv, FinalizeInvite

LEMMA CompleteInvitePreservesInv ==
  ASSUME Inv, NEW r \in answers, CompleteInvite(r)
  PROVE  Inv'
  <1>1. r.from \in Node /\ r.to \in Node
    BY DEF Inv, RestTyped, Responses
  <1>2. LeftGrows
    BY LeftStays DEF Inv, CompleteInvite
  <1>3. Caused(r.from, AddFriend(local[r.from], r.to))
    BY <1>1, SoundStores, AddFriendKeeps, KeptIsCaused DEF Inv
  <1>4. StoreInv'
    BY <1>1, <1>2, <1>3, StoreStep DEF Inv, CompleteInvite
  <1>5. RestTyped'
    BY DEF Inv, RestTyped, CompleteInvite
  <1> QED
    BY <1>2, <1>4, <1>5, SessionsStutter DEF Inv, CompleteInvite

LEMMA ExpiryPreservesInv ==
  ASSUME Inv, \/ \E n \in Node : ExpireInvite(n)
              \/ \E r \in answers : ExpireResponse(r)
  PROVE  Inv'
  <1>1. UNCHANGED <<local, left, session>>
    BY DEF ExpireInvite, ExpireResponse, disk
  <1>2. LeftGrows
    BY <1>1, LeftStays DEF Inv
  <1>3. RestTyped'
    BY BoundsAssumption DEF Inv, RestTyped, ExpireInvite, ExpireResponse, disk
  <1> QED
    BY <1>1, <1>2, <1>3, StoresStutter, SessionsStutter DEF Inv

LEMMA OutboxPreservesInv ==
  ASSUME Inv, NEW n \in Node, NEW i \in Identity, ExpireNotice(n, i) \/ GiveUp(n, i)
  PROVE  Inv'
  <1>1. LeftGrows
    BY LeftStays DEF Inv, ExpireNotice, GiveUp
  <1>2. Sound(local[n]) /\ local[n] \in Stores
    BY SoundStores DEF Inv
  <1>3. CASE ExpireNotice(n, i)
    <2> DEFINE t == [local[n] EXCEPT !.outbox[i].status = "expired"]
    <2>1. Kept(local[n], t)
      BY <1>2 DEF Kept, Sound, Stores, Entries, HasNotice
    <2>2. local' = [local EXCEPT ![n] = t]
      BY <1>3 DEF ExpireNotice
    <2> QED
      BY <1>1, <2>1, <2>2, KeptIsCaused, StoreStep, SessionsStutter, <1>3
         DEF Inv, ExpireNotice, RestTyped, ceremony
  <1>4. CASE GiveUp(n, i)
    <2>1. Kept(local[n], DropRecord(local[n], i))
      BY <1>2, SettledKeeps
    <2>2. StoreInv'
      BY <1>1, <1>4, <2>1, KeptIsCaused, StoreStep DEF Inv, GiveUp
    <2> QED
      BY <1>1, <1>4, <2>2, SessionsStutter DEF Inv, GiveUp, RestTyped, ceremony
  <1> QED
    BY <1>3, <1>4

LEMMA RestStutter ==
  ASSUME RestTyped, UNCHANGED <<ceremony, torn, halfway, failures>>
  PROVE  RestTyped'
  BY DEF RestTyped, ceremony

\* Where a session that is under way leads.
LEMMA SessionFacts ==
  ASSUME Inv, NEW m \in Node, ~InPhase(m, "idle")
  PROVE  /\ session[m] \in Sessions
         /\ session[m].to \in Node
         /\ OwnerOf[session[m].to] \in Identity
         /\ OwnerOf[m] \in Identity
  BY FriendsAssumption DEF Inv, SessionInv, CarriedMeant, Carries, InPhase

LEMMA DialPreservesInv ==
  ASSUME Inv, NEW m \in Node, NEW n \in Node, NEW why \in {"gossip", "deliver"},
         Dial(m, n, why)
  PROVE  Inv'
  <1> DEFINE y == [Idle EXCEPT !.phase = "hello", !.to = n, !.why = why]
  <1>1. LeftGrows /\ StoreInv' /\ RestTyped'
    BY LeftStays, StoresStutter, RestStutter DEF Inv, Dial, disk
  <1>2. y \in Sessions /\ Carries(left', m, y)
    BY IdleFacts DEF Idle, Sessions, Phases, Carries
  <1>3. SessionInv'
    BY <1>1, <1>2, SessionStep DEF Inv, Dial
  <1> QED
    BY <1>1, <1>3 DEF Inv

\* A session that moves on, for each way of its actions to change it.
LEMMA AdmittedStep ==
  ASSUME SessionInv, LeftGrows, NEW m \in Node, NEW p \in Phases \ {"idle"}, NEW b \in BOOLEAN,
         session[m].phase # "idle",
         b => left'[session[m].to][OwnerOf[m]] > 0,
         session' = [session EXCEPT ![m].phase = p, ![m].respNotice = b]
  PROVE  SessionInv'
  <1> DEFINE x == session[m]
             y == [x EXCEPT !.phase = p, !.respNotice = b]
  <1>1. x \in Sessions /\ Carries(left', m, x)
    BY CarriesStays DEF SessionInv, CarriedMeant
  <1>2. y \in Sessions
    BY <1>1 DEF Sessions
  <1>3. Carries(left', m, y)
    BY <1>1 DEF Carries, Sessions
  <1>4. session' = [session EXCEPT ![m] = y]
    BY <1>1 DEF SessionInv, Sessions
  <1> QED
    BY <1>2, <1>3, <1>4, SessionStep

LEMMA AdmitPreservesInv ==
  ASSUME Inv, NEW m \in Node, Admit(m)
  PROVE  Inv'
  <1> DEFINE s == local[session[m].to]
             i == OwnerOf[m]
  <1>1. LeftGrows /\ StoreInv' /\ RestTyped'
    BY LeftStays, StoresStutter, RestStutter DEF Inv, Admit, disk
  <1>2. session[m].to \in Node /\ i \in Identity /\ session[m].phase # "idle"
    BY SessionFacts DEF Admit, InPhase
  <1>3. HasNotice(s, i) => left'[session[m].to][i] > 0
    BY <1>1, <1>2 DEF Inv, StoreInv, NoticesMeant, LeftGrows
  <1>4. PICK p \in Phases \ {"idle"}, b \in BOOLEAN :
          /\ b => HasNotice(s, i)
          /\ session' = [session EXCEPT ![m].phase = p, ![m].respNotice = b]
    <2>1. HasNotice(s, i) \in BOOLEAN
      BY DEF HasNotice
    <2>2. (IF Admits(s, i) THEN "welcome" ELSE "refused") \in Phases \ {"idle"}
      BY DEF Phases
    <2> QED
      BY <2>1, <2>2, Zenon DEF Admit
  <1>5. SessionInv'
    BY <1>1, <1>2, <1>3, <1>4, AdmittedStep DEF Inv
  <1> QED
    BY <1>1, <1>5 DEF Inv

\* A session that ends, and one that goes on without a further notice.
LEMMA HangUp ==
  ASSUME SessionInv, LeftGrows, NEW m \in Node, session' = [session EXCEPT ![m] = Idle]
  PROVE  SessionInv'
  BY IdleFacts, SessionStep

LEMMA GoOn ==
  ASSUME SessionInv, LeftGrows, NEW m \in Node, session[m].phase # "idle",
         NEW y \in Sessions, y.phase # "idle", y.to = session[m].to,
         y.initNotice => session[m].initNotice, y.respNotice => session[m].respNotice,
         session' = [session EXCEPT ![m] = y]
  PROVE  SessionInv'
  <1>1. Carries(left', m, session[m])
    BY CarriesStays DEF SessionInv, CarriedMeant
  <1>2. Carries(left', m, y)
    BY <1>1 DEF Carries
  <1> QED
    BY <1>2, SessionStep

\* A store that is kept, or that the notice of somebody who left changes.
LEMMA KeptStep ==
  ASSUME StoreInv, UNCHANGED left, NEW n \in Node, NEW t, Kept(local[n], t),
         local' = [local EXCEPT ![n] = t]
  PROVE  StoreInv' /\ LeftGrows
  BY LeftStays, KeptIsCaused, StoreStep

LEMMA AppliedIsCaused ==
  ASSUME StoreInv, NEW n \in Node, NEW k \in Node, left[k][OwnerOf[n]] > 0
  PROVE  Caused(n, Applied(local[n], OwnerOf[k]))
  <1>1. OwnerOf[k] \in Identity /\ k \in DevicesOf(OwnerOf[k])
    BY FriendsAssumption DEF DevicesOf
  <1>2. Sound(local[n])
    BY SoundStores
  <1> QED
    BY <1>1, <1>2, AppliedFacts DEF Caused

LEMMA CausedThenKept ==
  ASSUME NEW n \in Node, NEW t, NEW u, Caused(n, t), Kept(t, u)
  PROVE  Caused(n, u)
  BY DEF Caused, Kept

LEMMA KeptTwice ==
  ASSUME NEW s, NEW t, NEW u, Kept(s, t), Kept(t, u)
  PROVE  Kept(s, u)
  BY DEF Kept

LEMMA SettlingKeeps ==
  ASSUME NEW s, Sound(s), NEW x, OwnerOf[x.to] \in Identity, NEW done
  PROVE  Kept(s, Settled(s, x, done))
  BY SettledKeeps DEF Settled

LEMMA RefusedPreservesInv ==
  ASSUME Inv, NEW m \in Node, Refused(m)
  PROVE  Inv'
  <1> DEFINE t == Settled(local[m], session[m], Admits(local[m], OwnerOf[session[m].to]))
  <1>1. OwnerOf[session[m].to] \in Identity
    BY SessionFacts DEF Refused, InPhase
  <1>2. Kept(local[m], t)
    BY <1>1, SoundStores, SettlingKeeps DEF Inv
  <1>3. local' = [local EXCEPT ![m] = t] /\ UNCHANGED left
    BY DEF Refused
  <1> HIDE DEF t
  <1>4. StoreInv' /\ LeftGrows
    BY <1>2, <1>3, KeptStep DEF Inv
  <1> QED
    BY <1>4, HangUp, RestStutter DEF Inv, Refused

LEMMA EnterPreservesInv ==
  ASSUME Inv, NEW m \in Node, Enter(m)
  PROVE  Inv'
  <1> DEFINE i == OwnerOf[session[m].to]
  <1>1. LeftGrows /\ StoreInv' /\ RestTyped'
    BY LeftStays, StoresStutter, RestStutter DEF Inv, Enter, disk
  <1>2. session[m] \in Sessions /\ session[m].to \in Node /\ session[m].phase = "welcome"
    BY SessionFacts DEF Enter, InPhase
  <1>3. HasNotice(local[m], i) => left'[m][i] > 0
    BY <1>1, <1>2, FriendsAssumption DEF Inv, StoreInv, NoticesMeant, LeftGrows
  <1>4. CASE session' = [session EXCEPT ![m] = Idle]
    BY <1>1, <1>4, HangUp DEF Inv
  <1>5. CASE session' # [session EXCEPT ![m] = Idle]
    <2>1. PICK b \in BOOLEAN :
            /\ b => HasNotice(local[m], i)
            /\ session' = [session EXCEPT ![m] = [@ EXCEPT !.phase = "notice", !.initNotice = b]]
      <3>1. HasNotice(local[m], i) \in BOOLEAN
        BY DEF HasNotice
      <3> QED
        BY <1>5, <3>1, Zenon DEF Enter
    <2> DEFINE y == [session[m] EXCEPT !.phase = "notice", !.initNotice = b]
    <2>2. y \in Sessions
      BY <1>2 DEF Sessions, Phases
    <2>3. Carries(left', m, session[m])
      BY <1>1, CarriesStays DEF Inv, SessionInv, CarriedMeant
    <2>4. Carries(left', m, y)
      BY <1>2, <1>3, <2>1, <2>3 DEF Carries, Sessions
    <2>5. session' = [session EXCEPT ![m] = y]
      BY <2>1
    <2>6. SessionInv'
      BY <1>1, <2>2, <2>4, <2>5, SessionStep DEF Inv
    <2> QED
      BY <1>1, <2>6 DEF Inv
  <1> QED
    BY <1>4, <1>5

LEMMA ApplyNoticePreservesInv ==
  ASSUME Inv, NEW m \in Node, ApplyNotice(m)
  PROVE  Inv'
  <1> DEFINE x == session[m]
             i == OwnerOf[m]
             n == x.to
             s == IF x.initNotice THEN Applied(local[n], i) ELSE local[n]
             f == IF i \in s.known THEN Have(s) ELSE NoHave
  <1>1. x \in Sessions /\ n \in Node /\ i \in Identity /\ x.phase = "notice"
    BY SessionFacts DEF ApplyNotice, InPhase
  <1>2. Caused(n, s)
    <2>1. CASE x.initNotice
      <3>1. left[m][OwnerOf[n]] > 0
        BY <2>1 DEF Inv, SessionInv, CarriedMeant, Carries
      <3> QED
        BY <1>1, <2>1, <3>1, AppliedIsCaused DEF Inv
    <2>2. CASE ~x.initNotice
      BY <1>1, <2>2, SoundStores, SettledKeeps, KeptIsCaused DEF Inv
    <2> QED
      BY <2>1, <2>2
  <1>3. local' = [local EXCEPT ![n] = s] /\ UNCHANGED left
    BY DEF ApplyNotice
  <1>4. StoreInv' /\ LeftGrows
    <2> HIDE DEF s
    <2> QED
      BY <1>1, <1>2, <1>3, LeftStays, StoreStep DEF Inv
  <1>5. f \in HaveFrames
    <2>1. s \in Stores
      BY <1>2 DEF Caused, Sound
    <2> HIDE DEF s
    <2> QED
      BY <2>1 DEF Have, NoHave, HaveFrames, Stores
  <1>6. PICK a \in BOOLEAN, e \in BOOLEAN :
          session' = [session EXCEPT ![m] =
            [x EXCEPT !.phase = "answer", !.initNotice = FALSE,
                      !.ack = a, !.ended = e, !.respHave = f]]
    <2>1. (x.initNotice /\ i \in local[n].known) \in BOOLEAN /\ (i \notin s.known) \in BOOLEAN
      OBVIOUS
    <2> QED
      BY <2>1, Zenon DEF ApplyNotice
  <1> DEFINE y == [x EXCEPT !.phase = "answer", !.initNotice = FALSE,
                            !.ack = a, !.ended = e, !.respHave = f]
  <1> HIDE DEF f
  <1>7. y \in Sessions /\ y.phase # "idle" /\ y.to = n /\ ~y.initNotice
        /\ (y.respNotice => x.respNotice)
    BY <1>1, <1>5 DEF Sessions, Phases
  <1>8. session' = [session EXCEPT ![m] = y]
    BY <1>6
  <1> HIDE DEF y
  <1>9. SessionInv'
    BY <1>1, <1>4, <1>7, <1>8, GoOn DEF Inv
  <1> QED
    BY <1>4, <1>9, RestStutter DEF Inv, ApplyNotice

LEMMA LearnPreservesInv ==
  ASSUME Inv, NEW m \in Node, Learn(m)
  PROVE  Inv'
  <1> DEFINE x == session[m]
             i == OwnerOf[x.to]
             s == IF x.respNotice THEN Applied(local[m], i) ELSE local[m]
             t == Settled(s, x, x.ack /\ i \notin s.known)
  <1>1. x \in Sessions /\ x.to \in Node /\ i \in Identity /\ x.phase = "answer"
    BY SessionFacts DEF Learn, InPhase
  <1>2. Caused(m, s)
    <2>1. CASE x.respNotice
      <3>1. left[x.to][OwnerOf[m]] > 0
        BY <2>1 DEF Inv, SessionInv, CarriedMeant, Carries
      <3>2. Caused(m, Applied(local[m], i))
        BY <1>1, <3>1, AppliedIsCaused DEF Inv
      <3>3. s = Applied(local[m], i)
        BY <2>1
      <3> QED
        BY <3>2, <3>3
    <2>2. CASE ~x.respNotice
      BY <1>1, <2>2, SoundStores, SettledKeeps, KeptIsCaused DEF Inv
    <2> QED
      BY <2>1, <2>2
  <1>3. Caused(m, t)
    <2>1. Sound(s)
      BY <1>2 DEF Caused
    <2>2. Kept(s, t)
      BY <1>1, <2>1, SettlingKeeps
    <2> QED
      BY <1>2, <2>2, CausedThenKept
  <1>4. \/ /\ local' = [local EXCEPT ![m] = s]
           /\ session' = [session EXCEPT ![m].phase = "have", ![m].respNotice = FALSE,
                                         ![m].initHave = Have(s)]
        \/ /\ local' = [local EXCEPT ![m] = t]
           /\ session' = [session EXCEPT ![m] = Idle]
    BY DEF Learn
  <1>5. LeftGrows /\ RestTyped'
    BY LeftStays, RestStutter DEF Inv, Learn
  <1>6. StoreInv'
    <2> HIDE DEF s, t
    <2> QED
      BY <1>2, <1>3, <1>4, <1>5, StoreStep DEF Inv
  <1>7. CASE session' = [session EXCEPT ![m] = Idle]
    BY <1>5, <1>6, <1>7, HangUp DEF Inv
  <1>8. CASE session' = [session EXCEPT ![m].phase = "have", ![m].respNotice = FALSE,
                                        ![m].initHave = Have(s)]
    <2> DEFINE f == Have(s)
               y == [x EXCEPT !.phase = "have", !.respNotice = FALSE, !.initHave = f]
    <2>1. f \in HaveFrames
      <3>1. s \in Stores
        BY <1>2 DEF Caused, Sound
      <3> HIDE DEF s
      <3> QED
        BY <3>1 DEF Have, HaveFrames, Stores
    <2> HIDE DEF f
    <2>2. y \in Sessions /\ y.phase # "idle" /\ y.to = x.to /\ ~y.respNotice
          /\ (y.initNotice => x.initNotice)
      BY <1>1, <2>1 DEF Sessions, Phases
    <2>3. session' = [session EXCEPT ![m].phase = "have", ![m].respNotice = FALSE,
                                     ![m].initHave = f]
      BY <1>8 DEF f
    <2>4. session' = [session EXCEPT ![m] = y]
      BY <1>1, <2>3
    <2> HIDE DEF y
    <2>5. SessionInv'
      BY <1>1, <1>5, <2>2, <2>4, GoOn DEF Inv
    <2> QED
      BY <1>5, <1>6, <2>5 DEF Inv
  <1> QED
    BY <1>4, <1>7, <1>8

LEMMA ServePreservesInv ==
  ASSUME Inv, NEW m \in Node, Serve(m)
  PROVE  Inv'
  <1> DEFINE x == session[m]
             n == x.to
             s == MergeHave(local[n], n, m, x.initHave)
             p == Offer(s, m, x.initHave)
             y == [x EXCEPT !.phase = "summary", !.initHave = NoHave, !.respPosts = p]
  <1>1. x \in Sessions /\ n \in Node /\ x.phase = "have" /\ x.initHave \in HaveFrames
    BY SessionFacts DEF Serve, InPhase, Sessions
  <1>2. Kept(local[n], s)
    BY <1>1, SoundStores, MergeHaveKeeps DEF Inv
  <1>3. p \in SUBSET Identity
    BY <1>1, <1>2, FramesTyped DEF Kept, Sound
  <1>4. /\ local' = [local EXCEPT ![n] = s]
        /\ session' = [session EXCEPT ![m].phase = "summary", ![m].initHave = NoHave,
                                      ![m].respPosts = p]
        /\ UNCHANGED left
    BY DEF Serve
  <1> HIDE DEF s, p
  <1>5. StoreInv' /\ LeftGrows
    BY <1>1, <1>2, <1>4, KeptStep DEF Inv
  <1>6. y \in Sessions /\ y.phase # "idle" /\ y.to = n
        /\ (y.initNotice => x.initNotice) /\ (y.respNotice => x.respNotice)
    BY <1>1, <1>3 DEF Sessions, Phases, NoHave, HaveFrames
  <1>7. session' = [session EXCEPT ![m] = y]
    BY <1>4
  <1> HIDE DEF y
  <1>8. SessionInv'
    BY <1>1, <1>5, <1>6, <1>7, GoOn DEF Inv
  <1> QED
    BY <1>5, <1>8, RestStutter DEF Inv, Serve

LEMMA SendPreservesInv ==
  ASSUME Inv, NEW m \in Node, Send(m)
  PROVE  Inv'
  <1> DEFINE x == session[m]
             s == MergeHave(local[m], m, x.to, x.respHave)
             p == Offer(s, x.to, x.respHave)
             y == [x EXCEPT !.phase = "messages", !.respHave = NoHave, !.initPosts = p]
  <1>1. x \in Sessions /\ x.to \in Node /\ x.phase = "summary" /\ x.respHave \in HaveFrames
    BY SessionFacts DEF Send, InPhase, Sessions
  <1>2. Kept(local[m], s)
    BY <1>1, SoundStores, MergeHaveKeeps DEF Inv
  <1>3. p \in SUBSET Identity
    BY <1>1, <1>2, FramesTyped DEF Kept, Sound
  <1>4. /\ local' = [local EXCEPT ![m] = s]
        /\ session' = [session EXCEPT ![m].phase = "messages", ![m].respHave = NoHave,
                                      ![m].initPosts = p]
        /\ UNCHANGED left
    BY DEF Send
  <1> HIDE DEF s, p
  <1>5. StoreInv' /\ LeftGrows
    BY <1>2, <1>4, KeptStep DEF Inv
  <1>6. y \in Sessions /\ y.phase # "idle" /\ y.to = x.to
        /\ (y.initNotice => x.initNotice) /\ (y.respNotice => x.respNotice)
    BY <1>1, <1>3 DEF Sessions, Phases, NoHave, HaveFrames
  <1>7. session' = [session EXCEPT ![m] = y]
    BY <1>4
  <1> HIDE DEF y
  <1>8. SessionInv'
    BY <1>1, <1>5, <1>6, <1>7, GoOn DEF Inv
  <1> QED
    BY <1>5, <1>8, RestStutter DEF Inv, Send

LEMMA TakePreservesInv ==
  ASSUME Inv, NEW m \in Node, Take(m)
  PROVE  Inv'
  <1> DEFINE x == session[m]
             n == x.to
             s == Ingest(local[n], x.initPosts)
             y == [x EXCEPT !.phase = "reply", !.initPosts = {}]
  <1>1. x \in Sessions /\ n \in Node /\ x.phase = "messages" /\ x.initPosts \in SUBSET Identity
    BY SessionFacts DEF Take, InPhase, Sessions
  <1>2. Kept(local[n], s)
    BY <1>1, SoundStores, IngestKeeps DEF Inv
  <1>3. local' = [local EXCEPT ![n] = s] /\ UNCHANGED left
    BY DEF Take
  <1> HIDE DEF s
  <1>4. StoreInv' /\ LeftGrows
    BY <1>1, <1>2, <1>3, KeptStep DEF Inv
  <1>5. y \in Sessions /\ y.phase # "idle" /\ y.to = n
        /\ (y.initNotice => x.initNotice) /\ (y.respNotice => x.respNotice)
    BY <1>1 DEF Sessions, Phases
  <1>6. session' = [session EXCEPT ![m] = y]
    BY DEF Take
  <1> HIDE DEF y
  <1>7. SessionInv'
    BY <1>1, <1>4, <1>5, <1>6, GoOn DEF Inv
  <1> QED
    BY <1>4, <1>7, RestStutter DEF Inv, Take

LEMMA FinishPreservesInv ==
  ASSUME Inv, NEW m \in Node, Finish(m)
  PROVE  Inv'
  <1> DEFINE x == session[m]
             s == Ingest(local[m], x.respPosts)
             t == Settled(s, x, x.ack)
  <1>1. x.respPosts \in SUBSET Identity /\ OwnerOf[x.to] \in Identity
    BY SessionFacts DEF Finish, InPhase, Sessions
  <1>2. Kept(local[m], s)
    BY <1>1, SoundStores, IngestKeeps DEF Inv
  <1>3. Kept(s, t)
    BY <1>1, <1>2, SettlingKeeps DEF Kept
  <1>4. local' = [local EXCEPT ![m] = t] /\ UNCHANGED left
    BY DEF Finish
  <1> HIDE DEF s, t
  <1>5. StoreInv' /\ LeftGrows
    BY <1>2, <1>3, <1>4, KeptTwice, KeptStep DEF Inv
  <1> QED
    BY <1>5, HangUp, RestStutter DEF Inv, Finish

LEMMA BreakPreservesInv ==
  ASSUME Inv, NEW m \in Node, BreakSession(m)
  PROVE  Inv'
  <1> DEFINE t == Settled(local[m], session[m], FALSE)
  <1>1. OwnerOf[session[m].to] \in Identity
    BY SessionFacts DEF BreakSession
  <1>2. Kept(local[m], t)
    BY <1>1, SoundStores, SettlingKeeps DEF Inv
  <1>3. local' = [local EXCEPT ![m] = t] /\ UNCHANGED left
    BY DEF BreakSession
  <1> HIDE DEF t
  <1>4. StoreInv' /\ LeftGrows
    BY <1>2, <1>3, KeptStep DEF Inv
  <1>5. RestTyped'
    BY BoundsAssumption DEF Inv, RestTyped, BreakSession, Failing, ceremony
  <1> QED
    BY <1>4, <1>5, HangUp DEF Inv, BreakSession

\* What a restart leaves of the sessions and the ceremony.
LEMMA RestartedFacts ==
  ASSUME Inv, LeftGrows, NEW n \in Node, Restarted(n), torn' \subseteq Node,
         halfway' \subseteq Node \X Identity
  PROVE  SessionInv' /\ RestTyped'
  <1>1. \A m \in Node : session'[m] \in {Idle, session[m]}
    BY DEF Restarted
  <1>2. session' \in [Node -> Sessions]
    BY <1>1, IdleFacts DEF Restarted, Inv, SessionInv
  <1>3. ASSUME NEW m \in Node
        PROVE  Carries(left', m, session'[m])
    <2>1. CASE session'[m] = Idle
      BY <2>1, IdleFacts
    <2>2. CASE session'[m] = session[m]
      BY <2>2, CarriesStays DEF Inv, SessionInv, CarriedMeant
    <2> QED
      BY <1>1, <2>1, <2>2
  <1>4. RestTyped'
    BY BoundsAssumption DEF Inv, RestTyped, Restarted, Failing
  <1> QED
    BY <1>2, <1>3, <1>4 DEF SessionInv, CarriedMeant

LEMMA RestartPreservesInv ==
  ASSUME Inv, NEW n \in Node, Restart(n)
  PROVE  Inv'
  <1>1. LeftGrows /\ StoreInv'
    BY LeftStays, StoresStutter DEF Inv, Restart, disk
  <1>2. torn' \subseteq Node /\ halfway' \subseteq Node \X Identity
    BY DEF Inv, RestTyped, Restart, disk
  <1> QED
    BY <1>1, <1>2, RestartedFacts DEF Inv, Restart

LEMMA CrashInUnfriendPreservesInv ==
  ASSUME Inv, NEW n \in Node, NEW i \in Identity, CrashInUnfriend(n, i)
  PROVE  Inv'
  <1>1. PICK t \in HalfTornDown(local[n], i) : local' = [local EXCEPT ![n] = t]
    BY DEF CrashInUnfriend
  <1>2. Kept(local[n], t)
    BY SoundStores, TeardownKeeps DEF Inv
  <1>3. LeftGrows
    BY BoundsAssumption DEF CrashInUnfriend, LeftGrows, Inv, StoreInv, StoresTyped
  <1>4. StoreInv'
    BY <1>1, <1>2, <1>3, KeptIsCaused, StoreStep DEF Inv
  <1>5. torn' \subseteq Node /\ halfway' \subseteq Node \X Identity
    BY DEF Inv, RestTyped, CrashInUnfriend
  <1> QED
    BY <1>3, <1>4, <1>5, RestartedFacts DEF Inv, CrashInUnfriend

LEMMA CrashInApplyPreservesInv ==
  ASSUME Inv, NEW m \in Node, NEW n \in Node, CrashInApply(m, n)
  PROVE  Inv'
  <1> DEFINE i == IF n = m THEN OwnerOf[session[m].to] ELSE OwnerOf[m]
  <1>1. i \in Identity
    BY SessionFacts, FriendsAssumption DEF CrashInApply, InPhase
  <1>2. PICK t \in HalfApplied(local[n], i) : local' = [local EXCEPT ![n] = t]
    BY DEF CrashInApply
  <1> HIDE DEF i
  <1>3. Kept(local[n], t)
    BY <1>1, SoundStores, TeardownKeeps DEF Inv
  <1>4. StoreInv' /\ LeftGrows
    BY <1>2, <1>3, KeptStep DEF Inv, CrashInApply
  <1>5. torn' \subseteq Node /\ halfway' \subseteq Node \X Identity
    BY DEF Inv, RestTyped, CrashInApply
  <1> QED
    BY <1>4, <1>5, RestartedFacts DEF Inv, CrashInApply

LEMMA CrashInAddFriendPreservesInv ==
  ASSUME Inv, NEW n \in Node, NEW k \in Node, CrashInAddFriend(n, k)
  PROVE  Inv'
  <1>1. PICK t \in HalfAdded(local[n], k) : local' = [local EXCEPT ![n] = t]
    BY DEF CrashInAddFriend
  <1>2. Kept(local[n], t)
    BY SoundStores, HalfAddedKeeps DEF Inv
  <1>3. StoreInv' /\ LeftGrows
    BY <1>1, <1>2, KeptStep DEF Inv, CrashInAddFriend
  <1>4. torn' \subseteq Node /\ halfway' \subseteq Node \X Identity
    BY FriendsAssumption DEF Inv, RestTyped, CrashInAddFriend
  <1> QED
    BY <1>3, <1>4, RestartedFacts DEF Inv, CrashInAddFriend
----------------------------------------------------------------------------
(***************************************************************************)
(* The theorems.                                                           *)
(***************************************************************************)
LEMMA InitInv ==
  ASSUME Init
  PROVE  Inv
  <1>1. \A n \in Node : FriendsStore(n) \in Stores
    BY DEF FriendsStore, Stores, Entries, NoRecord
  <1>2. StoresTyped
    BY <1>1, BoundsAssumption DEF Init, StoresTyped
  <1>3. NoStrangersContent /\ GoneMeansLeft /\ NoticesMeant
    BY DEF Init, NoStrangersContent, GoneMeansLeft, NoticesMeant, HasNotice,
           FriendsStore, NoRecord
  <1>4. SessionInv
    BY IdleFacts DEF Init, SessionInv, CarriedMeant
  <1>5. RestTyped
    BY BoundsAssumption DEF Init, RestTyped
  <1> QED
    BY <1>2, <1>3, <1>4, <1>5 DEF Inv, StoreInv

LEMMA AdvancePreservesInv ==
  ASSUME Inv, NEW m \in Node, Advance(m)
  PROVE  Inv'
  BY AdmitPreservesInv, RefusedPreservesInv, EnterPreservesInv, ApplyNoticePreservesInv,
     LearnPreservesInv, ServePreservesInv, SendPreservesInv, TakePreservesInv,
     FinishPreservesInv DEF Advance

LEMMA NextPreservesInv ==
  ASSUME Inv, [Next]_vars
  PROVE  Inv'
  <1>1. CASE UNCHANGED vars
    <2>1. UNCHANGED <<local, left, session, ceremony, torn, halfway, failures>>
      BY <1>1 DEF vars, disk
    <2> QED
      BY <2>1, LeftStays, StoresStutter, SessionsStutter, RestStutter DEF Inv
  <1>2. ASSUME NEW n \in Node, NEW i \in Identity,
               Unfriend(n, i) \/ ExpireNotice(n, i) \/ GiveUp(n, i) \/ CrashInUnfriend(n, i)
        PROVE  Inv'
    BY <1>2, UnfriendPreservesInv, OutboxPreservesInv, CrashInUnfriendPreservesInv
  <1>3. ASSUME NEW n \in Node, NEW k \in 1..MaxInvites, CreateInvite(n, k)
        PROVE  Inv'
    BY <1>3, CreateInvitePreservesInv
  <1>4. ASSUME NEW m \in Node, NEW n \in Node,
               RespondToInvite(m, n) \/ CrashInApply(m, n) \/ CrashInAddFriend(m, n)
        PROVE  Inv'
    BY <1>4, RespondToInvitePreservesInv, CrashInApplyPreservesInv,
       CrashInAddFriendPreservesInv
  <1>5. ASSUME NEW r \in answers, FinalizeInvite(r) \/ CompleteInvite(r) \/ ExpireResponse(r)
        PROVE  Inv'
    BY <1>5, FinalizeInvitePreservesInv, CompleteInvitePreservesInv, ExpiryPreservesInv
  <1>6. ASSUME NEW m \in Node, NEW n \in Node, NEW why \in {"gossip", "deliver"},
               Dial(m, n, why)
        PROVE  Inv'
    BY <1>6, DialPreservesInv
  <1>7. ASSUME NEW m \in Node, Advance(m) \/ BreakSession(m) \/ Restart(m) \/ ExpireInvite(m)
        PROVE  Inv'
    BY <1>7, AdvancePreservesInv, BreakPreservesInv, RestartPreservesInv, ExpiryPreservesInv
  <1> QED
    BY <1>1, <1>2, <1>3, <1>4, <1>5, <1>6, <1>7 DEF Next

\* The strengthened invariant holds of every behaviour, for any devices and people, any
\* explored partings and invites, and any bounds.
THEOREM Invariance == Spec => []Inv
  <1>1. Init => Inv
    BY InitInv
  <1>2. Inv /\ [Next]_vars => Inv'
    BY NextPreservesInv
  <1> QED
    BY <1>1, <1>2, PTL DEF Spec

\* Every variable keeps its type.
THEOREM TypeCorrect == Spec => []TypeOK
  <1>1. Inv => TypeOK
    BY DEF Inv, StoreInv, StoresTyped, SessionInv, RestTyped, TypeOK
  <1> QED
    BY <1>1, Invariance, PTL

\* Resurrection is blocked: unfriend(), apply_defriend_notice() and ingest_message()
\* leave no node with content of an identity it does not know, whatever sessions are
\* under way and wherever a teardown is cut short.
THEOREM ResurrectionBlocked == Spec => []NoStrangersContent
  <1>1. Inv => NoStrangersContent
    BY DEF Inv, StoreInv
  <1> QED
    BY <1>1, Invariance, PTL

\* Only a notice purges: a person is marked as disconnected only after one of their
\* devices unfriended this one's owner.
THEOREM PurgesAreMeant == Spec => []GoneMeansLeft
  <1>1. Inv => GoneMeansLeft
    BY DEF Inv, StoreInv
  <1> QED
    BY <1>1, Invariance, PTL
----------------------------------------------------------------------------
(***************************************************************************)
(* Who enters a friend list.  A person with two devices hands its friends  *)
(* from one to the other in a HAVE frame, so what follows holds where each *)
(* person has one device.                                                  *)
(***************************************************************************)
OneDeviceEach == \A m, n \in Node : OwnerOf[m] = OwnerOf[n] => m = n

\* A session leads to another node.
Abroad == \A m \in Node : ~InPhase(m, "idle") => session[m].to # m

\* The invite of a final is over.
InvitesSpent == \A r \in finals : live[r.to] # r.invite

Courtesy == NoNoticeToFriend /\ Abroad /\ InvitesSpent

\* Store t has no friend and no notice that s has not.
Tame(s, t) ==
  /\ t.known \subseteq s.known
  /\ \A i \in Identity : HasNotice(t, i) => HasNotice(s, i)

Parts(n) ==
  \E i \in Identity, address \in Node \union {NoAddress} :
    local'[n] = AddRecord(Teardown(local[n], i), i, address)

Befriends(n) ==
  /\ UsesUp(n)
  /\ \E k \in Node :
       /\ local'[n] = AddFriend(local[n], k)
       /\ \A i \in Identity \ {OwnerOf[k]} : <<n, i>> \in halfway => <<n, i>> \in halfway'

\* A crash of n cuts the same short.
HalfBefriends(n) ==
  /\ UsesUp(n)
  /\ \E k \in Node :
       local'[n] \in HalfAdded(local[n], k) /\ <<n, OwnerOf[k]>> \in halfway'

Remembers(n) == \A i \in Identity : <<n, i>> \in halfway => <<n, i>> \in halfway'

Stays(n) ==
  \/ Remembers(n) /\ (Tame(local[n], local'[n]) \/ Parts(n) \/ HalfBefriends(n))
  \/ Befriends(n)

LEMMA TeardownIsTame ==
  ASSUME NEW s, s \in Stores, NEW i, i \in Identity
  PROVE  /\ Tame(s, s) /\ Tame(s, DropRecord(s, i)) /\ Tame(s, Applied(s, i))
         /\ \A t \in HalfApplied(s, i) : Tame(s, t)
         /\ \A t \in HalfTornDown(s, i) : Tame(s, t)
  <1>1. Tame(s, s) /\ Tame(s, DropRecord(s, i))
    BY DEF Tame, DropRecord, NoRecord, Stores, HasNotice, Entries
  <1>2. Tame(s, Purge(s, i)) /\ Tame(s, Disown(s, i)) /\ Tame(s, Unlist(Disown(s, i), i))
    BY DEF Tame, Unlist, Disown, Purge, Stores, HasNotice, Entries
  <1>3. Tame(s, Teardown(s, i)) /\ Tame(s, Applied(s, i))
    BY DEF Tame, Applied, Teardown, Forget, Unlist, Disown, Purge, Stores, HasNotice, Entries
  <1> QED
    BY <1>1, <1>2, <1>3 DEF HalfApplied, HalfTornDown

LEMMA SettledIsTame ==
  ASSUME NEW s, NEW x, NEW done, s \in Stores, x.to \in Node
  PROVE  Tame(s, Settled(s, x, done))
  <1>1. OwnerOf[x.to] \in Identity
    BY FriendsAssumption
  <1> QED
    BY <1>1, TeardownIsTame DEF Settled

\* Only the HAVE frame of a sibling brings friends.
LEMMA SessionsAreTame ==
  ASSUME NEW s, NEW n, NEW k, NEW f, NEW posts, s \in Stores, OwnerOf[n] # OwnerOf[k]
  PROVE  Tame(s, MergeHave(s, n, k, f)) /\ Tame(s, Ingest(s, posts))
  BY DEF Tame, MergeHave, Ingest, Stores, HasNotice, Entries

LEMMA TameThenTame ==
  ASSUME NEW s, NEW t, NEW u, Tame(s, t), Tame(t, u)
  PROVE  Tame(s, u)
  BY DEF Tame

LEMMA TameStep ==
  ASSUME StoresTyped, NEW n \in Node, NEW t, Tame(local[n], t),
         local' = [local EXCEPT ![n] = t], halfway' = halfway
  PROVE  \A k \in Node : Stays(k)
  <1>1. \A k \in Node : local'[k] = IF k = n THEN t ELSE local[k]
    BY DEF StoresTyped
  <1>2. \A k \in Node : Tame(local[k], local'[k])
    BY <1>1 DEF Tame
  <1> QED
    BY <1>2 DEF Stays, Remembers

\* The peers of a session belong to different people.
LEMMA PeersDiffer ==
  ASSUME OneDeviceEach, Inv, Abroad, NEW m \in Node, ~InPhase(m, "idle")
  PROVE  /\ session[m].to \in Node
         /\ OwnerOf[session[m].to] # OwnerOf[m]
  BY SessionFacts DEF OneDeviceEach, Abroad

LEMMA AdvanceStays ==
  ASSUME OneDeviceEach, Inv, Abroad, NEW m \in Node, Advance(m)
  PROVE  \A n \in Node : Stays(n)
  <1> DEFINE x == session[m]
             n == x.to
  <1>0. ~InPhase(m, "idle")
    BY DEF Advance, InPhase, Admit, Refused, Enter, ApplyNotice, Learn, Serve, Send, Take,
           Finish
  <1>1. /\ n \in Node /\ OwnerOf[n] # OwnerOf[m]
        /\ OwnerOf[n] \in Identity /\ OwnerOf[m] \in Identity
        /\ StoresTyped
    BY <1>0, PeersDiffer, SessionFacts DEF Inv, StoreInv
  <1>2. local[m] \in Stores /\ local[n] \in Stores
    BY <1>1 DEF StoresTyped
  <1>2a. halfway' = halfway
    BY DEF Advance, Admit, Refused, Enter, ApplyNotice, Learn, Serve, Send, Take, Finish, disk
  <1>3. CASE Admit(m) \/ Enter(m)
    BY <1>3 DEF Admit, Enter, disk, Stays, Tame, Remembers
  <1>4. CASE Refused(m)
    <2> DEFINE t == Settled(local[m], x, Admits(local[m], OwnerOf[n]))
    <2>1. local' = [local EXCEPT ![m] = t]
      BY <1>1, <1>4 DEF Refused, StoresTyped
    <2>2. Tame(local[m], t)
      BY <1>1, <1>2, SettledIsTame
    <2> HIDE DEF t
    <2> QED
      BY <1>1, <1>2a, <2>1, <2>2, TameStep
  <1>5. CASE ApplyNotice(m)
    <2> DEFINE t == IF x.initNotice THEN Applied(local[n], OwnerOf[m]) ELSE local[n]
    <2>1. local' = [local EXCEPT ![n] = t]
      BY <1>5 DEF ApplyNotice
    <2>2. Tame(local[n], t)
      BY <1>1, <1>2, TeardownIsTame
    <2> HIDE DEF t
    <2> QED
      BY <1>1, <1>2a, <2>1, <2>2, TameStep
  <1>6. CASE Learn(m)
    <2> DEFINE s == IF x.respNotice THEN Applied(local[m], OwnerOf[n]) ELSE local[m]
    <2>1. Tame(local[m], s)
      BY <1>1, <1>2, TeardownIsTame
    <2>2. s \in Stores
      <3>1. Sound(local[m])
        BY SoundStores DEF Inv
      <3>2. Sound(s)
        BY <1>1, <3>1, AppliedFacts
      <3> QED
        BY <3>2 DEF Sound
    <2>3. \E t : t \in {s, Settled(s, x, x.ack /\ OwnerOf[n] \notin s.known)}
                 /\ local' = [local EXCEPT ![m] = t]
      BY <1>6 DEF Learn
    <2> HIDE DEF s
    <2>4. PICK t : t \in {s, Settled(s, x, x.ack /\ OwnerOf[n] \notin s.known)}
                   /\ local' = [local EXCEPT ![m] = t]
      BY <2>3
    <2>5. Tame(s, s) /\ Tame(s, Settled(s, x, x.ack /\ OwnerOf[n] \notin s.known))
      BY <1>1, <2>2, SettledIsTame, TeardownIsTame
    <2>6. Tame(local[m], t)
      BY <2>1, <2>4, <2>5, TameThenTame
    <2> QED
      BY <1>1, <2>4, <2>6, <1>2a, TameStep
  <1>7. CASE Serve(m)
    <2> DEFINE t == MergeHave(local[n], n, m, x.initHave)
    <2>1. local' = [local EXCEPT ![n] = t]
      BY <1>7 DEF Serve
    <2>2. Tame(local[n], t)
      BY <1>1, <1>2, SessionsAreTame
    <2> HIDE DEF t
    <2> QED
      BY <1>1, <1>2a, <2>1, <2>2, TameStep
  <1>8. CASE Send(m)
    <2> DEFINE t == MergeHave(local[m], m, n, x.respHave)
    <2>1. local' = [local EXCEPT ![m] = t]
      BY <1>8 DEF Send
    <2>2. Tame(local[m], t)
      BY <1>1, <1>2, SessionsAreTame
    <2> HIDE DEF t
    <2> QED
      BY <1>1, <1>2a, <2>1, <2>2, TameStep
  <1>9. CASE Take(m)
    <2> DEFINE t == Ingest(local[n], x.initPosts)
    <2>1. local' = [local EXCEPT ![n] = t]
      BY <1>1, <1>9 DEF Take, StoresTyped
    <2>2. Tame(local[n], t)
      BY <1>1, <1>2, SessionsAreTame
    <2> HIDE DEF t
    <2> QED
      BY <1>1, <1>2a, <2>1, <2>2, TameStep
  <1>10. CASE Finish(m)
    <2> DEFINE s == Ingest(local[m], x.respPosts)
               t == Settled(s, x, x.ack)
    <2>1. local' = [local EXCEPT ![m] = t]
      BY <1>1, <1>10 DEF Finish, StoresTyped
    <2>2. Tame(local[m], s) /\ s \in Stores
      <3>1. x.respPosts \in SUBSET Identity
        BY <1>0, SessionFacts DEF Sessions
      <3>2. Sound(local[m])
        BY SoundStores DEF Inv
      <3>3. s \in Stores
        BY <3>1, <3>2, IngestKeeps DEF Kept, Sound
      <3> QED
        BY <1>1, <1>2, <3>3, SessionsAreTame
    <2> HIDE DEF s
    <2>3. Tame(s, t)
      BY <1>1, <2>2, SettledIsTame
    <2>4. Tame(local[m], t)
      BY <2>2, <2>3, TameThenTame
    <2> HIDE DEF t
    <2> QED
      BY <1>1, <2>1, <2>4, <1>2a, TameStep
  <1> QED
    BY <1>3, <1>4, <1>5, <1>6, <1>7, <1>8, <1>9, <1>10 DEF Advance

\* What a step may do to the friends and the notices of a node.
LEMMA NextStays ==
  ASSUME OneDeviceEach, Inv, Abroad, InvitesSpent, [Next]_vars
  PROVE  \A n \in Node : Stays(n)
  <1>0. StoresTyped /\ \A n \in Node : local[n] \in Stores
    BY DEF Inv, StoreInv, StoresTyped
  <1>1. CASE UNCHANGED <<local, halfway>>
    BY <1>1 DEF Stays, Tame, Remembers
  <1>2. ASSUME NEW n \in Node, NEW i \in Identity, Unfriend(n, i)
        PROVE  \A k \in Node : Stays(k)
    <2> DEFINE known == local[n].peers \intersect DevicesOf(i)
    <2>1. PICK address \in IF known = {} THEN {NoAddress} ELSE known :
            local' = [local EXCEPT ![n] = AddRecord(Teardown(@, i), i, address)]
      BY <1>2 DEF Unfriend
    <2>2. address \in Node \union {NoAddress}
      BY DEF DevicesOf
    <2> HIDE DEF known
    <2>3. local' = [local EXCEPT ![n] = AddRecord(Teardown(local[n], i), i, address)]
      BY <1>0, <2>1 DEF StoresTyped
    <2>4. \A k \in Node : \/ k # n /\ local'[k] = local[k]
                          \/ k = n /\ local'[k] = AddRecord(Teardown(local[k], i), i, address)
      BY <1>0, <2>3 DEF StoresTyped
    <2>5. halfway' = halfway
      BY <1>2 DEF Unfriend
    <2> QED
      BY <2>2, <2>4, <2>5 DEF Stays, Tame, Parts, Remembers
  <1>3. ASSUME NEW n \in Node, NEW i \in Identity, ExpireNotice(n, i) \/ GiveUp(n, i)
        PROVE  \A k \in Node : Stays(k)
    <2> DEFINE t == [local[n] EXCEPT !.outbox[i].status = "expired"]
    <2>0. halfway' = halfway
      BY <1>3 DEF ExpireNotice, GiveUp
    <2>1. CASE ExpireNotice(n, i)
      <3>1. local' = [local EXCEPT ![n] = t]
        BY <2>1 DEF ExpireNotice
      <3>2. Tame(local[n], t)
        BY <1>0 DEF Tame, HasNotice, Stores, Entries
      <3> HIDE DEF t
      <3> QED
        BY <1>0, <2>0, <3>1, <3>2, TameStep
    <2>2. CASE GiveUp(n, i)
      <3>1. local' = [local EXCEPT ![n] = DropRecord(local[n], i)]
        BY <1>0, <2>2 DEF GiveUp, StoresTyped
      <3>2. Tame(local[n], DropRecord(local[n], i))
        BY <1>0, TeardownIsTame
      <3> QED
        BY <1>0, <2>0, <3>1, <3>2, TameStep
    <2> QED
      BY <1>3, <2>1, <2>2
  <1>4. ASSUME NEW n \in Node, NEW i \in Identity, CrashInUnfriend(n, i)
        PROVE  \A k \in Node : Stays(k)
    <2>1. PICK t \in HalfTornDown(local[n], i) : local' = [local EXCEPT ![n] = t]
      BY <1>4 DEF CrashInUnfriend
    <2>2. Tame(local[n], t)
      BY <1>0, TeardownIsTame
    <2>3. halfway' = halfway
      BY <1>4 DEF CrashInUnfriend
    <2> QED
      BY <1>0, <2>1, <2>2, <2>3, TameStep
  <1>5. ASSUME NEW m \in Node, NEW n \in Node, CrashInApply(m, n)
        PROVE  \A k \in Node : Stays(k)
    <2> DEFINE i == IF n = m THEN OwnerOf[session[m].to] ELSE OwnerOf[m]
    <2>1. i \in Identity
      BY <1>5, SessionFacts, FriendsAssumption DEF CrashInApply, InPhase
    <2>2. PICK t \in HalfApplied(local[n], i) : local' = [local EXCEPT ![n] = t]
      BY <1>5 DEF CrashInApply
    <2> HIDE DEF i
    <2>3. Tame(local[n], t)
      BY <1>0, <2>1, TeardownIsTame
    <2>4. halfway' = halfway
      BY <1>5 DEF CrashInApply
    <2> QED
      BY <1>0, <2>2, <2>3, <2>4, TameStep
  <1>6. ASSUME NEW r \in answers, FinalizeInvite(r) \/ CompleteInvite(r)
        PROVE  \A k \in Node : Stays(k)
    <2>1. r \in Responses /\ r.to \in Node /\ r.from \in Node
      BY DEF Inv, RestTyped, Responses
    <2>2. CASE FinalizeInvite(r)
      <3>1. finals' # finals
        BY <2>2 DEF FinalizeInvite, InvitesSpent
      <3>2. local' = [local EXCEPT ![r.to] = AddFriend(local[r.to], r.from)]
        BY <1>0, <2>1, <2>2 DEF FinalizeInvite, StoresTyped
      <3>3. \A k \in Node : \/ k # r.to /\ local'[k] = local[k]
                            \/ k = r.to /\ local'[k] = AddFriend(local[k], r.from)
        BY <1>0, <2>1, <3>2 DEF StoresTyped
      <3>4. halfway' = halfway \ {<<r.to, OwnerOf[r.from]>>}
        BY <2>2 DEF FinalizeInvite
      <3>5. ASSUME NEW k \in Node
            PROVE  Stays(k)
        <4>1. CASE k # r.to
          BY <3>3, <3>4, <4>1 DEF Stays, Tame, Remembers
        <4>2. CASE k = r.to
          BY <2>1, <3>1, <3>3, <3>4, <4>2 DEF Stays, Befriends, UsesUp
        <4> QED
          BY <4>1, <4>2
      <3> QED
        BY <3>5
    <2>3. CASE CompleteInvite(r)
      <3>1. open' # open
        BY <2>3 DEF CompleteInvite
      <3>2. local' = [local EXCEPT ![r.from] = AddFriend(local[r.from], r.to)]
        BY <1>0, <2>1, <2>3 DEF CompleteInvite, StoresTyped
      <3>3. \A k \in Node : \/ k # r.from /\ local'[k] = local[k]
                            \/ k = r.from /\ local'[k] = AddFriend(local[k], r.to)
        BY <1>0, <2>1, <3>2 DEF StoresTyped
      <3>4. halfway' = halfway \ {<<r.from, OwnerOf[r.to]>>}
        BY <2>3 DEF CompleteInvite
      <3>5. ASSUME NEW k \in Node
            PROVE  Stays(k)
        <4>1. CASE k # r.from
          BY <3>3, <3>4, <4>1 DEF Stays, Tame, Remembers
        <4>2. CASE k = r.from
          BY <2>1, <3>1, <3>3, <3>4, <4>2 DEF Stays, Befriends, UsesUp
        <4> QED
          BY <4>1, <4>2
      <3> QED
        BY <3>5
    <2> QED
      BY <1>6, <2>2, <2>3
  <1>7. ASSUME NEW m \in Node, Advance(m)
        PROVE  \A k \in Node : Stays(k)
    BY <1>7, AdvanceStays
  <1>8. ASSUME NEW m \in Node, BreakSession(m)
        PROVE  \A k \in Node : Stays(k)
    <2> DEFINE t == Settled(local[m], session[m], FALSE)
    <2>1. local' = [local EXCEPT ![m] = t]
      BY <1>0, <1>8 DEF BreakSession, StoresTyped
    <2>2. Tame(local[m], t)
      BY <1>0, <1>8, SessionFacts, SettledIsTame DEF BreakSession
    <2> HIDE DEF t
    <2>3. halfway' = halfway
      BY <1>8 DEF BreakSession
    <2> QED
      BY <1>0, <2>1, <2>2, <2>3, TameStep
  <1>10. ASSUME NEW n \in Node, NEW k \in Node, CrashInAddFriend(n, k)
         PROVE  \A j \in Node : Stays(j)
    <2>1. PICK t \in HalfAdded(local[n], k) : local' = [local EXCEPT ![n] = t]
      BY <1>10 DEF CrashInAddFriend
    <2>2. halfway' = halfway \union {<<n, OwnerOf[k]>>} /\ Restarted(n)
      BY <1>10 DEF CrashInAddFriend
    <2>3. UsesUp(n)
      <3>0. /\ failures \in Nat /\ failures' = failures + 1
            /\ live' = [live EXCEPT ![n] = 0]
            /\ open' = {r \in open : r.from # n}
            /\ live \in [Node -> 0..MaxInvites]
        BY <2>2, BoundsAssumption DEF Restarted, Failing, Inv, RestTyped
      <3>1. CASE \E r \in answers : r.to = n /\ r.from = k /\ live[n] = r.invite
        <4>1. live[n] # 0
          BY <3>1 DEF Inv, RestTyped, Responses
        <4> QED
          BY <3>0, <4>1 DEF UsesUp
      <3>2. CASE \E r \in finals \intersect open : r.from = n /\ r.to = k
        BY <3>0, <3>2 DEF UsesUp
      <3> QED
        BY <1>10, <3>1, <3>2 DEF CrashInAddFriend
    <2>4. \A j \in Node : Remembers(j)
      BY <2>2 DEF Remembers
    <2>5. \A j \in Node : \/ j # n /\ local'[j] = local[j]
                          \/ j = n /\ local'[j] = t
      BY <1>0, <2>1 DEF StoresTyped
    <2>6. HalfBefriends(n)
      BY <2>1, <2>2, <2>3, <2>5 DEF HalfBefriends
    <2> QED
      BY <2>4, <2>5, <2>6 DEF Stays, Tame
  <1>9. ASSUME \/ \E n \in Node, k \in 1..MaxInvites : CreateInvite(n, k)
               \/ \E m, n \in Node : RespondToInvite(m, n)
               \/ \E r \in answers : ExpireResponse(r)
               \/ \E m, n \in Node, why \in {"gossip", "deliver"} : Dial(m, n, why)
               \/ \E m \in Node : Restart(m) \/ ExpireInvite(m)
               \/ UNCHANGED vars
        PROVE  UNCHANGED <<local, halfway>>
    BY <1>9 DEF CreateInvite, RespondToInvite, ExpireResponse, Dial, Restart, ExpireInvite,
                vars, disk
  <1> QED
    BY <1>1, <1>2, <1>3, <1>4, <1>5, <1>6, <1>7, <1>8, <1>9,
       <1>10 DEF Next

LEMMA AbroadStays ==
  ASSUME Inv, Abroad, [Next]_vars
  PROVE  Abroad'
  <1>0. session \in [Node -> Sessions]
    BY DEF Inv, SessionInv
  <1>1. \A m \in Node : \/ session'[m].phase = "idle"
                        \/ session'[m].to = session[m].to /\ session[m].phase # "idle"
                        \/ session'[m].to # m
    <2>1. CASE UNCHANGED session
      BY <2>1
    <2>2. ASSUME NEW m \in Node, NEW n \in Node, NEW why, Dial(m, n, why)
          PROVE  \A k \in Node : session'[k] = session[k] \/ session'[k].to # k
      BY <1>0, <2>2 DEF Dial, Idle
    <2>3. ASSUME NEW m \in Node, Advance(m)
          PROVE  \A k \in Node : \/ session'[k] = session[k]
                                 \/ session'[k].phase = "idle"
                                 \/ session'[k].to = session[k].to /\ session[k].phase # "idle"
      <3> DEFINE Moves == /\ \A k \in Node \ {m} : session'[k] = session[k]
                          /\ session[m].phase # "idle"
                          /\ session'[m].phase = "idle" \/ session'[m].to = session[m].to
      <3>0. session[m] \in Sessions
        BY <1>0
      <3>1. Admit(m) => Moves
        BY <1>0, <3>0 DEF Admit, InPhase, Sessions
      <3>2. Refused(m) => Moves
        BY <1>0, <3>0 DEF Refused, InPhase, Sessions, Idle
      <3>3. Enter(m) => Moves
        BY <1>0, <3>0 DEF Enter, InPhase, Sessions, Idle
      <3>4. ApplyNotice(m) => Moves
        BY <1>0, <3>0 DEF ApplyNotice, InPhase, Sessions
      <3>5. Learn(m) => Moves
        BY <1>0, <3>0 DEF Learn, InPhase, Sessions, Idle
      <3>6. Serve(m) => Moves
        BY <1>0, <3>0 DEF Serve, InPhase, Sessions
      <3>7. Send(m) => Moves
        BY <1>0, <3>0 DEF Send, InPhase, Sessions
      <3>8. Take(m) => Moves
        BY <1>0, <3>0 DEF Take, InPhase, Sessions
      <3>9. Finish(m) => Moves
        BY <1>0, <3>0 DEF Finish, InPhase, Sessions, Idle
      <3> QED
        BY <2>3, <3>1, <3>2, <3>3, <3>4, <3>5, <3>6, <3>7, <3>8, <3>9 DEF Advance
    <2>4. ASSUME NEW m \in Node, BreakSession(m)
          PROVE  \A k \in Node : session'[k] = session[k] \/ session'[k].phase = "idle"
      BY <1>0, <2>4 DEF BreakSession, Idle
    <2>5. ASSUME NEW n \in Node, Restarted(n)
          PROVE  \A k \in Node : session'[k] = session[k] \/ session'[k].phase = "idle"
      BY <1>0, <2>5 DEF Restarted, Idle
    <2>6. ASSUME \/ \E n \in Node, i \in Identity : \/ Unfriend(n, i)
                                                    \/ ExpireNotice(n, i) \/ GiveUp(n, i)
                 \/ \E n \in Node, k \in 1..MaxInvites : CreateInvite(n, k)
                 \/ \E m, n \in Node : RespondToInvite(m, n)
                 \/ \E r \in answers :
                      FinalizeInvite(r) \/ CompleteInvite(r) \/ ExpireResponse(r)
                 \/ \E m \in Node : ExpireInvite(m)
                 \/ UNCHANGED vars
          PROVE  UNCHANGED session
      BY <2>6 DEF Unfriend, ExpireNotice, GiveUp, CreateInvite, RespondToInvite,
                  FinalizeInvite, CompleteInvite, ExpireResponse, ExpireInvite, vars
    <2>7. ASSUME \/ \E n \in Node, i \in Identity : CrashInUnfriend(n, i)
                 \/ \E m, n \in Node : CrashInApply(m, n) \/ CrashInAddFriend(m, n)
                 \/ \E n \in Node : Restart(n)
          PROVE  \E n \in Node : Restarted(n)
      BY <2>7 DEF CrashInUnfriend, CrashInApply, CrashInAddFriend, Restart
    <2> QED
      BY <2>1, <2>2, <2>3, <2>4, <2>5, <2>6, <2>7 DEF Next
  <1> QED
    BY <1>1 DEF Abroad, InPhase

\* create_invite() draws a new invite and finalize_invite() uses one up.
LEMMA InvitesStaySpent ==
  ASSUME Inv, InvitesSpent, [Next]_vars
  PROVE  InvitesSpent'
  <1>0. /\ live \in [Node -> 0..MaxInvites]
        /\ \A r \in answers : r.to \in Node /\ r.invite \in 1..MaxInvites
        /\ finals \subseteq answers
    BY DEF Inv, RestTyped, Responses
  <1>1. ASSUME NEW n \in Node, NEW k \in 1..MaxInvites, CreateInvite(n, k)
        PROVE  InvitesSpent'
    <2>1. \A r \in answers : r.invite < k
      <3>1. \A r \in answers : r.invite \in Issued
        BY DEF Issued
      <3>2. \A j \in Issued : j < k
        BY <1>1 DEF CreateInvite
      <3> QED
        BY <3>1, <3>2
    <2>2. /\ finals' = finals /\ \A r \in finals : r.to \in Node
          /\ \A j \in Node : live'[j] = IF j = n THEN k ELSE live[j]
      BY <1>0, <1>1 DEF CreateInvite
    <2> QED
      BY <1>0, <2>1, <2>2 DEF InvitesSpent
  <1>2. ASSUME NEW r \in answers, FinalizeInvite(r)
        PROVE  InvitesSpent'
    <2>1. /\ finals' = finals \union {r}
          /\ \A j \in Node : live'[j] = IF j = r.to THEN 0 ELSE live[j]
      BY <1>0, <1>2 DEF FinalizeInvite
    <2> QED
      BY <1>0, <2>1 DEF InvitesSpent
  <1>3. ASSUME \/ \E n \in Node : ExpireInvite(n)
               \/ \E n \in Node : Restarted(n)
        PROVE  InvitesSpent'
    <2>1. PICK n \in Node : ExpireInvite(n) \/ Restarted(n)
      BY <1>3
    <2>2. finals' = finals /\ \A j \in Node : live'[j] = IF j = n THEN 0 ELSE live[j]
      BY <1>0, <2>1 DEF ExpireInvite, Restarted
    <2> QED
      BY <1>0, <2>2 DEF InvitesSpent
  <1>4. ASSUME UNCHANGED <<live, finals>>
        PROVE  InvitesSpent'
    BY <1>4 DEF InvitesSpent
  <1>5. ASSUME \/ \E n \in Node, i \in Identity : CrashInUnfriend(n, i)
               \/ \E m, n \in Node : CrashInApply(m, n) \/ CrashInAddFriend(m, n)
               \/ \E n \in Node : Restart(n)
        PROVE  \E n \in Node : Restarted(n)
    BY <1>5 DEF CrashInUnfriend, CrashInApply, CrashInAddFriend, Restart
  <1>6. ASSUME \/ \E n \in Node, i \in Identity : \/ Unfriend(n, i)
                                                  \/ ExpireNotice(n, i) \/ GiveUp(n, i)
               \/ \E m, n \in Node : RespondToInvite(m, n)
               \/ \E r \in answers : CompleteInvite(r) \/ ExpireResponse(r)
               \/ \E m, n \in Node, why \in {"gossip", "deliver"} : Dial(m, n, why)
               \/ \E m \in Node : Advance(m) \/ BreakSession(m)
               \/ UNCHANGED vars
        PROVE  UNCHANGED <<live, finals>>
    BY <1>6 DEF Unfriend, ExpireNotice, GiveUp, RespondToInvite, CompleteInvite,
                ExpireResponse, Dial, Advance, Admit, Refused, Enter, ApplyNotice, Learn,
                Serve, Send, Take, Finish, BreakSession, vars, ceremony
  <1> QED
    BY <1>1, <1>2, <1>3, <1>4, <1>5, <1>6 DEF Next

\* A store that was half added names no other friend, and no other notice.
LEMMA HalfAddedApart ==
  ASSUME NEW s \in Stores, NEW k \in Node, NEW t \in HalfAdded(s, k)
  PROVE  /\ t.known = s.known \union {OwnerOf[k]}
         /\ \A i \in Identity : HasNotice(t, i) => HasNotice(s, i)
  <1>1. OwnerOf[k] \in Identity
    BY FriendsAssumption
  <1> DEFINE i       == OwnerOf[k]
             known   == [s EXCEPT !.known = @ \union {i}]
             dropped == DropRecord(known, i)
             cleared == [dropped EXCEPT !.gone = @ \ {i}]
             viewed  == [cleared EXCEPT !.views = @ \union {i}]
             Apart(u) == /\ u \in Stores /\ u.known = s.known \union {i}
                         /\ \A j \in Identity : HasNotice(u, j) => HasNotice(s, j)
  <1>2. Apart(known)
    BY <1>1 DEF Stores, HasNotice, Entries
  <1>3. Apart(dropped)
    <2> HIDE DEF known
    <2> QED
      BY <1>1, <1>2 DEF DropRecord, NoRecord, Stores, HasNotice, Entries
  <1>4. Apart(cleared)
    <2> HIDE DEF dropped
    <2> QED
      BY <1>1, <1>3 DEF Stores, HasNotice, Entries
  <1>5. Apart(viewed)
    <2> HIDE DEF cleared
    <2> QED
      BY <1>1, <1>4 DEF Stores, HasNotice, Entries
  <1>6. Apart(AddFriend(s, k))
    BY <1>1 DEF AddFriend, DropRecord, NoRecord, Stores, HasNotice, Entries
  <1>7. t \in {known, dropped, cleared, viewed, AddFriend(s, k)}
    BY DEF HalfAdded
  <1> HIDE DEF known, dropped, cleared, viewed
  <1> QED
    BY <1>2, <1>3, <1>4, <1>5, <1>6, <1>7

\* A node that stays within its bounds keeps friends and notices apart.
LEMMA NoticesStayApart ==
  ASSUME StoresTyped, NoNoticeToFriend, NEW n \in Node, Stays(n),
         NEW i \in Identity, HasNotice(local'[n], i), i \in local'[n].known
  PROVE  <<n, i>> \in halfway'
  <1>0. local[n] \in Stores
    BY DEF StoresTyped
  <1>1. CASE Remembers(n) /\ Tame(local[n], local'[n])
    BY <1>1 DEF Tame, Remembers, NoNoticeToFriend
  <1>2. CASE Remembers(n) /\ Parts(n)
    <2>1. PICK j \in Identity, address \in Node \union {NoAddress} :
            local'[n] = AddRecord(Teardown(local[n], j), j, address)
      BY <1>2 DEF Parts
    <2>2. /\ local'[n].known = local[n].known \ {j}
          /\ HasNotice(local'[n], i) => HasNotice(local[n], i) \/ i = j
      BY <1>0, <2>1 DEF AddRecord, Teardown, Forget, Unlist, Disown, Purge, Stores, HasNotice,
                        Entries
    <2> QED
      BY <1>2, <2>2 DEF Remembers, NoNoticeToFriend
  <1>3. CASE Befriends(n)
    <2>1. PICK k \in Node :
            /\ local'[n] = AddFriend(local[n], k)
            /\ \A j \in Identity \ {OwnerOf[k]} :
                 <<n, j>> \in halfway => <<n, j>> \in halfway'
      BY <1>3 DEF Befriends
    <2>2. /\ local'[n].known = local[n].known \union {OwnerOf[k]}
          /\ HasNotice(local'[n], i) => HasNotice(local[n], i) /\ i # OwnerOf[k]
      <3>1. OwnerOf[k] \in Identity
        BY FriendsAssumption
      <3> QED
        BY <1>0, <2>1, <3>1 DEF AddFriend, DropRecord, NoRecord, Stores, HasNotice, Entries
    <2> QED
      BY <2>1, <2>2 DEF NoNoticeToFriend
  <1>4. CASE Remembers(n) /\ HalfBefriends(n)
    <2>1. PICK k \in Node :
            local'[n] \in HalfAdded(local[n], k) /\ <<n, OwnerOf[k]>> \in halfway'
      BY <1>4 DEF HalfBefriends
    <2>2. /\ local'[n].known = local[n].known \union {OwnerOf[k]}
          /\ HasNotice(local[n], i)
      BY <1>0, <2>1, HalfAddedApart
    <2> QED
      BY <1>4, <2>1, <2>2 DEF Remembers, NoNoticeToFriend
  <1> QED
    BY <1>1, <1>2, <1>3, <1>4 DEF Stays

\* Friends and notices stay apart but where a crash cut _add_friend() short, sessions
\* lead elsewhere and used invites are over, where each person has one device.
THEOREM CourtesyInvariance ==
  ASSUME OneDeviceEach
  PROVE  Spec => []Courtesy
  <1>1. Init => Courtesy
    BY DEF Init, Courtesy, NoNoticeToFriend, Abroad, InvitesSpent, HasNotice, FriendsStore,
           NoRecord, InPhase, Idle
  <1>2. Inv /\ Courtesy /\ [Next]_vars => Courtesy'
    <2> SUFFICES ASSUME Inv, Courtesy, [Next]_vars
                 PROVE  Courtesy'
      OBVIOUS
    <2>1. Abroad' /\ InvitesSpent'
      BY AbroadStays, InvitesStaySpent DEF Courtesy
    <2>2. \A n \in Node : Stays(n)
      BY NextStays DEF Courtesy
    <2>3. NoNoticeToFriend'
      <3>1. \A n \in Node, i \in Identity :
              HasNotice(local'[n], i) /\ i \in local'[n].known => <<n, i>> \in halfway'
        BY <2>2, NoticesStayApart DEF Inv, StoreInv, Courtesy
      <3> QED
        BY <3>1 DEF NoNoticeToFriend
    <2> QED
      BY <2>1, <2>3 DEF Courtesy
  <1> QED
    BY <1>1, <1>2, Invariance, PTL DEF Spec

\* Re-friending takes back a notice in the outbox (_add_friend()), and unfriend() queues
\* one only for somebody it has removed: no pending notice names a friend, where each
\* person has one device, except at a process that died inside _add_friend() while it
\* added that friend, and that has not added them again.
THEOREM NoticesNameNoFriend ==
  ASSUME OneDeviceEach
  PROVE  Spec => []NoNoticeToFriend
  <1>1. Courtesy => NoNoticeToFriend
    BY DEF Courtesy
  <1> QED
    BY <1>1, CourtesyInvariance, PTL

\* Whoever enters a friend list came through finalize_invite() or complete_invite(), and
\* that used up an invite or a response, where each person has one device: no frame of a
\* session befriends anybody, and no crash but one inside those two.
THEOREM FriendsComeByInvite ==
  ASSUME OneDeviceEach
  PROVE  Spec => OnlyCeremonyBefriends
  <1> DEFINE Step == \A n \in Node :
                       local'[n].known \subseteq local[n].known \/ UsesUp(n)
  <1>1. Inv /\ Courtesy /\ [Next]_vars => Step
    <2> SUFFICES ASSUME Inv, Courtesy, [Next]_vars, NEW n \in Node
                 PROVE  local'[n].known \subseteq local[n].known \/ UsesUp(n)
      OBVIOUS
    <2>1. Stays(n) /\ local[n] \in Stores
      BY NextStays DEF Courtesy, Inv, StoreInv, StoresTyped
    <2>2. CASE Tame(local[n], local'[n])
      BY <2>2 DEF Tame
    <2>3. CASE Parts(n)
      BY <2>1, <2>3 DEF Parts, AddRecord, Teardown, Forget, Unlist, Disown, Purge, Stores
    <2>4. CASE Befriends(n) \/ HalfBefriends(n)
      BY <2>4 DEF Befriends, HalfBefriends
    <2> QED
      BY <2>1, <2>2, <2>3, <2>4 DEF Stays
  <1>2. Inv /\ Courtesy /\ [Next]_vars => [Step]_vars
    BY <1>1
  <1> HIDE DEF Step
  <1>3. Spec => [][Step]_vars
    BY <1>2, Invariance, CourtesyInvariance, PTL DEF Spec
  <1> QED
    BY <1>3 DEF OnlyCeremonyBefriends, Step
=============================================================================
