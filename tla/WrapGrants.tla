----------------------------- MODULE WrapGrants -----------------------------
(***************************************************************************)
(* The wrap grants of one message: a content key is sealed, when the       *)
(* message is composed, to the devices known then; a grant is a later      *)
(* message that seals it to more devices, or to their rotated keys.  The   *)
(* sweeps of a gossip round (node.py) mint grants; the store (store.py)    *)
(* routes them, and keeps the latest one of an identity for a message.     *)
(*                                                                         *)
(* The sweeps of a round run without awaiting, so no session comes between *)
(* them, but each mint is a commit of its own: the process may die between *)
(* two sweeps.  The sessions of the round come next, and then the prune.   *)
(***************************************************************************)
EXTENDS Naturals, FiniteSets, FiniteSetsExt

CONSTANTS
  Own,           \* the devices of the identity whose sweeps these are
  Friend,        \* the devices of others, one each
  GraceEpochs,   \* how many rotations a retired key survives
  MaxEpoch,      \* how many keys a device has
  MaxMints,      \* how many grants are minted
  MaxChanges     \* how many times friends, keys or processes change

ASSUME GrantAssumption ==
  /\ Own # {} /\ Own \intersect Friend = {} /\ IsFiniteSet(Own \union Friend)
  /\ GraceEpochs \in Nat /\ {MaxEpoch, MaxMints, MaxChanges} \subseteq Nat \ {0}

VARIABLES
  message,     \* the message that the grants are about
  epoch,       \* the current encryption key of each device
  replica,     \* what each device stores
  mints,       \* how many grants there are so far
  changes      \* how many changes there were so far

grantVars == <<message, epoch, replica, mints, changes>>
----------------------------------------------------------------------------
Device == Own \union Friend

\* Encryption keys are numbered per device; 0 is no key.
Epoch == 0..MaxEpoch

\* A wall post of the kreds scope, other content of this identity, a message or a
\* post that somebody sent to it.
Origin == {"wall", "own", "dm", "post"}

Authored == message.origin \in {"wall", "own"}

\* Which key of each device the content key is sealed to.  enc_pub names that key in
\* an entry of a grant.
Wraps == [Device -> Epoch]

NoWraps == [x \in Device |-> 0]

\* Grants are ranked by created_at and sequence number: here, by one number.
Grant == [rank : 1..MaxMints, wraps : Wraps]

\* A device: whether it has the message; the grants it holds; the ranks of those it
\* ever ingested (a tombstone stays in the seen set); the latest enckey it has of
\* each other device; whose identity it knows; whether the content key is cached, or
\* was given up on; how far its gossip round has got; and how many whole rounds
\* passed since its inputs changed.
Replica ==
  [has : BOOLEAN, grants : SUBSET Grant, seen : SUBSET (1..MaxMints),
   known : Wraps, friends : SUBSET Friend, cached : {"no", "yes", "never"},
   phase : {"friends", "devices", "sessions"}, quiet : 0..2]

\* _latest_own_wrap_grants(): the grant that the prune keeps.
Latest(d) == {g \in replica[d].grants : \A h \in replica[d].grants : h.rank <= g.rank}

LatestWraps(d) ==
  IF Latest(d) = {} THEN NoWraps ELSE (CHOOSE g \in Latest(d) : TRUE).wraps

\* wrap_grants(): the union over the grants held, the later ones winning per device.
Naming(d, x) == {g \in replica[d].grants : g.wraps[x] # 0}

UnionWraps(d) ==
  [x \in Device |->
     IF Naming(d, x) = {} THEN 0
     ELSE (CHOOSE g \in Naming(d, x) : \A h \in Naming(d, x) : h.rank <= g.rank).wraps[x]]

InGrace(x, e) == e # 0 /\ epoch[x] - e <= GraceEpochs

\* _content_key(): the cache, the envelope, and, for posts, the grants.
Opens(x) ==
  \/ x \in message.inline /\ InGrace(x, 1)
  \/ message.origin # "dm" /\ InGrace(x, UnionWraps(x)[x])

CanKey(x) == replica[x].has /\ (replica[x].cached = "yes" \/ Opens(x))
----------------------------------------------------------------------------
\* The messages that start a behaviour: just composed, on the device it was composed
\* on, or just received.
Messages ==
  {m \in [origin : Origin, inline : SUBSET Device] :
     /\ m.inline \intersect Own # {}
     /\ m.origin \in {"dm", "post"} => m.inline \subseteq Own}

Blank ==
  [has |-> FALSE, grants |-> {}, seen |-> {}, known |-> NoWraps, friends |-> {},
   cached |-> "no", phase |-> "sessions", quiet |-> 0]

GrantInit ==
  /\ message \in Messages
  /\ epoch = [x \in Device |-> 1]
  /\ \E holder \in message.inline \intersect Own :
       replica = [x \in Device |->
         IF x = holder THEN [Blank EXCEPT !.has = TRUE, !.phase = "friends"]
         ELSE IF x \in Own THEN [Blank EXCEPT !.phase = "friends"]
         ELSE Blank]
  /\ mints = 0 /\ changes = 0

\* Device d goes on to the given phase, having minted these wraps, if any; looking
\* up the content key has cached it.
Proceed(d, phase, wraps) ==
  LET r == [replica[d] EXCEPT !.phase = phase] IN
  IF wraps = NoWraps
  THEN replica' = [replica EXCEPT ![d] = r] /\ UNCHANGED mints
  ELSE /\ mints < MaxMints /\ mints' = mints + 1
       /\ replica' = [replica EXCEPT ![d] =
            [r EXCEPT !.cached = "yes", !.seen = @ \union {mints + 1},
                      !.grants = @ \union {[rank |-> mints + 1, wraps |-> wraps]}]]

\* The devices among xs that the envelope does not serve, each with its current key.
Grantable(d, xs) ==
  [x \in Device |-> IF x \in xs \ message.inline THEN replica[d].known[x] ELSE 0]

Misses(grantable, covered) ==
  \E x \in Device : grantable[x] # 0 /\ covered[x] # grantable[x]

\* A plausible defect: grants for friends are minted for any content.
MintForAll(d) ==
  LET grantable == Grantable(d, replica[d].friends) IN
  IF CanKey(d) /\ Misses(grantable, UnionWraps(d)) THEN grantable ELSE NoWraps

\* maintain_wrap_grants(): whatever grant covers a friend will do, and what is minted
\* covers every friend.
FriendMint(d) ==
  LET grantable == Grantable(d, replica[d].friends) IN
  IF message.origin = "wall" /\ CanKey(d) /\ Misses(grantable, UnionWraps(d))
  THEN grantable ELSE NoWraps

FriendSweep(d) ==
  /\ replica[d].phase = "friends"
  /\ Proceed(d, "devices", FriendMint(d))
  /\ UNCHANGED <<message, epoch, changes>>

\* A plausible defect: a grant for the own devices strips what others were granted.
NothingCarried(d, wraps) == wraps

\* maintain_own_device_grants(), maintain_received_dm_grants() and
\* maintain_received_post_grants(): the latest grant must cover the own devices.  For
\* authored content what it says of other devices is carried forward.
CarriedForward(d, wraps) ==
  [x \in Device |-> IF wraps[x] = 0 /\ Authored THEN LatestWraps(d)[x] ELSE wraps[x]]

DeviceMint(d) ==
  LET grantable == Grantable(d, Own \ {d}) IN
  IF CanKey(d) /\ Misses(grantable, LatestWraps(d))
  THEN CarriedForward(d, grantable) ELSE NoWraps

DeviceSweep(d) ==
  /\ replica[d].phase = "devices"
  /\ Proceed(d, "sessions", DeviceMint(d))
  /\ UNCHANGED <<message, epoch, changes>>

\* The end of the round: prune_superseded_wrap_grants() and
\* cache_message_keys().  A key that cannot be had is not looked for again, until a
\* grant arrives or the app lock is opened.
OpensPruned(d) ==
  \/ d \in message.inline /\ InGrace(d, 1)
  \/ message.origin # "dm" /\ InGrace(d, LatestWraps(d)[d])

Rounded(d) ==
  [replica[d] EXCEPT
    !.grants = Latest(d),
    !.cached = IF ~replica[d].has \/ @ # "no" THEN @
               ELSE IF OpensPruned(d) THEN "yes" ELSE "never"]

EndRound(d) ==
  /\ replica[d].phase = "sessions"
  /\ replica' = [replica EXCEPT ![d] =
       [Rounded(d) EXCEPT !.phase = "friends", !.quiet = IF @ = 2 THEN 2 ELSE @ + 1]]
  /\ UNCHANGED <<message, epoch, mints, changes>>

\* The same at the device of a friend, whose sweeps mint nothing for this message.
FriendRound(f) ==
  /\ replica[f] # Rounded(f)
  /\ replica' = [replica EXCEPT ![f] = Rounded(f)]
  /\ UNCHANGED <<message, epoch, mints, changes>>

\* A view looks the content key up whatever the negative cache says.
View(d) ==
  /\ replica[d].has /\ Opens(d) /\ replica[d].cached # "yes"
  /\ replica[d].phase # "devices"
  /\ replica' = [replica EXCEPT ![d].cached = "yes"]
  /\ UNCHANGED <<message, epoch, mints, changes>>
----------------------------------------------------------------------------
(***************************************************************************)
(* Sessions: a device gives another what messages_not_in() routes there.   *)
(***************************************************************************)
\* Grants go to the devices they name, and to those of their own identity.
RoutedGrants(d, x) == {g \in replica[d].grants : x \in Own \/ g.wraps[x] # 0}

\* A message of one's own goes to the devices that its envelope or a grant serves.
RoutesMessage(d, x) ==
  /\ replica[d].has
  /\ \/ x \in Own
     \/ Authored /\ (x \in message.inline \/ Naming(d, x) # {})

Unseen(d, x) == {g \in RoutedGrants(d, x) : g.rank \notin replica[x].seen}

Linked(d, x) == x \in (Own \ {d}) \union replica[d].friends

\* The enckey messages that x takes over: those of the identities it knows.
Learned(d, x) ==
  IF x \notin Own THEN NoWraps
  ELSE [y \in Device |->
          IF y = d THEN epoch[d]
          ELSE IF y # x /\ y \in Own \union replica[x].friends
               THEN Max({replica[x].known[y], replica[d].known[y]})
               ELSE replica[x].known[y]]

Offers(d, x) ==
  \/ Unseen(d, x) # {}
  \/ RoutesMessage(d, x) /\ ~replica[x].has
  \/ Learned(d, x) # replica[x].known

\* A plausible defect: what was once given up on stays given up on.
StaysPoisoned(x, grants) == replica[x].cached

\* Ingesting a grant un-poisons its target: the next round looks for the key again.
UnPoisoned(x, grants) ==
  IF grants # {} /\ replica[x].cached = "never" THEN "no" ELSE replica[x].cached

Sync(d, x) ==
  /\ Linked(d, x) /\ Offers(d, x) /\ replica[x].phase # "devices"
  /\ replica' = [replica EXCEPT ![x].has = @ \/ RoutesMessage(d, x),
                                ![x].known = Learned(d, x), ![x].quiet = 0,
                                ![x].cached = UnPoisoned(x, Unseen(d, x)),
                                ![x].grants = @ \union Unseen(d, x),
                                ![x].seen = @ \union {g.rank : g \in Unseen(d, x)}]
  /\ UNCHANGED <<message, epoch, mints, changes>>

\* A session with a friend brings the enckey message of its device.
LearnKey(d, f) ==
  /\ f \in replica[d].friends /\ replica[d].phase # "devices"
  /\ replica[d].known[f] # epoch[f]
  /\ replica' = [replica EXCEPT ![d].known[f] = epoch[f], ![d].quiet = 0]
  /\ UNCHANGED <<message, epoch, mints, changes>>
----------------------------------------------------------------------------
Change == changes < MaxChanges /\ changes' = changes + 1

Rotate(x) ==
  /\ Change /\ epoch[x] < MaxEpoch
  /\ epoch' = [epoch EXCEPT ![x] = @ + 1]
  /\ UNCHANGED <<message, replica, mints>>

Befriend(d, f) ==
  /\ f \notin replica[d].friends /\ replica[d].phase # "devices" /\ Change
  /\ replica' = [replica EXCEPT ![d].friends = @ \union {f}, ![d].quiet = 0]
  /\ UNCHANGED <<message, epoch, mints>>

\* unfriend() drops all that the identity published, its keys included.
Unfriends(d, f) ==
  /\ f \in replica[d].friends /\ replica[d].phase # "devices" /\ Change
  /\ replica' = [replica EXCEPT ![d].friends = @ \ {f}, ![d].known[f] = 0,
                                ![d].quiet = 0]
  /\ UNCHANGED <<message, epoch, mints>>

\* Where there is an app lock, unlock() forgets what was given up on.
Unlocked(d) ==
  {replica[d].cached, IF replica[d].cached = "never" THEN "no" ELSE replica[d].cached}

\* The process dies in the middle of a round; the next one starts from the beginning.
Restart(d) ==
  /\ replica[d].phase \in {"devices", "sessions"} /\ Change
  /\ \E c \in Unlocked(d) :
       replica' = [replica EXCEPT ![d].phase = "friends", ![d].quiet = 0,
                                  ![d].cached = c]
  /\ UNCHANGED <<message, epoch, mints>>

GrantNext ==
  \/ \E d \in Own :
       \/ FriendSweep(d) \/ DeviceSweep(d) \/ EndRound(d) \/ View(d) \/ Restart(d)
       \/ \E x \in Device : Sync(d, x)
       \/ \E f \in Friend : LearnKey(d, f) \/ Befriend(d, f) \/ Unfriends(d, f)
  \/ \E f \in Friend : FriendRound(f)
  \/ \E x \in Device : Rotate(x)

GrantSpec == GrantInit /\ [][GrantNext]_grantVars
----------------------------------------------------------------------------
GrantTypeOK ==
  /\ message \in Messages /\ epoch \in [Device -> 1..MaxEpoch]
  /\ replica \in [Device -> Replica]
  /\ mints \in 0..MaxMints /\ changes \in 0..MaxChanges

\* Whom device d has a key of and should serve with grants.
Served(d) ==
  {x \in Device \ (message.inline \union {d}) :
     /\ replica[d].known[x] # 0
     /\ x \in Own \/ (message.origin = "wall" /\ x \in replica[d].friends)}

\* The sweeps do not strip each other's coverage: two rounds after anything changed at
\* a device that can open the message, the one grant that its prune left there covers
\* every other own device, and for a wall post every friend, with the current key of
\* each (the invariant that prune_superseded_wrap_grants(), store.py:490, rests on).
\* And by then the content key is cached there, whatever was given up on before: what
\* is opened later, with the keys of then, does not depend on a grant.
SettledIsCovered ==
  \A d \in Own :
    (replica[d].quiet = 2 /\ replica[d].phase = "friends" /\ CanKey(d)) =>
      /\ replica[d].cached = "yes"
      /\ \A x \in Served(d) : LatestWraps(d)[x] = replica[d].known[x]

\* No sweep widens the audience: a grant never names a device that is neither our own
\* nor, for a wall post, one of a current friend of the device that mints it, unless
\* the grant it supersedes named it already (node.py:2188).
AudienceNotWidened ==
  [][\A d \in Own : mints' # mints =>
       \A g \in replica'[d].grants \ replica[d].grants, f \in Friend :
         g.wraps[f] # 0 =>
           /\ message.origin = "wall"
           /\ f \in replica[d].friends \/ LatestWraps(d)[f] # 0]_grantVars
=============================================================================
