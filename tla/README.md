# Kreds in TLA+

Kreds ("hearth") is a peer-to-peer, end-to-end encrypted social network. Every
person is an *identity*; an identity has one or more *devices*, and each device
runs a *node*: a SQLite store, a key file, a gossip loop over Tor and a local
API. Nodes of friends meet in *sessions*, in which they swap revocations,
defriend notices, summaries of what they have, messages and blobs.

This directory holds the specifications of that system, the TLC configurations
that check them on small instances, and the proofs TLAPS checks for every
instance.

## Inventory

| component | state | operations | what is hard |
| --- | --- | --- | --- |
| sequence tracking (`identity.py` `SeenSet`, `Verifier`) | per device: accepted numbers, revocation bound | `add`, `has`, `max_seen`, `verify_message`, `process_revocation` | compaction; replay; revocations that arrive late or twice |
| message store (`store.py`) | messages, tombstones, device views, blobs | `ingest_message`, `ingest_revocation`, `sweep_expired`, prunes, `messages_not_in` | out-of-order deletes, grants and revocations; summary gaps; who gets what |
| node operations (`node.py`) | keys.json (counter, keys), pending invites | `_publish`, `delete_post`, `compose_*`, `revoke_device`, maintenance passes | crashes between the store's commit and the key file's write; multi-step operations |
| session protocol (`sync.py`) | none across sessions, but state read before an await is used after it | HELLO, AUTH, REVOCATIONS, DEFRIENDS, HAVE, MESSAGES, BLOBS | both ends must stop at the same frame; checks that go stale; broken connections |
| friend graph (`node.py`, `store.py`, `sync.py`) | identities, peers, outbox, disconnected, invites | `unfriend`, `apply_defriend_notice`, `deliver_defriends`, `create_invite`, `_add_friend` | delivery with acknowledgement, retry, expiry; re-friending against late notices; siblings |
| app lock and key files (`applock.py`, `node.py`) | applock.json, keys.json, paper_seed.txt, keys in memory; the auto-lock clock, the throttle | enable, unlock, lock, change credential, disable, autolock | a crash between two writes must leave something that opens, and nothing in the open; suspensions and slow rounds |
| encryption keys (`identity.py`, `node.py`, `store.py`) | current and retired keys, published enckeys, wrap grants, cached content keys, negative cache | rotation, grace, grant minting and pruning, decrypt | a key pruned while something is wrapped to it; grants that come late |
| responses (`node.py`, `store.py`) | responses, rebuilt records, moderation marks | `compose_response`, `process_responses`, `remove_response` | siblings rebuild concurrently; marks are local to a device |
| profile wall (`node.py`, `store.py`) | one layout record, one record per album, the later one wins entire | compose, pin, unpin, size, group, ungroup, migrate, delete | two devices edit at once; a layout and an album that disagree; a push that cascades |
| blobs (`store.py`, `sync.py`) | bytes by hash, referenced by messages | compose, collect, want, give within a budget | bytes shared by messages, collected while asked for; starvation |
| pairing (`pairingcodes.py`, `sync.py`, `node.py`, `api.py`) | one active code, one parked request, rate limit | begin, request, accept, deny, timeout | acceptance racing the deadline and the next ceremony; single use |
| core update (`coreupdate.py`, `update.py`, `launcher.py`, `desktop.py`, `paths.py`) | `current`, `previous`, staged bundle and marker, `versions/`, the served web client | stage, apply, start, revert, seed, swap | a crash between any two writes; bad releases; two kinds of update |

`PROJECT.json` lists these and the parts that hold no protocol state (API, web
client, transports, media gates, CLI), and the Android port.

Concurrency: a node runs one asyncio loop, so a handler runs to its next await
without interference. What interleaves is sessions (at awaits), the gossip and
maintenance tasks, several nodes, and crashes anywhere between two writes.

## Modules

* `SeenSet` - the compacted set of accepted numbers (`identity.py` 505-542).
* `SeenSetProofs` - what compaction preserves, and that `max_seen` is an upper
  bound.
* `HearthStore` - the replicated store. Per node a record `local[n]` with the
  five things on disk: `rows` (messages table), `dead` (tombstones with the
  reason), `seen` and `rev` (device views), `seq` (the counter in keys.json).
  `wire[m][n]` is a MESSAGES frame on its way, `alive[n]` turns FALSE when a
  revoked node wipes itself, and `sig[x]` records which device signed message
  `x` under which number: a ghost that stands for the signature inside every
  copy.
* `ReplicaLifecycle` - the abstract store: a node lacks a message, shows it,
  buries it, in that order.
* `HearthStoreProofs` - theorems about `HearthStore`.
* `MCHearthStore` - its instances for TLC.
* `Unfriend` - the friend graph over the session protocol. Per node a record
  `local[n]` with what is on disk: `known` (identities), `rows` (one post per
  identity stands for all of its content), `views` and `seen` (device views),
  `peers` (addresses), `gone` ("no longer connected"), `outbox` (one notice per
  target at most). `session[m]` is the session node m dialled, with the frame it
  is at and what either side read or prepared before it awaited: the notices,
  the HAVE frames, the MESSAGES frames, the acknowledgement. `live`, `answers`,
  `open` and `finals` are the invite ceremony; `left` counts who unfriended
  whom, `torn` names the nodes that died inside a teardown and `halfway` the friends
  that nodes which died were adding (ghosts for the properties).
* `UnfriendProofs` - theorems about `Unfriend`.
* `MCUnfriend` - its instances for TLC.

`HearthStore` and `Unfriend` overlap in the session: the first takes friendship
as fixed and looks at messages, the second takes a message as content and looks
at who is known.

* `KeyFiles` - the key material of one device. `disk` is the data directory
  (keys.json, applock.json, the paper seed, and what of hearth.db depends on
  keys: the published enckey, the cached and the given-up content keys), `mem`
  the node object. A handler is a sequence `todo` of steps, each a whole disk,
  which `Write` makes one at a time; `Crash` may come before any of them.
* `KeyFilesProofs` - theorems about `KeyFiles`.
* `FailedWriteProofs` - what of `KeyFiles` survives writes that fail.
* `LockScreen` - when that device locks itself: the loop of round, stamp, sleep
  and tick with the two clocks, the throttle of attempts, the settings and their
  migration.
* `Pairing` - adding a phone: the code, the parked request, and per phone where
  its wire handler is and what it was told.
* `CoreUpdate` - the packaged desktop: pointers, installed versions, staging,
  the step the launcher is at, the running version, the web client, its swap and
  whether its VERSION file was cut short. `stranded` is a ghost: a launcher died in
  the one way that costs the installation its next start.
* `CoreUpdateProofs` - theorems about `CoreUpdate`.
* `WrapGrants` - who can open one message: per device the grants it holds and has
  seen, the keys it knows, its friends, its cache, and how far its round has got.
* `Responses` - the responses to one journal post, at the devices of its author.
* `Wall` - the layout, the albums and the posts of one profile, per device.
* `Blobs` - the bytes that messages refer to, and the BLOBS phase of a session.
* `MCDevice` - `KeyFiles`, `LockScreen`, `Pairing` and `CoreUpdate` side by side;
  `MCPosts` - `WrapGrants`, `Responses`, `Wall` and `Blobs`. The parts of each
  share no variable, so a behaviour of the composition is a scenario of one part
  with the others at rest: the composition saves runs and says nothing about
  interactions. `MCKeyFiles` and `MCRecordWar` instantiate one part each.
* `DeviceProofs` - theorems about `LockScreen` and `Pairing`, and about `MCDevice`,
  which has those of `KeyFilesProofs` and `CoreUpdateProofs` for the other two.
* `PostsProofs` - theorems about the four parts of `MCPosts`, and about `MCPosts`.

How actions correspond to the code:

| action | code |
| --- | --- |
| `Publish`, `DeletePost`, `DeletePostAndRecord` | `Node._publish`, `Node.delete_post` (with the look-up of the responses record) |
| `CrashInPublish`, `CrashInDeletePost` | a crash after `ingest_message` committed and before `_save_keys` |
| `ReceiveMessage` | one iteration of the loop over the MESSAGES frame, `Store.ingest_message` with all its branches (`Ingest`) |
| `SweepExpired` | `Store.sweep_expired` |
| `RevokeDevice`, `SwapRevocations` | `Node.revoke_device`; the REVOCATIONS phase on both sides, `Store.ingest_revocation`, `enter_revoked_state` |
| `SendMessages`, `LoseConnection` | HAVE and MESSAGES (`Store.messages_not_in`); a session that breaks before the frame is ingested |

And in `Unfriend`:

| action | code |
| --- | --- |
| `Unfriend`, `CrashInUnfriend` | `Node.unfriend` with `Store.unfriend_teardown` and `add_outbox`; a crash between its commits |
| `CreateInvite`, `RespondToInvite`, `FinalizeInvite`, `CompleteInvite` | the methods of those names, the last two with `_add_friend`; a response travels by paste or dial and may arrive late or twice |
| `CrashInAddFriend` | a crash in `finalize_invite` or `complete_invite`, between the commits of `_add_friend` (`HalfAdded`) or after them and before the final is out |
| `ExpireInvite`, `ExpireResponse`, `ExpireNotice` | the clocks of ten minutes and fourteen days |
| `Dial` | a dial of `_gossip_round` or of `deliver_defriends` |
| `Admit`, `Refused`, `Enter` | HELLO and AUTH: each side's admission check, the `refused` frame, `PeerRefused` |
| `ApplyNotice`, `Learn`, `CrashInApply` | DEFRIENDS: the responder applies before it answers, the initiator after; `apply_defriend_notice`; the cutoff when the peer is unknown; the HAVE frame each side builds next |
| `Serve`, `Send`, `Take`, `Finish` | HAVE (known lists, addresses, the offer) and MESSAGES of either side |
| `GiveUp`, and `Settled` inside the ends of a session | what `deliver_defriends` makes of a record |
| `BreakSession`, `Restart` | `_sync_session` failing anywhere; a process dying, with its sessions, invites and responses |

In the modules about one device:

| action | code |
| --- | --- |
| `Create`, `PairRequest`, `PairInstall` | the three ways to an enrolled device, write by write (`HearthNode.create`, `pair_request`, `pair_install`) |
| `BootLocked`, `Boot`, `StartServing`, `StartServingIdle` | `HearthNode.__init__` with and without applock.json (`Scrub` is the repair of an interrupted handler); the sweeps of `build_app` |
| `EnableApplock`, `Unlock`, `Lock`, `ChangeCredential`, `DisableApplock` | the methods of those names |
| `MaintainEnckey` | `maintain_enckey`: prune, publish or rotate, with `_save_keys` and `_publish` |
| `LearnRevocation` | a revocation from a sibling and `enter_revoked_state` |
| `Deliver`, `View`, `CacheMessageKeys`, `Share` | a sealed message arrives; `_content_key` of a view; the sweep of a round; others take over the published key |
| `Write`, `Crash` | one `_atomic_write` or commit; the end of the process |
| `RoundTakes`, `StampTick`, `Suspend`, `MaybeAutolock` | `gossip_loop`, `stamp_autolock_tick`, the sleep, `maybe_autolock` |
| `Touch`, `UnlockRight`, `UnlockWrong`, `LockNow`, `ChangeSettings`, `RestartLocked` | the API's routes, the throttle, `migrate_settings` at a start with a write that may fail (`Booted`) |
| `RefileRecord` | `change_applock_credential`, which files a marked record with the settings it had |
| `PairBegin`, `Scan`, `HandlePairRequest`, `WakeUp`, `PhoneGone`, `Unpark`, `Decide` | `/api/pair/begin`, `_handle_pair_request` up to its wait, its end by verdict or deadline, a lost connection, its `finally`, `/api/pair/accept` |
| `CodeExpires`, `MinutePasses` | the clocks of the code and of the rate limit |
| `StageZip`, `StageMarker`, `StageTorn` | `stage_core` |
| `Apply`, `ClearTarget`, `Extract`, `InstallFails`, `WritePrevious`, `WriteCurrent`, `ClearStaging` | `apply_staged_core` with the errors it catches, `_extract_to_new_dir`, `_flip_current`, `_clear_staging` |
| `LauncherDies` | the errors that nothing catches, at any of these steps |
| `StartPayload`, `AlreadyRunning`, `CannotSeed`, `SeedFails`, `SeedRemoves`, `Serve`, `Quit`, `Launch` | `launcher.main` with the fall-back to `previous` (`FallBack`), `acquire_single_instance`, `seed_web_dir` and what kills it, `desktop.launch` |
| `SwapOut`, `SwapIn`, `SwapFails`, `Stamp`, `StampFails` | `apply_web`: its two renames, the rollback, and the write of VERSION, which is not atomic |
| `PowerLoss` | the machine goes down at any step, also inside `_clear_staging`, a removal of a directory, or the write of VERSION |

And in those about content:

| action | code |
| --- | --- |
| `FriendSweep`, `DeviceSweep`, `EndRound`, `FriendRound` | `maintain_wrap_grants`; the sweeps for own devices, own messages and received ones; `prune_superseded_wrap_grants` and `cache_message_keys` |
| `Sync`, `LearnKey` | `messages_not_in` routing a message and its grants, whose ingestion takes the negative cache's mark of their target away (`UnPoisoned`, `store.py` 398); a friend's enckey |
| `View` | `dm_thread` and the views of posts, which look a key up whatever the mark says |
| `Rotate`, `Befriend`, `Unfriends`, `Restart` | what changes in between; a start with app lock drops all marks at `unlock` (`Unlocked`) |
| `Respond`, `RespondToOneself`, `ProcessResponses`, `RemoveResponse` | `compose_response`, `process_responses` with `_rebuild_responses_record` (`Fold`), `remove_response` |
| `Receive`, `Sibling` | a response arrives; two devices of the author meet |
| `Compose`, `ComposeUnplaced`, `SetBlockPin`, `UnpinBlock`, `SetBlockSpan`, `Restyle`, `Delete` | `compose_post` with `_first_fit_place`, `set_block_pin` with `_push_place`, and the methods of those names |
| `SetAlbum`, `Ungroup`, `AutoPlace`, `Meet` | `set_album` (its two publications may be cut apart), `auto_place_unplaced`, the merge of two devices |
| `ComposeContent`, `DeleteContent`, `Part`, `ReceiveContent`, `ReceiveDeletion` | `put_blob` and a publication, `delete_post`, `purge_authored_by`, MESSAGES; each with `gc_blobs` |
| `Want`, `Give`, `Store`, `Break` | the two frames of BLOBS, either of which may not come |

What is abstracted: cryptography (a signature is who made it), content, clocks
(an expiry is a choice), the session's frames before REVOCATIONS, and the code
that tells which device a wrap names (an audience is a set of identities). In
`HearthStore` all identities know each other. In `Unfriend` a node's address is
its own name, the retry backoff of a notice is left to the scheduler, revoked
devices are refused elsewhere, and the BLOBS phase is in `Blobs`. In `KeyFiles`
the credential, the master key and DPAPI come down to which record opens under
which master; in `WrapGrants` keys are epochs, one message stands for all, and
the rank of a grant for (created_at, seq); in `Responses` a comment has no text;
in `Wall` order, grids, texts and textures are one set; in `CoreUpdate`
signatures are sound and a torn file is one value.

Definitions whose comment starts with "Mutant of" or "A plausible defect" are not
part of the model: each is a plausible bug, used to show that a property notices
it.

## Runs

| run | instance | what it shows |
| --- | --- | --- |
| `gossip_delete` | a1, a2 of A and b1 of B; post, its tag, and a foreign tag, a tag on the tag, or a grant | one message per number in spite of crashes; only the author deletes; tags survive; when gossip is quiet, deletion has converged |
| `gossip_live` | same devices; post, tag; a2 may be revoked; fair gossip | the store refines `ReplicaLifecycle`; deletions reach everybody, and outlive a revocation except where the tag's device was cut off; gossip settles; a revoked device logs out; nothing above a bound is kept |
| `records_and_expiry` | one author device, two readers | a responses record dies with its post, with crashes in between; grants of an expired post are refused; content goes to its audience only |
| `orphan_grant` | as gossip_delete | finding: a grant survives the post's deletion on arrival |
| `revoked_tag` | as gossip_live | finding: a deletion by a device that is revoked later depends on the order of arrival |
| `unfriend` | a1 of A and b1 of B; both may part once; a1 may invite once; one failure; fair scheduling | nothing of strangers is held at any frame; no notice is queued for a friend, except one whom a crash let in half way; only a notice marks somebody as gone; one ceremony makes one friendship; a pending notice is delivered in spite of a failure; friends exchange content, also after they met again |
| `unfriend_sibling` | a1, a2 of A and b1 of B; a1 parts from B | finding: a session with a2 puts B back into a1's list |
| `unfriend_twice` | a1 and b1; a1 parts from B twice | finding: the second call replaces the notice by one without an address, which is dropped |
| `device` | one device: two credentials, one message, a crash, two lock changes; a lock screen with one idle time; two phones and three codes; four releases, one of them web only, at most one bad, three mishaps | no crash loses a key or the paper seed, or leaves them in the open; the published key can be opened; the cache is right; the tick locks when it should and only then; choices survive, with migrations that fail; a phone is told what happened; a launch ends with a version that runs, two named states excepted; its web client is there |
| `posts` | two devices of one identity and a friend or responder: one message, three grants, two changes; three responses, two records, one removal; two photos, two albums, four edits; two friends and two posts that share bytes | grants settle on covering everybody and widen nothing, and a key that a grant brings is cached; records are right and moderated ones do not come back; no blocks overlap and each post is in one place; bytes follow their messages |
| `record_war` | d1, d2 of the author; a responder who knows the key of one | finding: the two devices replace each other's record for ever |
| `revoked_wipe` | one device, one crash | finding: a crash before the wipe leaves the store of a revoked device |

Bounds. `MaxSeq` bounds a device's numbers: 2 lets one device write twice or
reuse a number after a crash, 4 lets a single device write post, record and
both tags. `Scenarios` bounds which messages exist together: each set holds the
messages whose orders of arrival matter to each other. Three nodes suffice for
a relay and a race of two paths. `CHECK_DEADLOCK FALSE`: once every message of a
scenario is exchanged nothing is left to do.

For `Unfriend`: one parting per direction lets both be under way at once and a
re-friending come between; one invite is enough for that (that a newer invite
replaces an older one is in `CreateInvite`, but this run does not reach it).
`MaxSessions` is 1: two nodes rarely hold two sessions, and
what several sessions at once do to safety is covered by the theorems, which
hold for any bound. `MaxFailures` is 1: it can hit any frame, any commit of a
teardown or of a befriending, or any process. The instance has no siblings: with one,
`OnlyCeremonyBefriends` fails (see `unfriend_sibling`) and so does
`NoNoticeToFriend`, by the same step. `CHECK_DEADLOCK FALSE` as above.

What the liveness properties of `Unfriend` leave out, on purpose:
`NoticeDelivered` starts when no session of the sender is under way, because a
session that began before may be refused by a target that has not completed the
ceremony yet and so drop the notice (`node.py` 1824); `FriendsExchange` exempts
nodes that died inside a teardown, because the seen sets that survive it keep
old content away after a re-friending (`store.py` 1112), and two friends who both
died while they added the other, since neither may have an address (this takes two
failures; the run has one). These are in the list of hazards.

For `device`: one crash can hit any write of any handler, and a second one would
find the files of a first one repaired or still as they were, which is a state
the first one reaches too. `MaxTime` 3 with period and grace 1 lets a key be
published, retired and pruned. `MaxLocks` 2 lets the credential change after the
lock was enabled. `Slack` 2 with delays 1 and 4 has slow rounds and short
suspensions below it and long ones above; `Interval` 1. Three codes and two
phones: one ceremony abandoned, one decided, one begun. Four releases: an update
of an update, a web-only release, a bad one. Three mishaps: it takes a launcher that
dies, a power loss and an install that fails to leave both pointers at a bad release
(below). The settings start from a record of this release or an unmarked one.
`FailedWrite` is not part of this
run (see "What fails" below).

For `posts`: `MaxEpoch` 2 and `GraceEpochs` 0 make every rotation one that leaves
messages behind, so that a device gives a message up before the sibling's grant for
its new key arrives and un-poisons it. Three responses of one responder and the author cover a
reaction, a newer one and its retraction, clear or removal. The wall is four
cells wide, as in the code, and three rows deep, so that a push overflows;
four edits reach an album made on one device while the other moves its members.
The budget of a session holds two of the three blobs.

`CHECK_DEADLOCK FALSE` in both: with the bounds used up nothing is left to do.

Symmetry: devices that a run treats alike are permuted in safety runs only
(`MCPosts` fixes the holder of the message in the scenarios where it plays no
part, so that `d1` and `d2` are alike).

Fairness: `gossip_loop` dials every peer again and again, so a session that can
start does (weak fairness of `SwapRevocations` and `SendMessages`); a link tried
for ever eventually carries a frame (strong fairness of its ingestion, which a
broken connection disables for a while). Nobody is obliged to write, delete or
revoke. In `Unfriend` a session under way goes on (weak fairness of `Advance`:
its frames are awaited with deadlines), and every address and every pending
notice is dialled again and again (strong fairness of `Dial`: another session
may be in the way each time). Failures are bounded, which stands for "not every
attempt fails". The user, expiry and `GiveUp` owe nothing.

### What fails

Statements of the code's documentation that the runs show violated are the
findings (`orphan_grant`, `revoked_tag`, `unfriend_sibling`, `unfriend_twice`,
`record_war`, `revoked_wipe`). Further ones, found while modelling and without a
run of their own:

* `Unfriend!ExFriendsNotDialed` ("an ex-friend's IP is never dialed again",
  `store.py` 1061): somebody is unfriended while a session with them waits for the
  HAVE frame, which then puts their address back (`sync.py` 776), and gossip goes
  on dialling it. TLC refutes it in the instance of `unfriend_twice` in eleven
  steps.
* `Unfriend!RefriendingStands` ("must not leave a stale notice in flight",
  `node.py` 1986): a session that read the notice from the outbox before the
  re-friending delivers it after. TLC refutes it in the instance of `unfriend` in
  eight steps.
* `NoNoticeToFriend` without its exception (the same comment, `node.py` 1984):
  `_add_friend` adds the friend and drops the pending notice in two commits. TLC
  refutes it in the instance of `unfriend` in five steps: both part, one invites, the
  other responds, and the inviter dies between the two commits. The notice is on disk
  and names a friend; the next session with them delivers it, and they drop us again.
* `KeyFiles!ScrubIsSafe` ("it is always safe to scrub keys.json back down",
  `node.py` 293) holds under `Spec` and fails under `SpecWithFailures` with
  `MaxFailures` 1 (ten steps): the second write of `enable_applock` raises and
  leaves both files with secrets and the process without a lock; a rotation saves
  the new key to keys.json alone; the next start takes that file for residue and
  scrubs the key.
* A crash in `enter_revoked_state` between the removal of applock.json and the
  write of keys.json leaves neither secrets nor a lock: `Boot` raises for ever
  (the guard of `Boot`). A crash while enrolling, after keys.json is written and
  before the identity is in the store, leaves a node whose every publication is
  rejected; before the paper seed is written, one without a seed. `Crash` leaves
  enrolling out for that reason.
* `Pairing!ExpiredIsNotEnrolled`: the verdict may be filed while a handler that
  timed out is writing its reply, and the phone, told that its code expired, is
  enrolled. A phone whose connection is gone after the verdict is enrolled
  without a package.
* "A user who re-enables it afterwards keeps their choice" (`applock.py` 101) is not
  so when the migrated record did not reach the file (`node.py` 334): the
  settings route leaves the record unmarked (`node.py` 531), and the next start
  turns lock on sleep off again. `ChoiceKept` names that exception; a choice to
  turn it off, and any choice over a marked record, is kept.
* The launcher takes no lock (`coreupdate.py` 4 reads as if it did): two of them,
  or staging while one installs, may leave a version unpacked by halves. `Stages`
  and `Launch` exclude both. After a rollback the old core serves the newer web
  client.
* Two states from which no launch recovers are in the model, and `LaunchEndsRunning`
  names them. A crash or a full disk while `apply_web` writes VERSION (`update.py`
  246) leaves it empty: `seed_web_dir` cannot compare it, and every version dies at
  its start (`CannotSeed`). And `stranded`: version 1 runs, a launcher installs a bad
  2, makes it current and dies of an error before it starts anything; 1 runs on and
  stages a further update; the next launcher writes 2 as previous and is cut off, and
  the one after fails to install. Both pointers are at 2 then (31 steps, three
  mishaps).
* Not in the model: that the rename which restores the web client's backup fails too
  (`update.py` 243), so that the running version serves nothing until the next start.
* `Responses`: a removal is unknown to the other devices of the author, whose next
  record brings the response back; `ModeratedStaysGone` is about the device where
  it was removed.
* `Blobs`: bytes on their way when their message is deleted, or stored by a
  composition that was cut short, stay until the next collection.

## Proofs

Each section names the hypotheses of its theorems.
The assumptions on constants are in the modules, and TLC evaluates them in the runs.
Every inductive invariant was checked by TLC on the instance of a run before it was
proved.

### HearthStore

For every set of devices, identities and messages and every bound on numbers,
under `ConstantsAssumption`, `MaxSeqAssumption`, `GrantsAssumption` (what a grant
is for is a message of the model, and no grant) and `TagsAssumption` (`make_delete`
gives a tag no expiry) only, unless said otherwise:

* `SeenAddCorrect`, `MaxSeenCorrect`: the compacted set behaves as the set of
  numbers it stands for.
* `Invariance`: `Inv` is inductive. Its core is `GoodStore`, what holds of one
  node's store given who signed what: compacted summaries, rows and tombstones
  apart, everything held or buried is counted, nothing above a revocation
  bound, and every deletion has its author's tag. It is not inductive alone:
  that a number names one message after a crash needs `OwnNumbersSeen` (a live
  device has counted all numbers it ever used, so its own replay check rejects
  a reused one), and that needs to know that only signed messages travel
  (`WireSigned`) and that a wiped node holds nothing (`WipedIsEmpty`).
* From it: `TypeCorrect`, `NumbersAreUnique`, `HeldMessagesAreSeen`,
  `RevokedMessagesAreCutOff`, `DeletionsAreAuthorized`.
* `StoreImplementsLifecycle`: with `Monotone` (a step of a live node undoes
  nothing), the store implements `ReplicaLifecycle`.
* `CustodyInvariance`: beside `Inv`, who may hold what (`Proper`, of every store,
  and `FramesEntitled`, of what is on its way: a relay has to be entitled too) and
  why a message died. From it: `ContentStaysInAudience`,
  `GrantsExpireWithTheirTarget` and `TagsDieForTagsOnly`.
* `ConvergenceInvariance`: `Convergent` is inductive beside these two. What a node
  has counted it holds, or has buried for a reason that is still on file, or
  refuses for good (`Settled`); and nobody has counted a number of a live device
  that the device has not (`OriginKnows`). The reason for a deletion is the
  author's tag, held or dropped by a revocation; the reason for such a drop is a
  bound on the device that signed it. Revocations, by several devices of one owner
  with different bounds too, and expiry are included.
* From it: `DeletionsOutliveRevocation`. When gossip is quiet, a message that one
  node deleted and another shows had its tag from a device that one of the two has
  cut off. That exception is real: `revoked_tag` shows it. `DeletionsConverge`,
  without the exception, assumes that no device is revocable (`Revocable = {}`).
* `NoRecordIsOrphaned`: records do not expire, one device per person (so that there
  is nobody to revoke) and one record per post. A record inherits the expiry of its
  post (`node.py` 2882), so the theorem is about posts that stay. `RecordTagged`
  says that where a post's tag and its record are signed, the record's tag is too.
  With siblings the author's other device may rebuild the record meanwhile, which
  needs the fold of `Responses`.

Each action has its own lemma; `IngestFacts` carries most of the weight.

### Unfriend

For any devices, owners, explored partings and bounds, under
`FriendsAssumption` and `BoundsAssumption` only: several devices per person,
several sessions per device and any number of failures included.

* `Invariance`: `Inv` is inductive. `NoStrangersContent` alone nearly is, since
  every operator on stores keeps `Sound` (`Kept` in the lemmas), also half way
  through a teardown. `GoneMeansLeft` is not: that a mark has a cause rests on
  `NoticesMeant` (a notice in an outbox is from somebody who left) and on
  `CarriedMeant` (so is one that a session read from an outbox that has changed
  since).
* From it: `TypeCorrect`, `ResurrectionBlocked` and `PurgesAreMeant`.
* `CourtesyInvariance`, where each person has one device (`OneDeviceEach`): no
  pending notice names a friend, but for the pairs in `halfway`, a session leads to
  somebody else's device, and a used invite is over. A crash inside `_add_friend` puts
  the pair there (`HalfBefriends`), and only the ceremony takes it out (`Remembers`). The hypothesis is needed, since a sibling's HAVE frame hands
  friends over (`unfriend_sibling`). From it: `NoticesNameNoFriend` and
  `FriendsComeByInvite`.

Each action has its own lemma; `StoreStep` and `SessionStep` say what a step has
to show about the one store and the one session it changes.

### LockScreen (`DeviceProofs`)

For any interval, slack, delays, penalties and idle times, under `LockAssumption`
only. The tick sees one number, the gap since the last stamp. That a large gap
means a suspension rests on `StampIsRight`: while the loop sleeps, the clock is
ahead of the stamp by the suspension alone, because the stamp comes after the
round (`StampLost`, where it does not, is the misfire of 0.3.11). `ChoiceKept`
needs `MarksStay`: a record that was marked when the user chose stays marked, so that
no later start migrates it. Over an unmarked record, whose migration did not reach the
file, a later start may, and only turns lock on sleep off.

* `LockInvariance`: `LockInv`, the type and these, is inductive.
* From it: `ChoicesAreKept`, and the action property `TickLocksRightly`.

### Pairing (`DeviceProofs`)

For any phones, codes and budget of attempts, under `PairAssumption` only.
`PairingIsHonest` is not inductive: that an answer stays true needs to know that
no later verdict is about the same request. `Ceremony` says that the parked
request is enrolled exactly if its verdict says so, and that its phone was told
nothing before; `CodesAreFresh` that the code on the screen was not used.

* `PairInvariance`: `PairInv`, the type with these three, is inductive.
* From it: `PairTypeCorrect` and `PhonesAreToldTheTruth`.

### CoreUpdate

For any releases, any of them web only, and any number of mishaps, under
`UpdateAssumption`, from an installation that works. (`UpdateInit` has at most one
release that dies at its start; the proof uses only that the first one does not.)
`LaunchEndsRunning` is far from inductive: which version saves the
day depends on where the update is. `StagedIsSafe` says that, while one is staged,
the current version starts, or, when a launch that was cut short has made the staged
one current, the previous one does. `CurrentIsSafe` says what lets a running version
stage the update on offer (`RunningRests`). These hold until the installation is
`stranded` (`NotStranded`). What holds in any case: the previous version is no later
than the current one (`Pointed`), what is staged is newer than what runs and no older
than what is current (`StagedIsNewer`), so that the files of the running version are
never cleared (`RunningIsWhole`); `LauncherKnows` what each step of the launcher rests
on; `SwapIsSafe` that both the client that left and the one that comes are new enough.

* `UpdateInvariance`: `UpdateInv`, the type and these, is inductive.
* From it: `LaunchesEndRunning` and `WebClientIsServed`.

### KeyFiles

For any messages and credentials and any bounds, period and grace, under
`KeyBounds` and `AbsentAssumption` (a missing file is no file), over `Spec`: a crash
may come between any two writes, and writes do not fail. (With failing writes
`ScrubIsSafe` is false, see above.) A handler is a list of disks it will leave
behind, so an invariant on the present disk is not inductive: it has to say of
every disk still in `todo` what it is good for.

* `KeysInvariance`: `KeysInv` is inductive. `Safe` is what every disk along the
  way has to satisfy, to die on; `Fits` relates the node object at the end of a
  handler to the disk at its end; and no single write hides the paper seed.
* From it: `KeyTypesCorrect`, `SeedIsKept`, `KeysAreSealedAtRest`,
  `KeysAreRecoverable`, `PublishedKeyIsHeld` and `KeyCacheIsRight`.

Over `SpecWithFailures` (`FailedWriteProofs`) any write of a serving node may raise an
OSError too, so that the process carries on with files and a node object that no
longer fit each other. Nothing that compares keys survives that. What cannot be
made again does: the paper seed, and the keys that speak for the device and the
person.

* `FailuresInvariance`: `FailInv` is inductive. Every disk along a handler
  `Endures`: its sealed record opens and holds the seed if one lies in the open, so
  that scrubbing loses nothing, and what a restart reads speaks. Wherever a write
  may fail, the node object `Knows` the disk it finds, as far as the seed is
  concerned. The hard case is `enable_applock` failing between the record and
  keys.json: the record is there and the node object does not know of it, and
  `Linked` says that the seed is in the open then. A write that fails
  once the revocation is on file is left out by the guard of `FailedWrite`, so
  these theorems do not speak of one; what a crash there leaves is told under
  "What fails".
* From it: `FailuresKeepTypes`, `SeedSurvivesFailures` (the property `SeedKept`) and
  `SigningKeysSurvive`.

### WrapGrants

For any devices, friends, keys and bounds, under `GrantAssumption` only. That
siblings do not strip each other is a matter of what each phase of a round finds:
`Achieved` says what holds after each of them when nothing was disturbed, and
`Ranked`, that the latest grant is one grant, is what makes the prune safe. Its
precondition is that the device can open the message, by its cache or by its keys,
whatever it gave up on before. The negative cache has an invariant of its own,
`KeySettled`: what carries the mark cannot be opened, and after a round what can be
opened is cached.

* `GrantInvariance`: `GrantInv`, the type with these and `FriendsNamedForWall`
  (only wall posts are granted to friends), is inductive. From it: the action property
  `GrantsDoNotWiden`.
* `NoKeyGivenUp`: `SettledInv`, which adds `KeySettled`, is inductive. `OpensPruned`
  and `Opens` agree after the prune (`OpensWhatIsLeft`), and only a grant brings a lost
  key back (`NotOpened`), which takes the mark away. From it: `SweepsDoNotStrip`.

### Blobs

For any messages, sizes and budget, under `BlobAssumption` only (a single blob fits
the budget). `BytesFollow` is not inductive: that the author has all bytes needs to
know that nobody hands a deleted message back to it without them (`OwnKept`). The
rest is that a budget starves nobody: of what is wanted something is given, since
some blob is the first in the order.

* `BlobInvariance`: `BlobInv` is inductive. From it: `BytesReachTheHolders`.

### Wall

For any finite sets of posts and albums, any sizes and bounds, under `WallAssumption`
only: four columns at least, which a text needs, and a greatest height, which
`MAX_BLOCK_H` is.

Each of the three ways of placing several blocks (`PushPlace`, `Restored`,
`AutoPlaced`) is a recursion over the sets of blocks: those of a set are placed by
placing the last of them after the others. `SubsetFold` shows that such a function
exists and `SubsetInduction` what it yields, both by induction on the size of the
sets; a generic proof needs the sets to be finite and each to have a last block.

* `WallInvariance`: `WallTypeOK /\ NoOverlap` is inductive. `Canvas` is what holds
  along the way: blocks within the columns that lie apart, or a wall that is full and
  is never published. `RestedFacts`: the bump loop finds a row where nothing lies;
  `FirstFitFacts`: there is a first gap, if there is one. The proof found that the
  size of a deleted photo that is put back was missing from `AllSizes`, in states
  that no run reached.
* From it: `BlocksLieApart`. `WallStaysWhole` rests on the type alone: albums fold
  photos only and their ids are ordered, so each post is shown once, and the
  migration's idea of unplaced is the renderer's.

### Responses

For any devices, responders and bounds, under `ResponseAssumption` only. The fold is
a recursion over the moments; `FoldIsGrounded` and `FoldStands` are proved by
induction on it, from the fact that a set of naturals has a least element.

* `ResponseInvariance`: `ResponseInv` is inductive. A record that the device
  published last is `Spared` of what was moderated there, and is the fold of what
  the device holds until something new comes; no two responses are of one moment,
  and what was moderated away as a reaction was one (`Rooted`).
* From it: `ModeratedIsGone` and `RecordsAreRight`.

### The compositions

What the runs `device` and `posts` check is `MCDevice!DeviceSpec` and
`MCPosts!PostsSpec`, and these are what the last theorems are about, so that what
was checked on an instance and what is proved for all are the same formula of the
same specification.

* `DeviceRunsItsParts`, `PostsRunTheirParts`: a behaviour of the composition is one of
  each part, since a step of one leaves the variables of the others alone. The
  grants are the exception: outside of their scenario they start from `NoGrants`,
  which `GrantInit` leaves out. `GrantsOfPosts` has their invariant and their steps
  instead, `NoGrantsSettled` where they start.
* From these and from the theorems above: `DeviceTypes`, `DeviceIsSafe`, `PostsTypes`
  and `PostsAreSafe`, with every property of the two runs between them, under the
  assumptions of all parts.

### Model-checked only

* The liveness properties: `NoticeDelivered` and `FriendsExchange` of `Unfriend`,
  and those of `HearthStore`. Liveness under fairness is out of the prover's reach.
* No run of the project explores `SpecWithFailures`; what of it holds is proved
  instead. (`FailInv` was checked by TLC before its proof, on the instance of
  `MCKeyFiles.cfg` with `MaxFailures` 1, `MaxTime` 2 and `MaxCrashes` 1.) What does
  not hold there, `ScrubIsSafe`, is described under "What fails".

## Not modelled

* Payload validation (`messages.py`), invite codes (`invitecodec.py`): functions
  of one text or payload, no state. The models take only valid payloads.
* Transports, SOCKS and the Tor process (`tor.py`, `transport.py`, `socks.py`):
  I/O, a connection that delivers or breaks.
* Media gates (`imagegate.py`, `videogate.py`): decoding and encoding.
* The web client (`web/`): presentation of the API.
* The Android port (Kotlin): the same protocol written a second time. It would be
  a candidate for a refinement of these modules; what differs (its back-off, its
  own store) is not here.
* The spikes (`hearth_d2_spike`, `android_tor_spike/tools`): prototypes and test
  harnesses.
* Of the modelled parts: rings, search, DM threads as views, the onion key, the
  paper phrase, signatures and certificates as data, the deletion of a post that a sibling is folding responses of, and the
  interplay of parts that live in different modules (each module takes what the
  others provide as a choice: `WrapGrants` has friends come and go, `Blobs` has
  people part).

## Plan

Done: `HearthStore` with `SeenSet`, `Unfriend`, `KeyFiles`, `LockScreen`,
`Pairing`, `CoreUpdate`, `WrapGrants`, `Responses`, `Wall`, `Blobs`, and for each of
them its safety properties as theorems. What is left, in this
order:

1. `NoRecordIsOrphaned` with siblings, which needs the fold of `Responses` in
   `HearthStore`.
2. Two devices of the target of a notice (`node.py` 1817), and the deletion of a
   post that a sibling is folding responses of (`node.py` 1433).
3. A run with several revokers of one device (`identity.py` 590): the theorems hold
   for them, and the runs have one. That the nodes come to agree on a bound is not
   promised: where two revoke with different bounds, `SwapRevocations` exchanges the
   bounds and leaves them different.

Modules that hold theorems use no RECURSIVE operator, declare their parameters
as CONSTANTS with a named assumption, and keep their proofs in a module of their
own.
