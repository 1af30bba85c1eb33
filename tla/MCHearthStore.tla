--------------------------- MODULE MCHearthStore ---------------------------
(***************************************************************************)
(* Small instances of HearthStore.  Identity A has the devices a1 and a2,  *)
(* identity B has b1 (or A has a1 alone and B has b1 and b2).              *)
(***************************************************************************)
EXTENDS HearthStore, TLC

CONSTANTS a1, a2, b1, b2, A, B,
  post,         \* content by A for B
  postTag,      \* A's tag on post
  foreignTag,   \* B's tag on post, which is not B's to delete
  tagTag,       \* A's tag on postTag
  grant,        \* A's grant of post to B
  record,       \* A's responses record about post
  recordTag,    \* A's tag on record
  story,        \* A's content that expires, wrapped for A's own devices only
  storyGrant    \* A's grant of story to B

Payload(kind, author, target, audience) ==
  [kind |-> kind, author |-> author, target |-> target, audience |-> audience]

Messages ==
  (post       :> Payload("content", A, NoId,    {B})) @@
  (postTag    :> Payload("delete",  A, post,    {}))  @@
  (foreignTag :> Payload("delete",  B, post,    {}))  @@
  (tagTag     :> Payload("delete",  A, postTag, {}))  @@
  (grant      :> Payload("grant",   A, post,    {B})) @@
  (record     :> Payload("record",  A, post,    {B})) @@
  (recordTag  :> Payload("delete",  A, record,  {}))  @@
  (story      :> Payload("content", A, NoId,    {}))  @@
  (storyGrant :> Payload("grant",   A, story,   {B}))

TwoAuthorDevices == [n \in Node |-> IF n = b1 THEN B ELSE A]
OneAuthorDevice == [n \in Node |-> IF n = a1 THEN A ELSE B]
MCKindOf == [x \in Id |-> Messages[x].kind]
MCAuthorOf == [x \in Id |-> Messages[x].author]
MCTargetOf == [x \in Id |-> Messages[x].target]
MCAudience == [x \in Id |-> Messages[x].audience]

DeleteScenarios == {{post, postTag, foreignTag}, {post, postTag, grant}, {post, postTag, tagTag}}
GrantScenarios == {{post, postTag, grant}}
RecordScenarios == {{post, record, postTag, recordTag}, {story, storyGrant}}
RevokeScenarios == {{post, postTag}}

Siblings == Permutations({a1, a2})
Readers == Permutations({b1, b2})
=============================================================================
