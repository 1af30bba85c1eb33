CONSTANTS
  a1 = a1
  a2 = a2
  b1 = b1
  b2 = b2
  A = A
  B = B
  post = post
  postTag = postTag
  foreignTag = foreignTag
  tagTag = tagTag
  grant = grant
  record = record
  recordTag = recordTag
  story = story
  storyGrant = storyGrant
  NoId = NoId
  Identity = {A, B}
  KindOf <- MCKindOf
  AuthorOf <- MCAuthorOf
  TargetOf <- MCTargetOf
  Audience <- MCAudience
  MaxSeq = 2
  Node = {a1, a2, b1}
  OwnerOf <- TwoAuthorDevices
  Id = {post, postTag}
  Scenarios <- RevokeScenarios
  Expiring = {}
  Revocable = {a2}
SPECIFICATION Spec
INVARIANTS
  DeletesConverge
CHECK_DEADLOCK FALSE
