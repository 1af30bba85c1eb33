CONSTANTS
  a1 = a1
  a2 = a2
  b1 = b1
  b2 = b2
  A = A
  B = B
  post = post
  postTag = postTag
  foreignTag = foreignTag
  tagTag = tagTag
  grant = grant
  record = record
  recordTag = recordTag
  story = story
  storyGrant = storyGrant
  NoId = NoId
  Identity = {A, B}
  KindOf <- MCKindOf
  AuthorOf <- MCAuthorOf
  TargetOf <- MCTargetOf
  Audience <- MCAudience
  MaxSeq = 4
  Node = {a1, b1, b2}
  OwnerOf <- OneAuthorDevice
  Id = {post, postTag, record, recordTag, story, storyGrant}
  Scenarios <- RecordScenarios
  Expiring = {story}
  Revocable = {}
SYMMETRY Readers
SPECIFICATION Spec
INVARIANTS
  AudienceOnly
  NoGrantOfExpired
  NoOrphanRecord
CHECK_DEADLOCK FALSE
