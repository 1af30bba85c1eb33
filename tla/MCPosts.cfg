CONSTANTS
  d1 = d1
  d2 = d2
  f1 = f1
  r1 = r1
  me = me
  p1 = p1
  p2 = p2
  n1 = n1
  n2 = n2
  c1 = c1
  c2 = c2
  Own = {d1, d2}
  Friend = {f1}
  GraceEpochs = 0
  MaxEpoch = 2
  MaxMints = 3
  MaxChanges = 2
  Author = {d1, d2}
  Responder = {r1}
  Myself = me
  MaxResponses = 3
  MaxRecords = 2
  MaxRemovals = 1
  Desktop = {d1, d2}
  Post = {p1, p2}
  Photo = {p1, p2}
  Album = {1, 2}
  Cols = 4
  MaxHeight = 2
  MaxRow = 2
  Sizes <- MCSizes
  MaxEdits = 4
  Node = {n1, n2}
  Content = {c1, c2}
  Bytes = {1, 2, 3}
  Refs <- MCRefs
  Size <- MCSize
  GiveBudget = 3
SYMMETRY Devices
SPECIFICATION PostsSpec
INVARIANTS
  PostsTypeOK
  SettledIsCovered
  ModeratedStaysGone
  RecordIsRight
  NoOverlap
  WallIsWhole
  BytesFollow
PROPERTIES
  AudienceNotWidened
CHECK_DEADLOCK FALSE
