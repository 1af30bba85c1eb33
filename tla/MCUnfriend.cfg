CONSTANTS
  a1 = a1
  a2 = a2
  b1 = b1
  c1 = c1
  A = A
  B = B
  C = C
  NoAddress = NoAddress
  OwnerOf <- MCOwnerOf
  Node = {a1, b1}
  Identity = {A, B}
  MayUnfriend <- EitherParts
  MayInvite = {a1}
  MaxUnfriends = 1
  MaxInvites = 1
  MaxSessions = 1
  MaxFailures = 1
SPECIFICATION FairSpec
INVARIANTS
  TypeOK
  NoStrangersContent
  NoNoticeToFriend
  GoneMeansLeft
PROPERTIES
  OnlyCeremonyBefriends
  NoticeDelivered
  FriendsExchange
CHECK_DEADLOCK FALSE
