CONSTANTS
  a1 = a1
  a2 = a2
  b1 = b1
  c1 = c1
  A = A
  B = B
  C = C
  NoAddress = NoAddress
  OwnerOf <- MCOwnerOf
  Node = {a1, a2, b1}
  Identity = {A, B}
  MayUnfriend <- OneParts
  MayInvite = {}
  MaxUnfriends = 1
  MaxInvites = 0
  MaxSessions = 1
  MaxFailures = 0
SPECIFICATION Spec
PROPERTIES
  OnlyCeremonyBefriends
CHECK_DEADLOCK FALSE
