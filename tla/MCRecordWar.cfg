CONSTANTS
  d1 = d1
  d2 = d2
  r1 = r1
  me = me
  Author = {d1, d2}
  Responder = {r1}
  Myself = me
  MaxResponses = 2
  MaxRecords = 3
  MaxRemovals = 0
SPECIFICATION ResponseSpec
PROPERTIES
  NoRemint
CHECK_DEADLOCK FALSE
