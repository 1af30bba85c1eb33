CONSTANTS
  m1 = m1
  pin = pin
  phrase = phrase
  Absent = Absent
  Msg = {m1}
  Credential = {pin, phrase}
  RotationPeriod = 1
  Grace = 1
  HasDpapi = TRUE
  MaxTime = 3
  MaxKeys = 4
  MaxCrashes = 1
  MaxFailures = 0
  MaxLocks = 2
SPECIFICATION Spec
INVARIANTS
  RevokedIsWiped
CHECK_DEADLOCK FALSE
