CONSTANTS
  m1 = m1
  pin = pin
  phrase = phrase
  phone1 = phone1
  phone2 = phone2
  Absent = Absent
  Msg = {m1}
  Credential = {pin, phrase}
  RotationPeriod = 1
  Grace = 1
  HasDpapi = TRUE
  MaxTime = 3
  MaxKeys = 4
  MaxCrashes = 1
  MaxFailures = 0
  MaxLocks = 2
  Interval = 1
  Slack = 2
  IdleAfter = {3}
  Delays = {1, 4}
  Penalty <- MCPenalty
  MaxFails = 3
  MaxClock = 12
  Phone = {phone1, phone2}
  MaxCodes = 3
  Budget = 2
  LastRelease = 4
  WebOnly = {3}
  MaxMishaps = 3
SPECIFICATION DeviceSpec
INVARIANTS
  DeviceTypeOK
  KeysRecoverable
  SeedKept
  SealedAtRest
  PublishedKeyHeld
  CacheIsRight
  ChoiceKept
  PairingIsHonest
  LaunchEndsRunning
  WebIsServed
PROPERTIES
  AutoLockIsRight
CHECK_DEADLOCK FALSE
