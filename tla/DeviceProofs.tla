---------------------------- MODULE DeviceProofs ----------------------------
(***************************************************************************)
(* Theorems about what one device does on its own: its lock screen, the    *)
(* adding of another device, and the four parts side by side (MCDevice).   *)
(* The key files and the update of the program have modules of their own.  *)
(***************************************************************************)
EXTENDS MCDevice, KeyFilesProofs, CoreUpdateProofs

----------------------------------------------------------------------------
(***************************************************************************)
(* LockScreen, for any intervals, delays and penalties: the tick locks     *)
(* when it should and only then, and choices are kept.                     *)
(*                                                                         *)
(* The tick sees one number, the gap since the last stamp.  That the gap   *)
(* means a suspension rests on the stamp coming after the round: while the *)
(* loop sleeps, the clock is ahead of it by the suspension alone.          *)
(***************************************************************************)
StampIsRight == loop = "sleep" => clock = lastTick + suspended

\* A record that was marked when the user chose stays marked.
MarksStay == (chosen.what # "unset" /\ chosen.v = 2) => settings.v = 2

SettingsAreMarked == MarksStay /\ ChoiceKept

LockInv == LockTypeOK /\ StampIsRight /\ SettingsAreMarked

USE LockAssumption DEF Clock, Settings, Choice, NoFails
----------------------------------------------------------------------------
LEMMA MigratedIsMarked ==
  ASSUME NEW s \in Settings
  PROVE  /\ Migrated(s) \in Settings /\ Migrated(s).v = 2
         /\ s.v = 2 => Migrated(s) = s
         /\ s.v = 1 => Migrated(s).onSleep = FALSE
  <1>1. CASE s.v = 2
    BY <1>1 DEF Migrated
  <1>2. CASE s.v = 1
    <2>1. Migrated(s) = [s EXCEPT !.onSleep = FALSE, !.v = 2]
      BY <1>2 DEF Migrated
    <2>2. /\ s = [idle |-> s.idle, onSleep |-> s.onSleep, v |-> s.v]
          /\ s.idle \in IdleAfter \union {0}
      OBVIOUS
    <2>3. Migrated(s) = [idle |-> s.idle, onSleep |-> FALSE, v |-> 2]
      BY <2>1, <2>2
    <2> QED  BY <1>2, <2>2, <2>3
  <1> QED  BY <1>1, <1>2

LEMMA LockInitially == LockInit => LockInv
  <1> SUFFICES ASSUME LockInit PROVE LockInv
    OBVIOUS
  <1>1. settings \in Settings
    <2>1. PICK s \in {[idle |-> 0, onSleep |-> FALSE, v |-> 2],
                      [idle |-> 0, onSleep |-> TRUE, v |-> 1]} : settings \in Booted(s)
      BY DEF LockInit
    <2>2. /\ [idle |-> 0, onSleep |-> FALSE, v |-> 2] \in Settings
          /\ [idle |-> 0, onSleep |-> TRUE, v |-> 1] \in Settings
      OBVIOUS
    <2>3. s \in Settings
      BY <2>1, <2>2, Zenon
    <2> QED  BY <2>1, <2>3, MigratedIsMarked DEF Booted
  <1>2. LockTypeOK
    BY <1>1 DEF LockInit, LockTypeOK
  <1> QED  BY <1>1, <1>2 DEF LockInit, LockInv, StampIsRight, SettingsAreMarked, MarksStay,
                             ChoiceKept

LEMMA LoopKeeps ==
  ASSUME LockInv,
         StampTick \/ (\E d \in Delays : RoundTakes(d) \/ Suspend(d))
           \/ (\E late \in 0..(Slack - 1) : MaybeAutolock(late))
  PROVE  LockInv'
  <1> USE DEF LockInv, LockTypeOK, StampIsRight, SettingsAreMarked, MarksStay, ChoiceKept
  <1>1. CASE StampTick
    BY <1>1 DEF StampTick
  <1>2. CASE \E d \in Delays : RoundTakes(d)
    BY <1>2 DEF RoundTakes, TimePasses
  <1>3. CASE \E d \in Delays : Suspend(d)
    BY <1>3 DEF Suspend, TimePasses
  <1>4. CASE \E late \in 0..(Slack - 1) : MaybeAutolock(late)
    <2>1. PICK late \in 0..(Slack - 1) : MaybeAutolock(late)
      BY <1>4
    <2>2. locked' \in BOOLEAN
      BY <2>1, Zenon DEF MaybeAutolock
    <2>3. clock' \in Clock /\ lastTick' \in Clock
      BY <2>1 DEF MaybeAutolock
    <2>4. /\ loop' = "round"
          /\ UNCHANGED <<lastActivity, suspended, settings, chosen, throttle>>
      BY <2>1 DEF MaybeAutolock
    <2>5. LockTypeOK'
      BY <2>2, <2>3, <2>4
    <2>6. StampIsRight' /\ ChoiceKept' /\ MarksStay'
      BY <2>4
    <2> QED  BY <2>5, <2>6, Zenon
  <1> QED  BY <1>1, <1>2, <1>3, <1>4

LEMMA UserKeeps ==
  ASSUME LockInv, Touch \/ UnlockRight \/ UnlockWrong \/ LockNow
  PROVE  LockInv'
  <1> USE DEF LockInv, LockTypeOK, StampIsRight, SettingsAreMarked, MarksStay, ChoiceKept
  <1>1. CASE Touch
    BY <1>1 DEF Touch
  <1>2. CASE UnlockRight
    <2>1. locked' \in BOOLEAN
      BY <1>2, Zenon DEF UnlockRight
    <2>2. /\ lastActivity' = clock /\ throttle' = NoFails
          /\ UNCHANGED <<clock, lastTick, loop, suspended, settings, chosen>>
      BY <1>2 DEF UnlockRight
    <2>3. throttle' \in [fails : 0..MaxFails, next : Nat]
      BY <2>2
    <2> QED  BY <2>1, <2>2, <2>3
  <1>3. CASE UnlockWrong
    <2>1. throttle' \in [fails : 0..MaxFails, next : Nat]
      BY <1>3 DEF UnlockWrong
    <2> QED  BY <1>3, <2>1 DEF UnlockWrong
  <1>4. CASE LockNow
    BY <1>4 DEF LockNow
  <1> QED  BY <1>1, <1>2, <1>3, <1>4

\* The choice is filed with the mark it finds.
LEMMA ChangeKeeps ==
  ASSUME LockInv, NEW idle \in IdleAfter \union {0}, NEW onSleep \in BOOLEAN,
         ChangeSettings(idle, onSleep)
  PROVE  LockInv'
  <1> USE DEF LockInv, LockTypeOK, ChangeSettings
  <1>1. settings' \in Settings /\ settings'.v = settings.v /\ settings'.onSleep = onSleep
    OBVIOUS
  <1>2. /\ chosen' \in Choice /\ chosen'.v = settings.v
        /\ chosen'.what = (IF onSleep THEN "on" ELSE "off")
    OBVIOUS
  <1>3. LockTypeOK' /\ StampIsRight'
    BY <1>1, <1>2 DEF StampIsRight
  <1>4. MarksStay'
    BY <1>1, <1>2 DEF MarksStay
  <1>5. ChoiceKept'
    BY <1>1, <1>2 DEF ChoiceKept
  <1> QED  BY <1>3, <1>4, <1>5 DEF SettingsAreMarked

LEMMA CredentialKeeps == LockInv /\ RefileRecord => LockInv'
  <1> SUFFICES ASSUME LockInv, RefileRecord PROVE LockInv'
    OBVIOUS
  <1>1. /\ settings' \in Settings /\ settings'.v = 2
        /\ settings'.onSleep = settings.onSleep /\ settings.v = 1
    BY DEF LockInv, LockTypeOK, RefileRecord
  <1>2. LockTypeOK' /\ StampIsRight'
    BY <1>1 DEF LockInv, LockTypeOK, StampIsRight, RefileRecord
  <1> QED  BY <1>1, <1>2 DEF LockInv, SettingsAreMarked, MarksStay, ChoiceKept,
                             RefileRecord

\* A boot that migrates the record undoes only what was turned on without the mark.
LEMMA RestartKeeps == LockInv /\ RestartLocked => LockInv'
  <1> SUFFICES ASSUME LockInv, RestartLocked PROVE LockInv'
    OBVIOUS
  <1>1. settings \in Settings /\ chosen \in Choice /\ chosen' = chosen
    BY DEF LockInv, LockTypeOK, RestartLocked
  <1>2. \/ settings' = settings
        \/ /\ settings.v = 1 /\ settings' \in Settings
           /\ settings'.v = 2 /\ settings'.onSleep = FALSE
    <2>1. settings' \in {settings, Migrated(settings)}
      BY DEF RestartLocked, Booted
    <2>2. settings.v \in {1, 2}
      BY <1>1
    <2>3. settings.v = 2 => Migrated(settings) = settings
      BY <1>1, MigratedIsMarked
    <2>4. settings.v = 1 => /\ Migrated(settings) \in Settings /\ Migrated(settings).v = 2
                            /\ Migrated(settings).onSleep = FALSE
      BY <1>1, MigratedIsMarked
    <2> HIDE DEF Settings
    <2> QED  BY <2>1, <2>2, <2>3, <2>4
  <1>3. LockTypeOK' /\ StampIsRight'
    BY <1>1, <1>2 DEF LockInv, LockTypeOK, StampIsRight, RestartLocked
  <1>4. MarksStay'
    BY <1>1, <1>2 DEF LockInv, SettingsAreMarked, MarksStay
  <1>5. ChoiceKept'
    BY <1>1, <1>2 DEF LockInv, SettingsAreMarked, MarksStay, ChoiceKept
  <1> QED  BY <1>3, <1>4, <1>5 DEF LockInv, SettingsAreMarked

LEMMA LockStutters == LockInv /\ UNCHANGED lockVars => LockInv'
  BY DEF LockInv, LockTypeOK, StampIsRight, SettingsAreMarked, MarksStay, ChoiceKept,
         lockVars
----------------------------------------------------------------------------
\* The inductive invariant of the lock screen.
THEOREM LockInvariance == LockSpec => []LockInv
  <1>1. LockInv /\ [LockNext]_lockVars => LockInv'
    <2> SUFFICES ASSUME LockInv, [LockNext]_lockVars PROVE LockInv'
      OBVIOUS
    <2> QED  BY LoopKeeps, UserKeeps, ChangeKeeps, CredentialKeeps, RestartKeeps, LockStutters
             DEF LockNext
  <1> QED  BY <1>1, LockInitially, PTL DEF LockSpec

\* A choice of lock on sleep outlives every restart, also of a process whose migration
\* did not reach the file (applock.migrate_settings, the boot of node.py); only turning
\* it on over an unmarked record is undone, by the migration when it lands.
THEOREM ChoicesAreKept == LockSpec => []ChoiceKept
  <1> LockInv => ChoiceKept
    BY DEF LockInv, SettingsAreMarked
  <1> QED  BY LockInvariance, PTL

\* The tick locks for a suspension or an idle user and for nothing else, and misses no
\* suspension longer than the slack (HearthNode.maybe_autolock, stamp_autolock_tick).
THEOREM TickLocksRightly == LockSpec => AutoLockIsRight
  <1>1. LockInv /\ [LockNext]_lockVars => [TickIsRight]_lockVars
    <2> SUFFICES ASSUME LockInv, LockNext,
                        loop = "sleep", loop' = "round", ~locked, clock' > clock
                 PROVE  /\ locked' => \/ settings.onSleep /\ suspended > 0
                                      \/ settings.idle > 0
                                           /\ clock' - lastActivity > settings.idle
                        /\ (settings.onSleep /\ suspended > Slack) => locked'
      BY DEF TickIsRight
    <2>1. PICK late \in 0..(Slack - 1) : MaybeAutolock(late)
      BY DEF LockNext, LockInv, LockTypeOK, StampTick, Touch, UnlockRight, UnlockWrong,
             LockNow, RestartLocked, RoundTakes, Suspend, ChangeSettings, RefileRecord,
             TimePasses
    <2>2. clock = lastTick + suspended /\ clock' = clock + Interval + late
      BY <2>1 DEF LockInv, StampIsRight, MaybeAutolock
    <2>3. locked' <=> SleepLocks(clock' - lastTick) \/ IdleLocks(clock')
      BY <2>1, Zenon DEF MaybeAutolock
    <2>4. clock' - lastTick > Interval + Slack <=> suspended + late > Slack
      BY <2>2 DEF LockInv, LockTypeOK
    <2>5. suspended + late > Slack => suspended > 0
      BY DEF LockInv, LockTypeOK
    <2>6. suspended > Slack => suspended + late > Slack
      BY DEF LockInv, LockTypeOK
    <2> QED  BY <2>3, <2>4, <2>5, <2>6 DEF SleepLocks, IdleLocks
  <1> QED  BY <1>1, LockInvariance, PTL DEF LockSpec, AutoLockIsRight

----------------------------------------------------------------------------
(***************************************************************************)
(* Pairing, for any phones, codes and budget: the ceremony is what each    *)
(* phone was told.                                                         *)
(*                                                                         *)
(* That an answer stays true needs to know that no later verdict is about  *)
(* the same request: requests are known by the code they redeemed, codes   *)
(* are redeemed once, and a ceremony decided is not decided again.         *)
(***************************************************************************)
\* The parked request is of a handler at work; its device is enrolled exactly if the
\* verdict says so; and until there is a verdict its phone was told nothing of one.
Ceremony ==
  parked # NoRequest =>
    /\ parked.phone \in Phone /\ handler[parked.phone] # "idle"
    /\ redeemed[parked.phone] # 0
    /\ parked.verdict = "accept" <=> redeemed[parked.phone] \in enrolled
    /\ parked.verdict = "none" => answer[parked.phone] \in {"none", "expired"}

\* Codes are handed out in order, and the one on the screen was not used yet.
CodesAreFresh ==
  /\ active.code <= codes /\ 0 \notin enrolled
  /\ \A c \in enrolled : c <= codes
  /\ \A p \in Phone : redeemed[p] <= codes
  /\ active.code # 0 =>
       active.code \notin enrolled /\ \A p \in Phone : redeemed[p] # active.code

PairInv == PairTypeOK /\ PairingIsHonest /\ Ceremony /\ CodesAreFresh

HIDE LockAssumption DEF Clock, Settings, Choice, NoFails
USE DEF PairCode, CodeState, HandlerState, Answer, Verdict, Request, NoCode, NoRequest
----------------------------------------------------------------------------
LEMMA PairInitially == PairInit => PairInv
  <1> SUFFICES ASSUME PairInit PROVE PairInv
    OBVIOUS
  <1>1. PairTypeOK
    BY PairAssumption DEF PairInit, PairTypeOK
  <1>2. PairingIsHonest
    BY PairAssumption DEF PairInit, PairingIsHonest, OneCeremony, CodesOnce
  <1>3. Ceremony /\ CodesAreFresh
    BY PairAssumption DEF PairInit, Ceremony, CodesAreFresh
  <1> QED  BY <1>1, <1>2, <1>3 DEF PairInv

\* A new code: the ceremony that nobody decided is denied.
LEMMA BeginKeeps == PairInv /\ PairBegin => PairInv'
  <1> SUFFICES ASSUME PairInv, PairBegin PROVE PairInv'
    OBVIOUS
  <1> USE PairAssumption DEF PairInv, PairTypeOK, PairBegin, ReleaseStale, Undecided
  <1>1. PairTypeOK'
    OBVIOUS
  <1>2. PairingIsHonest'
    BY DEF PairingIsHonest, OneCeremony, CodesOnce
  <1>3. Ceremony'
    BY DEF Ceremony
  <1>4. CodesAreFresh'
    BY DEF CodesAreFresh
  <1> QED  BY <1>1, <1>2, <1>3, <1>4

LEMMA ClocksKeep == PairInv /\ (CodeExpires \/ MinutePasses) => PairInv'
  <1> SUFFICES ASSUME PairInv, CodeExpires \/ MinutePasses PROVE PairInv'
    OBVIOUS
  <1> USE PairAssumption DEF PairInv, PairTypeOK, CodeExpires, MinutePasses
  <1>0. active' \in CodeState
    <2>1. CASE CodeExpires
      BY <2>1
    <2>2. CASE MinutePasses
      BY <2>2
    <2> QED  BY <2>1, <2>2
  <1>1. PairTypeOK'
    BY <1>0
  <1>2. PairingIsHonest'
    BY DEF PairingIsHonest, OneCeremony, CodesOnce
  <1>3. Ceremony' /\ CodesAreFresh'
    BY DEF Ceremony, CodesAreFresh
  <1> QED  BY <1>1, <1>2, <1>3

LEMMA ScanKeeps == ASSUME NEW p \in Phone, PairInv, Scan(p) PROVE PairInv'
  <1> USE PairAssumption DEF PairInv, PairTypeOK, Scan
  <1>1. PairTypeOK'
    OBVIOUS
  <1>2. PairingIsHonest'
    BY DEF PairingIsHonest, OneCeremony, CodesOnce
  <1>3. Ceremony' /\ CodesAreFresh'
    BY DEF Ceremony, CodesAreFresh
  <1> QED  BY <1>1, <1>2, <1>3

\* A refused phone has redeemed nothing.
LEMMA RefusedKeeps ==
  ASSUME NEW p \in Phone, PairInv, HandlePairRequest(p), Refused(p) PROVE PairInv'
  <1> USE PairAssumption DEF PairInv, PairTypeOK, HandlePairRequest, Refused, Told
  <1>1. PairTypeOK'
    OBVIOUS
  <1>2. PairingIsHonest'
    BY DEF PairingIsHonest, OneCeremony, CodesOnce
  <1>3. Ceremony'
    BY DEF Ceremony
  <1>4. CodesAreFresh'
    BY DEF CodesAreFresh
  <1> QED  BY <1>1, <1>2, <1>3, <1>4

\* A parked phone is the only one, and has the code that nobody had.
LEMMA ParkedKeeps ==
  ASSUME NEW p \in Phone, PairInv, HandlePairRequest(p), Parked(p) PROVE PairInv'
  <1> USE PairAssumption
      DEF PairInv, PairTypeOK, HandlePairRequest, Parked, Told, HandlerAt, Redeems
  <1>1. PairTypeOK'
    OBVIOUS
  <1>2. OneCeremony' /\ CodesOnce'
    BY DEF PairingIsHonest, OneCeremony, CodesOnce, CodesAreFresh
  <1>3. PairingIsHonest'
    BY <1>2 DEF PairingIsHonest
  <1>4. Ceremony'
    BY DEF Ceremony, CodesAreFresh
  <1>5. CodesAreFresh'
    BY DEF CodesAreFresh
  <1> QED  BY <1>1, <1>3, <1>4, <1>5

LEMMA WakeUpKeeps == ASSUME NEW p \in Phone, PairInv, WakeUp(p) PROVE PairInv'
  <1> USE PairAssumption DEF PairInv, PairTypeOK, WakeUp, Told, HandlerAt
  <1>1. PairTypeOK'
    OBVIOUS
  <1>2. OneCeremony' /\ CodesOnce'
    BY DEF PairingIsHonest, OneCeremony, CodesOnce
  <1>3. PairingIsHonest'
    BY <1>2 DEF PairingIsHonest, OneCeremony, Ceremony
  <1>4. Ceremony' /\ CodesAreFresh'
    BY DEF Ceremony, CodesAreFresh, PairingIsHonest, OneCeremony
  <1> QED  BY <1>1, <1>3, <1>4

LEMMA PhoneGoneKeeps == ASSUME NEW p \in Phone, PairInv, PhoneGone(p) PROVE PairInv'
  <1> USE PairAssumption DEF PairInv, PairTypeOK, PhoneGone, Told
  <1>1. PairTypeOK'
    OBVIOUS
  <1>2. PairingIsHonest'
    BY DEF PairingIsHonest, OneCeremony, CodesOnce
  <1>3. Ceremony' /\ CodesAreFresh'
    BY DEF Ceremony, CodesAreFresh
  <1> QED  BY <1>1, <1>2, <1>3

LEMMA UnparkKeeps == ASSUME NEW p \in Phone, PairInv, Unpark(p) PROVE PairInv'
  <1> USE PairAssumption DEF PairInv, PairTypeOK, Unpark, HandlerAt
  <1>1. PairTypeOK'
    OBVIOUS
  <1>2. PairingIsHonest'
    BY DEF PairingIsHonest, OneCeremony, CodesOnce
  <1>3. Ceremony' /\ CodesAreFresh'
    BY DEF Ceremony, CodesAreFresh
  <1> QED  BY <1>1, <1>2, <1>3

\* The verdict concerns the request of the parked phone and, codes being redeemed once,
\* no other.
LEMMA DecideKeeps ==
  ASSUME NEW p \in Phone, NEW accept \in BOOLEAN, PairInv, Decide(p, accept) PROVE PairInv'
  <1> USE PairAssumption DEF PairInv, PairTypeOK, Decide, Undecided
  <1>1. PairTypeOK'
    OBVIOUS
  <1>2. OneCeremony' /\ CodesOnce'
    BY DEF PairingIsHonest, OneCeremony, CodesOnce, Ceremony
  <1>3. PairingIsHonest'
    BY <1>2 DEF PairingIsHonest, CodesOnce, Ceremony
  <1>4. Ceremony'
    BY DEF Ceremony
  <1>5. CodesAreFresh'
    BY DEF CodesAreFresh, Ceremony
  <1> QED  BY <1>1, <1>3, <1>4, <1>5

LEMMA PairStutters == PairInv /\ UNCHANGED pairVars => PairInv'
  BY DEF PairInv, PairTypeOK, PairingIsHonest, OneCeremony, CodesOnce, Ceremony,
         CodesAreFresh, pairVars
----------------------------------------------------------------------------
\* The inductive invariant of the ceremony, for any phones and bounds.
THEOREM PairInvariance == PairSpec => []PairInv
  <1>1. PairInv /\ [PairNext]_pairVars => PairInv'
    <2> SUFFICES ASSUME PairInv, [PairNext]_pairVars PROVE PairInv'
      OBVIOUS
    <2>1. ASSUME NEW p \in Phone, HandlePairRequest(p) PROVE PairInv'
      BY <2>1, RefusedKeeps, ParkedKeeps DEF HandlePairRequest
    <2> QED  BY <2>1, BeginKeeps, ClocksKeep, ScanKeeps, WakeUpKeeps, PhoneGoneKeeps,
                UnparkKeeps, DecideKeeps, PairStutters DEF PairNext
  <1> QED  BY <1>1, PairInitially, PTL DEF PairSpec

\* Every variable keeps its type (the state of the wire handlers and of pairing codes).
THEOREM PairTypeCorrect == PairSpec => []PairTypeOK
  <1> PairInv => PairTypeOK
    BY DEF PairInv
  <1> QED  BY PairInvariance, PTL

\* A phone told that it was denied was not enrolled, one that got a package was; one
\* ceremony at a time, and a code for one phone (api.py pair_begin and pair_accept,
\* sync.py _handle_pair_request).
THEOREM PhonesAreToldTheTruth == PairSpec => []PairingIsHonest
  <1> PairInv => PairingIsHonest
    BY DEF PairInv
  <1> QED  BY PairInvariance, PTL

----------------------------------------------------------------------------
(***************************************************************************)
(* The four parts side by side: each behaves as its own specification      *)
(* says, so what is proved of a part holds of the composition, and of the  *)
(* instance of it that the run checks.                                     *)
(***************************************************************************)
HIDE DEF PairCode, CodeState, HandlerState, Answer, Verdict, Request, NoCode, NoRequest

\* The parts share no variable: a step of one leaves the others where they are, and a
\* behaviour of the composition is one of each part.
THEOREM DeviceRunsItsParts ==
  DeviceSpec => Spec /\ LockSpec /\ PairSpec /\ UpdateSpec
<1>1. DeviceInit => Init /\ LockInit /\ PairInit /\ UpdateInit
  BY DEF DeviceInit
<1>2. ASSUME [DeviceNext]_deviceVars
      PROVE  /\ [Next]_vars /\ [LockNext]_lockVars
             /\ [PairNext]_pairVars /\ [UpdateNext]_updateVars
  BY <1>2 DEF DeviceNext, KeysStep, LockStep, PairStep, UpdateStep, deviceVars
<1>3. QED
  BY <1>1, <1>2, PTL DEF DeviceSpec, Spec, LockSpec, PairSpec, UpdateSpec

\* Whichever part moves, the data directory, the node object, the clocks, the pairing
\* and the installation keep their types.
THEOREM DeviceTypes == DeviceSpec => []DeviceTypeOK
<1>1. LockInv => LockTypeOK
  BY DEF LockInv
<1>2. UpdateInv => UpdateTypeOK
  BY DEF UpdateInv
<1>3. TypeOK /\ LockTypeOK /\ PairTypeOK /\ UpdateTypeOK => DeviceTypeOK
  BY DEF DeviceTypeOK
<1>4. QED
  BY <1>1, <1>2, <1>3, DeviceRunsItsParts, KeyTypesCorrect, LockInvariance,
     PairTypeCorrect, UpdateInvariance, PTL

\* A device at work, whatever it is doing: its secrets can be read after a crash and are
\* sealed under app lock, its seed is kept, its phones were told the truth, its user's
\* choices stand, and its program starts and serves a web client.
THEOREM DeviceIsSafe ==
  DeviceSpec => [](/\ SeedKept /\ SealedAtRest /\ KeysRecoverable
                   /\ PublishedKeyHeld /\ CacheIsRight
                   /\ ChoiceKept /\ PairingIsHonest
                   /\ LaunchEndsRunning /\ WebIsServed)
                /\ AutoLockIsRight
<1> QED
  BY DeviceRunsItsParts, SeedIsKept, KeysAreSealedAtRest, KeysAreRecoverable,
     PublishedKeyIsHeld, KeyCacheIsRight, ChoicesAreKept, TickLocksRightly,
     PhonesAreToldTheTruth, LaunchesEndRunning, WebClientIsServed, PTL
=============================================================================
