----------------------------- MODULE LockScreen -----------------------------
(***************************************************************************)
(* When a device with app lock locks itself, and when it lets an unlock be *)
(* tried (node.py, applock.py, the gossip loop of sync.py, api.py).  The   *)
(* gossip loop is a round of any length, a stamp, a sleep and a tick.  The *)
(* machine may be suspended during the sleep: the clock jumps.  A late     *)
(* wake-up of a busy event loop moves the clock too, by less than Slack.   *)
(***************************************************************************)
EXTENDS Naturals

CONSTANTS
  Interval,    \* the sleep between two rounds
  Slack,       \* the jump beyond it that counts as a suspension (30 s)
  IdleAfter,   \* the idle time the user may choose (0 is off)
  Delays,      \* how long a round may take, and a suspension last
  Penalty,     \* the delay after that many failed attempts in a row
  MaxFails,    \* failed attempts counted
  MaxClock     \* the last instant

ASSUME LockAssumption ==
  /\ Interval \in Nat \ {0} /\ Slack \in Nat \ {0} /\ IdleAfter \subseteq Nat
  /\ Delays \subseteq Nat /\ MaxFails \in Nat /\ MaxClock \in Nat
  /\ Penalty \in [0..MaxFails -> Nat]

VARIABLES
  clock,        \* time.time()
  locked,       \* node.locked
  lastTick,     \* _last_tick
  lastActivity, \* last_activity
  loop,         \* the gossip loop is in a "round" or in its "sleep"
  suspended,    \* how long the machine was suspended in this sleep
  settings,     \* applock.json: idle time, lock on sleep, settings_v
  chosen,       \* what the user last chose for lock on sleep, and the mark on file then
  throttle      \* failed attempts, and when the next one is let through

lockVars == <<clock, locked, lastTick, lastActivity, loop, suspended, settings,
              chosen, throttle>>
----------------------------------------------------------------------------
Clock == 0..MaxClock
Settings == [idle : IdleAfter \union {0}, onSleep : BOOLEAN, v : {1, 2}]
Choice == [what : {"unset", "on", "off"}, v : {1, 2}]

\* A plausible defect: the mark of a migrated record is not looked at.
MigratedAgain(s) == [s EXCEPT !.onSleep = FALSE, !.v = 2]

\* applock.migrate_settings(): records of before 0.3.11 had lock on sleep on.
Migrated(s) == IF s.v = 2 THEN s ELSE [s EXCEPT !.onSleep = FALSE, !.v = 2]

NoFails == [fails |-> 0, next |-> 0]

\* The boot migrates the record on file; a record that cannot be read, or a write that
\* fails, is put up with, and the file keeps what it had.
Booted(s) == {s, Migrated(s)}

\* A record of this release or of an earlier one, at the first start of this one.
LockInit ==
  /\ clock = 0 /\ locked = TRUE /\ lastTick = 0 /\ lastActivity = 0
  /\ loop = "round" /\ suspended = 0
  /\ \E s \in {[idle |-> 0, onSleep |-> FALSE, v |-> 2],
               [idle |-> 0, onSleep |-> TRUE, v |-> 1]} : settings \in Booted(s)
  /\ chosen = [what |-> "unset", v |-> 1] /\ throttle = NoFails

\* A plausible defect: the baseline stays where the tick left it.
StampLost ==
  /\ loop = "round" /\ loop' = "sleep" /\ suspended' = 0
  /\ UNCHANGED <<clock, locked, lastTick, lastActivity, settings, chosen, throttle>>

\* stamp_autolock_tick(): the baseline is set after the round, before the sleep.
StampTick ==
  /\ loop = "round" /\ loop' = "sleep" /\ lastTick' = clock /\ suspended' = 0
  /\ UNCHANGED <<clock, locked, lastActivity, settings, chosen, throttle>>

TimePasses(d) ==
  /\ clock + d <= MaxClock /\ clock' = clock + d
  /\ UNCHANGED <<locked, lastTick, lastActivity, loop, settings, chosen, throttle>>

\* A round dials peers that may all be offline; requests are served meanwhile.
RoundTakes(d) == loop = "round" /\ TimePasses(d) /\ UNCHANGED suspended

\* The machine goes to sleep and comes back while the loop sleeps.
Suspend(d) == loop = "sleep" /\ suspended = 0 /\ TimePasses(d) /\ suspended' = d

\* maybe_autolock() with the clock when the sleep ends: the interval, the suspension
\* and a delay of the event loop later.
SleepLocks(gap) == settings.onSleep /\ gap > Interval + Slack
IdleLocks(t) == settings.idle > 0 /\ t - lastActivity > settings.idle

MaybeAutolock(late) ==
  /\ loop = "sleep" /\ loop' = "round"
  /\ LET t == clock + Interval + late IN
       /\ t <= MaxClock /\ clock' = t /\ lastTick' = t
       /\ locked' = (locked \/ SleepLocks(t - lastTick) \/ IdleLocks(t))
  /\ UNCHANGED <<lastActivity, suspended, settings, chosen, throttle>>

\* POST /api/activity, refused while locked: the only sign of life that counts.
Touch ==
  /\ ~locked /\ lastActivity # clock /\ lastActivity' = clock
  /\ UNCHANGED <<clock, locked, lastTick, loop, suspended, settings, chosen, throttle>>

\* POST /api/unlock: throttled attempts are not tried at all.
Unthrottled == throttle.next <= clock

UnlockRight ==
  /\ locked /\ Unthrottled
  /\ locked' = FALSE /\ lastActivity' = clock /\ throttle' = NoFails
  /\ UNCHANGED <<clock, lastTick, loop, suspended, settings, chosen>>

UnlockWrong ==
  /\ locked /\ Unthrottled /\ throttle.fails < MaxFails
  /\ throttle' = LET n == throttle.fails + 1
                 IN  [fails |-> n, next |-> clock + Penalty[n]]
  /\ UNCHANGED <<clock, locked, lastTick, lastActivity, loop, suspended, settings,
                 chosen>>

LockNow ==
  /\ ~locked /\ locked' = TRUE
  /\ UNCHANGED <<clock, lastTick, lastActivity, loop, suspended, settings, chosen,
                 throttle>>

\* update_applock_settings(), which leaves settings_v alone.
ChangeSettings(idle, onSleep) ==
  /\ ~locked /\ <<idle, onSleep>> # <<settings.idle, settings.onSleep>>
  /\ settings' = [settings EXCEPT !.idle = idle, !.onSleep = onSleep]
  /\ chosen' = [what |-> IF onSleep THEN "on" ELSE "off", v |-> settings.v]
  /\ UNCHANGED <<clock, locked, lastTick, lastActivity, loop, suspended, throttle>>

\* change_applock_credential() files a record of this release with the settings it had.
RefileRecord ==
  /\ ~locked /\ settings.v = 1 /\ settings' = [settings EXCEPT !.v = 2]
  /\ UNCHANGED <<clock, locked, lastTick, lastActivity, loop, suspended, chosen, throttle>>

\* The process starts again, locked; what it held in memory is forgotten.
RestartLocked ==
  /\ settings' \in Booted(settings)
  /\ locked' = TRUE /\ lastTick' = clock /\ lastActivity' = clock
  /\ loop' = "round" /\ suspended' = 0 /\ throttle' = NoFails
  /\ UNCHANGED <<clock, chosen>>

LockNext ==
  \/ StampTick \/ Touch \/ UnlockRight \/ UnlockWrong \/ LockNow \/ RestartLocked
  \/ RefileRecord
  \/ \E d \in Delays : RoundTakes(d) \/ Suspend(d)
  \/ \E late \in 0..(Slack - 1) : MaybeAutolock(late)
  \/ \E idle \in IdleAfter \union {0}, onSleep \in BOOLEAN : ChangeSettings(idle, onSleep)

LockSpec == LockInit /\ [][LockNext]_lockVars
----------------------------------------------------------------------------
LockTypeOK ==
  /\ clock \in Clock /\ lastTick \in Clock /\ lastActivity \in Clock
  /\ locked \in BOOLEAN /\ loop \in {"round", "sleep"} /\ suspended \in Delays \union {0}
  /\ settings \in Settings /\ chosen \in Choice
  /\ throttle \in [fails : 0..MaxFails, next : Nat]

\* The tick locks for a suspension or for an idle user and never because a round was
\* slow or the event loop busy (the misfire of 0.3.11, node.py:504-509), and no
\* suspension in the sleep goes unnoticed when the user asked for it.
TickIsRight ==
  (loop = "sleep" /\ loop' = "round" /\ ~locked /\ clock' > clock) =>
    /\ locked' => \/ settings.onSleep /\ suspended > 0
                  \/ settings.idle > 0 /\ clock' - lastActivity > settings.idle
    /\ (settings.onSleep /\ suspended > Slack) => locked'
AutoLockIsRight == [][TickIsRight]_lockVars

\* A user who turns lock on sleep on or off keeps that choice through every restart
\* ("a user who re-enables it afterwards keeps their choice", applock.py:101), whether
\* the migration reached the file or not.  One choice only can be undone: turning it on
\* while the record is still unmarked, which the migration turns off when it lands.
ChoiceKept ==
  /\ chosen.what = "off" => ~settings.onSleep
  /\ chosen.what = "on" => settings.onSleep \/ (chosen.v = 1 /\ settings.v = 2)
=============================================================================
