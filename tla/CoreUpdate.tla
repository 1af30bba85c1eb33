----------------------------- MODULE CoreUpdate -----------------------------
(***************************************************************************)
(* Updating the packaged desktop: the running version stages a new core    *)
(* (update.py), the launcher installs it at its next start, runs it and    *)
(* rolls back when it dies at once (coreupdate.py, packaging/launcher.py); *)
(* the web client is seeded at each start and swapped while it is served   *)
(* (desktop.py, paths.py, update.py).                                      *)
(*                                                                         *)
(* Releases are numbered in their order, 0 is none.  Signatures and hashes *)
(* are sound: what is left to go wrong is the order of the writes and a    *)
(* crash between any two.  One launcher at a time installs an update, and  *)
(* no version stages another meanwhile: the launcher takes no lock (see    *)
(* the README for what happens without this).                              *)
(***************************************************************************)
EXTENDS Naturals, FiniteSets

CONSTANTS
  LastRelease,       \* the last release that is published
  WebOnly,    \* releases that bring no new core
  MaxMishaps  \* crashes and failed file operations

ASSUME UpdateAssumption ==
  /\ LastRelease \in Nat \ {0} /\ MaxMishaps \in Nat /\ WebOnly \subseteq 2..LastRelease

Version == 0..LastRelease
Core == (1..LastRelease) \ WebOnly
Torn == LastRelease + 1        \* a file, or a directory, that was not written to the end

VARIABLES
  pointers,   \* the files current and previous
  installed,  \* what versions/<v> holds: nothing, the payload of a release, or a part
  staging,    \* pending-core.zip and pending-core.json
  launcher,   \* the step the launcher is at, and the version it deals with
  running,    \* the payload that holds the instance lock
  web,        \* the served directory, its backup, the swap in progress, and whether
              \* VERSION names the release that is served, or was cut short
  feed,       \* the release the feed announces
  bad,        \* releases that die within seconds of their start
  mishaps,    \* crashes and failed operations so far
  stranded    \* whether a launcher died, with an older version running on, and left
              \* current at one that does not start

updateVars ==
  <<pointers, installed, staging, launcher, running, web, feed, bad, mishaps, stranded>>
----------------------------------------------------------------------------
Pointers == [current : Version, previous : Version]
Contents == Version \union {Torn}
Staged == [zip : Contents, marker : Contents]
Steps == {"off", "apply", "clear", "extract", "previous", "current", "clean",
          "start", "seed", "failed"}
Launcher == [at : Steps, version : Version]
Web == [dir : Version, bak : Version, swap : Version, stamped : BOOLEAN]

Off == [at |-> "off", version |-> 0]
At(step, v) == launcher' = [at |-> step, version |-> v]
NothingStaged == [zip |-> 0, marker |-> 0]

\* No launcher is at work on an update.
NoLaunch == launcher.at \in {"off", "failed"}

\* An installation of release 1, which works; at most one release is bad.
UpdateInit ==
  /\ pointers = [current |-> 1, previous |-> 0]
  /\ installed = [v \in Core |-> IF v = 1 THEN 1 ELSE 0]
  /\ staging = NothingStaged /\ launcher = Off /\ running = 0
  /\ web = [dir |-> 0, bak |-> 0, swap |-> 0, stamped |-> TRUE]
  /\ feed = 1 /\ mishaps = 0 /\ stranded = FALSE
  /\ bad \in {b \in SUBSET (Core \ {1}) : Cardinality(b) <= 1}

Publish ==
  /\ feed < LastRelease /\ feed' = feed + 1
  /\ UNCHANGED <<pointers, installed, staging, launcher, running, web, bad, mishaps,
                 stranded>>
----------------------------------------------------------------------------
(***************************************************************************)
(* The running version.                                                    *)
(***************************************************************************)
\* check(): a core release is offered before the web bundle that may need it, and
\* nothing is, once the VERSION file is empty.
CoreAvailable == web.stamped /\ feed \in Core /\ running < feed
WebAvailable == web.stamped /\ web.dir < feed

Stages(next) ==
  running # 0 /\ CoreAvailable /\ NoLaunch /\ staging # next /\ staging' = next

\* stage_core(): first the bundle, then the marker; either may be cut short.
StageZip ==
  /\ Stages([staging EXCEPT !.zip = feed])
  /\ UNCHANGED <<pointers, installed, launcher, running, web, feed, bad, mishaps, stranded>>

StageMarker ==
  /\ staging.zip = feed /\ Stages([staging EXCEPT !.marker = feed])
  /\ UNCHANGED <<pointers, installed, launcher, running, web, feed, bad, mishaps, stranded>>

StageTorn ==
  /\ mishaps < MaxMishaps /\ mishaps' = mishaps + 1
  /\ \/ Stages([staging EXCEPT !.zip = Torn])
     \/ staging.zip = feed /\ Stages([staging EXCEPT !.marker = Torn])
  /\ UNCHANGED <<pointers, installed, launcher, running, web, feed, bad, stranded>>

\* apply_web(): the served directory makes way for the new one.
SwapOut ==
  /\ running # 0 /\ web.swap = 0 /\ ~CoreAvailable /\ WebAvailable
  /\ web' = [web EXCEPT !.dir = 0, !.bak = web.dir, !.swap = feed]
  /\ UNCHANGED <<pointers, installed, staging, launcher, running, feed, bad, mishaps,
                 stranded>>

SwapIn ==
  /\ running # 0 /\ web.swap # 0 /\ web.dir = 0
  /\ web' = [web EXCEPT !.dir = web.swap]
  /\ UNCHANGED <<pointers, installed, staging, launcher, running, feed, bad, mishaps,
                 stranded>>

\* The second rename fails for good: the backup goes back.
SwapFails ==
  /\ running # 0 /\ web.swap # 0 /\ web.dir = 0
  /\ mishaps < MaxMishaps /\ mishaps' = mishaps + 1
  /\ web' = [web EXCEPT !.dir = web.bak, !.bak = 0, !.swap = 0]
  /\ UNCHANGED <<pointers, installed, staging, launcher, running, feed, bad, stranded>>

\* The bundle brings its own VERSION, which is then written over, in place.
Stamp ==
  /\ running # 0 /\ web.swap # 0 /\ web.dir = web.swap
  /\ web' = [web EXCEPT !.swap = 0]
  /\ UNCHANGED <<pointers, installed, staging, launcher, running, feed, bad, mishaps,
                 stranded>>

\* The disk is full: an empty VERSION stays, and the running version serves on.
StampFails ==
  /\ running # 0 /\ web.swap # 0 /\ web.dir = web.swap
  /\ mishaps < MaxMishaps /\ mishaps' = mishaps + 1
  /\ web' = [web EXCEPT !.swap = 0, !.stamped = FALSE]
  /\ UNCHANGED <<pointers, installed, staging, launcher, running, feed, bad, stranded>>

\* The user quits; the launcher that waited for this payload returns with it.
Quit ==
  /\ running # 0 /\ web.swap = 0 /\ running' = 0
  /\ UNCHANGED <<pointers, installed, staging, launcher, web, feed, bad, mishaps, stranded>>
----------------------------------------------------------------------------
(***************************************************************************)
(* The launcher, also when it is started a second time or by restart().    *)
(***************************************************************************)
Launch ==
  /\ NoLaunch /\ At("apply", 0)
  /\ UNCHANGED <<pointers, installed, staging, running, web, feed, bad, mishaps, stranded>>

\* A plausible defect: only the bundle is looked at.
BundleIsThere == staging.zip \in Core

\* The bytes on file are those of the signed release that the marker names.
Verified == staging.marker \in Core /\ staging.zip = staging.marker

\* apply_staged_core() up to the checks; what does not pass them is discarded.
Apply ==
  /\ launcher.at = "apply"
  /\ IF staging.zip = 0 \/ staging.marker = 0
     THEN At("start", pointers.current) /\ UNCHANGED staging
     ELSE IF Verified
          THEN At("clear", staging.marker) /\ UNCHANGED staging
          ELSE At("start", pointers.current) /\ staging' = NothingStaged
  /\ UNCHANGED <<pointers, installed, running, web, feed, bad, mishaps, stranded>>

\* A directory that is already there is never trusted.  What is extracted is what was
\* read and checked; nothing is staged meanwhile.
ClearTarget ==
  /\ launcher.at = "clear" /\ At("extract", launcher.version)
  /\ installed' = [installed EXCEPT ![launcher.version] = 0]
  /\ UNCHANGED <<pointers, staging, running, web, feed, bad, mishaps, stranded>>

\* Extracted beside it, then renamed into place.
Extract ==
  /\ launcher.at = "extract" /\ At("previous", launcher.version)
  /\ installed' = [installed EXCEPT ![launcher.version] = staging.zip]
  /\ UNCHANGED <<pointers, staging, running, web, feed, bad, mishaps, stranded>>

\* A file is locked, or the disk is full: the update is given up.
InstallFails ==
  /\ launcher.at \in {"clear", "extract"} /\ mishaps < MaxMishaps /\ mishaps' = mishaps + 1
  /\ installed' = [installed EXCEPT ![launcher.version] =
                     IF launcher.at = "clear" /\ @ # 0 THEN Torn ELSE @]
  /\ At("start", pointers.current) /\ staging' = NothingStaged
  /\ UNCHANGED <<pointers, running, web, feed, bad, stranded>>

\* A payload starts, unless its release is bad or parts of it are missing.
Starts(v) == v # 0 /\ installed[v] = v /\ v \notin bad

\* What the launcher leaves of the staging directory, and of the version it deals with,
\* when it is cut short: _clear_staging() removes the bundle first and then the marker,
\* and the files of a directory go one by one.
CutStaging ==
  IF \/ launcher.at \in {"clear", "extract", "clean"}
     \/ launcher.at = "apply" /\ staging.marker # 0 /\ ~Verified
  THEN {staging, [staging EXCEPT !.zip = 0]} ELSE {staging}

CutInstalled ==
  IF launcher.at = "clear" /\ installed[launcher.version] # 0
  THEN {installed, [installed EXCEPT ![launcher.version] = Torn]} ELSE {installed}

\* An error that nothing catches: a directory cannot be made, a pointer not be written,
\* a staged file not be removed.
LauncherDies ==
  /\ launcher.at \in Steps \ {"off", "seed", "failed"}
  /\ mishaps < MaxMishaps /\ mishaps' = mishaps + 1
  /\ launcher' = Off /\ staging' \in CutStaging /\ installed' \in CutInstalled
  /\ UNCHANGED <<pointers, running, web, feed, bad>>
  /\ stranded' = (stranded \/ (running # 0 /\ ~Starts(pointers.current)'))

\* A plausible defect: the version to go back to is not written down.
PreviousForgotten == pointers

\* _flip_current(): what was current becomes previous, then the new one current.
PreviousWritten ==
  IF pointers.current # launcher.version
  THEN [pointers EXCEPT !.previous = pointers.current] ELSE pointers

WritePrevious ==
  /\ launcher.at = "previous" /\ At("current", launcher.version)
  /\ pointers' = PreviousWritten
  /\ UNCHANGED <<installed, staging, running, web, feed, bad, mishaps, stranded>>

WriteCurrent ==
  /\ launcher.at = "current" /\ At("clean", launcher.version)
  /\ pointers' = [pointers EXCEPT !.current = launcher.version]
  /\ UNCHANGED <<installed, staging, running, web, feed, bad, mishaps, stranded>>

ClearStaging ==
  /\ launcher.at = "clean" /\ At("start", pointers.current) /\ staging' = NothingStaged
  /\ UNCHANGED <<pointers, installed, running, web, feed, bad, mishaps, stranded>>

\* main(): the current version, or, when it is missing or dies at once, the previous
\* one; the launcher ends as given when that is no other, or is not there.
Reverted == IF pointers.previous = 0 THEN pointers.current ELSE pointers.previous

FallBack(v, end) ==
  /\ pointers' = [pointers EXCEPT !.current = Reverted]
  /\ IF Reverted # v /\ Starts(Reverted) THEN At("seed", Reverted) ELSE launcher' = end

StartPayload ==
  /\ launcher.at = "start"
  /\ LET v == launcher.version IN
       IF Starts(v)
       THEN At("seed", v) /\ UNCHANGED pointers
       ELSE FallBack(v, [at |-> "failed", version |-> v])
  /\ UNCHANGED <<installed, staging, running, web, feed, bad, mishaps, stranded>>

\* launch() in the payload.  Another instance holds the lock: this one leaves, with
\* exit code 0.  Otherwise the web directory is seeded when it is missing or older.  Over
\* an empty VERSION, or when the seeding fails, the payload dies at once.
AlreadyRunning ==
  /\ launcher.at = "seed" /\ running # 0 /\ launcher' = Off
  /\ UNCHANGED <<pointers, installed, staging, running, web, feed, bad, mishaps, stranded>>

Seeding == launcher.at = "seed" /\ running = 0 /\ (web.dir = 0 \/ web.stamped)

CannotSeed ==
  /\ launcher.at = "seed" /\ running = 0 /\ web.dir # 0 /\ ~web.stamped
  /\ FallBack(launcher.version, [launcher EXCEPT !.at = "failed"])
  /\ UNCHANGED <<installed, staging, running, web, feed, bad, mishaps, stranded>>

SeedFails ==
  /\ Seeding /\ web.dir < launcher.version
  /\ mishaps < MaxMishaps /\ mishaps' = mishaps + 1
  /\ FallBack(launcher.version, Off)
  /\ UNCHANGED <<installed, staging, running, web, feed, bad, stranded>>

SeedRemoves ==
  /\ Seeding /\ web.dir # 0 /\ web.dir < launcher.version
  /\ web' = [web EXCEPT !.dir = 0]
  /\ UNCHANGED <<pointers, installed, staging, launcher, running, feed, bad, mishaps,
                 stranded>>

\* A plausible defect: an older client that is there stays.
SeededIfMissing(dir, core) == IF dir = 0 THEN core ELSE dir

Seeded(dir, core) == IF dir < core THEN core ELSE dir

Serve ==
  /\ Seeding
  /\ web' = [web EXCEPT !.dir = Seeded(@, launcher.version), !.stamped = TRUE]
  /\ running' = launcher.version /\ launcher' = Off
  /\ UNCHANGED <<pointers, installed, staging, feed, bad, mishaps, stranded>>

\* The machine goes down at any step.
PowerLoss ==
  /\ launcher # Off \/ running # 0
  /\ mishaps < MaxMishaps /\ mishaps' = mishaps + 1
  /\ launcher' = Off /\ running' = 0
  /\ staging' \in CutStaging /\ installed' \in CutInstalled
  /\ \/ web' = [web EXCEPT !.swap = 0]
     \/ /\ web.swap # 0 /\ web.dir = web.swap
        /\ web' = [web EXCEPT !.swap = 0, !.stamped = FALSE]
  /\ UNCHANGED <<pointers, feed, bad, stranded>>

UpdateNext ==
  \/ Publish \/ StageZip \/ StageMarker \/ StageTorn \/ SwapOut \/ SwapIn \/ SwapFails
  \/ Stamp \/ StampFails \/ Quit \/ Launch \/ Apply \/ ClearTarget \/ Extract \/ InstallFails
  \/ LauncherDies
  \/ WritePrevious \/ WriteCurrent \/ ClearStaging \/ StartPayload
  \/ AlreadyRunning \/ CannotSeed \/ SeedFails \/ SeedRemoves \/ Serve \/ PowerLoss

UpdateSpec == UpdateInit /\ [][UpdateNext]_updateVars
----------------------------------------------------------------------------
UpdateTypeOK ==
  /\ pointers \in Pointers /\ installed \in [Core -> Contents] /\ staging \in Staged
  /\ launcher \in Launcher /\ running \in Version /\ web \in Web
  /\ feed \in Version /\ bad \subseteq Core /\ mishaps \in 0..MaxMishaps
  /\ stranded \in BOOLEAN

\* Wherever the power goes, and whatever operation fails, a launch that is not itself cut
\* short ends with a version that runs, as long as no two releases are bad: current or
\* previous names one whose files are whole, and those of the running version are never
\* touched (coreupdate.py:4-6, launcher.py:104-118, 121-132).  Two things are not got
\* over: a VERSION file that was cut short, which no version can be seeded over, and a
\* launcher that died with current at a version that does not start, while an older one
\* ran on and could stage a further update.
LaunchEndsRunning ==
  /\ launcher.at = "failed" => stranded \/ ~web.stamped
  /\ running # 0 => installed[running] = running
  /\ stranded \/ \E v \in {pointers.current, pointers.previous} : Starts(v)

\* Whenever a version serves and no swap is going on, its web client is there and is not
\* older than the version itself (paths.py:27, update.py:205-207).
WebIsServed == (running # 0 /\ web.swap = 0) => web.dir >= running
=============================================================================
