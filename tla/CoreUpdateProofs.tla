-------------------------- MODULE CoreUpdateProofs --------------------------
(***************************************************************************)
(* Theorems about CoreUpdate, for any releases and any number of mishaps:  *)
(* a start of the launcher ends with a version that runs, and a version    *)
(* that runs serves a web client that is there and new enough.             *)
(*                                                                         *)
(* Which version saves the day depends on where the update is.  While one  *)
(* is staged, the version to be unpacked is not the one to fall back on:   *)
(* that is the current one, unless a launch that was cut short has made    *)
(* the staged one current already, and then it is the previous one.        *)
(***************************************************************************)
EXTENDS CoreUpdate, TLAPS

\* The previous version is older than v, and starts.
FallsBack(v) == Starts(pointers.previous) /\ pointers.previous < v

\* The pointers name releases, the previous one no later than the current one.
Pointed ==
  /\ pointers.current \in Core /\ pointers.current <= feed
  /\ pointers.previous \in Core \union {0} /\ pointers.previous <= pointers.current

\* What is installed is newer than what runs, and not older than what is current.
StagedIsNewer ==
  Verified =>
    staging.marker <= feed /\ running < staging.marker /\ pointers.current <= staging.marker

\* The staged update is none of the versions that save the day.
StagedIsSafe ==
  Verified =>
    IF pointers.current = staging.marker THEN FallsBack(staging.marker)
                                         ELSE Starts(pointers.current)

\* While a version runs and no update is being unpacked, the current one starts, and if
\* the update on offer was made current already, so does the one before it.
CurrentIsSafe ==
  /\ Starts(pointers.current)
  /\ pointers.current = feed /\ running < feed => FallsBack(feed)

Installing == {"clear", "extract", "previous", "current", "clean"}

\* What the launcher knows at each step.
LauncherKnows ==
  /\ launcher.at \in Installing => Verified /\ launcher.version = staging.marker
  /\ launcher.at = "clean" => pointers.current = launcher.version
  /\ launcher.at \in {"start", "seed"} => ~Verified /\ launcher.version = pointers.current
  /\ launcher.at = "seed" => Starts(launcher.version)

RunningIsWhole == running # 0 => running \in Core /\ installed[running] = running

\* What a running version rests on.
RunningRests ==
  running # 0 =>
    /\ launcher.at \in {"off", "apply", "seed"} => CurrentIsSafe
    /\ launcher.at = "start" => CurrentIsSafe \/ FallsBack(pointers.current)

\* Of whatever is on disk, something starts.
SomethingStarts ==
  /\ Starts(pointers.current) \/ pointers.previous # 0
  /\ pointers.previous # 0 => Starts(pointers.previous)

\* What holds as long as no launcher died and left a running version behind with
\* pointers of no use.
NotStranded ==
  /\ StagedIsSafe /\ RunningRests /\ SomethingStarts
  /\ launcher.at \in {"current", "clean"} => FallsBack(launcher.version)
  /\ launcher.at = "failed" => running = 0 /\ ~web.stamped

\* During a swap both the client that left and the one that comes are new enough.
SwapIsSafe ==
  /\ running = 0 => web.swap = 0
  /\ WebIsServed
  /\ (running # 0 /\ web.swap # 0) => web.bak >= running /\ web.swap >= running

UpdateInv ==
  /\ UpdateTypeOK /\ Pointed /\ StagedIsNewer /\ LauncherKnows /\ RunningIsWhole
  /\ SwapIsSafe
  /\ ~stranded => NotStranded

USE UpdateAssumption DEF Version, Core, Torn, Pointers, Contents, Staged, Steps, Launcher,
                         Web
----------------------------------------------------------------------------
LEMMA UpdateInitially == UpdateInit => UpdateInv
  <1> SUFFICES ASSUME UpdateInit PROVE UpdateInv
    OBVIOUS
  <1> USE DEF UpdateInit, Off, NothingStaged
  <1>1. UpdateTypeOK
    <2>1. 1 \in Version /\ 0 \in Version /\ 1 \in Core
      OBVIOUS
    <2>2. web \in Web /\ stranded \in BOOLEAN
      BY <2>1
    <2>3. /\ pointers \in Pointers /\ installed \in [Core -> Contents] /\ staging \in Staged
          /\ launcher \in Launcher /\ running \in Version
          /\ feed \in Version /\ bad \subseteq Core /\ mishaps \in 0..MaxMishaps
      BY <2>1
    <2> QED  BY <2>2, <2>3 DEF UpdateTypeOK
  <1>2. pointers.current = 1 /\ pointers.previous = 0 /\ Starts(1) /\ ~Verified
    BY DEF Starts, Verified
  <1>3. Pointed /\ StagedIsNewer /\ LauncherKnows /\ RunningIsWhole
    BY <1>2 DEF Pointed, StagedIsNewer, LauncherKnows, RunningIsWhole, Installing
  <1>4. NotStranded
    BY <1>2 DEF NotStranded, StagedIsSafe, RunningRests, SomethingStarts
  <1>5. SwapIsSafe
    BY DEF SwapIsSafe, WebIsServed
  <1> QED  BY <1>1, <1>3, <1>4, <1>5 DEF UpdateInv

LEMMA PublishKeeps == UpdateInv /\ Publish => UpdateInv'
  <1> SUFFICES ASSUME UpdateInv, Publish PROVE UpdateInv'
    OBVIOUS
  <1> USE DEF UpdateInv, UpdateTypeOK, Publish
  <1>1. UpdateTypeOK'
    OBVIOUS
  <1>2. (\A v : Starts(v)' <=> Starts(v)) /\ (Verified' <=> Verified)
    BY DEF Starts, Verified
  <1>3. Pointed' /\ StagedIsNewer' /\ LauncherKnows' /\ RunningIsWhole'
    BY <1>2 DEF Pointed, StagedIsNewer, LauncherKnows, RunningIsWhole, Installing
  <1>4. ASSUME ~stranded PROVE NotStranded'
    <2>1. StagedIsSafe' /\ SomethingStarts'
      BY <1>2, <1>4 DEF NotStranded, StagedIsSafe, SomethingStarts, FallsBack
    <2>2. RunningRests'
      BY <1>2, <1>4 DEF NotStranded, RunningRests, CurrentIsSafe, FallsBack, Pointed
    <2> QED  BY <1>2, <1>4, <2>1, <2>2 DEF NotStranded, FallsBack
  <1>5. SwapIsSafe'
    BY DEF SwapIsSafe, WebIsServed
  <1> QED  BY <1>1, <1>3, <1>4, <1>5

\* What is staged is newer than what runs; what it makes current has to be undone by
\* the one before it.
LEMMA StagingKeeps == UpdateInv /\ (StageZip \/ StageMarker \/ StageTorn) => UpdateInv'
  <1> SUFFICES ASSUME UpdateInv, StageZip \/ StageMarker \/ StageTorn PROVE UpdateInv'
    OBVIOUS
  <1> USE DEF UpdateInv, UpdateTypeOK
  <1>0. /\ running # 0 /\ feed \in Core /\ running < feed
        /\ launcher.at \in {"off", "failed"}
        /\ UNCHANGED <<pointers, installed, launcher, running, web, feed, bad, stranded>>
        /\ mishaps' \in 0..MaxMishaps
    BY DEF StageZip, StageMarker, StageTorn, Stages, CoreAvailable, NoLaunch
  <1>1. staging' \in Staged /\ (Verified' => staging'.marker = feed)
    <2>1. CASE StageZip
      BY <1>0, <2>1 DEF StageZip, Stages, Verified
    <2>2. CASE StageMarker
      BY <1>0, <2>2 DEF StageMarker, Stages, Verified
    <2>3. CASE StageTorn
      BY <1>0, <2>3 DEF StageTorn, Stages, Verified
    <2> QED  BY <2>1, <2>2, <2>3
  <1>2. UpdateTypeOK'
    BY <1>0, <1>1
  <1>3. \A v : Starts(v)' <=> Starts(v)
    BY <1>0 DEF Starts
  <1>4. Pointed' /\ StagedIsNewer' /\ LauncherKnows' /\ RunningIsWhole'
    BY <1>0, <1>1 DEF Pointed, StagedIsNewer, LauncherKnows, RunningIsWhole, Installing
  <1>5. ASSUME ~stranded PROVE NotStranded'
    <2>1. launcher.at = "off" /\ CurrentIsSafe
      BY <1>0, <1>5 DEF NotStranded, RunningRests
    <2>2. StagedIsSafe'
      BY <1>0, <1>1, <1>3, <2>1 DEF StagedIsSafe, CurrentIsSafe, FallsBack, Pointed
    <2>3. RunningRests' /\ SomethingStarts'
      BY <1>0, <1>3, <1>5
         DEF NotStranded, RunningRests, CurrentIsSafe, FallsBack, SomethingStarts
    <2> QED  BY <1>0, <2>1, <2>2, <2>3 DEF NotStranded
  <1>6. SwapIsSafe'
    BY <1>0 DEF SwapIsSafe, WebIsServed
  <1> QED  BY <1>0, <1>2, <1>4, <1>5, <1>6

\* Swapping the web client leaves the versions alone.
LEMMA SwapKeeps ==
  UpdateInv /\ (SwapOut \/ SwapIn \/ SwapFails \/ Stamp \/ StampFails) => UpdateInv'
  <1> SUFFICES ASSUME UpdateInv, SwapOut \/ SwapIn \/ SwapFails \/ Stamp \/ StampFails
               PROVE  UpdateInv'
    OBVIOUS
  <1> USE DEF UpdateInv, UpdateTypeOK
  <1>0. /\ UNCHANGED <<pointers, installed, staging, launcher, running, feed, bad, stranded>>
        /\ mishaps' \in 0..MaxMishaps /\ running # 0
    BY DEF SwapOut, SwapIn, SwapFails, Stamp, StampFails
  <1>1. web' \in Web /\ SwapIsSafe'
    <2>1. CASE SwapOut
      <3>1. /\ web.swap = 0 /\ web.dir < feed
            /\ web' = [web EXCEPT !.dir = 0, !.bak = web.dir, !.swap = feed]
        BY <2>1 DEF SwapOut, WebAvailable
      <3>2. web' \in Web
        BY <3>1
      <3>3. web.dir >= running
        BY <1>0, <3>1 DEF SwapIsSafe, WebIsServed
      <3>4. /\ web'.swap = feed /\ feed # 0 /\ web'.bak = web.dir /\ running' = running
            /\ web.dir >= running /\ feed >= running
        BY <1>0, <3>1, <3>3
      <3> QED  BY <1>0, <3>1, <3>2, <3>4 DEF SwapIsSafe, WebIsServed
    <2>2. CASE SwapIn
      <3>1. web.swap # 0 /\ web' = [web EXCEPT !.dir = web.swap]
        BY <2>2 DEF SwapIn
      <3>2. web' \in Web /\ web'.swap = web.swap /\ web'.bak = web.bak
        BY <3>1
      <3> QED  BY <1>0, <3>1, <3>2 DEF SwapIsSafe, WebIsServed
    <2>3. CASE SwapFails
      BY <1>0, <2>3 DEF SwapFails, SwapIsSafe, WebIsServed
    <2>4. CASE Stamp \/ StampFails
      <3>1. /\ web.swap # 0 /\ web.dir = web.swap
            /\ web' \in Web /\ web'.swap = 0 /\ web'.dir = web.dir
        <4>1. CASE Stamp
          BY <4>1 DEF Stamp
        <4>2. CASE StampFails
          <5>1. web' = [web EXCEPT !.swap = 0, !.stamped = FALSE]
            BY <4>2 DEF StampFails
          <5>2. 0 \in Version /\ FALSE \in BOOLEAN
            OBVIOUS
          <5>3. web' \in Web /\ web'.swap = 0 /\ web'.dir = web.dir
            BY <5>1, <5>2
          <5> QED  BY <4>2, <5>3 DEF StampFails
        <4> QED  BY <2>4, <4>1, <4>2
      <3>2. web.swap >= running /\ running' = running
        BY <1>0, <3>1 DEF SwapIsSafe
      <3> QED  BY <1>0, <3>1, <3>2 DEF SwapIsSafe, WebIsServed
    <2> QED  BY <2>1, <2>2, <2>3, <2>4
  <1>2. UpdateTypeOK'
    BY <1>0, <1>1
  <1>3. (\A v : Starts(v)' <=> Starts(v)) /\ (Verified' <=> Verified)
    BY <1>0 DEF Starts, Verified
  <1>4. Pointed' /\ StagedIsNewer' /\ LauncherKnows' /\ RunningIsWhole'
    BY <1>0, <1>3 DEF Pointed, StagedIsNewer, LauncherKnows, RunningIsWhole, Installing
  <1>5. ASSUME ~stranded PROVE NotStranded'
    BY <1>0, <1>3, <1>5 DEF NotStranded, StagedIsSafe, RunningRests, SomethingStarts,
                            FallsBack, CurrentIsSafe
  <1> QED  BY <1>0, <1>1, <1>2, <1>4, <1>5

LEMMA QuitKeeps == UpdateInv /\ Quit => UpdateInv'
  <1> SUFFICES ASSUME UpdateInv, Quit PROVE UpdateInv'
    OBVIOUS
  <1> USE DEF UpdateInv, UpdateTypeOK, Quit
  <1>1. UpdateTypeOK' /\ SwapIsSafe' /\ RunningIsWhole'
    BY DEF SwapIsSafe, WebIsServed, RunningIsWhole
  <1>2. (\A v : Starts(v)' <=> Starts(v)) /\ (Verified' <=> Verified)
    BY DEF Starts, Verified
  <1>3. Pointed' /\ StagedIsNewer' /\ LauncherKnows'
    BY <1>2 DEF Pointed, StagedIsNewer, LauncherKnows, Installing, Verified
  <1>4. ASSUME ~stranded PROVE NotStranded'
    BY <1>2, <1>4 DEF NotStranded, StagedIsSafe, RunningRests, SomethingStarts, FallsBack
  <1> QED  BY <1>1, <1>3, <1>4

\* A launcher that is cut short leaves nothing staged that was not, and touches the
\* version it unpacks at most.
LEMMA CutFacts ==
  ASSUME UpdateInv, staging' \in CutStaging, installed' \in CutInstalled,
         UNCHANGED <<pointers, bad>>
  PROVE  /\ staging' \in Staged /\ installed' \in [Core -> Contents]
         /\ Verified' => Verified /\ staging' = staging
         /\ \A v : (Starts(v)' <=> Starts(v)) \/ (v = staging.marker /\ launcher.at = "clear")
         /\ launcher.at = "clear" => Verified
         /\ RunningIsWhole => (running # 0 => installed'[running] = running)
  <1> USE DEF UpdateInv, UpdateTypeOK
  <1>1. staging' \in Staged /\ (Verified' => Verified /\ staging' = staging)
    BY DEF CutStaging, Verified
  <1>2. launcher.at = "clear" =>
          Verified /\ launcher.version = staging.marker /\ staging.marker \in Core
          /\ running < staging.marker
    BY DEF LauncherKnows, Installing, Verified, StagedIsNewer
  <1>3. installed' \in [Core -> Contents]
    BY <1>2 DEF CutInstalled
  <1>4. CASE installed' = installed
    BY <1>1, <1>2, <1>3, <1>4 DEF Starts, RunningIsWhole
  <1>5. CASE launcher.at = "clear" /\ installed' = [installed EXCEPT ![staging.marker] = Torn]
    <2>1. \A v \in Core \ {staging.marker} : installed'[v] = installed[v]
      BY <1>5
    <2>2. \A v : v # staging.marker => (Starts(v)' <=> Starts(v))
      BY <1>5 DEF Starts
    <2>3. RunningIsWhole => (running # 0 => installed'[running] = running)
      BY <1>2, <1>5, <2>1 DEF RunningIsWhole
    <2> QED  BY <1>1, <1>2, <1>3, <1>5, <2>2, <2>3
  <1> QED  BY <1>2, <1>4, <1>5 DEF CutInstalled

\* Cut short anywhere, the launcher leaves something that starts.
LEMMA CutIsSafe ==
  ASSUME UpdateInv, ~stranded, staging' \in CutStaging, installed' \in CutInstalled,
         UNCHANGED <<pointers, bad>>
  PROVE  StagedIsSafe' /\ SomethingStarts'
  <1> USE DEF UpdateInv, UpdateTypeOK
  <1>1. /\ Verified' => Verified /\ staging' = staging
        /\ \A v : (Starts(v)' <=> Starts(v)) \/ (v = staging.marker /\ launcher.at = "clear")
        /\ launcher.at = "clear" => Verified
    BY CutFacts
  <1>2. StagedIsSafe /\ SomethingStarts /\ Pointed /\ StagedIsNewer
    BY DEF NotStranded
  <1>3. launcher.at = "clear" =>
          /\ pointers.previous < staging.marker
          /\ pointers.current = staging.marker => pointers.previous # 0
    BY <1>1, <1>2 DEF StagedIsSafe, StagedIsNewer, Pointed, FallsBack, Verified, Starts
  <1>4. Starts(pointers.previous)' <=> Starts(pointers.previous)
    BY <1>1, <1>3, <1>2 DEF Pointed
  <1>5. SomethingStarts'
    BY <1>1, <1>2, <1>3, <1>4 DEF SomethingStarts
  <1>6. StagedIsSafe'
    BY <1>1, <1>2, <1>4 DEF StagedIsSafe, FallsBack
  <1> QED  BY <1>5, <1>6

LEMMA PowerLossKeeps == UpdateInv /\ PowerLoss => UpdateInv'
  <1> SUFFICES ASSUME UpdateInv, PowerLoss PROVE UpdateInv'
    OBVIOUS
  <1> USE DEF UpdateInv, UpdateTypeOK
  <1>0. /\ UNCHANGED <<pointers, feed, bad, stranded>> /\ mishaps' \in 0..MaxMishaps
        /\ running' = 0 /\ launcher' = Off
        /\ staging' \in CutStaging /\ installed' \in CutInstalled
        /\ web' \in Web /\ web'.swap = 0
    <2>1. \/ web' = [web EXCEPT !.swap = 0]
          \/ web' = [web EXCEPT !.swap = 0, !.stamped = FALSE]
      BY DEF PowerLoss
    <2>2. 0 \in Version /\ FALSE \in BOOLEAN
      OBVIOUS
    <2>3. web' \in Web /\ web'.swap = 0
      BY <2>1, <2>2
    <2> QED  BY <2>3 DEF PowerLoss
  <1>1. /\ staging' \in Staged /\ installed' \in [Core -> Contents]
        /\ Verified' => Verified /\ staging' = staging
    BY <1>0, CutFacts
  <1>2. UpdateTypeOK'
    BY <1>0, <1>1 DEF Off
  <1>3. Pointed' /\ StagedIsNewer' /\ LauncherKnows' /\ RunningIsWhole'
    BY <1>0, <1>1 DEF Pointed, StagedIsNewer, LauncherKnows, RunningIsWhole, Installing,
                      Off, Verified
  <1>4. SwapIsSafe'
    BY <1>0 DEF SwapIsSafe, WebIsServed
  <1>5. ASSUME ~stranded PROVE NotStranded'
    BY <1>0, <1>5, CutIsSafe DEF NotStranded, RunningRests, Off
  <1> QED  BY <1>0, <1>2, <1>3, <1>4, <1>5

\* A launcher that dies leaves the running version with a current one that starts, or
\* stranded.
LEMMA LauncherDiesKeeps == UpdateInv /\ LauncherDies => UpdateInv'
  <1> SUFFICES ASSUME UpdateInv, LauncherDies PROVE UpdateInv'
    OBVIOUS
  <1> USE DEF UpdateInv, UpdateTypeOK
  <1>0. /\ UNCHANGED <<pointers, running, web, feed, bad>> /\ mishaps' \in 0..MaxMishaps
        /\ launcher' = Off /\ launcher.at \in Installing \union {"apply", "start"}
        /\ staging' \in CutStaging /\ installed' \in CutInstalled
        /\ stranded' \in BOOLEAN
        /\ ~stranded' => ~stranded /\ (running # 0 => Starts(pointers.current)')
    <2>1. /\ UNCHANGED <<pointers, running, web, feed, bad>> /\ mishaps' \in 0..MaxMishaps
          /\ launcher' = Off /\ launcher.at \in Installing \union {"apply", "start"}
          /\ staging' \in CutStaging /\ installed' \in CutInstalled
      BY DEF LauncherDies, Installing
    <2>2. stranded' = (stranded \/ (running # 0 /\ ~Starts(pointers.current)'))
      BY DEF LauncherDies
    <2>3. /\ stranded' \in BOOLEAN
          /\ ~stranded' => ~stranded /\ (running # 0 => Starts(pointers.current)')
      BY <2>2, Zenon
    <2> QED  BY <2>1, <2>3
  <1>1. /\ staging' \in Staged /\ installed' \in [Core -> Contents]
        /\ Verified' => Verified /\ staging' = staging
        /\ \A v : (Starts(v)' <=> Starts(v)) \/ (v = staging.marker /\ launcher.at = "clear")
        /\ RunningIsWhole => (running # 0 => installed'[running] = running)
    BY <1>0, CutFacts
  <1>2. UpdateTypeOK'
    BY <1>0, <1>1 DEF Off
  <1>3. Pointed' /\ StagedIsNewer' /\ LauncherKnows' /\ RunningIsWhole'
    BY <1>0, <1>1 DEF Pointed, StagedIsNewer, LauncherKnows, RunningIsWhole, Installing, Off
  <1>4. SwapIsSafe'
    BY <1>0 DEF SwapIsSafe, WebIsServed
  <1>5. ASSUME ~stranded' PROVE NotStranded'
    <2>1. ~stranded /\ NotStranded
      BY <1>0, <1>5
    <2>2. StagedIsSafe' /\ SomethingStarts'
      BY <1>0, <2>1, CutIsSafe
    <2>3. ASSUME running # 0 PROVE CurrentIsSafe'
      <3>1. Starts(pointers.current)'
        BY <1>0, <1>5, <2>3
      <3>2. ASSUME pointers.current = feed, running < feed PROVE FallsBack(feed)
        <4>1. CASE launcher.at \in {"apply", "start"}
          BY <2>1, <2>3, <3>2, <4>1 DEF NotStranded, RunningRests, CurrentIsSafe
        <4>2. CASE launcher.at \in Installing
          <5>1. Verified /\ staging.marker <= feed /\ pointers.current <= staging.marker
            BY <2>1, <4>2 DEF NotStranded, LauncherKnows, StagedIsNewer, StagedIsSafe
          <5>2. pointers.current = staging.marker
            BY <3>2, <5>1 DEF Pointed, Verified
          <5> QED  BY <2>1, <3>2, <5>1, <5>2 DEF NotStranded, StagedIsSafe
        <4> QED  BY <1>0, <4>1, <4>2
      <3>3. FallsBack(feed) => FallsBack(feed)'
        BY <1>0, <2>2 DEF FallsBack, SomethingStarts, Starts
      <3> QED  BY <1>0, <3>1, <3>2, <3>3 DEF CurrentIsSafe
    <2>4. RunningRests'
      BY <1>0, <2>3 DEF RunningRests, Off
    <2> QED  BY <1>0, <2>2, <2>4 DEF NotStranded, Off
  <1> QED  BY <1>2, <1>3, <1>4, <1>5

\* The launcher comes to its steps; an update that does not verify is discarded.
LEMMA ApplyKeeps == UpdateInv /\ (Launch \/ Apply) => UpdateInv'
  <1> SUFFICES ASSUME UpdateInv, Launch \/ Apply PROVE UpdateInv'
    OBVIOUS
  <1> USE DEF UpdateInv, UpdateTypeOK
  <1>0. UNCHANGED <<pointers, installed, running, web, feed, bad, mishaps, stranded>>
    BY DEF Launch, Apply
  <1>1. \/ launcher' = [at |-> "apply", version |-> 0] /\ staging' = staging
        \/ /\ launcher' = [at |-> "clear", version |-> staging.marker]
           /\ Verified /\ staging' = staging
        \/ /\ launcher' = [at |-> "start", version |-> pointers.current]
           /\ staging' \in {staging, NothingStaged} /\ ~Verified'
    BY DEF Launch, Apply, At, NothingStaged, Verified
  <1>2. launcher.at \in {"off", "apply", "failed"}
    BY DEF Launch, Apply, NoLaunch
  <1>3. UpdateTypeOK'
    BY <1>0, <1>1 DEF NothingStaged, Verified
  <1>4. (\A v : Starts(v)' <=> Starts(v)) /\ (Verified' => Verified /\ staging' = staging)
    BY <1>0, <1>1 DEF Starts, Verified, NothingStaged
  <1>5. Pointed' /\ StagedIsNewer' /\ RunningIsWhole'
    BY <1>0, <1>4 DEF Pointed, StagedIsNewer, RunningIsWhole
  <1>6. LauncherKnows'
    BY <1>0, <1>1 DEF LauncherKnows, Installing, Verified
  <1>7. SwapIsSafe'
    BY <1>0 DEF SwapIsSafe, WebIsServed
  <1>8. ASSUME ~stranded PROVE NotStranded'
    <2>1. StagedIsSafe' /\ SomethingStarts'
      BY <1>0, <1>4, <1>8 DEF NotStranded, StagedIsSafe, SomethingStarts, FallsBack
    <2>2. RunningRests'
      BY <1>0, <1>1, <1>2, <1>4, <1>8
         DEF NotStranded, RunningRests, CurrentIsSafe, FallsBack
    <2> QED  BY <1>1, <2>1, <2>2 DEF NotStranded
  <1> QED  BY <1>0, <1>3, <1>5, <1>6, <1>7, <1>8

\* Unpacking touches the staged version only, which is neither the one that runs nor the
\* one to fall back on.
LEMMA UnpackKeeps == UpdateInv /\ (ClearTarget \/ Extract \/ InstallFails) => UpdateInv'
  <1> SUFFICES ASSUME UpdateInv, ClearTarget \/ Extract \/ InstallFails PROVE UpdateInv'
    OBVIOUS
  <1> USE DEF UpdateInv, UpdateTypeOK
  <1> DEFINE m == launcher.version
  <1>0. /\ UNCHANGED <<running, web, feed, bad, pointers, stranded>>
        /\ mishaps' \in 0..MaxMishaps
        /\ launcher.at \in {"clear", "extract"} /\ Verified
        /\ m = staging.marker /\ staging.zip = m /\ m \in Core
    BY DEF ClearTarget, Extract, InstallFails, LauncherKnows, Installing, Verified
  <1>1. /\ installed' \in [Core -> Contents]
        /\ \A v \in Core \ {m} : installed'[v] = installed[v]
    <2>1. CASE ClearTarget
      BY <2>1, <1>0 DEF ClearTarget
    <2>2. CASE Extract
      BY <2>2, <1>0 DEF Extract
    <2>3. CASE InstallFails
      BY <2>3, <1>0 DEF InstallFails
    <2> QED  BY <2>1, <2>2, <2>3
  <1>2. \A v \in (Core \union {0}) \ {m} : Starts(v)' <=> Starts(v)
    BY <1>0, <1>1 DEF Starts
  <1>3. \/ launcher' \in {[at |-> "extract", version |-> m], [at |-> "previous", version |-> m]}
           /\ staging' = staging
        \/ launcher' = [at |-> "start", version |-> pointers.current]
           /\ staging' = NothingStaged
    BY DEF ClearTarget, Extract, InstallFails, At
  <1>4. m <= feed /\ running < m /\ pointers.current <= m
    BY <1>0 DEF StagedIsNewer
  <1>5. Verified' => Verified /\ staging' = staging
    BY <1>0, <1>3 DEF Verified, NothingStaged
  <1>6. UpdateTypeOK'
    BY <1>0, <1>1, <1>3 DEF NothingStaged
  <1>7. Pointed' /\ StagedIsNewer' /\ RunningIsWhole'
    BY <1>0, <1>1, <1>4, <1>5 DEF Pointed, StagedIsNewer, RunningIsWhole
  <1>8. LauncherKnows'
    BY <1>0, <1>3 DEF LauncherKnows, Installing, Verified, NothingStaged
  <1>9. SwapIsSafe'
    BY <1>0 DEF SwapIsSafe, WebIsServed
  <1>10. ASSUME ~stranded PROVE NotStranded'
    <2>1. IF pointers.current = m THEN FallsBack(m) ELSE Starts(pointers.current)
      BY <1>0, <1>10 DEF NotStranded, StagedIsSafe
    <2>2. pointers.previous # m /\ pointers.previous < m
      BY <1>0, <1>4, <2>1 DEF FallsBack, Pointed
    <2>3. Starts(pointers.previous)' <=> Starts(pointers.previous)
      BY <1>0, <1>2, <2>2 DEF Pointed, Starts
    <2>4. pointers.current # m => Starts(pointers.current)'
      BY <1>0, <1>1, <2>1 DEF Pointed, Starts
    <2>5. SomethingStarts'
      BY <1>0, <1>10, <2>1, <2>3, <2>4 DEF NotStranded, SomethingStarts, FallsBack, Starts
    <2>6. StagedIsSafe'
      BY <1>0, <1>5, <2>1, <2>3, <2>4 DEF StagedIsSafe, FallsBack
    <2>7. RunningRests'
      BY <1>0, <1>3, <1>4, <2>1, <2>3, <2>4 DEF RunningRests, CurrentIsSafe, FallsBack
    <2> QED  BY <1>3, <2>5, <2>6, <2>7 DEF NotStranded
  <1> QED  BY <1>0, <1>6, <1>7, <1>8, <1>9, <1>10

\* The previous version is on file before the current one is replaced.
LEMMA FlipKeeps == UpdateInv /\ (WritePrevious \/ WriteCurrent \/ ClearStaging) => UpdateInv'
  <1> SUFFICES ASSUME UpdateInv, WritePrevious \/ WriteCurrent \/ ClearStaging
               PROVE  UpdateInv'
    OBVIOUS
  <1> USE DEF UpdateInv, UpdateTypeOK
  <1> DEFINE m == launcher.version
  <1>0. /\ UNCHANGED <<installed, running, web, feed, bad, mishaps, stranded>>
        /\ launcher.at \in {"previous", "current", "clean"} /\ Verified
        /\ m = staging.marker /\ staging.zip = m /\ m \in Core
    BY DEF WritePrevious, WriteCurrent, ClearStaging, LauncherKnows, Installing, Verified
  <1>1. \A v : Starts(v)' <=> Starts(v)
    BY <1>0 DEF Starts
  <1>2. m <= feed /\ running < m /\ pointers.current <= m
    BY <1>0 DEF StagedIsNewer
  <1>3. ~stranded =>
          IF pointers.current = m THEN FallsBack(m) ELSE Starts(pointers.current)
    BY <1>0 DEF NotStranded, StagedIsSafe
  <1>4. SwapIsSafe' /\ RunningIsWhole'
    BY <1>0 DEF SwapIsSafe, WebIsServed, RunningIsWhole
  <1>5. CASE WritePrevious
    <2>1. /\ launcher' = [at |-> "current", version |-> m] /\ staging' = staging
          /\ pointers' = IF pointers.current # m
                         THEN [pointers EXCEPT !.previous = pointers.current] ELSE pointers
      BY <1>5 DEF WritePrevious, PreviousWritten, At
    <2>2. /\ pointers' \in Pointers /\ pointers'.current = pointers.current
          /\ pointers'.previous \in {pointers.current, pointers.previous}
      BY <2>1
    <2>3. UpdateTypeOK'
      BY <1>0, <2>1, <2>2
    <2>4. Pointed' /\ StagedIsNewer' /\ LauncherKnows'
      <3>1. Verified'
        BY <1>0, <2>1 DEF Verified
      <3>2. StagedIsNewer' /\ LauncherKnows'
        BY <1>0, <1>2, <2>1, <2>2, <3>1 DEF StagedIsNewer, LauncherKnows, Installing
      <3> QED  BY <1>0, <2>2, <3>2 DEF Pointed
    <2>5. ASSUME ~stranded PROVE NotStranded'
      <3>1. FallsBack(m)'
        BY <1>0, <1>1, <1>2, <1>3, <2>1, <2>5 DEF FallsBack, Pointed
      <3>2. StagedIsSafe' /\ SomethingStarts'
        BY <1>0, <1>1, <1>3, <2>1, <2>2, <2>5, <3>1
           DEF StagedIsSafe, SomethingStarts, FallsBack, Starts
      <3> QED  BY <1>0, <2>1, <3>1, <3>2 DEF NotStranded, RunningRests
    <2> QED  BY <1>0, <1>4, <2>3, <2>4, <2>5
  <1>6. CASE WriteCurrent
    <2>1. /\ launcher' = [at |-> "clean", version |-> m] /\ staging' = staging
          /\ pointers' = [pointers EXCEPT !.current = m]
      BY <1>6 DEF WriteCurrent, At
    <2>2. UpdateTypeOK'
      BY <1>0, <2>1
    <2>3. LauncherKnows' /\ StagedIsNewer'
      BY <1>0, <1>2, <2>1 DEF LauncherKnows, StagedIsNewer, Installing, Verified
    <2>4. Pointed'
      BY <1>0, <1>2, <2>1 DEF Pointed
    <2>5. ASSUME ~stranded PROVE NotStranded'
      <3>1. FallsBack(m)
        BY <1>6, <2>5 DEF WriteCurrent, NotStranded
      <3>2. FallsBack(m)'
        BY <1>1, <2>1, <3>1 DEF FallsBack
      <3>3. StagedIsSafe' /\ SomethingStarts'
        BY <1>0, <2>1, <3>2 DEF StagedIsSafe, SomethingStarts, FallsBack, Starts
      <3> QED  BY <1>0, <2>1, <3>2, <3>3 DEF NotStranded, RunningRests
    <2> QED  BY <1>0, <1>4, <2>2, <2>3, <2>4, <2>5
  <1>7. CASE ClearStaging
    <2>1. /\ launcher' = [at |-> "start", version |-> pointers.current]
          /\ staging' = NothingStaged /\ pointers' = pointers /\ ~Verified'
      BY <1>7 DEF ClearStaging, At, NothingStaged, Verified
    <2>2. UpdateTypeOK'
      BY <1>0, <2>1 DEF NothingStaged
    <2>3. Pointed' /\ StagedIsNewer' /\ LauncherKnows'
      BY <1>0, <2>1 DEF Pointed, StagedIsNewer, LauncherKnows, Installing
    <2>4. ASSUME ~stranded PROVE NotStranded'
      <3>1. pointers.current = m /\ FallsBack(m)'
        BY <1>1, <1>7, <2>1, <2>4 DEF ClearStaging, LauncherKnows, NotStranded, FallsBack
      <3>2. StagedIsSafe' /\ SomethingStarts'
        BY <1>1, <2>1, <2>4 DEF NotStranded, StagedIsSafe, SomethingStarts
      <3> QED  BY <1>0, <2>1, <3>1, <3>2 DEF NotStranded, RunningRests
    <2> QED  BY <1>0, <1>4, <2>2, <2>3, <2>4
  <1> QED  BY <1>5, <1>6, <1>7

\* Falling back, once: to a version that starts, or the launcher has done what it could.
LEMMA FallBackFacts ==
  ASSUME UpdateInv, NEW end \in Launcher, FallBack(pointers.current, end)
  PROVE  /\ pointers' \in Pointers /\ launcher' \in Launcher
         /\ pointers'.current = Reverted /\ pointers'.previous = pointers.previous
         /\ Reverted \in Core /\ Reverted <= pointers.current
         /\ pointers.previous <= Reverted
         /\ \/ launcher' = [at |-> "seed", version |-> Reverted] /\ Starts(Reverted)
            \/ launcher' = end /\ (Reverted = pointers.current \/ ~Starts(Reverted))
  <1>1. Reverted \in {pointers.current, pointers.previous} /\ Reverted \in Core
        /\ Reverted <= pointers.current /\ pointers.previous <= Reverted
    BY DEF UpdateInv, UpdateTypeOK, Pointed, Reverted
  <1>2. pointers' = [pointers EXCEPT !.current = Reverted]
        /\ IF Reverted # pointers.current /\ Starts(Reverted)
           THEN launcher' = [at |-> "seed", version |-> Reverted] ELSE launcher' = end
    BY DEF FallBack, At
  <1> HIDE DEF Reverted
  <1> QED  BY <1>1, <1>2 DEF UpdateInv, UpdateTypeOK

\* The current version starts, or the previous one does.
LEMMA StartKeeps == UpdateInv /\ StartPayload => UpdateInv'
  <1> SUFFICES ASSUME UpdateInv, StartPayload PROVE UpdateInv'
    OBVIOUS
  <1> USE DEF UpdateInv, UpdateTypeOK
  <1>0. /\ UNCHANGED <<installed, staging, running, web, feed, bad, mishaps, stranded>>
        /\ ~Verified /\ launcher.at = "start" /\ launcher.version = pointers.current
    BY DEF StartPayload, LauncherKnows
  <1>1. (\A v : Starts(v)' <=> Starts(v)) /\ ~Verified'
    BY <1>0 DEF Starts, Verified
  <1>2. SwapIsSafe' /\ RunningIsWhole' /\ StagedIsNewer'
    BY <1>0, <1>1 DEF SwapIsSafe, WebIsServed, RunningIsWhole, StagedIsNewer
  <1>3. CASE Starts(pointers.current)
    <2>1. launcher' = [at |-> "seed", version |-> pointers.current] /\ pointers' = pointers
      BY <1>0, <1>3 DEF StartPayload, At
    <2>2. UpdateTypeOK' /\ Pointed'
      BY <1>0, <2>1 DEF Pointed
    <2>3. LauncherKnows'
      BY <1>0, <1>1, <1>3, <2>1 DEF LauncherKnows, Installing
    <2>4. ASSUME ~stranded PROVE NotStranded'
      <3>1. RunningRests'
        BY <1>0, <1>1, <1>3, <2>1, <2>4
           DEF NotStranded, RunningRests, CurrentIsSafe, FallsBack
      <3>2. StagedIsSafe' /\ SomethingStarts'
        BY <1>0, <1>1, <2>1, <2>4 DEF NotStranded, StagedIsSafe, SomethingStarts
      <3> QED  BY <2>1, <3>1, <3>2 DEF NotStranded
    <2> QED  BY <1>0, <1>2, <2>2, <2>3, <2>4
  <1>4. CASE ~Starts(pointers.current)
    <2> DEFINE end == [at |-> "failed", version |-> pointers.current]
    <2>1. FallBack(pointers.current, end)
      BY <1>0, <1>4 DEF StartPayload
    <2>2. /\ pointers' \in Pointers /\ launcher' \in Launcher
          /\ pointers'.current = Reverted /\ pointers'.previous = pointers.previous
          /\ Reverted \in Core /\ Reverted <= pointers.current
          /\ pointers.previous <= Reverted
          /\ \/ launcher' = [at |-> "seed", version |-> Reverted] /\ Starts(Reverted)
             \/ launcher' = end /\ (Reverted = pointers.current \/ ~Starts(Reverted))
      BY <2>1, FallBackFacts
    <2>3. UpdateTypeOK' /\ Pointed'
      BY <1>0, <2>2 DEF Pointed
    <2>4. LauncherKnows'
      BY <1>0, <1>1, <2>2 DEF LauncherKnows, Installing
    <2>5. ASSUME ~stranded PROVE NotStranded'
      <3>1. /\ Reverted = pointers.previous /\ Starts(pointers.previous)
            /\ Reverted # pointers.current
        BY <1>4, <2>5 DEF NotStranded, SomethingStarts, Reverted
      <3>2. launcher' = [at |-> "seed", version |-> Reverted]
        BY <2>2, <3>1
      <3>3. running # 0 => pointers.previous < feed
        BY <1>0, <1>4, <2>5 DEF NotStranded, RunningRests, CurrentIsSafe, FallsBack, Pointed
      <3>4. RunningRests'
        BY <1>0, <1>1, <2>2, <3>1, <3>2, <3>3 DEF RunningRests, CurrentIsSafe
      <3>5. StagedIsSafe' /\ SomethingStarts'
        BY <1>0, <1>1, <2>2, <3>1 DEF StagedIsSafe, SomethingStarts
      <3> QED  BY <3>2, <3>4, <3>5 DEF NotStranded
    <2> QED  BY <1>0, <1>2, <2>3, <2>4, <2>5
  <1> QED  BY <1>3, <1>4

\* A payload that cannot seed the web client dies, and the launcher falls back.
LEMMA UnseededKeeps == UpdateInv /\ (CannotSeed \/ SeedFails) => UpdateInv'
  <1> SUFFICES ASSUME UpdateInv, CannotSeed \/ SeedFails PROVE UpdateInv'
    OBVIOUS
  <1> USE DEF UpdateInv, UpdateTypeOK
  <1>0. /\ UNCHANGED <<installed, staging, running, web, feed, bad, stranded>>
        /\ mishaps' \in 0..MaxMishaps
        /\ ~Verified /\ launcher.at = "seed" /\ running = 0
        /\ launcher.version = pointers.current
    BY DEF CannotSeed, SeedFails, Seeding, LauncherKnows
  <1>1. (\A v : Starts(v)' <=> Starts(v)) /\ ~Verified'
    BY <1>0 DEF Starts, Verified
  <1>2. SwapIsSafe' /\ RunningIsWhole' /\ StagedIsNewer'
    BY <1>0, <1>1 DEF SwapIsSafe, WebIsServed, RunningIsWhole, StagedIsNewer
  <1>3. PICK end \in Launcher :
          /\ FallBack(pointers.current, end)
          /\ end.at = "off" \/ (end.at = "failed" /\ ~web.stamped)
    <2>1. CASE CannotSeed
      BY <1>0, <2>1 DEF CannotSeed
    <2>2. CASE SeedFails
      BY <1>0, <2>2 DEF SeedFails, Off
    <2> QED  BY <2>1, <2>2
  <1>4. /\ pointers' \in Pointers /\ launcher' \in Launcher
        /\ pointers'.current = Reverted /\ pointers'.previous = pointers.previous
        /\ Reverted \in Core /\ Reverted <= pointers.current
        /\ pointers.previous <= Reverted
        /\ \/ launcher' = [at |-> "seed", version |-> Reverted] /\ Starts(Reverted)
           \/ launcher' = end /\ (Reverted = pointers.current \/ ~Starts(Reverted))
    BY <1>3, FallBackFacts
  <1>5. UpdateTypeOK' /\ Pointed'
    BY <1>0, <1>4 DEF Pointed
  <1>6. LauncherKnows'
    BY <1>0, <1>1, <1>3, <1>4 DEF LauncherKnows, Installing
  <1>7. ASSUME ~stranded PROVE NotStranded'
    <2>1. SomethingStarts'
      BY <1>0, <1>1, <1>4, <1>7 DEF NotStranded, SomethingStarts, Reverted
    <2> QED  BY <1>0, <1>1, <1>3, <1>4, <2>1 DEF NotStranded, StagedIsSafe, RunningRests
  <1> QED  BY <1>0, <1>2, <1>5, <1>6, <1>7

\* The payload leaves to the one that runs already, or seeds the web client and serves.
LEMMA ServeKeeps == UpdateInv /\ (AlreadyRunning \/ SeedRemoves \/ Serve) => UpdateInv'
  <1> SUFFICES ASSUME UpdateInv, AlreadyRunning \/ SeedRemoves \/ Serve PROVE UpdateInv'
    OBVIOUS
  <1> USE DEF UpdateInv, UpdateTypeOK
  <1>0. /\ UNCHANGED <<pointers, installed, staging, feed, bad, mishaps, stranded>>
        /\ ~Verified /\ launcher.version = pointers.current
        /\ Starts(pointers.current) /\ pointers.current \in Core /\ launcher.at = "seed"
    BY DEF AlreadyRunning, SeedRemoves, Serve, Seeding, LauncherKnows, Pointed
  <1>1. (\A v : Starts(v)' <=> Starts(v)) /\ ~Verified'
    BY <1>0 DEF Starts, Verified
  <1>2. Pointed' /\ StagedIsNewer' /\ (~stranded => StagedIsSafe' /\ SomethingStarts')
    BY <1>0, <1>1 DEF Pointed, StagedIsNewer, NotStranded, StagedIsSafe, SomethingStarts
  <1>3. CASE AlreadyRunning
    <2>1. UNCHANGED <<running, web>> /\ running # 0 /\ launcher' = Off
      BY <1>3 DEF AlreadyRunning
    <2>2. UpdateTypeOK' /\ LauncherKnows'
      BY <1>0, <2>1 DEF LauncherKnows, Installing, Off
    <2>3. SwapIsSafe' /\ RunningIsWhole'
      BY <1>0, <2>1 DEF SwapIsSafe, WebIsServed, RunningIsWhole
    <2>4. ~stranded => RunningRests'
      BY <1>0, <1>1, <2>1 DEF NotStranded, RunningRests, CurrentIsSafe, FallsBack, Off
    <2> QED  BY <1>0, <1>2, <2>1, <2>2, <2>3, <2>4 DEF NotStranded, Off
  <1>4. CASE SeedRemoves
    <2>1. UNCHANGED <<running, launcher>> /\ running = 0 /\ web' = [web EXCEPT !.dir = 0]
      BY <1>4 DEF SeedRemoves, Seeding
    <2>2. UpdateTypeOK'
      BY <1>0, <2>1
    <2>3. LauncherKnows' /\ RunningIsWhole'
      BY <1>0, <1>1, <2>1 DEF LauncherKnows, RunningIsWhole, Installing
    <2>4. SwapIsSafe'
      BY <2>1 DEF SwapIsSafe, WebIsServed
    <2> QED  BY <1>0, <1>2, <2>1, <2>2, <2>3, <2>4 DEF NotStranded, RunningRests
  <1>5. CASE Serve
    <2>1. /\ running = 0 /\ running' = pointers.current /\ launcher' = Off
          /\ web' = [web EXCEPT !.dir = Seeded(web.dir, pointers.current),
                                !.stamped = TRUE]
      BY <1>0, <1>5 DEF Serve, Seeding
    <2>2. Seeded(web.dir, pointers.current) \in Version
          /\ Seeded(web.dir, pointers.current) >= pointers.current
      BY <1>0 DEF Seeded
    <2>3. UpdateTypeOK' /\ LauncherKnows'
      BY <1>0, <2>1, <2>2 DEF LauncherKnows, Installing, Off
    <2>4. ~stranded => RunningRests'
      BY <1>0, <1>1, <2>1 DEF RunningRests, CurrentIsSafe, Starts, Off
    <2>5. SwapIsSafe' /\ RunningIsWhole'
      BY <1>0, <2>1, <2>2 DEF SwapIsSafe, WebIsServed, RunningIsWhole, Starts
    <2> QED  BY <1>0, <1>2, <2>1, <2>3, <2>4, <2>5 DEF NotStranded, Off
  <1> QED  BY <1>3, <1>4, <1>5

LEMMA UpdateStutters == UpdateInv /\ UNCHANGED updateVars => UpdateInv'
  BY DEF UpdateInv, UpdateTypeOK, Pointed, StagedIsNewer, StagedIsSafe, LauncherKnows,
         RunningIsWhole, RunningRests, Installing, SomethingStarts, NotStranded, SwapIsSafe,
         WebIsServed, Starts, FallsBack, CurrentIsSafe, Verified, updateVars
----------------------------------------------------------------------------
\* The inductive invariant of updating: something starts, wherever the update is, unless
\* a launcher that died left a running version stranded.
THEOREM UpdateInvariance == UpdateSpec => []UpdateInv
  <1>1. UpdateInv /\ [UpdateNext]_updateVars => UpdateInv'
    <2> SUFFICES ASSUME UpdateInv, [UpdateNext]_updateVars PROVE UpdateInv'
      OBVIOUS
    <2> QED  BY PublishKeeps, StagingKeeps, SwapKeeps, QuitKeeps, PowerLossKeeps,
                LauncherDiesKeeps, ApplyKeeps, UnpackKeeps, FlipKeeps, StartKeeps,
                UnseededKeeps, ServeKeeps, UpdateStutters
             DEF UpdateNext
  <1> QED  BY <1>1, UpdateInitially, PTL DEF UpdateSpec

\* Wherever an update was cut short, by a power loss or by an operation that failed, a
\* launch that is not itself cut short ends with a version that runs, but for the two
\* cases that LaunchEndsRunning names: a VERSION file that was cut short, and a launcher
\* that died and left a running version stranded (packaging/launcher.py, coreupdate.py).
THEOREM LaunchesEndRunning == UpdateSpec => []LaunchEndsRunning
  <1>1. UpdateInv => LaunchEndsRunning
    BY DEF UpdateInv, LaunchEndsRunning, NotStranded, RunningIsWhole, SomethingStarts
  <1> QED  BY <1>1, UpdateInvariance, PTL

\* A version that serves has a web client, which is not older than itself
\* (desktop.launch, update.apply_web, paths.seed_web_dir).
THEOREM WebClientIsServed == UpdateSpec => []WebIsServed
  <1>1. UpdateInv => WebIsServed
    BY DEF UpdateInv, SwapIsSafe
  <1> QED  BY <1>1, UpdateInvariance, PTL
=============================================================================
