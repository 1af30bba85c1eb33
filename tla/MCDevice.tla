------------------------------ MODULE MCDevice ------------------------------
(***************************************************************************)
(* What one device keeps and does on its own: its key files, its lock      *)
(* screen, the adding of another device and the update of its program.     *)
(* The four share no state, so each behaviour is a scenario of one of them *)
(* and leaves the others as they are.                                      *)
(***************************************************************************)
EXTENDS KeyFiles, LockScreen, Pairing, CoreUpdate

CONSTANTS m1, pin, phrase, phone1, phone2

VARIABLE scenario

deviceVars == <<scenario, vars, lockVars, pairVars, updateVars>>

\* After three failures in a row an attempt is let through after 5 units, after two
\* after one.
MCPenalty == [n \in 0..3 |-> CASE n = 3 -> 5 [] n = 2 -> 1 [] OTHER -> 0]

DeviceInit ==
  /\ scenario \in {"keys", "lock", "pairing", "update"}
  /\ Init /\ LockInit /\ PairInit /\ UpdateInit
  /\ scenario # "keys" => disk = NewFiles
  /\ scenario # "update" => bad = {}

KeysStep ==
  /\ scenario = "keys" /\ Next
  /\ UNCHANGED <<scenario, lockVars, pairVars, updateVars>>

LockStep ==
  /\ scenario = "lock" /\ LockNext
  /\ UNCHANGED <<scenario, vars, pairVars, updateVars>>

PairStep ==
  /\ scenario = "pairing" /\ PairNext
  /\ UNCHANGED <<scenario, vars, lockVars, updateVars>>

UpdateStep ==
  /\ scenario = "update" /\ UpdateNext
  /\ UNCHANGED <<scenario, vars, lockVars, pairVars>>

DeviceNext == KeysStep \/ LockStep \/ PairStep \/ UpdateStep

DeviceSpec == DeviceInit /\ [][DeviceNext]_deviceVars

\* Every value of the four components is of its type.
DeviceTypeOK == TypeOK /\ LockTypeOK /\ PairTypeOK /\ UpdateTypeOK
=============================================================================
