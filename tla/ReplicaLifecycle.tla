-------------------------- MODULE ReplicaLifecycle --------------------------
(***************************************************************************)
(* What the store promises of every message at every node, seen from afar: *)
(* a node lacks a message, then shows it, then buries it.  What it shows   *)
(* never vanishes without being buried, and what it buried it never shows  *)
(* again.                                                                  *)
(***************************************************************************)
CONSTANTS Node, Id

VARIABLES shown, buried

vars == <<shown, buried>>

Init == shown = [n \in Node |-> {}] /\ buried = [n \in Node |-> {}]

Step(n) ==
  /\ shown'[n] \union buried'[n] \subseteq Id
  /\ shown'[n] \intersect buried'[n] = {}
  /\ buried[n] \subseteq buried'[n]
  /\ shown[n] \subseteq shown'[n] \union buried'[n]

Next == \A n \in Node : Step(n)

Spec == Init /\ [][Next]_vars
=============================================================================
