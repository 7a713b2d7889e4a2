---------------------------- MODULE MCChatPipeline ----------------------------
(* Model checking instances of ChatPipeline.                               *)
EXTENDS ChatPipeline, TLC

CONSTANTS m1, m2, m3, c1, c2, c3

(* Every message is the first customer's.                                  *)
OneWriter == [m \in Msgs |-> c1]

(* The first message is the first customer's, the rest the second's.       *)
TwoWriters == [m \in Msgs |-> IF m = m1 THEN c1 ELSE c2]

(* A message of each of three customers.                                   *)
ThreeWriters == [m \in Msgs |-> IF m = m1 THEN c1 ELSE IF m = m2 THEN c2 ELSE c3]

(* Everybody follows the page for good, so the gate makes no difference.   *)
FollowedInit == Init /\ gateEnabled = TRUE
FollowedSpec == FollowedInit /\ [][Next]_vars /\ Fairness

Symmetry == Permutations(ZernioCalls)
=============================================================================
