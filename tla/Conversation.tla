----------------------------- MODULE Conversation -----------------------------
(***************************************************************************)
(* What process_incoming_message and the panel promise of a customer's     *)
(* history, one indivisible step per promise: a customer is enrolled, an   *)
(* Instagram message id enters the history once and only of an enrolled    *)
(* customer, it is replied to at most once and only when it is there, and  *)
(* deleting the customer takes the whole history along.  Workers, the      *)
(* lookups that precede an insert, sending and restarts are absent here:   *)
(* ChatPipeline has them and is shown to implement this module.            *)
(***************************************************************************)
EXTENDS Naturals

CONSTANTS People,  \* Instagram users
          Ids,     \* Instagram message ids
          Writer   \* who wrote the message of an id

VARIABLES enrolled, \* the customers
          known,    \* the ids in the history
          replies   \* how many replies to an id were recorded

vars == <<enrolled, known, replies>>

Init == /\ enrolled = {}
        /\ known = {}
        /\ replies = [i \in Ids |-> 0]

Enrol(c) == /\ c \notin enrolled
            /\ enrolled' = enrolled \cup {c}
            /\ UNCHANGED <<known, replies>>

Receive(i) == /\ Writer[i] \in enrolled
              /\ i \notin known
              /\ known' = known \cup {i}
              /\ UNCHANGED <<enrolled, replies>>

Reply(i) == /\ i \in known
            /\ replies[i] = 0
            /\ replies' = [replies EXCEPT ![i] = 1]
            /\ UNCHANGED <<enrolled, known>>

Forget(c) == /\ c \in enrolled
             /\ enrolled' = enrolled \ {c}
             /\ known' = {i \in known : Writer[i] # c}
             /\ replies' = [i \in Ids |-> IF Writer[i] = c THEN 0 ELSE replies[i]]

Next == \/ \E c \in People : Enrol(c) \/ Forget(c)
        \/ \E i \in Ids : Receive(i) \/ Reply(i)

Spec == Init /\ [][Next]_vars
=============================================================================
