---------------------------- MODULE MCOrderNotify ----------------------------
(* Model checking instances of OrderNotify.                                *)
EXTENDS OrderNotify, TLC

(* A backlog: every order is confirmed and queued, a first send to each    *)
(* customer timed out after it had arrived, and any of them may have let   *)
(* the 24 hour window close since.                                         *)
BacklogInit ==
  /\ status = [o \in Orders |-> "confirmed"]
  /\ pending = [o \in Orders |-> TRUE]
  /\ notified = [o \in Orders |-> "none"]
  /\ age = [o \in Orders |-> Grace]
  /\ enabled = TRUE
  /\ open \in SUBSET Orders
  /\ proc = [p \in Processes |-> Idle]
  /\ batch = {}
  /\ mishaps = 0
  /\ delivered = [o \in Orders |-> {"confirmed"}]
  /\ waived = {}
  /\ overtaken = {}
  /\ unsure = Orders

BacklogSpec == BacklogInit /\ [][Next]_vars /\ Fairness

Symmetry == Permutations(Admins)
=============================================================================
