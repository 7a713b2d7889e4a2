-------------------------- MODULE MCOrderLifecycle --------------------------
(* Model checking instance of OrderLifecycle: two handlers race over two   *)
(* orders of one product.                                                  *)
EXTENDS OrderLifecycle, TLC

Levels == {0, 1}

Symmetry == Permutations(Requests) \cup Permutations(Keys)
=============================================================================
