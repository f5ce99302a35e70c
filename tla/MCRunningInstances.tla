------------------------ MODULE MCRunningInstances --------------------------
(* Three goroutines on two instance keys; four addresses leave a fresh one  *)
(* for every new entry while old ones are still remembered.                 *)
EXTENDS RunningInstances, TLC

MCSymmetry == Permutations(Goroutine) \union Permutations(Key)
              \union Permutations(Entry)
=============================================================================
