--------------------------- MODULE MCTimerManager ---------------------------
(* Two timers and two goroutines for each, so that a removed timer can be   *)
(* listed again while its first goroutine still sends.                      *)
EXTENDS TimerManager, TLC

MCSymmetry == Permutations(Timer)
=============================================================================
