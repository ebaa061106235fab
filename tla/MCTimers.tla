------------------------------ MODULE MCTimers ------------------------------
(* The timers of timer_handler are interchangeable.                        *)
EXTENDS Timers, TLC

TimerSymmetry == Permutations(Timers)
=============================================================================
