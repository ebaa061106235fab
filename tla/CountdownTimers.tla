--------------------------- MODULE CountdownTimers ---------------------------
(***************************************************************************)
(* What timer_handler promises its users, with no wheel: each timer that   *)
(* runs counts the tics it has left, from the duration it was set to; its  *)
(* callback is called at the tic that makes it zero, and not for a timer   *)
(* that was stopped.  The promise has a gap, the timers exposed in a tic:  *)
(* a call made while a callback is in progress exposes the timer it starts *)
(* for a single tic, and may expose all of them if it touches a timer of   *)
(* the slot that is being visited.  An exposed timer may be passed over,   *)
(* to run for a whole turn of the clock, or called after it was stopped.   *)
(***************************************************************************)
EXTENDS Naturals

CONSTANTS Timers, WheelSize, NoTimer,
          Durations,  \* the durations a timer may be set to
          Turn        \* the tics of a whole turn of the clock

VARIABLES duration, \* what each timer is set to, 0 for one that is not
          left,     \* tics until a running timer expires, 0 for one that does not run
          calling,  \* the timer whose callback is in progress, or NoTimer
          exposed   \* the timers that the tic in progress may get wrong

vars == <<duration, left, calling, exposed>>

Init ==
  /\ duration = [t \in Timers |-> 0] /\ left = [t \in Timers |-> 0]
  /\ calling = NoTimer /\ exposed = {}

\* It would be due in this tic, or as many turns of the wheel later.
InSlot(t) == left[t] # 0 /\ left[t] % WheelSize = 1 % WheelSize

\* What a call upon the timers of S exposes.
Exposes(S) ==
  \/ exposed' = exposed \cup {t \in S : calling # NoTimer /\ left'[t] = 1}
  \/ calling # NoTimer /\ (\E t \in S : InSlot(t)) /\ exposed' = Timers

Set(t, d) ==
  /\ UNCHANGED calling
  /\ duration' = [duration EXCEPT ![t] = d]
  /\ left' = IF left[t] = 0 THEN left ELSE [left EXCEPT ![t] = d]
  /\ Exposes({t})

\* A timer that was never set runs for a whole turn.
Run(t) ==
  /\ UNCHANGED <<calling, duration>>
  /\ left' = [left EXCEPT ![t] = IF duration[t] = 0 THEN Turn ELSE duration[t]]
  /\ Exposes({t})

Stop(t) ==
  /\ UNCHANGED calling
  /\ left' = [left EXCEPT ![t] = 0]
  /\ duration' \in {duration, [duration EXCEPT ![t] = 0]}
  /\ Exposes({t})

StopAll ==
  /\ UNCHANGED <<calling, duration>>
  /\ left' = [t \in Timers |-> 0]
  /\ Exposes(Timers)

\* A timer in its last tic expires, with or without a callback to call.
Expire(t) ==
  /\ calling = NoTimer /\ left[t] = 1
  /\ left' = [left EXCEPT ![t] = 0]
  /\ calling' \in {t, NoTimer}
  /\ UNCHANGED <<duration, exposed>>

\* A callback nobody waits for.
CallStopped(t) ==
  /\ calling = NoTimer /\ left[t] = 0 /\ t \in exposed
  /\ calling' = t
  /\ UNCHANGED <<duration, left, exposed>>

Return == calling # NoTimer /\ calling' = NoTimer /\ UNCHANGED <<duration, left, exposed>>

\* Time passes over no timer in its last tic, unless it is exposed.
Tic ==
  /\ calling = NoTimer /\ \A t \in Timers : left[t] = 1 => t \in exposed
  /\ left' = [t \in Timers |-> IF left[t] = 1 THEN Turn ELSE IF left[t] = 0 THEN 0 ELSE left[t] - 1]
  /\ exposed' = {} /\ UNCHANGED <<duration, calling>>

Next == \/ Return \/ Tic \/ StopAll
        \/ \E t \in Timers : \/ Expire(t) \/ CallStopped(t) \/ Stop(t) \/ Run(t)
                             \/ \E d \in Durations : Set(t, d)

Spec == Init /\ [][Next]_vars
=============================================================================
