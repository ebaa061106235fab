------------------------------- MODULE Timers -------------------------------
(***************************************************************************)
(* timer_handler of lib/include/srsran/common/timers.h: the timers of all  *)
(* the protocol layers, kept in a wheel of lists indexed by the low bits   *)
(* of their timeout.  step_all walks the list of the next tic, and lets go *)
(* of the mutex while it calls a callback; the callback, and any other     *)
(* thread, may then run, set, stop or release timers of the same list.     *)
(***************************************************************************)
EXTENDS Naturals, Sequences, FiniteSets, Functions

CONSTANTS Timers,       \* the elements of timer_list
          WheelSize,    \* WHEEL_SIZE
          TicMod,       \* number of values of tic_t
          Durations,    \* the durations the users ask for
          NoTimer       \* nullptr, the end of a list

ASSUME WheelAssumption ==
  /\ WheelSize \in Nat \ {0} /\ TicMod \in Nat \ {0} /\ TicMod % WheelSize = 0
  /\ \A d \in Durations : d \in 0..(TicMod - 1)
  /\ IsFiniteSet(Timers) /\ NoTimer \notin Timers

VARIABLES state,       \* mode, duration and timeout of each timer (timer_impl::state)
          allocated,   \* the timers that a unique_timer holds; the others are in free_list
          callback,    \* the timers that have a callback
          wheel,       \* time_wheel: a list of timers per position
          cur_time,
          nof_running, \* nof_timers_running_
          pc,          \* step_all: "idle", "loop" (mutex held) or "callback" (mutex released)
          it,          \* the iterator of step_all
          calling,     \* the timer whose callback is in progress
          exposed      \* history: the timers that the step in progress may get wrong

(* Lists.  SequencesExt has these operators, and extends Bags, whose       *)
(* library of theorems would be in the context of every proof.             *)
Contains(s, e) == \E i \in 1..Len(s) : s[i] = e
RemoveAt(s, i) == SubSeq(s, 1, i - 1) \o SubSeq(s, i + 1, Len(s))

users == <<state, allocated, callback, wheel, nof_running>>
vars == <<users, cur_time, pc, it, calling, exposed>>

Unset == [mode |-> "stopped", duration |-> 0, timeout |-> 0]
Running(t) == state[t].mode = "running"
Pos(timeout) == timeout % WheelSize

Init ==
  /\ state = [t \in Timers |-> Unset]
  /\ allocated = {} /\ callback = {}
  /\ wheel = [p \in 0..(WheelSize - 1) |-> <<>>]
  /\ cur_time = 0 /\ nof_running = 0
  /\ pc = "idle" /\ it = NoTimer /\ calling = NoTimer /\ exposed = {}
-----------------------------------------------------------------------------
(* intrusive_double_linked_list::pop and push_front.                       *)
NodeOf(l, t) == CHOOSE i \in DOMAIN l : l[i] = t
Pop(w, t) == [w EXCEPT ![Pos(state[t].timeout)] = RemoveAt(@, NodeOf(@, t))]
PushFront(w, p, t) == [w EXCEPT ![p] = <<t>> \o @]

(* next_node of an element: pop has reset it for one that is in no list.   *)
NextNode(t) ==
  LET in == {p \in DOMAIN wheel : Contains(wheel[p], t)}
  IN  IF in = {} THEN NoTimer
      ELSE LET l == wheel[CHOOSE p \in in : TRUE]
               i == NodeOf(l, t)
           IN  IF i = Len(l) THEN NoTimer ELSE l[i + 1]

(* A timer that runs is not taken from its old position.                   *)
StartRunNoPop(t, d) ==
  LET timeout == (cur_time + d) % TicMod
  IN  /\ state' = [state EXCEPT ![t] = [mode |-> "running", duration |-> d, timeout |-> timeout]]
      /\ wheel' = PushFront(wheel, Pos(timeout), t)
      /\ nof_running' = nof_running + 1

(* The timeout does not wrap with the tics.                                *)
StartRunNoWrap(t, d) ==
  /\ state' = [state EXCEPT ![t] = [mode |-> "running", duration |-> d, timeout |-> cur_time + d]]
  /\ wheel' = PushFront(IF Running(t) THEN Pop(wheel, t) ELSE wheel, Pos(cur_time + d), t)
  /\ nof_running' = IF Running(t) THEN nof_running ELSE nof_running + 1

start_run_(t, d) ==
  LET timeout == (cur_time + d) % TicMod
      same    == Running(t) /\ Pos(state[t].timeout) = Pos(timeout)
      w       == IF Running(t) THEN Pop(wheel, t) ELSE wheel
  IN  /\ state' = [state EXCEPT ![t] = [mode |-> "running", duration |-> d, timeout |-> timeout]]
      /\ wheel' = IF same THEN wheel ELSE PushFront(w, Pos(timeout), t)
      /\ nof_running' = IF Running(t) THEN nof_running ELSE nof_running + 1

stop_timer_(t, mode) ==
  /\ wheel' = IF Running(t) THEN Pop(wheel, t) ELSE wheel
  /\ state' = IF Running(t) THEN [state EXCEPT ![t].mode = mode] ELSE state
  /\ nof_running' = IF Running(t) THEN nof_running - 1 ELSE nof_running
-----------------------------------------------------------------------------
(* The users' calls lock the mutex, so they wait while step_all holds it,  *)
(* and not while it calls a callback.  A call exposes the timers it starts *)
(* for the tic in progress: they come before the iterator.  A call that    *)
(* takes the timer of the iterator out of its list exposes them all.       *)
now == (cur_time + 1) % TicMod

Exposes(S) ==
  exposed' = IF pc # "callback" THEN exposed
             ELSE IF it # NoTimer /\ ~Contains(wheel'[Pos(now)], it) THEN Timers
             ELSE exposed \union {t \in S : state'[t].mode = "running" /\ state'[t].timeout = now}

NotUsers == pc # "loop" /\ UNCHANGED <<cur_time, pc, it, calling>>

(* get_unique_timer: alloc_timer takes a timer from the free list.         *)
alloc_timer(t) ==
  /\ t \notin allocated
  /\ allocated' = allocated \union {t}
  /\ UNCHANGED <<state, callback, wheel, nof_running, exposed>> /\ NotUsers

AtLeastOne(d) == IF d = 0 THEN 1 ELSE d

(* unique_timer::set, with or without a callback: a running timer starts   *)
(* again with the new duration.                                            *)
set(t, d, cb) ==
  /\ t \in allocated
  /\ IF Running(t) THEN start_run_(t, AtLeastOne(d))
     ELSE /\ state' = [state EXCEPT ![t] = [Unset EXCEPT !.duration = AtLeastOne(d)]]
          /\ UNCHANGED <<wheel, nof_running>>
  /\ callback' = IF cb THEN callback \union {t} ELSE callback
  /\ UNCHANGED allocated /\ NotUsers /\ Exposes({t})

run(t) ==
  /\ t \in allocated
  /\ start_run_(t, state[t].duration)
  /\ UNCHANGED <<allocated, callback>> /\ NotUsers /\ Exposes({t})

stop(t) ==
  /\ t \in allocated
  /\ stop_timer_(t, "stopped")
  /\ UNCHANGED <<allocated, callback>> /\ NotUsers /\ Exposes({t})

(* unique_timer::release: dealloc_timer_ stops the timer and forgets it.   *)
release(t) ==
  /\ t \in allocated
  /\ allocated' = allocated \ {t} /\ callback' = callback \ {t}
  /\ wheel' = IF Running(t) THEN Pop(wheel, t) ELSE wheel
  /\ nof_running' = IF Running(t) THEN nof_running - 1 ELSE nof_running
  /\ state' = [state EXCEPT ![t] = Unset]
  /\ NotUsers /\ Exposes({t})

stop_all ==
  /\ state' = [t \in Timers |-> IF Running(t) THEN [state[t] EXCEPT !.mode = "stopped"] ELSE state[t]]
  /\ wheel' = [p \in DOMAIN wheel |-> <<>>]
  /\ nof_running' = 0
  /\ UNCHANGED <<allocated, callback>> /\ NotUsers /\ Exposes(Timers)
-----------------------------------------------------------------------------
(* step_all, from one change of the mutex or of the iterator to the next.  *)
StepBegin ==
  /\ pc = "idle" /\ pc' = "loop"
  /\ LET l == wheel[Pos(now)] IN it' = IF l = <<>> THEN NoTimer ELSE l[1]
  /\ UNCHANGED <<users, cur_time, calling, exposed>>

(* Every timer of the position expires, those of a later round as well.    *)
VisitAnyRound ==
  /\ pc = "loop" /\ it # NoTimer
  /\ it' = NextNode(it)
  /\ stop_timer_(it, "expired")
  /\ calling' = IF it \in callback THEN it ELSE NoTimer
  /\ pc' = IF it \in callback THEN "callback" ELSE "loop"
  /\ UNCHANGED <<allocated, callback, cur_time, exposed>>

(* The iterator moves on before the timer it points to is looked at.       *)
Visit ==
  /\ pc = "loop" /\ it # NoTimer
  /\ it' = NextNode(it)
  /\ IF state[it].timeout = now
     THEN /\ stop_timer_(it, "expired")
          /\ calling' = IF it \in callback THEN it ELSE NoTimer
          /\ pc' = IF it \in callback THEN "callback" ELSE "loop"
     ELSE UNCHANGED <<state, wheel, nof_running, calling, pc>>
  /\ UNCHANGED <<allocated, callback, cur_time, exposed>>

CallbackReturns ==
  /\ pc = "callback" /\ pc' = "loop" /\ calling' = NoTimer
  /\ UNCHANGED <<users, cur_time, it, exposed>>

StepEnd ==
  /\ pc = "loop" /\ it = NoTimer
  /\ cur_time' = now /\ pc' = "idle" /\ exposed' = {}
  /\ UNCHANGED <<users, it, calling>>

step_all == StepBegin \/ Visit \/ CallbackReturns \/ StepEnd

Next ==
  \/ \E t \in Timers : alloc_timer(t) \/ run(t) \/ stop(t) \/ release(t)
  \/ \E t \in Timers, d \in Durations, cb \in BOOLEAN : set(t, d, cb)
  \/ stop_all \/ step_all

Spec == Init /\ [][Next]_vars
-----------------------------------------------------------------------------
TypeOK ==
  /\ state \in [Timers -> [mode : {"stopped", "running", "expired"},
                           duration : Durations \union {0, 1}, timeout : 0..(TicMod - 1)]]
  /\ callback \subseteq allocated /\ allocated \subseteq Timers
  /\ \A p \in DOMAIN wheel : wheel[p] \in Seq(Timers)
  /\ cur_time \in 0..(TicMod - 1) /\ nof_running \in 0..Cardinality(Timers)
  /\ pc \in {"idle", "loop", "callback"}
  /\ {it, calling} \subseteq Timers \union {NoTimer} /\ exposed \subseteq Timers

(* The wheel and the timers agree after any sequence of calls, whoever     *)
(* makes them: a timer is linked once, at the position of its timeout,     *)
(* exactly while it runs, and nof_running_timers() is their number.        *)
WheelHoldsRunning ==
  /\ \A p \in DOMAIN wheel :
       /\ IsInjective(wheel[p])
       /\ Range(wheel[p]) = {t \in Timers : Running(t) /\ Pos(state[t].timeout) = p}
  /\ nof_running = Cardinality({t \in Timers : Running(t)})

(* The wheel implements timers that count down: each one expires in the    *)
(* step_all that its duration says, after any calls before and during the  *)
(* callbacks; time passes over none that is due and no stopped one is      *)
(* called, but for the ones that a call during a callback has exposed      *)
(* (timers.h:249-276, 353-395).                                            *)
duration == [t \in Timers |-> state[t].duration]
left == [t \in Timers |-> IF Running(t) THEN 1 + ((state[t].timeout + TicMod - now) % TicMod) ELSE 0]

Countdown == INSTANCE CountdownTimers WITH Durations <- {AtLeastOne(d) : d \in Durations}, Turn <- TicMod
ImplementsCountdown == Countdown!Spec
=============================================================================
