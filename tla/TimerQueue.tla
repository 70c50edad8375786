----------------------------- MODULE TimerQueue -----------------------------
(***************************************************************************)
(* What the timers of the stack promise, with times that are integers and  *)
(* never wrap, and no list: every armed timer has a time left, which may   *)
(* be negative when it is overdue.  A timer runs when its time is up and   *)
(* no other has been due for longer; one handler runs at a time.  A cyclic *)
(* timer keeps its rhythm from one due time to the next and skips what it  *)
(* has missed; the timer on demand starts anew each time.                  *)
(***************************************************************************)
EXTENDS Integers

CONSTANTS
  Cyclic,      \* the timers that always run
  OnDemand,    \* the timer that runs while it is needed
  Interval     \* the period of each

VARIABLES
  left,        \* time left of each armed timer
  running,     \* the timer whose handler runs, or None
  late         \* and its time left, zero or less, zero if there is none

vars == <<left, running, late>>

Timers == Cyclic \cup {OnDemand}
None   == "none"

Init ==
  /\ left = [h \in Cyclic |-> Interval[h]]
  /\ running = None
  /\ late = 0

Armed == DOMAIN left
With(h, time)  == [g \in Armed \cup {h} |-> IF g = h THEN time ELSE left[g]]
Without(h)     == [g \in Armed \ {h} |-> left[g]]

TimePasses ==
  /\ left' = [h \in Armed |-> left[h] - 1]
  /\ late' = IF running = None THEN 0 ELSE late - 1
  /\ UNCHANGED running

Run(h) ==
  /\ running = None
  /\ left[h] <= 0
  /\ \A g \in Armed : left[h] <= left[g]
  /\ running' = h
  /\ late' = left[h]
  /\ left' = Without(h)

\* A cyclic handler is done.
Repeat ==
  /\ running \in Cyclic
  /\ LET next == late + Interval[running]
     IN left' = With(running, IF next < 0 THEN Interval[running] ELSE next)
  /\ running' = None
  /\ late' = 0

\* The handler of the timer on demand is done.
RepeatOrStop ==
  /\ running = OnDemand
  /\ left' \in {left, With(OnDemand, Interval[OnDemand])}
  /\ running' = None
  /\ late' = 0

Start ==
  /\ running = None
  /\ OnDemand \notin Armed
  /\ left' = With(OnDemand, Interval[OnDemand])
  /\ UNCHANGED <<running, late>>

Next == TimePasses \/ (\E h \in Armed : Run(h)) \/ Repeat \/ RepeatOrStop \/ Start

Spec == Init /\ [][Next]_vars
=============================================================================
