-------------------------------- MODULE Timer --------------------------------
(***************************************************************************)
(* The ticking timer of Timer.cpp.  A timer is a record:                   *)
(*   run    -- FALSE for t_stop, TRUE for t_run and t_reset: a reset only   *)
(*             begins the current period anew, and periods have no length  *)
(*             here;                                                       *)
(*   thread -- "none" while timerThread is NULL, "live" while timerTask    *)
(*             loops, "dead" when timerTask has returned and timerThread   *)
(*             still points to the thread object.                          *)
(* "self" says which thread calls: "timer" is the timer's own thread,      *)
(* inside onTimerTick; "consumer" and "console" are other threads.         *)
(***************************************************************************)
EXTENDS Naturals

TimerType == [run : BOOLEAN, thread : {"none", "live", "dead"}]

\* The constructor: stopped, no thread.
NewTimer == [run |-> FALSE, thread |-> "none"]

\* A tick can come only from a thread that loops while the state is t_run.
Ticks(t) == t.run /\ t.thread = "live"

\* start() makes a thread only when there is none: a dead one is not replaced.
StartTimer(t) ==
  [run |-> TRUE, thread |-> IF t.thread = "none" THEN "live" ELSE t.thread]

\* reset() has an effect on a running timer only, and none that is seen here.
ResetTimer(t) == t

\* stop() returns at once on a stopped timer.  Else it joins and deletes the
\* thread, except when the timer thread itself is the caller.
StopTimer(self, t) ==
  IF ~t.run THEN t
  ELSE [run |-> FALSE, thread |-> IF self = "timer" THEN t.thread ELSE "none"]

\* A thread that finds its timer stopped leaves its loop; after a stop by
\* itself nobody joins it.  A start before that keeps it.
LeavesLoop(t) == t.thread = "live" /\ ~t.run

LeftLoop(t) == [t EXCEPT !.thread = "dead"]

=============================================================================
