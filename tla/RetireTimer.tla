----------------------------- MODULE RetireTimer -----------------------------
(***************************************************************************)
(* The retire timer of a gu_context (src/gu_stacktrace.c): a thread that   *)
(* publishes a coarse monotonic clock and raises retire_sweep_pending,     *)
(* and the owner of the context, which consumes the flag at the start of   *)
(* an API call and stops the thread in gu_cleanup().                       *)
(*                                                                         *)
(* The thread and the owner share four words, all of them C11 atomics      *)
(* accessed with acquire/release order, so every step below is one atomic  *)
(* access (or one system call).  GuCache runs the timer with the whole     *)
(* context.                                                                *)
(***************************************************************************)
EXTENDS Naturals

CONSTANTS
  MaxTime,      \* bound of the model: last value of the clock
  TimerStarts   \* subset of BOOLEAN: may gu_retire_timer_start() succeed / fail

ASSUME TimerConstants == MaxTime \in Nat \ {0} /\ TimerStarts \subseteq BOOLEAN

VARIABLES
  now,                    \* CLOCK_MONOTONIC; never 0 while the system runs
  retire_timer_now_ns,    \* atomic: last clock value the thread published
  retire_sweep_pending,   \* atomic: a sweep is due
  retire_timer_stop,      \* atomic: the thread must leave its loop
  event_fd_ready,         \* retire_timer_event_fd was written (never drained)
  retire_timer_started,   \* read and written by the owner only
  tpc,                    \* where the thread is
  now_ns                  \* the thread's copy of the clock, 0 when out of scope

threadVars == <<tpc, now_ns>>
atomics    == <<retire_timer_now_ns, retire_sweep_pending, retire_timer_stop,
                event_fd_ready>>
timerVars  == <<now, retire_timer_now_ns, retire_sweep_pending,
                retire_timer_stop, event_fd_ready, retire_timer_started,
                tpc, now_ns>>

(***************************************************************************)
(* gu_retire_timer_start(): clear the flags, publish the clock, create the *)
(* eventfd and the thread.  A failure of either call leaves                *)
(* retire_timer_started false and no thread.                               *)
(***************************************************************************)
gu_retire_timer_start ==
  /\ now = 1
  /\ retire_timer_stop = FALSE
  /\ retire_sweep_pending = FALSE
  /\ retire_timer_now_ns = now
  /\ event_fd_ready = FALSE
  /\ now_ns = 0
  /\ retire_timer_started \in TimerStarts
  /\ tpc = IF retire_timer_started THEN "loop" ELSE "exit"

Tick ==
  /\ now < MaxTime
  /\ now' = now + 1
  /\ UNCHANGED <<threadVars, atomics, retire_timer_started>>

(* Mutant: the stop flag is not tested.                                     *)
TestStopIgnored ==
  /\ tpc = "loop" /\ tpc' = "clock"
  /\ UNCHANGED <<now, now_ns, atomics, retire_timer_started>>

(* The thread, one action per atomic access of gu_retire_timer_thread(). *)
TestStop ==
  /\ tpc = "loop"
  /\ tpc' = IF retire_timer_stop THEN "exit" ELSE "clock"
  /\ UNCHANGED <<now, now_ns, atomics, retire_timer_started>>

(* Mutant: the clock is rounded up.                                         *)
ReadClockAhead ==
  /\ tpc = "clock" /\ tpc' = "publish"
  /\ now_ns' = now + 1
  /\ UNCHANGED <<now, atomics, retire_timer_started>>

ReadClock ==
  /\ tpc = "clock"
  /\ now_ns' = now
  /\ tpc' = "publish"
  /\ UNCHANGED <<now, atomics, retire_timer_started>>

StoreNow ==
  /\ tpc = "publish"
  /\ retire_timer_now_ns' = now_ns
  /\ now_ns' = 0
  /\ tpc' = "pend"
  /\ UNCHANGED <<now, retire_sweep_pending, retire_timer_stop,
                 event_fd_ready, retire_timer_started>>

(* Mutant: the flag is not raised.                                          *)
StorePendingLost ==
  /\ tpc = "pend" /\ tpc' = "poll"
  /\ UNCHANGED <<now, now_ns, atomics, retire_timer_started>>

StorePending ==
  /\ tpc = "pend"
  /\ retire_sweep_pending' = TRUE
  /\ tpc' = "poll"
  /\ UNCHANGED <<now, now_ns, retire_timer_now_ns, retire_timer_stop,
                 event_fd_ready, retire_timer_started>>

(* poll() returns because the eventfd is readable... *)
PollReady ==
  /\ tpc = "poll"
  /\ event_fd_ready
  /\ tpc' = "loop"
  /\ UNCHANGED <<now, now_ns, atomics, retire_timer_started>>

(* ...because GU_ELF_RETIRE_TIMER_INTERVAL_MS went by, or because a signal  *)
(* interrupted it and the stop flag is set (otherwise it polls again).      *)
PollTimeout ==
  /\ tpc = "poll"
  /\ tpc' = "loop"
  /\ UNCHANGED <<now, now_ns, atomics, retire_timer_started>>

(* Mutant: the flag is raised before the clock is published.                *)
PendingFirst ==
  \/ TestStop \/ ReadClock \/ PollReady \/ PollTimeout
  \/ /\ tpc = "publish" /\ tpc' = "pend"
     /\ retire_sweep_pending' = TRUE
     /\ UNCHANGED <<now, now_ns, retire_timer_now_ns, retire_timer_stop,
                    event_fd_ready, retire_timer_started>>
  \/ /\ tpc = "pend" /\ tpc' = "poll"
     /\ retire_timer_now_ns' = now_ns /\ now_ns' = 0
     /\ UNCHANGED <<now, retire_sweep_pending, retire_timer_stop,
                    event_fd_ready, retire_timer_started>>

gu_retire_timer_thread ==
  TestStop \/ ReadClock \/ StoreNow \/ StorePending \/ PollReady \/ PollTimeout

(***************************************************************************)
(* The owner's side.                                                       *)
(***************************************************************************)
(* gu_cache_now_ns(): the published clock while the timer runs. *)
gu_cache_now_ns ==
  IF retire_timer_started THEN retire_timer_now_ns ELSE now

(* The exchange that gu_maybe_sweep_retired_elf() does; due says whether it *)
(* found the flag raised.                                                   *)
ExchangePending(due) ==
  /\ due = retire_sweep_pending
  /\ retire_sweep_pending' = FALSE
  /\ UNCHANGED <<now, threadVars, retire_timer_now_ns, retire_timer_stop,
                 event_fd_ready, retire_timer_started>>

(* gu_retire_timer_stop(), in its three steps. *)
StoreStop ==
  /\ retire_timer_stop' = TRUE
  /\ UNCHANGED <<now, threadVars, retire_timer_now_ns, retire_sweep_pending,
                 event_fd_ready, retire_timer_started>>

WriteEvent ==
  /\ event_fd_ready' = TRUE
  /\ UNCHANGED <<now, threadVars, retire_timer_now_ns, retire_sweep_pending,
                 retire_timer_stop, retire_timer_started>>

Join ==
  /\ tpc = "exit"
  /\ retire_timer_started' = FALSE
  /\ UNCHANGED <<now, threadVars, atomics>>

-----------------------------------------------------------------------------
TimerTypeOK ==
  /\ now \in Nat \ {0}
  /\ retire_timer_now_ns \in Nat \ {0}
  /\ now_ns \in Nat
  /\ retire_sweep_pending \in BOOLEAN
  /\ retire_timer_stop \in BOOLEAN
  /\ event_fd_ready \in BOOLEAN
  /\ retire_timer_started \in BOOLEAN
  /\ tpc \in {"loop", "clock", "publish", "pend", "poll", "exit"}

(* The published clock never runs ahead of the real one, and the value the  *)
(* thread is about to publish is not older than the published one: the      *)
(* cached time never goes back (gu_stacktrace.c:167-190).                   *)
PublishedClock ==
  /\ retire_timer_now_ns <= now
  /\ tpc = "publish" => retire_timer_now_ns <= now_ns /\ now_ns <= now
=============================================================================
