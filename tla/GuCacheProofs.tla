---------------------------- MODULE GuCacheProofs ----------------------------
(***************************************************************************)
(* The caches keep their invariants for any number of processes, ELF       *)
(* files, mappings and clock ticks: reference counts, gauges, deadlines,   *)
(* no missed sweep, nothing freed early, live metadata during an unwind,   *)
(* a cleanup that leaves nothing; and they implement SharedEntries.  Last, *)
(* which process a context is about: start times, caller metadata and what *)
(* the listeners were told, through PID reuse and reloads.                 *)
(***************************************************************************)
EXTENDS GuCallProofs

(* Only the clock, the thread and the exchange and stop of the owner touch  *)
(* the timer.                                                               *)
LEMMA TimerNext ==
  ASSUME TimerTypeOK, PublishedClock, Next
  PROVE  TimerTypeOK' /\ PublishedClock'
  <1>1. CASE UNCHANGED timerVars
    BY <1>1 DEF timerVars, TimerTypeOK, PublishedClock
  <1>2. CASE Environment
    BY <1>1, <1>2, TimerStepOK DEF Environment, Fork, Exit
  <1>3. CASE ApiCall
    BY Zenon, <1>1, <1>3 DEF ApiCall, gu_unwind, gu_preload_pid_debug_info, gu_event_occur,
                      gu_set_pid_private_info
  <1>4. CASE gu_maybe_sweep_retired_elf
    BY ZenonT(30), <1>1, <1>4, OwnerStepOK DEF gu_maybe_sweep_retired_elf
  <1>5. CASE gu_cleanup
    BY Zenon, <1>1, <1>5, OwnerStepOK DEF gu_cleanup
  <1>6. CASE CallStep /\ ~gu_maybe_sweep_retired_elf
    BY Zenon, <1>1, <1>6 DEF CallStep, SweepLoad, Body, Kill, gu_get_maps_info, LoadMapping, LoadDone,
                      SearchHit, SearchMiss, gu_reload_pid_ctx, SearchNull, StopUnwind, Clear
  <1> QED BY <1>2, <1>3, <1>4, <1>5, <1>6 DEF Next

(* Steps that leave the ELF cache and the maps intervals alone keep all     *)
(* that is said about them.                                                 *)
LEMMA ElfKept ==
  ASSUME ElfInv, UNCHANGED <<elfVars, map_ctx>>
  PROVE  ElfInv'
  BY DEF ElfInv, ElfTypes, ElfStatistics, elfVars, RefcountExact, RetiredIffUnreferenced,
         NextDeadlineCovers, Refs

(* What a step may do to the ELF cache and the maps intervals. *)
Untouched == UNCHANGED <<elfVars, map_ctx>>
Swept     == \E t \in Nat, all \in BOOLEAN :
               /\ t <= now /\ (all => apc = "cleanup")
               /\ gu_retired_elf_sweep(t, all) /\ UNCHANGED map_ctx
Loaded    == \E e \in Elf, s \in Slot :
               load_elf(e) /\ map_ctx[s] = NoElf /\ map_ctx' = [map_ctx EXCEPT ![s] = e]
Bounced   == \E e \in Elf : LoadThenPut(e) /\ UNCHANGED map_ctx
Put       == \E e \in Elf, s \in Slot :
               gu_put_elf_ctx(e) /\ map_ctx[s] = e /\ map_ctx' = [map_ctx EXCEPT ![s] = NoElf]

(* Every step of the program does one of these, and a load writes into an   *)
(* empty interval.                                                          *)
LEMMA ElfSteps ==
  ASSUME ElfTypes, CallTypes, ControlOK, SlotsOwned, TimerTypeOK, PublishedClock, Next
  PROVE  Untouched \/ Swept \/ Loaded \/ Bounced \/ Put
  <1>0. now \in Nat /\ retire_timer_now_ns \in Nat /\ retire_timer_now_ns <= now /\ now <= now
    BY DEF TimerTypeOK, PublishedClock
  <1>1. CASE Environment
    BY <1>1 DEF Environment, Fork, Exit, pidVars, Untouched
  <1>2. CASE ApiCall
    BY Zenon, <1>2 DEF ApiCall, gu_unwind, gu_preload_pid_debug_info, gu_event_occur,
                gu_set_pid_private_info, pidVars, Untouched
  <1>3. CASE gu_maybe_sweep_retired_elf
    <2>1. CASE gu_retired_elf_sweep(now, FALSE) /\ UNCHANGED pidVars
      BY Zenon, <1>0, <2>1 DEF Swept, pidVars
    <2> QED BY Zenon, <1>3, <2>1 DEF gu_maybe_sweep_retired_elf, pidVars, Untouched
  <1>4. CASE SweepLoad
    BY Zenon, <1>0, <1>4 DEF SweepLoad, pidVars, Swept
  <1>5. CASE Body
    BY <1>5 DEF Body, Destroy, Unlink, pidVars, Untouched
  <1>6. CASE LoadMapping
    <2>0. /\ apc = "elf" /\ call.i \in 1..pid_ctx[call.pid].count
          /\ call.pid \notin pid_ctx_list /\ <<call.pid, call.i>> \in Slot
      BY <1>6, SlotOfCall DEF LoadMapping, ControlOK
    <2>1. map_ctx[<<call.pid, call.i>>] = NoElf
      BY <2>0 DEF SlotsOwned
    <2> QED BY Zenon, <1>6, <2>0, <2>1 DEF LoadMapping, Untouched, Loaded, Bounced
  <1>7. CASE Clear
    <2>1. CASE call.i > pid_ctx[call.pid].count
      BY <1>7, <2>1 DEF Clear, Untouched
    <2>2. CASE ~(call.i > pid_ctx[call.pid].count)
      <3>1. call.i \in 1..pid_ctx[call.pid].count
        BY <2>2, CacheConstants DEF CallTypes, Call, PidCtx
      <3>2. <<call.pid, call.i>> \in Slot
        BY <3>1, SlotOfCall
      <3>3. map_ctx' = [map_ctx EXCEPT ![<<call.pid, call.i>>] = NoElf]
        BY <1>7, <2>2 DEF Clear
      <3>4. CASE map_ctx[<<call.pid, call.i>>] = NoElf
        <4>1. UNCHANGED elfVars
          BY <1>7, <2>2, <3>4 DEF Clear
        <4>2. map_ctx' = map_ctx
          BY <3>2, <3>3, <3>4 DEF ElfTypes
        <4> QED BY <4>1, <4>2 DEF Untouched
      <3>5. CASE map_ctx[<<call.pid, call.i>>] # NoElf
        <4>1. map_ctx[<<call.pid, call.i>>] \in Elf
          BY <3>2, <3>5 DEF ElfTypes
        <4>2. gu_put_elf_ctx(map_ctx[<<call.pid, call.i>>])
          BY <1>7, <2>2, <3>5 DEF Clear
        <4> QED BY ZenonT(30), <3>2, <3>3, <4>1, <4>2 DEF Put
      <3> QED BY <3>4, <3>5
    <2> QED BY <2>1, <2>2
  <1>8. CASE gu_cleanup
    <2>1. CASE apc = "cleanup" /\ gu_retired_elf_sweep(now, TRUE) /\ UNCHANGED pidVars
      BY Zenon, <1>0, <2>1 DEF pidVars, Swept
    <2> QED BY Zenon, <1>8, <2>1 DEF gu_cleanup, Unlink, pidVars, Untouched
  <1>9. CASE Kill \/ gu_get_maps_info \/ LoadDone
    BY Zenon, <1>9 DEF Kill, gu_get_maps_info, LoadDone, pidVars, Untouched
  <1>10. CASE SearchHit \/ SearchMiss \/ SearchNull \/ StopUnwind
    BY <1>10 DEF SearchHit, SearchMiss, SearchNull, StopUnwind, pidVars, Untouched
  <1>11. CASE gu_reload_pid_ctx
    BY <1>11 DEF gu_reload_pid_ctx, Destroy, Unlink, Untouched
  <1> QED
    BY Zenon, <1>1, <1>2, <1>3, <1>4, <1>5, <1>6, <1>7, <1>8, <1>9, <1>10, <1>11 DEF Next, CallStep

(* Every step keeps reference counts, retirement, gauges and the next       *)
(* deadline consistent.                                                     *)
LEMMA ElfNext ==
  ASSUME ElfInv, CallTypes, ControlOK, SlotsOwned, TimerTypeOK, PublishedClock, Next
  PROVE  ElfInv'
  <1>1. gu_cache_now_ns \in Nat \ {0}
    BY CacheNow
  <1>2. Untouched \/ Swept \/ Loaded \/ Bounced \/ Put
    BY ElfSteps DEF ElfInv
  <1>3. CASE Untouched
    BY <1>3, ElfKept DEF Untouched
  <1>4. CASE Swept
    BY <1>4, SweepOK DEF Swept
  <1>5. CASE Loaded
    BY ZenonT(30), <1>5, LoadElfOK DEF Loaded
  <1>6. CASE Bounced
    BY <1>1, <1>6, LoadThenPutOK DEF Bounced
  <1>7. CASE Put
    BY Zenon, <1>1, <1>7, PutElfOK DEF Put
  <1> QED BY <1>2, <1>3, <1>4, <1>5, <1>6, <1>7

-----------------------------------------------------------------------------
(* The part of the invariant that is inductive by itself. *)
CoreInv ==
  /\ TimerTypeOK /\ PublishedClock
  /\ ElfInv
  /\ CallTypes /\ pid_ctx_count = Cardinality(pid_ctx_list)
  /\ ControlOK /\ SlotsOwned

(* gu_init() establishes it.                                                *)
LEMMA CoreInit == Init => CoreInv
  <1> SUFFICES ASSUME Init PROVE CoreInv
    OBVIOUS
  <1>1. TimerTypeOK /\ PublishedClock
    BY TimerStartOK DEF Init
  <1>2. \A e \in Elf : Refs(e) = {}
    BY CacheConstants DEF Init, Refs
  <1>3. ElfTypes /\ RefcountExact /\ RetiredIffUnreferenced /\ ElfStatistics /\ NextDeadlineCovers
    <2>1. ElfTypes
      BY CacheConstants DEF Init, ElfTypes
    <2>2. RefcountExact
      BY <1>2, FS_EmptySet DEF Init, RefcountExact
    <2>3. RetiredIffUnreferenced /\ NextDeadlineCovers
      BY DEF Init, RetiredIffUnreferenced, NextDeadlineCovers
    <2>4. elf_ctx_list \ retired = {} /\ retired = {}
      BY DEF Init
    <2>5. ElfStatistics
      BY <2>4, FS_EmptySet DEF Init, ElfStatistics
    <2> QED BY <2>1, <2>2, <2>3, <2>5
  <1>4. CallTypes /\ pid_ctx_count = Cardinality(pid_ctx_list)
    BY NoCallType, FS_EmptySet DEF Init, CallTypes
  <1>5. ControlOK
    BY DEF Init, ControlOK, NoCall
  <1>6. SlotsOwned
    BY DEF Init, SlotsOwned
  <1> QED BY <1>1, <1>3, <1>4, <1>5, <1>6 DEF CoreInv, ElfInv

(* Every step of the program keeps it.                                      *)
LEMMA CoreNext == CoreInv /\ [Next]_vars => CoreInv'
  <1> SUFFICES ASSUME CoreInv, [Next]_vars PROVE CoreInv'
    OBVIOUS
  <1>1. CASE Next
    <2>1. TimerTypeOK' /\ PublishedClock'
      BY <1>1, TimerNext DEF CoreInv
    <2>2. ElfInv'
      BY <1>1, ElfNext DEF CoreInv
    <2>3. CallTypes' /\ pid_ctx_count' = Cardinality(pid_ctx_list')
      BY <1>1, CallTypesNext DEF CoreInv, ElfInv, ElfTypes
    <2>4. ControlOK'
      BY <1>1, ControlNext DEF CoreInv
    <2>5. SlotsOwned'
      BY <1>1, SlotsNext DEF CoreInv, ElfInv, ElfTypes
    <2> QED BY <2>1, <2>2, <2>3, <2>4, <2>5 DEF CoreInv
  <1>2. CASE UNCHANGED vars
    <2>1. UNCHANGED <<timerVars, osVars, elfVars, pidVars, apc, call>>
      BY <1>2 DEF vars
    <2>2. TimerTypeOK' /\ PublishedClock'
      BY <2>1 DEF CoreInv, timerVars, TimerTypeOK, PublishedClock
    <2>3. ElfInv'
      BY <2>1, ElfKept DEF CoreInv, pidVars
    <2>4. CallTypes' /\ pid_ctx_count' = Cardinality(pid_ctx_list')
      BY <2>1 DEF CoreInv, CallTypes, osVars, pidVars
    <2>5. ControlOK' /\ SlotsOwned'
      BY ZenonT(30), <2>1 DEF CoreInv, ControlOK, SlotsOwned, pidVars
    <2> QED BY <2>2, <2>3, <2>4, <2>5 DEF CoreInv
  <1> QED BY <1>1, <1>2

(* So it holds throughout.                                                  *)
LEMMA CoreAlways == Spec => []CoreInv
  BY CoreInit, CoreNext, PTL DEF Spec

(* Every variable keeps its type, through every error path: in particular   *)
(* no gauge of the statistics and no reference count goes below zero.       *)
THEOREM CacheTypes == Spec => []TypeOK
  <1>1. CoreInv => TypeOK
    BY DEF CoreInv, ElfInv, ElfTypes, CallTypes, TypeOK
  <1> QED BY <1>1, CoreAlways, PTL

(* The reference count of an ELF entry is the number of mappings pointing   *)
(* at it, whatever loads, reloads, exits and failures have happened.        *)
THEOREM RefcountsAreExact == Spec => []RefcountExact
  <1>1. CoreInv => RefcountExact
    BY DEF CoreInv, ElfInv
  <1> QED BY <1>1, CoreAlways, PTL

(* No mapping points at a freed ELF entry, and an entry is retired exactly  *)
(* while no mapping points at it.                                           *)
THEOREM RetiredExactlyWhenUnreferenced == Spec => []RetiredIffUnreferenced
  <1>1. CoreInv => RetiredIffUnreferenced
    BY DEF CoreInv, ElfInv
  <1> QED BY <1>1, CoreAlways, PTL

(* The gauges of struct gu_statistics count the entries they name.          *)
THEOREM GaugesAreExact == Spec => []StatisticsExact
  <1>1. CoreInv => StatisticsExact
    BY DEF CoreInv, ElfInv, ElfStatistics, StatisticsExact
  <1> QED BY <1>1, CoreAlways, PTL

(* The early return of gu_retired_elf_sweep() never hides an entry that is  *)
(* due.                                                                     *)
THEOREM SweepDeadlineCovers == Spec => []NextDeadlineCovers
  <1>1. CoreInv => NextDeadlineCovers
    BY DEF CoreInv, ElfInv
  <1> QED BY <1>1, CoreAlways, PTL

-----------------------------------------------------------------------------
(* The cached clock never runs ahead of the real one.                       *)
THEOREM PublishedClockIsPast == Spec => []PublishedClock
  <1>1. CoreInv => PublishedClock
    BY DEF CoreInv
  <1> QED BY <1>1, CoreAlways, PTL

(* No call but gu_cleanup() stops the timer.                                *)
LEMMA StopOnlyInCleanup ==
  ASSUME CoreInv, ApiCall \/ CallStep
  PROVE  apc' # "stop_write"
  <1>1. call \in Call
    BY Zenon DEF CoreInv, CallTypes
  <1>2. CASE ApiCall
    BY Zenon, <1>2 DEF ApiCall, gu_unwind, gu_preload_pid_debug_info, gu_event_occur, gu_set_pid_private_info
  <1>3. CASE LoadFailed
    BY <1>1, <1>3, LoadFailedType
  <1>4. CASE \E c \in Call : AfterMiss(c)
    BY <1>4, AfterMissType
  <1>5. CASE CallStep
    BY Zenon, <1>1, <1>3, <1>4, <1>5 DEF CallStep, gu_maybe_sweep_retired_elf, SweepLoad, Body,
       Destroy, Kill, gu_get_maps_info, LoadMapping, LoadDone, Abandon, Return, SearchHit,
       SearchMiss, gu_reload_pid_ctx, SearchNull, StopUnwind, Clear
  <1> QED BY <1>2, <1>5

(* Without a timer there is no thread, and no call stops one.               *)
NoThread == ~retire_timer_started => tpc = "exit" /\ apc # "stop_write"

(* What an invariant of the owner needs of a step.                          *)
Quiet == NoThread' /\ (~retire_timer_started => UNCHANGED <<threadVars, atomics>>)

(* A step keeps it, and without a timer it leaves the thread's state and    *)
(* the atomics alone.                                                       *)
LEMMA NoThreadNext ==
  ASSUME CoreInv, NoThread, Next
  PROVE  Quiet
  <1>1. ASSUME UNCHANGED timerVars, apc' # "stop_write" \/ UNCHANGED apc
        PROVE  Quiet
    BY <1>1 DEF Quiet, timerVars, threadVars, atomics, NoThread
  <1>2. CASE Environment
    <2>0. UNCHANGED apc
      BY <1>2 DEF Environment, Fork, Exit
    <2>1. CASE Tick
      BY <2>0, <2>1 DEF Tick, Quiet, NoThread, threadVars, atomics
    <2>2. CASE gu_retire_timer_thread
      BY <2>0, <2>2 DEF gu_retire_timer_thread, TestStop, ReadClock, StoreNow, StorePending,
                  PollReady, PollTimeout, Quiet, NoThread, threadVars, atomics
    <2> QED BY <1>1, <1>2, <2>1, <2>2 DEF Environment, Fork, Exit
  <1>3. CASE ApiCall
    BY Zenon, <1>1, <1>3, StopOnlyInCleanup DEF ApiCall, gu_unwind, gu_preload_pid_debug_info,
       gu_event_occur, gu_set_pid_private_info
  <1>4. CASE gu_maybe_sweep_retired_elf
    <2>1. apc' # "stop_write"
      BY <1>4, StopOnlyInCleanup DEF CallStep
    <2>2. ASSUME retire_timer_started, NEW due, ExchangePending(due)
          PROVE  Quiet
      BY <2>1, <2>2 DEF ExchangePending, Quiet, NoThread
    <2> QED BY ZenonT(30), <1>1, <1>4, <2>1, <2>2 DEF gu_maybe_sweep_retired_elf
  <1>5. CASE gu_cleanup
    <2>1. CASE StoreStop /\ retire_timer_started
      BY <2>1 DEF StoreStop, Quiet, NoThread
    <2>2. CASE apc = "stop_write" /\ WriteEvent
      BY <2>2 DEF WriteEvent, Quiet, NoThread
    <2>3. CASE Join /\ apc' = "cleanup"
      BY <2>3 DEF Join, Quiet, NoThread, threadVars
    <2> QED BY Zenon, <1>1, <1>5, <2>1, <2>2, <2>3 DEF gu_cleanup
  <1>6. CASE CallStep /\ ~gu_maybe_sweep_retired_elf
    BY Zenon, <1>1, <1>6, StopOnlyInCleanup DEF CallStep, SweepLoad, Body, Kill, gu_get_maps_info,
       LoadMapping, LoadDone, SearchHit, SearchMiss, gu_reload_pid_ctx, SearchNull, StopUnwind, Clear
  <1> QED BY <1>2, <1>3, <1>4, <1>5, <1>6 DEF Next

(* After the join in gu_retire_timer_stop(), and in a context that never    *)
(* had a timer, nothing touches the thread's state or the atomics.          *)
THEOREM ThreadQuietAfterJoin == Spec => QuietAfterJoin
  <1>1. Init => NoThread
    BY DEF Init, gu_retire_timer_start, NoThread
  <1>2. CoreInv /\ NoThread /\ [Next]_vars => NoThread'
    BY NoThreadNext DEF Quiet, NoThread, vars, timerVars
  <1>3. CoreInv /\ NoThread /\ [Next]_vars
          => [~retire_timer_started => UNCHANGED <<threadVars, atomics>>]_vars
    BY NoThreadNext DEF Quiet
  <1> QED BY <1>1, <1>2, <1>3, CoreAlways, PTL DEF Spec, QuietAfterJoin

-----------------------------------------------------------------------------
(* A step that adds nothing to the retired entries, moves no deadline and   *)
(* neither takes the flag nor publishes the clock leaves no entry overdue.  *)
LEMMA OverdueKept ==
  ASSUME NoOverdueEntry, retired' \subseteq retired,
         \A e \in retired' : retire_deadline_ns'[e] = retire_deadline_ns[e],
         UNCHANGED retire_timer_now_ns,
         retire_timer_started' => retire_timer_started,
         apc # "sweep_load",
         \/ tpc' = "pend" \/ retire_sweep_pending'
         \/ UNCHANGED <<retire_sweep_pending, tpc>>
  PROVE  NoOverdueEntry'
  BY DEF NoOverdueEntry

(* No step leaves an overdue entry behind a flag that is down.              *)
LEMMA OverdueNext ==
  ASSUME CoreInv, NoOverdueEntry, Next
  PROVE  NoOverdueEntry'
  <1>0. gu_cache_now_ns \in Nat \ {0} /\ now \in Nat /\ retire_timer_now_ns \in Nat
    BY CacheNow DEF CoreInv, TimerTypeOK
  <1>1. CASE UNCHANGED <<elfVars, timerVars>> /\ apc # "sweep_load"
    BY <1>1, OverdueKept DEF elfVars, timerVars
  <1>2. CASE Environment
    <2>1. CASE \E p \in Pid : Fork(p) \/ Exit(p)
      <3>1. UNCHANGED <<timerVars, elfVars, apc>>
        BY <2>1 DEF Fork, Exit
      <3> QED BY <3>1 DEF elfVars, timerVars, NoOverdueEntry
    <2>2. CASE /\ Tick \/ gu_retire_timer_thread
               /\ UNCHANGED <<osVars, elfVars, pidVars, apc, call>>
      BY Zenon, <2>2 DEF Tick, gu_retire_timer_thread, TestStop, ReadClock, StoreNow, StorePending,
                  PollReady, PollTimeout, threadVars, atomics, elfVars, NoOverdueEntry
    <2> QED BY <1>2, <2>1, <2>2 DEF Environment
  <1>3. CASE ApiCall
    BY ZenonT(30), <1>1, <1>3 DEF ApiCall, gu_unwind, gu_preload_pid_debug_info, gu_event_occur,
                      gu_set_pid_private_info
  <1>4. CASE gu_maybe_sweep_retired_elf
    <2>1. CASE ~retire_timer_started /\ UNCHANGED timerVars
      BY <2>1 DEF timerVars, NoOverdueEntry
    <2>2. CASE \E due \in BOOLEAN : /\ ExchangePending(due)
                                    /\ apc' = IF due THEN "sweep_load" ELSE "body"
                                    /\ UNCHANGED elfVars
      BY <1>4, <2>2 DEF ExchangePending, elfVars, threadVars, NoOverdueEntry, gu_maybe_sweep_retired_elf
    <2> QED BY ZenonT(30), <1>1, <1>4, <2>1, <2>2 DEF gu_maybe_sweep_retired_elf
  <1>5. CASE SweepLoad
    <2>1. gu_retired_elf_sweep(retire_timer_now_ns, FALSE) /\ UNCHANGED <<timerVars, map_ctx>>
      BY Zenon, <1>5 DEF SweepLoad, pidVars
    <2>2. \A e \in retired' : /\ retire_deadline_ns'[e] = retire_deadline_ns[e]
                              /\ retire_timer_now_ns < retire_deadline_ns[e]
      BY Zenon, <1>0, <2>1, SweepOK DEF CoreInv
    <2> QED BY <2>1, <2>2 DEF timerVars, NoOverdueEntry
  <1>6. CASE LoadMapping
    <2>0. UNCHANGED timerVars /\ apc = "elf"
      BY <1>6 DEF LoadMapping
    <2>1. CASE UNCHANGED elfVars
      BY <1>1, <2>0, <2>1
    <2>2. CASE \E e \in Elf : load_elf(e)
      <3>1. PICK e \in Elf : load_elf(e)
        BY <2>2
      <3>2. retired' \subseteq retired /\ \A f \in retired' : retire_deadline_ns'[f] = retire_deadline_ns[f]
        BY <3>1 DEF load_elf, CoreInv, ElfInv, ElfTypes
      <3> QED BY <2>0, <3>2, OverdueKept DEF timerVars
    <2>3. CASE \E e \in Elf : LoadThenPut(e)
      <3>1. PICK e \in Elf : LoadThenPut(e)
        BY <2>3
      <3>2. CASE refcnt[e] # 0
        BY <2>1, <3>1, <3>2 DEF LoadThenPut
      <3>3. CASE refcnt[e] = 0
        <4>1. /\ retired' = retired \cup {e}
              /\ retire_deadline_ns' = [retire_deadline_ns EXCEPT ![e] = gu_cache_now_ns + TTL]
          BY <3>1, <3>3 DEF LoadThenPut
        <4>2. retire_timer_started => retire_timer_now_ns < gu_cache_now_ns + TTL
          BY <1>0, CacheConstants DEF gu_cache_now_ns
        <4> QED BY <2>0, <4>1, <4>2 DEF timerVars, NoOverdueEntry, CoreInv, ElfInv, ElfTypes
      <3> QED BY <3>2, <3>3
    <2> QED BY ZenonT(30), <1>6, <2>1, <2>2, <2>3 DEF LoadMapping
  <1>7. CASE Clear
    <2>0. UNCHANGED timerVars /\ apc = "clear"
      BY <1>7 DEF Clear
    <2>1. CASE UNCHANGED elfVars
      BY <1>1, <2>0, <2>1
    <2>2. CASE \E e : gu_put_elf_ctx(e)
      <3>1. PICK e : gu_put_elf_ctx(e)
        BY <2>2
      <3>2. CASE UNCHANGED <<retired, retire_deadline_ns>>
        BY <2>0, <3>2, OverdueKept DEF timerVars
      <3>3. CASE gu_retire_elf_ctx(e)
        <4>1. /\ retired' = retired \cup {e}
              /\ retire_deadline_ns' = [retire_deadline_ns EXCEPT ![e] = gu_cache_now_ns + TTL]
          BY <3>3 DEF gu_retire_elf_ctx
        <4>2. retire_timer_started => retire_timer_now_ns < gu_cache_now_ns + TTL
          BY <1>0, CacheConstants DEF gu_cache_now_ns
        <4>3. \A f \in retired' : f \in Elf => retire_deadline_ns'[f] =
                 IF f = e THEN gu_cache_now_ns + TTL ELSE retire_deadline_ns[f]
          BY <4>1 DEF CoreInv, ElfInv, ElfTypes
        <4>4. retired' \subseteq Elf
          <5>1. CoreInv'
            BY CoreNext
          <5> QED BY <5>1 DEF CoreInv, ElfInv, ElfTypes
        <4> QED BY <2>0, <4>1, <4>2, <4>3, <4>4 DEF timerVars, NoOverdueEntry
      <3> QED BY <3>1, <3>2, <3>3 DEF gu_put_elf_ctx
    <2> QED BY <1>7, <2>1, <2>2 DEF Clear
  <1>8. CASE gu_cleanup
    <2>1. CASE UNCHANGED timerVars /\ gu_retired_elf_sweep(now, TRUE) /\ UNCHANGED pidVars /\ apc = "cleanup"
      <3>1. retired' \subseteq retired /\ \A f \in retired' : retire_deadline_ns'[f] = retire_deadline_ns[f]
        BY Zenon, <1>0, <2>1, SweepOK DEF pidVars, CoreInv
      <3> QED BY <2>1, <3>1, OverdueKept DEF timerVars
    <2>2. CASE (StoreStop \/ WriteEvent \/ Join) /\ UNCHANGED elfVars /\ apc # "sweep_load"
      BY <2>2, OverdueKept DEF StoreStop, WriteEvent, Join, threadVars, atomics, elfVars
    <2> QED BY Zenon, <1>1, <1>8, <2>1, <2>2 DEF gu_cleanup
  <1>9. CASE Body \/ Kill \/ gu_get_maps_info \/ LoadDone
    BY Zenon, <1>1, <1>9 DEF Body, Kill, gu_get_maps_info, LoadDone
  <1>10. CASE SearchHit \/ SearchMiss \/ SearchNull \/ StopUnwind \/ gu_reload_pid_ctx
    BY <1>1, <1>10 DEF SearchHit, SearchMiss, SearchNull, StopUnwind, gu_reload_pid_ctx
  <1> QED
    BY Zenon, <1>2, <1>3, <1>4, <1>5, <1>6, <1>7, <1>8, <1>9, <1>10 DEF Next, CallStep

-----------------------------------------------------------------------------
(* Entries leave the cache in a sweep only, unreferenced and expired.       *)
LEMMA FreedStep ==
  ASSUME CoreInv, Next, NEW e \in elf_ctx_list \ elf_ctx_list'
  PROVE  /\ Refs(e) = {}
         /\ apc = "cleanup" \/ now >= retire_deadline_ns[e]
  <1>1. Untouched \/ Swept \/ Loaded \/ Bounced \/ Put
    BY ElfSteps DEF CoreInv, ElfInv
  <1>2. Swept
    BY <1>1 DEF Untouched, elfVars, Loaded, load_elf, Bounced, LoadThenPut, Put, gu_put_elf_ctx
  <1>3. PICK t \in Nat, all \in BOOLEAN :
               /\ t <= now /\ (all => apc = "cleanup")
               /\ gu_retired_elf_sweep(t, all) /\ UNCHANGED map_ctx
    BY Zenon, <1>2 DEF Swept
  <1>4. e \in retired /\ (all \/ t >= retire_deadline_ns[e])
    BY <1>3, SweepOK DEF CoreInv
  <1>5. Refs(e) = {}
    BY <1>4, Referenced DEF CoreInv, ElfInv, ElfTypes, RetiredIffUnreferenced
  <1>6. now \in Nat /\ retire_deadline_ns[e] \in Nat
    BY <1>4 DEF CoreInv, TimerTypeOK, ElfInv, ElfTypes
  <1> QED BY <1>3, <1>4, <1>5, <1>6

(* An ELF entry is freed only when no mapping points at it and, except by   *)
(* gu_cleanup(), not before the real clock has reached its deadline, which  *)
(* counts from the cached clock at the retirement.                          *)
THEOREM NothingFreedEarly == Spec => FreedOnlyWhenExpired
  <1>1. CoreInv /\ [Next]_vars =>
          [\A e \in elf_ctx_list \ elf_ctx_list' :
             /\ Refs(e) = {}
             /\ apc = "cleanup" \/ now >= retire_deadline_ns[e]]_vars
    BY FreedStep
  <1> QED BY <1>1, CoreAlways, PTL DEF Spec, FreedOnlyWhenExpired

(* With the timer running, no retired entry whose deadline the published    *)
(* clock has reached is left behind a lowered flag.                         *)
THEOREM NoSweepIsSkipped == Spec => []NoOverdueEntry
  <1>1. Init => NoOverdueEntry
    BY DEF Init, NoOverdueEntry
  <1>2. CoreInv /\ NoOverdueEntry /\ [Next]_vars => NoOverdueEntry'
    <2>1. CoreInv /\ NoOverdueEntry /\ UNCHANGED vars => NoOverdueEntry'
      BY DEF vars, timerVars, elfVars, NoOverdueEntry
    <2> QED BY <2>1, OverdueNext
  <1> QED BY <1>1, <1>2, CoreAlways, PTL DEF Spec

-----------------------------------------------------------------------------
(* After a PC miss an unwind holds no metadata.                             *)
LEMMA AfterMissElf ==
  ASSUME NEW c \in Call, AfterMiss(c)
  PROVE  apc' = "search" => call'.elf_ctx = NoElf
  BY Zenon DEF AfterMiss, Return, Call

(* Whenever an unwind looks for the next PC, the metadata it still holds is *)
(* referenced by a mapping.                                                 *)
LEMMA LiveElfNext ==
  ASSUME CoreInv, UnwindUsesLiveElf, Next
  PROVE  UnwindUsesLiveElf'
  <1>0. call \in Call /\ ControlOK
    BY DEF CoreInv, CallTypes
  <1> SUFFICES ASSUME apc' = "search", call'.elf_ctx # NoElf
               PROVE  call'.elf_ctx \in elf_ctx_list' \ retired'
    BY DEF UnwindUsesLiveElf
  <1>1. CASE Environment
    BY <1>1 DEF Environment, Fork, Exit, elfVars, UnwindUsesLiveElf
  <1>2. CASE ApiCall
    BY <1>2 DEF ApiCall, gu_unwind, gu_preload_pid_debug_info, gu_event_occur, gu_set_pid_private_info,
                elfVars, UnwindUsesLiveElf
  <1>3. ~(gu_maybe_sweep_retired_elf \/ SweepLoad \/ SearchNull \/ gu_cleanup \/ gu_reload_pid_ctx)
    BY DEF gu_maybe_sweep_retired_elf, SweepLoad, SearchNull, gu_cleanup, gu_reload_pid_ctx, Destroy
  <1>4. CASE Body
    <2>1. call.elf_ctx = NoElf
      BY <1>0, <1>4 DEF ControlOK, Body
    <2>2. call' = [call EXCEPT !.mode = IF call.fp THEN "fp" ELSE "dwarf"]
      BY <1>4 DEF Body, Destroy, Return
    <2>3. call'.elf_ctx = call.elf_ctx
      BY <1>0, <2>2 DEF Call
    <2> QED BY <2>1, <2>3
  <1>5. CASE Kill \/ LoadMapping
    BY <1>5 DEF Kill, LoadMapping, Abandon, Return
  <1>6. CASE LoadFailed
    <2>1. [call EXCEPT !.null = TRUE] \in Call
      BY Zenon, <1>0 DEF Call
    <2> QED BY <1>6, <2>1, AfterMissElf DEF LoadFailed, Return
  <1>7. CASE gu_get_maps_info
    BY <1>6, <1>7 DEF gu_get_maps_info
  <1>8. CASE LoadDone
    <2>1. /\ call' = [call EXCEPT !.mode = IF call.fp THEN "fp" ELSE "dwarf"]
          /\ call.mode = "none"
      BY <1>8 DEF LoadDone, Abandon, Return
    <2>2. call'.elf_ctx = call.elf_ctx
      BY <1>0, <2>1 DEF Call
    <2> QED BY <1>0, <2>1, <2>2 DEF ControlOK
  <1>9. CASE SearchHit
    <2>1. CASE AfterMiss(call)
      BY <1>0, <2>1, AfterMissElf
    <2>2. CASE ~AfterMiss(call)
      <3>1. PICK i \in 1..pid_ctx[call.pid].count : call' = [call EXCEPT !.elf_ctx = map_ctx[<<call.pid, i>>]]
        BY <1>9, <2>2 DEF SearchHit
      <3>2. call'.elf_ctx = map_ctx[<<call.pid, i>>]
        BY <1>0, <3>1 DEF Call
      <3>3. <<call.pid, i>> \in Slot
        BY <1>0, CacheConstants DEF CoreInv, CallTypes, Call, PidCtx, Slot
      <3>4. map_ctx[<<call.pid, i>>] \in elf_ctx_list \ retired
        BY <3>2, <3>3, Referenced DEF CoreInv
      <3> QED BY <1>9, <3>2, <3>4 DEF SearchHit, elfVars
    <2> QED BY <2>1, <2>2
  <1>10. CASE SearchMiss
    BY <1>0, <1>10, AfterMissElf DEF SearchMiss
  <1>11. CASE StopUnwind
    BY <1>0, <1>11, AfterMissElf DEF StopUnwind, Return
  <1>12. CASE Clear
    BY Zenon, <1>6, <1>12 DEF Clear, Return
  <1> QED
    BY Zenon, <1>1, <1>2, <1>3, <1>4, <1>5, <1>7, <1>8, <1>9, <1>10, <1>11, <1>12 DEF Next, CallStep

(* An unwind never uses ELF metadata that a reload has retired or freed.    *)
THEOREM UnwindHoldsLiveElf == Spec => []UnwindUsesLiveElf
  <1>1. Init => UnwindUsesLiveElf
    BY DEF Init, UnwindUsesLiveElf
  <1>2. CoreInv /\ UnwindUsesLiveElf /\ [Next]_vars => UnwindUsesLiveElf'
    <2>1. UnwindUsesLiveElf /\ UNCHANGED vars => UnwindUsesLiveElf'
      BY DEF vars, elfVars, UnwindUsesLiveElf
    <2> QED BY <2>1, LiveElfNext
  <1> QED BY <1>1, <1>2, CoreAlways, PTL DEF Spec

(* Once a context has no process left, the last sweep empties the cache.    *)
LEMMA CleanupNext ==
  ASSUME CoreInv, CleanupFreesAll, Next
  PROVE  CleanupFreesAll'
  <1> SUFFICES ASSUME apc' = "freed"
               PROVE  elf_ctx_list' = {} /\ elf_ctx_count' = 0 /\ retired_elf_ctx_count' = 0
    BY DEF CleanupFreesAll
  <1>1. CASE Environment
    BY <1>1 DEF Environment, Fork, Exit, elfVars, CleanupFreesAll
  <1>2. CASE gu_cleanup
    <2>1. /\ apc = "cleanup" /\ pid_ctx_list = {} /\ gu_retired_elf_sweep(now, TRUE)
          /\ UNCHANGED map_ctx
      BY Zenon, <1>2 DEF gu_cleanup, pidVars
    <2>2. \A s \in Slot : map_ctx[s] = NoElf
      BY <2>1 DEF CoreInv, SlotsOwned
    <2>3. \A e \in Elf : Refs(e) = {}
      BY <2>2, CacheConstants DEF Refs
    <2>4. \A e \in Elf : refcnt[e] = 0
      BY <2>3, FS_EmptySet DEF CoreInv, ElfInv, RefcountExact
    <2>5. retired = elf_ctx_list
      BY <2>4 DEF CoreInv, ElfInv, ElfTypes, RetiredIffUnreferenced
    <2>6. now \in Nat
      BY DEF CoreInv, TimerTypeOK
    <2>7. ElfInv' /\ retired' = {} /\ elf_ctx_list' \ retired' = {}
      BY Zenon, <2>1, <2>5, <2>6, SweepOK DEF CoreInv
    <2>8. elf_ctx_list' = {}
      BY <2>7
    <2> QED BY <2>7, <2>8, FS_EmptySet DEF ElfInv, ElfStatistics
  <1>3. CASE ApiCall
    BY <1>3 DEF ApiCall, gu_unwind, gu_preload_pid_debug_info, gu_event_occur, gu_set_pid_private_info
  <1>4. CASE LoadFailed
    <2>1. call \in Call
      BY DEF CoreInv, CallTypes
    <2> QED BY <1>4, <2>1, LoadFailedType
  <1>5. CASE \E c \in Call : AfterMiss(c)
    BY <1>5, AfterMissType
  <1>6. CASE CallStep
    <2>1. call \in Call
      BY DEF CoreInv, CallTypes
    <2> QED BY Zenon, <1>4, <1>5, <1>6, <2>1 DEF CallStep, gu_maybe_sweep_retired_elf, SweepLoad, Body, Destroy, Kill,
         gu_get_maps_info, LoadMapping, LoadDone, Abandon, Return, SearchHit, SearchMiss,
         gu_reload_pid_ctx, SearchNull, StopUnwind, Clear
  <1> QED BY <1>1, <1>2, <1>3, <1>6 DEF Next

(* gu_cleanup() frees every ELF entry and leaves the gauges at zero.        *)
THEOREM CleanupLeavesNothing == Spec => []CleanupFreesAll
  <1>1. Init => CleanupFreesAll
    BY DEF Init, CleanupFreesAll
  <1>2. CoreInv /\ CleanupFreesAll /\ [Next]_vars => CleanupFreesAll'
    <2>1. CleanupFreesAll /\ UNCHANGED vars => CleanupFreesAll'
      BY DEF vars, elfVars, CleanupFreesAll
    <2> QED BY <2>1, CleanupNext
  <1> QED BY <1>1, <1>2, CoreAlways, PTL DEF Spec

-----------------------------------------------------------------------------
(* The ELF cache implements SharedEntries for any number of entries and     *)
(* intervals: no step evicts an entry that a mapping points at.             *)
THEOREM CacheImplementsSharedEntries == Spec => ImplementsSharedEntries
  <1> DEFINE held == [e \in Elf |-> Refs(e)]
  <1>1. Init => Shared!Init
    BY CacheConstants DEF Init, Shared!Init, Refs
  <1>2. CoreInv /\ [Next]_vars => [Shared!Next]_<<elf_ctx_list, held>>
    <2> SUFFICES ASSUME CoreInv, [Next]_vars PROVE [Shared!Next]_<<elf_ctx_list, held>>
      OBVIOUS
    <2>0. ElfTypes /\ ElfInv
      BY DEF CoreInv, ElfInv
    <2>1. CASE Untouched
      BY <2>1 DEF Untouched, elfVars, Refs
    <2>2. CASE Swept
      <3>1. PICK t \in Nat, all \in BOOLEAN : gu_retired_elf_sweep(t, all) /\ UNCHANGED map_ctx
        BY <2>2 DEF Swept
      <3>2. held' = held
        BY <3>1 DEF Refs
      <3> DEFINE S == elf_ctx_list \ elf_ctx_list'
      <3>3. S \in SUBSET Elf /\ S \subseteq elf_ctx_list /\ elf_ctx_list' = elf_ctx_list \ S
        BY Zenon, <2>0, <3>1, SweepOK DEF ElfTypes
      <3>4. \A e \in S : held[e] = {}
        BY <2>0, <3>1, <3>3, SweepOK, Referenced DEF ElfInv, ElfTypes, RetiredIffUnreferenced
      <3>5. Shared!Evict(S)
        BY <3>2, <3>3, <3>4 DEF Shared!Evict
      <3> QED BY <3>3, <3>5 DEF Shared!Next
    <2>3. CASE Loaded
      <3>1. PICK e \in Elf, s \in Slot :
               load_elf(e) /\ map_ctx[s] = NoElf /\ map_ctx' = [map_ctx EXCEPT ![s] = e]
        BY Zenon, <2>3 DEF Loaded
      <3>2. \A f \in Elf : s \notin held[f]
        BY <3>1, CacheConstants DEF Refs
      <3>3. elf_ctx_list' = elf_ctx_list \cup {e}
        BY <3>1 DEF load_elf
      <3>4. \A f \in Elf : Refs(f)' = IF f = e THEN Refs(f) \cup {s} ELSE Refs(f)
        BY <2>0, <3>1, CacheConstants DEF Refs, ElfTypes
      <3>5. held' = [held EXCEPT ![e] = @ \cup {s}]
        BY Zenon, <3>4
      <3>6. Shared!Acquire(e, s)
        BY <3>2, <3>3, <3>5 DEF Shared!Acquire
      <3> QED BY <3>6 DEF Shared!Next
    <2>4. CASE Bounced
      <3>1. PICK e \in Elf : LoadThenPut(e) /\ UNCHANGED map_ctx
        BY <2>4 DEF Bounced
      <3>2. held' = held
        BY <3>1 DEF Refs
      <3>3. elf_ctx_list' \in {elf_ctx_list, elf_ctx_list \cup {e}}
        BY <3>1 DEF LoadThenPut, elfVars
      <3>4. CASE elf_ctx_list' = elf_ctx_list \cup {e}
        BY <3>2, <3>4 DEF Shared!Next, Shared!Touch
      <3> QED BY <3>2, <3>3, <3>4
    <2>5. CASE Put
      <3>1. PICK e \in Elf, s \in Slot :
               gu_put_elf_ctx(e) /\ map_ctx[s] = e /\ map_ctx' = [map_ctx EXCEPT ![s] = NoElf]
        BY Zenon, <2>5 DEF Put
      <3>2. s \in held[e] /\ elf_ctx_list' = elf_ctx_list
        BY <3>1 DEF Refs, gu_put_elf_ctx
      <3>4. \A f \in Elf : Refs(f)' = IF f = e THEN Refs(f) \ {s} ELSE Refs(f)
        BY <2>0, <3>1, CacheConstants DEF Refs, ElfTypes
      <3>5. held' = [held EXCEPT ![e] = @ \ {s}]
        BY Zenon, <3>4
      <3>6. Shared!Release(e, s)
        BY <3>2, <3>5 DEF Shared!Release
      <3> QED BY <3>6 DEF Shared!Next
    <2>6. CASE UNCHANGED vars
      BY <2>6 DEF vars, elfVars, pidVars, Refs
    <2>7. CASE Next
      BY <2>1, <2>2, <2>3, <2>4, <2>5, <2>7, ElfSteps DEF CoreInv, ElfInv
    <2> QED BY <2>6, <2>7
  <1> QED BY <1>1, <1>2, CoreAlways, PTL DEF Spec, ImplementsSharedEntries, Shared!Spec

-----------------------------------------------------------------------------
(* The cached clock never goes back, also not when gu_cleanup() stops the   *)
(* timer and the real clock takes over.                                     *)
LEMMA ClockNext ==
  ASSUME TimerTypeOK, PublishedClock, Next
  PROVE  gu_cache_now_ns <= gu_cache_now_ns'
  <1>0. now \in Nat /\ retire_timer_now_ns \in Nat /\ retire_timer_now_ns <= now
    BY DEF TimerTypeOK, PublishedClock
  <1>1. CASE UNCHANGED timerVars
    <2>1. gu_cache_now_ns' = gu_cache_now_ns
      BY Zenon, <1>1 DEF timerVars, gu_cache_now_ns
    <2> QED BY <1>0, <2>1 DEF gu_cache_now_ns
  <1>2. CASE Environment
    <2>1. CASE Tick \/ gu_retire_timer_thread
      <3>1. UNCHANGED retire_timer_started
        BY Zenon, <2>1 DEF Tick, gu_retire_timer_thread, TestStop, ReadClock, StoreNow, StorePending,
               PollReady, PollTimeout
      <3>2. now' = now \/ now' = now + 1
        BY Zenon, <2>1 DEF Tick, gu_retire_timer_thread, TestStop, ReadClock, StoreNow, StorePending,
               PollReady, PollTimeout
      <3>3. retire_timer_now_ns <= retire_timer_now_ns'
        BY Zenon, <2>1, TimerStepOK
      <3> QED BY <1>0, <3>1, <3>2, <3>3 DEF gu_cache_now_ns
    <2> QED BY Zenon, <1>1, <1>2, <2>1 DEF Environment, Fork, Exit
  <1>3. CASE ApiCall
    BY Zenon, <1>1, <1>3 DEF ApiCall, gu_unwind, gu_preload_pid_debug_info, gu_event_occur,
                      gu_set_pid_private_info
  <1>4. CASE (\E due \in BOOLEAN : ExchangePending(due)) \/ StoreStop \/ WriteEvent \/ Join
    <2>1. UNCHANGED <<now, retire_timer_now_ns>>
      BY Zenon, <1>4, OwnerStepOK
    <2>2. retire_timer_started' => retire_timer_started
      BY Zenon, <1>4 DEF ExchangePending, StoreStop, WriteEvent, Join
    <2> QED BY <1>0, <2>1, <2>2 DEF gu_cache_now_ns
  <1>5. CASE gu_maybe_sweep_retired_elf
    BY ZenonT(30), <1>1, <1>4, <1>5 DEF gu_maybe_sweep_retired_elf
  <1>6. CASE gu_cleanup
    BY Zenon, <1>1, <1>4, <1>6 DEF gu_cleanup
  <1>7. CASE CallStep /\ ~gu_maybe_sweep_retired_elf
    BY Zenon, <1>1, <1>7 DEF CallStep, SweepLoad, Body, Kill, gu_get_maps_info, LoadMapping, LoadDone,
                      SearchHit, SearchMiss, gu_reload_pid_ctx, SearchNull, StopUnwind, Clear
  <1> QED BY Zenon, <1>2, <1>3, <1>5, <1>6, <1>7 DEF Next

(* What the throttle rests on: maps were read in the past, and the deadline *)
(* of a listed context is at least the minimum interval after that.         *)
MapsReadBefore(t) == \A p \in Pid : pid_ctx[p].maps_ns <= t
ReloadsSpaced ==
  \A p \in pid_ctx_list : pid_ctx[p].maps_ns + ReloadMin <= pid_ctx[p].next_maps_reload_ns

(* A step that moves neither time of any context, and lists none.           *)
TimesKept ==
  /\ pid_ctx_list' \subseteq pid_ctx_list
  /\ \A p \in Pid : /\ pid_ctx'[p].maps_ns = pid_ctx[p].maps_ns
                    /\ pid_ctx'[p].next_maps_reload_ns = pid_ctx[p].next_maps_reload_ns

(* What the steps do to these times: nothing, or a context out of the hash  *)
(* table is read or cleared, or it gets its deadline and is listed.         *)
LEMMA TimeSteps ==
  ASSUME CallTypes, ControlOK, Next
  PROVE  \/ TimesKept
         \/ /\ call.pid \notin pid_ctx_list /\ UNCHANGED pid_ctx_list
            /\ pid_ctx'[call.pid].maps_ns \in {0, gu_cache_now_ns}
            /\ \A p \in Pid : p # call.pid => pid_ctx'[p] = pid_ctx[p]
         \/ /\ pid_ctx_list' = pid_ctx_list \cup {call.pid}
            /\ pid_ctx'[call.pid].maps_ns = pid_ctx[call.pid].maps_ns
            /\ \E delay \in ReloadMin..ReloadMax :
                 pid_ctx'[call.pid].next_maps_reload_ns = gu_cache_now_ns + delay
            /\ \A p \in Pid : p # call.pid => pid_ctx'[p] = pid_ctx[p]
  <1>0. /\ pid_ctx \in [Pid -> PidCtx] /\ call.pid \in Pid /\ pid_ctx[call.pid] \in PidCtx
        /\ NullCtx.maps_ns = 0
    BY DEF CallTypes, Call, NullCtx
  <1>1. CASE UNCHANGED pid_ctx /\ pid_ctx_list' \subseteq pid_ctx_list
    BY Zenon, <1>1 DEF TimesKept
  <1>2. CASE Environment
    BY Zenon, <1>1, <1>2 DEF Environment, Fork, Exit, pidVars
  <1>3. CASE ApiCall
    <2>1. CASE \E p \in Pid : gu_set_pid_private_info(p)
      <3>1. PICK p \in Pid : gu_set_pid_private_info(p)
        BY <2>1
      <3>2. PICK private \in {pid_ctx[p].unique_id, NoPriv} :
              pid_ctx' = [pid_ctx EXCEPT ![p].private = private]
        BY Zenon, <3>1 DEF gu_set_pid_private_info
      <3>3. UNCHANGED pid_ctx_list
        BY Zenon, <3>1 DEF gu_set_pid_private_info
      <3>4. ASSUME NEW q \in Pid
            PROVE  /\ pid_ctx'[q].maps_ns = pid_ctx[q].maps_ns
                   /\ pid_ctx'[q].next_maps_reload_ns = pid_ctx[q].next_maps_reload_ns
        <4>1. pid_ctx[q] \in PidCtx
          BY Zenon, <1>0
        <4> QED BY <1>0, <3>2, <4>1 DEF PidCtx
      <3> QED BY Zenon, <3>3, <3>4 DEF TimesKept
    <2> QED BY Zenon, <1>1, <1>3, <2>1 DEF ApiCall, gu_unwind, gu_preload_pid_debug_info, gu_event_occur, pidVars
  <1>4. CASE gu_get_maps_info
    <2>0. call.pid \notin pid_ctx_list /\ UNCHANGED pid_ctx_list
      BY Zenon, <1>4 DEF gu_get_maps_info, ControlOK
    <2>1. CASE ~UNCHANGED pid_ctx
      <3>1. PICK count \in 1..MaxMaps : pid_ctx' = [pid_ctx EXCEPT ![call.pid] =
               [NullCtx EXCEPT !.count = count, !.unique_id = call.unique_id,
                               !.maps_inst = inst[call.pid], !.maps_ns = gu_cache_now_ns]]
        BY Zenon, <1>4, <2>1 DEF gu_get_maps_info
      <3> HIDE DEF gu_cache_now_ns
      <3>2. pid_ctx'[call.pid].maps_ns = gu_cache_now_ns
        BY <1>0, <3>1 DEF NullCtx
      <3> QED BY Zenon, <1>0, <2>0, <3>1, <3>2
    <2> QED BY Zenon, <1>1, <2>0, <2>1
  <1>5. CASE LoadMapping
    BY Zenon, <1>5, MappingKeepsContext DEF TimesKept, LoadMapping
  <1>6. CASE LoadDone
    <2>1. CASE ~UNCHANGED <<pid_ctx, pid_ctx_list, pid_ctx_count, listener>>
      <3>1. PICK delay \in ReloadMin..ReloadMax : pid_ctx' = [pid_ctx EXCEPT
               ![call.pid].next_maps_reload_ns = gu_cache_now_ns + delay,
               ![call.pid].private = call.private]
        BY Zenon, <1>6, <2>1 DEF LoadDone, gu_schedule_next_maps_reload
      <3>2. pid_ctx_list' = pid_ctx_list \cup {call.pid}
        BY Zenon, <1>6, <2>1 DEF LoadDone
      <3> HIDE DEF gu_cache_now_ns
      <3>3. /\ pid_ctx'[call.pid].maps_ns = pid_ctx[call.pid].maps_ns
            /\ pid_ctx'[call.pid].next_maps_reload_ns = gu_cache_now_ns + delay
        BY <1>0, <3>1 DEF PidCtx
      <3>4. \A p \in Pid : p # call.pid => pid_ctx'[p] = pid_ctx[p]
        BY Zenon, <1>0, <3>1
      <3> QED BY Zenon, <3>2, <3>3, <3>4
    <2> QED BY Zenon, <1>1, <2>1
  <1>7. CASE Clear
    <2>0. call.pid \notin pid_ctx_list /\ UNCHANGED pid_ctx_list
      BY Zenon, <1>7 DEF Clear, ControlOK
    <2>1. CASE pid_ctx' = [pid_ctx EXCEPT ![call.pid] = NullCtx]
      BY Zenon, <1>0, <2>0, <2>1
    <2> QED BY Zenon, <1>1, <1>7, <2>0, <2>1 DEF Clear
  <1>8. CASE gu_cleanup
    BY Zenon, <1>1, <1>8 DEF gu_cleanup, Unlink, pidVars
  <1>9. CASE Body \/ gu_reload_pid_ctx
    BY Zenon, <1>1, <1>9 DEF Body, gu_reload_pid_ctx, Destroy, Unlink, pidVars
  <1>10. CASE \/ gu_maybe_sweep_retired_elf \/ SweepLoad \/ Kill
              \/ SearchHit \/ SearchMiss \/ SearchNull \/ StopUnwind
    BY Zenon, <1>1, <1>10 DEF gu_maybe_sweep_retired_elf, SweepLoad, Kill, SearchHit, SearchMiss, SearchNull,
                       StopUnwind, pidVars
  <1> QED BY Zenon, <1>2, <1>3, <1>4, <1>5, <1>6, <1>7, <1>8, <1>9, <1>10 DEF Next, CallStep

(* A deadline set from a clock that is past the reading is far enough away. *)
LEMMA FarEnough ==
  ASSUME NEW m \in Nat, NEW t \in Nat, m <= t, NEW delay \in ReloadMin..ReloadMax
  PROVE  m + ReloadMin <= t + delay
  BY CacheConstants

(* Times in order stay in order when the clock moves on.                    *)
LEMMA LaterStill ==
  ASSUME NEW m \in Nat, NEW t \in Nat, NEW u \in Nat, m <= t, t <= u
  PROVE  m <= u
  OBVIOUS

(* Every step keeps the times of the contexts in order.                     *)
LEMMA SpacedNext ==
  ASSUME CoreInv, MapsReadBefore(gu_cache_now_ns), ReloadsSpaced, Next
  PROVE  MapsReadBefore(gu_cache_now_ns)' /\ ReloadsSpaced'
  <1>0. /\ CallTypes /\ ControlOK /\ call.pid \in Pid /\ pid_ctx_list \subseteq Pid
        /\ \A p \in Pid : pid_ctx[p].maps_ns \in Nat
    BY DEF CoreInv, CallTypes, Call, PidCtx
  <1>1. gu_cache_now_ns \in Nat /\ gu_cache_now_ns' \in Nat /\ gu_cache_now_ns <= gu_cache_now_ns'
    <2>1. CoreInv'
      BY CoreNext
    <2>2. gu_cache_now_ns' \in Nat
      BY <2>1 DEF CoreInv, TimerTypeOK, gu_cache_now_ns
    <2>3. gu_cache_now_ns \in Nat
      BY DEF CoreInv, TimerTypeOK, gu_cache_now_ns
    <2> QED BY Zenon, <2>2, <2>3, ClockNext DEF CoreInv
  <1> HIDE DEF gu_cache_now_ns
  <1>2. \A p \in Pid : pid_ctx[p].maps_ns <= gu_cache_now_ns'
    BY Zenon, <1>0, <1>1, LaterStill DEF MapsReadBefore
  <1>3. 0 <= gu_cache_now_ns' /\ gu_cache_now_ns <= gu_cache_now_ns'
    BY <1>1
  <1>4. CASE TimesKept
    BY Zenon, <1>0, <1>2, <1>4 DEF TimesKept, MapsReadBefore, ReloadsSpaced
  <1>5. CASE /\ call.pid \notin pid_ctx_list /\ UNCHANGED pid_ctx_list
             /\ pid_ctx'[call.pid].maps_ns \in {0, gu_cache_now_ns}
             /\ \A p \in Pid : p # call.pid => pid_ctx'[p] = pid_ctx[p]
    <2>1. ASSUME NEW p \in Pid PROVE pid_ctx'[p].maps_ns <= gu_cache_now_ns'
      BY Zenon, <1>2, <1>3, <1>5
    <2>2. \A p \in pid_ctx_list : pid_ctx'[p] = pid_ctx[p]
      BY Zenon, <1>0, <1>5
    <2> QED BY Zenon, <1>5, <2>1, <2>2 DEF MapsReadBefore, ReloadsSpaced
  <1>6. CASE /\ pid_ctx_list' = pid_ctx_list \cup {call.pid}
             /\ pid_ctx'[call.pid].maps_ns = pid_ctx[call.pid].maps_ns
             /\ \E delay \in ReloadMin..ReloadMax :
                  pid_ctx'[call.pid].next_maps_reload_ns = gu_cache_now_ns + delay
             /\ \A p \in Pid : p # call.pid => pid_ctx'[p] = pid_ctx[p]
    <2>1. ASSUME NEW p \in Pid PROVE pid_ctx'[p].maps_ns <= gu_cache_now_ns'
      BY Zenon, <1>2, <1>6
    <2>2. pid_ctx'[call.pid].maps_ns + ReloadMin <= pid_ctx'[call.pid].next_maps_reload_ns
      BY Zenon, <1>0, <1>1, <1>6, FarEnough DEF MapsReadBefore
    <2>3. \A p \in pid_ctx_list' : p = call.pid \/ (p \in pid_ctx_list /\ pid_ctx'[p] = pid_ctx[p])
      BY Zenon, <1>0, <1>6
    <2> QED BY Zenon, <2>1, <2>2, <2>3 DEF MapsReadBefore, ReloadsSpaced
  <1> QED BY Zenon, <1>0, <1>4, <1>5, <1>6, TimeSteps

(* Maps that a PC miss discards are at least the minimum interval old on    *)
(* the cached clock, for any processes, any timer and any random delays.    *)
THEOREM ReloadsAreThrottled == Spec => ReloadThrottled
  <1>1. Init => MapsReadBefore(gu_cache_now_ns) /\ ReloadsSpaced
    <2> SUFFICES ASSUME Init PROVE MapsReadBefore(gu_cache_now_ns) /\ ReloadsSpaced
      OBVIOUS
    <2>1. gu_cache_now_ns \in Nat
      BY CoreInit, CacheNow DEF CoreInv
    <2>2. \A p \in Pid : pid_ctx[p].maps_ns = 0
      BY DEF Init, NullCtx
    <2>3. ReloadsSpaced
      BY Zenon DEF Init, ReloadsSpaced
    <2> HIDE DEF gu_cache_now_ns
    <2> QED BY <2>1, <2>2, <2>3 DEF MapsReadBefore
  <1>2. CoreInv /\ MapsReadBefore(gu_cache_now_ns) /\ ReloadsSpaced /\ [Next]_vars
          => MapsReadBefore(gu_cache_now_ns)' /\ ReloadsSpaced'
    <2>1. ASSUME MapsReadBefore(gu_cache_now_ns), ReloadsSpaced, UNCHANGED vars
          PROVE  MapsReadBefore(gu_cache_now_ns)' /\ ReloadsSpaced'
      <3>1. gu_cache_now_ns' = gu_cache_now_ns /\ UNCHANGED <<pid_ctx, pid_ctx_list>>
        BY Zenon, <2>1 DEF vars, timerVars, pidVars, gu_cache_now_ns
      <3> HIDE DEF gu_cache_now_ns
      <3> QED BY Zenon, <2>1, <3>1 DEF MapsReadBefore, ReloadsSpaced
    <2> QED BY Zenon, <2>1, SpacedNext
  <1>3. CoreInv /\ ReloadsSpaced /\ [Next]_vars =>
          [(apc = "search" /\ apc' = "clear")
             => gu_cache_now_ns >= pid_ctx[call.pid].maps_ns + ReloadMin]_vars
    <2> SUFFICES ASSUME CoreInv, ReloadsSpaced, Next, apc = "search", apc' = "clear"
                 PROVE  gu_cache_now_ns >= pid_ctx[call.pid].maps_ns + ReloadMin
      OBVIOUS
    <2>1. /\ call \in Call /\ pid_ctx[call.pid].next_maps_reload_ns \in Nat
          /\ pid_ctx[call.pid].maps_ns \in Nat
      BY DEF CoreInv, CallTypes, Call, PidCtx
    <2>2. ~AfterMiss(call)
      BY <2>1, AfterMissType
    <2>3. ~(Environment \/ ApiCall \/ gu_cleanup)
      BY DEF Environment, Fork, Exit, ApiCall, gu_unwind, gu_preload_pid_debug_info,
             gu_event_occur, gu_set_pid_private_info, gu_cleanup
    <2>4. gu_reload_pid_ctx
      BY Zenon, <2>2, <2>3 DEF Next, CallStep, gu_maybe_sweep_retired_elf, SweepLoad, Body, Kill,
             gu_get_maps_info, LoadMapping, LoadDone, SearchHit, SearchMiss, SearchNull,
             StopUnwind, Return, Clear
    <2>5. /\ gu_cache_now_ns >= pid_ctx[call.pid].next_maps_reload_ns
          /\ call.pid \in pid_ctx_list
      BY Zenon, <2>4 DEF gu_reload_pid_ctx, CoreInv, ControlOK
    <2>6. pid_ctx[call.pid].maps_ns + ReloadMin <= pid_ctx[call.pid].next_maps_reload_ns
      BY Zenon, <2>5 DEF ReloadsSpaced
    <2>7. gu_cache_now_ns \in Nat
      BY CacheNow DEF CoreInv
    <2> HIDE DEF gu_cache_now_ns
    <2> QED BY <2>1, <2>5, <2>6, <2>7, CacheConstants
  <1> QED BY <1>1, <1>2, <1>3, CoreAlways, PTL DEF Spec, ReloadThrottled

-----------------------------------------------------------------------------
IdInv == IdsOrdered /\ PrivateOfSameProcess /\ ListenersMirrorCache

(* A call that names no process has the least start time.                   *)
LEMMA ZeroIsLeast == ASSUME NEW k \in Nat PROVE 0 <= k
  OBVIOUS

(* What the listeners know of the contexts in S.                            *)
Announced(S, f) == {<<p, f[p].unique_id>> : p \in S}

OnePairMore(S, f, g, pid) ==
  (\A p \in S \cup {pid} : g[p].unique_id = f[p].unique_id)
    => Announced(S \cup {pid}, g) = Announced(S, f) \cup {<<pid, f[pid].unique_id>>}

(* A context that is announced is one pair more for the listeners.          *)
LEMMA OneListenerMore ==
  ASSUME NEW S, NEW f, NEW g, NEW pid
  PROVE  OnePairMore(S, f, g, pid)
  BY Zenon DEF OnePairMore, Announced

(* Returning from a call that has left the contexts alone keeps them.       *)
LEMMA IdReturn ==
  ASSUME CallTypes, IdInv, UNCHANGED <<pid_ctx, pid_ctx_list, listener, inst>>,
         Return, call.op # "cleanup"
  PROVE  IdInv'
  <1>1. call'.unique_id = 0 /\ call'.private = NoPriv /\ call'.op = "none" /\ call'.pid \in Pid
    BY NoCallType DEF Return, NoCall, Call
  <1>2. inst[call'.pid] \in Nat
    BY Zenon, <1>1 DEF CallTypes
  <1>3. IdsOrdered'
    <2>1. call'.unique_id <= inst'[call'.pid]
      BY Zenon, <1>1, <1>2, ZeroIsLeast
    <2> QED BY Zenon, <1>1, <2>1 DEF Return, IdInv, IdsOrdered
  <1>4. PrivateOfSameProcess' /\ ListenersMirrorCache'
    BY Zenon, <1>1 DEF IdInv, PrivateOfSameProcess, ListenersMirrorCache
  <1> QED BY Zenon, <1>3, <1>4 DEF IdInv

(* So does a step within a call, unless it begins a load or a search.       *)
LEMMA IdKept ==
  ASSUME CallTypes, IdInv, UNCHANGED <<pid_ctx, pid_ctx_list, listener, inst>>,
         call'.pid = call.pid, call'.unique_id = call.unique_id,
         call'.private \in {call.private, NoPriv}, call'.op = call.op,
         \/ apc' \notin {"elf", "finish", "search", "search_again"}
         \/ call'.null /\ apc' \notin {"elf", "finish"}
         \/ apc \in {"elf", "finish"}
         \/ /\ apc \in {"search", "search_again"} /\ apc' \notin {"elf", "finish"}
            /\ ~call.null
  PROVE  IdInv'
  <1>1. IdsOrdered'
    BY Zenon DEF IdInv, IdsOrdered
  <1>2. PrivateOfSameProcess' /\ ListenersMirrorCache'
    BY DEF IdInv, PrivateOfSameProcess, ListenersMirrorCache
  <1> QED BY Zenon, <1>1, <1>2 DEF IdInv

(* The continuation after a PC miss.                                        *)
LEMMA IdAfterMiss ==
  ASSUME CallTypes, IdInv, UNCHANGED <<pid_ctx, pid_ctx_list, listener, inst>>,
         NEW c \in Call, AfterMiss(c), call.op # "cleanup",
         c.pid = call.pid, c.unique_id = call.unique_id, c.private = call.private, c.op = call.op,
         c.null \/ (apc \in {"search", "search_again"} /\ ~call.null)
  PROVE  IdInv'
  <1>1. CASE Return
    BY Zenon, <1>1, IdReturn
  <1>2. CASE ~Return
    <2>1. /\ call'.pid = c.pid /\ call'.unique_id = c.unique_id /\ call'.private = c.private
          /\ call'.op = c.op /\ call'.null = c.null /\ apc' = "search"
      BY ZenonT(30), <1>2 DEF AfterMiss, Call
    <2> QED BY Zenon, <2>1, IdKept
  <1> QED BY Zenon, <1>1, <1>2

(* A context that is destroyed was announced under its start time.          *)
LEMMA IdDestroy ==
  ASSUME CallTypes, IdInv, UNCHANGED inst, NEW c \in Call, call.pid \in pid_ctx_list,
         Destroy(call.pid, c), c.pid = call.pid, c.unique_id = call.unique_id, c.op = call.op,
         c.private # NoPriv => c.unique_id \in {0, c.private}
  PROVE  IdInv'
  <1>1. /\ call'.pid = call.pid /\ call'.unique_id = call.unique_id /\ call'.op = call.op
        /\ call'.private = c.private /\ apc' = "clear"
        /\ UNCHANGED pid_ctx /\ pid_ctx_list' = pid_ctx_list \ {call.pid}
        /\ listener' = listener \ {<<call.pid, pid_ctx[call.pid].unique_id>>}
    BY DEF Destroy, Unlink, Call
  <1>2. IdsOrdered'
    BY ZenonT(30), <1>1 DEF IdInv, IdsOrdered
  <1>3. PrivateOfSameProcess'
    BY ZenonT(30), <1>1 DEF IdInv, PrivateOfSameProcess
  <1>4. ListenersMirrorCache'
    <2> SUFFICES ASSUME call.op # "cleanup"
                 PROVE  listener' = {<<p, pid_ctx'[p].unique_id>> : p \in pid_ctx_list'}
      BY Zenon, <1>1 DEF ListenersMirrorCache
    <2> DEFINE Told(p) == <<p, pid_ctx[p].unique_id>>
    <2>1. \A p, q : Told(p) = Told(q) => p = q
      OBVIOUS
    <2>2. listener = {Told(p) : p \in pid_ctx_list}
      BY Zenon DEF IdInv, ListenersMirrorCache
    <2> HIDE DEF Told
    <2>3. {Told(p) : p \in pid_ctx_list} \ {Told(call.pid)} = {Told(p) : p \in pid_ctx_list \ {call.pid}}
      BY Zenon, <2>1
    <2> QED BY Zenon, <1>1, <2>2, <2>3 DEF Told
  <1> QED BY Zenon, <1>2, <1>3, <1>4 DEF IdInv

(* A step that changes one context out of the hash table keeps what is said *)
(* of the listed ones.                                                      *)
LEMMA IdUnlisted ==
  ASSUME IdInv, UNCHANGED <<pid_ctx_list, listener>>, call'.op = call.op \/ call.op # "cleanup",
         \A p \in pid_ctx_list : /\ pid_ctx'[p].unique_id = pid_ctx[p].unique_id
                                /\ pid_ctx'[p].private = pid_ctx[p].private
  PROVE  PrivateOfSameProcess' /\ ListenersMirrorCache'
  <1>1. PrivateOfSameProcess'
    BY Zenon DEF IdInv, PrivateOfSameProcess
  <1>2. {<<p, pid_ctx'[p].unique_id>> : p \in pid_ctx_list}
          = {<<p, pid_ctx[p].unique_id>> : p \in pid_ctx_list}
    BY Zenon
  <1>3. ListenersMirrorCache'
    BY Zenon, <1>2 DEF IdInv, ListenersMirrorCache
  <1> QED BY <1>1, <1>3

(* Every step keeps identities straight.                                    *)
LEMMA IdNext ==
  ASSUME CoreInv, IdInv, Next
  PROVE  IdInv'
  <1>0. /\ call \in Call /\ ControlOK /\ CallTypes /\ call.pid \in Pid
        /\ pid_ctx \in [Pid -> PidCtx] /\ inst \in [Pid -> Nat] /\ pid_ctx[call.pid] \in PidCtx
        /\ pid_ctx_list \subseteq Pid /\ call.unique_id \in Nat
    BY DEF CoreInv, CallTypes, Call
  <1>1. CASE Environment
    <2>1. UNCHANGED <<pidVars, apc, call>>
      BY <1>1 DEF Environment, Fork, Exit
    <2>2. \A p \in Pid : inst[p] <= inst'[p] /\ inst'[p] \in Nat
      BY <1>0, <1>1 DEF Environment, Fork, Exit, osVars
    <2>3. \A p \in Pid : pid_ctx[p].unique_id \in Nat /\ pid_ctx[p].maps_inst \in Nat
      BY Zenon, <1>0 DEF PidCtx
    <2>4. IdsOrdered'
      BY <1>0, <2>1, <2>2, <2>3 DEF pidVars, IdInv, IdsOrdered
    <2> QED BY <2>1, <2>4, IdUnlisted DEF pidVars, IdInv
  <1>2. CASE ApiCall
    <2>0. apc = "idle" /\ call.op = "none" /\ call.private = NoPriv
      <3>1. apc = "idle"
        BY Zenon, <1>2 DEF ApiCall, gu_unwind, gu_preload_pid_debug_info, gu_event_occur, gu_set_pid_private_info
      <3> QED BY <1>0, <3>1 DEF ControlOK, NoCall
    <2>1. CASE \E p \in Pid : gu_set_pid_private_info(p)
      <3>1. PICK p \in Pid : gu_set_pid_private_info(p)
        BY <2>1
      <3>2. PICK private \in {pid_ctx[p].unique_id, NoPriv} :
              pid_ctx' = [pid_ctx EXCEPT ![p].private = private]
        BY Zenon, <3>1 DEF gu_set_pid_private_info
      <3>3. UNCHANGED <<osVars, pid_ctx_list, listener, apc, call>>
        BY <3>1 DEF gu_set_pid_private_info
      <3>4. \A q \in Pid : /\ pid_ctx'[q].unique_id = pid_ctx[q].unique_id
                           /\ pid_ctx'[q].maps_inst = pid_ctx[q].maps_inst
                           /\ pid_ctx'[q].private = IF q = p THEN private ELSE pid_ctx[q].private
        <4> TAKE q \in Pid
        <4>1. pid_ctx[q] \in PidCtx
          BY Zenon, <1>0
        <4> QED BY <1>0, <3>2, <4>1 DEF PidCtx
      <3>5. IdsOrdered'
        BY ZenonT(30), <1>0, <2>0, <3>3, <3>4 DEF osVars, IdInv, IdsOrdered
      <3>6. PrivateOfSameProcess'
        BY Zenon, <1>0, <3>3, <3>4 DEF IdInv, PrivateOfSameProcess
      <3>7. ListenersMirrorCache'
        BY <1>0, <3>3, <3>4 DEF IdInv, ListenersMirrorCache
      <3> QED BY <3>5, <3>6, <3>7 DEF IdInv
    <2>2. CASE ~ \E p \in Pid : gu_set_pid_private_info(p)
      <3>1. UNCHANGED <<osVars, pidVars>> /\ apc' = "sweep"
        BY ZenonT(30), <1>2, <2>2 DEF ApiCall, gu_unwind, gu_preload_pid_debug_info, gu_event_occur
      <3>2. call'.private = NoPriv /\ call'.op # "cleanup"
        BY ZenonT(30), <1>2, <2>2 DEF ApiCall, gu_unwind, gu_preload_pid_debug_info, gu_event_occur, NoCall
      <3>3. call'.unique_id <= inst[call'.pid]
        <4>1. CASE \E p \in Pid : \E u \in 0..inst[p], hint, unknown \in BOOLEAN : gu_unwind(p, u, hint, unknown)
          BY <1>0, <4>1 DEF gu_unwind, NoCall
        <4>2. CASE \E p \in Pid : gu_preload_pid_debug_info(p)
          <5>1. PICK p \in Pid : gu_preload_pid_debug_info(p)
            BY <4>2
          <5>2. pid_ctx[p].unique_id \in Nat /\ pid_ctx[p].maps_inst \in Nat /\ inst[p] \in Nat
            BY Zenon, <1>0 DEF PidCtx
          <5>3. gu_get_pid_unique_id(p) <= inst[p]
            BY <5>2 DEF gu_get_pid_unique_id, IdInv, IdsOrdered
          <5>4. call'.pid = p /\ call'.unique_id = gu_get_pid_unique_id(p)
            BY <5>1 DEF gu_preload_pid_debug_info, NoCall
          <5> QED BY <5>3, <5>4
        <4>3. CASE \E p \in Pid, type \in {"exit", "module_reload"} : gu_event_occur(type, p)
          BY <1>0, <4>3 DEF gu_event_occur, NoCall
        <4> QED BY <1>2, <2>2, <4>1, <4>2, <4>3 DEF ApiCall
      <3>4. IdsOrdered'
        BY Zenon, <3>1, <3>2, <3>3 DEF osVars, pidVars, IdInv, IdsOrdered
      <3> QED BY Zenon, <2>0, <3>1, <3>4, IdUnlisted DEF pidVars, IdInv
    <2> QED BY Zenon, <2>1, <2>2
  <1>3. CASE gu_maybe_sweep_retired_elf \/ SweepLoad
    BY Zenon, <1>0, <1>3, IdKept DEF gu_maybe_sweep_retired_elf, SweepLoad, pidVars, osVars
  <1>4. CASE Body
    <2>0. apc = "body" /\ call.op # "cleanup" /\ UNCHANGED inst
      BY <1>0, <1>4 DEF Body, ControlOK, osVars
    <2>1. ASSUME NEW a \in {"kill", "return"}, Destroy(call.pid, [call EXCEPT !.after = a]),
                 call.pid \in pid_ctx_list
          PROVE  IdInv'
      <3> DEFINE c == [call EXCEPT !.after = a]
      <3>1. /\ c \in Call /\ c.pid = call.pid /\ c.unique_id = call.unique_id /\ c.op = call.op
            /\ c.private = call.private
        BY <1>0 DEF Call
      <3>2. call.private # NoPriv => call.unique_id \in {0, call.private}
        BY DEF IdInv, IdsOrdered
      <3> QED BY Zenon, <1>0, <2>0, <2>1, <3>1, <3>2, IdDestroy
    <2>2. CASE Return /\ UNCHANGED pidVars
      BY <1>0, <2>0, <2>2, IdReturn DEF pidVars
    <2>3. CASE /\ apc' = "search" /\ call' = [call EXCEPT !.mode = IF call.fp THEN "fp" ELSE "dwarf"]
               /\ UNCHANGED pidVars
               /\ ~(call.unique_id # 0 /\ pid_ctx[call.pid].unique_id # call.unique_id)
      <3>1. /\ call'.pid = call.pid /\ call'.unique_id = call.unique_id /\ call'.op = call.op
            /\ call'.private = call.private /\ call'.null = call.null
        BY <1>0, <2>3 DEF Call
      <3>2. IdsOrdered'
        BY Zenon, <2>0, <2>3, <3>1 DEF pidVars, IdInv, IdsOrdered
      <3> QED BY <2>0, <2>3, <3>1, <3>2, IdUnlisted DEF pidVars, IdInv
    <2>4. CASE apc' = "kill" /\ UNCHANGED <<call, pidVars>>
      BY <1>0, <2>0, <2>4, IdKept DEF pidVars
    <2> QED BY <1>4, <2>1, <2>2, <2>3, <2>4 DEF Body
  <1>5. CASE Kill
    <2>1. UNCHANGED <<pid_ctx, pid_ctx_list, listener, inst>> /\ call.op # "cleanup"
      BY <1>0, <1>5 DEF Kill, pidVars, osVars, ControlOK
    <2>2. CASE Return
      BY Zenon, <1>0, <2>1, <2>2, IdReturn
    <2>3. CASE apc' = "maps" /\ UNCHANGED call
      BY <1>0, <2>1, <2>3, IdKept
    <2> QED BY Zenon, <1>5, <2>2, <2>3 DEF Kill
  <1>6. ASSUME LoadFailed, UNCHANGED <<pid_ctx, pid_ctx_list, listener, inst>>, call.op # "cleanup"
        PROVE  IdInv'
    <2>1. CASE Return
      BY <1>0, <1>6, <2>1, IdReturn
    <2>2. CASE AfterMiss([call EXCEPT !.null = TRUE])
      <3> DEFINE c == [call EXCEPT !.null = TRUE]
      <3>1. /\ c \in Call /\ c.pid = call.pid /\ c.unique_id = call.unique_id /\ c.op = call.op
            /\ c.private = call.private /\ c.null
        BY Zenon, <1>0 DEF Call
      <3> QED BY Zenon, <1>0, <1>6, <2>2, <3>1, IdAfterMiss
    <2> QED BY <1>6, <2>1, <2>2 DEF LoadFailed
  <1>7. CASE gu_get_maps_info
    <2>0. /\ apc = "maps" /\ call.op # "cleanup" /\ call.pid \notin pid_ctx_list
          /\ UNCHANGED <<pid_ctx_list, listener, inst>>
      BY Zenon, <1>0, <1>7 DEF gu_get_maps_info, ControlOK, osVars
    <2>1. CASE LoadFailed /\ UNCHANGED pid_ctx
      BY Zenon, <1>6, <2>0, <2>1
    <2>2. CASE ~(LoadFailed /\ UNCHANGED pid_ctx)
      <3>1. PICK count \in 1..MaxMaps : pid_ctx' = [pid_ctx EXCEPT ![call.pid] =
               [NullCtx EXCEPT !.count = count, !.unique_id = call.unique_id,
                               !.maps_inst = inst[call.pid], !.maps_ns = gu_cache_now_ns]]
        BY Zenon, <1>7, <2>2 DEF gu_get_maps_info
      <3>2. pid_ctx'[call.pid].unique_id = call.unique_id /\ pid_ctx'[call.pid].maps_inst = inst[call.pid]
        BY <1>0, <3>1 DEF NullCtx
      <3>3. \A q \in Pid : q # call.pid => pid_ctx'[q] = pid_ctx[q]
        BY Zenon, <1>0, <3>1
      <3>4. call' = [call EXCEPT !.i = 1] /\ apc' = "elf"
        BY Zenon, <1>7, <2>2 DEF gu_get_maps_info
      <3>5. /\ call'.pid = call.pid /\ call'.unique_id = call.unique_id /\ call'.op = call.op
            /\ call'.private = call.private
        BY Zenon, <1>0, <3>4 DEF Call
      <3>6. inst[call.pid] \in Nat /\ call.unique_id <= inst[call.pid]
        BY Zenon, <1>0 DEF IdInv, IdsOrdered
      <3>7. \A q \in Pid : pid_ctx'[q].unique_id <= pid_ctx'[q].maps_inst /\ pid_ctx'[q].maps_inst <= inst[q]
        BY <1>0, <3>2, <3>3, <3>6 DEF IdInv, IdsOrdered
      <3>8. IdsOrdered'
        BY Zenon, <2>0, <3>2, <3>4, <3>5, <3>7 DEF IdInv, IdsOrdered
      <3>9. \A p \in pid_ctx_list : pid_ctx'[p] = pid_ctx[p]
        BY Zenon, <1>0, <2>0, <3>3
      <3> QED BY Zenon, <2>0, <3>5, <3>8, <3>9, IdUnlisted DEF IdInv
    <2> QED BY <2>1, <2>2
  <1>8. CASE LoadMapping
    <2>0. /\ apc = "elf" /\ call.op # "cleanup" /\ call.pid \notin pid_ctx_list
          /\ UNCHANGED <<pid_ctx_list, listener, inst>>
      BY Zenon, <1>0, <1>8 DEF LoadMapping, ControlOK, osVars
    <2>1. \A p \in Pid : /\ pid_ctx'[p].unique_id = pid_ctx[p].unique_id
                         /\ pid_ctx'[p].maps_inst = pid_ctx[p].maps_inst
                         /\ pid_ctx'[p].private = pid_ctx[p].private
      BY <1>0, <1>8, MappingKeepsContext
    <2>2. /\ call'.pid = call.pid /\ call'.unique_id = call.unique_id /\ call'.op = call.op
          /\ call'.private = call.private
      BY Zenon, <1>0, <1>8 DEF LoadMapping, Abandon, Call
    <2>3. apc' \in {"elf", "finish", "clear"}
      BY Zenon, <1>8 DEF LoadMapping, Abandon
    <2>4. IdsOrdered'
      BY Zenon, <1>0, <2>0, <2>1, <2>2, <2>3 DEF IdInv, IdsOrdered
    <2> QED BY Zenon, <1>0, <2>0, <2>1, <2>2, <2>4, IdUnlisted DEF IdInv
  <1>9. CASE LoadDone
    <2>0. apc = "finish" /\ call.op # "cleanup" /\ call.pid \notin pid_ctx_list /\ UNCHANGED inst
      BY Zenon, <1>0, <1>9 DEF LoadDone, ControlOK, osVars
    <2>1. CASE Abandon /\ UNCHANGED <<pid_ctx, pid_ctx_list, pid_ctx_count, listener>>
      <3>1. /\ call'.pid = call.pid /\ call'.unique_id = call.unique_id /\ call'.op = call.op
            /\ call'.private = call.private /\ apc' = "clear"
        BY <1>0, <2>1 DEF Abandon, Call
      <3> QED BY <1>0, <2>0, <2>1, <3>1, IdKept
    <2>2. CASE ~(Abandon /\ UNCHANGED <<pid_ctx, pid_ctx_list, pid_ctx_count, listener>>)
      <3>1. PICK delay \in ReloadMin..ReloadMax : pid_ctx' = [pid_ctx EXCEPT
               ![call.pid].next_maps_reload_ns = gu_cache_now_ns + delay,
               ![call.pid].private = call.private]
        BY <1>9, <2>2 DEF LoadDone, gu_schedule_next_maps_reload
      <3>2. \A q \in Pid : /\ pid_ctx'[q].unique_id = pid_ctx[q].unique_id
                           /\ pid_ctx'[q].maps_inst = pid_ctx[q].maps_inst
                           /\ pid_ctx'[q].private = IF q = call.pid THEN call.private ELSE pid_ctx[q].private
        <4> TAKE q \in Pid
        <4>1. pid_ctx[q] \in PidCtx
          BY <1>0
        <4> QED BY Zenon, <1>0, <3>1, <4>1 DEF PidCtx
      <3>3. /\ pid_ctx_list' = pid_ctx_list \cup {call.pid}
            /\ listener' = listener \cup {<<call.pid, pid_ctx[call.pid].unique_id>>}
        BY Zenon, <1>9, <2>2 DEF LoadDone
      <3>4. pid_ctx[call.pid].unique_id = call.unique_id
        BY Zenon, <2>0 DEF IdInv, IdsOrdered
      <3>5. call.private # NoPriv => call.unique_id \in {0, call.private}
        BY Zenon DEF IdInv, IdsOrdered
      <3>6. PrivateOfSameProcess'
        BY <1>0, <3>2, <3>3, <3>4, <3>5 DEF IdInv, PrivateOfSameProcess
      <3>7. ListenersMirrorCache'
        <4>1. listener = Announced(pid_ctx_list, pid_ctx)
          BY Zenon, <2>0 DEF IdInv, ListenersMirrorCache, Announced
        <4>2. \A p \in pid_ctx_list \cup {call.pid} : pid_ctx'[p].unique_id = pid_ctx[p].unique_id
          BY Zenon, <1>0, <3>2
        <4>3. Announced(pid_ctx_list \cup {call.pid}, pid_ctx')
                = Announced(pid_ctx_list, pid_ctx) \cup {<<call.pid, pid_ctx[call.pid].unique_id>>}
          <5>1. OnePairMore(pid_ctx_list, pid_ctx, pid_ctx', call.pid)
            BY Zenon, OneListenerMore
          <5> QED BY Zenon, <4>2, <5>1 DEF OnePairMore
        <4>4. listener' = Announced(pid_ctx_list', pid_ctx')
          BY Zenon, <3>3, <4>1, <4>3
        <4> QED BY Zenon, <4>4 DEF ListenersMirrorCache, Announced
      <3>8. CASE Return
        <4>1. call'.unique_id = 0 /\ call'.private = NoPriv /\ call'.op = "none" /\ call'.pid \in Pid
          BY Zenon, <3>8, NoCallType DEF Return, NoCall, Call
        <4>2. inst[call'.pid] \in Nat
          BY Zenon, <1>0, <4>1
        <4>3. IdsOrdered'
          <5>1. call'.unique_id <= inst'[call'.pid]
            BY Zenon, <2>0, <4>1, <4>2, ZeroIsLeast
          <5> QED BY ZenonT(30), <2>0, <3>2, <3>8, <4>1, <5>1 DEF Return, IdInv, IdsOrdered
        <4> QED BY <3>6, <3>7, <4>3 DEF IdInv
      <3>9. CASE ~Return
        <4>1. /\ call'.pid = call.pid /\ call'.unique_id = call.unique_id /\ call'.op = call.op
              /\ call'.private \in {call.private, NoPriv} /\ apc' \in {"search", "search_again"}
          BY Zenon, <1>0, <1>9, <2>2, <3>9 DEF LoadDone, Call
        <4>2. IdsOrdered'
          BY Zenon, <1>0, <2>0, <3>2, <3>4, <4>1 DEF IdInv, IdsOrdered
        <4> QED BY <3>6, <3>7, <4>2 DEF IdInv
      <3> QED BY <3>8, <3>9
    <2> QED BY <2>1, <2>2
  <1>10. CASE SearchHit \/ SearchMiss \/ StopUnwind \/ SearchNull
    <2>0. /\ apc \in {"search", "search_again"} /\ call.op # "cleanup"
          /\ UNCHANGED <<pid_ctx, pid_ctx_list, listener, inst>>
      BY <1>0, <1>10 DEF SearchHit, SearchMiss, StopUnwind, SearchNull, ControlOK, pidVars, osVars
    <2>1. CASE Return
      BY <1>0, <2>0, <2>1, IdReturn
    <2>2. CASE AfterMiss(call)
      BY <1>0, <2>0, <2>2, IdAfterMiss
    <2>3. CASE \E i \in 1..pid_ctx[call.pid].count :
                 ~call.null /\ apc' = "search" /\ call' = [call EXCEPT !.elf_ctx = map_ctx[<<call.pid, i>>]]
      <3>1. /\ call'.pid = call.pid /\ call'.unique_id = call.unique_id /\ call'.op = call.op
            /\ call'.private = call.private
        BY Zenon, <1>0, <2>3 DEF Call
      <3> QED BY <1>0, <2>0, <2>3, <3>1, IdKept
    <2>4. CASE apc' = "fault" /\ UNCHANGED call
      BY <1>0, <2>0, <2>4, IdKept
    <2> QED BY Zenon, <1>10, <2>1, <2>2, <2>3, <2>4 DEF SearchHit, SearchMiss, StopUnwind, SearchNull
  <1>11. CASE gu_reload_pid_ctx
    <2>1. PICK copy \in {pid_ctx[call.pid].private, NoPriv} :
            Destroy(call.pid, [call EXCEPT !.maps_reloaded = TRUE, !.private = copy, !.after = "maps"])
      BY Zenon, <1>11 DEF gu_reload_pid_ctx
    <2>2. call.pid \in pid_ctx_list /\ apc = "search" /\ ~call.null /\ UNCHANGED inst
      BY <1>0, <1>11 DEF gu_reload_pid_ctx, ControlOK, osVars
    <2>3. copy # NoPriv => call.unique_id \in {0, copy}
      BY <2>1, <2>2 DEF IdInv, IdsOrdered, PrivateOfSameProcess
    <2>4. copy \in Nat \cup {NoPriv}
      BY <1>0, <2>1 DEF PidCtx
    <2> DEFINE c == [call EXCEPT !.maps_reloaded = TRUE, !.private = copy, !.after = "maps"]
    <2>5. /\ c \in Call /\ c.pid = call.pid /\ c.unique_id = call.unique_id /\ c.op = call.op
          /\ c.private = copy
      BY Zenon, <1>0, <2>4 DEF Call
    <2> QED BY Zenon, <1>0, <2>1, <2>2, <2>3, <2>5, IdDestroy
  <1>12. CASE Clear
    <2>0. apc = "clear" /\ call.pid \notin pid_ctx_list /\ UNCHANGED <<pid_ctx_list, listener, inst>>
      BY <1>0, <1>12 DEF Clear, ControlOK, osVars
    <2>1. CASE call.i > pid_ctx[call.pid].count
      <3>1. pid_ctx' = [pid_ctx EXCEPT ![call.pid] = NullCtx]
        BY <1>12, <2>1 DEF Clear
      <3>2. \A q \in Pid : pid_ctx'[q] = IF q = call.pid THEN NullCtx ELSE pid_ctx[q]
        BY Zenon, <1>0, <3>1
      <3>3. \A q \in Pid : pid_ctx'[q].unique_id <= pid_ctx'[q].maps_inst /\ pid_ctx'[q].maps_inst <= inst[q]
        <4>1. NullCtx.unique_id = 0 /\ NullCtx.maps_inst = 0 /\ inst[call.pid] \in Nat
          BY Zenon, <1>0 DEF NullCtx
        <4> QED BY <3>2, <4>1 DEF IdInv, IdsOrdered
      <3>4. \A p \in pid_ctx_list : pid_ctx'[p] = pid_ctx[p]
        BY <1>0, <2>0, <3>2
      <3>5. /\ call'.unique_id <= inst[call'.pid] /\ (call'.op = "cleanup" => call'.unique_id = 0)
            /\ call'.private # NoPriv => call'.unique_id \in {0, call'.private}
            /\ apc' \notin {"elf", "finish"} /\ (apc' \in {"search", "search_again"} => call'.null)
            /\ call'.op = call.op \/ call.op # "cleanup"
        <4>0. call.after # "cleanup" => call.op # "cleanup"
          BY Zenon, <1>0 DEF ControlOK
        <4>1. CASE Return /\ call.after \in {"return", "load_failed"}
          <5>1. call'.unique_id = 0 /\ call'.private = NoPriv /\ call'.op = "none" /\ call'.pid \in Pid
            BY ZenonT(30), <4>1, NoCallType DEF Return, NoCall, Call
          <5> QED BY <1>0, <4>0, <4>1, <5>1 DEF Return
        <4>2. CASE apc' \in {"kill", "maps", "cleanup"} /\ UNCHANGED call
          BY Zenon, <4>2 DEF IdInv, IdsOrdered
        <4>3. CASE call.after = "load_failed" /\ AfterMiss([call EXCEPT !.null = TRUE]) /\ ~Return
          <5>1. /\ call'.pid = call.pid /\ call'.unique_id = call.unique_id /\ call'.op = call.op
                /\ call'.private = call.private /\ call'.null /\ apc' = "search"
            BY Zenon, <1>0, <4>3 DEF AfterMiss, Call
          <5> QED BY <5>1 DEF IdInv, IdsOrdered
        <4> QED BY Zenon, <1>12, <2>1, <4>1, <4>2, <4>3 DEF Clear, LoadFailed
      <3>6. IdsOrdered'
        BY <2>0, <3>3, <3>5 DEF IdsOrdered
      <3> QED BY <2>0, <3>4, <3>5, <3>6, IdUnlisted DEF IdInv
    <2>2. CASE ~(call.i > pid_ctx[call.pid].count)
      <3>1. call' = [call EXCEPT !.i = @ + 1] /\ UNCHANGED <<pid_ctx, apc>>
        BY <1>12, <2>2 DEF Clear
      <3>2. /\ call'.pid = call.pid /\ call'.unique_id = call.unique_id /\ call'.op = call.op
            /\ call'.private = call.private
        BY Zenon, <1>0, <3>1 DEF Call
      <3> QED BY <1>0, <2>0, <3>1, <3>2, IdKept
    <2> QED BY <2>1, <2>2
  <1>13. CASE gu_cleanup
    <2>1. CASE apc = "idle"
      <3>1. /\ call'.unique_id = 0 /\ call'.private = NoPriv /\ call'.op = "cleanup" /\ call'.pid \in Pid
            /\ apc' \in {"stop_write", "cleanup"} /\ UNCHANGED <<inst, pidVars>>
        BY Zenon, <1>13, <2>1, NoCallType DEF gu_cleanup, NoCall, Call, osVars
      <3>2. inst[call'.pid] \in Nat
        BY <1>0, <3>1
      <3>3. IdsOrdered'
        BY <3>1, <3>2 DEF pidVars, IdInv, IdsOrdered
      <3>4. PrivateOfSameProcess' /\ ListenersMirrorCache'
        BY <3>1 DEF pidVars, IdInv, PrivateOfSameProcess, ListenersMirrorCache
      <3> QED BY <3>3, <3>4 DEF IdInv
    <2>2. CASE apc' \in {"stop_join", "cleanup", "freed"} /\ UNCHANGED <<osVars, pidVars, call>>
      BY <1>0, <2>2, IdKept DEF osVars, pidVars
    <2>3. CASE /\ apc = "cleanup" /\ apc' = "clear" /\ UNCHANGED <<osVars, listener>>
               /\ \E p \in pid_ctx_list : Unlink(p) /\ call' = [call EXCEPT !.pid = p, !.i = 1]
      <3>1. PICK p \in pid_ctx_list : Unlink(p) /\ call' = [call EXCEPT !.pid = p, !.i = 1]
        BY Zenon, <2>3
      <3>2. /\ call'.pid = p /\ call'.unique_id = call.unique_id /\ call'.op = call.op
            /\ call'.private = call.private
        BY <1>0, <3>1 DEF Call
      <3>3. call.op = "cleanup" /\ call.unique_id = 0
        BY <1>0, <2>3 DEF ControlOK, IdInv, IdsOrdered
      <3>4. IdsOrdered'
        BY <1>0, <2>3, <3>1, <3>2, <3>3 DEF Unlink, osVars, IdInv, IdsOrdered
      <3>5. PrivateOfSameProcess' /\ ListenersMirrorCache'
        BY <3>1, <3>2, <3>3 DEF Unlink, IdInv, PrivateOfSameProcess, ListenersMirrorCache
      <3> QED BY Zenon, <3>4, <3>5 DEF IdInv
    <2> QED BY Zenon, <1>13, <2>1, <2>2, <2>3 DEF gu_cleanup
  <1> QED
    BY Zenon, <1>1, <1>2, <1>3, <1>4, <1>5, <1>7, <1>8, <1>9, <1>10, <1>11, <1>12, <1>13 DEF Next, CallStep

(* Start times, metadata and listeners stay consistent throughout.          *)
LEMMA IdAlways == Spec => []IdInv
  <1>1. Init => IdInv
    <2> SUFFICES ASSUME Init PROVE IdInv
      OBVIOUS
    <2>1. /\ call.unique_id = 0 /\ call.private = NoPriv /\ call.op = "none" /\ call.pid \in Pid
          /\ NullCtx.unique_id = 0 /\ NullCtx.maps_inst = 0
      BY Zenon, NoCallType DEF Init, NoCall, Call, NullCtx
    <2>2. IdsOrdered
      BY <2>1 DEF Init, IdsOrdered
    <2> QED BY Zenon, <2>2 DEF Init, IdInv, PrivateOfSameProcess, ListenersMirrorCache
  <1>2. CoreInv /\ IdInv /\ [Next]_vars => IdInv'
    <2>1. IdInv /\ UNCHANGED vars => IdInv'
      BY ZenonT(30) DEF vars, osVars, pidVars, IdInv, IdsOrdered, PrivateOfSameProcess, ListenersMirrorCache
    <2> QED BY Zenon, <2>1, IdNext
  <1> QED BY <1>1, <1>2, CoreAlways, PTL DEF Spec

(* PID reuse: a sample of the process that has the PID now is never looked  *)
(* up in the maps of an earlier process with that PID.                      *)
THEOREM ReuseIsDetected == Spec => []SampleSeesItsProcess
  <1>1. CoreInv /\ IdInv => SampleSeesItsProcess
    <2> SUFFICES ASSUME CoreInv, IdInv,
                        apc = "search", ~call.null, call.unique_id # 0,
                        call.unique_id = inst[call.pid]
                 PROVE  pid_ctx[call.pid].maps_inst = call.unique_id
      BY DEF SampleSeesItsProcess
    <2>1. call.pid \in Pid /\ call.unique_id \in Nat /\ pid_ctx[call.pid].maps_inst \in Nat
      BY Zenon DEF CoreInv, CallTypes, Call, PidCtx
    <2>2. pid_ctx[call.pid].unique_id = call.unique_id
      BY Zenon DEF IdInv, IdsOrdered
    <2>3. /\ call.unique_id <= pid_ctx[call.pid].maps_inst
          /\ pid_ctx[call.pid].maps_inst <= call.unique_id
      BY <2>1, <2>2 DEF IdInv, IdsOrdered
    <2> QED BY <2>1, <2>3
  <1> QED BY <1>1, CoreAlways, IdAlways, PTL

(* Until gu_cleanup(), the listeners' view built from CREATE and DESTROY    *)
(* events is the set of cached contexts with their start times.             *)
THEOREM ListenersSeeTheCache == Spec => []ListenersMirrorCache
  <1>1. IdInv => ListenersMirrorCache
    BY DEF IdInv
  <1> QED BY <1>1, IdAlways, PTL

(* Caller metadata survives reloads but is never found on a context known   *)
(* to be of another process.                                                *)
THEOREM MetadataStaysWithItsProcess == Spec => []PrivateOfSameProcess
  <1>1. IdInv => PrivateOfSameProcess
    BY DEF IdInv
  <1> QED BY <1>1, IdAlways, PTL
=============================================================================
