----------------------------- MODULE GuCallProofs -----------------------------
(***************************************************************************)
(* What the steps keep.  The retire timer, load_elf(), gu_put_elf_ctx()    *)
(* and the sweep of retired entries: clock, reference counts, retirement,  *)
(* gauges and the next deadline.  The steps of an API call: the types of   *)
(* process contexts and of the call record, which context is in the hash   *)
(* table at which step, which mappings point at an ELF entry, and the      *)
(* order of start times.                                                   *)
(***************************************************************************)
EXTENDS GuCache, FiniteSetTheorems, TLAPS

ElfTypes ==
  /\ map_ctx \in [Slot -> Elf \cup {NoElf}]
  /\ elf_ctx_list \subseteq Elf
  /\ retired \subseteq Elf
  /\ refcnt \in [Elf -> Nat]
  /\ retire_deadline_ns \in [Elf -> Nat]
  /\ next_retired_elf_deadline_ns \in Nat
  /\ elf_ctx_count \in Nat /\ retired_elf_ctx_count \in Nat

ElfStatistics ==
  /\ elf_ctx_count = Cardinality(elf_ctx_list \ retired)
  /\ retired_elf_ctx_count = Cardinality(retired)

(* The part of the invariant about ELF entries. *)
ElfInv ==
  /\ ElfTypes /\ RefcountExact /\ RetiredIffUnreferenced /\ ElfStatistics
  /\ NextDeadlineCovers

-----------------------------------------------------------------------------
(* Facts about the steps of the retire timer: whatever its owner does, the  *)
(* timer keeps its types and its clock.                                     *)

(* gu_retire_timer_start() leaves the timer well typed, its published clock *)
(* at the real one.                                                         *)
LEMMA TimerStartOK ==
  gu_retire_timer_start => TimerTypeOK /\ PublishedClock
  <1> SUFFICES ASSUME gu_retire_timer_start PROVE TimerTypeOK /\ PublishedClock
    OBVIOUS
  <1>1. retire_timer_started \in BOOLEAN
    BY TimerConstants DEF gu_retire_timer_start
  <1>2. now \in Nat \ {0} /\ retire_timer_now_ns \in Nat \ {0} /\ now_ns \in Nat
    BY DEF gu_retire_timer_start
  <1>3. tpc \in {"loop", "exit"}
    BY DEF gu_retire_timer_start
  <1>4. retire_timer_stop \in BOOLEAN /\ retire_sweep_pending \in BOOLEAN
          /\ event_fd_ready \in BOOLEAN
    BY Zenon DEF gu_retire_timer_start
  <1>5. PublishedClock
    BY <1>2, <1>3 DEF gu_retire_timer_start, PublishedClock
  <1> QED
    BY <1>1, <1>2, <1>3, <1>4, <1>5 DEF TimerTypeOK

(* A step of the clock or of the timer thread keeps the types, and the      *)
(* published clock neither passes the real one nor goes back.               *)
LEMMA TimerStepOK ==
  ASSUME TimerTypeOK, PublishedClock, Tick \/ gu_retire_timer_thread
  PROVE  /\ TimerTypeOK' /\ PublishedClock'
         /\ retire_timer_now_ns <= retire_timer_now_ns'
  <1>1. CASE Tick
    BY <1>1 DEF Tick, TimerTypeOK, PublishedClock, threadVars, atomics
  <1>2. CASE TestStop
    BY <1>2 DEF TestStop, TimerTypeOK, PublishedClock, atomics
  <1>3. CASE ReadClock
    BY <1>3 DEF ReadClock, TimerTypeOK, PublishedClock, atomics
  <1>4. CASE StoreNow
    BY <1>4 DEF StoreNow, TimerTypeOK, PublishedClock
  <1>5. CASE StorePending
    BY <1>5 DEF StorePending, TimerTypeOK, PublishedClock
  <1>6. CASE PollReady \/ PollTimeout
    BY <1>6 DEF PollReady, PollTimeout, TimerTypeOK, PublishedClock, atomics
  <1> QED
    BY <1>1, <1>2, <1>3, <1>4, <1>5, <1>6 DEF gu_retire_timer_thread

(* The owner's accesses keep them too: it only writes the flags.            *)
LEMMA OwnerStepOK ==
  ASSUME TimerTypeOK, PublishedClock,
         (\E due \in BOOLEAN : ExchangePending(due)) \/ StoreStop \/ WriteEvent \/ Join
  PROVE  /\ TimerTypeOK' /\ PublishedClock'
         /\ retire_timer_now_ns' = retire_timer_now_ns
         /\ now' = now /\ tpc' = tpc
  BY DEF ExchangePending, StoreStop, WriteEvent, Join, TimerTypeOK, PublishedClock,
         threadVars, atomics

(* The clock the caches use is a positive number that the real clock has    *)
(* reached.                                                                 *)
LEMMA CacheNow ==
  ASSUME TimerTypeOK, PublishedClock
  PROVE  /\ gu_cache_now_ns \in Nat \ {0}
         /\ gu_cache_now_ns <= now
  BY DEF TimerTypeOK, PublishedClock, gu_cache_now_ns

-----------------------------------------------------------------------------
(* Facts about counting references. *)

(* There are finitely many maps intervals, so references can be counted.    *)
LEMMA SlotFinite == IsFiniteSet(Slot)
  <1>1. 1 \in Int /\ MaxMaps \in Int
    BY CacheConstants
  <1>2. IsFiniteSet(1..MaxMaps)
    BY <1>1, FS_Interval
  <1>3. IsFiniteSet(Pid)
    BY CacheConstants
  <1> QED
    BY Zenon, <1>2, <1>3, FS_Product DEF Slot

(* The references to an entry are finitely many maps intervals.             *)
LEMMA RefsFinite ==
  ASSUME NEW e
  PROVE  IsFiniteSet(Refs(e)) /\ Cardinality(Refs(e)) \in Nat
  BY SlotFinite, FS_Subset, FS_CardinalityType DEF Refs

(* The cache is finite.                                                     *)
LEMMA ElfSetsFinite ==
  ASSUME ElfTypes
  PROVE  /\ IsFiniteSet(elf_ctx_list) /\ IsFiniteSet(retired)
         /\ IsFiniteSet(elf_ctx_list \ retired)
  BY CacheConstants, FS_Subset DEF ElfTypes

(* Pointing an empty interval at an entry adds one reference to it.         *)
LEMMA AddRef ==
  ASSUME ElfTypes, NEW s \in Slot, NEW e \in Elf,
         map_ctx[s] = NoElf, map_ctx' = [map_ctx EXCEPT ![s] = e]
  PROVE  /\ Cardinality(Refs(e)') = Cardinality(Refs(e)) + 1
         /\ \A f \in Elf : f # e => Refs(f)' = Refs(f)
  <1>1. Refs(e)' = Refs(e) \cup {s} /\ s \notin Refs(e)
    BY CacheConstants DEF ElfTypes, Refs
  <1>2. \A f \in Elf : f # e => Refs(f)' = Refs(f)
    BY CacheConstants DEF ElfTypes, Refs
  <1> QED
    BY Zenon, <1>1, <1>2, RefsFinite, FS_AddElement

(* Emptying an interval removes one reference.                              *)
LEMMA RemoveRef ==
  ASSUME ElfTypes, NEW s \in Slot, NEW e \in Elf,
         map_ctx[s] = e, map_ctx' = [map_ctx EXCEPT ![s] = NoElf]
  PROVE  /\ Cardinality(Refs(e)') = Cardinality(Refs(e)) - 1
         /\ \A f \in Elf : f # e => Refs(f)' = Refs(f)
  <1>1. Refs(e)' = Refs(e) \ {s} /\ s \in Refs(e)
    BY CacheConstants DEF ElfTypes, Refs
  <1>2. \A f \in Elf : f # e => Refs(f)' = Refs(f)
    BY CacheConstants DEF ElfTypes, Refs
  <1> QED
    BY ZenonT(30), <1>1, <1>2, RefsFinite, FS_RemoveElement

(* An entry with a reference is in the cache and not retired; one without   *)
(* is not referred to by any interval.                                      *)
LEMMA Referenced ==
  ASSUME ElfInv
  PROVE  /\ \A s \in Slot : map_ctx[s] # NoElf =>
              /\ map_ctx[s] \in elf_ctx_list \ retired
              /\ refcnt[map_ctx[s]] # 0
         /\ \A e \in Elf : refcnt[e] = 0 => Refs(e) = {}
  <1>1. ASSUME NEW s \in Slot, map_ctx[s] # NoElf PROVE refcnt[map_ctx[s]] # 0
    <2>1. map_ctx[s] \in Elf /\ s \in Refs(map_ctx[s])
      BY <1>1 DEF ElfInv, ElfTypes, Refs
    <2> QED
      BY <2>1, RefsFinite, FS_EmptySet DEF ElfInv, RefcountExact
  <1>2. ASSUME NEW e \in Elf, refcnt[e] = 0 PROVE Refs(e) = {}
    BY <1>2, RefsFinite, FS_EmptySet DEF ElfInv, RefcountExact
  <1> QED
    BY <1>1, <1>2 DEF ElfInv, RetiredIffUnreferenced

-----------------------------------------------------------------------------
(* Each operation on ELF entries preserves ElfInv. *)

(* Reference counts stay exact when one entry's count and its references    *)
(* change alike.                                                            *)
LEMMA LoadElfOK ==
  ASSUME ElfInv, NEW s \in Slot, NEW e \in Elf, map_ctx[s] = NoElf,
         map_ctx' = [map_ctx EXCEPT ![s] = e], load_elf(e)
  PROVE  ElfInv'
  <1> USE DEF ElfInv
  <1>1. ElfTypes'
    BY DEF ElfTypes, load_elf, Decrement
  <1>2. RefcountExact'
    BY Zenon, AddRef DEF RefcountExact, load_elf, ElfTypes
  <1>3. refcnt'[e] # 0 /\ \A f \in Elf : f # e => refcnt'[f] = refcnt[f]
    BY DEF load_elf, ElfTypes
  <1>4. RetiredIffUnreferenced'
    <2>1. retired' = {f \in elf_ctx_list' : refcnt'[f] = 0}
      BY <1>3 DEF RetiredIffUnreferenced, load_elf, ElfTypes
    <2>2. \A t \in Slot : map_ctx'[t] # NoElf => map_ctx'[t] \in elf_ctx_list'
      BY DEF RetiredIffUnreferenced, load_elf, ElfTypes
    <2> QED
      BY <2>1, <2>2 DEF RetiredIffUnreferenced
  <1>5. ElfStatistics'
    <2>1. retired_elf_ctx_count' = Cardinality(retired')
      <3>1. CASE e \in retired
        BY Zenon, <3>1, ElfSetsFinite, FS_RemoveElement, FS_CardinalityType, FS_EmptySet
           DEF ElfStatistics, load_elf, Decrement
      <3>2. CASE e \notin retired
        BY Zenon, <3>2 DEF ElfStatistics, load_elf
      <3> QED BY <3>1, <3>2
    <2>2. elf_ctx_count' = Cardinality(elf_ctx_list' \ retired')
      <3>1. CASE e \in retired \/ e \notin elf_ctx_list
        <4>1. elf_ctx_list' \ retired' = (elf_ctx_list \ retired) \cup {e}
          BY <3>1 DEF load_elf
        <4>2. e \notin elf_ctx_list \ retired
          BY <3>1
        <4> QED
          BY Zenon, <3>1, <4>1, <4>2, ElfSetsFinite, FS_AddElement DEF ElfStatistics, load_elf
      <3>2. CASE e \in elf_ctx_list /\ e \notin retired
        <4>1. elf_ctx_list' \ retired' = elf_ctx_list \ retired
          BY <3>2 DEF load_elf
        <4> QED BY <3>2, <4>1 DEF ElfStatistics, load_elf
      <3> QED BY <3>1, <3>2
    <2> QED BY <2>1, <2>2 DEF ElfStatistics
  <1>6. NextDeadlineCovers'
    BY DEF NextDeadlineCovers, load_elf, ElfTypes
  <1> QED BY <1>1, <1>2, <1>4, <1>5, <1>6

(* Dropping the reference of an interval, and retiring the entry with it if *)
(* it was the last one.                                                     *)
LEMMA PutElfOK ==
  ASSUME ElfInv, NEW s \in Slot, NEW e \in Elf, map_ctx[s] = e,
         gu_cache_now_ns \in Nat \ {0},
         map_ctx' = [map_ctx EXCEPT ![s] = NoElf], gu_put_elf_ctx(e)
  PROVE  ElfInv'
  <1> USE DEF ElfInv
  <1>0. e \in elf_ctx_list \ retired /\ refcnt[e] # 0 /\ e # NoElf
    BY Referenced, CacheConstants
  <1>1. ElfTypes'
    BY <1>0, CacheConstants DEF ElfTypes, gu_put_elf_ctx, gu_retire_elf_ctx, Decrement
  <1>2. RefcountExact'
    BY ZenonT(30), RemoveRef DEF RefcountExact, gu_put_elf_ctx, ElfTypes
  <1>3. refcnt'[e] = refcnt[e] - 1 /\ \A f \in Elf : f # e => refcnt'[f] = refcnt[f]
    BY DEF gu_put_elf_ctx, ElfTypes
  <1>4. \A t \in Slot : map_ctx'[t] # NoElf => map_ctx'[t] \in elf_ctx_list'
    BY DEF RetiredIffUnreferenced, gu_put_elf_ctx, ElfTypes
  <1>5. CASE refcnt'[e] = 0
    <2>1. retired' = retired \cup {e} /\ elf_ctx_list' = elf_ctx_list
      BY <1>5 DEF gu_put_elf_ctx, gu_retire_elf_ctx
    <2>2. RetiredIffUnreferenced'
      BY <1>0, <1>3, <1>4, <1>5, <2>1 DEF RetiredIffUnreferenced, ElfTypes
    <2>3. elf_ctx_list' \ retired' = (elf_ctx_list \ retired) \ {e}
      BY <2>1
    <2>4. Cardinality(retired') = Cardinality(retired) + 1
      BY Zenon, <1>0, <2>1, ElfSetsFinite, FS_AddElement
    <2>5. Cardinality(elf_ctx_list' \ retired') = Cardinality(elf_ctx_list \ retired) - 1
      <3> DEFINE active == elf_ctx_list \ retired
      <3>1. e \in active /\ IsFiniteSet(active)
        BY <1>0, ElfSetsFinite
      <3>2. Cardinality(active \ {e}) = Cardinality(active) - 1
        BY ZenonT(30), <3>1, FS_RemoveElement
      <3> QED BY <2>3, <3>2
    <2>6. Cardinality(elf_ctx_list \ retired) # 0
      BY <1>0, ElfSetsFinite, FS_EmptySet
    <2>7. ElfStatistics'
      BY <1>5, <2>4, <2>5, <2>6 DEF ElfStatistics, gu_put_elf_ctx, gu_retire_elf_ctx, Decrement, ElfTypes
    <2>8. NextDeadlineCovers'
      BY <1>5, <2>1, CacheConstants
         DEF NextDeadlineCovers, gu_put_elf_ctx, gu_retire_elf_ctx, ElfTypes
    <2> QED BY <1>1, <1>2, <2>2, <2>7, <2>8
  <1>6. CASE refcnt'[e] # 0
    <2>1. UNCHANGED <<elf_ctx_list, retired, retire_deadline_ns, elf_ctx_count,
                      retired_elf_ctx_count, next_retired_elf_deadline_ns>>
      BY <1>6 DEF gu_put_elf_ctx
    <2>2. RetiredIffUnreferenced'
      BY <1>0, <1>3, <1>4, <1>6, <2>1 DEF RetiredIffUnreferenced, ElfTypes
    <2> QED
      BY <1>1, <1>2, <2>1, <2>2 DEF ElfStatistics, NextDeadlineCovers
  <1> QED BY <1>5, <1>6

(* A load undone at once leaves an unreferenced entry retired.              *)
LEMMA LoadThenPutOK ==
  ASSUME ElfInv, NEW e \in Elf, gu_cache_now_ns \in Nat \ {0},
         UNCHANGED map_ctx, LoadThenPut(e)
  PROVE  ElfInv'
  <1> USE DEF ElfInv
  <1>1. CASE refcnt[e] # 0
    BY ZenonT(30), <1>1 DEF LoadThenPut, elfVars, ElfTypes, RefcountExact, RetiredIffUnreferenced,
                ElfStatistics, NextDeadlineCovers, Refs
  <1>2. CASE refcnt[e] = 0
    <2>0. e \notin elf_ctx_list \ retired
      BY <1>2 DEF RetiredIffUnreferenced
    <2>1. /\ elf_ctx_list' = elf_ctx_list \cup {e} /\ retired' = retired \cup {e}
          /\ refcnt' = refcnt /\ elf_ctx_count' = elf_ctx_count
      BY <1>2 DEF LoadThenPut
    <2>2. ElfTypes'
      BY <1>2, CacheConstants DEF ElfTypes, LoadThenPut
    <2>3. RefcountExact'
      BY <2>1 DEF RefcountExact, Refs
    <2>4. RetiredIffUnreferenced'
      BY <1>2, <2>1 DEF RetiredIffUnreferenced, ElfTypes
    <2>5. elf_ctx_list' \ retired' = elf_ctx_list \ retired
      BY <2>0, <2>1
    <2>6. retired_elf_ctx_count' = Cardinality(retired')
      <3>1. CASE e \in retired
        <4>1. retired' = retired BY <2>1, <3>1
        <4> QED BY <1>2, <3>1, <4>1 DEF ElfStatistics, LoadThenPut
      <3>2. CASE e \notin retired
        <4>1. Cardinality(retired') = Cardinality(retired) + 1
          BY Zenon, <2>1, <3>2, ElfSetsFinite, FS_AddElement
        <4> QED BY <1>2, <3>2, <4>1 DEF ElfStatistics, LoadThenPut
      <3> QED BY <3>1, <3>2
    <2>7. ElfStatistics'
      BY <2>1, <2>5, <2>6 DEF ElfStatistics
    <2>8. NextDeadlineCovers'
      BY <1>2, <2>1, CacheConstants DEF NextDeadlineCovers, LoadThenPut, ElfTypes
    <2> QED BY <2>2, <2>3, <2>4, <2>7, <2>8
  <1> QED BY <1>1, <1>2 DEF ElfTypes

(* The sweep frees entries without references only, and leaves none whose   *)
(* deadline t has reached.                                                  *)
LEMMA SweepOK ==
  ASSUME ElfInv, NEW t \in Nat, NEW all \in BOOLEAN,
         UNCHANGED map_ctx, gu_retired_elf_sweep(t, all)
  PROVE  /\ ElfInv'
         /\ retired' \subseteq retired
         /\ \A e \in retired' : retire_deadline_ns'[e] = retire_deadline_ns[e]
         /\ \A e \in retired' : t < retire_deadline_ns[e]
         /\ \A e \in elf_ctx_list \ elf_ctx_list' :
              e \in retired /\ (all \/ t >= retire_deadline_ns[e])
         /\ elf_ctx_list' \subseteq elf_ctx_list
         /\ elf_ctx_list' \ retired' = elf_ctx_list \ retired
         /\ refcnt' = refcnt
         /\ all => retired' = {}
  <1> USE DEF ElfInv
  <1> DEFINE early == ~all /\ (retired_elf_ctx_count = 0
               \/ (next_retired_elf_deadline_ns # 0 /\ t < next_retired_elf_deadline_ns))
             expired == {e \in retired : all \/ t >= retire_deadline_ns[e]}
             rest == retired \ expired
  <1>1. CASE early
    <2>1. UNCHANGED elfVars
      BY <1>1 DEF gu_retired_elf_sweep
    <2>2. \A e \in retired : t < retire_deadline_ns[e]
      <3>1. retired_elf_ctx_count = 0 => retired = {}
        BY ZenonT(30), ElfSetsFinite, FS_EmptySet DEF ElfStatistics
      <3> QED BY <1>1, <3>1 DEF NextDeadlineCovers, ElfTypes
    <2> QED
      BY <1>1, <2>1, <2>2 DEF elfVars, ElfTypes, RefcountExact, RetiredIffUnreferenced,
                ElfStatistics, NextDeadlineCovers, Refs
  <1>2. CASE ~early
    <2>1. /\ elf_ctx_list' = elf_ctx_list \ expired
          /\ retired' = rest
          /\ retire_deadline_ns' = [e \in Elf |-> IF e \in expired THEN 0 ELSE retire_deadline_ns[e]]
          /\ retired_elf_ctx_count' = IF retired_elf_ctx_count >= Cardinality(expired)
                THEN retired_elf_ctx_count - Cardinality(expired) ELSE 0
          /\ \/ rest = {} /\ next_retired_elf_deadline_ns' = 0
             \/ \E e \in rest :
                 /\ \A f \in rest : retire_deadline_ns[e] <= retire_deadline_ns[f]
                 /\ next_retired_elf_deadline_ns' = retire_deadline_ns[e]
          /\ refcnt' = refcnt /\ elf_ctx_count' = elf_ctx_count
      BY <1>2 DEF gu_retired_elf_sweep
    <2>2. \A e \in rest : t < retire_deadline_ns[e] /\ ~all
      BY DEF ElfTypes
    <2>3. IsFiniteSet(expired) /\ Cardinality(expired) \in Nat
      BY ElfSetsFinite, FS_Subset, FS_CardinalityType
    <2>4. Cardinality(rest) = Cardinality(retired) - Cardinality(expired)
      <3>1. retired \cap expired = expired
        OBVIOUS
      <3> QED BY ZenonT(30), <3>1, <2>3, ElfSetsFinite, FS_Difference
    <2>5. Cardinality(rest) \in Nat /\ Cardinality(retired) \in Nat
      BY ElfSetsFinite, FS_Subset, FS_CardinalityType
    <2>6. retired_elf_ctx_count' = Cardinality(retired')
      BY <2>1, <2>3, <2>4, <2>5 DEF ElfStatistics
    <2>7. elf_ctx_list' \ retired' = elf_ctx_list \ retired
      BY <2>1
    <2>8. ElfTypes'
      BY <2>1, <2>5, <2>6 DEF ElfTypes
    <2>9. RefcountExact'
      BY <2>1 DEF RefcountExact, Refs
    <2>10. \A s \in Slot : map_ctx[s] # NoElf => map_ctx[s] \notin expired
      BY Referenced
    <2>11. RetiredIffUnreferenced'
      BY <2>1, <2>10 DEF RetiredIffUnreferenced
    <2>12. ElfStatistics'
      BY Zenon, <2>1, <2>6, <2>7 DEF ElfStatistics
    <2>13. NextDeadlineCovers'
      BY <2>1, <2>2 DEF NextDeadlineCovers, ElfTypes
    <2> QED
      BY <2>1, <2>2, <2>7, <2>8, <2>9, <2>11, <2>12, <2>13 DEF ElfTypes
  <1> QED BY <1>1, <1>2

-----------------------------------------------------------------------------
(* The types of the rest of the state. *)
CallTypes ==
  /\ alive \subseteq Pid
  /\ inst \in [Pid -> Nat]
  /\ pid_ctx_list \subseteq Pid
  /\ pid_ctx \in [Pid -> PidCtx]
  /\ pid_ctx_count \in Nat
  /\ call \in Call
  /\ apc \in {"idle", "sweep", "sweep_load", "body", "kill", "maps", "elf", "finish",
              "search", "search_again", "clear", "fault", "stop_write",
              "stop_join", "cleanup", "freed"}
  /\ listener \subseteq Pid \X Nat

(* The record of no call, and a null context, have their types.             *)
LEMMA NoCallType == NoCall \in Call /\ NullCtx \in PidCtx
  BY CacheConstants DEF NoCall, NullCtx, Call, PidCtx

(* Assigning fields of a call record, or of a process context, in the ways  *)
(* the code does keeps its type.                                            *)
LEMMA FieldTypes ==
  /\ 1 \in 1..(MaxMaps + 1)
  /\ \A c \in Call, n \in 1..(MaxMaps + 1) : [c EXCEPT !.i = n] \in Call
  /\ \A c \in Call, n \in 1..(MaxMaps + 1) :
       [c EXCEPT !.i = n, !.after = "load_failed"] \in Call
  /\ \A c \in Call, n \in 1..(MaxMaps + 1), p \in Pid : [c EXCEPT !.pid = p, !.i = n] \in Call
  /\ \A c \in Call, private \in Nat \cup {NoPriv} : [c EXCEPT !.private = private] \in Call
  /\ \A c \in Call, mode \in {"fp", "dwarf"} : [c EXCEPT !.mode = mode] \in Call
  /\ \A c \in PidCtx, n \in Nat, private \in Nat \cup {NoPriv} :
       [c EXCEPT !.next_maps_reload_ns = n, !.private = private] \in PidCtx
  <1>1. 1 \in 1..(MaxMaps + 1)
    BY CacheConstants
  <1>2. ASSUME NEW c \in Call, NEW n \in 1..(MaxMaps + 1)
        PROVE  [c EXCEPT !.i = n] \in Call
    BY DEF Call
  <1>3. ASSUME NEW c \in Call, NEW n \in 1..(MaxMaps + 1)
        PROVE  [c EXCEPT !.i = n, !.after = "load_failed"] \in Call
    BY Zenon DEF Call
  <1>4. ASSUME NEW c \in Call, NEW n \in 1..(MaxMaps + 1), NEW p \in Pid
        PROVE  [c EXCEPT !.pid = p, !.i = n] \in Call
    BY Zenon DEF Call
  <1>5. ASSUME NEW c \in Call, NEW private \in Nat \cup {NoPriv}
        PROVE  [c EXCEPT !.private = private] \in Call
    BY DEF Call
  <1>6. ASSUME NEW c \in Call, NEW mode \in {"fp", "dwarf"}
        PROVE  [c EXCEPT !.mode = mode] \in Call
    BY DEF Call
  <1>7. ASSUME NEW c \in PidCtx, NEW n \in Nat, NEW private \in Nat \cup {NoPriv}
        PROVE  [c EXCEPT !.next_maps_reload_ns = n, !.private = private] \in PidCtx
    BY Zenon DEF PidCtx
  <1> QED BY Zenon, <1>1, <1>2, <1>3, <1>4, <1>5, <1>6, <1>7

(* The continuation of an unwind after a PC miss is a call record at a      *)
(* place where a call can be.                                               *)
LEMMA AfterMissType ==
  ASSUME NEW c \in Call, AfterMiss(c)
  PROVE  /\ call' \in Call /\ apc' \in {"idle", "search"}
  BY ZenonT(30), NoCallType DEF AfterMiss, Return, Call

(* So is the continuation after gu_load_pid() has returned NULL.            *)
LEMMA LoadFailedType ==
  ASSUME call \in Call, LoadFailed
  PROVE  /\ call' \in Call /\ apc' \in {"idle", "search"}
  <1>1. [call EXCEPT !.null = TRUE] \in Call
    BY Zenon DEF Call
  <1> QED
    BY <1>1, AfterMissType, NoCallType DEF LoadFailed, Return

(* Every step of a call keeps the types of the process contexts and of the  *)
(* call record; a context that is unlinked was counted.                     *)
LEMMA CallTypesNext ==
  ASSUME CallTypes, ControlOK, TimerTypeOK, PublishedClock,
         pid_ctx_count = Cardinality(pid_ctx_list), map_ctx \in [Slot -> Elf \cup {NoElf}], Next
  PROVE  CallTypes' /\ pid_ctx_count' = Cardinality(pid_ctx_list')
  <1> USE DEF CallTypes
  <1>0. IsFiniteSet(pid_ctx_list)
    BY CacheConstants, FS_Subset
  <1>a. ASSUME NEW p \in pid_ctx_list, Unlink(p)
        PROVE  /\ pid_ctx_count' = Cardinality(pid_ctx_list') /\ pid_ctx_count' \in Nat
               /\ pid_ctx_list' \subseteq Pid /\ UNCHANGED <<pid_ctx, map_ctx>>
    <2>1. pid_ctx_count' = Cardinality(pid_ctx_list') /\ IsFiniteSet(pid_ctx_list')
      BY <1>0, <1>a, FS_RemoveElement DEF Unlink
    <2> QED BY <1>a, <2>1, FS_CardinalityType DEF Unlink
  <1>b. ASSUME NEW p \in pid_ctx_list, NEW c \in Call, Destroy(p, c), UNCHANGED osVars
        PROVE  CallTypes' /\ pid_ctx_count' = Cardinality(pid_ctx_list')
    <2>1. call' \in Call
      BY <1>b, CacheConstants DEF Destroy, Call
    <2> QED BY <1>a, <1>b, <2>1 DEF Destroy, osVars
  <1>1. CASE Environment
    BY <1>1 DEF Environment, Fork, Exit, pidVars, osVars
  <1>2. CASE ApiCall
    <2>1. CASE \E p \in Pid : \E u \in 0..inst[p], hint, unknown \in BOOLEAN : gu_unwind(p, u, hint, unknown)
      <3>0. PICK p \in Pid : \E u \in 0..inst[p], hint, unknown \in BOOLEAN : gu_unwind(p, u, hint, unknown)
        BY <2>1
      <3>1. PICK u \in 0..inst[p], hint \in BOOLEAN, unknown \in BOOLEAN :
                gu_unwind(p, u, hint, unknown)
        BY <3>0
      <3>2. u \in Nat /\ (hint /\ unknown) \in BOOLEAN
        OBVIOUS
      <3>3. call' \in Call
        BY Zenon, <3>1, <3>2, NoCallType DEF gu_unwind, Call
      <3> QED BY <3>1, <3>3 DEF gu_unwind, pidVars, osVars
    <2>2. CASE \E p \in Pid : gu_preload_pid_debug_info(p)
      <3>1. PICK p \in Pid : gu_preload_pid_debug_info(p)
        BY <2>2
      <3>2. gu_get_pid_unique_id(p) \in Nat
        BY DEF gu_get_pid_unique_id, PidCtx
      <3>3. call' \in Call
        BY Zenon, <3>1, <3>2, NoCallType DEF gu_preload_pid_debug_info, Call
      <3> QED BY <3>1, <3>3 DEF gu_preload_pid_debug_info, pidVars, osVars
    <2>3. CASE \E p \in Pid, type \in {"exit", "module_reload"} : gu_event_occur(type, p)
      <3>1. PICK p \in Pid, type \in {"exit", "module_reload"} : gu_event_occur(type, p)
        BY <2>3
      <3>2. call' \in Call
        BY Zenon, <3>1, NoCallType DEF gu_event_occur, Call
      <3> QED BY <3>1, <3>2 DEF gu_event_occur, pidVars, osVars
    <2>4. CASE \E p \in Pid : gu_set_pid_private_info(p)
      <3>1. PICK p \in Pid : gu_set_pid_private_info(p)
        BY <2>4
      <3>2. PICK private \in {pid_ctx[p].unique_id, NoPriv} :
                pid_ctx' = [pid_ctx EXCEPT ![p].private = private]
        BY Zenon, <3>1 DEF gu_set_pid_private_info
      <3>3. private \in Nat \cup {NoPriv} /\ pid_ctx[p] \in PidCtx
        BY DEF PidCtx
      <3>4. [pid_ctx[p] EXCEPT !.private = private] \in PidCtx
        BY <3>3 DEF PidCtx
      <3>5. pid_ctx' \in [Pid -> PidCtx]
        BY <3>2, <3>4
      <3> QED BY <3>1, <3>5 DEF gu_set_pid_private_info, osVars
    <2> QED BY <1>2, <2>1, <2>2, <2>3, <2>4 DEF ApiCall
  <1>3. CASE gu_maybe_sweep_retired_elf \/ SweepLoad
    BY Zenon, <1>3 DEF gu_maybe_sweep_retired_elf, SweepLoad, pidVars, osVars
  <1>4. CASE Body
    <2>1. ASSUME NEW a \in {"kill", "return"} PROVE [call EXCEPT !.after = a] \in Call
      BY DEF Call
    <2>2. CASE \/ Destroy(call.pid, [call EXCEPT !.after = "kill"])
               \/ Destroy(call.pid, [call EXCEPT !.after = "return"])
      <3>1. CASE call.pid \in pid_ctx_list
        BY <1>4, <1>b, <2>1, <2>2, <3>1 DEF Body
      <3> QED BY <1>4, <2>2, <3>1 DEF Body, Destroy, pidVars, Return
    <2>3. CASE /\ UNCHANGED pidVars /\ apc' \in {"search", "kill", "idle"}
               /\ call' \in {call, NoCall, [call EXCEPT !.mode = IF call.fp THEN "fp" ELSE "dwarf"]}
      <3>1. call' \in Call
        BY <2>3, NoCallType DEF Call
      <3> QED BY <1>4, <2>3, <3>1 DEF Body, pidVars, osVars
    <2> QED BY <1>4, <2>2, <2>3 DEF Body, Return
  <1>5. CASE Kill
    BY <1>5, NoCallType DEF Kill, Return, pidVars, osVars
  <1>6. CASE gu_get_maps_info
    <2>1. CASE LoadFailed /\ UNCHANGED pid_ctx
      BY <1>6, <2>1, LoadFailedType DEF gu_get_maps_info, osVars
    <2>2. CASE ~(LoadFailed /\ UNCHANGED pid_ctx)
      <3>1. PICK count \in 1..MaxMaps : pid_ctx' = [pid_ctx EXCEPT ![call.pid] =
               [NullCtx EXCEPT !.count = count, !.unique_id = call.unique_id,
                               !.maps_inst = inst[call.pid], !.maps_ns = gu_cache_now_ns]]
        BY Zenon, <1>6, <2>2 DEF gu_get_maps_info
      <3>2. [NullCtx EXCEPT !.count = count, !.unique_id = call.unique_id,
                               !.maps_inst = inst[call.pid], !.maps_ns = gu_cache_now_ns] \in PidCtx
        <4>1. call.unique_id \in Nat /\ inst[call.pid] \in Nat /\ count \in 0..MaxMaps
          BY CacheConstants DEF Call
        <4>2. gu_cache_now_ns \in Nat
          BY CacheNow
        <4> HIDE DEF gu_cache_now_ns
        <4> QED BY ZenonT(30), <4>1, <4>2, NoCallType DEF PidCtx, NullCtx
      <3>3. call' = [call EXCEPT !.i = 1] /\ apc' = "elf"
        BY Zenon, <1>6, <2>2 DEF gu_get_maps_info
      <3>4. call' \in Call
        BY Zenon, <3>3, FieldTypes
      <3>5. pid_ctx' \in [Pid -> PidCtx]
        BY Zenon, <3>1, <3>2
      <3>6. UNCHANGED <<alive, inst, pid_ctx_list, pid_ctx_count, listener>>
        BY Zenon, <1>6 DEF gu_get_maps_info, osVars
      <3> QED BY <3>3, <3>4, <3>5, <3>6
    <2> QED BY <2>1, <2>2
  <1>7. CASE LoadMapping
    <2>0. call.pid \in Pid /\ pid_ctx[call.pid] \in PidCtx /\ pid_ctx[call.pid].golang \in BOOLEAN
      BY DEF Call, PidCtx
    <2>1. apc' \in {"elf", "finish", "clear"}
      BY Zenon, <1>7 DEF LoadMapping, Abandon
    <2>2. call' \in {[call EXCEPT !.i = @ + 1], [call EXCEPT !.i = 1, !.after = "load_failed"]}
      BY Zenon, <1>7 DEF LoadMapping, Abandon
    <2>3. call.i + 1 \in 1..(MaxMaps + 1)
      <3>1. call.i \in 1..pid_ctx[call.pid].count
        BY <1>7 DEF LoadMapping, ControlOK
      <3>2. pid_ctx[call.pid].count \in 0..MaxMaps
        BY <2>0 DEF PidCtx
      <3> QED BY <3>1, <3>2, CacheConstants
    <2>4. call' \in Call
      <3>1. CASE call' = [call EXCEPT !.i = @ + 1]
        BY ZenonT(30), <2>3, <3>1, FieldTypes
      <3>2. CASE call' = [call EXCEPT !.i = 1, !.after = "load_failed"]
        BY Zenon, <3>2, FieldTypes
      <3> QED BY <2>2, <3>1, <3>2
    <2>5. pid_ctx' \in [Pid -> PidCtx]
      <3>1. CASE UNCHANGED pid_ctx
        BY <3>1
      <3>2. CASE \E e \in Elf : pid_ctx' = [pid_ctx EXCEPT ![call.pid].golang = @ \/ (call.i = 1 /\ e \in GoElf)]
        <4>1. PICK e \in Elf : pid_ctx' = [pid_ctx EXCEPT ![call.pid].golang = @ \/ (call.i = 1 /\ e \in GoElf)]
          BY Zenon, <3>2
        <4>2. PICK b \in BOOLEAN : b = (pid_ctx[call.pid].golang \/ (call.i = 1 /\ e \in GoElf))
          BY Zenon
        <4>3. [pid_ctx[call.pid] EXCEPT !.golang = b] \in PidCtx
          BY <2>0 DEF PidCtx
        <4>4. pid_ctx' = [pid_ctx EXCEPT ![call.pid] = [pid_ctx[call.pid] EXCEPT !.golang = b]]
          BY <4>1, <4>2
        <4> QED BY Zenon, <4>3, <4>4
      <3> QED BY <1>7, <3>1, <3>2 DEF LoadMapping
    <2> QED BY <1>7, <2>1, <2>4, <2>5 DEF LoadMapping, osVars
  <1>8. CASE LoadDone
    <2>1. CASE Abandon /\ UNCHANGED <<pid_ctx, pid_ctx_list, pid_ctx_count, listener>>
      <3>1. call' \in Call
        BY Zenon, <2>1, FieldTypes DEF Abandon
      <3> QED BY <1>8, <2>1, <3>1 DEF LoadDone, Abandon, osVars
    <2>2. CASE ~(Abandon /\ UNCHANGED <<pid_ctx, pid_ctx_list, pid_ctx_count, listener>>)
      <3>0. call.pid \in Pid /\ call.pid \notin pid_ctx_list /\ call.private \in Nat \cup {NoPriv}
        BY Zenon, <1>8 DEF LoadDone, ControlOK, Call
      <3>1. PICK delay \in ReloadMin..ReloadMax : pid_ctx' = [pid_ctx EXCEPT
               ![call.pid].next_maps_reload_ns = gu_cache_now_ns + delay,
               ![call.pid].private = call.private]
        BY Zenon, <1>8, <2>2 DEF LoadDone, gu_schedule_next_maps_reload
      <3>2. gu_cache_now_ns + delay \in Nat
        BY CacheNow, CacheConstants
      <3>3. [pid_ctx[call.pid] EXCEPT !.next_maps_reload_ns = gu_cache_now_ns + delay,
                                      !.private = call.private] \in PidCtx
        BY Zenon, <3>0, <3>2, FieldTypes
      <3>4. pid_ctx' \in [Pid -> PidCtx]
        BY Zenon, <3>0, <3>1, <3>3
      <3>5. pid_ctx_list' = pid_ctx_list \cup {call.pid} /\ pid_ctx_count' = pid_ctx_count + 1
        BY <1>8, <2>2 DEF LoadDone
      <3>6. pid_ctx_count' = Cardinality(pid_ctx_list')
        BY Zenon, <1>0, <3>0, <3>5, FS_AddElement
      <3>7. listener' \subseteq Pid \X Nat
        <4>1. pid_ctx[call.pid].unique_id \in Nat
          BY <3>0 DEF PidCtx
        <4> QED BY <1>8, <2>2, <3>0, <4>1 DEF LoadDone
      <3>8. apc' \in {"idle", "search", "search_again"}
        BY <1>8, <2>2 DEF LoadDone, Return
      <3>9. call' \in {NoCall, [call EXCEPT !.mode = IF call.fp THEN "fp" ELSE "dwarf"],
                       [call EXCEPT !.private = NoPriv]}
        BY <1>8, <2>2 DEF LoadDone, Return
      <3>10. call' \in Call
        <4>1. CASE call' = [call EXCEPT !.mode = IF call.fp THEN "fp" ELSE "dwarf"]
          BY ZenonT(30), <4>1, FieldTypes
        <4>2. CASE call' = [call EXCEPT !.private = NoPriv]
          BY Zenon, <4>2, FieldTypes
        <4> QED BY <3>9, <4>1, <4>2, NoCallType
      <3>11. UNCHANGED <<alive, inst>>
        BY <1>8 DEF LoadDone, osVars
      <3>12. pid_ctx_list' \subseteq Pid /\ pid_ctx_count' \in Nat
        BY <3>0, <3>5
      <3> QED BY <3>4, <3>6, <3>7, <3>8, <3>10, <3>11, <3>12
    <2> QED BY <2>1, <2>2
  <1>9. CASE SearchHit
    <2>1. call' \in Call /\ apc' \in {"idle", "search"}
      <3>1. PICK i \in 1..pid_ctx[call.pid].count :
          \/ /\ apc' = "search"
             /\ call' = [call EXCEPT !.elf_ctx = map_ctx[<<call.pid, i>>]]
          \/ AfterMiss(call)
        BY <1>9 DEF SearchHit
      <3>2. <<call.pid, i>> \in Slot
        BY CacheConstants DEF Slot, Call, PidCtx
      <3>3. map_ctx[<<call.pid, i>>] \in Elf \cup {NoElf}
        BY <3>2
      <3> QED BY <3>1, <3>3, AfterMissType DEF Call
    <2> QED BY <1>9, <2>1 DEF SearchHit, pidVars, osVars
  <1>10. CASE SearchMiss
    BY <1>10, AfterMissType DEF SearchMiss, pidVars, osVars
  <1>11. CASE gu_reload_pid_ctx
    <2>1. PICK copy \in {pid_ctx[call.pid].private, NoPriv} :
            Destroy(call.pid, [call EXCEPT !.maps_reloaded = TRUE, !.private = copy, !.after = "maps"])
      BY Zenon, <1>11 DEF gu_reload_pid_ctx
    <2>2. call.pid \in pid_ctx_list /\ copy \in Nat \cup {NoPriv}
      BY <1>11 DEF gu_reload_pid_ctx, ControlOK, Call, PidCtx
    <2>3. [call EXCEPT !.maps_reloaded = TRUE, !.private = copy, !.after = "maps"] \in Call
      BY Zenon, <2>2 DEF Call
    <2> QED BY <1>11, <1>b, <2>1, <2>2, <2>3 DEF gu_reload_pid_ctx
  <1>12. CASE SearchNull
    BY <1>12 DEF SearchNull, pidVars, osVars
  <1>13. CASE StopUnwind
    BY <1>13, AfterMissType, NoCallType DEF StopUnwind, Return, pidVars, osVars
  <1>14. CASE Clear
    <2>1. CASE call.i > pid_ctx[call.pid].count
      <3>1. pid_ctx' \in [Pid -> PidCtx]
        BY <1>14, <2>1, NoCallType DEF Clear
      <3>2. call' \in Call /\ apc' \in {"kill", "maps", "cleanup", "idle", "search"}
        BY <1>14, <2>1, LoadFailedType, NoCallType DEF Clear, Return
      <3> QED BY <1>14, <3>1, <3>2 DEF Clear, osVars
    <2>2. CASE ~(call.i > pid_ctx[call.pid].count)
      <3>1. call.i \in 1..MaxMaps
        BY <2>2, CacheConstants DEF Call, PidCtx
      <3>2. call' \in Call
        BY <1>14, <2>2, <3>1, CacheConstants DEF Clear, Call
      <3> QED BY <1>14, <2>2, <3>2 DEF Clear, osVars
    <2> QED BY <2>1, <2>2
  <1>15. CASE gu_cleanup
    <2>1. CASE apc = "idle"
      <3>1. [NoCall EXCEPT !.op = "cleanup", !.after = "cleanup"] \in Call
        BY ZenonT(30), NoCallType DEF Call
      <3> QED BY <1>15, <2>1, <3>1 DEF gu_cleanup, pidVars, osVars
    <2>2. CASE apc \in {"stop_write", "stop_join"}
      BY Zenon, <1>15, <2>2 DEF gu_cleanup, pidVars, osVars
    <2>3. CASE apc = "cleanup"
      <3>1. CASE \E p \in pid_ctx_list : Unlink(p) /\ call' = [call EXCEPT !.pid = p, !.i = 1]
        <4>1. PICK p \in pid_ctx_list : Unlink(p) /\ call' = [call EXCEPT !.pid = p, !.i = 1]
          BY ZenonT(30), <3>1
        <4>2. call' \in Call
          BY Zenon, <4>1, FieldTypes
        <4> QED BY ZenonT(30), <1>15, <1>a, <2>3, <4>1, <4>2 DEF gu_cleanup, osVars, pidVars
      <3>2. CASE UNCHANGED <<osVars, pidVars, call>> /\ apc' = "freed"
        BY <3>2 DEF pidVars, osVars
      <3> QED BY Zenon, <1>15, <2>3, <3>1, <3>2 DEF gu_cleanup
    <2> QED BY Zenon, <1>15, <2>1, <2>2, <2>3 DEF gu_cleanup
  <1> QED
    BY <1>1, <1>2, <1>3, <1>4, <1>5, <1>6, <1>7, <1>8, <1>9, <1>10, <1>11, <1>12, <1>13,
       <1>14, <1>15 DEF Next, CallStep

-----------------------------------------------------------------------------
(* When a call has returned, nothing is out of the hash table.              *)
LEMMA ReturnControl ==
  ASSUME Return
  PROVE  ControlOK'
  BY DEF Return, ControlOK, NoCall

(* An unwind that goes on after a PC miss has its context in the hash       *)
(* table, or none.                                                          *)
LEMMA AfterMissControl ==
  ASSUME NEW c \in Call, AfterMiss(c), c.op # "cleanup", c.after # "cleanup", c.null \/ c.pid \in pid_ctx_list'
  PROVE  ControlOK'
  BY Zenon, ReturnControl DEF AfterMiss, ControlOK, Call

(* The same after a failed load.                                            *)
LEMMA LoadFailedControl ==
  ASSUME call \in Call, LoadFailed, call.op # "cleanup", call.after # "cleanup"
  PROVE  ControlOK'
  <1>1. /\ [call EXCEPT !.null = TRUE] \in Call
        /\ [call EXCEPT !.null = TRUE].null
        /\ [call EXCEPT !.null = TRUE].op = call.op
        /\ [call EXCEPT !.null = TRUE].after = call.after
    BY Zenon DEF Call
  <1> QED
    BY Zenon, <1>1, ReturnControl, AfterMissControl DEF LoadFailed

(* Loading a mapping leaves the size, the start times, the metadata and the *)
(* times of every context alone.                                            *)
LEMMA MappingKeepsContext ==
  ASSUME CallTypes, LoadMapping, NEW p \in Pid
  PROVE  /\ pid_ctx'[p].count = pid_ctx[p].count
         /\ pid_ctx'[p].unique_id = pid_ctx[p].unique_id
         /\ pid_ctx'[p].maps_inst = pid_ctx[p].maps_inst
         /\ pid_ctx'[p].private = pid_ctx[p].private
         /\ pid_ctx'[p].maps_ns = pid_ctx[p].maps_ns
         /\ pid_ctx'[p].next_maps_reload_ns = pid_ctx[p].next_maps_reload_ns
  <1>1. CASE UNCHANGED pid_ctx
    BY <1>1
  <1>2. CASE ~UNCHANGED pid_ctx
    <2>1. PICK e \in Elf : pid_ctx' = [pid_ctx EXCEPT ![call.pid].golang = @ \/ (call.i = 1 /\ e \in GoElf)]
      BY <1>2 DEF LoadMapping
    <2>2. call.pid \in Pid /\ pid_ctx[call.pid] \in PidCtx
      BY DEF CallTypes, Call
    <2>3. pid_ctx'[call.pid] = [pid_ctx[call.pid] EXCEPT !.golang = @ \/ (call.i = 1 /\ e \in GoElf)]
      BY <2>1, <2>2 DEF CallTypes
    <2>4. p # call.pid => pid_ctx'[p] = pid_ctx[p]
      BY <2>1 DEF CallTypes
    <2> QED BY <2>2, <2>3, <2>4 DEF PidCtx
  <1> QED BY <1>1, <1>2

(* Every step keeps the place of a call and the hash table in agreement.    *)
LEMMA ControlNext ==
  ASSUME CallTypes, ControlOK, Next
  PROVE  ControlOK'
  <1> USE DEF CallTypes
  <1>0. call.pid \in Pid /\ pid_ctx[call.pid] \in PidCtx
    BY DEF Call
  <1>1. CASE Environment
    BY <1>1 DEF Environment, Fork, Exit, pidVars, ControlOK
  <1>2. CASE ApiCall
    <2>1. CASE \E p \in Pid : gu_set_pid_private_info(p)
      BY <2>1 DEF gu_set_pid_private_info, ControlOK
    <2>2. CASE ~ \E p \in Pid : gu_set_pid_private_info(p)
      <3>1. apc' = "sweep" /\ call'.mode = "none" /\ call'.elf_ctx = NoElf /\ call'.op # "cleanup" /\ ~call'.null
            /\ call'.after = "none"
        BY ZenonT(30), <1>2, <2>2 DEF ApiCall, gu_unwind, gu_preload_pid_debug_info, gu_event_occur, NoCall
      <3> QED BY <3>1 DEF ControlOK
    <2> QED BY <2>1, <2>2
  <1>3. CASE gu_maybe_sweep_retired_elf \/ SweepLoad
    BY Zenon, <1>3 DEF gu_maybe_sweep_retired_elf, SweepLoad, pidVars, ControlOK
  <1>4. CASE Body
    <2>0. apc = "body" /\ call.op # "cleanup" /\ call.after # "cleanup"
      BY <1>4 DEF Body, ControlOK
    <2>1. CASE Return
      BY <2>1, ReturnControl
    <2>2. ASSUME NEW a \in {"kill", "return"}, Destroy(call.pid, [call EXCEPT !.after = a])
          PROVE  ControlOK'
      <3>1. /\ call'.pid = call.pid /\ call'.op = call.op /\ call'.mode = call.mode
            /\ call'.elf_ctx = call.elf_ctx /\ call'.null = call.null /\ call'.after = a
        BY <2>2 DEF Destroy, Call
      <3> QED BY <2>0, <2>2, <3>1 DEF Destroy, Unlink, ControlOK
    <2>3. CASE /\ apc' = "search" /\ call' = [call EXCEPT !.mode = IF call.fp THEN "fp" ELSE "dwarf"]
               /\ UNCHANGED pidVars /\ call.pid \in pid_ctx_list
      <3>1. call'.pid = call.pid /\ call'.op = call.op /\ call'.mode \in {"fp", "dwarf"} /\ call'.null = call.null
            /\ call'.after = call.after
        BY <2>3 DEF Call
      <3> QED BY <2>0, <2>3, <3>1 DEF ControlOK, pidVars
    <2>4. CASE apc' = "kill" /\ UNCHANGED <<call, pidVars>> /\ call.pid \notin pid_ctx_list
      BY <2>0, <2>4 DEF ControlOK, pidVars
    <2> QED BY <1>4, <2>1, <2>2, <2>3, <2>4 DEF Body
  <1>5. CASE Kill
    BY <1>5, ReturnControl DEF Kill, pidVars, ControlOK
  <1>6. CASE gu_get_maps_info
    <2>0. apc = "maps" /\ call.op # "cleanup" /\ call.after # "cleanup"
      BY Zenon, <1>6 DEF gu_get_maps_info, ControlOK
    <2>1. CASE LoadFailed
      BY <2>0, <2>1, LoadFailedControl
    <2>2. CASE ~LoadFailed
      <3>1. PICK count \in 1..MaxMaps : pid_ctx' = [pid_ctx EXCEPT ![call.pid] =
               [NullCtx EXCEPT !.count = count, !.unique_id = call.unique_id,
                               !.maps_inst = inst[call.pid], !.maps_ns = gu_cache_now_ns]]
        BY Zenon, <1>6, <2>2 DEF gu_get_maps_info
      <3>2. pid_ctx'[call.pid].count = count
        BY <1>0, <3>1 DEF NullCtx
      <3>3. call' = [call EXCEPT !.i = 1] /\ apc' = "elf" /\ UNCHANGED pid_ctx_list
        BY Zenon, <1>6, <2>2 DEF gu_get_maps_info
      <3>4. /\ call'.pid = call.pid /\ call'.op = call.op /\ call'.mode = call.mode
            /\ call'.elf_ctx = call.elf_ctx /\ call'.null = call.null /\ call'.i = 1
            /\ call'.after = call.after
        BY <3>3 DEF Call
      <3>5. 1 \in 1..count
        BY CacheConstants
      <3> QED BY <2>0, <3>2, <3>3, <3>4, <3>5 DEF ControlOK
    <2> QED BY <2>1, <2>2
  <1>7. CASE LoadMapping
    <2>0. /\ apc = "elf" /\ call.op # "cleanup" /\ call.after # "cleanup" /\ call.i \in 1..pid_ctx[call.pid].count
          /\ UNCHANGED pid_ctx_list
      BY <1>7 DEF LoadMapping, ControlOK
    <2>1. pid_ctx'[call.pid].count = pid_ctx[call.pid].count
      BY <1>0, <1>7, MappingKeepsContext
    <2>2. CASE Abandon
      <3>1. /\ call'.pid = call.pid /\ call'.op = call.op /\ call'.mode = call.mode
            /\ call'.elf_ctx = call.elf_ctx /\ call'.null = call.null /\ apc' = "clear"
            /\ call'.after = "load_failed"
        BY <2>2 DEF Call, Abandon
      <3> QED BY <2>0, <3>1 DEF ControlOK
    <2>3. CASE ~Abandon
      <3>1. /\ call' = [call EXCEPT !.i = @ + 1]
            /\ apc' = IF call.i = pid_ctx[call.pid].count THEN "finish" ELSE "elf"
        BY Zenon, <1>7, <2>3 DEF LoadMapping
      <3>2. /\ call'.pid = call.pid /\ call'.op = call.op /\ call'.mode = call.mode
            /\ call'.elf_ctx = call.elf_ctx /\ call'.null = call.null /\ call'.i = call.i + 1
            /\ call'.after = call.after
        BY <3>1 DEF Call
      <3>3. pid_ctx[call.pid].count \in Nat
        BY <1>0, CacheConstants DEF PidCtx
      <3>4. apc' = "elf" => call.i + 1 \in 1..pid_ctx[call.pid].count
        BY <2>0, <3>1, <3>3
      <3> QED BY <2>0, <2>1, <3>1, <3>2, <3>4 DEF ControlOK
    <2> QED BY <2>2, <2>3
  <1>8. CASE LoadDone
    <2>0. apc = "finish" /\ call.op # "cleanup" /\ call.after # "cleanup"
      BY <1>8 DEF LoadDone, ControlOK
    <2>1. CASE Abandon /\ UNCHANGED pid_ctx_list
      <3>1. /\ call'.pid = call.pid /\ call'.op = call.op /\ call'.mode = call.mode
            /\ call'.elf_ctx = call.elf_ctx /\ call'.null = call.null /\ apc' = "clear"
            /\ call'.after = "load_failed"
        BY <2>1 DEF Call, Abandon
      <3> QED BY <2>0, <2>1, <3>1 DEF ControlOK
    <2>2. CASE Return
      BY <2>2, ReturnControl
    <2>3. CASE /\ apc' = "search" /\ pid_ctx_list' = pid_ctx_list \cup {call.pid}
               /\ call' = [call EXCEPT !.mode = IF call.fp THEN "fp" ELSE "dwarf"]
      <3>1. call'.pid = call.pid /\ call'.op = call.op /\ call'.mode \in {"fp", "dwarf"} /\ call'.null = call.null
            /\ call'.after = call.after
        BY <2>3 DEF Call
      <3> QED BY <2>0, <2>3, <3>1 DEF ControlOK
    <2>4. CASE /\ apc' = "search_again" /\ pid_ctx_list' = pid_ctx_list \cup {call.pid}
               /\ call' = [call EXCEPT !.private = NoPriv] /\ call.mode # "none"
      <3>1. /\ call'.pid = call.pid /\ call'.op = call.op /\ call'.mode = call.mode
            /\ call'.null = call.null /\ call'.after = call.after
        BY <2>4 DEF Call
      <3> QED BY <2>0, <2>4, <3>1 DEF ControlOK
    <2> QED BY <1>8, <2>1, <2>2, <2>3, <2>4 DEF LoadDone
  <1>9. CASE SearchHit
    <2>0. /\ apc \in {"search", "search_again"} /\ call.op # "cleanup" /\ call.after # "cleanup" /\ ~call.null
          /\ call.pid \in pid_ctx_list /\ UNCHANGED pid_ctx_list
      BY <1>9 DEF SearchHit, ControlOK, pidVars
    <2>1. CASE AfterMiss(call)
      BY <2>0, <2>1, AfterMissControl
    <2>2. CASE ~AfterMiss(call)
      <3>1. PICK i \in 1..pid_ctx[call.pid].count :
              apc' = "search" /\ call' = [call EXCEPT !.elf_ctx = map_ctx[<<call.pid, i>>]]
        BY <1>9, <2>2 DEF SearchHit
      <3>2. /\ call'.pid = call.pid /\ call'.op = call.op /\ call'.mode = call.mode
            /\ call'.after = call.after
        BY <3>1 DEF Call
      <3> QED BY <2>0, <3>1, <3>2 DEF ControlOK
    <2> QED BY <2>1, <2>2
  <1>10. CASE SearchMiss
    BY <1>10, AfterMissControl DEF SearchMiss, ControlOK, pidVars
  <1>11. CASE gu_reload_pid_ctx
    <2>1. PICK copy \in {pid_ctx[call.pid].private, NoPriv} :
            Destroy(call.pid, [call EXCEPT !.maps_reloaded = TRUE, !.private = copy, !.after = "maps"])
      BY Zenon, <1>11 DEF gu_reload_pid_ctx
    <2>2. /\ call'.pid = call.pid /\ call'.op = call.op /\ call'.mode = call.mode
          /\ call'.elf_ctx = call.elf_ctx /\ call'.null = call.null /\ call'.after = "maps"
      BY <2>1 DEF Destroy, Call
    <2>3. apc = "search" /\ call.op # "cleanup" /\ call.after # "cleanup" /\ ~call.null
      BY <1>11 DEF gu_reload_pid_ctx, ControlOK
    <2> QED BY <2>1, <2>2, <2>3 DEF Destroy, Unlink, ControlOK
  <1>12. CASE SearchNull
    BY <1>12 DEF SearchNull, ControlOK
  <1>13. CASE StopUnwind
    BY <1>13, AfterMissControl, ReturnControl DEF StopUnwind, ControlOK, pidVars
  <1>14. CASE Clear
    <2>1. CASE call.i > pid_ctx[call.pid].count
      <3>1. CASE call.after = "load_failed" /\ LoadFailed
        <4>1. call.op # "cleanup" /\ call.after # "cleanup"
          BY <3>1 DEF ControlOK
        <4> QED BY <3>1, <4>1, LoadFailedControl
      <3>2. CASE Return
        BY <3>2, ReturnControl
      <3>3. CASE call.after \in {"kill", "maps", "cleanup"} /\ apc' = call.after /\ UNCHANGED call
        BY <1>14, <3>3 DEF Clear, ControlOK
      <3> QED BY <1>14, <2>1, <3>1, <3>2, <3>3 DEF Clear
    <2>2. CASE ~(call.i > pid_ctx[call.pid].count)
      <3>1. apc' = apc /\ call' = [call EXCEPT !.i = @ + 1] /\ UNCHANGED pid_ctx_list /\ apc = "clear"
        BY <1>14, <2>2 DEF Clear
      <3>2. /\ call'.pid = call.pid /\ call'.op = call.op /\ call'.mode = call.mode
            /\ call'.elf_ctx = call.elf_ctx /\ call'.null = call.null /\ call'.after = call.after
        BY <3>1 DEF Call
      <3> QED BY <3>1, <3>2 DEF ControlOK
    <2> QED BY <2>1, <2>2
  <1>15. CASE gu_cleanup
    <2>1. CASE apc = "idle"
      <3>1. /\ call'.op = "cleanup" /\ call'.after = "cleanup" /\ call'.mode = "none"
            /\ call'.elf_ctx = NoElf /\ ~call'.null /\ apc' \in {"stop_write", "cleanup"}
        BY ZenonT(30), <1>15, <2>1 DEF gu_cleanup, NoCall
      <3> QED BY <3>1 DEF ControlOK
    <2>2. CASE apc \in {"stop_write", "stop_join"}
      BY Zenon, <1>15, <2>2 DEF gu_cleanup, ControlOK, pidVars
    <2>3. CASE apc = "cleanup"
      <3>1. CASE \E p \in pid_ctx_list : Unlink(p) /\ call' = [call EXCEPT !.pid = p, !.i = 1]
        <4>1. PICK p \in pid_ctx_list : Unlink(p) /\ call' = [call EXCEPT !.pid = p, !.i = 1]
          BY Zenon, <3>1
        <4>2. /\ call'.pid = p /\ call'.op = call.op /\ call'.mode = call.mode
              /\ call'.elf_ctx = call.elf_ctx /\ call'.null = call.null /\ call'.after = call.after
          BY <4>1 DEF Call
        <4>3. apc' \in {"clear", "freed"}
          BY Zenon, <1>15, <2>3 DEF gu_cleanup
        <4> QED BY <2>3, <4>1, <4>2, <4>3 DEF ControlOK, Unlink
      <3>2. CASE UNCHANGED <<pidVars, call>> /\ apc' = "freed"
        BY <2>3, <3>2 DEF pidVars, ControlOK
      <3> QED BY Zenon, <1>15, <2>3, <3>1, <3>2 DEF gu_cleanup
    <2> QED BY Zenon, <1>15, <2>1, <2>2, <2>3 DEF gu_cleanup
  <1> QED
    BY <1>1, <1>2, <1>3, <1>4, <1>5, <1>6, <1>7, <1>8, <1>9, <1>10, <1>11, <1>12, <1>13,
       <1>14, <1>15 DEF Next, CallStep

-----------------------------------------------------------------------------
(* The interval that a load or a clear is about to write is the call's own. *)
LEMMA SlotOfCall ==
  ASSUME CallTypes, call.i \in 1..pid_ctx[call.pid].count
  PROVE  <<call.pid, call.i>> \in Slot
  <1>1. call.pid \in Pid /\ pid_ctx[call.pid].count \in 0..MaxMaps
    BY DEF CallTypes, Call, PidCtx
  <1> QED BY <1>1, CacheConstants DEF Slot

(* A step that leaves the intervals and the contexts alone keeps every      *)
(* pointer to an ELF entry in a context that is listed, being loaded or     *)
(* being cleared.                                                           *)
LEMMA SlotsKept ==
  ASSUME CallTypes, SlotsOwned, UNCHANGED <<map_ctx, pid_ctx>>,
         \/ UNCHANGED <<pid_ctx_list, call, apc>>
         \/ /\ apc \notin {"elf", "finish", "clear"}
            /\ \/ UNCHANGED pid_ctx_list
               \/ pid_ctx_list' = pid_ctx_list \ {call'.pid} /\ apc' = "clear" /\ call'.i = 1
         \/ /\ apc = "finish" /\ apc' = "clear" /\ call'.i = 1 /\ call'.pid = call.pid
            /\ UNCHANGED pid_ctx_list
  PROVE  SlotsOwned'
  <1> SUFFICES ASSUME NEW s \in Slot, map_ctx'[s] # NoElf
               PROVE  /\ s[2] <= pid_ctx'[s[1]].count
                      /\ \/ s[1] \in pid_ctx_list'
                         \/ /\ s[1] = call'.pid
                            /\ \/ apc' = "elf" /\ s[2] < call'.i
                               \/ apc' = "finish"
                               \/ apc' = "clear" /\ s[2] >= call'.i
    BY DEF SlotsOwned
  <1>1. s[2] >= 1
    BY DEF Slot
  <1> QED BY <1>1 DEF SlotsOwned

(* Every step keeps them there.                                             *)
LEMMA SlotsNext ==
  ASSUME CallTypes, ControlOK, SlotsOwned, map_ctx \in [Slot -> Elf \cup {NoElf}], Next
  PROVE  SlotsOwned'
  <1>0. call.pid \in Pid /\ pid_ctx[call.pid] \in PidCtx /\ pid_ctx \in [Pid -> PidCtx] /\ call \in Call
    BY DEF CallTypes, Call
  <1>a. \A s \in Slot : s[1] \in Pid /\ s[2] \in 1..MaxMaps /\ s = <<s[1], s[2]>>
    BY DEF Slot
  <1>1. CASE Environment
    BY <1>1, SlotsKept DEF Environment, Fork, Exit, pidVars
  <1>2. CASE ApiCall
    <2>1. CASE \E p \in Pid : gu_set_pid_private_info(p)
      <3>1. PICK p \in Pid : gu_set_pid_private_info(p)
        BY <2>1
      <3>2. PICK private : pid_ctx' = [pid_ctx EXCEPT ![p].private = private]
        BY Zenon, <3>1 DEF gu_set_pid_private_info
      <3>3. \A q \in Pid : pid_ctx'[q].count = pid_ctx[q].count
        <4> TAKE q \in Pid
        <4>1. pid_ctx[q] \in PidCtx /\ pid_ctx[p] \in PidCtx
          BY <1>0
        <4> QED BY <1>0, <3>2, <4>1 DEF PidCtx
      <3> QED BY <1>a, <3>1, <3>3 DEF gu_set_pid_private_info, SlotsOwned
    <2>2. CASE ~ \E p \in Pid : gu_set_pid_private_info(p)
      BY Zenon, <1>2, <2>2, SlotsKept DEF ApiCall, gu_unwind, gu_preload_pid_debug_info, gu_event_occur, pidVars
    <2> QED BY <2>1, <2>2
  <1>3. CASE gu_maybe_sweep_retired_elf \/ SweepLoad
    BY Zenon, <1>3, SlotsKept DEF gu_maybe_sweep_retired_elf, SweepLoad, pidVars
  <1>b. ASSUME NEW c \in Call, c.pid = call.pid, Destroy(call.pid, c), apc \in {"body", "search"}
        PROVE  SlotsOwned'
    <2>1. call'.pid = call.pid /\ call'.i = 1
      BY <1>b DEF Destroy, Call
    <2> QED BY <1>b, <2>1, SlotsKept DEF Destroy, Unlink
  <1>4. CASE Body
    <2>1. ASSUME NEW a \in {"kill", "return"}, Destroy(call.pid, [call EXCEPT !.after = a])
          PROVE  SlotsOwned'
      <3>1. [call EXCEPT !.after = a] \in Call /\ [call EXCEPT !.after = a].pid = call.pid
        BY <1>0 DEF Call
      <3> QED BY Zenon, <1>4, <1>b, <2>1, <3>1 DEF Body
    <2>2. CASE UNCHANGED pidVars
      BY <1>4, <2>2, SlotsKept DEF Body, pidVars
    <2> QED BY <1>4, <2>1, <2>2 DEF Body
  <1>5. CASE Kill
    BY <1>5, SlotsKept DEF Kill, pidVars
  <1>6. CASE gu_get_maps_info
    <2>1. CASE UNCHANGED pid_ctx
      BY Zenon, <1>6, <2>1, SlotsKept DEF gu_get_maps_info
    <2>2. CASE ~UNCHANGED pid_ctx
      <3>1. apc = "maps" /\ call.pid \notin pid_ctx_list /\ UNCHANGED <<map_ctx, pid_ctx_list>>
        BY ZenonT(30), <1>6 DEF gu_get_maps_info, ControlOK
      <3>2. \A q \in Pid : q # call.pid => pid_ctx'[q] = pid_ctx[q]
        BY Zenon, <1>0, <1>6, <2>2 DEF gu_get_maps_info
      <3>3. \A s \in Slot : map_ctx[s] # NoElf => s[1] # call.pid /\ s[1] \in pid_ctx_list
        BY <3>1 DEF SlotsOwned
      <3> QED BY <1>a, <3>1, <3>2, <3>3 DEF SlotsOwned
    <2> QED BY <2>1, <2>2
  <1>7. CASE LoadMapping
    <2>0. /\ apc = "elf" /\ call.i \in 1..pid_ctx[call.pid].count /\ UNCHANGED pid_ctx_list
          /\ <<call.pid, call.i>> \in Slot
      BY <1>7, SlotOfCall DEF LoadMapping, ControlOK
    <2>1. \A p \in Pid : pid_ctx'[p].count = pid_ctx[p].count
      BY <1>7, MappingKeepsContext
    <2>2. CASE Abandon
      <3>1. call'.pid = call.pid /\ call'.i = 1 /\ apc' = "clear"
        BY <1>0, <2>2 DEF Call, Abandon
      <3>2. UNCHANGED map_ctx
        <4>1. apc' # "elf" /\ apc' # "finish"
          BY <3>1
        <4> QED BY Zenon, <1>7, <4>1 DEF LoadMapping
      <3> QED BY <1>a, <2>0, <2>1, <3>1, <3>2 DEF SlotsOwned
    <2>3. CASE ~Abandon
      <3>1. /\ call' = [call EXCEPT !.i = @ + 1]
            /\ apc' = IF call.i = pid_ctx[call.pid].count THEN "finish" ELSE "elf"
        BY Zenon, <1>7, <2>3 DEF LoadMapping
      <3>2. call'.pid = call.pid /\ call'.i = call.i + 1
        BY <1>0, <3>1 DEF Call
      <3>3. \A s \in Slot : s # <<call.pid, call.i>> => map_ctx'[s] = map_ctx[s]
        BY Zenon, <1>7, <2>3 DEF LoadMapping
      <3>4. call.i \in Nat /\ pid_ctx[call.pid].count \in Nat
        BY <1>0, CacheConstants DEF Call, PidCtx
      <3> SUFFICES ASSUME NEW s \in Slot, map_ctx'[s] # NoElf
                   PROVE  /\ s[2] <= pid_ctx'[s[1]].count
                          /\ \/ s[1] \in pid_ctx_list'
                             \/ /\ s[1] = call'.pid
                                /\ \/ apc' = "elf" /\ s[2] < call'.i
                                   \/ apc' = "finish"
        BY DEF SlotsOwned
      <3>5. CASE s = <<call.pid, call.i>>
        BY <1>a, <2>0, <2>1, <3>1, <3>2, <3>4, <3>5
      <3>6. CASE s # <<call.pid, call.i>>
        BY <1>a, <2>0, <2>1, <3>1, <3>2, <3>3, <3>4, <3>6 DEF SlotsOwned
      <3> QED BY <3>5, <3>6
    <2> QED BY <2>2, <2>3
  <1>8. CASE LoadDone
    <2>0. apc = "finish" /\ UNCHANGED map_ctx
      BY <1>8 DEF LoadDone
    <2>1. CASE Abandon /\ UNCHANGED <<pid_ctx, pid_ctx_list>>
      <3>1. call'.pid = call.pid /\ call'.i = 1 /\ apc' = "clear"
        BY <1>0, <2>1 DEF Call, Abandon
      <3> QED BY <2>0, <2>1, <3>1, SlotsKept
    <2>2. CASE ~(Abandon /\ UNCHANGED <<pid_ctx, pid_ctx_list>>)
      <3>1. PICK delay \in ReloadMin..ReloadMax : pid_ctx' = [pid_ctx EXCEPT
               ![call.pid].next_maps_reload_ns = gu_cache_now_ns + delay,
               ![call.pid].private = call.private]
        BY <1>8, <2>2 DEF LoadDone, gu_schedule_next_maps_reload
      <3>2. \A q \in Pid : pid_ctx'[q].count = pid_ctx[q].count
        <4> TAKE q \in Pid
        <4>1. pid_ctx[q] \in PidCtx
          BY <1>0
        <4> QED BY <1>0, <3>1, <4>1 DEF PidCtx
      <3>3. pid_ctx_list' = pid_ctx_list \cup {call.pid}
        BY <1>8, <2>2 DEF LoadDone
      <3> QED BY <1>a, <2>0, <3>2, <3>3 DEF SlotsOwned
    <2> QED BY <2>1, <2>2
  <1>9. CASE SearchHit
    BY <1>9, SlotsKept DEF SearchHit, pidVars
  <1>10. CASE SearchMiss
    BY <1>10, SlotsKept DEF SearchMiss, pidVars
  <1>11. CASE gu_reload_pid_ctx
    <2>1. PICK copy \in {pid_ctx[call.pid].private, NoPriv} :
            Destroy(call.pid, [call EXCEPT !.maps_reloaded = TRUE, !.private = copy, !.after = "maps"])
      BY Zenon, <1>11 DEF gu_reload_pid_ctx
    <2>2. call'.pid = call.pid /\ call'.i = 1
      BY <1>0, <2>1 DEF Destroy, Call
    <2> QED BY <1>11, <2>1, <2>2, SlotsKept DEF Destroy, Unlink, gu_reload_pid_ctx
  <1>12. CASE SearchNull
    BY <1>12, SlotsKept DEF SearchNull, pidVars
  <1>13. CASE StopUnwind
    BY <1>13, SlotsKept DEF StopUnwind, pidVars
  <1>14. CASE Clear
    <2>0. apc = "clear" /\ call.pid \notin pid_ctx_list /\ UNCHANGED pid_ctx_list
      BY <1>14 DEF Clear, ControlOK
    <2>1. CASE call.i > pid_ctx[call.pid].count
      <3>1. \A s \in Slot : map_ctx[s] # NoElf => s[1] # call.pid /\ s[1] \in pid_ctx_list
        <4>1. call.i \in Nat /\ pid_ctx[call.pid].count \in Nat
          BY <1>0, CacheConstants DEF Call, PidCtx
        <4> QED BY <1>a, <2>0, <2>1, <4>1 DEF SlotsOwned
      <3>2. UNCHANGED map_ctx /\ pid_ctx' = [pid_ctx EXCEPT ![call.pid] = NullCtx]
        BY <1>14, <2>1 DEF Clear
      <3> QED BY <1>0, <1>a, <2>0, <3>1, <3>2 DEF SlotsOwned
    <2>2. CASE ~(call.i > pid_ctx[call.pid].count)
      <3>1. /\ map_ctx' = [map_ctx EXCEPT ![<<call.pid, call.i>>] = NoElf]
            /\ call' = [call EXCEPT !.i = @ + 1] /\ UNCHANGED <<pid_ctx, apc>>
        BY <1>14, <2>2 DEF Clear
      <3>2. call'.pid = call.pid /\ call'.i = call.i + 1 /\ call.i \in Nat
        BY <1>0, <3>1 DEF Call
      <3>3. \A s \in Slot : map_ctx'[s] # NoElf => map_ctx[s] # NoElf /\ s # <<call.pid, call.i>>
        BY <3>1
      <3>4. \A s \in Slot : s[1] = call.pid /\ s # <<call.pid, call.i>> => s[2] # call.i
        BY DEF Slot
      <3>5. \A s \in Slot : s[2] \in Nat
        BY CacheConstants DEF Slot
      <3>6. \A s \in Slot : s[1] = call.pid /\ s # <<call.pid, call.i>> /\ s[2] >= call.i => s[2] >= call.i + 1
        BY <3>2, <3>4, <3>5
      <3> QED BY <1>a, <2>0, <3>1, <3>2, <3>3, <3>6 DEF SlotsOwned
    <2> QED BY <2>1, <2>2
  <1>15. CASE gu_cleanup
    <2>1. CASE \E p \in pid_ctx_list : Unlink(p) /\ call' = [call EXCEPT !.pid = p, !.i = 1]
      <3>1. PICK p \in pid_ctx_list : Unlink(p) /\ call' = [call EXCEPT !.pid = p, !.i = 1]
        BY Zenon, <2>1
      <3>2. call'.pid = p /\ call'.i = 1
        BY <1>0, <3>1 DEF Call
      <3>3. CASE apc' = "clear" /\ apc = "cleanup"
        BY <3>1, <3>2, <3>3, SlotsKept DEF Unlink
      <3>4. CASE UNCHANGED pidVars /\ apc \in {"idle", "stop_write", "stop_join", "cleanup"}
        BY <3>4, SlotsKept DEF pidVars
      <3> QED BY ZenonT(30), <1>15, <3>3, <3>4 DEF gu_cleanup
    <2>2. CASE ~ \E p \in pid_ctx_list : Unlink(p) /\ call' = [call EXCEPT !.pid = p, !.i = 1]
      BY Zenon, <1>15, <2>2, SlotsKept DEF gu_cleanup, pidVars
    <2> QED BY ZenonT(30), <2>1, <2>2
  <1> QED
    BY <1>1, <1>2, <1>3, <1>4, <1>5, <1>6, <1>7, <1>8, <1>9, <1>10, <1>11, <1>12, <1>13,
       <1>14, <1>15 DEF Next, CallStep
=============================================================================
