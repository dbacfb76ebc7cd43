------------------------------- MODULE GuCache -------------------------------
(***************************************************************************)
(* The caches of a gu_context (src/gu_stacktrace.c): ELF metadata shared   *)
(* by build ID, counted per mapping and retired with a time to live, and   *)
(* process contexts with PID-reuse detection and throttled maps reloads.   *)
(*                                                                         *)
(* API calls on one context are serialised by the caller (README.md), so   *)
(* one call is in progress at a time.  A call is a sequence of steps, cut  *)
(* wherever it reads an atomic of the timer, asks the kernel about the     *)
(* process, or moves on to the next mapping: the timer thread, the clock   *)
(* and the processes themselves run between any two of them.               *)
(***************************************************************************)
EXTENDS RetireTimer, FiniteSets

CONSTANTS
  Pid,          \* process IDs
  Elf,          \* build IDs of the ELF files that processes map
  GoElf,        \* those with a Go build ID note
  NoElf,        \* no ELF behind a mapping: anonymous, or load_elf() failed
  MaxMaps,      \* bound of the model: executable mappings of a process
  MaxInst,      \* bound of the model: processes that get the same PID
  NoPriv,       \* no caller metadata
  TTL,          \* GU_ELF_RETIRE_TTL_NS
  ReloadMin,    \* GU_PID_MAPS_RELOAD_MIN_INTERVAL_NS
  ReloadMax     \* GU_PID_MAPS_RELOAD_MAX_INTERVAL_NS

ASSUME CacheConstants ==
  /\ IsFiniteSet(Pid) /\ IsFiniteSet(Elf) /\ Pid # {}
  /\ GoElf \subseteq Elf
  /\ NoElf \notin Elf
  /\ NoPriv \notin Nat
  /\ MaxMaps \in Nat \ {0}
  /\ MaxInst \in Nat
  /\ TTL \in Nat \ {0}
  /\ ReloadMin \in Nat \ {0}
  /\ ReloadMax \in Nat

VARIABLES
  (* the operating system *)
  alive,        \* PIDs that exist
  inst,         \* how many processes each PID has named: the start time
  (* gu_context *)
  pid_ctx_list, pid_ctx, map_ctx, pid_ctx_count,
  elf_ctx_list, refcnt, retired, retire_deadline_ns,
  next_retired_elf_deadline_ns, elf_ctx_count, retired_elf_ctx_count,
  (* the call in progress *)
  apc, call,
  listener      \* <<pid, start time>> announced and not yet withdrawn

osVars  == <<alive, inst>>
elfVars == <<elf_ctx_list, refcnt, retired, retire_deadline_ns,
             next_retired_elf_deadline_ns, elf_ctx_count, retired_elf_ctx_count>>
pidVars == <<pid_ctx_list, pid_ctx, map_ctx, pid_ctx_count, listener>>
vars    == <<timerVars, osVars, elfVars, pidVars, apc, call>>

Slot == Pid \X (1..MaxMaps)    \* the maps intervals of the process contexts

(* A process context.  Two fields are history: maps_inst and maps_ns say    *)
(* which process its maps were read from and when, on the cached clock.     *)
NullCtx == [unique_id |-> 0, count |-> 0, golang |-> FALSE, private |-> NoPriv,
            next_maps_reload_ns |-> 0, maps_inst |-> 0, maps_ns |-> 0]

(* A call's arguments and locals.  mode says which loop of gu_unwind() is   *)
(* running, after what gu_clear_pid_ctx() returns to, i the mapping at      *)
(* hand, null that the local pid_ctx is NULL.                               *)
NoCall == [op |-> "none", pid |-> CHOOSE p \in Pid : TRUE, unique_id |-> 0,
           fp |-> FALSE, allow_unknown |-> FALSE, mode |-> "none",
           maps_reloaded |-> FALSE, elf_ctx |-> NoElf, null |-> FALSE,
           i |-> 1, private |-> NoPriv, after |-> "none"]

Init ==
  /\ gu_retire_timer_start
  /\ alive = {}
  /\ inst = [p \in Pid |-> 0]
  /\ pid_ctx_list = {}
  /\ pid_ctx = [p \in Pid |-> NullCtx]
  /\ map_ctx = [s \in Slot |-> NoElf]
  /\ pid_ctx_count = 0
  /\ elf_ctx_list = {}
  /\ refcnt = [e \in Elf |-> 0]
  /\ retired = {}
  /\ retire_deadline_ns = [e \in Elf |-> 0]
  /\ next_retired_elf_deadline_ns = 0
  /\ elf_ctx_count = 0
  /\ retired_elf_ctx_count = 0
  /\ apc = "idle"
  /\ call = NoCall
  /\ listener = {}

Return == apc' = "idle" /\ call' = NoCall

-----------------------------------------------------------------------------
(* The operating system: a PID is taken by a new process and freed again.   *)
Fork(p) ==
  /\ p \notin alive
  /\ inst[p] < MaxInst
  /\ alive' = alive \cup {p}
  /\ inst' = [inst EXCEPT ![p] = @ + 1]
  /\ UNCHANGED <<timerVars, elfVars, pidVars, apc, call>>

Exit(p) ==
  /\ p \in alive
  /\ alive' = alive \ {p}
  /\ UNCHANGED <<inst, timerVars, elfVars, pidVars, apc, call>>

Environment ==
  \/ \E p \in Pid : Fork(p) \/ Exit(p)
  \/ (Tick \/ gu_retire_timer_thread)
       /\ UNCHANGED <<osVars, elfVars, pidVars, apc, call>>

-----------------------------------------------------------------------------
(* Mutant: a gauge is not decremented.                                      *)
DecrementNot(n) == n

(* ELF metadata: reference counts, retirement, sweep.                       *)
Decrement(n) == IF n # 0 THEN n - 1 ELSE 0

gu_retire_elf_ctx(e) ==
  LET d == gu_cache_now_ns + TTL IN
  /\ retired' = retired \cup {e}
  /\ retire_deadline_ns' = [retire_deadline_ns EXCEPT ![e] = d]
  /\ elf_ctx_count' = Decrement(elf_ctx_count)
  /\ retired_elf_ctx_count' = retired_elf_ctx_count + 1
  /\ next_retired_elf_deadline_ns' =
       IF next_retired_elf_deadline_ns = 0 \/ d < next_retired_elf_deadline_ns
         THEN d ELSE next_retired_elf_deadline_ns

(* Mutants: a reference is leaked; an entry is freed with any reference.    *)
PutForgotten(e) == UNCHANGED elfVars

PutFrees(e) ==
  /\ refcnt' = [refcnt EXCEPT ![e] = @ - 1]
  /\ elf_ctx_list' = elf_ctx_list \ {e}
  /\ UNCHANGED <<retired, retire_deadline_ns, elf_ctx_count,
                 retired_elf_ctx_count, next_retired_elf_deadline_ns>>

gu_put_elf_ctx(e) ==
  /\ refcnt' = [refcnt EXCEPT ![e] = @ - 1]
  /\ UNCHANGED elf_ctx_list
  /\ IF refcnt'[e] = 0
       THEN gu_retire_elf_ctx(e)
       ELSE UNCHANGED <<retired, retire_deadline_ns, elf_ctx_count,
                        retired_elf_ctx_count, next_retired_elf_deadline_ns>>

(* load_elf() once the build ID is known: share a cached entry, reviving a  *)
(* retired one, or add a new one.                                           *)
load_elf(e) ==
  /\ refcnt' = [refcnt EXCEPT ![e] = @ + 1]
  /\ elf_ctx_list' = elf_ctx_list \cup {e}
  /\ retired' = retired \ {e}
  /\ retire_deadline_ns' = [retire_deadline_ns EXCEPT ![e] = 0]
  /\ retired_elf_ctx_count' = IF e \in retired THEN Decrement(retired_elf_ctx_count)
                                               ELSE retired_elf_ctx_count
  /\ elf_ctx_count' = IF e \in retired \/ e \notin elf_ctx_list
                        THEN elf_ctx_count + 1 ELSE elf_ctx_count
  /\ UNCHANGED next_retired_elf_deadline_ns

(* gu_retired_elf_sweep() with the clock at t; all stands for UINT64_MAX.   *)
gu_retired_elf_sweep(t, all) ==
  LET expired == {e \in retired : all \/ t >= retire_deadline_ns[e]}
      rest    == retired \ expired
  IN
  IF ~all /\ (retired_elf_ctx_count = 0
               \/ (next_retired_elf_deadline_ns # 0 /\ t < next_retired_elf_deadline_ns))
    THEN UNCHANGED elfVars
    ELSE /\ elf_ctx_list' = elf_ctx_list \ expired
         /\ retired' = rest
         /\ retire_deadline_ns' = [e \in Elf |-> IF e \in expired THEN 0 ELSE retire_deadline_ns[e]]
         /\ retired_elf_ctx_count' =
              IF retired_elf_ctx_count >= Cardinality(expired)
                THEN retired_elf_ctx_count - Cardinality(expired) ELSE 0
         /\ \/ rest = {} /\ next_retired_elf_deadline_ns' = 0
            \/ \E e \in rest :
                 /\ \A f \in rest : retire_deadline_ns[e] <= retire_deadline_ns[f]
                 /\ next_retired_elf_deadline_ns' = retire_deadline_ns[e]
         /\ UNCHANGED <<refcnt, elf_ctx_count>>

-----------------------------------------------------------------------------
(* The entries of the API.  A sample carries the start time of any process  *)
(* the PID has named up to now, or 0 when the sampler does not know it.     *)
(* GU_FLAG_FP_ALLOW_UNKNOWN is read on the frame-pointer path only.         *)
gu_unwind(p, u, hint, unknown) ==
  /\ apc = "idle"
  /\ apc' = "sweep"
  /\ call' = [NoCall EXCEPT !.op = "unwind", !.pid = p, !.unique_id = u,
                            !.fp = hint, !.allow_unknown = hint /\ unknown]
  /\ UNCHANGED <<timerVars, osVars, elfVars, pidVars>>

(* A known non-zero ID comes from the cache, otherwise /proc/<pid>/stat.    *)
gu_get_pid_unique_id(p) ==
  IF p \in pid_ctx_list /\ pid_ctx[p].unique_id # 0 THEN pid_ctx[p].unique_id
  ELSE IF p \in alive THEN inst[p] ELSE 0

gu_preload_pid_debug_info(p) ==
  /\ apc = "idle"
  /\ apc' = "sweep"
  /\ call' = [NoCall EXCEPT !.op = "preload", !.pid = p,
                            !.unique_id = gu_get_pid_unique_id(p)]
  /\ UNCHANGED <<timerVars, osVars, elfVars, pidVars>>

(* gu_event_occur(); GU_EVENT_MODULE_RELOAD only reloads kernel symbols.    *)
gu_event_occur(type, p) ==
  /\ apc = "idle"
  /\ apc' = "sweep"
  /\ call' = [NoCall EXCEPT !.op = type, !.pid = p]
  /\ UNCHANGED <<timerVars, osVars, elfVars, pidVars>>

(* The caller attaches metadata about the process it was told of, so what   *)
(* is stored is modelled by that process's start time; or it clears it.     *)
gu_set_pid_private_info(p) ==
  /\ apc = "idle"
  /\ p \in pid_ctx_list
  /\ \E private \in {pid_ctx[p].unique_id, NoPriv} :
       pid_ctx' = [pid_ctx EXCEPT ![p].private = private]
  /\ UNCHANGED <<timerVars, osVars, elfVars, pid_ctx_list, map_ctx,
                 pid_ctx_count, listener, apc, call>>

(* Every call but the private-info ones begins with the sweep, in two steps *)
(* when the timer runs: take the flag, then load the published clock.       *)
gu_maybe_sweep_retired_elf ==
  /\ apc = "sweep"
  /\ \/ /\ retired_elf_ctx_count = 0
        /\ apc' = "body"
        /\ UNCHANGED <<timerVars, elfVars>>
     \/ /\ retired_elf_ctx_count # 0
        /\ retire_timer_started
        /\ \E due \in BOOLEAN :
             /\ ExchangePending(due)
             /\ apc' = IF due THEN "sweep_load" ELSE "body"
        /\ UNCHANGED elfVars
     \/ /\ retired_elf_ctx_count # 0
        /\ ~retire_timer_started
        /\ gu_retired_elf_sweep(now, FALSE)
        /\ apc' = "body"
        /\ UNCHANGED timerVars
  /\ UNCHANGED <<osVars, pidVars, call>>

SweepLoad ==
  /\ apc = "sweep_load"
  /\ gu_retired_elf_sweep(retire_timer_now_ns, FALSE)
  /\ apc' = "body"
  /\ UNCHANGED <<timerVars, osVars, pidVars, call>>

-----------------------------------------------------------------------------
(* Mutant: the context is counted out twice.                                *)
UnlinkTwice(p) ==
  /\ pid_ctx_list' = pid_ctx_list \ {p}
  /\ pid_ctx_count' = pid_ctx_count - 2
  /\ UNCHANGED <<pid_ctx, map_ctx>>

(* gu_clear_pid_ctx(): out of the hash at once; then one mapping per step.  *)
Unlink(p) ==
  /\ pid_ctx_list' = pid_ctx_list \ {p}
  /\ pid_ctx_count' = pid_ctx_count - 1
  /\ UNCHANGED <<pid_ctx, map_ctx>>

(* Mutant: the event is not sent.                                           *)
DestroySilently(p, c) ==
  /\ Unlink(p) /\ UNCHANGED listener
  /\ apc' = "clear" /\ call' = [c EXCEPT !.i = 1]

(* A clear that announces GU_PID_CTX_EVENT_DESTROY first; c is the call     *)
(* record to go on with.                                                    *)
Destroy(p, c) ==
  /\ listener' = listener \ {<<p, pid_ctx[p].unique_id>>}
  /\ Unlink(p)
  /\ apc' = "clear"
  /\ call' = [c EXCEPT !.i = 1]

(* Mutant: the start time of the sample is not compared.                    *)
BodyTrustsPid ==
  LET p == call.pid
      found == p \in pid_ctx_list
  IN
  /\ apc = "body"
  /\ \/ /\ call.op = "unwind" /\ found
        /\ apc' = "search" /\ UNCHANGED pidVars
        /\ call' = [call EXCEPT !.mode = IF call.fp THEN "fp" ELSE "dwarf"]
     \/ /\ call.op \in {"unwind", "preload"} /\ ~found
        /\ apc' = "kill" /\ UNCHANGED <<call, pidVars>>
     \/ call.op = "exit" /\ found /\ Destroy(p, [call EXCEPT !.after = "return"])
     \/ /\ (call.op = "preload" /\ found) \/ (call.op = "exit" /\ ~found) \/ call.op = "module_reload"
        /\ Return /\ UNCHANGED pidVars
  /\ UNCHANGED <<timerVars, osVars, elfVars>>

(* What each call does with the process context it looks up.                *)
Body ==
  LET p == call.pid
      found == p \in pid_ctx_list
      reused == found /\ call.unique_id # 0 /\ pid_ctx[p].unique_id # call.unique_id
      loop == [call EXCEPT !.mode = IF call.fp THEN "fp" ELSE "dwarf"]
  IN
  /\ apc = "body"
  /\ \/ call.op = "unwind" /\ reused /\ Destroy(p, [call EXCEPT !.after = "kill"])
     \/ /\ call.op = "unwind" /\ found /\ ~reused
        /\ apc' = "search" /\ call' = loop /\ UNCHANGED pidVars
     \/ /\ call.op \in {"unwind", "preload"} /\ ~found
        /\ apc' = "kill" /\ UNCHANGED <<call, pidVars>>
     \/ call.op = "preload" /\ found /\ Return /\ UNCHANGED pidVars
     \/ call.op = "exit" /\ found /\ Destroy(p, [call EXCEPT !.after = "return"])
     \/ call.op = "exit" /\ ~found /\ Return /\ UNCHANGED pidVars
     \/ call.op = "module_reload" /\ Return /\ UNCHANGED pidVars
  /\ UNCHANGED <<timerVars, osVars, elfVars>>

(* Mutant: the loop goes on with the ELF context of the last hit.           *)
AfterMissStale(c) ==
  \/ Return
  \/ /\ c.mode = "fp" /\ c.allow_unknown
     /\ apc' = "search" /\ call' = c
  \/ /\ c.mode = "dwarf" /\ ~c.null
     /\ apc' = "search" /\ call' = [c EXCEPT !.mode = "tail", !.maps_reloaded = FALSE]

(* A PC without an executable mapping ends the DWARF loop, whose tail is    *)
(* then walked by frame pointers with fresh locals, and the frame-pointer   *)
(* loop unless the caller wants unknown frames.                             *)
AfterMiss(c) ==
  \/ Return
  \/ /\ c.mode = "fp" /\ c.allow_unknown
     /\ apc' = "search"
     /\ call' = [c EXCEPT !.elf_ctx = NoElf]
  \/ /\ c.mode = "dwarf" /\ ~c.null
     /\ apc' = "search"
     /\ call' = [c EXCEPT !.elf_ctx = NoElf, !.mode = "tail", !.maps_reloaded = FALSE]

(* gu_load_pid() returned NULL: the first load of a call gives up, a reload *)
(* leaves the loop with a NULL pid_ctx.                                     *)
LoadFailed ==
  IF call.mode = "none" THEN Return ELSE AfterMiss([call EXCEPT !.null = TRUE])

Clear ==
  LET p == call.pid
      e == map_ctx[<<p, call.i>>]
      done == call.i > pid_ctx[p].count
  IN
  /\ apc = "clear"
  /\ \/ /\ ~done
        /\ map_ctx' = [map_ctx EXCEPT ![<<p, call.i>>] = NoElf]
        /\ IF e = NoElf THEN UNCHANGED elfVars ELSE gu_put_elf_ctx(e)
        /\ call' = [call EXCEPT !.i = @ + 1]
        /\ UNCHANGED <<pid_ctx, apc>>
     \/ /\ done
        /\ pid_ctx' = [pid_ctx EXCEPT ![p] = NullCtx]
        /\ \/ call.after \in {"kill", "maps", "cleanup"} /\ apc' = call.after /\ UNCHANGED call
           \/ call.after = "return" /\ Return
           \/ call.after = "load_failed" /\ LoadFailed
        /\ UNCHANGED <<map_ctx, elfVars>>
  /\ UNCHANGED <<timerVars, osVars, pid_ctx_list, pid_ctx_count, listener>>

-----------------------------------------------------------------------------
(* Loading a process: kill(pid, 0), then gu_load_pid().                     *)
Kill ==
  /\ apc = "kill"
  /\ \/ call.pid \in alive /\ apc' = "maps" /\ UNCHANGED call
     \/ call.pid \notin alive /\ Return
  /\ UNCHANGED <<timerVars, osVars, elfVars, pidVars>>

(* Read /proc/<pid>/maps.  It fails if the process has gone, has no         *)
(* executable mapping, or memory runs out.                                  *)
gu_get_maps_info ==
  LET p == call.pid IN
  /\ apc = "maps"
  /\ \/ /\ p \in alive
        /\ \E count \in 1..MaxMaps :
             pid_ctx' = [pid_ctx EXCEPT ![p] =
               [NullCtx EXCEPT !.count = count, !.unique_id = call.unique_id,
                               !.maps_inst = inst[p], !.maps_ns = gu_cache_now_ns]]
        /\ apc' = "elf"
        /\ call' = [call EXCEPT !.i = 1]
     \/ LoadFailed /\ UNCHANGED pid_ctx
  /\ UNCHANGED <<timerVars, osVars, elfVars, pid_ctx_list, map_ctx, pid_ctx_count, listener>>

(* load_elf() and, because the map context cannot be allocated, an          *)
(* immediate gu_put_elf_ctx(): an entry nobody else holds ends up retired.  *)
LoadThenPut(e) ==
  LET d == gu_cache_now_ns + TTL IN
  IF refcnt[e] # 0
    THEN UNCHANGED elfVars
    ELSE /\ elf_ctx_list' = elf_ctx_list \cup {e}
         /\ retired' = retired \cup {e}
         /\ retire_deadline_ns' = [retire_deadline_ns EXCEPT ![e] = d]
         /\ retired_elf_ctx_count' = IF e \in retired THEN retired_elf_ctx_count
                                                       ELSE retired_elf_ctx_count + 1
         /\ next_retired_elf_deadline_ns' =
              IF next_retired_elf_deadline_ns = 0 \/ d < next_retired_elf_deadline_ns
                THEN d ELSE next_retired_elf_deadline_ns
         /\ UNCHANGED <<refcnt, elf_ctx_count>>

(* Undo a load: every mapping loaded so far is put back.                    *)
Abandon == apc' = "clear" /\ call' = [call EXCEPT !.i = 1, !.after = "load_failed"]

(* One mapping of the process: its ELF is loaded, has no usable ELF file,   *)
(* or makes the load fail.                                                  *)
LoadMapping ==
  LET p == call.pid
      advance == /\ call' = [call EXCEPT !.i = @ + 1]
                 /\ apc' = IF call.i = pid_ctx[p].count THEN "finish" ELSE "elf"
  IN
  /\ apc = "elf"
  /\ \/ \E e \in Elf :
          /\ load_elf(e)
          /\ map_ctx' = [map_ctx EXCEPT ![<<p, call.i>>] = e]
          /\ pid_ctx' = [pid_ctx EXCEPT ![p].golang = @ \/ (call.i = 1 /\ e \in GoElf)]
          /\ advance
     \/ advance /\ UNCHANGED <<elfVars, map_ctx, pid_ctx>>
     \/ \E e \in Elf : LoadThenPut(e) /\ Abandon /\ UNCHANGED <<map_ctx, pid_ctx>>
  /\ UNCHANGED <<timerVars, osVars, pid_ctx_list, pid_ctx_count, listener>>

(* Mutant: the random part of the delay without its minimum.                *)
ScheduleSpanOnly(delay) == gu_cache_now_ns + (delay - ReloadMin)

(* The time of the next reload: now and a random delay.  It is never 0, so  *)
(* gu_maps_reload_allowed() never has to set it again.                      *)
gu_schedule_next_maps_reload(delay) == gu_cache_now_ns + delay

(* The interval index is built, the next reload scheduled at a jittered     *)
(* deadline, and the caller of gu_load_pid() adds the context to the hash   *)
(* and announces GU_PID_CTX_EVENT_CREATE.                                   *)
LoadDone ==
  LET p == call.pid IN
  /\ apc = "finish"
  /\ \/ /\ \E delay \in ReloadMin..ReloadMax :
             pid_ctx' = [pid_ctx EXCEPT
               ![p].next_maps_reload_ns = gu_schedule_next_maps_reload(delay),
               ![p].private = call.private]
        /\ pid_ctx_list' = pid_ctx_list \cup {p}
        /\ pid_ctx_count' = pid_ctx_count + 1
        /\ listener' = listener \cup {<<p, pid_ctx[p].unique_id>>}
        /\ \/ call.op = "preload" /\ Return
           \/ /\ call.op = "unwind" /\ call.mode = "none"
              /\ apc' = "search"
              /\ call' = [call EXCEPT !.mode = IF call.fp THEN "fp" ELSE "dwarf"]
           \/ /\ call.op = "unwind" /\ call.mode # "none"
              /\ apc' = "search_again"
              /\ call' = [call EXCEPT !.private = NoPriv]
     \/ Abandon /\ UNCHANGED <<pid_ctx, pid_ctx_list, pid_ctx_count, listener>>
  /\ UNCHANGED <<timerVars, osVars, elfVars, map_ctx>>

-----------------------------------------------------------------------------
(* The unwind loops, as far as the caches go: they look up PCs.             *)

(* gu_search_pid_elf_ctx() finds the mapping of the PC.  A mapping without  *)
(* ELF ends the DWARF loop, and the frame-pointer loop unless the caller    *)
(* wants unknown frames.                                                    *)
SearchHit ==
  /\ apc \in {"search", "search_again"}
  /\ ~call.null
  /\ \E i \in 1..pid_ctx[call.pid].count :
       LET e == map_ctx[<<call.pid, i>>] IN
       \/ /\ e # NoElf \/ call.mode = "tail" \/ (call.mode = "fp" /\ call.allow_unknown)
          /\ apc' = "search"
          /\ call' = [call EXCEPT !.elf_ctx = e]
       \/ e = NoElf /\ call.mode # "tail" /\ AfterMiss(call)
  /\ UNCHANGED <<timerVars, osVars, elfVars, pidVars>>

(* The PC is in no mapping and the maps are not reloaded: they were already *)
(* in this loop, it is too early, or the process has gone.                  *)
SearchMiss ==
  LET p == call.pid IN
  /\ \/ apc = "search_again"
     \/ /\ apc = "search" /\ ~call.null
        /\ \/ call.maps_reloaded
           \/ gu_cache_now_ns < pid_ctx[p].next_maps_reload_ns
           \/ p \notin alive
  /\ AfterMiss(call)
  /\ UNCHANGED <<timerVars, osVars, elfVars, pidVars>>

(* gu_reload_pid_ctx(): copy the private data (or fail to), destroy, load.  *)
gu_reload_pid_ctx ==
  LET p == call.pid IN
  /\ apc = "search" /\ ~call.null
  /\ ~call.maps_reloaded
  /\ gu_cache_now_ns >= pid_ctx[p].next_maps_reload_ns
  /\ p \in alive
  /\ \E copy \in {pid_ctx[p].private, NoPriv} :
       Destroy(p, [call EXCEPT !.maps_reloaded = TRUE, !.private = copy, !.after = "maps"])
  /\ UNCHANGED <<timerVars, osVars, elfVars>>

(* The frame-pointer loop goes on after a failed reload: the next search    *)
(* reads through the NULL pid_ctx.                                          *)
SearchNull ==
  /\ apc = "search" /\ call.null
  /\ apc' = "fault"
  /\ UNCHANGED <<call, timerVars, osVars, elfVars, pidVars>>

(* The loop ends for a reason of its own; the DWARF loop may hand over to   *)
(* the frame-pointer tail.                                                  *)
StopUnwind ==
  /\ apc = "search"
  /\ \/ Return
     \/ call.mode = "dwarf" /\ AfterMiss(call)
  /\ UNCHANGED <<timerVars, osVars, elfVars, pidVars>>

-----------------------------------------------------------------------------
(* gu_cleanup(): stop the timer, clear every process context without        *)
(* announcing it, free the retired ELF entries.                             *)
gu_cleanup ==
  \/ /\ apc = "idle"
     /\ call' = [NoCall EXCEPT !.op = "cleanup", !.after = "cleanup"]
     /\ IF retire_timer_started THEN StoreStop /\ apc' = "stop_write"
                                ELSE UNCHANGED timerVars /\ apc' = "cleanup"
     /\ UNCHANGED <<osVars, elfVars, pidVars>>
  \/ /\ apc = "stop_write" /\ WriteEvent /\ apc' = "stop_join"
     /\ UNCHANGED <<osVars, elfVars, pidVars, call>>
  \/ /\ apc = "stop_join" /\ Join /\ apc' = "cleanup"
     /\ UNCHANGED <<osVars, elfVars, pidVars, call>>
  \/ /\ apc = "cleanup"
     /\ \E p \in pid_ctx_list : Unlink(p) /\ call' = [call EXCEPT !.pid = p, !.i = 1]
     /\ apc' = "clear"
     /\ UNCHANGED <<timerVars, osVars, elfVars, listener>>
  \/ /\ apc = "cleanup" /\ pid_ctx_list = {}
     /\ gu_retired_elf_sweep(now, TRUE)
     /\ apc' = "freed"
     /\ UNCHANGED <<timerVars, osVars, pidVars, call>>

ApiCall ==
  \/ \E p \in Pid : \E u \in 0..inst[p], hint, unknown \in BOOLEAN :
       gu_unwind(p, u, hint, unknown)
  \/ \E p \in Pid : gu_preload_pid_debug_info(p)
  \/ \E p \in Pid, type \in {"exit", "module_reload"} : gu_event_occur(type, p)
  \/ \E p \in Pid : gu_set_pid_private_info(p)

(* The steps of a call in progress. *)
CallStep ==
  \/ gu_maybe_sweep_retired_elf \/ SweepLoad \/ Body
  \/ Kill \/ gu_get_maps_info \/ LoadMapping \/ LoadDone
  \/ SearchHit \/ SearchMiss \/ gu_reload_pid_ctx \/ SearchNull \/ StopUnwind
  \/ Clear

Next == Environment \/ ApiCall \/ CallStep \/ gu_cleanup

Spec == Init /\ [][Next]_vars

-----------------------------------------------------------------------------
Refs(e) == {s \in Slot : map_ctx[s] = e}

PidCtx == [unique_id : Nat, count : 0..MaxMaps, golang : BOOLEAN,
           private : Nat \cup {NoPriv}, next_maps_reload_ns : Nat,
           maps_inst : Nat, maps_ns : Nat]

Call == [op : {"none", "unwind", "preload", "exit", "module_reload", "cleanup"},
         pid : Pid, unique_id : Nat, fp : BOOLEAN, allow_unknown : BOOLEAN,
         mode : {"none", "fp", "dwarf", "tail"}, maps_reloaded : BOOLEAN,
         elf_ctx : Elf \cup {NoElf}, null : BOOLEAN, i : 1..(MaxMaps + 1),
         private : Nat \cup {NoPriv},
         after : {"none", "kill", "maps", "return", "load_failed", "cleanup"}]

(* Every variable has its type; no counter of the statistics wraps below 0. *)
TypeOK ==
  /\ TimerTypeOK
  /\ alive \subseteq Pid
  /\ inst \in [Pid -> Nat]
  /\ pid_ctx_list \subseteq Pid
  /\ pid_ctx \in [Pid -> PidCtx]
  /\ map_ctx \in [Slot -> Elf \cup {NoElf}]
  /\ elf_ctx_list \subseteq Elf
  /\ retired \subseteq Elf
  /\ refcnt \in [Elf -> Nat]
  /\ retire_deadline_ns \in [Elf -> Nat]
  /\ next_retired_elf_deadline_ns \in Nat
  /\ pid_ctx_count \in Nat /\ elf_ctx_count \in Nat /\ retired_elf_ctx_count \in Nat
  /\ call \in Call
  /\ apc \in {"idle", "sweep", "sweep_load", "body", "kill", "maps", "elf", "finish",
              "search", "search_again", "clear", "fault", "stop_write",
              "stop_join", "cleanup", "freed"}
  /\ listener \subseteq Pid \X Nat

(* The reference count of an ELF entry is the number of mappings that point *)
(* at it, in contexts that are listed, being loaded or being cleared        *)
(* (gu_stacktrace.c:1322, 1416, 1449-1457).                                 *)
RefcountExact == \A e \in Elf : refcnt[e] = Cardinality(Refs(e))

(* No mapping points at a freed entry, and an entry waits for the sweep     *)
(* exactly while no mapping points at it.                                   *)
RetiredIffUnreferenced ==
  /\ \A s \in Slot : map_ctx[s] # NoElf => map_ctx[s] \in elf_ctx_list
  /\ retired = {e \in elf_ctx_list : refcnt[e] = 0}

(* The three gauges of struct gu_statistics count what they say             *)
(* (unwinder_types.h:221-224), through every error path.                    *)
StatisticsExact ==
  /\ elf_ctx_count = Cardinality(elf_ctx_list \ retired)
  /\ retired_elf_ctx_count = Cardinality(retired)
  /\ pid_ctx_count = Cardinality(pid_ctx_list)

(* The deadline that lets gu_retired_elf_sweep() return early is never      *)
(* later than the deadline of a retired entry, although reviving an entry   *)
(* does not update it (gu_stacktrace.c:253-264, 340-342, 352-356).          *)
NextDeadlineCovers ==
  \A e \in retired :
    /\ next_retired_elf_deadline_ns # 0
    /\ next_retired_elf_deadline_ns <= retire_deadline_ns[e]

(* No sweep is missed: with the timer running, its flag down and the thread *)
(* not between its two stores, no entry whose deadline the published clock  *)
(* has reached is left, once the flag taken has been acted on.              *)
NoOverdueEntry ==
  (retire_timer_started /\ ~retire_sweep_pending /\ tpc # "pend" /\ apc # "sweep_load")
    => \A e \in retired : retire_timer_now_ns < retire_deadline_ns[e]

(* Once joined, the thread never touches the context that gu_cleanup() then *)
(* frees (gu_stacktrace.c:244-251, 1877-1895).                              *)
QuietAfterJoin == [][~retire_timer_started => UNCHANGED <<threadVars, atomics>>]_vars

(* An unwind never uses ELF metadata that a reload has retired or freed.    *)
UnwindUsesLiveElf ==
  (apc = "search" /\ call.elf_ctx # NoElf)
    => call.elf_ctx \in elf_ctx_list \ retired

(* PID reuse: a sample of the process that has the PID now is never looked  *)
(* up in the maps of an earlier process with that PID                       *)
(* (gu_stacktrace.c:2610-2616).                                             *)
SampleSeesItsProcess ==
  (apc = "search" /\ ~call.null /\ call.unique_id # 0
     /\ call.pid \in alive /\ call.unique_id = inst[call.pid])
    => pid_ctx[call.pid].maps_inst = call.unique_id

(* What the listeners were told is what the cache holds: every CREATE has   *)
(* its DESTROY, with the same start time, and the other way round.          *)
ListenersMirrorCache ==
  call.op # "cleanup"
    => listener = {<<p, pid_ctx[p].unique_id>> : p \in pid_ctx_list}

(* Caller metadata is copied from context to context by reloads, but only   *)
(* within one process: a context with a known start time carries no         *)
(* metadata attached for another one, although its PID was reused meanwhile *)
(* (gu_stacktrace.c:1760-1782, 2610-2616).  A sample without a start time   *)
(* cannot tell, and its reload keeps whatever was attached.                 *)
PrivateOfSameProcess ==
  \A p \in pid_ctx_list :
    pid_ctx[p].private # NoPriv
      => pid_ctx[p].unique_id \in {0, pid_ctx[p].private}

(* gu_cleanup() leaves nothing behind: with the last sweep every ELF entry  *)
(* is gone, so all of them had lost their references.                       *)
CleanupFreesAll ==
  apc = "freed" => elf_ctx_list = {} /\ elf_ctx_count = 0 /\ retired_elf_ctx_count = 0

(* An ELF entry is freed only when nothing refers to it and, but for        *)
(* gu_cleanup(), not before the real clock has reached its deadline,        *)
(* although the sweep is decided on the cached one.  The deadline itself is *)
(* the cached clock at the retirement and the time to live, so an entry may *)
(* stay for less than that by what the cached clock lagged behind.          *)
FreedOnlyWhenExpired ==
  [][\A e \in elf_ctx_list \ elf_ctx_list' :
       /\ Refs(e) = {}
       /\ apc = "cleanup" \/ now >= retire_deadline_ns[e]]_vars

(* A PC miss discards the maps of a process only when the cached clock has  *)
(* advanced by GU_PID_MAPS_RELOAD_MIN_INTERVAL_NS since they were read,     *)
(* whatever the timer published and however often the context that holds    *)
(* the deadline was replaced meanwhile (gu_stacktrace.c:1610, 1677-1714).   *)
ReloadThrottled ==
  [][(apc = "search" /\ apc' = "clear")
       => gu_cache_now_ns >= pid_ctx[call.pid].maps_ns + ReloadMin]_vars

(* The ELF cache implements SharedEntries: reference counts, retirement and *)
(* the sweep never evict an entry that a mapping points at.                 *)
Shared == INSTANCE SharedEntries WITH
            Entry <- Elf, Holder <- Slot,
            cached <- elf_ctx_list, held <- [e \in Elf |-> Refs(e)]

ImplementsSharedEntries == Shared!Spec

-----------------------------------------------------------------------------
(* What the invariants above rest on.                                       *)

(* Where the call in progress is determines which context is out of the     *)
(* hash table and which of its mappings are loaded.                         *)
ControlOK ==
  /\ apc \in {"kill", "maps", "elf", "finish", "clear"} => call.pid \notin pid_ctx_list
  /\ (apc \in {"search", "search_again"} /\ ~call.null) => call.pid \in pid_ctx_list
  /\ call.null => apc \in {"search", "fault"}
  /\ apc \in {"sweep", "sweep_load", "body"} => call.mode = "none"
  /\ apc = "elf" => call.i \in 1..pid_ctx[call.pid].count
  /\ call.mode = "none" => call.elf_ctx = NoElf /\ apc \notin {"search", "search_again"}
  /\ apc = "idle" => call = NoCall
  /\ call.op = "cleanup" <=> call.after = "cleanup"
  /\ call.op = "cleanup" => apc \in {"stop_write", "stop_join", "cleanup", "clear", "freed"}
  /\ apc \in {"stop_write", "stop_join", "cleanup", "freed"} => call.op = "cleanup"

SlotsOwned ==
  \A s \in Slot : map_ctx[s] # NoElf =>
    /\ s[2] <= pid_ctx[s[1]].count
    /\ \/ s[1] \in pid_ctx_list
       \/ /\ s[1] = call.pid
          /\ \/ apc = "elf" /\ s[2] < call.i
             \/ apc = "finish"
             \/ apc = "clear" /\ s[2] >= call.i

(* Start times only grow: a context's maps are not older than its ID.       *)
IdsOrdered ==
  /\ call.unique_id <= inst[call.pid] /\ (call.op = "cleanup" => call.unique_id = 0)
  /\ \A p \in Pid : /\ pid_ctx[p].unique_id <= pid_ctx[p].maps_inst
                     /\ pid_ctx[p].maps_inst <= inst[p]
  /\ apc \in {"elf", "finish"} => pid_ctx[call.pid].unique_id = call.unique_id
  /\ (apc \in {"search", "search_again"} /\ ~call.null /\ call.unique_id # 0)
       => pid_ctx[call.pid].unique_id = call.unique_id
  /\ call.private # NoPriv => call.unique_id \in {0, call.private}

-----------------------------------------------------------------------------
(* Liveness.  Time passes, the thread is scheduled and its poll() times     *)
(* out, a call that has begun runs to its end (the unwind loops are bounded *)
(* by 512 and MAX_FP_STACK_LEVEL frames), and the client keeps sampling.    *)
BeginCall ==
  \/ \E p \in Pid : gu_unwind(p, 0, FALSE, FALSE)
  \/ \E p \in Pid : gu_preload_pid_debug_info(p)
  \/ \E p \in Pid : gu_event_occur("exit", p)

FairSpec ==
  /\ Spec
  /\ WF_vars(Tick /\ UNCHANGED <<osVars, elfVars, pidVars, apc, call>>)
  /\ WF_vars(gu_retire_timer_thread /\ UNCHANGED <<osVars, elfVars, pidVars, apc, call>>)
  /\ WF_vars(CallStep)
  /\ WF_vars(StopUnwind)
  /\ WF_vars(apc # "idle" /\ gu_cleanup)
  /\ WF_vars(BeginCall)

(* A retired ELF entry does not stay for ever: it is freed, or revived, or  *)
(* its retirement renewed past the end of the model's clock.                *)
RetiredEventuallyFreed ==
  \A e \in Elf :
    (e \in retired /\ retire_deadline_ns[e] <= MaxTime)
      ~> (e \notin retired \/ retire_deadline_ns[e] > MaxTime \/ apc = "fault")

(* gu_cleanup() returns: the thread leaves its loop and is joined, and the  *)
(* caches are emptied.                                                      *)
CleanupReturns == (apc = "stop_write") ~> (apc = "freed")

-----------------------------------------------------------------------------
(* What a header says and the code does not do.                             *)

(* unwinder_types.h:99: with GU_FLAG_FP_ALLOW_UNKNOWN frames without ELF    *)
(* backing are kept, so the loop goes on after a miss; it must then have a  *)
(* process context to search.                                               *)
UnknownFramesKept == apc # "fault"
=============================================================================
