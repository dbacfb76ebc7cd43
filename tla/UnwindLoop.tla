------------------------------ MODULE UnwindLoop ------------------------------
(***************************************************************************)
(* The unwind loops of src/gu_stacktrace.c: gu_unwind() by CFI, its tail   *)
(* by frame pointers, and gu_unwind_by_fp().  They run on one sample of a  *)
(* valid stack, so that what they report can be compared with the truth.   *)
(*                                                                         *)
(* A stack is a sequence of frames, innermost first.  A PC, an SP and a    *)
(* frame record are named by the frame they belong to: PC k is where frame *)
(* k is executing or will resume, PC Len(stack) + 1 is 0.  CFI is right    *)
(* where it exists.  What the caches do meanwhile is GuCache's matter.     *)
(***************************************************************************)
EXTENDS Naturals, Sequences, FiniteSets

CONSTANTS
  MaxDepth,     \* bound of the model: frames of a stack
  MaxLevel,     \* max_backtrace_level of gu_unwind() (512)
  MaxFpLevel    \* MAX_FP_STACK_LEVEL (127)

ASSUME LoopConstants ==
  MaxDepth \in Nat /\ MaxLevel \in Nat \ {0} /\ MaxFpLevel \in Nat \ {0}

(* kind   what the mapping of the PC offers: CFI, an ELF without CFI, an    *)
(*        anonymous mapping, no mapping; or a signal trampoline, or a       *)
(*        stack-bottom symbol                                               *)
(* fp     the frame has a frame record                                      *)
(* edge   a return address one past the end of its function; the first byte *)
(*        of the function for a PC that is not a return address             *)
(* again  the PC is that of the frame inside it: recursion                  *)
Frame == [kind : {"cfi", "no_cfi", "anon", "unmapped", "signal", "bottom"},
          fp : BOOLEAN, edge : BOOLEAN, again : BOOLEAN]

VARIABLES
  stack, snap,        \* the true stack; frames whose slots were captured
  leaf,               \* frame 1 has no stack of its own (GUNWINDER_ARM64)
  verbose,            \* gu_verbose_enabled: verbose logging, off by default
  allow_unknown,      \* GU_FLAG_FP_ALLOW_UNKNOWN
  upc,                \* "start", "dwarf", "tail", "fp" or "done"
  pc, bp,             \* PC and frame record, as frames; bp 0: no record
  n,                  \* rounds of the loop so far
  signal,             \* current_signal_frame
  append,             \* fp_tail_append_current_pc
  reason,             \* why the unwind stopped
  frames              \* what the callback got

sample == <<stack, snap, leaf, verbose>>
vars   == <<sample, allow_unknown, upc, pc, bp, n, signal, append, reason, frames>>

Depth == Len(stack)
IsReturnAddress(k) == k > 1 /\ stack[k - 1].kind # "signal"

(* The frame pointer while frame k executes: the next record outwards.      *)
BP(k) == IF \E j \in k..Depth : stack[j].fp
           THEN CHOOSE j \in k..Depth : stack[j].fp /\ \A i \in k..(j - 1) : ~stack[i].fp
           ELSE 0

ValidStack(s) ==
  \A k \in 1..Len(s) :
    /\ s[k].again => k > 1 /\ s[k] = [s[k - 1] EXCEPT !.again = TRUE]
    /\ s[k].kind = "bottom" => k = Len(s)
    /\ s[k].kind = "signal" => k > 1 /\ ~s[k].fp /\ ~s[k].edge /\ ~s[k].again

Init ==
  /\ \E d \in 1..MaxDepth : stack \in [1..d -> Frame] /\ snap \in 0..d
  /\ ValidStack(stack)
  /\ leaf \in BOOLEAN /\ (leaf => ~stack[1].fp)
  /\ verbose \in BOOLEAN /\ allow_unknown = FALSE
  /\ upc = "start" /\ pc = 1 /\ bp = BP(1) /\ n = 0
  /\ signal = FALSE /\ append = FALSE
  /\ reason = "UNKNOWN" /\ frames = <<>>

(* gu_lookup_elf_symbol() at the PC, or the byte before it: right, wrong at *)
(* the edge of a function, or none without ELF.                             *)
gu_lookup_elf_symbol(k, decrement) ==
  IF stack[k].kind \in {"anon", "unmapped"} THEN "none"
  ELSE IF stack[k].edge /\ decrement # IsReturnAddress(k) THEN "wrong" ELSE "right"

Emit(k, decrement, by) ==
  frames' = Append(frames, [frame |-> k, by |-> by,
                            symbol |-> gu_lookup_elf_symbol(k, decrement)])

(* The choice of the loop; a frame-pointer sample may be empty.             *)
gu_unwind ==
  /\ upc = "start"
  /\ \/ upc' = "dwarf" /\ UNCHANGED <<allow_unknown, reason>>
     \/ upc' = "fp" /\ allow_unknown' \in BOOLEAN /\ UNCHANGED reason
     \/ upc' = "done" /\ reason' = "END_OF_STACK" /\ UNCHANGED allow_unknown
  /\ UNCHANGED <<sample, pc, bp, n, signal, append, frames>>

-----------------------------------------------------------------------------
(* The CFI loop.  It ends with a reason; unless that is the end of the      *)
(* stack, the tail follows.                                                 *)
Break(why) ==
  /\ reason' = why
  /\ upc' = IF why = "END_OF_STACK" THEN "done" ELSE "tail"

(* Mutant: the rounds are not counted, verbose or not.                      *)
RoundsUncounted == TRUE

(* initial_frame is loop_count == 0, and loop_count is incremented in the   *)
(* argument of a logging macro, which evaluates it when logging is verbose. *)
initial_frame == n = 0 \/ ~verbose

(* A PC looked up in the wrong function finds no CFI or wrong CFI.          *)
Misled(k) == gu_lookup_elf_symbol(k, ~(initial_frame \/ signal)) = "wrong"

(* Mutant: the last word of the snapshot is not read.                       *)
CallersShort(k) ==
  IF Misled(k) THEN 2..(Depth + 1)
  ELSE IF (leaf /\ k = 1) \/ k < snap THEN {k + 1}
  ELSE IF initial_frame THEN {k} ELSE {}

(* The registers of the caller.  The return address is in the snapshot, or, *)
(* for the initial frame, taken from the register: on ARM64 that is the     *)
(* caller of a leaf; otherwise it still points into the frame itself.       *)
(* Wrong CFI may yield any registers.                                       *)
Callers(k) ==
  IF Misled(k) THEN 2..(Depth + 1)
  ELSE IF (leaf /\ k = 1) \/ k <= snap THEN {k + 1}
  ELSE IF initial_frame THEN {k} ELSE {}

(* Frames that resume at the same PC.                                       *)
SamePc(j, k) ==
  \A i \in 1..Depth : ((j < i /\ i <= k) \/ (k < i /\ i <= j)) => stack[i].again

(* Mutant: no loop guard.                                                   *)
StuckNever(k, next) == FALSE

(* The loop guard: the PC is that of the frame it was found for, or SP has  *)
(* not grown.  The innermost PC is not compared, and with right CFI only a  *)
(* leaf leaves SP where it was.                                             *)
Stuck(k, next) == IF n = 0 THEN leaf ELSE SamePc(k, next)

Unwind(k) ==
  \/ /\ Callers(k) \notin {{k}, {k + 1}}
     /\ Break(IF Callers(k) = {} THEN "STACK_READ_OUT_OF_RANGE" ELSE "CFI_FRAME_DECODE_FAILED")
     /\ UNCHANGED <<pc, bp, signal>>
  \/ \E next \in Callers(k) :
     /\ pc' = next
     /\ bp' = BP(next)
     /\ signal' = (stack[k].kind = "signal")
     /\ IF next > Depth THEN Break("END_OF_STACK")
        ELSE \/ (Stuck(k, next) \/ Misled(k)) /\ Break("NO_PROGRESS")
             \/ /\ ~Stuck(k, next)
                /\ reason' = IF ~stack[k].fp THEN "CFI_FRAME_CFA_CALC_FAILED"
                             ELSE IF k <= snap THEN "OK" ELSE "STACK_READ_OUT_OF_RANGE"
                /\ UNCHANGED upc

DwarfRound ==
  LET kind == stack[pc].kind IN
  /\ upc = "dwarf" /\ n < MaxLevel
  /\ n' = n + 1
  /\ \/ /\ kind = "unmapped"
        /\ Break("NO_EXEC_PC") \/ (upc' = "done" /\ reason' = "NO_EXEC_PC")
        /\ UNCHANGED <<pc, bp, signal, append, frames>>
     \/ /\ kind = "anon"
        /\ append' = TRUE
        /\ Break("NO_EXEC_PC")
        /\ UNCHANGED <<pc, bp, signal, frames>>
     \/ /\ kind \in {"bottom", "no_cfi", "cfi", "signal"}
        /\ Emit(pc, ~(initial_frame \/ signal), "dwarf")
        /\ \/ kind = "bottom" /\ Break("END_OF_STACK") /\ UNCHANGED <<pc, bp, signal>>
           \/ kind = "no_cfi" /\ Break("NO_CFI") /\ UNCHANGED <<pc, bp, signal>>
           \/ kind \in {"cfi", "signal"} /\ Unwind(pc)
        /\ UNCHANGED append
  /\ UNCHANGED <<sample, allow_unknown>>

(* The depth is exhausted.                                                  *)
DwarfExhausted ==
  /\ upc = "dwarf" /\ n = MaxLevel
  /\ upc' = "tail"
  /\ reason' = IF reason = "UNKNOWN" THEN "TRUNCATED" ELSE reason
  /\ UNCHANGED <<sample, allow_unknown, pc, bp, n, signal, append, frames>>

-----------------------------------------------------------------------------
(* Mutant: the frames of the tail are not counted.                          *)
ByNone(who) == 0

(* gu_unwind_dwarf_tail_by_fp(): the current PC if it is executable without *)
(* ELF, then the chain of frame records.                                    *)
By(who) == Cardinality({i \in 1..Len(frames) : frames[i].by = who})

TailRound ==
  LET record == By("tail") < MaxFpLevel /\ bp # 0 /\ bp <= snap /\ BP(bp + 1) # 0
      lost == record /\ stack[bp + 1].kind = "unmapped"
  IN
  /\ upc = "tail"
  /\ \/ /\ append
        /\ append' = FALSE
        /\ Emit(pc, FALSE, "pc")
        /\ UNCHANGED <<upc, bp, reason>>
     \/ /\ ~append /\ (lost \/ ~record)
        /\ upc' = "done"
        /\ reason' = IF By("pc") + By("tail") > 0 THEN "END_OF_STACK" ELSE reason
        /\ UNCHANGED <<bp, append, frames>>
     \/ /\ ~append /\ record /\ ~lost
        /\ Emit(bp + 1, TRUE, "tail")
        /\ IF stack[bp + 1].kind = "bottom"
             THEN upc' = "done" /\ reason' = "END_OF_STACK" /\ UNCHANGED bp
             ELSE bp' = BP(bp + 1) /\ UNCHANGED <<upc, reason>>
        /\ UNCHANGED append
  /\ UNCHANGED <<sample, allow_unknown, pc, n, signal>>

(* gu_unwind_by_fp(): the PCs the sampler has collected along the records.  *)
FpRound ==
  LET kind == stack[pc].kind
      known == kind \notin {"anon", "unmapped"}
      last == n' = MaxFpLevel \/ BP(pc) = 0
      Stop(why) == upc' = "done" /\ reason' = why /\ UNCHANGED pc
  IN
  /\ upc = "fp"
  /\ n' = n + 1
  /\ \/ pc > Depth /\ Stop("END_OF_STACK") /\ UNCHANGED frames
     \/ /\ pc <= Depth
        /\ IF known \/ allow_unknown
             THEN /\ Emit(pc, FALSE, "fp")
                  /\ IF kind = "bottom" \/ last
                       THEN Stop("END_OF_STACK")
                       ELSE pc' = BP(pc) + 1 /\ UNCHANGED <<upc, reason>>
             ELSE Stop("NO_EXEC_PC") /\ UNCHANGED frames
  /\ UNCHANGED <<sample, allow_unknown, bp, signal, append>>

Next == gu_unwind \/ DwarfRound \/ DwarfExhausted \/ TailRound \/ FpRound

Spec == Init /\ [][Next]_vars

-----------------------------------------------------------------------------
Misread == \E i \in 1..Len(frames) : frames[i].by = "dwarf" /\ frames[i].symbol = "wrong"

(* Frames are reported innermost first, none twice, and the CFI loop leaves *)
(* none out, as long as the first return address was captured and no PC was *)
(* looked up in the wrong function.  This holds across the hand-over to the *)
(* tail: it never repeats a frame of the loop.                              *)
FramesOutward ==
  (snap > 0 \/ leaf) /\ ~Misread =>
    \A i \in 1..Len(frames) :
      /\ i > 1 => frames[i - 1].frame < frames[i].frame
      /\ frames[i].by = "dwarf" => frames[i].frame = i

(* The tail attributes a frame to the function that made the call, also     *)
(* where the call is its last instruction; so does the CFI loop as long as  *)
(* it logs verbosely, and it leaves an interrupted PC as it is              *)
(* (gu_stacktrace.c:2248-2255, 2370-2377).                                  *)
CallerAttributed ==
  (snap > 0 \/ leaf) /\ (verbose \/ ~Misread) =>
    \A i \in 1..Len(frames) : frames[i].by # "fp" => frames[i].symbol # "wrong"

(* With CFI everywhere, the whole stack captured, no recursion and every    *)
(* PC inside its function, the whole stack is reported, up to the limit.    *)
CompleteUnwind ==
  (/\ upc = "done" /\ frames # <<>> /\ frames[1].by = "dwarf"
   /\ snap = Depth /\ ~leaf /\ Depth <= MaxLevel /\ ~Misread
   /\ \A k \in 1..Depth : stack[k].kind \in {"cfi", "signal", "bottom"} /\ ~stack[k].again)
    => Len(frames) = Depth /\ reason = "END_OF_STACK"

(* The callback runs a bounded number of times: each loop keeps its limit   *)
(* (the current PC that starts a tail comes on top of it).                  *)
FrameBudget ==
  \A loop \in {"dwarf", "tail", "fp"} :
    Cardinality({i \in 1..Len(frames) : frames[i].by = loop})
      <= IF loop = "dwarf" THEN MaxLevel ELSE MaxFpLevel

(* Whatever CFI it meets, the CFI loop does not go on with a PC that it has *)
(* just reported, but for the innermost one, which the guard does not know: *)
(* no run of identical frames up to the depth limit                         *)
(* (gu_stacktrace.c:2809-2824).                                             *)
RepeatsCut ==
  \A i \in 2..(Len(frames) - 1) :
    (frames[i].by = "dwarf" /\ frames[i + 1].by = "dwarf")
      => ~SamePc(frames[i].frame, frames[i + 1].frame)

-----------------------------------------------------------------------------
(* What a comment says and the CFI loop does not keep.                      *)

(* gu_stacktrace.c:2773: the sampled register stands in for a return        *)
(* address of the innermost frame only, so that a return address outside    *)
(* the snapshot is not mistaken for a loop.                                 *)
RegisterOnlyInnermost ==
  (~leaf /\ ~Misread /\ \A k \in 1..Depth : ~stack[k].again) => reason # "NO_PROGRESS"
=============================================================================
