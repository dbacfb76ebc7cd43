---------------------------- MODULE CallbackProofs ----------------------------
(* Proofs about the two machines that call the user back.  UnwindLoop hands *)
(* frames to the callback of gu_unwind(): for stacks of any depth and any   *)
(* limits of the loops.  PidCtxEvents hands events to the listeners: for    *)
(* any threads, any listeners and a table of any size.                      *)
EXTENDS UnwindLoop, PidCtxEvents, FiniteSetTheorems, TLAPS

(* Obligations over whole states get more time than the default.            *)
USE SMTT(30), ZenonT(30)

-----------------------------------------------------------------------------
(* Frames: UnwindLoop.                                                      *)
Report == [frame : 1..Depth, by : {"dwarf", "pc", "tail", "fp"},
           symbol : {"none", "wrong", "right"}]

LoopTypes ==
  /\ stack \in Seq(Frame) /\ Depth \in Nat \ {0} /\ ValidStack(stack)
  /\ snap \in 0..Depth /\ leaf \in BOOLEAN /\ verbose \in BOOLEAN
  /\ upc \in {"start", "dwarf", "tail", "fp", "done"}
  /\ pc \in 1..(Depth + 1) /\ bp \in 0..Depth /\ n \in Nat
  /\ signal \in BOOLEAN /\ append \in BOOLEAN
  /\ frames \in Seq(Report)

(* Where each loop stands: what it has reported, its frame record, its PC.  *)
LoopControl ==
  /\ upc = "start" => frames = <<>> /\ n = 0 /\ pc = 1 /\ bp = BP(1) /\ ~signal /\ ~append
  /\ upc = "dwarf" => /\ pc <= Depth /\ bp = BP(pc) /\ ~append /\ n <= MaxLevel
                      /\ \A i \in 1..Len(frames) : frames[i].by = "dwarf"
  /\ upc = "tail" => /\ bp # 0 => stack[bp].fp
                     /\ append => pc <= Depth /\ stack[pc].kind = "anon"
                     /\ \A i \in 1..Len(frames) : frames[i].by # "fp"
  /\ upc = "fp" => /\ n < MaxFpLevel
                   /\ \A i \in 1..Len(frames) : frames[i].by = "fp"

(* The first return address can be read.                                    *)
Captured == snap > 0 \/ leaf

(* While nothing is misread, the CFI loop is at the frame after those it    *)
(* has reported, and the records of the tail are outside all of them.       *)
Outward ==
  Captured /\ ~Misread =>
    /\ upc = "dwarf" => /\ pc = n + 1 /\ Len(frames) = n
                        /\ signal <=> (n > 0 /\ stack[n].kind = "signal")
    /\ (upc = "tail" /\ append) => /\ bp = 0 \/ pc <= bp
                                   /\ \A i \in 1..Len(frames) : frames[i].frame < pc
    /\ (upc = "tail" /\ ~append) => bp = 0 \/ \A i \in 1..Len(frames) : frames[i].frame <= bp
    /\ upc = "fp" => \A i \in 1..Len(frames) : frames[i].frame < pc

(* The tail looks every PC up in its own function; so does the CFI loop as  *)
(* long as it logs verbosely.                                               *)
Attributed ==
  /\ \A i \in 1..Len(frames) : frames[i].by \in {"pc", "tail"} => frames[i].symbol # "wrong"
  /\ Captured /\ verbose => ~Misread

(* The reports of one loop.                                                 *)
CountBy(s, w) == Cardinality({i \in 1..Len(s) : s[i].by = w})

(* The limits, and what they leave to the loop that runs.                   *)
Budget ==
  /\ FrameBudget
  /\ upc = "dwarf" => CountBy(frames, "dwarf") <= n /\ CountBy(frames, "tail") = 0
  /\ upc = "fp" => CountBy(frames, "fp") <= n

(* The stacks of CompleteUnwind.                                            *)
Complete ==
  /\ snap = Depth /\ ~leaf /\ Depth <= MaxLevel
  /\ \A k \in 1..Depth : stack[k].kind \in {"cfi", "signal", "bottom"} /\ ~stack[k].again

(* On those the CFI loop never needs the tail.                              *)
NoTail ==
  Complete /\ ~Misread =>
    /\ upc # "tail"
    /\ upc = "done" => \/ \A i \in 1..Len(frames) : frames[i].by = "fp"
                       \/ Len(frames) = Depth /\ reason = "END_OF_STACK"

LoopInv == LoopTypes /\ LoopControl /\ Outward /\ FramesOutward /\ Attributed /\ Budget /\ NoTail

-----------------------------------------------------------------------------
(* Every set of natural numbers that is not empty has a least element.      *)
LEMMA NatMin ==
  ASSUME NEW T, T \subseteq Nat, T # {}
  PROVE  \E x \in T : \A y \in T : x <= y
  <1> DEFINE R == OpToRel(<, Nat)
  <1>1. IsWellFoundedOn(R, Nat)
    BY NatLessThanWellFounded
  <1>2. \A x, y \in Nat : x < y => <<x, y>> \in R
    BY DEF OpToRel
  <1> HIDE DEF R
  <1>3. PICK x \in T : \A y \in T : ~(<<y, x>> \in R)
    BY Zenon, <1>1, WFMin
  <1>4. ASSUME NEW y \in T PROVE x <= y
    <2>1. ~(y < x)
      BY Zenon, <1>2, <1>3
    <2> QED BY <2>1
  <1> QED BY <1>4

(* The frame pointer leads to a record, at the frame or outside it.         *)
LEMMA BPOutside ==
  ASSUME Depth \in Nat, NEW k \in 1..(Depth + 1)
  PROVE  /\ BP(k) \in 0..Depth
         /\ BP(k) # 0 => k <= BP(k) /\ stack[BP(k)].fp
  <1> DEFINE T == {j \in k..Depth : stack[j].fp}
             P(j) == stack[j].fp /\ \A i \in k..(j - 1) : ~stack[i].fp
  <1>1. CASE T = {}
    <2>1. BP(k) = 0
      BY <1>1 DEF BP
    <2> QED BY <2>1
  <1>2. CASE T # {}
    <2>1. T \subseteq Nat
      OBVIOUS
    <2>2. PICK j \in T : \A y \in T : j <= y
      BY Zenon, <1>2, <2>1, NatMin
    <2>3. j \in k..Depth /\ P(j)
      BY <2>2
    <2>4. BP(k) = CHOOSE x \in k..Depth : P(x)
      BY <2>3 DEF BP
    <2> HIDE DEF P, T
    <2>5. BP(k) \in k..Depth /\ P(BP(k))
      BY <2>3, <2>4
    <2> QED BY <2>5 DEF P
  <1> QED BY <1>1, <1>2

(* What one more report does to the counts.                                 *)
LEMMA AppendCount ==
  ASSUME NEW S, NEW s \in Seq(S), NEW x \in S, NEW w
  PROVE  /\ CountBy(s, w) \in Nat
         /\ x.by = w => CountBy(Append(s, x), w) = CountBy(s, w) + 1
         /\ x.by # w => CountBy(Append(s, x), w) = CountBy(s, w)
  <1> DEFINE a == Append(s, x)
             C == {i \in 1..Len(s) : s[i].by = w}
             D == {i \in 1..Len(a) : a[i].by = w}
  <1>1. /\ Len(a) = Len(s) + 1 /\ a[Len(s) + 1] = x /\ Len(s) \in Nat
        /\ \A i \in 1..Len(s) : a[i] = s[i]
    OBVIOUS
  <1>0. CountBy(s, w) = Cardinality(C) /\ CountBy(a, w) = Cardinality(D)
    BY DEF CountBy
  <1> HIDE DEF a
  <1>2. IsFiniteSet(C) /\ Cardinality(C) \in Nat
    <2>1. IsFiniteSet(1..Len(s))
      BY <1>1, FS_Interval
    <2>2. C \subseteq 1..Len(s)
      OBVIOUS
    <2> QED BY <2>1, <2>2, FS_Subset, FS_CardinalityType
  <1>3. ASSUME x.by = w PROVE Cardinality(D) = Cardinality(C) + 1
    <2>1. D = C \cup {Len(s) + 1} /\ Len(s) + 1 \notin C
      BY <1>1, <1>3
    <2> HIDE DEF C, D
    <2> QED BY Zenon, <1>2, <2>1, FS_AddElement
  <1>4. ASSUME x.by # w PROVE Cardinality(D) = Cardinality(C)
    <2>1. D = C
      BY <1>1, <1>4
    <2> QED BY Zenon, <2>1
  <1> HIDE DEF C, D
  <1> QED BY <1>0, <1>2, <1>3, <1>4 DEF a

(* A symbol looked up at a frame of the stack.                              *)
LEMMA SymbolOf ==
  ASSUME LoopTypes, NEW k \in 1..Depth, NEW d \in BOOLEAN
  PROVE  /\ gu_lookup_elf_symbol(k, d) \in {"none", "wrong", "right"}
         /\ d = IsReturnAddress(k) => gu_lookup_elf_symbol(k, d) # "wrong"
         /\ stack[k].kind = "anon" => gu_lookup_elf_symbol(k, d) # "wrong"
  BY DEF gu_lookup_elf_symbol

(* What adding a report does to the frames, the counts and the misread.     *)
Emitted(k, by, symbol) ==
  /\ frames' \in Seq(Report) /\ Len(frames') = Len(frames) + 1 /\ Len(frames) \in Nat
  /\ \A i \in 1..Len(frames) : frames'[i] = frames[i]
  /\ frames'[Len(frames) + 1].frame = k
  /\ frames'[Len(frames) + 1].by = by
  /\ frames'[Len(frames) + 1].symbol = symbol
  /\ \A w : /\ CountBy(frames, w) \in Nat
            /\ by = w => CountBy(frames', w) = CountBy(frames, w) + 1
            /\ by # w => CountBy(frames', w) = CountBy(frames, w)
  /\ Misread' <=> Misread \/ (by = "dwarf" /\ symbol = "wrong")

(* A report is added to the frames, and to the count of its loop only; the  *)
(* misread ones stay misread.                                               *)
LEMMA EmitFacts ==
  ASSUME LoopTypes, NEW k \in 1..Depth, NEW d \in BOOLEAN,
         NEW by \in {"dwarf", "pc", "tail", "fp"}, Emit(k, d, by)
  PROVE  Emitted(k, by, gu_lookup_elf_symbol(k, d))
  <1> DEFINE r == [frame |-> k, by |-> by, symbol |-> gu_lookup_elf_symbol(k, d)]
  <1>1. r \in Report
    BY SymbolOf DEF Report
  <1>2. frames \in Seq(Report) /\ frames' = Append(frames, r) /\ Len(frames) \in Nat
    BY DEF LoopTypes, Emit
  <1>3. r.by = by /\ r.symbol = gu_lookup_elf_symbol(k, d)
    OBVIOUS
  <1> HIDE DEF r
  <1>4. /\ frames' \in Seq(Report) /\ Len(frames') = Len(frames) + 1
        /\ \A i \in 1..Len(frames) : frames'[i] = frames[i]
        /\ frames'[Len(frames) + 1] = r
    BY <1>1, <1>2
  <1>5. ASSUME NEW w
        PROVE  /\ CountBy(frames, w) \in Nat
               /\ by = w => CountBy(frames', w) = CountBy(frames, w) + 1
               /\ by # w => CountBy(frames', w) = CountBy(frames, w)
    BY <1>1, <1>2, <1>3, AppendCount
  <1>6. Misread' <=> Misread \/ (by = "dwarf" /\ gu_lookup_elf_symbol(k, d) = "wrong")
    <2>1. Misread' <=> \E i \in 1..(Len(frames) + 1) : frames'[i].by = "dwarf" /\ frames'[i].symbol = "wrong"
      BY <1>4 DEF Misread
    <2>2. Misread' <=> (\E i \in 1..Len(frames) : frames'[i].by = "dwarf" /\ frames'[i].symbol = "wrong")
                       \/ (r.by = "dwarf" /\ r.symbol = "wrong")
      BY <1>2, <1>4, <2>1
    <2> QED BY <1>3, <1>4, <2>2 DEF Misread
  <1>7. r.frame = k
    BY DEF r
  <1> QED BY <1>2, <1>3, <1>4, <1>5, <1>6, <1>7 DEF Emitted

(* The limits, by the counts.                                               *)
LEMMA BudgetCounts ==
  /\ FrameBudget <=> /\ CountBy(frames, "dwarf") <= MaxLevel
                     /\ CountBy(frames, "tail") <= MaxFpLevel
                     /\ CountBy(frames, "fp") <= MaxFpLevel
  /\ FrameBudget' <=> /\ CountBy(frames', "dwarf") <= MaxLevel
                      /\ CountBy(frames', "tail") <= MaxFpLevel
                      /\ CountBy(frames', "fp") <= MaxFpLevel
  BY DEF FrameBudget, CountBy

-----------------------------------------------------------------------------
(* An unwind starts with no frame, on any stack and any snapshot of it.     *)
LEMMA LoopInit ==
  ASSUME Init
  PROVE  LoopInv
  <1>1. PICK d \in 1..MaxDepth : stack \in [1..d -> Frame] /\ snap \in 0..d
    BY DEF Init
  <1>2. stack \in Seq(Frame) /\ Len(stack) = d /\ Depth \in Nat \ {0}
    BY <1>1, LoopConstants DEF Depth
  <1>4. frames = <<>> /\ Len(frames) = 0 /\ frames \in Seq(Report)
    BY DEF Init
  <1>5. LoopTypes
    <2>1. BP(1) \in 0..Depth
      BY <1>2, BPOutside
    <2>2. snap \in 0..Depth /\ pc \in 1..(Depth + 1) /\ bp \in 0..Depth /\ n \in Nat
      BY <1>1, <1>2, <2>1 DEF Init, Depth
    <2> QED BY Zenon, <1>2, <1>4, <2>2 DEF Init, LoopTypes
  <1>6. LoopControl
    BY <1>2, <1>4 DEF Init, LoopControl
  <1>7. Outward /\ FramesOutward /\ Attributed /\ NoTail
    BY <1>4 DEF Init, Outward, FramesOutward, Attributed, NoTail, Misread
  <1>8. Budget
    <2>1. \A w : {i \in 1..Len(frames) : frames[i].by = w} = {}
      BY <1>4
    <2>2. \A w : Cardinality({i \in 1..Len(frames) : frames[i].by = w}) = 0
      BY <2>1, FS_EmptySet
    <2> QED BY <2>2, LoopConstants DEF Init, Budget, FrameBudget, CountBy
  <1> QED BY <1>5, <1>6, <1>7, <1>8 DEF LoopInv

(* The choice of the loop.                                                  *)
LEMMA StartInv ==
  ASSUME LoopInv, gu_unwind
  PROVE  LoopInv'
  <1>0. /\ LoopTypes /\ LoopControl /\ upc = "start" /\ frames = <<>> /\ n = 0 /\ pc = 1
        /\ bp = BP(1) /\ ~signal /\ ~append /\ Len(frames) = 0 /\ Depth \in Nat \ {0}
        /\ UNCHANGED <<stack, snap, leaf, verbose, pc, bp, n, signal, append, frames>>
    BY DEF LoopInv, LoopControl, LoopTypes, gu_unwind, sample
  <1>1. Depth' = Depth /\ \A k : BP(k)' = BP(k)
    BY <1>0 DEF Depth, BP
  <1>2. LoopTypes'
    <2>1. upc' \in {"start", "dwarf", "tail", "fp", "done"}
      BY DEF gu_unwind
    <2>2. Report' = Report /\ ValidStack(stack)'
      BY <1>0, <1>1 DEF Report, LoopTypes, ValidStack
    <2> QED BY <1>0, <1>1, <2>1, <2>2 DEF LoopTypes
  <1>3. LoopControl'
    BY <1>0, <1>1, LoopConstants DEF LoopControl, gu_unwind
  <1>4. Outward' /\ FramesOutward' /\ Attributed' /\ NoTail'
    <2>1. upc' # "tail"
      BY DEF gu_unwind
    <2> QED BY <1>0, <2>1 DEF Outward, FramesOutward, Attributed, NoTail, Misread
  <1>5. Budget'
    <2>1. \A w : {i \in 1..Len(frames) : frames[i].by = w} = {}
      BY <1>0
    <2>2. \A w : Cardinality({i \in 1..Len(frames) : frames[i].by = w}) = 0
      BY <2>1, FS_EmptySet
    <2> QED BY <1>0, <2>2, LoopConstants DEF Budget, FrameBudget, CountBy
  <1> QED BY <1>2, <1>3, <1>4, <1>5 DEF LoopInv

(* A step leaves the sample alone, and with it what is said of the stack.   *)
LEMMA SameSample ==
  ASSUME UNCHANGED sample
  PROVE  /\ UNCHANGED <<stack, snap, leaf, verbose>>
         /\ Depth' = Depth /\ Report' = Report /\ Captured' = Captured /\ Complete' = Complete
         /\ ValidStack(stack)' = ValidStack(stack)
         /\ \A k : BP(k)' = BP(k)
  <1>1. UNCHANGED <<stack, snap, leaf, verbose>> /\ Depth' = Depth
    BY DEF sample, Depth
  <1> QED BY <1>1 DEF Report, Captured, Complete, ValidStack, BP

(* The depth is exhausted: the tail goes on from the current record.        *)
LEMMA ExhaustedInv ==
  ASSUME LoopInv, DwarfExhausted
  PROVE  LoopInv'
  <1>0. /\ LoopTypes /\ LoopControl /\ Outward /\ FramesOutward /\ Attributed /\ Budget /\ NoTail
        /\ upc = "dwarf" /\ upc' = "tail" /\ n = MaxLevel
        /\ UNCHANGED sample /\ UNCHANGED <<pc, bp, n, signal, append, frames>>
    BY DEF LoopInv, DwarfExhausted
  <1>1. /\ UNCHANGED <<stack, snap, leaf, verbose>> /\ Depth' = Depth /\ Report' = Report
        /\ Captured' = Captured /\ Complete' = Complete /\ ValidStack(stack)' = ValidStack(stack)
    BY <1>0, SameSample
  <1>2. Misread' = Misread
    BY <1>0 DEF Misread
  <1>3. /\ pc \in 1..Depth /\ bp = BP(pc) /\ ~append /\ Depth \in Nat \ {0} /\ bp \in 0..Depth
        /\ bp # 0 => pc <= bp /\ stack[bp].fp
    BY <1>0, BPOutside DEF LoopTypes, LoopControl
  <1>4. LoopTypes'
    BY <1>0, <1>1 DEF LoopTypes
  <1>5. LoopControl'
    BY <1>0, <1>1, <1>3 DEF LoopControl
  <1>6. Outward'
    <2>1. ASSUME Captured, ~Misread, bp # 0, NEW i \in 1..Len(frames)
          PROVE  frames[i].frame <= bp
      <3>1. pc = n + 1 /\ Len(frames) = n /\ frames[i].frame = i
        BY <1>0, <2>1 DEF Outward, FramesOutward, Captured, LoopControl
      <3> QED BY <1>0, <1>3, <2>1, <3>1 DEF LoopTypes
    <2> QED BY <1>0, <1>1, <1>2, <1>3, <2>1 DEF Outward
  <1>7. FramesOutward' /\ Attributed'
    BY <1>0, <1>1, <1>2 DEF FramesOutward, Attributed
  <1>8. Budget'
    BY <1>0 DEF Budget, FrameBudget
  <1>9. NoTail'
    <2> SUFFICES ASSUME Complete, ~Misread PROVE FALSE
      BY <1>1, <1>2 DEF NoTail
    <2>1. Captured
      BY <1>0 DEF Complete, Captured, LoopTypes
    <2>2. pc = n + 1
      BY <1>0, <2>1 DEF Outward
    <2> QED BY <1>0, <1>3, <2>2, LoopConstants DEF Complete
  <1> QED BY <1>4, <1>5, <1>6, <1>7, <1>8, <1>9 DEF LoopInv

(* A round of gu_unwind_by_fp() ends the loop or moves outwards.            *)
LEMMA FpInv ==
  ASSUME LoopInv, FpRound
  PROVE  LoopInv'
  <1>0. /\ LoopTypes /\ LoopControl /\ Outward /\ FramesOutward /\ Attributed /\ Budget /\ NoTail
        /\ upc = "fp" /\ n' = n + 1 /\ UNCHANGED sample /\ UNCHANGED <<bp, signal, append>>
        /\ n < MaxFpLevel /\ n \in Nat /\ \A i \in 1..Len(frames) : frames[i].by = "fp"
    BY DEF LoopInv, LoopControl, LoopTypes, FpRound
  <1>1. /\ UNCHANGED <<stack, snap, leaf, verbose>> /\ Depth' = Depth /\ Report' = Report
        /\ Captured' = Captured /\ Complete' = Complete /\ ValidStack(stack)' = ValidStack(stack)
    BY <1>0, SameSample
  <1>2. Depth \in Nat \ {0} /\ pc \in 1..(Depth + 1) /\ Len(frames) \in Nat
    BY <1>0 DEF LoopTypes
  <1>3. CASE UNCHANGED <<frames, pc>> /\ upc' = "done"
    <2>1. Misread' = Misread
      BY <1>3 DEF Misread
    <2>2. LoopTypes' /\ LoopControl'
      BY <1>0, <1>1, <1>3 DEF LoopTypes, LoopControl
    <2>3. Outward' /\ FramesOutward' /\ Attributed'
      BY <1>0, <1>1, <1>3, <2>1 DEF Outward, FramesOutward, Attributed
    <2>4. Budget' /\ NoTail'
      BY <1>0, <1>3 DEF Budget, FrameBudget, NoTail
    <2> QED BY <2>2, <2>3, <2>4 DEF LoopInv
  <1>4. CASE /\ pc <= Depth /\ Emit(pc, FALSE, "fp")
             /\ \/ upc' = "done" /\ UNCHANGED pc
                \/ upc' = "fp" /\ pc' = BP(pc) + 1 /\ BP(pc) # 0 /\ n' # MaxFpLevel
    <2>0. pc \in 1..Depth
      BY <1>2, <1>4
    <2>1. Emitted(pc, "fp", gu_lookup_elf_symbol(pc, FALSE)) /\ (Misread' <=> Misread)
      <3>1. Emitted(pc, "fp", gu_lookup_elf_symbol(pc, FALSE))
        BY Zenon, <1>0, <1>4, <2>0, EmitFacts
      <3> QED BY <3>1 DEF Emitted
    <2> USE DEF Emitted
    <2>2. BP(pc) \in 0..Depth /\ (BP(pc) # 0 => pc <= BP(pc))
      BY <1>2, BPOutside
    <2>3. \A i \in 1..Len(frames') : frames'[i].by = "fp"
      BY <1>0, <1>2, <2>1
    <2>4. LoopTypes'
      BY <1>0, <1>1, <1>2, <1>4, <2>1, <2>2 DEF LoopTypes
    <2>5. LoopControl'
      BY <1>0, <1>4, <2>3, LoopConstants DEF LoopControl
    <2>6. ASSUME Captured, ~Misread
          PROVE  /\ \A i \in 1..Len(frames) : frames[i].frame < pc
                 /\ upc' = "fp" => \A i \in 1..Len(frames') : frames'[i].frame < pc'
      <3>1. \A i \in 1..Len(frames) : frames[i].frame < pc
        BY <1>0, <2>6 DEF Outward
      <3>2. ASSUME upc' = "fp", NEW i \in 1..Len(frames') PROVE frames'[i].frame < pc'
        <4>1. pc < pc' /\ pc' \in Nat
          BY <1>2, <1>4, <2>2, <3>2
        <4>2. frames'[i].frame <= pc /\ frames'[i].frame \in Nat
          <5>1. CASE i \in 1..Len(frames)
            <6>1. frames[i] \in Report
              BY <1>0, <5>1 DEF LoopTypes
            <6> QED BY <1>2, <2>1, <3>1, <5>1, <6>1 DEF Report
          <5>2. CASE i = Len(frames) + 1
            BY <1>2, <2>1, <5>2
          <5> QED BY <1>2, <2>1, <5>1, <5>2
        <4> QED BY <1>2, <4>1, <4>2
      <3> QED BY <3>1, <3>2
    <2>7. Outward'
      BY <1>1, <1>4, <2>1, <2>6 DEF Outward
    <2>8. FramesOutward'
      <3> SUFFICES ASSUME Captured, ~Misread, NEW i \in 1..Len(frames')
                   PROVE  i > 1 => frames'[i - 1].frame < frames'[i].frame
        BY <1>1, <2>1, <2>3 DEF FramesOutward, Captured
      <3>1. CASE i \in 1..Len(frames)
        BY <1>0, <1>2, <2>1, <3>1 DEF FramesOutward, Captured
      <3>2. CASE i = Len(frames) + 1
        BY <1>2, <2>1, <2>6, <3>2
      <3> QED BY <1>2, <2>1, <3>1, <3>2
    <2>9. Attributed'
      BY <1>0, <1>1, <2>1, <2>3 DEF Attributed
    <2>10. Budget'
      BY <1>0, <1>2, <1>4, <2>1, LoopConstants, BudgetCounts DEF Budget
    <2>11. NoTail'
      BY <1>4, <2>3 DEF NoTail
    <2> QED BY <2>4, <2>5, <2>7, <2>8, <2>9, <2>10, <2>11 DEF LoopInv
  <1> QED BY Zenon, <1>2, <1>3, <1>4 DEF FpRound

(* A report of the next frame outwards keeps the frames in their order.     *)
LEMMA EmitOutward ==
  ASSUME LoopTypes, FramesOutward, UNCHANGED sample, NEW k \in 1..Depth, NEW by, NEW symbol,
         Emitted(k, by, symbol),
         Captured /\ ~Misread' => /\ \A i \in 1..Len(frames) : frames[i].frame < k
                                  /\ by = "dwarf" => k = Len(frames) + 1
  PROVE  FramesOutward'
  <1>1. UNCHANGED <<snap, leaf>>
    BY SameSample
  <1> SUFFICES ASSUME Captured, ~Misread', NEW i \in 1..Len(frames')
               PROVE  /\ i > 1 => frames'[i - 1].frame < frames'[i].frame
                      /\ frames'[i].by = "dwarf" => frames'[i].frame = i
    BY <1>1 DEF FramesOutward, Captured
  <1>2. ~Misread
    BY DEF Emitted
  <1>3. CASE i \in 1..Len(frames)
    <2>1. /\ i > 1 => frames[i - 1].frame < frames[i].frame
          /\ frames[i].by = "dwarf" => frames[i].frame = i
      BY <1>2, <1>3 DEF FramesOutward, Captured
    <2>2. frames'[i] = frames[i] /\ (i > 1 => frames'[i - 1] = frames[i - 1])
      BY <1>3 DEF Emitted
    <2> QED BY <2>1, <2>2
  <1>4. CASE i = Len(frames) + 1
    BY <1>4 DEF Emitted
  <1> QED BY <1>3, <1>4 DEF Emitted

(* A round of the tail ends it or moves to a record further out.            *)
LEMMA TailInv ==
  ASSUME LoopInv, TailRound
  PROVE  LoopInv'
  <1>0. /\ LoopTypes /\ LoopControl /\ Outward /\ FramesOutward /\ Attributed /\ Budget /\ NoTail
        /\ upc = "tail" /\ UNCHANGED sample /\ UNCHANGED <<pc, n, signal>>
        /\ \A i \in 1..Len(frames) : frames[i].by # "fp"
        /\ bp # 0 => stack[bp].fp
    BY DEF LoopInv, LoopControl, TailRound
  <1>1. /\ UNCHANGED <<stack, snap, leaf, verbose>> /\ Depth' = Depth /\ Report' = Report
        /\ Captured' = Captured /\ Complete' = Complete /\ ValidStack(stack)' = ValidStack(stack)
    BY <1>0, SameSample
  <1>2. /\ Depth \in Nat \ {0} /\ pc \in 1..(Depth + 1) /\ bp \in 0..Depth /\ Len(frames) \in Nat
        /\ \A i \in 1..Len(frames) : frames[i].frame \in 1..Depth
    <2>1. \A i \in 1..Len(frames) : frames[i] \in Report
      BY <1>0 DEF LoopTypes
    <2> QED BY <1>0, <2>1 DEF LoopTypes, Report
  <1>3. ~Complete \/ Misread
    BY <1>0 DEF NoTail
  <1>4. CASE append
    <2>0. /\ pc \in 1..Depth /\ stack[pc].kind = "anon"
          /\ append' = FALSE /\ upc' = "tail" /\ bp' = bp
      BY <1>0, <1>2, <1>4 DEF LoopControl, TailRound
    <2> DEFINE symbol == gu_lookup_elf_symbol(pc, FALSE)
    <2>1. Emitted(pc, "pc", symbol) /\ symbol # "wrong"
      <3>1. Emit(pc, FALSE, "pc")
        BY <1>4 DEF TailRound
      <3> QED BY Zenon, <1>0, <2>0, <3>1, EmitFacts, SymbolOf
    <2> HIDE DEF symbol
    <2>2. Misread' <=> Misread
      BY <2>1 DEF Emitted
    <2>3. Captured /\ ~Misread => /\ bp = 0 \/ pc <= bp
                                  /\ \A i \in 1..Len(frames) : frames[i].frame < pc
      BY <1>0, <1>4 DEF Outward
    <2>4. LoopTypes'
      BY Zenon, <1>0, <1>1, <2>0, <2>1 DEF LoopTypes, Emitted
    <2>5. LoopControl'
      BY <1>0, <1>1, <1>2, <2>0, <2>1 DEF LoopControl, Emitted
    <2>6. Outward'
      <3> SUFFICES ASSUME Captured, ~Misread, bp # 0, NEW i \in 1..Len(frames')
                   PROVE  frames'[i].frame <= bp
        BY <1>1, <2>0, <2>2 DEF Outward
      <3>1. CASE i \in 1..Len(frames)
        BY <1>2, <2>0, <2>1, <2>3, <3>1 DEF Emitted
      <3>2. CASE i = Len(frames) + 1
        BY <1>2, <2>1, <2>3, <3>2 DEF Emitted
      <3> QED BY <2>1, <3>1, <3>2 DEF Emitted
    <2>7. FramesOutward'
      BY <1>0, <2>0, <2>1, <2>2, <2>3, EmitOutward
    <2>8. Attributed'
      BY <1>0, <1>1, <1>2, <2>1, <2>2 DEF Attributed, Emitted
    <2>9. Budget'
      BY <1>0, <2>0, <2>1, BudgetCounts DEF Budget, Emitted
    <2>10. NoTail'
      BY <1>1, <1>3, <2>2 DEF NoTail
    <2> QED BY <2>4, <2>5, <2>6, <2>7, <2>8, <2>9, <2>10 DEF LoopInv
  <1>5. CASE ~append /\ append' = FALSE /\ upc' = "done" /\ UNCHANGED <<bp, frames>>
    <2>1. Misread' <=> Misread
      BY <1>5 DEF Misread
    <2>2. LoopTypes' /\ LoopControl'
      BY Zenon, <1>0, <1>1, <1>5 DEF LoopTypes, LoopControl
    <2>3. Outward' /\ FramesOutward' /\ Attributed'
      BY <1>0, <1>1, <1>5, <2>1 DEF Outward, FramesOutward, Attributed
    <2>4. Budget'
      BY <1>0, <1>5 DEF Budget, FrameBudget
    <2>5. NoTail'
      BY <1>1, <1>3, <2>1 DEF NoTail
    <2> QED BY <2>2, <2>3, <2>4, <2>5 DEF LoopInv
  <1>6. CASE /\ ~append /\ append' = FALSE /\ By("tail") < MaxFpLevel /\ bp # 0 /\ BP(bp + 1) # 0
             /\ Emit(bp + 1, TRUE, "tail")
             /\ \/ upc' = "done" /\ UNCHANGED bp
                \/ upc' = "tail" /\ bp' = BP(bp + 1)
    <2>0. /\ bp + 1 \in 1..Depth /\ BP(bp + 1) \in 0..Depth
          /\ bp + 1 <= BP(bp + 1) /\ stack[BP(bp + 1)].fp
      <3>1. bp + 1 \in 1..(Depth + 1)
        BY <1>2
      <3>2. BP(bp + 1) \in 0..Depth /\ bp + 1 <= BP(bp + 1) /\ stack[BP(bp + 1)].fp
        BY <1>2, <1>6, <3>1, BPOutside
      <3> QED BY <1>2, <3>1, <3>2
    <2> DEFINE symbol == gu_lookup_elf_symbol(bp + 1, TRUE)
    <2>1. Emitted(bp + 1, "tail", symbol) /\ symbol # "wrong"
      <3>1. IsReturnAddress(bp + 1)
        <4>1. bp \in 1..Len(stack) /\ stack[bp].fp
          BY <1>0, <1>2, <1>6 DEF Depth
        <4>2. stack[bp].kind # "signal"
          BY Zenon, <1>0, <4>1 DEF LoopTypes, ValidStack
        <4> QED BY <1>2, <1>6, <4>2 DEF IsReturnAddress
      <3>2. symbol # "wrong"
        BY Zenon, <3>1 DEF gu_lookup_elf_symbol
      <3>3. Emitted(bp + 1, "tail", symbol)
        BY Zenon, <1>0, <1>6, <2>0, EmitFacts
      <3> QED BY Zenon, <3>2, <3>3
    <2> HIDE DEF symbol
    <2>2. Misread' <=> Misread
      BY <2>1 DEF Emitted
    <2>3. Captured /\ ~Misread => \A i \in 1..Len(frames) : frames[i].frame < bp + 1
      BY <1>0, <1>2, <1>6 DEF Outward
    <2>4. LoopTypes'
      BY Zenon, <1>0, <1>1, <1>6, <2>0, <2>1 DEF LoopTypes, Emitted
    <2>5. LoopControl'
      BY <1>0, <1>1, <1>2, <1>6, <2>0, <2>1 DEF LoopControl, Emitted
    <2>6. Outward'
      <3> SUFFICES ASSUME Captured, ~Misread, upc' = "tail", NEW i \in 1..Len(frames')
                   PROVE  frames'[i].frame <= bp'
        BY <1>1, <1>6, <2>2 DEF Outward
      <3>1. CASE i \in 1..Len(frames)
        BY <1>2, <1>6, <2>0, <2>1, <2>3, <3>1 DEF Emitted
      <3>2. CASE i = Len(frames) + 1
        BY <1>2, <1>6, <2>0, <2>1, <3>2 DEF Emitted
      <3> QED BY <2>1, <3>1, <3>2 DEF Emitted
    <2>7. FramesOutward'
      BY <1>0, <2>0, <2>1, <2>2, <2>3, EmitOutward
    <2>8. Attributed'
      BY <1>0, <1>1, <1>2, <2>1, <2>2 DEF Attributed, Emitted
    <2>9. Budget'
      <3>1. CountBy(frames, "tail") < MaxFpLevel
        BY <1>6 DEF By, CountBy
      <3> QED BY <1>0, <1>6, <2>1, <3>1, BudgetCounts, LoopConstants DEF Budget, Emitted
    <2>10. NoTail'
      BY <1>1, <1>3, <2>2 DEF NoTail
    <2> QED BY <2>4, <2>5, <2>6, <2>7, <2>8, <2>9, <2>10 DEF LoopInv
  <1>7. CASE ~append
    <2>1. append = FALSE
      BY <1>0, <1>7 DEF LoopTypes
    <2> QED BY Zenon, <1>0, <1>5, <1>6, <1>7, <2>1 DEF TailRound
  <1> QED BY <1>4, <1>7

(* Where a round of the CFI loop leads after a report: it stops where it    *)
(* is, or it moves to a caller, stops there or goes on.                     *)
LEMMA UnwindOutcome ==
  ASSUME LoopTypes, pc \in 1..Depth, Unwind(pc)
  PROVE  \/ /\ UNCHANGED <<pc, bp, signal>> /\ upc' = "tail"
            /\ Callers(pc) \notin {{pc}, {pc + 1}}
         \/ /\ pc' \in Callers(pc) /\ pc' \in 1..(Depth + 1) /\ bp' = BP(pc')
            /\ signal' = (stack[pc].kind = "signal")
            /\ \/ pc' > Depth /\ upc' = "done" /\ reason' = "END_OF_STACK"
               \/ pc' <= Depth /\ (Stuck(pc, pc') \/ Misled(pc)) /\ upc' = "tail"
               \/ pc' <= Depth /\ ~Stuck(pc, pc') /\ upc' = upc
  <1>1. CASE /\ Callers(pc) \notin {{pc}, {pc + 1}}
             /\ Break(IF Callers(pc) = {} THEN "STACK_READ_OUT_OF_RANGE"
                                          ELSE "CFI_FRAME_DECODE_FAILED")
             /\ UNCHANGED <<pc, bp, signal>>
    BY <1>1 DEF Break
  <1>2. CASE \E next \in Callers(pc) :
               /\ pc' = next /\ bp' = BP(next) /\ signal' = (stack[pc].kind = "signal")
               /\ IF next > Depth THEN Break("END_OF_STACK")
                  ELSE \/ (Stuck(pc, next) \/ Misled(pc)) /\ Break("NO_PROGRESS")
                       \/ ~Stuck(pc, next) /\ UNCHANGED upc
    <2>1. Callers(pc) \subseteq 1..(Depth + 1)
      <3> HIDE DEF Misled
      <3> QED BY DEF Callers, LoopTypes
    <2>2. PICK next \in Callers(pc) :
               /\ pc' = next /\ bp' = BP(next) /\ signal' = (stack[pc].kind = "signal")
               /\ IF next > Depth THEN Break("END_OF_STACK")
                  ELSE \/ (Stuck(pc, next) \/ Misled(pc)) /\ Break("NO_PROGRESS")
                       \/ ~Stuck(pc, next) /\ UNCHANGED upc
      BY <1>2
    <2>3. next \in 1..(Depth + 1) /\ (next > Depth \/ next <= Depth)
      BY <2>1, <2>2 DEF LoopTypes
    <2> HIDE DEF Callers, Stuck, Misled, BP, Depth
    <2> QED BY <2>2, <2>3 DEF Break
  <1> QED BY <1>1, <1>2 DEF Unwind

(* A frame whose lookup was right and whose return address the sample holds *)
(* leads to its caller; the register that stands in for a missing return    *)
(* address does not get the loop past its guard.                            *)
LEMMA CallerFound ==
  ASSUME LoopTypes, Captured, NEW k \in 1..Depth, k = n + 1,
         ~Misled(k), NEW next \in Callers(k)
  PROVE  /\ next = k + 1 \/ (next = k /\ Stuck(k, next))
         /\ k <= snap => next = k + 1
  <1>1. Depth \in Nat /\ snap \in 0..Depth /\ n \in Nat
    BY DEF LoopTypes
  <1>2. CASE (leaf /\ k = 1) \/ k <= snap
    BY <1>2 DEF Callers
  <1>3. CASE ~((leaf /\ k = 1) \/ k <= snap)
    <2>1. next = k
      BY <1>3 DEF Callers
    <2>2. n # 0
      BY <1>1, <1>3 DEF Captured
    <2>3. SamePc(k, k)
      BY DEF SamePc
    <2> QED BY <1>3, <2>1, <2>2, <2>3 DEF Stuck
  <1> QED BY <1>2, <1>3

(* A round of the CFI loop ends it, or goes on at the caller.               *)
LEMMA DwarfInv ==
  ASSUME LoopInv, DwarfRound
  PROVE  LoopInv'
  <1>0. /\ LoopTypes /\ LoopControl /\ Outward /\ FramesOutward /\ Attributed /\ Budget /\ NoTail
        /\ upc = "dwarf" /\ n < MaxLevel /\ n' = n + 1 /\ UNCHANGED sample
        /\ bp = BP(pc) /\ ~append /\ pc <= Depth
        /\ \A i \in 1..Len(frames) : frames[i].by = "dwarf"
    BY DEF LoopInv, LoopControl, DwarfRound
  <1>1. /\ UNCHANGED <<stack, snap, leaf, verbose>> /\ Depth' = Depth /\ Report' = Report
        /\ Captured' = Captured /\ Complete' = Complete /\ ValidStack(stack)' = ValidStack(stack)
        /\ \A k : BP(k)' = BP(k)
    BY <1>0, SameSample
  <1>2. /\ Depth \in Nat \ {0} /\ pc \in 1..Depth /\ bp \in 0..Depth /\ Len(frames) \in Nat
        /\ n \in Nat /\ snap \in 0..Depth
        /\ \A i \in 1..Len(frames) : frames[i].frame \in 1..Depth
    <2>1. \A i \in 1..Len(frames) : frames[i] \in Report
      BY <1>0 DEF LoopTypes
    <2> QED BY <1>0, <2>1 DEF LoopTypes, Report
  <1>3. bp # 0 => pc <= bp /\ stack[bp].fp
    BY <1>0, <1>2, BPOutside
  <1>4. append = FALSE
    BY <1>0 DEF LoopTypes
  <1>5. ASSUME Captured, ~Misread
        PROVE  /\ pc = n + 1 /\ Len(frames) = n
               /\ signal <=> (n > 0 /\ stack[n].kind = "signal")
               /\ \A i \in 1..Len(frames) : frames[i].frame < pc
    <2>1. pc = n + 1 /\ Len(frames) = n /\ (signal <=> (n > 0 /\ stack[n].kind = "signal"))
      BY <1>0, <1>5 DEF Outward
    <2>2. \A i \in 1..Len(frames) : frames[i].frame = i
      BY <1>0, <1>5 DEF FramesOutward, Captured
    <2> QED BY <1>2, <2>1, <2>2
  <1>6. Complete => Captured
    BY <1>2 DEF Complete, Captured
  <1>7. CASE /\ stack[pc].kind \in {"unmapped", "anon"} /\ upc' \in {"tail", "done"}
             /\ append' = (stack[pc].kind = "anon") /\ UNCHANGED <<pc, bp, signal, frames>>
    <2>1. Misread' <=> Misread
      BY <1>7 DEF Misread
    <2>2. LoopTypes'
      BY <1>0, <1>1, <1>7 DEF LoopTypes
    <2>3. LoopControl'
      BY Zenon, <1>0, <1>1, <1>3, <1>7 DEF LoopControl
    <2>4. Outward'
      BY <1>1, <1>2, <1>3, <1>5, <1>7, <2>1 DEF Outward
    <2>5. FramesOutward' /\ Attributed'
      BY <1>0, <1>1, <1>7, <2>1 DEF FramesOutward, Attributed
    <2>6. Budget'
      BY <1>0, <1>7 DEF Budget, FrameBudget
    <2>7. NoTail'
      <3>1. ~Complete
        BY <1>2, <1>7 DEF Complete
      <3> QED BY <1>1, <3>1 DEF NoTail
    <2> QED BY <2>2, <2>3, <2>4, <2>5, <2>6, <2>7 DEF LoopInv
  <1>8. CASE /\ stack[pc].kind \in {"bottom", "no_cfi", "cfi", "signal"}
             /\ Emit(pc, ~(initial_frame \/ signal), "dwarf")
             /\ \/ stack[pc].kind = "bottom" /\ Break("END_OF_STACK") /\ UNCHANGED <<pc, bp, signal>>
                \/ stack[pc].kind = "no_cfi" /\ Break("NO_CFI") /\ UNCHANGED <<pc, bp, signal>>
                \/ stack[pc].kind \in {"cfi", "signal"} /\ Unwind(pc)
             /\ UNCHANGED append
    <2> DEFINE symbol == gu_lookup_elf_symbol(pc, ~(initial_frame \/ signal))
    <2>1. Emitted(pc, "dwarf", symbol)
      <3>1. (~(initial_frame \/ signal)) \in BOOLEAN
        OBVIOUS
      <3>2. Emit(pc, ~(initial_frame \/ signal), "dwarf")
        BY <1>8
      <3> HIDE DEF initial_frame
      <3> QED BY Zenon, <1>0, <1>2, <3>1, <3>2, EmitFacts
    <2>2. Misread' <=> Misread \/ symbol = "wrong"
      BY <2>1 DEF Emitted
    <2>3. \A i \in 1..Len(frames') : frames'[i].by = "dwarf"
      BY <1>0, <1>2, <2>1 DEF Emitted
    <2>4. Captured /\ ~Misread' => \A i \in 1..Len(frames') : frames'[i].frame <= pc
      <3> SUFFICES ASSUME Captured, ~Misread', NEW i \in 1..Len(frames')
                   PROVE  frames'[i].frame <= pc
        OBVIOUS
      <3>1. \A j \in 1..Len(frames) : frames[j].frame < pc
        BY <1>5, <2>2
      <3>2. CASE i \in 1..Len(frames)
        BY <1>2, <2>1, <3>1, <3>2 DEF Emitted
      <3>3. CASE i = Len(frames) + 1
        BY <1>2, <2>1, <3>3 DEF Emitted
      <3> QED BY <2>1, <3>2, <3>3 DEF Emitted
    <2>5. FramesOutward'
      <3>1. Captured /\ ~Misread' => /\ \A i \in 1..Len(frames) : frames[i].frame < pc
                                     /\ "dwarf" = "dwarf" => pc = Len(frames) + 1
        BY <1>5, <2>2
      <3> HIDE DEF symbol
      <3> QED BY <1>0, <1>2, <2>1, <3>1, EmitOutward
    <2>6. Attributed'
      <3>1. ASSUME Captured, verbose PROVE ~Misread'
        <4>1. ~Misread
          BY <1>0, <3>1 DEF Attributed
        <4>2. initial_frame <=> n = 0
          BY <3>1 DEF initial_frame
        <4>3. ~(initial_frame \/ signal) <=> IsReturnAddress(pc)
          BY <1>2, <1>5, <3>1, <4>1, <4>2 DEF IsReturnAddress
        <4>4. symbol # "wrong"
          BY <4>3 DEF gu_lookup_elf_symbol, initial_frame, IsReturnAddress
        <4> QED BY <2>2, <4>1, <4>4
      <3> QED BY <1>1, <2>3, <3>1 DEF Attributed
    <2> HIDE DEF symbol
    <2>a. /\ stack' \in Seq(Frame) /\ Depth' \in Nat \ {0} /\ ValidStack(stack)'
          /\ snap' \in 0..Depth' /\ leaf' \in BOOLEAN /\ verbose' \in BOOLEAN
      BY Zenon, <1>0, <1>1 DEF LoopTypes
    <2>b. append' = FALSE /\ frames' \in Seq(Report') /\ n' \in Nat
      <3>1. UNCHANGED append
        BY Zenon, <1>8
      <3> QED BY <1>0, <1>1, <1>2, <1>4, <2>1, <3>1 DEF Emitted
    <2>7. FrameBudget' /\ CountBy(frames', "dwarf") <= n' /\ CountBy(frames', "tail") = 0
      <3>1. /\ CountBy(frames, "dwarf") \in Nat /\ CountBy(frames', "tail") = CountBy(frames, "tail")
            /\ CountBy(frames', "fp") = CountBy(frames, "fp")
            /\ CountBy(frames', "dwarf") = CountBy(frames, "dwarf") + 1
        BY <2>1 DEF Emitted
      <3>2. FrameBudget /\ CountBy(frames, "dwarf") <= n /\ CountBy(frames, "tail") = 0
        BY <1>0 DEF Budget
      <3> QED BY <1>0, <1>2, <3>1, <3>2, BudgetCounts, LoopConstants
    <2>8. ASSUME UNCHANGED <<pc, bp, signal>>, upc' \in {"tail", "done"},
                 Complete /\ ~Misread' =>
                   upc' = "done" /\ Len(frames') = Depth /\ reason' = "END_OF_STACK"
          PROVE  LoopInv'
      <3>1. LoopTypes'
        BY Zenon, <1>0, <1>1, <1>2, <2>a, <2>b, <2>8 DEF LoopTypes
      <3>2. LoopControl'
        BY <1>1, <1>3, <1>4, <1>8, <2>3, <2>8 DEF LoopControl
      <3>3. Outward'
        <4> SUFFICES ASSUME Captured, ~Misread', bp # 0, NEW i \in 1..Len(frames')
                     PROVE  frames'[i].frame <= bp
          BY Zenon, <1>1, <1>4, <1>8, <2>8 DEF Outward
        <4>1. frames'[i].frame <= pc /\ frames'[i].frame \in 1..Depth
          <5>1. frames'[i] \in Report
            BY <2>1 DEF Emitted
          <5> QED BY <2>4, <5>1 DEF Report
        <4> QED BY <1>2, <1>3, <4>1
      <3>4. Budget'
        BY <2>7, <2>8 DEF Budget
      <3>5. NoTail'
        BY <1>1, <2>8 DEF NoTail
      <3> QED BY <2>5, <2>6, <3>1, <3>2, <3>3, <3>4, <3>5 DEF LoopInv
    <2>9. CASE stack[pc].kind = "bottom" /\ Break("END_OF_STACK") /\ UNCHANGED <<pc, bp, signal>>
      <3>1. upc' = "done" /\ reason' = "END_OF_STACK"
        BY <2>9 DEF Break
      <3>2. pc = Depth
        BY Zenon, <1>0, <1>2, <2>9 DEF LoopTypes, ValidStack, Depth
      <3>3. Captured /\ ~Misread' => Len(frames') = Depth
        BY <1>5, <2>1, <2>2, <3>2 DEF Emitted
      <3> QED BY <1>6, <2>8, <2>9, <3>1, <3>3
    <2>10. CASE stack[pc].kind = "no_cfi" /\ Break("NO_CFI") /\ UNCHANGED <<pc, bp, signal>>
      <3>1. upc' = "tail" /\ ~Complete
        BY <1>2, <2>10 DEF Break, Complete
      <3> QED BY <2>8, <2>10, <3>1
    <2>11. CASE /\ UNCHANGED <<pc, bp, signal>> /\ upc' = "tail"
                /\ Callers(pc) \notin {{pc}, {pc + 1}}
      <3>1. ~(Complete /\ ~Misread')
        BY <1>2, <2>2, <2>11 DEF Callers, Complete, Misled, symbol
      <3> QED BY <2>8, <2>11, <3>1
    <2>12. CASE /\ pc' \in Callers(pc) /\ pc' \in 1..(Depth + 1) /\ bp' = BP(pc')
                /\ signal' = (stack[pc].kind = "signal")
                /\ \/ pc' > Depth /\ upc' = "done" /\ reason' = "END_OF_STACK"
                   \/ pc' <= Depth /\ (Stuck(pc, pc') \/ Misled(pc)) /\ upc' = "tail"
                   \/ pc' <= Depth /\ ~Stuck(pc, pc') /\ upc' = upc
      <3>1. BP(pc') \in 0..Depth /\ (BP(pc') # 0 => pc' <= BP(pc') /\ stack[BP(pc')].fp)
        BY <1>2, <2>12, BPOutside
      <3>2. ASSUME Captured, ~Misread'
            PROVE  /\ pc' = pc + 1 \/ (pc' = pc /\ Stuck(pc, pc'))
                   /\ pc <= snap => pc' = pc + 1
                   /\ pc = n + 1 /\ Len(frames') = n + 1
        <4>1. symbol # "wrong" /\ ~Misread
          BY <2>2, <3>2
        <4>2. pc = n + 1 /\ Len(frames') = n + 1
          BY <1>5, <2>1, <3>2, <4>1 DEF Emitted
        <4>3. ~Misled(pc)
          BY <4>1 DEF Misled, symbol
        <4> HIDE DEF Callers, Stuck, Misled, initial_frame
        <4> QED BY <1>0, <1>2, <2>12, <3>2, <4>2, <4>3, CallerFound
      <3>3. LoopTypes'
        <4> HIDE DEF Callers, Stuck, Misled, initial_frame
        <4> QED BY Zenon, <1>0, <1>1, <1>2, <2>a, <2>b, <2>12, <3>1 DEF LoopTypes
      <3>4. LoopControl'
        <4> HIDE DEF Callers, Stuck, Misled, initial_frame
        <4> QED BY <1>0, <1>1, <1>2, <2>b, <2>3, <2>12, <3>1, LoopConstants DEF LoopControl
      <3>5. Outward'
        <4> SUFFICES ASSUME Captured, ~Misread'
                     PROVE  /\ upc' = "dwarf" =>
                                 /\ pc' = n' + 1 /\ Len(frames') = n'
                                 /\ signal' <=> (n' > 0 /\ stack[n'].kind = "signal")
                            /\ upc' = "tail" => \/ bp' = 0
                                                \/ \A i \in 1..Len(frames') : frames'[i].frame <= bp'
          BY Zenon, <1>0, <1>1, <1>4, <1>8, <2>12 DEF Outward
        <4>1. upc' = "dwarf" => /\ pc' = n' + 1 /\ Len(frames') = n'
                                /\ signal' <=> (n' > 0 /\ stack[n'].kind = "signal")
          <5>1. upc' = "dwarf" => pc' = n' + 1 /\ Len(frames') = n'
            BY Zenon, <1>0, <1>2, <2>12, <3>2
          <5>2. n' = pc /\ n' > 0
            BY <1>0, <1>2, <3>2
          <5>3. signal' <=> stack[n'].kind = "signal"
            BY Zenon, <2>12, <5>2
          <5> QED BY <5>1, <5>2, <5>3
        <4>2. ASSUME bp' # 0, NEW i \in 1..Len(frames') PROVE frames'[i].frame <= bp'
          <5>1. frames'[i].frame <= pc /\ frames'[i].frame \in 1..Depth
            <6>1. frames'[i] \in Report
              BY <2>1 DEF Emitted
            <6> QED BY <2>4, <6>1 DEF Report
          <5>2. pc <= bp' /\ bp' \in Nat
            BY <1>2, <2>12, <3>1, <3>2, <4>2
          <5> QED BY <1>2, <5>1, <5>2
        <4> QED BY <4>1, <4>2
      <3>6. Budget'
        BY <1>0, <2>7, <2>12 DEF Budget
      <3>7. NoTail'
        <4> SUFFICES ASSUME Complete, ~Misread'
                     PROVE  /\ upc' # "tail"
                            /\ upc' = "done" => Len(frames') = Depth /\ reason' = "END_OF_STACK"
          BY <1>1 DEF NoTail
        <4>1. pc' = pc + 1 /\ pc = n + 1 /\ Len(frames') = n + 1
          BY <1>2, <1>6, <3>2 DEF Complete
        <4>2. pc' <= Depth => ~Stuck(pc, pc')
          BY <1>2, <4>1 DEF Complete, Stuck, SamePc
        <4>3. ~Misled(pc)
          BY <2>2 DEF Misled, symbol
        <4> HIDE DEF Callers, Stuck, Misled
        <4> QED BY <1>0, <1>2, <2>12, <4>1, <4>2, <4>3
      <3> QED BY <2>5, <2>6, <3>3, <3>4, <3>5, <3>6, <3>7 DEF LoopInv
    <2>13. CASE stack[pc].kind \in {"cfi", "signal"} /\ Unwind(pc)
      <3> HIDE DEF Callers, Stuck, Misled, BP, Unwind
      <3> QED BY <1>0, <1>2, <2>11, <2>12, <2>13, UnwindOutcome
    <2> QED BY <1>8, <2>9, <2>10, <2>13
  <1> QED BY Zenon, <1>0, <1>4, <1>7, <1>8 DEF DwarfRound, Break

(* LoopInv holds in every state.                                            *)
LEMMA LoopInvAlways == Spec => []LoopInv
  <1>1. LoopInv /\ [Next]_vars => LoopInv'
    <2> SUFFICES ASSUME LoopInv, [Next]_vars PROVE LoopInv'
      OBVIOUS
    <2>1. CASE Next
      BY <2>1, StartInv, DwarfInv, ExhaustedInv, TailInv, FpInv DEF Next
    <2>2. CASE UNCHANGED vars
      <3>1. UNCHANGED sample /\ UNCHANGED <<allow_unknown, upc, pc, bp, n, signal, append, reason, frames>>
        BY <2>2 DEF vars
      <3>2. /\ UNCHANGED <<stack, snap, leaf, verbose>> /\ Depth' = Depth /\ Report' = Report
            /\ Captured' = Captured /\ Complete' = Complete
            /\ ValidStack(stack)' = ValidStack(stack) /\ \A k : BP(k)' = BP(k)
        BY <3>1, SameSample
      <3>3. Misread' <=> Misread
        BY <3>1 DEF Misread
      <3>4. LoopTypes' /\ LoopControl'
        BY <3>1, <3>2 DEF LoopInv, LoopTypes, LoopControl
      <3>5. Outward' /\ FramesOutward' /\ Attributed' /\ NoTail'
        BY Zenon, <3>1, <3>2, <3>3 DEF LoopInv, Outward, FramesOutward, Attributed, NoTail
      <3>6. Budget'
        BY Zenon, <3>1 DEF LoopInv, Budget, FrameBudget
      <3> QED BY <3>4, <3>5, <3>6 DEF LoopInv
    <2> QED BY <2>1, <2>2
  <1> QED BY <1>1, LoopInit, PTL DEF Spec

-----------------------------------------------------------------------------
(* FramesOutward, for every stack and all limits: once the first return     *)
(* address is at hand and no PC is looked up in the wrong function, frames  *)
(* are reported innermost first and none twice, across the hand-over from   *)
(* CFI to the frame pointers.                                               *)
THEOREM FramesAreOutward == Spec => []FramesOutward
  <1>1. LoopInv => FramesOutward
    BY DEF LoopInv
  <1> QED BY <1>1, LoopInvAlways, PTL

(* CallerAttributed, for every stack and all limits: a call that is the     *)
(* last instruction of its function is attributed to it by the tail, and by *)
(* the CFI loop when it logs verbosely.                                     *)
THEOREM CallersAreAttributed == Spec => []CallerAttributed
  <1>1. LoopInv => CallerAttributed
    <2> SUFFICES ASSUME LoopInv, Captured, verbose \/ ~Misread,
                        NEW i \in 1..Len(frames), frames[i].by # "fp"
                 PROVE  frames[i].symbol # "wrong"
      BY DEF CallerAttributed, Captured
    <2>1. Attributed /\ ~Misread
      BY DEF LoopInv, Attributed
    <2>2. frames[i].by \in {"dwarf", "pc", "tail", "fp"}
      <3>1. frames[i] \in Report
        BY DEF LoopInv, LoopTypes
      <3> QED BY <3>1 DEF Report
    <2> QED BY <2>1, <2>2 DEF Attributed, Misread
  <1> QED BY <1>1, LoopInvAlways, PTL

(* CompleteUnwind, for every stack and all limits: what CFI covers and the  *)
(* snapshot holds is reported to the bottom.                                *)
THEOREM UnwindIsComplete == Spec => []CompleteUnwind
  <1>1. LoopInv => CompleteUnwind
    <2> SUFFICES ASSUME LoopInv, upc = "done", frames # <<>>, frames[1].by = "dwarf",
                        Complete, ~Misread
                 PROVE  Len(frames) = Depth /\ reason = "END_OF_STACK"
      BY DEF CompleteUnwind, Complete
    <2>1. 1 \in 1..Len(frames)
      BY DEF LoopInv, LoopTypes
    <2> QED BY <2>1 DEF LoopInv, NoTail
  <1> QED BY <1>1, LoopInvAlways, PTL

(* FrameBudget, for every stack and all limits: the callback runs at most   *)
(* as often as the limits of the loops allow.                               *)
THEOREM FramesAreBounded == Spec => []FrameBudget
  <1>1. LoopInv => FrameBudget
    BY DEF LoopInv, Budget
  <1> QED BY <1>1, LoopInvAlways, PTL

-----------------------------------------------------------------------------
(* What RepeatsCut rests on: the CFI loop goes on only from a PC other than *)
(* the one it has reported last, the innermost one left aside.              *)
Moving == upc = "dwarf" => /\ Len(frames) = n
                           /\ n >= 2 => ~SamePc(frames[n].frame, pc)

(* A report keeps RepeatsCut if it is not the CFI loop's, or if its PC is   *)
(* not that of the report before it.                                        *)
LEMMA EmitRepeats ==
  ASSUME LoopTypes, RepeatsCut, UNCHANGED stack, NEW k, NEW by, NEW symbol, Emitted(k, by, symbol),
         (by = "dwarf" /\ Len(frames) >= 2) => ~SamePc(frames[Len(frames)].frame, k)
  PROVE  RepeatsCut'
  <1> SUFFICES ASSUME NEW i \in 2..(Len(frames') - 1),
                      frames'[i].by = "dwarf", frames'[i + 1].by = "dwarf"
               PROVE  ~SamePc(frames'[i].frame, frames'[i + 1].frame)
    BY Zenon DEF RepeatsCut, SamePc, Depth
  <1>2. Len(frames) \in Nat /\ Len(frames') = Len(frames) + 1
    BY DEF Emitted
  <1>3. CASE i \in 2..(Len(frames) - 1)
    <2>1. i \in 1..Len(frames) /\ i + 1 \in 1..Len(frames)
      BY <1>2, <1>3
    <2>2. frames'[i] = frames[i] /\ frames'[i + 1] = frames[i + 1]
      BY Zenon, <2>1 DEF Emitted
    <2> QED BY Zenon, <1>3, <2>2 DEF RepeatsCut
  <1>4. CASE i = Len(frames)
    <2>1. i \in 1..Len(frames) /\ Len(frames) >= 2
      BY <1>2, <1>4
    <2>2. frames'[i] = frames[i] /\ frames'[i + 1].frame = k /\ by = "dwarf"
      BY Zenon, <1>4, <2>1 DEF Emitted
    <2> QED BY Zenon, <1>4, <2>1, <2>2
  <1> QED BY <1>2, <1>3, <1>4

(* The CFI loop keeps RepeatsCut and Moving.                                *)
LEMMA DwarfRepeats ==
  ASSUME LoopInv, RepeatsCut, Moving, DwarfRound
  PROVE  RepeatsCut' /\ Moving'
  <1>0. /\ LoopTypes /\ UNCHANGED stack /\ upc = "dwarf" /\ n' = n + 1 /\ n \in Nat
        /\ pc \in 1..Depth /\ Len(frames) = n
        /\ n >= 2 => ~SamePc(frames[n].frame, pc)
    BY DEF LoopInv, LoopTypes, LoopControl, DwarfRound, sample, Moving
  <1>1. CASE UNCHANGED frames /\ upc' # "dwarf"
    BY <1>0, <1>1 DEF RepeatsCut, Moving, SamePc, Depth
  <1>2. CASE /\ Emit(pc, ~(initial_frame \/ signal), "dwarf")
             /\ upc' # "dwarf" \/ Unwind(pc)
    <2> DEFINE symbol == gu_lookup_elf_symbol(pc, ~(initial_frame \/ signal))
    <2>1. Emitted(pc, "dwarf", symbol)
      <3>1. (~(initial_frame \/ signal)) \in BOOLEAN
        OBVIOUS
      <3> HIDE DEF initial_frame
      <3> QED BY Zenon, <1>0, <1>2, <3>1, EmitFacts
    <2> HIDE DEF symbol
    <2>2. RepeatsCut'
      BY Zenon, <1>0, <2>1, EmitRepeats
    <2>3. Len(frames') = n' /\ frames'[n'].frame = pc
      BY <1>0, <2>1 DEF Emitted
    <2>4. ASSUME upc' = "dwarf", n' >= 2 PROVE ~SamePc(pc, pc')
      <3>1. ~Stuck(pc, pc')
        <4> HIDE DEF Callers, Stuck, Misled, BP, Unwind
        <4> QED BY Zenon, <1>0, <1>2, <2>4, UnwindOutcome
      <3> QED BY <1>0, <2>4, <3>1 DEF Stuck
    <2>5. \A x, y : SamePc(x, y)' <=> SamePc(x, y)
      BY <1>0 DEF SamePc, Depth
    <2> QED BY Zenon, <2>2, <2>3, <2>4, <2>5 DEF Moving
  <1> QED BY Zenon, <1>1, <1>2 DEF DwarfRound, Break

(* RepeatsCut, for every stack and all limits: whatever CFI the loop meets, *)
(* it reports no PC twice in a row beyond the innermost frame.              *)
THEOREM RepeatsAreCut == Spec => []RepeatsCut
  <1>1. Init => RepeatsCut /\ Moving
    <2> SUFFICES ASSUME Init PROVE RepeatsCut /\ Moving
      OBVIOUS
    <2>1. frames = <<>> /\ upc # "dwarf"
      BY DEF Init
    <2> QED BY <2>1 DEF RepeatsCut, Moving
  <1>2. LoopInv /\ RepeatsCut /\ Moving /\ [Next]_vars => RepeatsCut' /\ Moving'
    <2> SUFFICES ASSUME LoopInv, RepeatsCut, Moving, [Next]_vars
                 PROVE  RepeatsCut' /\ Moving'
      OBVIOUS
    <2>0. LoopTypes /\ LoopControl
      BY DEF LoopInv
    <2>1. CASE gu_unwind
      <3>1. Len(frames') = 0 /\ n' = 0
        BY <2>0, <2>1 DEF LoopControl, gu_unwind
      <3> QED BY <3>1 DEF RepeatsCut, Moving
    <2>2. CASE DwarfRound
      BY Zenon, <2>2, DwarfRepeats
    <2>3. CASE UNCHANGED <<stack, frames>> /\ (upc' # "dwarf" \/ UNCHANGED <<upc, n, pc>>)
      BY <2>3 DEF RepeatsCut, Moving, SamePc, Depth
    <2>4. CASE TailRound
      <3>1. UNCHANGED stack /\ upc' # "dwarf"
        BY <2>4 DEF TailRound, sample
      <3>2. CASE UNCHANGED frames
        BY Zenon, <2>3, <3>1, <3>2
      <3>3. CASE append /\ Emit(pc, FALSE, "pc")
        <4>1. pc \in 1..Depth
          BY <2>0, <2>4, <3>3 DEF LoopTypes, LoopControl, TailRound
        <4>2. Emitted(pc, "pc", gu_lookup_elf_symbol(pc, FALSE))
          BY Zenon, <2>0, <3>3, <4>1, EmitFacts
        <4> QED BY Zenon, <2>0, <3>1, <4>2, EmitRepeats DEF Moving
      <3>4. CASE bp # 0 /\ bp <= snap /\ BP(bp + 1) # 0 /\ Emit(bp + 1, TRUE, "tail")
        <4>1. bp + 1 \in 1..Depth
          <5>1. bp + 1 \in 1..(Depth + 1) /\ Depth \in Nat
            BY <2>0 DEF LoopTypes
          <5>2. BP(bp + 1) \in 0..Depth /\ bp + 1 <= BP(bp + 1)
            BY <3>4, <5>1, BPOutside
          <5> QED BY <5>1, <5>2
        <4>2. Emitted(bp + 1, "tail", gu_lookup_elf_symbol(bp + 1, TRUE))
          BY Zenon, <2>0, <3>4, <4>1, EmitFacts
        <4> QED BY Zenon, <2>0, <3>1, <4>2, EmitRepeats DEF Moving
      <3> QED BY Zenon, <2>4, <3>2, <3>3, <3>4 DEF TailRound
    <2>5. CASE FpRound
      <3>1. UNCHANGED stack /\ upc' # "dwarf"
        BY <2>5 DEF FpRound, sample
      <3>2. CASE UNCHANGED frames
        BY Zenon, <2>3, <3>1, <3>2
      <3>3. CASE pc <= Depth /\ Emit(pc, FALSE, "fp")
        <4>1. pc \in 1..Depth
          BY <2>0, <3>3 DEF LoopTypes
        <4>2. Emitted(pc, "fp", gu_lookup_elf_symbol(pc, FALSE))
          BY Zenon, <2>0, <3>3, <4>1, EmitFacts
        <4> QED BY Zenon, <2>0, <3>1, <4>2, EmitRepeats DEF Moving
      <3> QED BY Zenon, <2>5, <3>2, <3>3 DEF FpRound
    <2>6. CASE DwarfExhausted \/ UNCHANGED vars
      BY <2>3, <2>6 DEF DwarfExhausted, vars, sample
    <2> QED BY Zenon, <2>1, <2>2, <2>4, <2>5, <2>6 DEF Next
  <1> QED BY <1>1, <1>2, LoopInvAlways, PTL DEF Spec

-----------------------------------------------------------------------------
(* Events: PidCtxEvents.                                                    *)
Event == Thread \X Nat

(* No listener is twice in a table or in a copy of it.                      *)
NoDuplicates(s) == \A i, j \in 1..Len(s) : s[i] = s[j] => i = j

EventTypes ==
  /\ pid_ctx_event_cbs \in Seq(Listener)
  /\ calling \in [Thread -> BOOLEAN]
  /\ cbs \in [Thread -> Seq(Listener)]
  /\ sent \in [Thread -> Nat]
  /\ got \in [Listener -> Seq(Event)]
  /\ due \in [Listener -> SUBSET Event]

(* What the copies keep: the listeners a thread has yet to call are exactly *)
(* those that its running event is due to and that have not got it.         *)
CopiesExact ==
  /\ NoDuplicates(pid_ctx_event_cbs)
  /\ \A t \in Thread : NoDuplicates(cbs[t])
  /\ \A t \in Thread : ~calling[t] => cbs[t] = <<>>
  /\ \A l \in Listener : \A e \in due[l] : e[2] <= sent[e[1]]
  /\ \A t \in Thread : \A l \in Range(cbs[t]) :
       <<t, sent[t]>> \in due[l] /\ <<t, sent[t]>> \notin Range(got[l])
  /\ \A l \in Listener : \A e \in due[l] \ Range(got[l]) :
       calling[e[1]] /\ e[2] = sent[e[1]] /\ l \in Range(cbs[e[1]])

EventInv == EventTypes /\ CopiesExact /\ CalledOncePerEvent

-----------------------------------------------------------------------------
(* The elements of a sequence.                                              *)
LEMMA Elements ==
  ASSUME NEW S, NEW s \in Seq(S)
  PROVE  /\ Range(s) = {s[i] : i \in 1..Len(s)}
         /\ Range(s) \subseteq S
         /\ Len(s) \in Nat
  BY DEF Range

(* Appending an element that was not there adds it and no duplicate.        *)
LEMMA AppendElement ==
  ASSUME NEW S, NEW s \in Seq(S), NEW x \in S
  PROVE  /\ Range(Append(s, x)) = Range(s) \cup {x}
         /\ x \notin Range(s) /\ NoDuplicates(s) => NoDuplicates(Append(s, x))
  <1> DEFINE a == Append(s, x)
  <1>1. /\ a \in Seq(S) /\ Len(a) = Len(s) + 1 /\ a[Len(s) + 1] = x /\ Len(s) \in Nat
        /\ \A i \in 1..Len(s) : a[i] = s[i]
    OBVIOUS
  <1> HIDE DEF a
  <1>2. Range(a) = Range(s) \cup {x}
    <2>1. Range(a) = {a[i] : i \in 1..(Len(s) + 1)} /\ Range(s) = {s[i] : i \in 1..Len(s)}
      BY <1>1, Elements
    <2> QED BY <2>1, <1>1
  <1>3. ASSUME x \notin Range(s), NoDuplicates(s), NEW i \in 1..Len(a), NEW j \in 1..Len(a),
               a[i] = a[j]
        PROVE  i = j
    <2>1. \A k \in 1..Len(s) : s[k] # x
      BY <1>3, Elements
    <2> QED BY <1>1, <1>3, <2>1 DEF NoDuplicates
  <1> QED BY Zenon, <1>2, <1>3 DEF a, NoDuplicates

(* Taking the head off a sequence without duplicates removes that element.  *)
LEMMA TailElements ==
  ASSUME NEW S, NEW s \in Seq(S), s # <<>>, NoDuplicates(s)
  PROVE  /\ Head(s) \in Range(s) /\ Tail(s) \in Seq(S)
         /\ Range(Tail(s)) = Range(s) \ {Head(s)}
         /\ NoDuplicates(Tail(s))
  <1>1. /\ Head(s) = s[1] /\ Tail(s) \in Seq(S) /\ Len(Tail(s)) = Len(s) - 1
        /\ \A i \in 1..Len(Tail(s)) : Tail(s)[i] = s[i + 1]
        /\ Len(s) \in Nat \ {0}
    OBVIOUS
  <1>2. /\ Range(s) = {s[i] : i \in 1..Len(s)}
        /\ Range(Tail(s)) = {Tail(s)[i] : i \in 1..Len(Tail(s))}
    BY Zenon, <1>1, Elements
  <1>3. Head(s) \in Range(s)
    BY <1>1, <1>2
  <1>4. Range(Tail(s)) \subseteq Range(s) \ {Head(s)}
    <2> SUFFICES ASSUME NEW i \in 1..Len(Tail(s))
                 PROVE  Tail(s)[i] \in Range(s) \ {Head(s)}
      BY <1>2
    <2>1. i + 1 \in 1..Len(s) /\ i + 1 # 1 /\ 1 \in 1..Len(s)
      BY <1>1
    <2> QED BY <1>1, <1>2, <2>1 DEF NoDuplicates
  <1>5. Range(s) \ {Head(s)} \subseteq Range(Tail(s))
    <2> SUFFICES ASSUME NEW i \in 1..Len(s), s[i] # s[1]
                 PROVE  s[i] \in Range(Tail(s))
      BY <1>1, <1>2
    <2>1. i - 1 \in 1..Len(Tail(s)) /\ Tail(s)[i - 1] = s[i]
      BY <1>1
    <2> QED BY Zenon, <1>2, <2>1
  <1>6. NoDuplicates(Tail(s))
    <2> SUFFICES ASSUME NEW i \in 1..Len(Tail(s)), NEW j \in 1..Len(Tail(s)),
                        Tail(s)[i] = Tail(s)[j]
                 PROVE  i = j
      BY DEF NoDuplicates
    <2>1. i + 1 \in 1..Len(s) /\ j + 1 \in 1..Len(s) /\ s[i + 1] = s[j + 1]
      BY <1>1
    <2>2. i + 1 = j + 1
      BY <2>1 DEF NoDuplicates
    <2> QED BY <2>2
  <1> QED BY <1>1, <1>3, <1>4, <1>5, <1>6

-----------------------------------------------------------------------------
(* Before any event no listener is registered and nobody was called.        *)
LEMMA EventInit ==
  ASSUME EventsInit
  PROVE  EventInv
  <1>1. EventTypes
    BY DEF EventsInit, EventTypes, Event
  <1>2. Range(<<>>) = {} /\ NoDuplicates(<<>>) /\ Len(<<>>) = 0
    BY DEF Range, NoDuplicates
  <1>3. CopiesExact
    BY <1>2 DEF EventsInit, CopiesExact
  <1>4. CalledOncePerEvent
    BY <1>2 DEF EventsInit, CalledOncePerEvent
  <1> QED BY <1>1, <1>3, <1>4 DEF EventInv

(* A registration only adds to the table, which the copies do not see.      *)
LEMMA RegisterInv ==
  ASSUME EventInv, NEW l \in Listener, gu_register_pid_ctx_event_listener(l)
  PROVE  EventInv'
  <1> USE DEF gu_register_pid_ctx_event_listener
  <1>1. /\ pid_ctx_event_cbs' \in Seq(Listener) /\ NoDuplicates(pid_ctx_event_cbs')
        /\ UNCHANGED <<calling, cbs, sent, got, due>>
    BY AppendElement DEF EventInv, EventTypes, CopiesExact
  <1>2. EventTypes'
    BY <1>1 DEF EventInv, EventTypes
  <1>3. CopiesExact'
    BY Zenon, <1>1 DEF EventInv, CopiesExact
  <1>4. CalledOncePerEvent'
    BY <1>1 DEF EventInv, CalledOncePerEvent
  <1> QED BY <1>2, <1>3, <1>4 DEF EventInv

(* A notification: the new event is due to the listeners of the table, none *)
(* of which has got it, and no other event of the thread is running.        *)
LEMMA NotifyInv ==
  ASSUME EventInv, NEW t \in Thread, pid_ctx_event_notify(t)
  PROVE  EventInv'
  <1> DEFINE new == <<t, sent[t] + 1>>
             table == Range(pid_ctx_event_cbs)
  <1>0. EventTypes /\ CopiesExact /\ CalledOncePerEvent
    BY DEF EventInv
  <1>1. /\ ~calling[t] /\ UNCHANGED <<pid_ctx_event_cbs, got>>
        /\ sent' = [sent EXCEPT ![t] = sent[t] + 1]
        /\ cbs' = [cbs EXCEPT ![t] = pid_ctx_event_cbs]
        /\ calling' = [calling EXCEPT ![t] = TRUE]
        /\ sent'[t] = sent[t] + 1 /\ sent[t] \in Nat
        /\ due' = [l \in Listener |-> IF l \in table THEN due[l] \cup {new} ELSE due[l]]
    BY <1>0 DEF pid_ctx_event_notify, EventTypes
  <1>2. new \in Event /\ new[1] = t /\ new[2] = sent[t] + 1
    BY <1>1 DEF Event
  <1>3. \A l \in Listener : \A e \in due[l] :
          e \in Event /\ e[1] \in Thread /\ e[2] \in Nat /\ e[2] <= sent[e[1]] /\ sent[e[1]] \in Nat
    BY <1>0 DEF EventTypes, CopiesExact, Event
  <1>4. \A l \in Listener : Range(got[l]) \subseteq due[l]
    BY <1>0 DEF CalledOncePerEvent
  <1>5. \A l \in Listener : new \notin due[l]
    BY <1>1, <1>2, <1>3
  <1>6. \A l \in Listener : \A e \in due[l] \ Range(got[l]) : e[1] # t
    <2>1. \A l \in Listener : \A e \in due[l] \ Range(got[l]) : calling[e[1]]
      BY Zenon, <1>0 DEF CopiesExact
    <2> QED BY Zenon, <1>1, <2>1
  <1>7. table \subseteq Listener
    BY <1>0, Elements DEF EventTypes
  <1>8. \A s \in Thread \ {t} : cbs'[s] = cbs[s] /\ sent'[s] = sent[s] /\ calling'[s] = calling[s]
    BY <1>0, <1>1 DEF EventTypes
  <1>9. cbs'[t] = pid_ctx_event_cbs /\ calling'[t] = TRUE
    BY <1>0, <1>1 DEF EventTypes
  <1> HIDE DEF new, table
  <1>10. EventTypes'
    <2>1. due' \in [Listener -> SUBSET Event]
      BY <1>0, <1>1, <1>2 DEF EventTypes
    <2> QED BY <1>0, <1>1, <2>1 DEF EventTypes
  <1>11. \A l \in Listener : \A e \in due'[l] : e \in due[l] \/ (e = new /\ l \in table)
    BY <1>1
  <1>12. \A l \in Listener : due[l] \subseteq due'[l] /\ (l \in table => new \in due'[l])
    BY <1>1
  <1>13. \A l \in Listener : \A e \in due'[l] : e[2] <= sent'[e[1]]
    <2> SUFFICES ASSUME NEW l \in Listener, NEW e \in due'[l] PROVE e[2] <= sent'[e[1]]
      OBVIOUS
    <2>1. CASE e = new
      BY <1>1, <1>2, <2>1
    <2>2. CASE e \in due[l]
      <3>1. e[1] \in Thread /\ e[2] \in Nat /\ e[2] <= sent[e[1]] /\ sent[e[1]] \in Nat
        BY Zenon, <1>3, <2>2
      <3> QED BY <1>1, <1>8, <3>1
    <2> QED BY Zenon, <1>11, <2>1, <2>2
  <1>14. \A s \in Thread : \A l \in Range(cbs'[s]) :
           l \in Listener /\ <<s, sent'[s]>> \in due'[l] /\ <<s, sent'[s]>> \notin Range(got[l])
    <2> SUFFICES ASSUME NEW s \in Thread, NEW l \in Range(cbs'[s])
                 PROVE  /\ l \in Listener /\ <<s, sent'[s]>> \in due'[l]
                        /\ <<s, sent'[s]>> \notin Range(got[l])
      BY ZenonT(30)
    <2>1. CASE s = t
      BY <2>1, <1>1, <1>4, <1>5, <1>7, <1>9, <1>12 DEF new, table
    <2>2. CASE s # t
      <3>1. l \in Range(cbs[s]) /\ sent'[s] = sent[s]
        BY <2>2, <1>8
      <3>2. l \in Listener
        <4>1. cbs[s] \in Seq(Listener)
          BY Zenon, <1>0 DEF EventTypes
        <4> QED BY Zenon, <3>1, <4>1, Elements
      <3> QED BY <3>1, <3>2, <1>0, <1>12 DEF CopiesExact
    <2> QED BY Zenon, <2>1, <2>2
  <1>15. \A l \in Listener : \A e \in due'[l] \ Range(got[l]) :
           calling'[e[1]] /\ e[2] = sent'[e[1]] /\ l \in Range(cbs'[e[1]])
    <2> SUFFICES ASSUME NEW l \in Listener, NEW e \in due'[l] \ Range(got[l])
                 PROVE  calling'[e[1]] /\ e[2] = sent'[e[1]] /\ l \in Range(cbs'[e[1]])
      BY Zenon
    <2>1. CASE e \in due[l]
      <3>1. e[1] \in Thread \ {t}
        BY Zenon, <2>1, <1>3, <1>6
      <3>2. calling[e[1]] /\ e[2] = sent[e[1]] /\ l \in Range(cbs[e[1]])
        BY Zenon, <2>1, <1>0 DEF CopiesExact
      <3> QED BY ZenonT(30), <3>1, <3>2, <1>8
    <2>2. CASE e = new /\ l \in table
      BY <2>2, <1>1, <1>2, <1>9 DEF table
    <2> QED BY <2>1, <2>2, <1>11
  <1>16. CopiesExact'
    <2>1. NoDuplicates(pid_ctx_event_cbs') /\ \A s \in Thread : NoDuplicates(cbs'[s])
      BY ZenonT(30), <1>0, <1>1, <1>8, <1>9 DEF CopiesExact
    <2>2. \A s \in Thread : ~calling'[s] => cbs'[s] = <<>>
      BY Zenon, <1>0, <1>8, <1>9 DEF CopiesExact
    <2> QED BY Zenon, <2>1, <2>2, <1>1, <1>13, <1>14, <1>15 DEF CopiesExact
  <1>17. CalledOncePerEvent'
    BY Zenon, <1>0, <1>1, <1>12, <1>15 DEF CalledOncePerEvent
  <1> QED BY <1>10, <1>16, <1>17 DEF EventInv

(* A callback: its listener gets the running event for the first time, after*)
(* the earlier ones of the thread; the notification ends when all have it.  *)
LEMMA CallbackInv ==
  ASSUME EventInv, NEW t \in Thread, Callback(t)
  PROVE  EventInv'
  <1>0. EventTypes /\ CopiesExact /\ CalledOncePerEvent
    BY DEF EventInv
  <1>1. CASE cbs[t] = <<>>
    <2>1. calling' = [calling EXCEPT ![t] = FALSE] /\ UNCHANGED <<pid_ctx_event_cbs, cbs, sent, got, due>>
      BY <1>1 DEF Callback
    <2>2. EventTypes'
      BY <1>0, <2>1 DEF EventTypes
    <2>3. Range(cbs[t]) = {}
      BY <1>1 DEF Range
    <2>4. \A l \in Listener : \A e \in due[l] \ Range(got[l]) : e[1] \in Thread \ {t}
      <3> SUFFICES ASSUME NEW l \in Listener, NEW e \in due[l] \ Range(got[l]) PROVE e[1] \in Thread \ {t}
        OBVIOUS
      <3>1. e \in Event
        BY Zenon, <1>0 DEF EventTypes
      <3>2. e[1] \in Thread
        BY <3>1 DEF Event
      <3>3. l \in Range(cbs[e[1]])
        BY Zenon, <1>0 DEF CopiesExact
      <3> QED BY <2>3, <3>2, <3>3
    <2>5. \A s \in Thread \ {t} : calling'[s] = calling[s]
      BY <1>0, <2>1 DEF EventTypes
    <2>6. \A s \in Thread : ~calling'[s] => cbs'[s] = <<>>
      BY Zenon, <1>0, <1>1, <2>1, <2>5 DEF CopiesExact
    <2>7. \A l \in Listener : \A e \in due[l] \ Range(got[l]) : calling'[e[1]]
      BY Zenon, <1>0, <2>4, <2>5 DEF CopiesExact
    <2>8. CopiesExact'
      BY Zenon, <1>0, <2>1, <2>6, <2>7 DEF CopiesExact
    <2>9. CalledOncePerEvent'
      BY Zenon, <1>0, <2>1, <2>7 DEF CalledOncePerEvent
    <2> QED BY <2>2, <2>8, <2>9 DEF EventInv
  <1>2. CASE cbs[t] # <<>>
    <2> DEFINE h == Head(cbs[t])
               e0 == <<t, sent[t]>>
    <2>1. /\ got' = [got EXCEPT ![h] = Append(got[h], e0)] /\ cbs' = [cbs EXCEPT ![t] = Tail(cbs[t])]
          /\ UNCHANGED <<pid_ctx_event_cbs, calling, sent, due>> /\ calling[t]
      BY <1>2 DEF Callback
    <2>2. /\ h \in Range(cbs[t]) /\ Tail(cbs[t]) \in Seq(Listener) /\ h \in Listener
          /\ Range(Tail(cbs[t])) = Range(cbs[t]) \ {h} /\ NoDuplicates(Tail(cbs[t]))
      <3>1. cbs[t] \in Seq(Listener) /\ NoDuplicates(cbs[t])
        BY <1>0 DEF EventTypes, CopiesExact
      <3> QED BY <1>2, <3>1, TailElements, Elements
    <2>3. e0 \in Event /\ e0[1] = t /\ e0[2] = sent[t] /\ sent[t] \in Nat
      BY <1>0 DEF EventTypes, Event
    <2>4. e0 \in due[h] /\ e0 \notin Range(got[h])
      BY Zenon, <1>0, <2>2 DEF CopiesExact
    <2> HIDE DEF h, e0
    <2>5. /\ got[h] \in Seq(Event) /\ got'[h] = Append(got[h], e0) /\ got'[h] \in Seq(Event)
          /\ Range(got'[h]) = Range(got[h]) \cup {e0}
          /\ Len(got'[h]) = Len(got[h]) + 1 /\ got'[h][Len(got[h]) + 1] = e0
          /\ \A i \in 1..Len(got[h]) : got'[h][i] = got[h][i]
      <3> DEFINE s == got[h]
      <3>1. s \in Seq(Event) /\ got'[h] = Append(s, e0)
        BY <1>0, <2>1, <2>2 DEF EventTypes
      <3> HIDE DEF s
      <3>2. Range(Append(s, e0)) = Range(s) \cup {e0}
        BY <2>3, <3>1, AppendElement
      <3>3. /\ Append(s, e0) \in Seq(Event) /\ Len(Append(s, e0)) = Len(s) + 1
            /\ Append(s, e0)[Len(s) + 1] = e0 /\ \A i \in 1..Len(s) : Append(s, e0)[i] = s[i]
        BY <2>3, <3>1
      <3> QED BY Zenon, <3>1, <3>2, <3>3 DEF s
    <2>6. \A l \in Listener \ {h} : got'[l] = got[l]
      BY <1>0, <2>1 DEF EventTypes
    <2>7. cbs'[t] = Tail(cbs[t]) /\ \A s \in Thread \ {t} : cbs'[s] = cbs[s]
      BY <1>0, <2>1 DEF EventTypes
    <2>8. EventTypes'
      BY <1>0, <2>1, <2>2, <2>5 DEF EventTypes
    <2>9. \A s \in Thread : \A l \in Range(cbs'[s]) :
            <<s, sent[s]>> \in due[l] /\ <<s, sent[s]>> \notin Range(got'[l])
      <3> SUFFICES ASSUME NEW s \in Thread, NEW l \in Range(cbs'[s])
                   PROVE  <<s, sent[s]>> \in due[l] /\ <<s, sent[s]>> \notin Range(got'[l])
        OBVIOUS
      <3>1. l \in Range(cbs[s]) /\ (s = t => l # h)
        BY <2>2, <2>7
      <3>2. <<s, sent[s]>> \in due[l] /\ <<s, sent[s]>> \notin Range(got[l])
        BY Zenon, <1>0, <3>1 DEF CopiesExact
      <3>a. cbs[s] \in Seq(Listener)
        BY Zenon, <1>0 DEF EventTypes
      <3>b. l \in Listener
        BY Zenon, <3>1, <3>a, Elements
      <3>3. s # t => <<s, sent[s]>> # e0
        BY DEF e0
      <3> QED BY Zenon, <3>1, <3>2, <3>b, <3>3, <2>5, <2>6
    <2>10. \A l \in Listener : \A e \in due[l] \ Range(got'[l]) :
             calling[e[1]] /\ e[2] = sent[e[1]] /\ l \in Range(cbs'[e[1]])
      <3> SUFFICES ASSUME NEW l \in Listener, NEW e \in due[l] \ Range(got'[l])
                   PROVE  calling[e[1]] /\ e[2] = sent[e[1]] /\ l \in Range(cbs'[e[1]])
        OBVIOUS
      <3>0. e \in due[l] \ Range(got[l])
        BY Zenon, <2>5, <2>6
      <3>1. e \in due[l] \ Range(got[l]) /\ e \in Event /\ e[1] \in Thread /\ e = <<e[1], e[2]>>
        BY <1>0, <3>0 DEF EventTypes, Event
      <3>2. calling[e[1]] /\ e[2] = sent[e[1]] /\ l \in Range(cbs[e[1]])
        BY <1>0, <3>1 DEF CopiesExact
      <3>3. e[1] = t => l # h
        BY ZenonT(30), <3>1, <3>2, <2>5 DEF e0
      <3> QED BY <3>1, <3>2, <3>3, <2>2, <2>7
    <2>11. CopiesExact'
      <3>1. \A s \in Thread : NoDuplicates(cbs'[s])
        BY Zenon, <1>0, <2>2, <2>7 DEF CopiesExact
      <3>2. \A s \in Thread : ~calling'[s] => cbs'[s] = <<>>
        BY Zenon, <1>0, <2>1, <2>7 DEF CopiesExact
      <3> QED BY Zenon, <1>0, <2>1, <2>9, <2>10, <3>1, <3>2 DEF CopiesExact
    <2>12. \A l \in Listener : Range(got'[l]) \subseteq due[l]
      <3>1. \A l \in Listener : Range(got[l]) \subseteq due[l]
        BY <1>0 DEF CalledOncePerEvent
      <3>2. Range(got'[h]) \subseteq due[h]
        BY <2>2, <2>4, <2>5, <3>1
      <3> QED BY <2>6, <3>1, <3>2
    <2>13. ASSUME NEW i \in 1..Len(got'[h]), NEW j \in 1..Len(got'[h]), i < j,
                  got'[h][i][1] = got'[h][j][1]
           PROVE  got'[h][i][2] < got'[h][j][2]
      <3>1. Len(got[h]) \in Nat
        BY <2>5
      <3>2. i \in 1..Len(got[h]) /\ got'[h][i] = got[h][i]
        BY <2>5, <2>13, <3>1
      <3>3. CASE j \in 1..Len(got[h])
        <4>1. got'[h][j] = got[h][j]
          BY Zenon, <2>5, <3>3
        <4>2. (i < j /\ got[h][i][1] = got[h][j][1]) => got[h][i][2] < got[h][j][2]
          BY Zenon, <1>0, <2>2, <3>2, <3>3 DEF CalledOncePerEvent
        <4> QED BY Zenon, <2>13, <3>2, <4>1, <4>2
      <3>4. CASE j = Len(got[h]) + 1
        <4>1. got'[h][j] = e0
          BY <2>5, <3>4
        <4>2. got[h][i] \in Range(got[h]) /\ got[h][i] \in Event
          BY <2>5, <3>2, Elements
        <4>3. got[h][i] \in due[h] /\ got[h][i] # e0
          BY <1>0, <2>2, <2>4, <4>2 DEF CalledOncePerEvent
        <4>4. got[h][i][1] = t /\ got[h][i][2] <= sent[t] /\ got[h][i][2] \in Nat
          <5>1. got[h][i][1] = t
            BY Zenon, <2>3, <2>13, <3>2, <4>1
          <5>2. got[h][i][2] <= sent[got[h][i][1]]
            BY Zenon, <1>0, <2>2, <4>3 DEF CopiesExact
          <5>3. got[h][i][2] \in Nat
            BY <4>2 DEF Event
          <5> QED BY Zenon, <5>1, <5>2, <5>3
        <4>5. got[h][i][2] # sent[t]
          BY <4>2, <4>3, <4>4 DEF e0, Event
        <4> QED BY <2>3, <3>2, <4>1, <4>4, <4>5
      <3> QED BY <3>1, <3>3, <3>4, <2>5
    <2>14. CalledOncePerEvent'
      <3>1. \A l \in Listener : \A i, j \in 1..Len(got'[l]) :
              (i < j /\ got'[l][i][1] = got'[l][j][1]) => got'[l][i][2] < got'[l][j][2]
        BY <1>0, <2>6, <2>13 DEF CalledOncePerEvent
      <3> QED BY ZenonT(30), <2>1, <2>10, <2>12, <3>1 DEF CalledOncePerEvent
    <2> QED BY <2>8, <2>11, <2>14 DEF EventInv
  <1> QED BY <1>1, <1>2

-----------------------------------------------------------------------------
(* The invariant is inductive.                                              *)
LEMMA EventInvAlways == EventsSpec => []EventInv
  <1>1. EventsInit => EventInv
    BY EventInit
  <1>2. EventInv /\ [EventsNext]_eventVars => EventInv'
    <2> SUFFICES ASSUME EventInv, [EventsNext]_eventVars PROVE EventInv'
      OBVIOUS
    <2>1. CASE UNCHANGED eventVars
      BY Zenon, <2>1 DEF eventVars, EventInv, EventTypes, CopiesExact, CalledOncePerEvent
    <2> QED BY <2>1, RegisterInv, NotifyInv, CallbackInv DEF EventsNext
  <1> QED BY <1>1, <1>2, PTL DEF EventsSpec

(* A listener gets each event sent while it is registered exactly once and  *)
(* in the order of its thread, however registrations and notifications of   *)
(* any number of threads interleave (pid_ctx_event_notify()).               *)
THEOREM EventsCalledOnce == EventsSpec => []CalledOncePerEvent
  BY EventInvAlways, PTL DEF EventInv

(* gu_register_pid_ctx_event_listener() overwrites no slot and stays within *)
(* GU_PID_CTX_EVENT_LISTENER_MAX of them.                                   *)
THEOREM RegistrationsAreKept == EventsSpec => RegistrationsKept
  <1> DEFINE Bounded == Len(pid_ctx_event_cbs) <= ListenerMax
  <1>1. EventsInit => Bounded
    BY EventConstants DEF EventsInit
  <1>2. ASSUME EventInv, Bounded, [EventsNext]_eventVars
        PROVE  /\ Bounded'
               /\ SubSeq(pid_ctx_event_cbs', 1, Len(pid_ctx_event_cbs)) = pid_ctx_event_cbs
    <2>1. pid_ctx_event_cbs \in Seq(Listener) /\ Len(pid_ctx_event_cbs) \in Nat
      BY <1>2 DEF EventInv, EventTypes
    <2>2. CASE UNCHANGED pid_ctx_event_cbs
      BY <1>2, <2>1, <2>2
    <2>3. ASSUME NEW l \in Listener, gu_register_pid_ctx_event_listener(l)
          PROVE  Bounded' /\ SubSeq(pid_ctx_event_cbs', 1, Len(pid_ctx_event_cbs)) = pid_ctx_event_cbs
      <3> DEFINE s == pid_ctx_event_cbs
                 a == Append(s, l)
      <3>1. /\ a \in Seq(Listener) /\ Len(a) = Len(s) + 1
            /\ \A i \in 1..Len(s) : a[i] = s[i]
            /\ s' = a /\ Len(s) < ListenerMax
        BY <2>1, <2>3 DEF gu_register_pid_ctx_event_listener
      <3>2. SubSeq(s, 1, Len(s)) = s
        BY <2>1
      <3>3. /\ SubSeq(a, 1, Len(s)) \in Seq(Listener) /\ Len(SubSeq(a, 1, Len(s))) = Len(s)
            /\ \A i \in 1..Len(s) : SubSeq(a, 1, Len(s))[i] = a[i]
        BY <2>1, <3>1
      <3>4. SubSeq(a, 1, Len(s)) = s
        BY <2>1, <3>1, <3>3
      <3> QED BY <2>1, <3>1, <3>2, <3>4, EventConstants
    <2> QED BY Zenon, <1>2, <2>2, <2>3 DEF EventsNext, eventVars, pid_ctx_event_notify, Callback
  <1>3. EventInv /\ Bounded /\ [EventsNext]_eventVars =>
          /\ Bounded'
          /\ [/\ SubSeq(pid_ctx_event_cbs', 1, Len(pid_ctx_event_cbs)) = pid_ctx_event_cbs
              /\ Len(pid_ctx_event_cbs') <= ListenerMax]_eventVars
    BY <1>2
  <1> QED BY <1>1, <1>3, EventInvAlways, PTL DEF EventsSpec, RegistrationsKept
=============================================================================
