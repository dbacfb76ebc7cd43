------------------------------ MODULE DwarfEval ------------------------------
(***************************************************************************)
(* gen_reg() of src/gu_unwinder.c: the value of a caller's register from   *)
(* the CFI rules of a frame.  gu_cfi_helper.c turns a rule into a sequence *)
(* of DWARF operations; gen_reg() evaluates it, by a fast path for the     *)
(* usual shapes and otherwise by the stack machine gu_dwarf_ops_eval(),    *)
(* which may loop, recurse into the CFA's operations and read the          *)
(* snapshot of the stack.                                                  *)
(*                                                                         *)
(* A word has SZ bytes of BYTE values each.  An expression block is what a *)
(* compiler emits for a tree; a tree also has a value of its own, which is *)
(* what the register should get.  Blocks that branch to offset 0 (shared   *)
(* with the prepended DW_OP_call_frame_cfa) are left out, and so is that   *)
(* operation within a CFA expression, which DWARF forbids.                 *)
(***************************************************************************)
EXTENDS Integers, Sequences, SequencesExt, Bitwise

CONSTANTS
  BYTE, SZ,             \* values of a byte, sizeof(Dwarf_Addr)
  PageSize, Bias,
  DW_EVAL_STACK_SIZE, DW_EVAL_STEPS_MAX,
  Infos,                \* samples: [regs, raw_sp, stack_size, data]
  Wants                 \* frames' rules, and the register asked for: [cfa, reg, type]

ASSUME EvalConstants ==
  /\ {BYTE, SZ, PageSize, DW_EVAL_STACK_SIZE, DW_EVAL_STEPS_MAX} \subseteq Nat \ {0}
  /\ Bias \in Nat

VARIABLES
  info,
  want,        \* the call in progress
  ops_arr, cfa_ops,
  pc,          \* "idle", "fast", "general" or "done"
  evals,       \* activations of gu_dwarf_ops_eval(), the innermost last
  val, reason,
  stack_read_out_of_range,
  touched      \* the addresses of the last read of the snapshot

vars == <<info, want, ops_arr, cfa_ops, pc, evals, val, reason,
          stack_read_out_of_range, touched>>

-----------------------------------------------------------------------------
(* Words and their signed reading.                                          *)
W == BYTE ^ SZ
Word == 0 .. W - 1
Signed(x) == IF 2 * x >= W THEN x - W ELSE x
Bits == CHOOSE b \in 0 .. 64 : 2 ^ b = W
Quotient(a, b) ==
  LET abs(x) == IF x < 0 THEN -x ELSE x
      q == abs(a) \div abs(b)
  IN IF (a < 0) = (b < 0) THEN q ELSE -q
Truth(b) == IF b THEN 1 ELSE 0

(* Failures of an evaluation: a read outside the snapshot, anything else.   *)
OutOfRange == -1
Failed == -2

(* llabs() and - of the least value overflow; compiled, they wrap.          *)
Unary(f, x) ==
  CASE f = "abs" -> (IF Signed(x) < 0 THEN -Signed(x) ELSE x) % W
    [] f = "neg" -> (-x) % W
    [] f = "not" -> W - 1 - x

Binary(f, x, y) ==
  CASE f = "plus" -> (x + y) % W
    [] f = "minus" -> (x - y) % W
    [] f = "mul" -> (x * y) % W
    [] f = "and" -> x & y
    [] f = "or" -> x | y
    [] f = "xor" -> x ^^ y
    [] f = "div" -> IF y = 0 \/ (2 * x = W /\ y = W - 1) THEN Failed
                    ELSE Quotient(Signed(x), Signed(y)) % W
    [] f = "mod" -> IF y = 0 THEN Failed ELSE x % y
    [] f = "shl" -> IF y >= Bits THEN Failed ELSE (x * 2 ^ y) % W
    [] f = "shr" -> IF y >= Bits THEN Failed ELSE x \div 2 ^ y
    [] f = "shra" -> IF y >= Bits THEN Failed ELSE (Signed(x) \div 2 ^ y) % W
    [] f = "le" -> Truth(Signed(x) <= Signed(y))
    [] f = "ge" -> Truth(Signed(x) >= Signed(y))
    [] f = "lt" -> Truth(Signed(x) < Signed(y))
    [] f = "gt" -> Truth(Signed(x) > Signed(y))
    [] f = "eq" -> Truth(x = y)
    [] f = "ne" -> Truth(x # y)

UnaryAtoms == {"abs", "neg", "not"}
BinaryAtoms == {"plus", "minus", "mul", "and", "or", "xor", "div", "mod", "shl", "shr",
                "shra", "le", "ge", "lt", "gt", "eq", "ne"}

get_regs(i, regno) == IF regno \in DOMAIN i.regs THEN i.regs[regno] ELSE Failed

StackStart(i) == i.raw_sp - (i.raw_sp % PageSize)
StackEnd(i) == (StackStart(i) + i.stack_size) % W

(* Mutant: only the first byte of the word need be in the snapshot.         *)
ReadsFirstByte(i, addr) == addr >= StackStart(i) /\ addr < StackEnd(i)

(* The range check of read_addr().                                          *)
InSnapshot(i, addr) ==
  /\ addr >= StackStart(i) /\ addr < StackEnd(i)
  /\ (addr + SZ) % W >= addr
  /\ StackEnd(i) - addr >= SZ

read_addr(i, addr) == IF InSnapshot(i, addr) THEN i.data[addr] ELSE OutOfRange

-----------------------------------------------------------------------------
(* Operations, and the bytes they take in a block.                          *)
Op(atom, number, number2) ==
  [atom |-> atom, number |-> number, number2 |-> number2, offset |-> 0]
Op0(atom) == Op(atom, 0, 0)
Bytes(op) ==
  CASE op.atom \in {"bra", "skip", "bregx"} -> 3
    [] op.atom \in {"plus_uconst", "pick", "deref_size", "const", "regx"} -> 2
    [] op.atom = "addr" -> 1 + SZ
    [] OTHER -> 1
Length(ops) == FoldSeq(LAMBDA op, n : n + Bytes(op), 0, ops)

(* The block of a tree.  The last kinds are blocks no tree has: they never  *)
(* end, grow the stack, leave it empty, or hold an unknown operation.       *)
RECURSIVE Block(_)
Block(t) ==
  CASE t.k = "const" -> <<Op("const", t.n, 0)>>
    [] t.k = "addr" -> <<Op("addr", t.n, 0)>>
    [] t.k = "reg" -> <<Op("regx", t.r, 0)>>
    [] t.k = "breg" -> <<Op("bregx", t.r, t.n)>>
    [] t.k = "cfa" -> <<Op0("call_frame_cfa")>>
    [] t.k = "mem" -> Block(t.a) \o <<Op0("deref")>>
    [] t.k = "memn" -> Block(t.a) \o <<Op("deref_size", t.n, 0)>>
    [] t.k = "add" -> Block(t.a) \o <<Op("plus_uconst", t.n, 0)>>
    [] t.k = "un" -> Block(t.a) \o <<Op0(t.f)>>
    [] t.k = "bin" -> Block(t.a) \o Block(t.b) \o <<Op0(t.f)>>
    [] t.k = "swap" -> Block(t.b) \o Block(t.a) \o <<Op0("swap"), Op0(t.f)>>
    [] t.k = "rot" -> Block(t.a) \o Block(t.b) \o Block(t.c)
                      \o <<Op0("rot"), Op0(t.f), Op0("minus")>>
    [] t.k = "dup" -> Block(t.a) \o <<Op0("dup"), Op0(t.f)>>
    [] t.k = "over" -> Block(t.a) \o Block(t.b) \o <<Op0("over"), Op0(t.f), Op0("minus")>>
    [] t.k = "pick" -> Block(t.a) \o Block(t.b)
                       \o <<Op("pick", 1, 0), Op0(t.f), Op0("swap"), Op0("drop")>>
    [] t.k = "if" ->
         LET yes == Block(t.a)
             no == Block(t.b) \o <<Op("skip", Length(yes), 0)>>
         IN Block(t.c) \o <<Op("bra", Length(no), 0)>> \o no \o yes \o <<Op0("nop")>>
    [] t.k = "count" -> <<Op("const", t.n, 0), Op("const", 1, 0), Op0("minus"), Op0("dup"),
                          Op("bra", -7, 0)>>
    [] t.k = "spin" -> <<Op0("nop"), Op0("nop"), Op("skip", -4, 0)>>
    [] t.k = "grow" -> <<Op0("nop"), Op("const", 1, 0), Op("skip", -5, 0)>>
    [] t.k = "empty" -> <<>>
    [] t.k = "drops" -> <<Op("const", 1, 0), Op0("drop"), Op0("drop"), Op0("drop")>>
    [] t.k = "unknown" -> <<Op0("unknown")>>

Placed(ops) ==
  [i \in DOMAIN ops |-> [ops[i] EXCEPT !.offset = Length(SubSeq(ops, 1, i - 1))]]

(* gu_cfi_init_ops_from_block(): the empty sequence where it returns NULL   *)
(* (nothing to evaluate, or an operation it cannot decode).                 *)
gu_cfi_init_ops_from_block(t, rule, cfa) ==
  LET ops == Block(t)
  IN IF ops = <<>> \/ \E i \in DOMAIN ops : ops[i].atom = "unknown" THEN <<>>
     ELSE (IF cfa THEN <<>> ELSE <<Op0("call_frame_cfa")>>)
          \o Placed(IF rule = "val_expression" THEN Append(ops, Op0("stack_value")) ELSE ops)

gu_cfi_get_cfa_ops(cfa) ==
  IF cfa.rule = "offset" THEN <<Op("bregx", cfa.reg, cfa.value)>>
  ELSE gu_cfi_init_ops_from_block(cfa.expr, "expression", TRUE)

(* The operations for CFA + value, none for the addition of zero.           *)
CfaPlus(value) ==
  <<Op0("call_frame_cfa")>> \o (IF value = 0 THEN <<>> ELSE <<Op("plus_uconst", value, 0)>>)

gu_cfi_get_regs_ops(reg) ==
  CASE reg.rule \in {"unspecified", "undefined", "same_value"} -> <<>>
    [] reg.rule = "offset" -> CfaPlus(reg.value)
    [] reg.rule = "val_offset" -> Append(CfaPlus(reg.value), Op0("stack_value"))
    [] reg.rule = "register" -> <<Op("regx", reg.value, 0)>>
    [] reg.rule \in {"expression", "val_expression"} ->
         gu_cfi_init_ops_from_block(reg.expr, reg.rule, FALSE)

(* What gu_cfi_parse_cfi_ex() leaves in ops_arr[type]: the stack pointer    *)
(* is the CFA unless it has a rule that can be decoded.                     *)
OpsFor(type, reg, cfa) ==
  LET ops == gu_cfi_get_regs_ops(reg)
  IN IF type = "RSP" /\ ops = <<>> THEN gu_cfi_get_cfa_ops(cfa) ELSE ops

-----------------------------------------------------------------------------
(* The stack machine.                                                       *)
Activation(ops) == [ops |-> ops, op |-> 1, stack |-> <<>>, is_location |-> FALSE,
                    steps_count |-> 0]
NoWant == [cfa |-> [rule |-> "none"], reg |-> [rule |-> "none"], type |-> "none"]

Init ==
  /\ info \in Infos
  /\ want = NoWant
  /\ ops_arr = <<>> /\ cfa_ops = <<>>
  /\ pc = "idle" /\ evals = <<>>
  /\ val = 0 /\ reason = "OK"
  /\ stack_read_out_of_range = FALSE
  /\ touched = {}

input == <<info, want, ops_arr, cfa_ops>>
Top == Last(evals)

(* Mutant: the stack may fill by one word too many.                         *)
PushableOneMore(stack) == Len(stack) <= DW_EVAL_STACK_SIZE + 1

(* dw_push() has had room for every word.                                   *)
Pushable(stack) == Len(stack) <= DW_EVAL_STACK_SIZE

(* What an operation that neither branches nor reads makes of the stack;    *)
(* <<Failed>> if it fails.  v(i) is the i-th value from the top.            *)
Effect(op, s) ==
  LET v(i) == s[Len(s) + 1 - i]
      pop(n, pushed) == IF Len(s) < n THEN <<Failed>>
                        ELSE SubSeq(s, 1, Len(s) - n) \o pushed
      plus(x, n) == IF x = Failed THEN Failed ELSE (x + n) % W
      result ==
        CASE op.atom = "const" -> pop(0, <<op.number % W>>)
          [] op.atom = "addr" -> pop(0, <<(op.number + Bias) % W>>)
          [] op.atom = "regx" -> pop(0, <<get_regs(info, op.number)>>)
          [] op.atom = "bregx" -> pop(0, <<plus(get_regs(info, op.number), op.number2)>>)
          [] op.atom = "plus_uconst" -> pop(1, <<plus(v(1), op.number)>>)
          [] op.atom \in UnaryAtoms -> pop(1, <<Unary(op.atom, v(1))>>)
          [] op.atom \in BinaryAtoms -> pop(2, <<Binary(op.atom, v(2), v(1))>>)
          [] op.atom = "dup" -> pop(1, <<v(1), v(1)>>)
          [] op.atom = "drop" -> pop(1, <<>>)
          [] op.atom = "pick" -> IF Len(s) <= op.number THEN <<Failed>>
                                 ELSE Append(s, v(1 + op.number))
          [] op.atom = "over" -> pop(2, <<v(2), v(1), v(2)>>)
          [] op.atom = "swap" -> pop(2, <<v(1), v(2)>>)
          [] op.atom = "rot" -> pop(3, <<v(1), v(3), v(2)>>)
          [] op.atom \in {"nop", "stack_value"} -> s
          [] OTHER -> <<Failed>>
  IN IF Failed \in Range(result) \/ ~Pushable(result) THEN <<Failed>> ELSE result

-----------------------------------------------------------------------------
(* gen_reg() ends with the value x, or with the reason for having none.     *)
Done(x) ==
  /\ pc' = "done" /\ evals' = <<>>
  /\ stack_read_out_of_range' = (stack_read_out_of_range \/ x = OutOfRange)
  /\ IF x >= 0 THEN val' = x /\ reason' = "OK"
     ELSE /\ reason' = IF stack_read_out_of_range' THEN "STACK_READ_OUT_OF_RANGE"
                       ELSE "CFI_FRAME_CFA_CALC_FAILED"
          /\ UNCHANGED val

(* The fast path ends: what it cannot evaluate goes to the stack machine.   *)
FastDone(x) ==
  IF x >= 0 \/ ops_arr = <<>> THEN Done(x)
  ELSE /\ pc' = "general" /\ evals' = <<Activation(ops_arr)>>
       /\ stack_read_out_of_range' = (stack_read_out_of_range \/ x = OutOfRange)
       /\ UNCHANGED <<val, reason>>

(* An evaluation fails with x, in gen_reg() or on its fast path.            *)
Fail(x) == IF pc = "fast" THEN FastDone(x) ELSE Done(x)

Reads(addr) == touched' = IF InSnapshot(info, addr) THEN addr .. addr + SZ - 1 ELSE {}
ReadsNothing == touched' = {}

fast_eval_reg_or_breg(op) ==
  IF op.atom \in {"regx", "bregx"} THEN Effect(op, <<>>)[1] ELSE Failed

(* Mutant: the sum is not a location.                                       *)
FastUndereferenced(cfa) ==
  LET sum == (cfa + ops_arr[2].number) % W
  IN ReadsNothing /\ FastDone(IF ops_arr[2].atom = "plus_uconst" THEN sum ELSE cfa)

(* The rest of fast_dwarf_ops_eval() once the CFA is known.                 *)
FastFromCfa(cfa) ==
  LET nops == Len(ops_arr)
      sum == (cfa + ops_arr[2].number) % W
  IN IF nops = 2 /\ ops_arr[2].atom = "stack_value" THEN ReadsNothing /\ FastDone(cfa)
     ELSE IF nops = 2 /\ ops_arr[2].atom = "plus_uconst"
          THEN Reads(sum) /\ FastDone(read_addr(info, sum))
     ELSE IF nops = 3 /\ ops_arr[2].atom = "plus_uconst" /\ ops_arr[3].atom = "stack_value"
          THEN ReadsNothing /\ FastDone(sum)
     ELSE ReadsNothing /\ FastDone(Failed)

(* gu_dwarf_ops_eval() returns v to whoever called it.                      *)
Return(v) ==
  LET caller == evals[Len(evals) - 1]
      stack == Append(caller.stack, v)
  IN IF Len(evals) = 1 THEN IF pc = "fast" THEN FastFromCfa(v) ELSE ReadsNothing /\ Done(v)
     ELSE /\ ReadsNothing
          /\ IF Pushable(stack)
             THEN /\ evals' = Append(SubSeq(evals, 1, Len(evals) - 2),
                                     [caller EXCEPT !.stack = stack, !.op = @ + 1,
                                                    !.is_location = TRUE])
                  /\ UNCHANGED <<pc, val, reason, stack_read_out_of_range>>
             ELSE Fail(Failed)

-----------------------------------------------------------------------------
(* Mutant: the mark of an earlier failure stays.                            *)
GenRegKeepsMark(w) ==
  /\ pc = "idle"
  /\ gu_cfi_get_cfa_ops(w.cfa) # <<>>
  /\ want' = w
  /\ cfa_ops' = gu_cfi_get_cfa_ops(w.cfa) /\ ops_arr' = OpsFor(w.type, w.reg, w.cfa)
  /\ IF w.type = "MAX" THEN pc' = "done" /\ reason' = "CFI_FRAME_CFA_FAILED"
                       ELSE pc' = "fast" /\ UNCHANGED reason
  /\ ReadsNothing
  /\ UNCHANGED <<info, evals, val, stack_read_out_of_range>>

(* gen_reg() is called after gu_cfi_parse_cfi_ex() has succeeded.           *)
gen_reg(w) ==
  /\ pc = "idle"
  /\ gu_cfi_get_cfa_ops(w.cfa) # <<>>
  /\ want' = w
  /\ cfa_ops' = gu_cfi_get_cfa_ops(w.cfa)
  /\ ops_arr' = OpsFor(w.type, w.reg, w.cfa)
  /\ IF w.type = "MAX"
     THEN /\ pc' = "done" /\ reason' = "CFI_FRAME_CFA_FAILED"
          /\ UNCHANGED stack_read_out_of_range
     ELSE pc' = "fast" /\ stack_read_out_of_range' = FALSE /\ UNCHANGED reason
  /\ ReadsNothing
  /\ UNCHANGED <<info, evals, val>>

(* The caller takes the value; the next parse clears the operations.        *)
Taken ==
  /\ pc = "done" /\ pc' = "idle"
  /\ want' = NoWant /\ ops_arr' = <<>> /\ cfa_ops' = <<>>
  /\ val' = 0 /\ reason' = "OK"
  /\ ReadsNothing
  /\ UNCHANGED <<info, evals, stack_read_out_of_range>>

fast_dwarf_ops_eval ==
  /\ pc = "fast" /\ evals = <<>>
  /\ IF Len(ops_arr) < 2 \/ ops_arr[1].atom # "call_frame_cfa"
     THEN /\ ReadsNothing
          /\ FastDone(IF Len(ops_arr) = 1 THEN fast_eval_reg_or_breg(ops_arr[1]) ELSE Failed)
     ELSE IF Len(cfa_ops) = 1 /\ fast_eval_reg_or_breg(cfa_ops[1]) # Failed
     THEN FastFromCfa(fast_eval_reg_or_breg(cfa_ops[1]))
     ELSE /\ evals' = <<Activation(cfa_ops)>> /\ ReadsNothing
          /\ UNCHANGED <<pc, val, reason, stack_read_out_of_range>>
  /\ UNCHANGED input

(* Mutant: a branch counts for nothing.                                     *)
GoOnUncounted(s, i, location) ==
  /\ evals' = [evals EXCEPT ![Len(evals)] =
                [@ EXCEPT !.stack = s, !.op = i, !.is_location = location,
                          !.steps_count = IF i > Top.op THEN @ + 1 ELSE 0]]
  /\ UNCHANGED <<pc, val, reason, stack_read_out_of_range>>

(* The activation goes on with the stack s at operation i.                  *)
GoOn(s, i, location) ==
  /\ evals' = [evals EXCEPT ![Len(evals)] =
                [@ EXCEPT !.stack = s, !.op = i, !.is_location = location,
                          !.steps_count = @ + 1]]
  /\ UNCHANGED <<pc, val, reason, stack_read_out_of_range>>

(* One turn of the loop in gu_dwarf_ops_eval() is under way at op.          *)
At(atoms) ==
  /\ evals # <<>> /\ Top.op <= Len(Top.ops)
  /\ Top.steps_count < DW_EVAL_STEPS_MAX
  /\ Top.ops[Top.op].atom \in atoms
  /\ UNCHANGED input

Branching == {"bra", "skip"}
Reading == {"deref", "deref_size"}

EvalStackOp ==
  /\ evals # <<>> /\ Top.op <= Len(Top.ops)
  /\ At({Top.ops[Top.op].atom} \ (Branching \cup Reading \cup {"call_frame_cfa"}))
  /\ LET op == Top.ops[Top.op]
         s == Effect(op, Top.stack)
     IN IF s = <<Failed>> THEN Fail(Failed)
        ELSE GoOn(s, Top.op + 1, Top.is_location /\ op.atom # "stack_value")
  /\ ReadsNothing

EvalBranch ==
  /\ At(Branching)
  /\ LET op == Top.ops[Top.op]
         bra == op.atom = "bra"
         s == IF bra /\ Top.stack # <<>> THEN Front(Top.stack) ELSE Top.stack
         targets == {i \in DOMAIN Top.ops : Top.ops[i].offset = op.offset + 3 + op.number}
     IN IF bra /\ Top.stack = <<>> THEN Fail(Failed)
        ELSE IF bra /\ Last(Top.stack) = 0 THEN GoOn(s, Top.op + 1, Top.is_location)
        ELSE IF targets = {} THEN Fail(Failed)
        ELSE \E i \in targets : GoOn(s, i, Top.is_location)
  /\ ReadsNothing

EvalDeref ==
  /\ At(Reading)
  /\ LET op == Top.ops[Top.op]
         sized == op.atom = "deref_size"
         x == read_addr(info, Last(Top.stack))
         masked == IF sized /\ op.number < SZ THEN x % BYTE ^ op.number ELSE x
     IN IF (sized /\ op.number > SZ) \/ Top.stack = <<>> THEN ReadsNothing /\ Fail(Failed)
        ELSE /\ Reads(Last(Top.stack))
             /\ IF x = OutOfRange THEN Fail(OutOfRange)
                ELSE GoOn(Append(Front(Top.stack), masked), Top.op + 1, Top.is_location)

EvalCallFrameCfa ==
  /\ At({"call_frame_cfa"})
  /\ evals' = Append([evals EXCEPT ![Len(evals)].steps_count = @ + 1], Activation(cfa_ops))
  /\ ReadsNothing
  /\ UNCHANGED <<pc, val, reason, stack_read_out_of_range>>

EvalTooLong ==
  /\ evals # <<>> /\ Top.op <= Len(Top.ops)
  /\ Top.steps_count >= DW_EVAL_STEPS_MAX
  /\ Fail(Failed) /\ ReadsNothing
  /\ UNCHANGED input

EvalEnd ==
  /\ evals # <<>> /\ Top.op > Len(Top.ops)
  /\ IF Top.stack = <<>> THEN ReadsNothing /\ Fail(Failed)
     ELSE IF ~Top.is_location THEN Return(Last(Top.stack))
     ELSE LET x == read_addr(info, Last(Top.stack))   \* never of the nested CFA
          IN Reads(Last(Top.stack)) /\ (IF x = OutOfRange THEN Fail(x) ELSE Done(x))
  /\ UNCHANGED input

gu_dwarf_ops_eval ==
  EvalStackOp \/ EvalBranch \/ EvalDeref \/ EvalCallFrameCfa \/ EvalTooLong \/ EvalEnd

Next ==
  \/ \E w \in Wants : gen_reg(w)
  \/ Taken
  \/ fast_dwarf_ops_eval
  \/ gu_dwarf_ops_eval

(* gen_reg() runs to its end once called.                                   *)
Spec == Init /\ [][Next]_vars
FairSpec == Spec /\ WF_vars(fast_dwarf_ops_eval \/ gu_dwarf_ops_eval)

-----------------------------------------------------------------------------
(* What the rules mean.  A term is evaluated from left to right and has no  *)
(* value if a part of it has none.                                          *)
On1(x, y) == IF x < 0 THEN x ELSE y
On2(x, y, z) == On1(x, On1(y, z))

RECURSIVE Meaning(_, _)
Meaning(t, cfa) ==
  LET a == Meaning(t.a, cfa)
      b == Meaning(t.b, cfa)
      c == Meaning(t.c, cfa)
  IN
  CASE t.k = "const" -> t.n % W
    [] t.k = "addr" -> (t.n + Bias) % W
    [] t.k = "reg" -> get_regs(info, t.r)
    [] t.k = "breg" -> On1(get_regs(info, t.r), (get_regs(info, t.r) + t.n) % W)
    [] t.k = "cfa" -> cfa
    [] t.k = "mem" -> On1(a, read_addr(info, a))
    [] t.k = "memn" -> On1(a, On1(read_addr(info, a), read_addr(info, a) % BYTE ^ t.n))
    [] t.k = "add" -> On1(a, (a + t.n) % W)
    [] t.k = "un" -> On1(a, Unary(t.f, a))
    [] t.k = "bin" -> On2(a, b, Binary(t.f, a, b))
    [] t.k = "swap" -> On2(b, a, Binary(t.f, a, b))
    [] t.k = "rot" -> On2(a, b, On2(c, Binary(t.f, a, b), Binary("minus", c, Binary(t.f, a, b))))
    [] t.k = "dup" -> On1(a, Binary(t.f, a, a))
    [] t.k = "over" -> On2(a, b, On1(Binary(t.f, b, a), Binary("minus", a, Binary(t.f, b, a))))
    [] t.k = "pick" -> On2(a, b, Binary(t.f, b, a))
    [] t.k = "if" -> On1(c, IF c # 0 THEN a ELSE b)
    [] t.k = "count" -> 0
    [] OTHER -> Failed

CfaMeaning(cfa) ==
  IF cfa.rule = "offset" THEN Meaning([k |-> "breg", r |-> cfa.reg, n |-> cfa.value], Failed)
  ELSE Meaning(cfa.expr, Failed)

RegMeaning(type, reg, cfa) ==
  CASE gu_cfi_get_regs_ops(reg) = <<>> -> IF type = "RSP" THEN cfa ELSE Failed
    [] reg.rule = "offset" -> On1(cfa, read_addr(info, (cfa + reg.value) % W))
    [] reg.rule = "val_offset" -> On1(cfa, (cfa + reg.value) % W)
    [] reg.rule = "register" -> get_regs(info, reg.value)
    [] reg.rule = "expression" ->
         LET a == Meaning(reg.expr, cfa) IN On2(cfa, a, read_addr(info, a))
    [] reg.rule = "val_expression" -> On1(cfa, Meaning(reg.expr, cfa))

Wanted == RegMeaning(want.type, want.reg, CfaMeaning(want.cfa))

TypeOK ==
  /\ pc \in {"idle", "fast", "general", "done"}
  /\ Len(evals) <= 2
  /\ \A i \in DOMAIN evals :
       /\ Len(evals[i].stack) <= DW_EVAL_STACK_SIZE /\ Range(evals[i].stack) \subseteq Word
       /\ evals[i].op \in 1 .. Len(evals[i].ops) + 1
  /\ val \in Word
  /\ stack_read_out_of_range \in BOOLEAN

(* gen_reg() returns the value the register's rule has by its meaning,      *)
(* whichever way it is evaluated (fast path or stack machine, branches,     *)
(* nested CFA), and fails when it has none.                                 *)
ValueExact ==
  (pc = "done" /\ want.type # "MAX") =>
    IF Wanted >= 0 THEN reason = "OK" /\ val = Wanted ELSE reason # "OK"

(* GU_UNWIND_REASON_STACK_READ_OUT_OF_RANGE is reported exactly when this   *)
(* evaluation left the snapshot, never because an earlier one did.          *)
ReasonExact ==
  pc = "done" =>
    ((reason = "STACK_READ_OUT_OF_RANGE") <=> (want.type # "MAX" /\ Wanted = OutOfRange))

(* read_addr() reads only bytes of the snapshot, the last one included and  *)
(* also where its end wraps around.                                         *)
SnapshotReads ==
  touched \subseteq StackStart(info) .. StackStart(info) + info.stack_size - 1

(* Every evaluation ends: the budget of steps stops blocks that loop.       *)
GenRegReturns == (pc \in {"fast", "general"}) ~> (pc = "done")
=============================================================================
