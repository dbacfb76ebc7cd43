------------------------------- MODULE CfiParse -------------------------------
(***************************************************************************)
(* src/gu_cfi_helper.c: gu_cfi_init() makes a table of the FDEs of a file, *)
(* gu_cfi_parse_cfi_ex() finds the CFI row of a PC.                        *)
(*                                                                         *)
(* A parse runs the instructions of the FDE that covers the PC on the      *)
(* row its CIE starts from, turns the row into operations, and leaves them *)
(* in ops_arr and cfa_ops_info, which are global to the process, and in    *)
(* the parse cache of the ELF file.  The unwinder then evaluates them (see *)
(* DwarfEval).                                                             *)
(*                                                                         *)
(* Entries are decoded and instructions have their opcode and registers;   *)
(* offsets are the bytes of the program, see CfiDecode.  The FDEs of a     *)
(* section are disjoint.  CIE programs are well formed and neither         *)
(* remember nor restore states; no program edits the register or the       *)
(* offset of a CFA expression.                                             *)
(***************************************************************************)
EXTENDS CfiDecode

CONSTANTS
  Thread,
  Cfi,         \* the gu_cfi of the ELF files
  Images,      \* what the files may hold, for each [arm64, scn, hdr]
  Owner,       \* the thread whose context has the file
  Pc,          \* program counters, 0 .. n
  CacheSize

ASSUME CfiConstants ==
  /\ Owner \in [Cfi -> Thread]
  /\ CacheSize \in Nat \ {0}

REG_TYPE == {"RIP", "RBP", "RSP"}
NoOps == [rule |-> "none", reg |-> "none", off |-> 0]
Scratch == [regs |-> [r \in REG_TYPE |-> NoOps], cfa |-> NoOps]
NoEntry == [valid |-> FALSE, pc |-> 0, signal_frame |-> FALSE, ops |-> Scratch]

(* A section is a sequence of entries: a CIE, an FDE with the place of its  *)
(* CIE and whether its fields fit, or bytes that are neither; it is <<>> if *)
(* the file lacks it.  A valid .eh_frame_hdr has a table of places of FDEs. *)
VARIABLES
  image,               \* what each file holds
  default_align,       \* data_alignment_factor behind _default_calc_ctx; 0: not yet
  gu_cfi,              \* of each file: is it loaded, and the FDEs of its table
  parse_cache,
  scratch,             \* ops_arr and cfa_ops_info
  th                   \* the threads' locals

cfiVars == <<image, default_align, gu_cfi>>
vars == <<cfiVars, parse_cache, scratch, th>>

-----------------------------------------------------------------------------
(* The row before the CIE's instructions, by _default_init_cfi.  It has the *)
(* return address in the word below the CFA, given as one factor.  On ARM64 *)
(* it has no rule at all: the two it gives are for registers 6 and 7, which *)
(* are neither x29 nor sp there, and trans_reg_type() drops them.           *)
Reg(rule, off) == [rule |-> rule, reg |-> "none", off |-> off]
CfaAt(reg, off) == [rule |-> "offset", reg |-> reg, off |-> off]

default_calc_ctx(arm64, align) ==
  IF arm64 THEN [cfa |-> Reg("undefined", 0), regs |-> [r \in REG_TYPE |-> Reg("unspecified", 0)]]
  ELSE [cfa |-> CfaAt("sp", 8),
        regs |-> [RIP |-> Reg("offset", align % Word),
                  RBP |-> Reg("same_value", 0),
                  RSP |-> Reg("val_offset", 0)]]

(* Instructions with an offset, and how it is encoded: as it is, times the  *)
(* data_alignment_factor, signed and times it, or negated and times it.     *)
HasOffset(x) == x.i \in {"def_cfa", "def_cfa_offset", "offset"}

OffsetFits(x) == decode_read_fits(x.off, IF x.form = "sf" THEN MaxSleb ELSE MaxUleb)

Offset(x, cie) ==
  CASE x.form = "plain" -> decode_uleb128(x.off)
    [] x.form = "factored" -> (decode_uleb128(x.off) * cie.align) % Word
    [] x.form = "sf" -> (decode_sleb128(x.off) * cie.align) % Word
    [] x.form = "negative" -> (-decode_uleb128(x.off) * cie.align) % Word

(* A register's offset goes into a signed bit-field beside its rule, which  *)
(* takes three bits of the word.                                            *)
FieldBits == WordBits - 3
Field(off) ==
  LET v == off % 2^FieldBits
  IN IF v < 2^(FieldBits - 1) THEN v ELSE v + (Word - 2^FieldBits)

(* One instruction: c holds the row, the remembered rows (prev), the        *)
(* location and whether an operand is missing; initial is the CIE's row.    *)
(* The operand of set_loc is taken as it is, so it has to be an address.    *)
Ins(c, x, cie, initial, in_cie) ==
  CASE HasOffset(x) /\ ~OffsetFits(x) -> [c EXCEPT !.failed = TRUE]
    [] x.i = "advance" -> [c EXCEPT !.loc = @ + x.n * cie.code]
    [] x.i = "set_loc" -> [c EXCEPT !.loc = x.to]
    [] x.i = "def_cfa" /\ OffsetFits(x) -> [c EXCEPT !.row.cfa = CfaAt(x.reg, Offset(x, cie))]
    [] x.i = "def_cfa_register" -> [c EXCEPT !.row.cfa.reg = x.reg]
    [] x.i = "def_cfa_offset" /\ OffsetFits(x) -> [c EXCEPT !.row.cfa.off = Offset(x, cie)]
    [] x.i = "def_cfa_expression" -> [c EXCEPT !.row.cfa = Reg(x.expr, 0)]
    [] x.i = "offset" /\ OffsetFits(x) ->
         IF x.r \in REG_TYPE THEN [c EXCEPT !.row.regs[x.r] = Reg(x.rule, Field(Offset(x, cie)))] ELSE c
    [] x.i = "rule" -> IF x.r \in REG_TYPE THEN [c EXCEPT !.row.regs[x.r] = x.rule] ELSE c
    [] x.i = "restore" -> IF in_cie \/ x.r \notin REG_TYPE THEN c
                          ELSE [c EXCEPT !.row.regs[x.r] = initial.regs[x.r]]
    [] x.i = "remember_state" -> [c EXCEPT !.prev = Append(@, c.row)]
    [] x.i = "restore_state" -> IF c.prev = <<>> THEN [c EXCEPT !.failed = TRUE]
                                ELSE [c EXCEPT !.row = Last(c.prev), !.prev = Front(@)]
    [] x.i = "truncated" -> [c EXCEPT !.failed = TRUE]
    [] x.i = "nop" -> c

(* Mutant: the row of an address is taken to hold before it.                *)
InsUpToPc(cie, initial, in_cie, program, loc, find_pc) ==
  FoldLeft(LAMBDA c, x : IF c.failed \/ c.past THEN c
                         ELSE LET d == Ins(c, x, cie, initial, in_cie)
                              IN [d EXCEPT !.past = find_pc <= d.loc /\ x.i \in {"advance", "set_loc"}],
           [row |-> initial, prev |-> <<>>, loc |-> loc, failed |-> FALSE, past |-> FALSE],
           program)

(* The loop over a program: it ends at an error, and past the PC.           *)
init_calc_ctx_by_ins(cie, initial, in_cie, program, loc, find_pc) ==
  FoldLeft(LAMBDA c, x : IF c.failed \/ c.past THEN c
                         ELSE LET d == Ins(c, x, cie, initial, in_cie)
                              IN [d EXCEPT !.past = find_pc < d.loc],
           [row |-> initial, prev |-> <<>>, loc |-> loc, failed |-> FALSE, past |-> FALSE],
           program)

(* A CIE's program runs to its end, whatever it advances by.                *)
EndOfPcs == 1 + CHOOSE p \in Pc : \A q \in Pc : q <= p
init_cie_from_buf(arm64, cie, align) ==
  init_calc_ctx_by_ins(cie, default_calc_ctx(arm64, align), TRUE, cie.program, 0, EndOfPcs).row

-----------------------------------------------------------------------------
(* Loading a file.  c is the table so far, the factor of the default row,   *)
(* and whether loading has stopped.                                         *)

(* The CIE is read once; the first one read in the process also sets the    *)
(* default row, for good.                                                   *)
init_fde_from_entry(im, scn, c, e) ==
  IF e.cie \notin DOMAIN scn \/ scn[e.cie].k # "cie" THEN [c EXCEPT !.stop = TRUE]
  ELSE LET cie == scn[e.cie]
           align == IF c.align = 0 THEN cie.align ELSE c.align
           fde == [start |-> e.start, end |-> e.end, program |-> e.program,
                   cie |-> cie, signal_frame |-> cie.signal_frame,
                   cie_calc_ctx |-> init_cie_from_buf(im.arm64, cie, align)]
       IN [c EXCEPT !.align = align, !.stop = ~e.fits, !.fdes = IF e.fits THEN @ \cup {fde} ELSE @]

(* By the table of .eh_frame_hdr; an FDE that cannot be read ends it.       *)
gu_cfi_hdr_init_by_hdr(im, scn, c) ==
  IF ~im.hdr.valid THEN c
  ELSE FoldLeft(LAMBDA d, n : IF d.stop \/ n \notin DOMAIN scn \/ scn[n].k # "fde"
                              THEN [d EXCEPT !.stop = TRUE]
                              ELSE init_fde_from_entry(im, scn, d, scn[n]),
                c, im.hdr.table)

(* Or through the section.                                                  *)
gu_cfi_hdr_init_by_scan(im, scn, c) ==
  FoldLeft(LAMBDA d, e : IF d.stop \/ e.k = "bad" THEN [d EXCEPT !.stop = TRUE]
                         ELSE IF e.k = "cie" THEN d ELSE init_fde_from_entry(im, scn, d, e),
           c, scn)

(* The section: .debug_frame, unless .eh_frame is larger.                   *)
ScnType(im) ==
  IF im.scn.debug_frame # <<>> /\ Len(im.scn.eh_frame) <= Len(im.scn.debug_frame) THEN "debug_frame"
  ELSE IF im.scn.eh_frame # <<>> THEN "eh_frame" ELSE "zdebug_frame"

(* The header serves .eh_frame only.  (A Go program is never loaded here,   *)
(* see ElfLoad, so the test for one is always false.)                       *)
UsesHdr(im) == ScnType(im) = "eh_frame" /\ im.hdr.present

NoCfi == [loaded |-> FALSE, fdes |-> {}]

(* gu_cfi_get_regs_ops() and gu_cfi_get_cfa_ops(): the operations of a      *)
(* rule, named by it; NoOps for NULL.                                       *)
OpsOf(x) ==
  IF x.rule \in {"unspecified", "undefined", "same_value", "undecodable"} THEN NoOps ELSE x

(* Expressions of more than GU_CFI_PARSE_CACHE_OPS_MAX operations are not   *)
(* cached.                                                                  *)
gu_cfi_ops_cacheable(x) == x.rule # "long_expression"

-----------------------------------------------------------------------------
Idle == [pc |-> "idle", cfi |-> CHOOSE f \in Cfi : TRUE, find_pc |-> 0,
         row |-> default_calc_ctx(TRUE, 0), ret |-> 0, signal_frame |-> FALSE]

Init ==
  /\ image \in Images
  /\ default_align = 0
  /\ gu_cfi = [f \in Cfi |-> NoCfi]
  /\ parse_cache = [f \in Cfi |-> [i \in 0 .. CacheSize - 1 |-> NoEntry]]
  /\ scratch = Scratch
  /\ th = [t \in Thread |-> Idle]

(* gu_cfi_init(), when the file enters the cache; without an FDE it returns *)
(* NULL, and the file is not parsed.                                        *)
gu_cfi_init(f) ==
  LET im == image[f]
      scn == im.scn[ScnType(im)]
      empty == [fdes |-> {}, align |-> default_align, stop |-> FALSE]
      c == IF UsesHdr(im) THEN gu_cfi_hdr_init_by_hdr(im, scn, empty)
           ELSE gu_cfi_hdr_init_by_scan(im, scn, empty)
  IN
  /\ ~gu_cfi[f].loaded /\ th[Owner[f]].pc = "idle"
  /\ default_align' = c.align
  /\ gu_cfi' = [gu_cfi EXCEPT ![f] = [loaded |-> TRUE, fdes |-> c.fdes]]
  /\ UNCHANGED <<image, parse_cache, scratch, th>>

(* gu_cfi_destroy(), when it leaves the cache, takes the parse cache along. *)
gu_cfi_destroy(f) ==
  /\ gu_cfi[f].loaded /\ th[Owner[f]].pc = "idle"
  /\ gu_cfi' = [gu_cfi EXCEPT ![f] = NoCfi]
  /\ parse_cache' = [parse_cache EXCEPT ![f] = [i \in 0 .. CacheSize - 1 |-> NoEntry]]
  /\ UNCHANGED <<image, default_align, scratch, th>>

-----------------------------------------------------------------------------
gu_cfi_parse_cache_index(pc) == pc % CacheSize

(* gu_cfi_parse_cache_load() finds the row of the PC.                       *)
Cached(f, pc) ==
  LET entry == parse_cache[f][gu_cfi_parse_cache_index(pc)] IN entry.valid /\ entry.pc = pc

(* Mutant: an entry that is replaced stays filed under its old PC.          *)
StoreKeepsPc(f, pc, ops, signal_frame) ==
  LET all == {ops.cfa} \cup {ops.regs[r] : r \in REG_TYPE}
  IN parse_cache' =
       IF \E x \in all : ~gu_cfi_ops_cacheable(x) THEN parse_cache
       ELSE [parse_cache EXCEPT ![f][gu_cfi_parse_cache_index(pc)] =
              [valid |-> TRUE, pc |-> IF @.valid THEN @.pc ELSE pc, ops |-> ops,
               signal_frame |-> signal_frame]]

(* gu_cfi_parse_cache_store(): operations that fit an entry replace it.     *)
gu_cfi_parse_cache_store(f, pc, ops, signal_frame) ==
  LET all == {ops.cfa} \cup {ops.regs[r] : r \in REG_TYPE}
  IN parse_cache' =
       IF \E x \in all : ~gu_cfi_ops_cacheable(x) THEN parse_cache
       ELSE [parse_cache EXCEPT ![f][gu_cfi_parse_cache_index(pc)] =
              [valid |-> TRUE, pc |-> pc, ops |-> ops, signal_frame |-> signal_frame]]

Fdes(f, pc) == {d \in gu_cfi[f].fdes : d.start <= pc /\ pc < d.end}
Fail(t) == th' = [th EXCEPT ![t].pc = "done", ![t].ret = -1]

(* Mutant: the operations of the last parse are not cleared.                *)
BeginKeepsOps(t, f, pc) ==
  /\ th[t].pc = "idle" /\ Owner[f] = t /\ gu_cfi[f].fdes # {}
  /\ IF Cached(f, pc)
     THEN LET entry == parse_cache[f][gu_cfi_parse_cache_index(pc)]
          IN /\ scratch' = entry.ops
             /\ th' = [th EXCEPT ![t] = [Idle EXCEPT !.pc = "done", !.cfi = f, !.find_pc = pc,
                                          !.signal_frame = entry.signal_frame]]
     ELSE /\ UNCHANGED scratch
          /\ th' = [th EXCEPT ![t] = [Idle EXCEPT !.pc = "search", !.cfi = f, !.find_pc = pc]]
  /\ UNCHANGED <<cfiVars, parse_cache>>

(* gu_cfi_parse_cfi_ex() clears the operations and looks into the cache,    *)
Begin(t, f, pc) ==
  /\ th[t].pc = "idle" /\ Owner[f] = t /\ gu_cfi[f].fdes # {}
  /\ IF Cached(f, pc)
     THEN LET entry == parse_cache[f][gu_cfi_parse_cache_index(pc)]
          IN /\ scratch' = entry.ops
             /\ th' = [th EXCEPT ![t] = [Idle EXCEPT !.pc = "done", !.cfi = f, !.find_pc = pc,
                                          !.signal_frame = entry.signal_frame]]
     ELSE /\ scratch' = Scratch
          /\ th' = [th EXCEPT ![t] = [Idle EXCEPT !.pc = "search", !.cfi = f, !.find_pc = pc]]
  /\ UNCHANGED <<cfiVars, parse_cache>>

(* finds the FDE and runs its program on a copy of the CIE's row,           *)
RunProgram(t) ==
  LET f == th[t].cfi
      pc == th[t].find_pc
  IN
  /\ th[t].pc = "search"
  /\ \/ Fdes(f, pc) = {} /\ Fail(t)
     \/ \E fde \in Fdes(f, pc) :
          LET c == init_calc_ctx_by_ins(fde.cie, fde.cie_calc_ctx, FALSE, fde.program, fde.start, pc)
          IN th' = [th EXCEPT ![t].signal_frame = fde.signal_frame,
                              ![t].row = c.row,
                              ![t].ret = IF c.failed THEN -1 ELSE 0,
                              ![t].pc = IF c.failed THEN "done" ELSE "cfa"]
  /\ UNCHANGED <<cfiVars, parse_cache, scratch>>

(* stores the operations of the CFA,                                        *)
StoreCfa(t) ==
  LET ops == OpsOf(th[t].row.cfa)
  IN
  /\ th[t].pc = "cfa"
  /\ IF ops = NoOps THEN Fail(t) /\ UNCHANGED scratch
     ELSE scratch' = [scratch EXCEPT !.cfa = ops] /\ th' = [th EXCEPT ![t].pc = "rsp"]
  /\ UNCHANGED <<cfiVars, parse_cache>>

(* of the stack pointer, which without a rule is the CFA,                   *)
StoreRsp(t) ==
  LET ops == OpsOf(th[t].row.regs["RSP"])
  IN
  /\ th[t].pc = "rsp"
  /\ scratch' = [scratch EXCEPT !.regs["RSP"] = IF ops = NoOps THEN scratch.cfa ELSE ops]
  /\ th' = [th EXCEPT ![t].pc = "rip"]
  /\ UNCHANGED <<cfiVars, parse_cache>>

(* of the return address, which may have none,                              *)
StoreRip(t) ==
  /\ th[t].pc = "rip"
  /\ scratch' = [scratch EXCEPT !.regs["RIP"] = OpsOf(th[t].row.regs["RIP"])]
  /\ th' = [th EXCEPT ![t].pc = "rbp"]
  /\ UNCHANGED <<cfiVars, parse_cache>>

(* and of the frame pointer, if it has any; it then fills the cache.        *)
StoreRbp(t) ==
  LET ops == OpsOf(th[t].row.regs["RBP"])
  IN
  /\ th[t].pc = "rbp"
  /\ scratch' = IF ops = NoOps THEN scratch ELSE [scratch EXCEPT !.regs["RBP"] = ops]
  /\ gu_cfi_parse_cache_store(th[t].cfi, th[t].find_pc, scratch', th[t].signal_frame)
  /\ th' = [th EXCEPT ![t].pc = "done"]
  /\ UNCHANGED cfiVars

(* The caller has used the operations.                                      *)
Used(t) ==
  /\ th[t].pc = "done"
  /\ th' = [th EXCEPT ![t] = Idle]
  /\ UNCHANGED <<cfiVars, parse_cache, scratch>>

gu_cfi_parse_cfi_ex(t) ==
  \/ \E f \in Cfi, pc \in Pc : Begin(t, f, pc)
  \/ RunProgram(t) \/ StoreCfa(t) \/ StoreRsp(t) \/ StoreRip(t) \/ StoreRbp(t)

Next ==
  \/ \E f \in Cfi : gu_cfi_init(f) \/ gu_cfi_destroy(f)
  \/ \E t \in Thread : gu_cfi_parse_cfi_ex(t) \/ Used(t)

Spec == Init /\ [][Next]_vars

-----------------------------------------------------------------------------
(* The FDEs of a file that can be read: those before the first entry, in    *)
(* the order of the header or of the section, that cannot.                  *)
FdeAt(f, pc) ==
  LET im == image[f]
      scn == im.scn[ScnType(im)]
      order == IF ~UsesHdr(im) THEN [n \in DOMAIN scn |-> n]
               ELSE IF im.hdr.valid THEN im.hdr.table ELSE <<>>
      readable(n) ==
        /\ n \in DOMAIN scn
        /\ scn[n].k = "cie" => ~UsesHdr(im)
        /\ scn[n].k # "bad"
        /\ scn[n].k = "fde" => scn[n].fits /\ scn[n].cie \in DOMAIN scn /\ scn[scn[n].cie].k = "cie"
      read == {order[i] : i \in {j \in DOMAIN order : \A k \in 1 .. j : readable(order[k])}}
  IN {scn[n] : n \in {m \in read : scn[m].k = "fde" /\ scn[m].start <= pc /\ pc < scn[m].end}}

CieOf(f, d) == image[f].scn[ScnType(image[f])][d.cie]
InitialRow(f, d) == init_cie_from_buf(image[f].arm64, CieOf(f, d), CieOf(f, d).align)

(* The CIE says where the return address is, or has the factor of the first *)
(* CIE that was read: otherwise the row depends on which file came first.   *)
OwnDefault(f, d) ==
  \/ image[f].arm64 \/ CieOf(f, d).align = default_align
  \/ \E x \in ToSet(CieOf(f, d).program) : x.i \in {"rule", "offset"} /\ x.r = "RIP"

(* What the row of a PC is, without running the program: an entry of it is  *)
(* what the last instruction that counts has made of it.                    *)
LocBefore(d, code, i) ==
  LET sets == {k \in 1 .. i - 1 : d.program[k].i = "set_loc"}
      last == IF sets = {} THEN 0 ELSE Max(sets)
      base == IF sets = {} THEN d.start ELSE d.program[last].to
  IN base + code * FoldSeq(LAMBDA x, n : n + (IF x.i = "advance" THEN x.n ELSE 0), 0,
                           SubSeq(d.program, last + 1, i - 1))
Reached(d, code, pc) == {i \in DOMAIN d.program : LocBefore(d, code, i) <= pc}

(* A remember_state and the restore_state that undoes it.                   *)
Count(d, i, j, name) == Len(SelectSeq(SubSeq(d.program, i, j), LAMBDA x : x.i = name))
Paired(d, i, j) ==
  /\ d.program[i].i = "remember_state" /\ d.program[j].i = "restore_state" /\ i < j
  /\ Count(d, i, j, "remember_state") = Count(d, i, j, "restore_state")
  /\ \A k \in i .. j - 1 : Count(d, i, k, "remember_state") > Count(d, i, k, "restore_state")

(* The instructions with a name of names that still count at the PC.        *)
Counting(d, code, pc, names) ==
  LET reached == Reached(d, code, pc)
  IN {k \in reached : /\ d.program[k].i \in names
                      /\ \A i, j \in reached : Paired(d, i, j) => ~(i < k /\ k < j)}
Latest(S) == CHOOSE k \in S : \A i \in S : i <= k

(* An offset by what its bytes mean.  It is usual if an int holds it, or if *)
(* it is signed and leaves room above its last group, and if the offset of  *)
(* a register fits its field.                                               *)
Meant(x, align) ==
  LET n == IF x.form = "sf" THEN Signed(x.off) ELSE Unsigned(x.off)
  IN CASE x.form = "plain" -> n
       [] x.form \in {"factored", "sf"} -> n * align
       [] x.form = "negative" -> -n * align
Usual(x, align) ==
  /\ IF x.form = "sf" THEN GroupBits * Len(Groups(x.off)) < WordBits
     ELSE Unsigned(x.off) < 2^(IntBits - 1)
  /\ x.i = "offset" =>
       -(2^(FieldBits - 1)) <= Meant(x, align) /\ Meant(x, align) < 2^(FieldBits - 1)

(* The instruction of the FDE that decides on a register; without one it is *)
(* as the CIE has it.                                                       *)
Writer(d, code, r, pc) ==
  LET writers == {k \in Counting(d, code, pc, {"rule", "offset", "restore"}) : d.program[k].r = r}
  IN IF writers = {} THEN [i |-> "restore", r |-> r] ELSE d.program[Latest(writers)]

RegBy(x, cie, initial) ==
  CASE x.i = "restore" -> initial.regs[x.r]
    [] x.i = "rule" -> x.rule
    [] x.i = "offset" -> Reg(x.rule, Meant(x, cie.align) % Word)

CfaRuleAt(d, cie, pc, initial) ==
  LET defs == Counting(d, cie.code, pc, {"def_cfa", "def_cfa_expression"})
      since(name) == {k \in Counting(d, cie.code, pc, {name}) : \A i \in defs : i < k}
      x == d.program[Latest(defs)]
      base == IF defs = {} THEN initial.cfa
              ELSE IF x.i = "def_cfa" THEN CfaAt(x.reg, Meant(x, cie.align) % Word) ELSE Reg(x.expr, 0)
      regs == since("def_cfa_register")
      offs == since("def_cfa_offset")
  IN [base EXCEPT !.reg = IF regs = {} THEN @ ELSE d.program[Latest(regs)].reg,
                  !.off = IF offs = {} THEN @ ELSE Meant(d.program[Latest(offs)], cie.align) % Word]

(* The program goes wrong before the PC: an operand is missing, or there is *)
(* nothing to restore.                                                      *)
Broken(d, code, pc) ==
  \E j \in Reached(d, code, pc) :
    \/ d.program[j].i = "truncated"
    \/ HasOffset(d.program[j]) /\ ~OffsetFits(d.program[j])
    \/ d.program[j].i = "restore_state" /\ \A i \in 1 .. j - 1 : ~Paired(d, i, j)

HasRow(f, pc) ==
  \E d \in FdeAt(f, pc) :
    /\ ~Broken(d, CieOf(f, d).code, pc)
    /\ OpsOf(CfaRuleAt(d, CieOf(f, d), pc, InitialRow(f, d))) # NoOps

(* The entries of a row that the code gives as DWARF means them: the offset *)
(* is usual, and a return address that only the default row has a rule for  *)
(* is given in the CIE's own factor.                                        *)
CfaMeant(d, cie, pc) ==
  LET writers == Counting(d, cie.code, pc, {"def_cfa", "def_cfa_offset", "def_cfa_expression"})
      x == d.program[Latest(writers)]
  IN writers # {} /\ HasOffset(x) => Usual(x, cie.align)
RegMeant(x, f, d) ==
  /\ x.i = "restore" /\ x.r = "RIP" => OwnDefault(f, d)
  /\ x.i = "offset" => Usual(x, CieOf(f, d).align)

(* ops and signal_frame are those of the row, in those entries.             *)
IsRowAt(f, pc, ops, signal_frame) ==
  \A d \in FdeAt(f, pc) :
    LET cie == CieOf(f, d)
        initial == InitialRow(f, d)
    IN /\ CfaMeant(d, cie, pc) => ops.cfa = OpsOf(CfaRuleAt(d, cie, pc, initial))
       /\ \A r \in REG_TYPE :
            LET x == Writer(d, cie.code, r, pc)
                reg == OpsOf(RegBy(x, cie, initial))
            IN IF r = "RSP" /\ reg = NoOps THEN ops.regs[r] = ops.cfa
               ELSE RegMeant(x, f, d) => ops.regs[r] = reg
       /\ signal_frame = cie.signal_frame

(* A parse that succeeds leaves the operations of the row of its PC, for    *)
(* every register, whether from the cache or from the program and whatever  *)
(* was parsed before, and tells signal frames; it succeeds if there is a    *)
(* row.  Two kinds of entries are left out: an offset that the decoder, an  *)
(* int or the field of a register cannot hold, and a return address whose   *)
(* only rule is that of the default row, made with the factor of a CIE that *)
(* was read first and has another one (gu_cfi_helper.c:668).                *)
RowExact ==
  \A t \in Thread : th[t].pc = "done" =>
    LET f == th[t].cfi
        pc == th[t].find_pc
    IN /\ (th[t].ret = 0) <=> HasRow(f, pc)
       /\ th[t].ret = 0 => IsRowAt(f, pc, scratch, th[t].signal_frame)

(* A parse that fails leaves no operations: "never reuse stale ops".        *)
FailsEmpty ==
  \A t \in Thread : (th[t].pc = "done" /\ th[t].ret # 0) => scratch = Scratch

(* The cache of a loaded file holds rows of the PC they are filed under, in *)
(* the slot of that PC, and never a row that does not fit an entry; what of *)
(* a row is claimed is what RowExact claims of it.                          *)
CacheFaithful ==
  \A f \in Cfi, i \in 0 .. CacheSize - 1 :
    LET entry == parse_cache[f][i]
        ops == {entry.ops.cfa} \cup {entry.ops.regs[r] : r \in REG_TYPE}
    IN entry.valid =>
         /\ gu_cfi[f].loaded
         /\ HasRow(f, entry.pc) /\ IsRowAt(f, entry.pc, entry.ops, entry.signal_frame)
         /\ gu_cfi_parse_cache_index(entry.pc) = i
         /\ \A x \in ops : gu_cfi_ops_cacheable(x)

(* README: "Use separate contexts if independent threads need to unwind     *)
(* without external locking."  Each thread parses the files of its own      *)
(* context only, and finds the row it asked for.                            *)
SeparateContexts ==
  \A t \in Thread : (th[t].pc = "done" /\ th[t].ret = 0) =>
    IsRowAt(th[t].cfi, th[t].find_pc, scratch, th[t].signal_frame)
=============================================================================
