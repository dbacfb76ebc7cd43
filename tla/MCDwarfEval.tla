----------------------------- MODULE MCDwarfEval -----------------------------
(* Rules of frames, over words of two bytes of four values.                *)
EXTENDS DwarfEval

(* The snapshot of a page in the middle of the addresses, of half a page,   *)
(* and of the last page, where its end wraps to zero.                       *)
Data == [a \in Word |-> (5 * a + 3) % W]
Sample(sp, size) == [regs |-> <<sp, 9>>, raw_sp |-> sp, stack_size |-> size, data |-> Data]
MCInfos == {Sample(6, 4), Sample(5, 2), Sample(13, 4), Sample(4, 8)}

Const(n) == [k |-> "const", n |-> n]
Leaves == {Const(n) : n \in {0, 1, 8, 15}}
          \cup {[k |-> "reg", r |-> 2], [k |-> "reg", r |-> 3], [k |-> "breg", r |-> 1, n |-> 1],
                [k |-> "addr", n |-> 2]}
Mem(t) == [k |-> "mem", a |-> t]
Bin(k, f, a, b) == [k |-> k, f |-> f, a |-> a, b |-> b]
Sp == [k |-> "breg", r |-> 1, n |-> 0]
Cfa == [k |-> "cfa"]

Terms ==
  Leaves
  \cup {Mem(t) : t \in Leaves}
  \cup {[k |-> "memn", a |-> Sp, n |-> n] : n \in 0 .. 2}
  \cup {[k |-> "un", f |-> f, a |-> t] : f \in UnaryAtoms, t \in Leaves}
  \cup {Bin("bin", f, a, b) : f \in BinaryAtoms, a \in {Const(9), Const(8), Sp}, b \in {Const(15), Const(2), Const(0)}}
  \cup {Bin(k, f, a, b) : k \in {"swap", "over", "pick"}, f \in {"minus", "div"},
                          a \in {Const(8), Mem(Sp)}, b \in {Const(3), Const(0), Mem(Sp)}}
  \cup {[k |-> "dup", f |-> "mul", a |-> t] : t \in Leaves}
  \cup {[k |-> "rot", f |-> f, a |-> Const(9), b |-> b, c |-> Sp] : f \in {"minus", "shl"}, b \in {Const(2), Mem(Sp)}}
  \cup {[k |-> "if", c |-> c, a |-> Const(7), b |-> Mem(Sp)] : c \in {Const(0), Const(1), Mem(Sp)}}
  \cup {[k |-> "if", c |-> Const(c), a |-> [k |-> "count", n |-> 2], b |-> Sp] : c \in 0 .. 1}
  \cup {[k |-> "count", n |-> n] : n \in 1 .. 2}
Stray == {[k |-> k] : k \in {"spin", "grow", "empty", "drops", "unknown"}}
OfCfa == {Cfa, [k |-> "add", a |-> Cfa, n |-> 15], Mem([k |-> "add", a |-> Cfa, n |-> 14]),
          Bin("bin", "minus", Cfa, Cfa)}

Rule(rule, value) == [rule |-> rule, value |-> value]
Plain ==
  {Rule(rule, 0) : rule \in {"unspecified", "undefined", "same_value"}}
  \cup {Rule(rule, n) : rule \in {"offset", "val_offset"}, n \in {0, 2, 14, 15}}
  \cup {Rule("register", r) : r \in 1 .. 3}
Expr(terms) == {[rule |-> rule, value |-> 0, expr |-> t] :
                 rule \in {"expression", "val_expression"}, t \in terms}
CfaAt(r, n) == [rule |-> "offset", reg |-> r, value |-> n]
CfaExpr(t) == [rule |-> "expr", expr |-> t]
CfaRules ==
  {CfaAt(r, n) : r \in 1 .. 3, n \in {0, 2, 3}}
  \cup {CfaExpr(t) : t \in {Mem(Sp), Bin("bin", "plus", Sp, Const(2)), Mem(Const(0)), Sp,
                            [k |-> "count", n |-> 1], [k |-> "spin"], [k |-> "unknown"]}}
Want(types, regs, cfas) == [type : types, reg : regs, cfa : cfas]

(* Every plain rule with every CFA, and every expression with a few.        *)
MCWants ==
  Want({"RSP", "RIP"}, Plain \cup Expr(Stray \cup OfCfa), CfaRules)
  \cup Want({"RIP"}, Expr(Terms), {CfaAt(1, 2), CfaExpr(Mem(Sp))})
  \cup Want({"MAX"}, {Rule("offset", 14)}, {CfaAt(1, 2)})
=============================================================================
