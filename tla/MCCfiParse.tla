------------------------------ MODULE MCCfiParse ------------------------------
(* Files with short CFI programs.                                          *)
EXTENDS CfiParse, FiniteSets

CONSTANTS t1, t2, f1, f2

Adv(n) == [i |-> "advance", n |-> n]
Rule(r, rule) == [i |-> "rule", r |-> r, rule |-> rule]
Name(i) == [i |-> i]
Offs(r, rule, form, off) == [i |-> "offset", r |-> r, rule |-> rule, form |-> form, off |-> off]
Save(r, n) == Offs(r, "offset", "factored", <<n>>)
DefCfa(reg, form, off) == [i |-> "def_cfa", reg |-> reg, form |-> form, off |-> off]
CfaOffset(form, off) == [i |-> "def_cfa_offset", form |-> form, off |-> off]
(* Three bits to a byte; 8 is the flag.                                     *)
U8 == <<8, 1>>
U16 == <<8, 2>>
U24 == <<8, 3>>

(* Instructions of every kind.                                              *)
Alphabet ==
  {Adv(1), Adv(2), Name("remember_state"), Name("restore_state"), Save("RBP", 2),
   [i |-> "restore", r |-> "RBP"],
   DefCfa("bp", "plain", U16), CfaOffset("plain", U24),
   Rule("RIP", Reg("undefined", 0))}

(* All programs of three of them, and some longer ones.                     *)
Short == UNION {[1 .. n -> Alphabet] : n \in 0 .. 3}
Prologue ==
  <<Adv(1), CfaOffset("plain", U16), Save("RBP", 2), Adv(1),
    [i |-> "def_cfa_register", reg |-> "bp"], Name("remember_state"), Adv(1),
    [i |-> "restore", r |-> "RBP"], DefCfa("sp", "plain", U8), Adv(1),
    Name("restore_state")>>
Nested ==
  <<Name("remember_state"), Save("RBP", 2), Name("remember_state"), Save("RBP", 3), Adv(1),
    Name("restore_state"), Adv(1), Rule("RSP", Reg("val_expression", 1)), Name("restore_state"),
    Adv(1), Name("truncated")>>
(* Signed and negated offsets, a number padded to four bytes, one beyond an *)
(* int, one that fills the word, one of too many bytes, one that is cut, in *)
(* registers the lowest that their field holds and one below it.            *)
Signs ==
  <<Offs("RBP", "offset", "sf", <<15, 7>>), Offs("RSP", "val_offset", "sf", <<8, 14, 3>>), Adv(1),
    Offs("RBP", "offset", "negative", <<2>>), CfaOffset("sf", <<8, 6>>), Adv(1),
    DefCfa("sp", "plain", <<9, 8, 8, 0>>), Adv(1), CfaOffset("plain", <<15, 15, 1>>), Adv(1),
    CfaOffset("plain", <<8, 8, 2>>)>>
Lengths ==
  <<DefCfa("sp", "sf", <<8, 8, 8, 8, 7>>), Adv(1), DefCfa("sp", "sf", <<8, 8, 8, 8, 8, 4>>),
    Offs("RBP", "val_offset", "factored", <<8, 8, 8, 1>>), Adv(1), CfaOffset("plain", <<9, 8, 8, 8, 0>>)>>
Fields ==
  <<Offs("RBP", "offset", "sf", <<8, 8, 8, 1>>), Adv(1), Offs("RSP", "val_offset", "sf", <<8, 8, 8, 2>>),
    [i |-> "set_loc", to |-> 3], Offs("RBP", "val_offset", "sf", <<9, 8, 8, 1>>), Adv(1),
    Save("RIP", 3)>>
Cut == <<Adv(1), DefCfa("bp", "sf", <<8, 8>>)>>
Expressions ==
  <<[i |-> "def_cfa_expression", expr |-> "expression"], Rule("RIP", Reg("long_expression", 0)),
    Rule("RSP", Reg("same_value", 0)), Adv(1), Rule("RIP", Reg("register", 3)), Name("nop"),
    Rule("other", Reg("offset", 0)), Adv(1), Rule("RSP", Reg("undecodable", 0)),
    Rule("RBP", Reg("undecodable", 0)), Adv(1), [i |-> "def_cfa_expression", expr |-> "undecodable"]>>
Long == {Prologue, Nested, Expressions, Signs, Lengths, Fields, Cut}

Cie(p, align, signal) ==
  [k |-> "cie", program |-> p, code |-> 1, align |-> align, signal_frame |-> signal]
Wide(cie) == [cie EXCEPT !.code = 2]
Fde(c, a, b, p) == [k |-> "fde", cie |-> c, start |-> a, end |-> b, program |-> p, fits |-> TRUE]
Unfit(e) == [e EXCEPT !.fits = FALSE]
Bad == [k |-> "bad"]

NoHdr == [present |-> FALSE, valid |-> FALSE, table |-> <<>>]
Hdr(valid, table) == [present |-> TRUE, valid |-> valid, table |-> table]
File(arm, debug, eh, zdebug, hdr) ==
  [arm64 |-> arm, hdr |-> hdr,
   scn |-> [debug_frame |-> debug, eh_frame |-> eh, zdebug_frame |-> zdebug]]
NoFile == File(FALSE, <<>>, <<>>, <<>>, NoHdr)
Image(arm, eh) == File(arm, <<>>, eh, <<>>, NoHdr)
CieX86 == <<Save("RBP", 1), [i |-> "restore", r |-> "RBP"], Name("nop")>>
CieArm == <<DefCfa("sp", "plain", <<0>>)>>

OneThread == {t1}
TwoThreads == {t1, t2}
TwoCfis == {f1, f2}
MCPc == 0 .. 5
MCOwner == [f \in Cfi |-> IF f = f2 /\ t2 \in Thread THEN t2 ELSE t1]

(* Files of one CIE, scanned.                                               *)
Scanned ==
  {Image(FALSE, <<Cie(CieX86, -8, FALSE), Fde(1, 1, 5, p)>>) : p \in Short}
  \cup {Image(FALSE, <<Cie(CieX86, -8, TRUE), Fde(1, 0, 5, p)>>) : p \in Long}
  \cup {Image(FALSE, <<Cie(<<>>, -8, FALSE), Fde(1, 0, 2, Prologue), Fde(1, 2, 5, q)>>) : q \in Long}
  \cup {Image(FALSE, <<Cie(CieX86, -8, FALSE), Fde(1, 0, 5, p)>>) : p \in Long}
  \cup {Image(TRUE, <<Wide(Cie(cie, -8, FALSE)), Fde(1, 0, 5, p)>>) : p \in Long, cie \in {CieArm, <<>>}}

(* Two CIEs, sections that go bad, headers in another order, cut or wrong,  *)
(* and every choice of a section.                                           *)
TwoCies ==
  <<Cie(<<>>, -8, FALSE), Fde(1, 0, 2, Prologue), Cie(<<Save("RIP", 2)>>, -4, TRUE),
    Fde(3, 2, 4, <<>>), Fde(1, 4, 5, <<>>)>>
OneCie == <<Cie(CieX86, -8, FALSE), Fde(1, 0, 3, Prologue)>>
Bads ==
  {[TwoCies EXCEPT ![n] = e] : n \in 1 .. 5, e \in {Bad, Unfit(Fde(3, 2, 4, <<>>)), Fde(2, 2, 4, <<>>)}}
Headers ==
  {NoHdr, Hdr(FALSE, <<>>), Hdr(TRUE, <<>>), Hdr(TRUE, <<2, 4, 5>>), Hdr(TRUE, <<5, 4, 2>>),
   Hdr(TRUE, <<4, 3, 2>>), Hdr(TRUE, <<2, 9, 4>>)}
Loaded ==
  {Image(FALSE, eh) : eh \in Bads}
  \cup {File(FALSE, <<>>, eh, <<>>, h) : eh \in {TwoCies, [TwoCies EXCEPT ![4] = Bad]}, h \in Headers}
  \cup {File(FALSE, debug, eh, zdebug, Hdr(TRUE, <<2>>)) :
           debug \in {<<>>, OneCie}, eh \in {<<>>, OneCie, TwoCies}, zdebug \in {<<>>, OneCie}}

(* Another file with another factor may be loaded first.                    *)
OtherFactor == Image(FALSE, <<Cie(<<>>, -4, FALSE), Fde(1, 0, 1, <<>>)>>)
Pair(a, b) == [f \in Cfi |-> IF f = f1 THEN a ELSE b]

MCImages ==
  {Pair(a, NoFile) : a \in Scanned \cup Loaded}
  \cup {Pair(a, OtherFactor) : a \in {Image(FALSE, TwoCies), Image(FALSE, OneCie)}}
  \cup {Pair(Image(FALSE, <<Cie(<<>>, -8, FALSE), Fde(1, 0, 5, Fields)>>), OtherFactor)}
LongImages == [Cfi -> {Image(FALSE, <<Cie(CieX86, -8, FALSE), Fde(1, 0, 5, p)>>) : p \in Long}]
=============================================================================
