------------------------------ MODULE MCGuCache ------------------------------
(* Instances of GuCache for model checking.                                *)
EXTENDS GuCache, TLC

CONSTANTS p1, p2, e1, e2

NoElfs  == {}
OnePid  == {p1}
TwoPids == {p1, p2}
TwoElfs == {e1, e2}
OneGo   == {e1}
On      == {TRUE}
Off     == {FALSE}
OneElf  == {e1}

PidSymmetry == Permutations(TwoPids)
=============================================================================
