--------------------------- MODULE MCKernelSymbols ---------------------------
(* Two searching threads, so that one waits for the mutex or uses an entry  *)
(* while the other searches and the first tables are replaced by the        *)
(* second.  Addresses from 4 do not fit in "32 bits".                       *)
EXTENDS KernelSymbols, TLC

CONSTANTS s1, s2
TwoSearchers == {s1, s2}
Threads == Permutations(TwoSearchers)

Sym(type, start, name) == [type |-> type, start |-> start, name |-> name]
Boot == <<Sym("T", 4, "a"), Sym("d", 5, "x"), Sym("t", 7, "b")>>
(* A module is below the kernel and listed after it, and has a name twice.  *)
Module == Boot \o <<Sym("t", 5, "a")>>
(* Two names of one function.                                               *)
Alias == <<Sym("T", 4, "a"), Sym("t", 4, "b")>>
(* What kptr_restrict leaves to other users.                                *)
Hidden == <<Sym("T", 0, "a"), Sym("t", 0, "b")>>
Files == {Boot, Module, Alias, Hidden, <<>>}
Ends == {0, 2, 5, 8}
=============================================================================
