----------------------------- MODULE MCUnwindLoop -----------------------------
(* Stacks of up to three frames, with and without a leaf frame, and depth   *)
(* limits that such stacks reach.                                           *)
EXTENDS UnwindLoop
=============================================================================
