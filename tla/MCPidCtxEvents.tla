---------------------------- MODULE MCPidCtxEvents ----------------------------
(* Two threads with two events each, and a table one listener too small.    *)
EXTENDS PidCtxEvents

CONSTANTS t1, t2, l1, l2, l3

TwoThreads     == {t1, t2}
ThreeListeners == {l1, l2, l3}
=============================================================================
