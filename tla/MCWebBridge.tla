---------------------------- MODULE MCWebBridge ----------------------------
(* Two operations on the bridge, of which one at a time is usual.          *)
EXTENDS WebBridge

CONSTANTS o1, o2
MCOp == {o1, o2}
=============================================================================
