---------------------------- MODULE MCEventLoop ----------------------------
(* EventLoop for TLC.  Sessions are interchangeable where only invariants   *)
(* are checked.                                                             *)
EXTENDS EventLoop, TLC

Symmetry == Permutations(Sessions)
=============================================================================
