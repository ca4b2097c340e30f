----------------------------- MODULE MCEventLoop -----------------------------
(***************************************************************************)
(* TLC instances of EventLoop.                                             *)
(***************************************************************************)
EXTENDS EventLoop, TLC

Symmetry == Permutations(Conns)
=============================================================================
