---------------------------- MODULE MCImageStore ----------------------------
(***************************************************************************)
(* TLC instances of ImageStore and the requests that read it.              *)
(***************************************************************************)
EXTENDS ImageQueries, TLC

Symmetry == Permutations(Machines)
=============================================================================
