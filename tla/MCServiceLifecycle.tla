------------------------- MODULE MCServiceLifecycle -------------------------
(***************************************************************************)
(* An instance of ServiceLifecycle for TLC.  The processes that run        *)
(* commands are only ever compared, so they may be permuted.               *)
(***************************************************************************)
EXTENDS ServiceLifecycle, TLC

Symmetry == Permutations(Clis)
=============================================================================
