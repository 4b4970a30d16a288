------------------------------ MODULE MCBspSync ------------------------------
(***************************************************************************)
(* BspSync: the cores are interchangeable.                                 *)
(***************************************************************************)
EXTENDS BspSync, TLC

CoreSymmetry == Permutations(Cores)

=============================================================================
