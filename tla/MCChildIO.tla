----------------------------- MODULE MCChildIO -----------------------------
(* Model values and symmetry for checking ChildIO with TLC.                *)
EXTENDS ChildIO, TLC

CONSTANTS i1, a1, a2, a3, a4

Symmetry == Permutations(Addrs)
=============================================================================
