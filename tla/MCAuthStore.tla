---------------------------- MODULE MCAuthStore -----------------------------
(***************************************************************************)
(* Instances of AuthStore for TLC: symmetry.                               *)
(***************************************************************************)
EXTENDS AuthStore, TLC

CONSTANTS t1, t2

ThreadSymmetry == Permutations({t1, t2})
=============================================================================
