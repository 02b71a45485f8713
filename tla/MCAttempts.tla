----------------------------- MODULE MCAttempts -----------------------------
(***************************************************************************)
(* Attempts for TLC: addresses are interchangeable.                        *)
(***************************************************************************)
EXTENDS Attempts, TLC

AddressSymmetry == Permutations(IPs)
=============================================================================
