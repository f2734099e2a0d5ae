------------------------------ MODULE MCH2Pool ------------------------------
(***************************************************************************)
(* Instances of H2Pool for TLC.                                            *)
(***************************************************************************)
EXTENDS H2Pool, TLC

PoolSymmetry == Permutations(Threads) \cup Permutations(Keys)
=============================================================================
