------------------------------ MODULE MCH1Pool ------------------------------
(***************************************************************************)
(* Instances of H1Pool for TLC.                                            *)
(***************************************************************************)
EXTENDS H1Pool
=============================================================================
