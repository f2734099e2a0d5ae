---------------------------- MODULE MCTraceStore ----------------------------
(***************************************************************************)
(* Model-checking instances of TraceStore.                                 *)
(***************************************************************************)
EXTENDS TraceStore, TLC

\* Producers are interchangeable.
ProducerSymmetry == Permutations(Producers)

=============================================================================
