--------------------------- MODULE MCTraceSpill ---------------------------
(***************************************************************************)
(* Model-checking instances of TraceSpill.                                 *)
(***************************************************************************)
EXTENDS TraceSpill

AnyCompression == {"none", "zstd"}
=============================================================================
