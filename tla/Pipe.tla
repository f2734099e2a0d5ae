-------------------------------- MODULE Pipe --------------------------------
(***************************************************************************)
(* What a relay promises of one direction: the receiver gets the sender's  *)
(* units in the order they were sent, none twice and none left out, until  *)
(* the direction ends; after the end it gets nothing.  How long a unit is  *)
(* under way, and whether the last ones arrive, is left open.              *)
(***************************************************************************)
EXTENDS Sequences, SequencesExt

VARIABLES
    src,      \* the units sent so far
    dst,      \* the units received so far
    ended     \* whether the receiver has seen the end

vars == <<src, dst, ended>>

Init == src = <<>> /\ dst = <<>> /\ ended = FALSE

Send == IsPrefix(src, src') /\ UNCHANGED <<dst, ended>>

\* Units arrive; the end may arrive right behind them.
Deliver ==
    /\ ~ended
    /\ IsPrefix(dst, dst') /\ IsPrefix(dst', src)
    /\ ended' \in BOOLEAN
    /\ UNCHANGED src

Next == Send \/ Deliver

Spec == Init /\ [][Next]_vars
=============================================================================
