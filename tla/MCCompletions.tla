--------------------------- MODULE MCCompletions ---------------------------
(* A streamed call and a plain one for TLC.                                 *)
EXTENDS Completions

CONSTANTS s1, c1
=============================================================================
