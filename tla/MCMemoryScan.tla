---------------------------- MODULE MCMemoryScan ----------------------------
(* Patterns for the run of MemoryScan: with and without wildcards, shorter  *)
(* than a window of three bytes, as long as it, and so long that the step   *)
(* of a window becomes 0 and wraps.                                         *)
EXTENDS MemoryScan

MCPatterns == {<<1>>, <<Any, 1>>, <<1, Any, 0>>, <<1, Any, 1, 1>>, <<1, 1, Any, Any, 1>>}

=============================================================================
