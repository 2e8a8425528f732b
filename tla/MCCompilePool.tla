--------------------------- MODULE MCCompilePool ----------------------------
(* The compile pool on up to MaxUnits sources.                               *)
EXTENDS CompilePool
=============================================================================
