--------------------------- MODULE MCOnceSemaphore ---------------------------
(* Three threads, at most one unit at a time and two posts.                   *)
EXTENDS OnceSemaphore
=============================================================================
