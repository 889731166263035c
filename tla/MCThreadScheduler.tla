------------------------- MODULE MCThreadScheduler -------------------------
(* The scheduler with one unit more than threads, with two more, and with  *)
(* twice as many.  With one unit per thread, as RenderImage uses it, it    *)
(* never has to wait.                                                      *)
EXTENDS ThreadScheduler
=============================================================================
