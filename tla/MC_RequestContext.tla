--------------------------- MODULE MC_RequestContext ---------------------------
(* RequestContext with a small pool of threads and a bounded log. *)
EXTENDS RequestContext, TLC

Symmetric == Permutations(Threads)

=============================================================================
