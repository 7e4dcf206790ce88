---------------------------- MODULE MCFileCache ----------------------------
(* The file cache for TLC: three threads, which are alike. *)
EXTENDS HttpFileCache, TLC

Threads == Permutations(Thread)
=============================================================================
