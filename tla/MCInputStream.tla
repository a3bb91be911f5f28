---------------------------- MODULE MCInputStream ----------------------------
(* InputStream for two threads, which are alike. *)
EXTENDS InputStream

Alike == Permutations(Threads)
==============================================================================
