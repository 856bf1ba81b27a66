----------------------------- MODULE MCDocuments -----------------------------
(***************************************************************************)
(* Documents for TLC.  Nothing distinguishes one administrator, or one run *)
(* of a worker, from another.                                              *)
(***************************************************************************)
EXTENDS Documents, TLC

Symmetry == Permutations(Admins) \cup Permutations(Workers)
==============================================================================
