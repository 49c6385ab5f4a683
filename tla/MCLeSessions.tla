---------------------------- MODULE MCLeSessions ----------------------------
(* Two clients that are alike, and a request. *)
EXTENDS LeSessions, TLC

ClientSymmetry == Permutations(Clients)
=============================================================================
