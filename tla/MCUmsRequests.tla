---------------------------- MODULE MCUmsRequests ----------------------------
(* The instances of UmsRequests that TLC checks. *)
EXTENDS UmsRequests, TLC

\* Calls are interchangeable.
CallSymmetry == Permutations(Calls)
=============================================================================
