---------------------------- MODULE MCUmsDispatch ----------------------------
(***************************************************************************)
(* Callbacks that are alike, notifications and responses; and what a comment  *)
(* of the code promises and the code does not keep.                          *)
(***************************************************************************)
EXTENDS UmsDispatch, TLC

CallbackSymmetry == Permutations(Callbacks)

\* "cleanup all remaining listeners": when a stop() succeeds, no callback listens and
\* no request waits any more.
StopCleansUp ==
    [][StopEnds => pending' = {} /\ \A c \in Callbacks : callback'[c].event = None]_vars
=============================================================================
