-------------------------- MODULE MCClientLifecycle --------------------------
(***************************************************************************)
(* The instances of ClientLifecycle that TLC checks (the configurations     *)
(* give the constants their values), and what comments of the code promise  *)
(* and the code does not keep.                                              *)
(***************************************************************************)
EXTENDS ClientLifecycle

\* "periodically refresh", "which is periodically called": a client that stays
\* ready is refreshed again and again.
AlwaysPeriodicRefresh ==
    <>[]Ready => []<>(awaiting["refresh"] # "none")
=============================================================================
