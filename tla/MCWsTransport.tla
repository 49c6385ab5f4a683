---------------------------- MODULE MCWsTransport ----------------------------
(***************************************************************************)
(* The instances of WsTransport that TLC checks (the configurations give    *)
(* the constants their values), and what a comment of the code promises and   *)
(* the code does not keep.                                                  *)
(***************************************************************************)
EXTENDS WsTransport

\* "disconnecting old connection first": a connect() while connected ends with a
\* connection that has the queue connect() has created for it.
ReconnectedHasQueue == isConnected => sendingQueue = ws
=============================================================================
