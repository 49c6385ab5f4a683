---------------------------- MODULE MCCsdsRefresh ----------------------------
(* A client that refreshes up to three times, and another user of its resolver. *)
EXTENDS CsdsRefresh

MCAccounts == {<<"le1">>}
MCServices == {<<"s">>}

MCCalls == RefreshCalls \cup {<<"other user", 1>>}
=============================================================================
