---------------------------- MODULE MCCsdsResolver ----------------------------
(* Calls that are alike, about two accounts and a service.  The service of one    *)
(* account has the key of the other account, and users may write a domain.        *)
EXTENDS CsdsResolver, TLC

MCAccounts == {<<"le1">>, <<"le1", "s">>}
MCServices == {<<"s">>}

CallSymmetry == Permutations(Calls)
=============================================================================
