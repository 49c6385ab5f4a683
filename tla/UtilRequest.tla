----------------------------- MODULE UtilRequest -----------------------------
(***************************************************************************)
(* get, post and request of util-request: a request answered with 503 is    *)
(* sent once more, any answer but 200 is an error.                          *)
(*                                                                         *)
(* The HTTP library `got` is external: a try ends with a status, or with no   *)
(* answer (the promise rejects).  Before that got may have sent the request    *)
(* several times, as it does when a connection fails.                          *)
(***************************************************************************)

\* Statuses, as far as they are told apart; "none" is no answer.
Statuses == {"200", "503", "other", "none"}

\* A request is at its first or its second try.
Tries == {"first", "second"}

\* Mutant: the second try does not know that it is one.
Outcome_Endless(status, try) == CASE status = "503" -> "again"
                                  [] status = "200" -> "ok"
                                  [] OTHER -> "error"

\* What an answer makes of a try.
Outcome(status, try) == CASE status = "503" /\ try = "first" -> "again"
                          [] status = "200" -> "ok"
                          [] OTHER -> "error"

\* What may become of a try other than its success.
Outcomes(try) == {Outcome(status, try) : status \in Statuses} \ {"ok"}
=============================================================================
