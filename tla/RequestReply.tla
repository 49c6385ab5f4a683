---------------------------- MODULE RequestReply ----------------------------
(***************************************************************************)
(* What UmsClient.sendMessage promises its caller: every request ends, with *)
(* the reply of the server to that very request or with an error, and it    *)
(* ends once.  A request may reach the server although its caller is told   *)
(* that it failed.                                                          *)
(***************************************************************************)
CONSTANTS Calls,  \* the calls of sendMessage
          None    \* no answer

VARIABLES
    phase,    \* of each call: "idle", "pending", "replied", "refused"
    reached,  \* the calls whose request has reached the server
    answer    \* whose answer each call has been given

vars == <<phase, reached, answer>>

Init == /\ phase = [c \in Calls |-> "idle"]
        /\ reached = {}
        /\ answer = [c \in Calls |-> None]

Submit(c) == /\ phase[c] = "idle"
             /\ phase' = [phase EXCEPT ![c] = "pending"]
             /\ UNCHANGED <<reached, answer>>

Reach(c) == /\ phase[c] # "idle"
            /\ c \notin reached
            /\ reached' = reached \cup {c}
            /\ UNCHANGED <<phase, answer>>

Reply(c) == /\ phase[c] = "pending"
            /\ c \in reached
            /\ phase' = [phase EXCEPT ![c] = "replied"]
            /\ answer' = [answer EXCEPT ![c] = c]
            /\ UNCHANGED reached

Refuse(c) == /\ phase[c] \in {"idle", "pending"}
             /\ phase' = [phase EXCEPT ![c] = "refused"]
             /\ UNCHANGED <<reached, answer>>

Next == \E c \in Calls : Submit(c) \/ Reach(c) \/ Reply(c) \/ Refuse(c)

Safety == Init /\ [][Next]_vars
Spec == /\ Safety
        /\ \A c \in Calls : WF_vars(phase[c] = "pending" /\ (Reply(c) \/ Refuse(c)))
=============================================================================
