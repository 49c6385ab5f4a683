---------------------------- MODULE StateMachine ----------------------------
(***************************************************************************)
(* The state machine every client is driven by: the table CsdsClient hands  *)
(* to the library `javascript-state-machine`, and what that library does    *)
(* with it (external code, modelled from how CsdsClient uses it).           *)
(*                                                                         *)
(* Firing a transition changes the state at once; the callback registered  *)
(* for the transition then runs asynchronously, and until its promise       *)
(* settles no other transition may fire.  A callback that fails leaves the  *)
(* machine in the state it has already entered.                             *)
(***************************************************************************)

VARIABLES
    state,       \* the state the client reports
    transition   \* the transition whose callback is still running, or "none"

States == {"stopped", "started"}
Transitions == {"start", "stop", "refresh"}

From(t) == IF t = "start" THEN "stopped" ELSE "started"
\* Mutant: the table gives a refresh a state of its own to go to.
To_Refreshed(t) == IF t = "refresh" THEN "refreshed"
                   ELSE IF t = "stop" THEN "stopped" ELSE "started"

To(t) == IF t = "stop" THEN "stopped" ELSE "started"

MachineTypeOK == /\ state \in States
                 /\ transition \in Transitions \cup {"none"}

MachineInit == state = "stopped" /\ transition = "none"

\* Mutant: a pending transition is not looked at.
Can_IgnoresPending(t) == state = From(t)

Can(t) == transition = "none" /\ state = From(t)

Fire(t) == /\ Can(t)
           /\ transition' = t
           /\ state' = To(t)

\* The callback's promise is resolved or rejected: the state stays.
Settle == /\ transition' = "none"
          /\ UNCHANGED state

MachineUnchanged == UNCHANGED <<state, transition>>
=============================================================================
