-------------------------- MODULE BufferedTransport --------------------------
(***************************************************************************)
(* What the comments of WsTransport say of the messages it is given: it        *)
(* buffers them in case the socket is down, a message that could not be sent     *)
(* goes back to the buffer, and the buffer is flushed when it is let go of.       *)
(*                                                                         *)
(* This is weaker than ITransport.  There a promise rejects when its message    *)
(* is not sent; here the message of a rejected promise may be sent later, and    *)
(* the promises of a buffer that is let go of may never settle.                 *)
(***************************************************************************)
CONSTANT Calls  \* the calls of sendMessage

VARIABLES
    phase,      \* what became of the message of each call
    promise,    \* of each call
    buffer      \* the buffer in use

vars == <<phase, promise, buffer>>

Phases == {"new", "held", "sent", "dropped"}
Promises == {"none", "pending", "resolved", "rejected"}

Init == /\ phase = [c \in Calls |-> "new"]
        /\ promise = [c \in Calls |-> "none"]
        /\ buffer = 0

\* From one value to another.
Moves(c, p, q) == phase[c] = p /\ phase'[c] = q
Settles(c, p, q) == promise[c] = p /\ promise'[c] = q

\* A message is taken over, or refused when there is no buffer.
Send(c) == \/ buffer # 0 /\ Moves(c, "new", "held") /\ Settles(c, "none", "pending")
           \/ buffer = 0 /\ Moves(c, "new", "dropped") /\ Settles(c, "none", "rejected")

\* A message is sent once, from the buffer, whatever its caller has been told.
Deliver(c) == Moves(c, "held", "sent")

\* A promise resolves only when the message is sent.  It rejects with the message
\* dropped, or with the message still held.
Resolve(c) == Settles(c, "pending", "resolved") /\ phase'[c] = "sent"

Reject(c) == Settles(c, "pending", "rejected")

\* While its buffer is in use, a message is not dropped without its caller being told.
Drop(c) == Moves(c, "held", "dropped") /\ (promise'[c] # "pending" \/ buffer' # buffer)

Step(c) ==
    \/ Send(c)
    \/ /\ Deliver(c) \/ Drop(c) \/ phase'[c] = phase[c]
       /\ Resolve(c) \/ Reject(c) \/ promise'[c] = promise[c]

\* One event of a connection may concern many messages.
Next == /\ phase' \in [Calls -> Phases]
        /\ promise' \in [Calls -> Promises]
        /\ \A c \in Calls : Step(c)

Spec == Init /\ [][Next]_vars
=============================================================================
