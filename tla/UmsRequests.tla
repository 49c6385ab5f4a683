----------------------------- MODULE UmsRequests -----------------------------
(***************************************************************************)
(* UmsClient's requests: sendMessage races the response against a timeout,   *)
(* matching responses to requests by one-shot listeners on the request id.   *)
(* UmsDispatch has what else is received.                                    *)
(*                                                                         *)
(* start() and stop() are cut down to the steps this class adds or depends  *)
(* on (ClientLifecycle has the rest); the transport and the server are       *)
(* external.                                                                *)
(***************************************************************************)
EXTENDS StateMachine, Naturals, FiniteSets

CONSTANTS
    Calls,      \* the calls of sendMessage
    Ids,        \* the request ids
    None,       \* no id, no call
    MaxStarts,  \* bound: how often start() is called
    ReuseIds    \* the user takes ids again, at any time

ASSUME NoneAssumption == None \notin Calls /\ None \notin Ids
ASSUME StartsAssumption == MaxStarts \in Nat
ASSUME ReuseAssumption == ReuseIds \in BOOLEAN

VARIABLES
    connected,   \* the transport's connection is up
    listeners,   \* umsResponseHandler: the calls listening on each id
    status,      \* of each call, as its promise tells
    reqId,       \* the id each call has used
    result,      \* the call whose response each call was resolved with
    sending,     \* the calls whose promise at the transport is pending
    outbox,      \* the requests the transport may still put on the wire
    atServer,    \* the requests the server has and may answer
    responses,   \* the requests whose response is on its way
    reached,     \* the requests that ever reached the server
    usedIds,     \* the ids taken
    starts       \* how often start() has been called

callVars == <<listeners, status, reqId, result>>
queueVars == <<sending, outbox>>
wireVars == <<connected, atServer, responses>>
vars == <<state, transition, callVars, queueVars, wireVars, reached, usedIds, starts>>

Statuses == {"new", "waiting", "failing", "resolved", "rejected"}

TypeOK == /\ MachineTypeOK
          /\ connected \in BOOLEAN
          /\ listeners \in [Ids -> SUBSET Calls]
          /\ status \in [Calls -> Statuses]
          /\ reqId \in [Calls -> Ids \cup {None}]
          /\ result \in [Calls -> Calls \cup {None}]
          /\ sending \subseteq Calls
          /\ outbox \subseteq Calls
          /\ atServer \subseteq Calls
          /\ responses \subseteq Calls
          /\ reached \subseteq Calls
          /\ usedIds \subseteq Ids
          /\ starts \in 0..MaxStarts

Init == /\ MachineInit
        /\ connected = FALSE
        /\ listeners = [id \in Ids |-> {}]
        /\ status = [c \in Calls |-> "new"]
        /\ reqId = [c \in Calls |-> None]
        /\ result = [c \in Calls |-> None]
        /\ sending = {}
        /\ outbox = {}
        /\ atServer = {}
        /\ responses = {}
        /\ reached = {}
        /\ usedIds = {}
        /\ starts = 0

\* A rejected race has queued the microtask that cleans up; nothing is received,
\* and no stop() is over and followed by a start(), before it has run (but
\* further timers and sends may fail, and a stop() may end, in the same turn).
NoMicrotask == \A c \in Calls : status[c] # "failing"

-----------------------------------------------------------------------------
(* sendMessage *)

\* IIDGenerator makes unique ids; the client itself takes any.
MayUse(id) == ReuseIds \/ id \notin usedIds

listenerCount(id) == Cardinality(listeners[id])

\* Mutant: no look at the requests in progress.
InProgress_Unchecked(id) == FALSE

InProgress(id) == listenerCount(id) > 0

\* Refused on the spot: the id has a listener.
SendRefused(c, id) ==
    /\ InProgress(id)
    /\ status' = [status EXCEPT ![c] = "rejected"]
    /\ UNCHANGED <<listeners, result, queueVars>>

\* The listener is registered first; then the client that is not started
\* rejects, and the one that is hands the request to the transport.
SendAccepted(c, id) ==
    /\ ~InProgress(id)
    /\ listeners' = [listeners EXCEPT ![id] = @ \cup {c}]
    /\ \/ /\ state = "started"
          /\ status' = [status EXCEPT ![c] = "waiting"]
          /\ sending' = sending \cup {c}
          /\ outbox' = outbox \cup {c}
       \/ /\ state = "stopped"
          /\ status' = [status EXCEPT ![c] = "failing"]
          /\ UNCHANGED queueVars
    /\ UNCHANGED result

SendMessage(c, id) ==
    /\ status[c] = "new"
    /\ MayUse(id)
    /\ SendRefused(c, id) \/ SendAccepted(c, id)
    /\ reqId' = [reqId EXCEPT ![c] = id]
    /\ usedIds' = usedIds \cup {id}
    /\ MachineUnchanged
    /\ UNCHANGED <<wireVars, reached, starts>>

\* The promise of a call that waits is rejected; the catch handler runs later.
Reject(c) == status' = [status EXCEPT ![c] = IF @ = "waiting" THEN "failing" ELSE @]

\* Mutant: the listener of a failed request stays.
RemoveListeners_Kept(id) == UNCHANGED listeners

\* removeAllListeners(req.id)
RemoveListeners(id) == listeners' = [listeners EXCEPT ![id] = {}]

\* Mutant: only a started client times out.
MayTimeOut_Started(c) == status[c] = "waiting" /\ state = "started"

\* The timer of a call is never cleared; only a call that waits is rejected by it.
MayTimeOut(c) == status[c] = "waiting"

\* Mutant: the timer cleans up by itself, also for a call that has its response.
Timeout_CleansUp(c) ==
    /\ MayTimeOut(c) \/ status[c] = "resolved"
    /\ Reject(c)
    /\ RemoveListeners(reqId[c])
    /\ MachineUnchanged
    /\ UNCHANGED <<reqId, result, queueVars, wireVars, reached, usedIds, starts>>

Timeout(c) ==
    /\ MayTimeOut(c)
    /\ Reject(c)
    /\ MachineUnchanged
    /\ UNCHANGED <<listeners, reqId, result, queueVars, wireVars,
                   reached, usedIds, starts>>

\* The catch handler: no more listeners on this id, and the caller is told.
Cleanup(c) ==
    /\ status[c] = "failing"
    /\ RemoveListeners(reqId[c])
    /\ status' = [status EXCEPT ![c] = "rejected"]
    /\ MachineUnchanged
    /\ UNCHANGED <<reqId, result, queueVars, wireVars, reached, usedIds, starts>>

-----------------------------------------------------------------------------
(* The transport and the server *)

\* The transport writes a request to the connection and resolves its promise,
\* which nobody looks at.
Transmit(c) ==
    /\ c \in outbox
    /\ connected
    /\ outbox' = outbox \ {c}
    /\ sending' = sending \ {c}
    /\ atServer' = atServer \cup {c}
    /\ reached' = reached \cup {c}
    /\ MachineUnchanged
    /\ UNCHANGED <<callVars, connected, responses, usedIds, starts>>

\* The transport rejects its promise; it may keep the request and write it
\* to the connection later.
TransportRejects(c) ==
    /\ c \in sending
    /\ sending' = sending \ {c}
    /\ outbox' \in {outbox, outbox \ {c}}
    /\ Reject(c)
    /\ MachineUnchanged
    /\ UNCHANGED <<listeners, reqId, result, wireVars, reached, usedIds, starts>>

ServerResponds(c) ==
    /\ c \in atServer
    /\ atServer' = atServer \ {c}
    /\ responses' = responses \cup {c}
    /\ MachineUnchanged
    /\ UNCHANGED <<callVars, queueVars, connected, reached, usedIds, starts>>

\* The connection is gone, with everything on its way.
Disconnect == /\ connected' = FALSE
              /\ atServer' = {}
              /\ responses' = {}

ConnectionLost ==
    /\ connected
    /\ Disconnect
    /\ MachineUnchanged
    /\ UNCHANGED <<callVars, queueVars, reached, usedIds, starts>>

-----------------------------------------------------------------------------
(* The dispatch callback, one for each start() that has ended *)

\* Mutant: the response goes to every request that waits.
Resolves_All(c) == {d \in Calls : status[d] = "waiting"}

\* The calls that a response to call c resolves.
Resolves(c) == {d \in listeners[reqId[c]] : status[d] = "waiting"}

\* Mutant: the call is resolved with the id in place of the response.
Emit_GivesId(c) ==
    result' = [d \in Calls |-> IF d \in Resolves(c) THEN reqId[c] ELSE result[d]]

\* emit(res.reqId, res).  Every dispatch callback emits; the second one finds no
\* one-shot listener left.
Emit(c) == result' = [d \in Calls |-> IF d \in Resolves(c) THEN c ELSE result[d]]

ReceiveResponse(c) ==
    /\ c \in responses
    /\ NoMicrotask
    /\ responses' = responses \ {c}
    /\ Emit(c)
    /\ status' = [d \in Calls |-> IF d \in Resolves(c) THEN "resolved" ELSE status[d]]
    /\ RemoveListeners(reqId[c])
    /\ MachineUnchanged
    /\ UNCHANGED <<reqId, queueVars, connected, atServer, reached,
                   usedIds, starts>>

-----------------------------------------------------------------------------
(* start() and stop() *)

Start ==
    /\ starts < MaxStarts
    /\ NoMicrotask
    /\ Fire("start")
    /\ starts' = starts + 1
    /\ UNCHANGED <<callVars, queueVars, wireVars, reached, usedIds>>

\* The transport has connected (closing the connection a failed stop() may
\* have left), and the dispatch callback is registered in the same turn.
StartEnds ==
    /\ transition = "start"
    /\ NoMicrotask
    /\ Settle
    /\ connected' = TRUE
    /\ atServer' = {}
    /\ responses' = {}
    /\ UNCHANGED <<callVars, queueVars, reached, usedIds, starts>>

Stop ==
    /\ Fire("stop")
    /\ UNCHANGED <<callVars, queueVars, wireVars, reached, usedIds, starts>>

\* A start() or a stop() fails before it comes to this class: no listener is
\* added or removed, the connection may be closed.
StartOrStopFails ==
    /\ transition \in {"start", "stop"}
    /\ NoMicrotask
    /\ Settle
    /\ Disconnect \/ UNCHANGED wireVars
    /\ UNCHANGED <<callVars, queueVars, reached, usedIds, starts>>

\* The transport has disconnected: it drops its queue, leaving the promises
\* pending, but for a request its worker already holds.  The calls that wait are
\* not told, and keep their listeners: the removeAllListeners() that follows
\* hands an event that is undefined to EventEmitter, which removes its listeners.
StopEnds ==
    /\ transition = "stop"
    /\ Settle
    /\ Disconnect
    /\ \E kept \in SUBSET outbox : /\ outbox' = kept
                                   /\ sending' = sending \cap kept
    /\ UNCHANGED <<callVars, reached, usedIds, starts>>

-----------------------------------------------------------------------------
Next == \/ \E c \in Calls : \/ \E id \in Ids : SendMessage(c, id)
                            \/ Timeout(c) \/ Cleanup(c)
                            \/ Transmit(c) \/ TransportRejects(c)
                            \/ ServerResponds(c) \/ ReceiveResponse(c)
        \/ Start \/ StartEnds \/ Stop \/ StartOrStopFails \/ StopEnds
        \/ ConnectionLost

\* A timer that is armed fires and a queued microtask runs; neither the server
\* nor the transport nor the user owes anything.
Fairness == \A c \in Calls : WF_vars(Timeout(c)) /\ WF_vars(Cleanup(c))

Spec == Init /\ [][Next]_vars
FairSpec == Spec /\ Fairness

-----------------------------------------------------------------------------
(* Properties *)

\* "allow only one listener per event": no id ever has two listeners.
OneListenerPerId == \A id \in Ids : listenerCount(id) <= 1

\* No listener outlives its request: it belongs to a call with this id that has
\* not ended.  Whatever fails, no listener is leaked.
ListenersAreLive ==
    \A id \in Ids : \A c \in listeners[id] :
        reqId[c] = id /\ status[c] \in {"waiting", "failing"}

\* A request that waits has its listener, over stops and restarts, and whatever ids
\* are reused: it is not lost to the cleanup of another request, to a timer that
\* fires late, or to a stop().
ListenerKept == \A c \in Calls : status[c] = "waiting" => c \in listeners[reqId[c]]

\* A caller is given the response to its own request, across stops, restarts
\* and requests the transport sends late.
ResponseMatches == \A c \in Calls : result[c] \in {c, None}

\* Every call ends, in time or by its timeout, even when the client is stopped.
CallsEnd == \A c \in Calls : status[c] = "waiting" ~> status[c] \in {"resolved", "rejected"}

\* The mapping to what sendMessage promises.
PhaseOf(s) == CASE s = "new" -> "idle"
                [] s \in {"waiting", "failing"} -> "pending"
                [] s = "resolved" -> "replied"
                [] s = "rejected" -> "refused"

Phase == [c \in Calls |-> PhaseOf(status[c])]

RR == INSTANCE RequestReply WITH phase <- Phase, answer <- result

\* sendMessage keeps its promise when ids are unique.
RefinesRequestReply == RR!Spec
=============================================================================
