-------------------------- MODULE UmsRequestsProofs --------------------------
(***************************************************************************)
(* Proofs about UmsRequests, for any calls, ids and number of starts.       *)
(*                                                                         *)
(* IInv is the inductive invariant.  It holds however ids are reused, but    *)
(* for UniqueInv, which is what ids that are never reused add to it.         *)
(***************************************************************************)
EXTENDS UmsRequests, FiniteSetTheorems, TLAPS

Unsettled(c) == status[c] \in {"waiting", "failing"}

\* A call has an id from when it is sent, and only calls that were sent are
\* under way.
CallInv ==
    /\ \A c \in Calls : status[c] = "new" <=> reqId[c] = None
    /\ \A c \in sending \cup outbox \cup reached : status[c] # "new"
    /\ atServer \cup responses \subseteq reached

\* OneListenerPerId, without a Cardinality.
Single == \A id \in Ids : \A c, d \in listeners[id] : c = d

\* Every call that has not ended has its listener: with Single, alone on its id.
KeptInv == \A c \in Calls : Unsettled(c) => c \in listeners[reqId[c]]

\* No two calls have the same id.
UniqueInv ==
    /\ \A c \in Calls : reqId[c] # None => reqId[c] \in usedIds
    /\ \A c, d \in Calls : reqId[c] = reqId[d] /\ reqId[c] # None => c = d

IInv == /\ TypeOK /\ CallInv /\ ListenersAreLive /\ Single /\ KeptInv
        /\ ~ReuseIds => UniqueInv /\ ResponseMatches

-----------------------------------------------------------------------------
(* Types *)

\* A step keeps the types.
LEMMA TypeStep == TypeOK /\ [Next]_vars => TypeOK'
<1> SUFFICES ASSUME TypeOK, [Next]_vars PROVE TypeOK'
  OBVIOUS
<1> USE NoneAssumption, StartsAssumption, ReuseAssumption DEF TypeOK, MachineTypeOK, Statuses, States, Transitions, vars, callVars, queueVars, wireVars, MachineUnchanged
<1>1. ASSUME NEW c \in Calls, NEW id \in Ids, SendMessage(c, id) PROVE TypeOK'
  BY <1>1 DEF SendMessage, SendRefused, SendAccepted
<1>2. ASSUME NEW c \in Calls, Timeout(c) PROVE TypeOK'
  BY <1>2 DEF Timeout, MayTimeOut, Reject
<1>3. ASSUME NEW c \in Calls, Cleanup(c) PROVE TypeOK'
  BY <1>3 DEF Cleanup, RemoveListeners
<1>4. ASSUME NEW c \in Calls, Transmit(c) PROVE TypeOK'
  BY <1>4 DEF Transmit
<1>5. ASSUME NEW c \in Calls, TransportRejects(c) PROVE TypeOK'
  BY <1>5 DEF TransportRejects, Reject
<1>6. ASSUME NEW c \in Calls, ServerResponds(c) PROVE TypeOK'
  BY <1>6 DEF ServerResponds
<1>7. ASSUME NEW c \in Calls, ReceiveResponse(c) PROVE TypeOK'
  BY <1>7 DEF ReceiveResponse, Emit, Resolves, RemoveListeners, NoMicrotask
<1>8. ASSUME Start PROVE TypeOK'
  BY <1>8 DEF Start, Fire, Can, From, To, NoMicrotask
<1>9. ASSUME StartEnds PROVE TypeOK'
  BY <1>9 DEF StartEnds, Settle, NoMicrotask
<1>10. ASSUME Stop PROVE TypeOK'
  BY <1>10 DEF Stop, Fire, Can, From, To
<1>11. ASSUME StartOrStopFails PROVE TypeOK'
  BY <1>11 DEF StartOrStopFails, Settle, Disconnect, NoMicrotask
<1>12. ASSUME StopEnds PROVE TypeOK'
  BY <1>12 DEF StopEnds, Settle, Disconnect
<1>13. ASSUME ConnectionLost PROVE TypeOK'
  BY <1>13 DEF ConnectionLost, Disconnect
<1>14. CASE UNCHANGED vars
  BY <1>14 DEF vars, callVars, queueVars, wireVars
<1>15. QED
  BY <1>1, <1>2, <1>3, <1>4, <1>5, <1>6, <1>7, <1>8, <1>9, <1>10, <1>11, <1>12, <1>13, <1>14 DEF Next

-----------------------------------------------------------------------------
(* Calls *)

\* A step keeps what is known of calls and their ids.
LEMMA CallStep == TypeOK /\ CallInv /\ [Next]_vars => CallInv'
<1> SUFFICES ASSUME TypeOK, CallInv, [Next]_vars PROVE CallInv'
  OBVIOUS
<1> USE NoneAssumption, StartsAssumption, ReuseAssumption DEF TypeOK, CallInv, Statuses, vars, callVars, queueVars, wireVars, MachineUnchanged
<1>1. ASSUME NEW c \in Calls, NEW id \in Ids, SendMessage(c, id) PROVE CallInv'
  BY <1>1 DEF SendMessage, SendRefused, SendAccepted
<1>2. ASSUME NEW c \in Calls, Timeout(c) PROVE CallInv'
  BY <1>2 DEF Timeout, MayTimeOut, Reject
<1>3. ASSUME NEW c \in Calls, Cleanup(c) PROVE CallInv'
  BY <1>3 DEF Cleanup, RemoveListeners
<1>4. ASSUME NEW c \in Calls, Transmit(c) PROVE CallInv'
  BY <1>4 DEF Transmit
<1>5. ASSUME NEW c \in Calls, TransportRejects(c) PROVE CallInv'
  BY <1>5 DEF TransportRejects, Reject
<1>6. ASSUME NEW c \in Calls, ServerResponds(c) PROVE CallInv'
  BY <1>6 DEF ServerResponds
<1>7. ASSUME NEW c \in Calls, ReceiveResponse(c) PROVE CallInv'
  BY <1>7 DEF ReceiveResponse, Emit, Resolves, RemoveListeners, NoMicrotask
<1>8. ASSUME Start PROVE CallInv'
  BY <1>8 DEF Start, Fire, Can, From, To, NoMicrotask
<1>9. ASSUME StartEnds PROVE CallInv'
  BY <1>9 DEF StartEnds, Settle, NoMicrotask
<1>10. ASSUME Stop PROVE CallInv'
  BY <1>10 DEF Stop, Fire, Can, From, To
<1>11. ASSUME StartOrStopFails PROVE CallInv'
  BY <1>11 DEF StartOrStopFails, Settle, Disconnect, NoMicrotask
<1>12. ASSUME StopEnds PROVE CallInv'
  BY <1>12 DEF StopEnds, Settle, Disconnect
<1>13. ASSUME ConnectionLost PROVE CallInv'
  BY <1>13 DEF ConnectionLost, Disconnect
<1>14. CASE UNCHANGED vars
  BY <1>14 DEF vars, callVars, queueVars, wireVars
<1>15. QED
  BY <1>1, <1>2, <1>3, <1>4, <1>5, <1>6, <1>7, <1>8, <1>9, <1>10, <1>11, <1>12, <1>13, <1>14 DEF Next

\* A step keeps listeners to calls that have not ended.
LEMMA LiveStep == TypeOK /\ CallInv /\ ListenersAreLive /\ [Next]_vars => ListenersAreLive'
<1> SUFFICES ASSUME TypeOK, CallInv, ListenersAreLive, [Next]_vars PROVE ListenersAreLive'
  OBVIOUS
<1> USE NoneAssumption, StartsAssumption, ReuseAssumption DEF TypeOK, CallInv, ListenersAreLive, Statuses, vars, callVars, queueVars, wireVars, MachineUnchanged
<1>1. ASSUME NEW c \in Calls, NEW id \in Ids, SendMessage(c, id) PROVE ListenersAreLive'
  BY <1>1 DEF SendMessage, SendRefused, SendAccepted
<1>2. ASSUME NEW c \in Calls, Timeout(c) PROVE ListenersAreLive'
  BY <1>2 DEF Timeout, MayTimeOut, Reject
<1>3. ASSUME NEW c \in Calls, Cleanup(c) PROVE ListenersAreLive'
  BY <1>3 DEF Cleanup, RemoveListeners
<1>4. ASSUME NEW c \in Calls, Transmit(c) PROVE ListenersAreLive'
  BY <1>4 DEF Transmit
<1>5. ASSUME NEW c \in Calls, TransportRejects(c) PROVE ListenersAreLive'
  BY <1>5 DEF TransportRejects, Reject
<1>6. ASSUME NEW c \in Calls, ServerResponds(c) PROVE ListenersAreLive'
  BY <1>6 DEF ServerResponds
<1>7. ASSUME NEW c \in Calls, ReceiveResponse(c) PROVE ListenersAreLive'
  BY <1>7 DEF ReceiveResponse, Emit, Resolves, RemoveListeners, NoMicrotask
<1>8. ASSUME Start PROVE ListenersAreLive'
  BY <1>8 DEF Start, Fire, Can, From, To, NoMicrotask
<1>9. ASSUME StartEnds PROVE ListenersAreLive'
  BY <1>9 DEF StartEnds, Settle, NoMicrotask
<1>10. ASSUME Stop PROVE ListenersAreLive'
  BY <1>10 DEF Stop, Fire, Can, From, To
<1>11. ASSUME StartOrStopFails PROVE ListenersAreLive'
  BY <1>11 DEF StartOrStopFails, Settle, Disconnect, NoMicrotask
<1>12. ASSUME StopEnds PROVE ListenersAreLive'
  BY <1>12 DEF StopEnds, Settle, Disconnect
<1>13. ASSUME ConnectionLost PROVE ListenersAreLive'
  BY <1>13 DEF ConnectionLost, Disconnect
<1>14. CASE UNCHANGED vars
  BY <1>14 DEF vars, callVars, queueVars, wireVars
<1>15. QED
  BY <1>1, <1>2, <1>3, <1>4, <1>5, <1>6, <1>7, <1>8, <1>9, <1>10, <1>11, <1>12, <1>13, <1>14 DEF Next

-----------------------------------------------------------------------------
(* Listeners *)

\* With at most one listener on each id, an id is in progress when it has one.
LEMMA ListenerCount == Single => \A id \in Ids : InProgress(id) <=> listeners[id] # {}
<1> SUFFICES ASSUME Single, NEW id \in Ids PROVE InProgress(id) <=> listeners[id] # {}
  OBVIOUS
<1>1. CASE listeners[id] = {}
  BY <1>1, FS_EmptySet DEF InProgress, listenerCount
<1>2. CASE listeners[id] # {}
  <2>1. PICK c \in listeners[id] : listeners[id] = {c}
    BY <1>2 DEF Single
  <2>2. Cardinality(listeners[id]) = 1
    BY <2>1, FS_Singleton
  <2>3. QED
    BY <1>2, <2>2 DEF InProgress, listenerCount
<1>3. QED
  BY <1>1, <1>2

\* No id has two listeners.
LEMMA SingleIsOne == Single => OneListenerPerId
<1> SUFFICES ASSUME Single, NEW id \in Ids PROVE listenerCount(id) <= 1
  BY DEF OneListenerPerId
<1>1. CASE listeners[id] = {}
  BY <1>1, FS_EmptySet DEF listenerCount
<1>2. CASE listeners[id] # {}
  <2>1. PICK c \in listeners[id] : listeners[id] = {c}
    BY <1>2 DEF Single
  <2>2. QED
    BY <2>1, FS_Singleton DEF listenerCount
<1>3. QED
  BY <1>1, <1>2

\* A step adds no second listener to an id.
LEMMA SingleStep == TypeOK /\ Single /\ [Next]_vars => Single'
<1> SUFFICES ASSUME TypeOK, Single, [Next]_vars PROVE Single'
  OBVIOUS
<1> USE NoneAssumption, StartsAssumption, ReuseAssumption DEF TypeOK, Single, vars, callVars, queueVars, wireVars, MachineUnchanged
<1>1. ASSUME NEW c \in Calls, NEW id \in Ids, SendMessage(c, id) PROVE Single'
  <2>1. CASE SendRefused(c, id)
    BY <1>1, <2>1 DEF SendMessage, SendRefused
  <2>2. CASE SendAccepted(c, id)
    BY <1>1, <2>2, ListenerCount DEF SendMessage, SendAccepted
  <2>3. QED
    BY <1>1, <2>1, <2>2 DEF SendMessage
<1>2. ASSUME NEW c \in Calls, Timeout(c) PROVE Single'
  BY <1>2 DEF Timeout, MayTimeOut, Reject
<1>3. ASSUME NEW c \in Calls, Cleanup(c) PROVE Single'
  BY <1>3 DEF Cleanup, RemoveListeners
<1>4. ASSUME NEW c \in Calls, Transmit(c) PROVE Single'
  BY <1>4 DEF Transmit
<1>5. ASSUME NEW c \in Calls, TransportRejects(c) PROVE Single'
  BY <1>5 DEF TransportRejects, Reject
<1>6. ASSUME NEW c \in Calls, ServerResponds(c) PROVE Single'
  BY <1>6 DEF ServerResponds
<1>7. ASSUME NEW c \in Calls, ReceiveResponse(c) PROVE Single'
  BY <1>7 DEF ReceiveResponse, Emit, Resolves, RemoveListeners, NoMicrotask
<1>8. ASSUME Start PROVE Single'
  BY <1>8 DEF Start, Fire, Can, From, To, NoMicrotask
<1>9. ASSUME StartEnds PROVE Single'
  BY <1>9 DEF StartEnds, Settle, NoMicrotask
<1>10. ASSUME Stop PROVE Single'
  BY <1>10 DEF Stop, Fire, Can, From, To
<1>11. ASSUME StartOrStopFails PROVE Single'
  BY <1>11 DEF StartOrStopFails, Settle, Disconnect, NoMicrotask
<1>12. ASSUME StopEnds PROVE Single'
  BY <1>12 DEF StopEnds, Settle, Disconnect
<1>13. ASSUME ConnectionLost PROVE Single'
  BY <1>13 DEF ConnectionLost, Disconnect
<1>14. CASE UNCHANGED vars
  BY <1>14 DEF vars, callVars, queueVars, wireVars
<1>15. QED
  BY <1>1, <1>2, <1>3, <1>4, <1>5, <1>6, <1>7, <1>8, <1>9, <1>10, <1>11, <1>12, <1>13, <1>14 DEF Next

\* A step keeps the listeners of the calls that have not ended.
LEMMA KeptStep == TypeOK /\ CallInv /\ ListenersAreLive /\ Single /\ KeptInv /\ [Next]_vars => KeptInv'
<1> SUFFICES ASSUME TypeOK, CallInv, ListenersAreLive, Single, KeptInv, [Next]_vars PROVE KeptInv'
  OBVIOUS
<1> USE NoneAssumption, StartsAssumption, ReuseAssumption DEF TypeOK, MachineTypeOK, States, CallInv, ListenersAreLive, Single, KeptInv, Unsettled, Statuses, vars, callVars, queueVars, wireVars, MachineUnchanged
<1>1. ASSUME NEW c \in Calls, NEW id \in Ids, SendMessage(c, id) PROVE KeptInv'
  <2>1. CASE SendRefused(c, id)
    BY <1>1, <2>1 DEF SendMessage, SendRefused
  <2>2. CASE SendAccepted(c, id)
    BY <1>1, <2>2, ListenerCount DEF SendMessage, SendAccepted
  <2>3. QED
    BY <1>1, <2>1, <2>2 DEF SendMessage
<1>2. ASSUME NEW c \in Calls, Timeout(c) PROVE KeptInv'
  BY <1>2 DEF Timeout, MayTimeOut, Reject
<1>3. ASSUME NEW c \in Calls, Cleanup(c) PROVE KeptInv'
  BY <1>3 DEF Cleanup, RemoveListeners
<1>4. ASSUME NEW c \in Calls, Transmit(c) PROVE KeptInv'
  BY <1>4 DEF Transmit
<1>5. ASSUME NEW c \in Calls, TransportRejects(c) PROVE KeptInv'
  BY <1>5 DEF TransportRejects, Reject
<1>6. ASSUME NEW c \in Calls, ServerResponds(c) PROVE KeptInv'
  BY <1>6 DEF ServerResponds
<1>7. ASSUME NEW c \in Calls, ReceiveResponse(c) PROVE KeptInv'
  BY <1>7 DEF ReceiveResponse, Emit, Resolves, RemoveListeners, NoMicrotask
<1>8. ASSUME Start PROVE KeptInv'
  BY <1>8 DEF Start, Fire, Can, From, To, NoMicrotask
<1>9. ASSUME StartEnds PROVE KeptInv'
  BY <1>9 DEF StartEnds, Settle, NoMicrotask
<1>10. ASSUME Stop PROVE KeptInv'
  BY <1>10 DEF Stop, Fire, Can, From, To
<1>11. ASSUME StartOrStopFails PROVE KeptInv'
  BY <1>11 DEF StartOrStopFails, Settle, Disconnect, NoMicrotask
<1>12. ASSUME StopEnds PROVE KeptInv'
  BY <1>12 DEF StopEnds, Settle, Disconnect
<1>13. ASSUME ConnectionLost PROVE KeptInv'
  BY <1>13 DEF ConnectionLost, Disconnect
<1>14. CASE UNCHANGED vars
  BY <1>14 DEF vars, callVars, queueVars, wireVars
<1>15. QED
  BY <1>1, <1>2, <1>3, <1>4, <1>5, <1>6, <1>7, <1>8, <1>9, <1>10, <1>11, <1>12, <1>13, <1>14 DEF Next

\* When ids are never reused, a step keeps them unique.
LEMMA UniqueStep == ~ReuseIds /\ TypeOK /\ CallInv /\ UniqueInv /\ [Next]_vars => UniqueInv'
<1> SUFFICES ASSUME ~ReuseIds, TypeOK, CallInv, UniqueInv, [Next]_vars PROVE UniqueInv'
  OBVIOUS
<1> USE NoneAssumption, StartsAssumption, ReuseAssumption DEF TypeOK, CallInv, UniqueInv, MayUse, vars, callVars, queueVars, wireVars, MachineUnchanged
<1>1. ASSUME NEW c \in Calls, NEW id \in Ids, SendMessage(c, id) PROVE UniqueInv'
  BY <1>1 DEF SendMessage, SendRefused, SendAccepted
<1>2. ASSUME NEW c \in Calls, Timeout(c) PROVE UniqueInv'
  BY <1>2 DEF Timeout, MayTimeOut, Reject
<1>3. ASSUME NEW c \in Calls, Cleanup(c) PROVE UniqueInv'
  BY <1>3 DEF Cleanup, RemoveListeners
<1>4. ASSUME NEW c \in Calls, Transmit(c) PROVE UniqueInv'
  BY <1>4 DEF Transmit
<1>5. ASSUME NEW c \in Calls, TransportRejects(c) PROVE UniqueInv'
  BY <1>5 DEF TransportRejects, Reject
<1>6. ASSUME NEW c \in Calls, ServerResponds(c) PROVE UniqueInv'
  BY <1>6 DEF ServerResponds
<1>7. ASSUME NEW c \in Calls, ReceiveResponse(c) PROVE UniqueInv'
  BY <1>7 DEF ReceiveResponse, Emit, Resolves, RemoveListeners, NoMicrotask
<1>8. ASSUME Start PROVE UniqueInv'
  BY <1>8 DEF Start, Fire, Can, From, To, NoMicrotask
<1>9. ASSUME StartEnds PROVE UniqueInv'
  BY <1>9 DEF StartEnds, Settle, NoMicrotask
<1>10. ASSUME Stop PROVE UniqueInv'
  BY <1>10 DEF Stop, Fire, Can, From, To
<1>11. ASSUME StartOrStopFails PROVE UniqueInv'
  BY <1>11 DEF StartOrStopFails, Settle, Disconnect, NoMicrotask
<1>12. ASSUME StopEnds PROVE UniqueInv'
  BY <1>12 DEF StopEnds, Settle, Disconnect
<1>13. ASSUME ConnectionLost PROVE UniqueInv'
  BY <1>13 DEF ConnectionLost, Disconnect
<1>14. CASE UNCHANGED vars
  BY <1>14 DEF vars, callVars, queueVars, wireVars
<1>15. QED
  BY <1>1, <1>2, <1>3, <1>4, <1>5, <1>6, <1>7, <1>8, <1>9, <1>10, <1>11, <1>12, <1>13, <1>14 DEF Next

\* When ids are unique, a step gives a call no response but its own.
LEMMA MatchStep == TypeOK /\ CallInv /\ ListenersAreLive /\ UniqueInv /\ ResponseMatches /\ [Next]_vars => ResponseMatches'
<1> SUFFICES ASSUME TypeOK, CallInv, ListenersAreLive, UniqueInv, ResponseMatches, [Next]_vars PROVE ResponseMatches'
  OBVIOUS
<1> USE NoneAssumption, StartsAssumption, ReuseAssumption DEF TypeOK, CallInv, ListenersAreLive, UniqueInv, ResponseMatches, vars, callVars, queueVars, wireVars, MachineUnchanged
<1>1. ASSUME NEW c \in Calls, NEW id \in Ids, SendMessage(c, id) PROVE ResponseMatches'
  BY <1>1 DEF SendMessage, SendRefused, SendAccepted
<1>2. ASSUME NEW c \in Calls, Timeout(c) PROVE ResponseMatches'
  BY <1>2 DEF Timeout, MayTimeOut, Reject
<1>3. ASSUME NEW c \in Calls, Cleanup(c) PROVE ResponseMatches'
  BY <1>3 DEF Cleanup, RemoveListeners
<1>4. ASSUME NEW c \in Calls, Transmit(c) PROVE ResponseMatches'
  BY <1>4 DEF Transmit
<1>5. ASSUME NEW c \in Calls, TransportRejects(c) PROVE ResponseMatches'
  BY <1>5 DEF TransportRejects, Reject
<1>6. ASSUME NEW c \in Calls, ServerResponds(c) PROVE ResponseMatches'
  BY <1>6 DEF ServerResponds
<1>7. ASSUME NEW c \in Calls, ReceiveResponse(c) PROVE ResponseMatches'
  BY <1>7 DEF ReceiveResponse, Emit, Resolves, RemoveListeners, NoMicrotask
<1>8. ASSUME Start PROVE ResponseMatches'
  BY <1>8 DEF Start, Fire, Can, From, To, NoMicrotask
<1>9. ASSUME StartEnds PROVE ResponseMatches'
  BY <1>9 DEF StartEnds, Settle, NoMicrotask
<1>10. ASSUME Stop PROVE ResponseMatches'
  BY <1>10 DEF Stop, Fire, Can, From, To
<1>11. ASSUME StartOrStopFails PROVE ResponseMatches'
  BY <1>11 DEF StartOrStopFails, Settle, Disconnect, NoMicrotask
<1>12. ASSUME StopEnds PROVE ResponseMatches'
  BY <1>12 DEF StopEnds, Settle, Disconnect
<1>13. ASSUME ConnectionLost PROVE ResponseMatches'
  BY <1>13 DEF ConnectionLost, Disconnect
<1>14. CASE UNCHANGED vars
  BY <1>14 DEF vars, callVars, queueVars, wireVars
<1>15. QED
  BY <1>1, <1>2, <1>3, <1>4, <1>5, <1>6, <1>7, <1>8, <1>9, <1>10, <1>11, <1>12, <1>13, <1>14 DEF Next

-----------------------------------------------------------------------------
(* The invariant *)

LEMMA InitHolds == Init => IInv
<1> SUFFICES ASSUME Init PROVE IInv
  OBVIOUS
<1> USE DEF Init, MachineInit
<1>1. TypeOK
  <2>1. starts \in 0..MaxStarts
    BY StartsAssumption
  <2>2. listeners \in [Ids -> SUBSET Calls] /\ status \in [Calls -> Statuses]
    BY DEF Statuses
  <2>3. reqId \in [Calls -> Ids \cup {None}] /\ result \in [Calls -> Calls \cup {None}]
    OBVIOUS
  <2>4. QED
    BY <2>1, <2>2, <2>3 DEF TypeOK, MachineTypeOK, States
<1>2. CallInv /\ ListenersAreLive /\ Single
  BY DEF CallInv, ListenersAreLive, Single
<1>3. KeptInv
  BY DEF KeptInv, Unsettled
<1>4. UniqueInv /\ ResponseMatches
  BY DEF UniqueInv, ResponseMatches
<1>5. QED
  BY <1>1, <1>2, <1>3, <1>4 DEF IInv

LEMMA StepHolds == IInv /\ [Next]_vars => IInv'
<1> SUFFICES ASSUME IInv, [Next]_vars PROVE IInv'
  OBVIOUS
<1>1. TypeOK' /\ CallInv' /\ ListenersAreLive' /\ Single' /\ KeptInv'
  BY TypeStep, CallStep, LiveStep, SingleStep, KeptStep DEF IInv
<1>2. ~ReuseIds => UniqueInv' /\ ResponseMatches'
  BY UniqueStep, MatchStep DEF IInv
<1>3. QED
  BY <1>1, <1>2 DEF IInv

\* The inductive invariant holds in every reachable state.
THEOREM InvariantHolds == Spec => []IInv
BY InitHolds, StepHolds, PTL DEF Spec

\* The types: a timer, a send, a response or an event of the connection that comes
\* at any time finds the call it is about.
THEOREM TypeCorrect == Spec => []TypeOK
<1>1. IInv => TypeOK
  BY DEF IInv
<1>2. QED
  BY InvariantHolds, <1>1, PTL

\* No id ever has two listeners, however the user takes ids again.
THEOREM OneListenerPerIdHolds == Spec => []OneListenerPerId
<1>1. IInv => OneListenerPerId
  BY SingleIsOne DEF IInv
<1>2. QED
  BY InvariantHolds, <1>1, PTL

\* No listener outlives its call, whatever times out, fails, stops or restarts.
THEOREM ListenersAreLiveHolds == Spec => []ListenersAreLive
<1>1. IInv => ListenersAreLive
  BY DEF IInv
<1>2. QED
  BY InvariantHolds, <1>1, PTL

\* With ids that are never taken again, a caller is given no response but the one to
\* its own request.
THEOREM ResponseMatchesHolds == Spec /\ ~ReuseIds => []ResponseMatches
<1>1. IInv /\ ~ReuseIds => ResponseMatches
  BY DEF IInv
<1>2. CASE ~ReuseIds
  <2>1. IInv => ResponseMatches
    BY <1>1, <1>2
  <2>2. QED
    BY InvariantHolds, <2>1, PTL
<1>3. CASE ReuseIds
  BY <1>3
<1>4. QED
  BY <1>2, <1>3

\* A call that waits has its listener: no timer, stop() or restart and no other call
\* takes it away, not even one with the same id.
THEOREM ListenerKeptHolds == Spec => []ListenerKept
<1>1. IInv => ListenerKept
  BY DEF IInv, KeptInv, Unsettled, ListenerKept
<1>2. QED
  BY InvariantHolds, <1>1, PTL

-----------------------------------------------------------------------------
(* Refinement *)

\* The phase of a call is that of its status alone.
LEMMA PhaseIs ==
    ASSUME TypeOK, NEW c \in Calls
    PROVE  /\ Phase[c] = "idle" <=> status[c] = "new"
           /\ Phase[c] = "pending" <=> Unsettled(c)
           /\ Phase[c] = "replied" <=> status[c] = "resolved"
           /\ Phase[c] = "refused" <=> status[c] = "rejected"
<1>1. status[c] \in Statuses
  BY DEF TypeOK
<1>2. QED
  BY <1>1 DEF Phase, PhaseOf, Statuses, Unsettled

\* A step that changes no status, or only lets a call wait on or fail, changes no phase.
LEMMA SamePhase ==
    ASSUME TypeOK, TypeOK',
           \A c \in Calls : status'[c] = status[c] \/ (Unsettled(c) /\ Unsettled(c)')
    PROVE  Phase' = Phase
<1>1. ASSUME NEW c \in Calls PROVE Phase'[c] = Phase[c]
  <2>2. CASE status'[c] = status[c]
    BY <2>2 DEF Phase
  <2>3. CASE Unsettled(c) /\ Unsettled(c)'
    BY <2>3 DEF Phase, PhaseOf, Unsettled
  <2>4. QED
    BY <2>2, <2>3
<1>2. Phase = [c \in Calls |-> Phase[c]] /\ Phase' = [c \in Calls |-> Phase'[c]]
  BY DEF Phase
<1>3. QED
  BY <1>1, <1>2

\* A step that changes the status of one call changes its phase alone.
LEMMA OnePhase ==
    ASSUME TypeOK, TypeOK', NEW c \in Calls, NEW p,
           \A d \in Calls \ {c} : status'[d] = status[d],
           Phase'[c] = p
    PROVE  Phase' = [Phase EXCEPT ![c] = p]
<1>1. ASSUME NEW d \in Calls \ {c} PROVE Phase'[d] = Phase[d]
  BY DEF Phase
<1>2. Phase = [d \in Calls |-> Phase[d]] /\ Phase' = [d \in Calls |-> Phase'[d]]
  BY DEF Phase
<1>3. QED
  BY <1>1, <1>2

\* A call of sendMessage is submitted or refused.
LEMMA SendRefines ==
    ASSUME IInv, IInv', NEW c \in Calls, NEW id \in Ids, SendMessage(c, id)
    PROVE  RR!Submit(c) \/ RR!Refuse(c)
<1> USE DEF IInv
<1>1. Phase[c] = "idle" /\ UNCHANGED <<reached, result>>
  BY PhaseIs DEF SendMessage, SendRefused, SendAccepted
<1>2. \A d \in Calls \ {c} : status'[d] = status[d]
  BY DEF SendMessage, SendRefused, SendAccepted, TypeOK
<1>3. CASE SendRefused(c, id)
  <2>1. Phase'[c] = "refused"
    BY <1>3 DEF SendRefused, Phase, PhaseOf, TypeOK
  <2>2. QED
    BY <1>1, <1>2, <2>1, OnePhase DEF RR!Refuse
<1>4. CASE SendAccepted(c, id)
  <2>1. Phase'[c] = "pending"
    BY <1>4 DEF SendAccepted, Phase, PhaseOf, TypeOK
  <2>2. QED
    BY <1>1, <1>2, <2>1, OnePhase DEF RR!Submit
<1>5. QED
  BY <1>3, <1>4 DEF SendMessage

\* The cleanup refuses the call.
LEMMA CleanupRefines ==
    ASSUME IInv, IInv', NEW c \in Calls, Cleanup(c)
    PROVE  RR!Refuse(c)
<1> USE DEF IInv
<1>1. Phase[c] = "pending" /\ UNCHANGED <<reached, result>>
  BY PhaseIs DEF Cleanup, Unsettled
<1>2. \A d \in Calls \ {c} : status'[d] = status[d]
  BY DEF Cleanup, TypeOK
<1>3. Phase'[c] = "refused"
  BY DEF Cleanup, Phase, PhaseOf, TypeOK
<1>4. QED
  BY <1>1, <1>2, <1>3, OnePhase DEF RR!Refuse

\* With unique ids, a response resolves its own call, or none that waits.
LEMMA ResponseRefines ==
    ASSUME IInv, IInv', ~ReuseIds, NEW c \in Calls, ReceiveResponse(c)
    PROVE  RR!Reply(c) \/ UNCHANGED RR!vars
<1> USE DEF IInv
<1>1. Resolves(c) \subseteq {c}
  <2>1. reqId[c] \in Ids
    BY DEF ReceiveResponse, CallInv, TypeOK
  <2>2. QED
    BY <2>1, NoneAssumption DEF Resolves, TypeOK, ListenersAreLive, UniqueInv
<1>2. CASE c \in Resolves(c)
  <2>1. Phase[c] = "pending" /\ c \in reached /\ UNCHANGED reached
    BY <1>2, PhaseIs DEF Resolves, ReceiveResponse, CallInv, Unsettled
  <2>2. \A d \in Calls \ {c} : status'[d] = status[d]
    BY <1>1 DEF ReceiveResponse
  <2>3. Phase'[c] = "replied"
    BY <1>2 DEF ReceiveResponse, Phase, PhaseOf, TypeOK
  <2>4. result' = [result EXCEPT ![c] = c]
    BY <1>1, <1>2 DEF ReceiveResponse, Emit, TypeOK
  <2>5. QED
    BY <2>1, <2>2, <2>3, <2>4, OnePhase DEF RR!Reply
<1>3. CASE c \notin Resolves(c)
  <2>1. Resolves(c) = {}
    BY <1>1, <1>3
  <2>2. status' = status /\ result' = result /\ UNCHANGED reached
    BY <2>1 DEF ReceiveResponse, Emit, TypeOK
  <2>3. QED
    BY <2>2, SamePhase DEF RR!vars
<1>4. QED
  BY <1>2, <1>3

\* A request that the transport writes reaches the server.
LEMMA TransmitRefines ==
    ASSUME IInv, IInv', NEW c \in Calls, Transmit(c)
    PROVE  RR!Reach(c) \/ UNCHANGED RR!vars
<1> USE DEF IInv
<1>1. status' = status /\ result' = result /\ reached' = reached \cup {c}
  BY DEF Transmit, callVars
<1>2. Phase' = Phase
  BY <1>1, SamePhase
<1>3. Phase[c] # "idle"
  BY PhaseIs DEF Transmit, CallInv
<1>4. CASE c \in reached
  BY <1>1, <1>2, <1>4 DEF RR!vars
<1>5. CASE c \notin reached
  BY <1>1, <1>2, <1>3, <1>5 DEF RR!Reach
<1>6. QED
  BY <1>4, <1>5

\* No other step shows.
LEMMA OtherRefines ==
    ASSUME IInv, IInv',
           \/ \E c \in Calls : Timeout(c) \/ TransportRejects(c) \/ ServerResponds(c)
           \/ Start \/ StartEnds \/ Stop \/ StartOrStopFails \/ StopEnds
           \/ ConnectionLost \/ UNCHANGED vars
    PROVE  UNCHANGED RR!vars
<1> USE DEF IInv
<1>1. UNCHANGED <<reached, result>>
  BY DEF Timeout, TransportRejects, ServerResponds, Start, StartEnds, Stop,
         StartOrStopFails, StopEnds, ConnectionLost, vars, callVars
<1>2. \A c \in Calls : status'[c] = status[c] \/ (Unsettled(c) /\ Unsettled(c)')
  BY DEF Timeout, TransportRejects, Reject, ServerResponds, Start, StartEnds, Stop,
         StartOrStopFails, StopEnds, ConnectionLost, vars, callVars, TypeOK, Unsettled
<1>3. QED
  BY <1>1, <1>2, SamePhase DEF RR!vars

LEMMA InitRefines == Init => RR!Init
BY DEF Init, RR!Init, Phase, PhaseOf

LEMMA NextRefines ==
    ~ReuseIds /\ IInv /\ IInv' /\ [Next]_vars => [RR!Next]_(RR!vars)
<1> SUFFICES ASSUME ~ReuseIds, IInv, IInv', [Next]_vars
             PROVE  RR!Next \/ UNCHANGED RR!vars
  OBVIOUS
<1>1. ASSUME NEW c \in Calls, NEW id \in Ids, SendMessage(c, id)
      PROVE  RR!Next
  BY <1>1, SendRefines DEF RR!Next
<1>2. ASSUME NEW c \in Calls, Cleanup(c) PROVE RR!Next
  BY <1>2, CleanupRefines DEF RR!Next
<1>3. ASSUME NEW c \in Calls, ReceiveResponse(c) PROVE RR!Next \/ UNCHANGED RR!vars
  BY <1>3, ResponseRefines DEF RR!Next
<1>4. ASSUME NEW c \in Calls, Transmit(c) PROVE RR!Next \/ UNCHANGED RR!vars
  BY <1>4, TransmitRefines DEF RR!Next
<1>5. QED
  BY <1>1, <1>2, <1>3, <1>4, OtherRefines DEF Next

\* With ids that are never taken again, sendMessage implements the safety part of
\* RequestReply: its call ends once, with its own response or with an error.
THEOREM RefinesSafety == Spec /\ ~ReuseIds => RR!Safety
<1>1. CASE ~ReuseIds
  <2>1. IInv /\ IInv' /\ [Next]_vars => [RR!Next]_(RR!vars)
    BY <1>1, NextRefines
  <2>2. QED
    BY InitRefines, InvariantHolds, <2>1, PTL DEF Spec, RR!Safety
<1>2. CASE ReuseIds
  BY <1>2
<1>3. QED
  BY <1>1, <1>2
=============================================================================
