------------------------ MODULE ClientLifecycleProofs ------------------------
(***************************************************************************)
(* Proofs about ClientLifecycle, for any number of starts and whether or    *)
(* not stop() may be called in the gap before a requeue.                    *)
(*                                                                         *)
(* IInv is the inductive invariant: the types; which call a hook may wait   *)
(* for, in which state; what the hook of start() has set up so far; what    *)
(* is left of the session and the refresh task when the client is stopped.  *)
(***************************************************************************)
EXTENDS ClientLifecycle, TLAPS

\* Only the hook of the pending transition waits, for one of its own calls, and
\* the state is the one the transition leads to.
HookInv ==
    /\ OneHookAtATime
    /\ awaiting["start"] \in {"none", "resolve", "refreshSession", "login",
                              "service", "connect"}
    /\ awaiting["refresh"] \in {"none", "resolve", "refreshSession"}
    /\ awaiting["stop"] \in {"none", "logout", "disconnect"}
    /\ transition # "none" => state = To(transition)
    /\ viaTimer => transition = "refresh"

\* What start() has done by the time its hook waits, and waits for a later call.
StartInv ==
    /\ awaiting["start"] # "none" => starts # 0
    /\ awaiting["start"] \in {"refreshSession", "login", "service", "connect"}
           => csdsDomains
    /\ awaiting["start"] \in {"service", "connect"} => leSession # 0

\* A session kept over a stop() that failed has had its logout.
SessionInv ==
    leSession # 0 /\ (state = "stopped"
                      \/ awaiting["start"] \in {"resolve", "refreshSession", "login"})
        => leSession \in logoutTried

\* stop() disconnects only without a session.
StopInv == awaiting["stop"] = "disconnect" => leSession = 0

\* The refresh tasks: a stopped client, one whose start() has not queued its task
\* yet, and one whose task has ended with an error have only stray ones.
LoopInv ==
    /\ Loops <= 1 + strays
    /\ state = "stopped" => Loops <= strays
    /\ awaiting["start"] \in {"resolve", "refreshSession"} => Loops <= strays
    /\ refreshTask # "armed" /\ ~viaTimer /\ ~requeue => Loops <= strays
    /\ refreshTask = "armed" => armed >= 1

\* start() and refresh() leave a task behind, unless a periodic refresh fails.
ScheduleInv ==
    /\ awaiting["start"] \in {"login", "service", "connect"} /\ ~refreshFailed
           => Loops >= 1
    /\ RefreshScheduled

ReleaseInv == StopReleases /\ StoppedIsCleared

IInv == /\ TypeOK /\ HookInv /\ StartInv /\ SessionInv /\ StopInv
        /\ ReadyIsInitialized /\ ReleaseInv /\ LoopInv /\ ScheduleInv

-----------------------------------------------------------------------------
(* Types *)

\* What onRefresh leaves behind when it returns, to start() or to refresh(), has
\* the types of the variables it changes.
LEMMA RefreshHookReturnsTyped ==
    ASSUME TypeOK, NEW t \in Transitions, RefreshHookReturns(t)
    PROVE  /\ MachineTypeOK'
           /\ awaiting' \in [Transitions -> Calls \cup {"none"}]
           /\ viaTimer' \in BOOLEAN /\ requeue' \in BOOLEAN
           /\ refreshTask' \in {"none", "armed", "fired"} /\ armed' \in Nat
           /\ refreshFailed' \in BOOLEAN
<1> USE DEF TypeOK, MachineTypeOK, Transitions, States, Calls
<1>1. CASE t = "start"
  <2>1. armed' \in Nat
    BY <1>1 DEF RefreshHookReturns, QueueRefreshTask
  <2>2. QED
    BY <1>1, <2>1 DEF RefreshHookReturns, QueueRefreshTask, Await,
                      MachineUnchanged
<1>2. CASE t = "refresh"
  BY <1>2 DEF RefreshHookReturns, EndRefresh, Settle, Await, taskVars
<1>3. QED
  BY <1>1, <1>2 DEF RefreshHookReturns

\* The types are preserved. The counters stay natural numbers because a timer
\* that fires, or is cleared, is one that is armed; the session is one of
\* Sessions because start() has been called when it logs in.
LEMMA TypeStep == TypeOK /\ StartInv /\ LoopInv /\ [Next]_vars => TypeOK'
<1> SUFFICES ASSUME TypeOK, StartInv, LoopInv, [Next]_vars
             PROVE  TypeOK'
  OBVIOUS
<1> USE DEF TypeOK, MachineTypeOK, clientVars, taskVars, transportVars,
     historyVars, Transitions, States, Calls, Outcomes, Sessions
<1>1. CASE Start
  <2>1. starts' \in 0..MaxStarts
    BY <1>1, MaxStartsAssumption DEF Start
  <2>2. QED
    BY <1>1, <2>1 DEF Start, Fire, To, Await
<1>2. ASSUME NEW t \in Transitions, Resolved(t) PROVE TypeOK'
  <2>1. CASE RefreshHookReturns(t)
    BY <1>2, <2>1, RefreshHookReturnsTyped DEF Resolved
  <2>2. CASE ~RefreshHookReturns(t)
    BY <1>2, <2>2 DEF Resolved, Await, MachineUnchanged
  <2>3. QED
    BY <2>1, <2>2
<1>3. ASSUME NEW t \in Transitions, SessionRefreshed(t) PROVE TypeOK'
  BY <1>3, RefreshHookReturnsTyped DEF SessionRefreshed
<1>4. CASE LoggedIn
  BY <1>4 DEF LoggedIn, KeepSession, Await, StartInv
<1>5. CASE ServiceResolved
  BY <1>5 DEF ServiceResolved, Await
<1>6. CASE Connected
  BY <1>6 DEF Connected, End, Settle, Await
<1>7. CASE Refresh
  BY <1>7 DEF Refresh, Fire, Can, Await, From, To
<1>8. ASSUME NEW handle \in BOOLEAN, TimerFires(handle) PROVE TypeOK'
  <2>1. armed' \in Nat
    BY <1>8 DEF TimerFires, TimerDue, TimedRefresh, SkippedRefresh, LoopInv
  <2>2. CASE TimedRefresh(handle)
    BY <1>8, <2>1, <2>2 DEF TimerFires, TimedRefresh, Fire, Await, To
  <2>3. CASE SkippedRefresh(handle)
    BY <1>8, <2>1, <2>3 DEF TimerFires, SkippedRefresh, MachineUnchanged
  <2>4. QED
    BY <1>8, <2>2, <2>3 DEF TimerFires
<1>9. CASE Requeue
  <2>1. armed' \in Nat
    BY <1>9 DEF Requeue, QueueRefreshTask
  <2>2. QED
    BY <1>9, <2>1 DEF Requeue, QueueRefreshTask, MachineUnchanged
<1>10. CASE Stop
  <2>1. armed' \in Nat /\ strays' \in Nat
    BY <1>10 DEF Stop, ClearRefreshTask, LoopInv
  <2>2. logoutTried' \subseteq Sessions
    BY <1>10 DEF Stop, LogOutOrDisconnect
  <2>3. awaiting' \in [Transitions -> Calls \cup {"none"}]
    BY <1>10 DEF Stop, LogOutOrDisconnect, Await
  <2>4. QED
    BY <1>10, <2>1, <2>2, <2>3 DEF Stop, Fire, To, ClearRefreshTask
<1>11. CASE LoggedOut
  BY <1>11 DEF LoggedOut, Await
<1>12. CASE Disconnected
  BY <1>12 DEF Disconnected, End, Settle, Await
<1>13. ASSUME NEW t \in Transitions, CallFails(t) PROVE TypeOK'
  <2>1. connected' \in BOOLEAN
    BY <1>13 DEF CallFails
  <2>2. awaiting' \in [Transitions -> Calls \cup {"none"}]
    BY <1>13 DEF CallFails, End, EndRefresh, Await
  <2>3. CASE t = "start" \/ t = "stop"
    BY <1>13, <2>1, <2>2, <2>3 DEF CallFails, End, Settle
  <2>4. CASE t = "refresh"
    BY <1>13, <2>1, <2>2, <2>4 DEF CallFails, EndRefresh, Settle
  <2>5. QED
    BY <2>3, <2>4
<1>14. CASE ConnectionLost
  BY <1>14 DEF ConnectionLost, MachineUnchanged
<1>15. CASE UNCHANGED vars
  BY <1>15 DEF vars
<1>16. QED
  BY <1>1, <1>2, <1>3, <1>4, <1>5, <1>6, <1>7, <1>8, <1>9, <1>10, <1>11,
       <1>12, <1>13, <1>14, <1>15 DEF Next, CallSettles

-----------------------------------------------------------------------------
(* The parts of the invariant, each with the parts it depends on *)

\* One hook at a time: a transition fires only when none is pending.
LEMMA HookStep == TypeOK /\ HookInv /\ [Next]_vars => HookInv'
<1> SUFFICES ASSUME TypeOK, HookInv, [Next]_vars
             PROVE  HookInv'
  OBVIOUS
<1> USE DEF TypeOK, MachineTypeOK, Transitions, States, clientVars, taskVars,
     transportVars, historyVars, HookInv, OneHookAtATime, To
<1>1. CASE Start
  BY <1>1 DEF Start, Fire, Can, Await, From, To
<1>2. ASSUME NEW t \in Transitions, Resolved(t) PROVE HookInv'
  BY <1>2 DEF Resolved, RefreshHookReturns, QueueRefreshTask, EndRefresh,
       Settle, Await, MachineUnchanged, NoMicrotask
<1>3. ASSUME NEW t \in Transitions, SessionRefreshed(t) PROVE HookInv'
  BY <1>3 DEF SessionRefreshed, RefreshHookReturns, QueueRefreshTask,
       EndRefresh, Settle, Await, MachineUnchanged, NoMicrotask
<1>4. CASE LoggedIn
  BY <1>4 DEF LoggedIn, KeepSession, Await
<1>5. CASE ServiceResolved
  BY <1>5 DEF ServiceResolved, Await
<1>6. CASE Connected
  BY <1>6 DEF Connected, End, Settle, Await
<1>7. CASE Refresh
  BY <1>7 DEF Refresh, Fire, Can, Await, From, To
<1>8. ASSUME NEW handle \in BOOLEAN, TimerFires(handle) PROVE HookInv'
  BY <1>8 DEF TimerFires, TimerDue, TimedRefresh, SkippedRefresh, Fire, Can,
       Await, From, To, MachineUnchanged, NoMicrotask
<1>9. CASE Requeue
  BY <1>9 DEF Requeue, QueueRefreshTask, MachineUnchanged
<1>10. CASE Stop
  BY <1>10 DEF Stop, Fire, Can, Await, From, To, ClearRefreshTask,
       LogOutOrDisconnect
<1>11. CASE LoggedOut
  BY <1>11 DEF LoggedOut, Await
<1>12. CASE Disconnected
  BY <1>12 DEF Disconnected, End, Settle, Await
<1>13. ASSUME NEW t \in Transitions, CallFails(t) PROVE HookInv'
  BY <1>13 DEF CallFails, End, EndRefresh, Settle, Await, NoMicrotask
<1>14. CASE ConnectionLost
  BY <1>14 DEF ConnectionLost, MachineUnchanged
<1>15. CASE UNCHANGED vars
  BY <1>15 DEF vars
<1>16. QED
  BY <1>1, <1>2, <1>3, <1>4, <1>5, <1>6, <1>7, <1>8, <1>9, <1>10, <1>11,
       <1>12, <1>13, <1>14, <1>15 DEF Next, CallSettles

\* start() goes through its calls in order, and no other hook runs meanwhile.
LEMMA StartStep == TypeOK /\ HookInv /\ StartInv /\ [Next]_vars => StartInv'
<1> SUFFICES ASSUME TypeOK, HookInv, StartInv, [Next]_vars
             PROVE  StartInv'
  OBVIOUS
<1> USE DEF TypeOK, MachineTypeOK, Transitions, States, clientVars, taskVars,
     transportVars, historyVars, HookInv, OneHookAtATime, StartInv
<1>1. CASE Start
  BY <1>1 DEF Start, Fire, Can, Await, From, To
<1>2. ASSUME NEW t \in Transitions, Resolved(t) PROVE StartInv'
  BY <1>2 DEF Resolved, RefreshHookReturns, QueueRefreshTask, EndRefresh,
       Settle, Await, MachineUnchanged, NoMicrotask
<1>3. ASSUME NEW t \in Transitions, SessionRefreshed(t) PROVE StartInv'
  BY <1>3 DEF SessionRefreshed, RefreshHookReturns, QueueRefreshTask,
       EndRefresh, Settle, Await, MachineUnchanged, NoMicrotask
<1>4. CASE LoggedIn
  BY <1>4 DEF LoggedIn, KeepSession, Await
<1>5. CASE ServiceResolved
  BY <1>5 DEF ServiceResolved, Await
<1>6. CASE Connected
  BY <1>6 DEF Connected, End, Settle, Await
<1>7. CASE Refresh
  BY <1>7 DEF Refresh, Fire, Can, Await, From, To
<1>8. ASSUME NEW handle \in BOOLEAN, TimerFires(handle) PROVE StartInv'
  BY <1>8 DEF TimerFires, TimerDue, TimedRefresh, SkippedRefresh, Fire, Can,
       Await, From, To, MachineUnchanged, NoMicrotask
<1>9. CASE Requeue
  BY <1>9 DEF Requeue, QueueRefreshTask, MachineUnchanged
<1>10. CASE Stop
  BY <1>10 DEF Stop, Fire, Can, Await, From, To, ClearRefreshTask,
       LogOutOrDisconnect
<1>11. CASE LoggedOut
  BY <1>11 DEF LoggedOut, Await
<1>12. CASE Disconnected
  BY <1>12 DEF Disconnected, End, Settle, Await
<1>13. ASSUME NEW t \in Transitions, CallFails(t) PROVE StartInv'
  BY <1>13 DEF CallFails, End, EndRefresh, Settle, Await, NoMicrotask
<1>14. CASE ConnectionLost
  BY <1>14 DEF ConnectionLost, MachineUnchanged
<1>15. CASE UNCHANGED vars
  BY <1>15 DEF vars
<1>16. QED
  BY <1>1, <1>2, <1>3, <1>4, <1>5, <1>6, <1>7, <1>8, <1>9, <1>10, <1>11,
       <1>12, <1>13, <1>14, <1>15 DEF Next, CallSettles

\* Once stop() has been called, a session kept has been logged out, until a
\* login replaces it.
LEMMA SessionStep ==
    TypeOK /\ HookInv /\ SessionInv /\ [Next]_vars
        => SessionInv'
<1> SUFFICES ASSUME TypeOK, HookInv, SessionInv, [Next]_vars
             PROVE  SessionInv'
  OBVIOUS
<1> USE DEF TypeOK, MachineTypeOK, Transitions, States, clientVars, taskVars,
     transportVars, historyVars, HookInv, OneHookAtATime, To, SessionInv
<1>1. CASE Start
  BY <1>1 DEF Start, Fire, Can, Await, From, To
<1>2. ASSUME NEW t \in Transitions, Resolved(t) PROVE SessionInv'
  BY <1>2 DEF Resolved, RefreshHookReturns, QueueRefreshTask, EndRefresh,
       Settle, Await, MachineUnchanged, NoMicrotask
<1>3. ASSUME NEW t \in Transitions, SessionRefreshed(t) PROVE SessionInv'
  BY <1>3 DEF SessionRefreshed, RefreshHookReturns, QueueRefreshTask,
       EndRefresh, Settle, Await, MachineUnchanged, NoMicrotask
<1>4. CASE LoggedIn
  BY <1>4 DEF LoggedIn, KeepSession, Await
<1>5. CASE ServiceResolved
  BY <1>5 DEF ServiceResolved, Await
<1>6. CASE Connected
  BY <1>6 DEF Connected, End, Settle, Await
<1>7. CASE Refresh
  BY <1>7 DEF Refresh, Fire, Can, Await, From, To
<1>8. ASSUME NEW handle \in BOOLEAN, TimerFires(handle) PROVE SessionInv'
  BY <1>8 DEF TimerFires, TimerDue, TimedRefresh, SkippedRefresh, Fire, Can,
       Await, From, To, MachineUnchanged, NoMicrotask
<1>9. CASE Requeue
  BY <1>9 DEF Requeue, QueueRefreshTask, MachineUnchanged
<1>10. CASE Stop
  BY <1>10 DEF Stop, Fire, Can, Await, From, To, ClearRefreshTask,
       LogOutOrDisconnect
<1>11. CASE LoggedOut
  BY <1>11 DEF LoggedOut, Await
<1>12. CASE Disconnected
  BY <1>12 DEF Disconnected, End, Settle, Await
<1>13. ASSUME NEW t \in Transitions, CallFails(t) PROVE SessionInv'
  BY <1>13 DEF CallFails, End, EndRefresh, Settle, Await, NoMicrotask
<1>14. CASE ConnectionLost
  BY <1>14 DEF ConnectionLost, MachineUnchanged
<1>15. CASE UNCHANGED vars
  BY <1>15 DEF vars
<1>16. QED
  BY <1>1, <1>2, <1>3, <1>4, <1>5, <1>6, <1>7, <1>8, <1>9, <1>10, <1>11,
       <1>12, <1>13, <1>14, <1>15 DEF Next, CallSettles

\* stop() waits for the transport only after the session is gone.
LEMMA StopStep == TypeOK /\ HookInv /\ StopInv /\ [Next]_vars => StopInv'
<1> SUFFICES ASSUME TypeOK, HookInv, StopInv, [Next]_vars
             PROVE  StopInv'
  OBVIOUS
<1> USE DEF TypeOK, MachineTypeOK, Transitions, States, clientVars, taskVars,
     transportVars, historyVars, HookInv, OneHookAtATime, StopInv
<1>1. CASE Start
  BY <1>1 DEF Start, Fire, Can, Await, From, To
<1>2. ASSUME NEW t \in Transitions, Resolved(t) PROVE StopInv'
  BY <1>2 DEF Resolved, RefreshHookReturns, QueueRefreshTask, EndRefresh,
       Settle, Await, MachineUnchanged, NoMicrotask
<1>3. ASSUME NEW t \in Transitions, SessionRefreshed(t) PROVE StopInv'
  BY <1>3 DEF SessionRefreshed, RefreshHookReturns, QueueRefreshTask,
       EndRefresh, Settle, Await, MachineUnchanged, NoMicrotask
<1>4. CASE LoggedIn
  BY <1>4 DEF LoggedIn, KeepSession, Await
<1>5. CASE ServiceResolved
  BY <1>5 DEF ServiceResolved, Await
<1>6. CASE Connected
  BY <1>6 DEF Connected, End, Settle, Await
<1>7. CASE Refresh
  BY <1>7 DEF Refresh, Fire, Can, Await, From, To
<1>8. ASSUME NEW handle \in BOOLEAN, TimerFires(handle) PROVE StopInv'
  BY <1>8 DEF TimerFires, TimerDue, TimedRefresh, SkippedRefresh, Fire, Can,
       Await, From, To, MachineUnchanged, NoMicrotask
<1>9. CASE Requeue
  BY <1>9 DEF Requeue, QueueRefreshTask, MachineUnchanged
<1>10. CASE Stop
  BY <1>10 DEF Stop, Fire, Can, Await, From, To, ClearRefreshTask,
       LogOutOrDisconnect
<1>11. CASE LoggedOut
  BY <1>11 DEF LoggedOut, Await
<1>12. CASE Disconnected
  BY <1>12 DEF Disconnected, End, Settle, Await
<1>13. ASSUME NEW t \in Transitions, CallFails(t) PROVE StopInv'
  BY <1>13 DEF CallFails, End, EndRefresh, Settle, Await, NoMicrotask
<1>14. CASE ConnectionLost
  BY <1>14 DEF ConnectionLost, MachineUnchanged
<1>15. CASE UNCHANGED vars
  BY <1>15 DEF vars
<1>16. QED
  BY <1>1, <1>2, <1>3, <1>4, <1>5, <1>6, <1>7, <1>8, <1>9, <1>10, <1>11,
       <1>12, <1>13, <1>14, <1>15 DEF Next, CallSettles

\* What a successful start() has set up stays until stop() is called.
LEMMA ReadyStep ==
    TypeOK /\ HookInv /\ StartInv /\ ReadyIsInitialized /\ [Next]_vars
        => ReadyIsInitialized'
<1> SUFFICES ASSUME TypeOK, HookInv, StartInv, ReadyIsInitialized, [Next]_vars
             PROVE  ReadyIsInitialized'
  OBVIOUS
<1> USE DEF TypeOK, MachineTypeOK, Transitions, States, clientVars, taskVars,
     transportVars, historyVars, HookInv, OneHookAtATime, StartInv, To,
     ReadyIsInitialized, Ready
<1>1. CASE Start
  BY <1>1 DEF Start, Fire, Can, Await, From, To
<1>2. ASSUME NEW t \in Transitions, Resolved(t) PROVE ReadyIsInitialized'
  BY <1>2 DEF Resolved, RefreshHookReturns, QueueRefreshTask, EndRefresh,
       Settle, Await, MachineUnchanged, NoMicrotask
<1>3. ASSUME NEW t \in Transitions, SessionRefreshed(t)
      PROVE  ReadyIsInitialized'
  BY <1>3 DEF SessionRefreshed, RefreshHookReturns, QueueRefreshTask,
       EndRefresh, Settle, Await, MachineUnchanged, NoMicrotask
<1>4. CASE LoggedIn
  BY <1>4 DEF LoggedIn, KeepSession, Await
<1>5. CASE ServiceResolved
  BY <1>5 DEF ServiceResolved, Await
<1>6. CASE Connected
  BY <1>6 DEF Connected, End, Settle, Await
<1>7. CASE Refresh
  BY <1>7 DEF Refresh, Fire, Can, Await, From, To
<1>8. ASSUME NEW handle \in BOOLEAN, TimerFires(handle)
      PROVE  ReadyIsInitialized'
  BY <1>8 DEF TimerFires, TimerDue, TimedRefresh, SkippedRefresh, Fire, Can,
       Await, From, To, MachineUnchanged, NoMicrotask
<1>9. CASE Requeue
  BY <1>9 DEF Requeue, QueueRefreshTask, MachineUnchanged
<1>10. CASE Stop
  BY <1>10 DEF Stop, Fire, Can, Await, From, To, ClearRefreshTask,
       LogOutOrDisconnect
<1>11. CASE LoggedOut
  BY <1>11 DEF LoggedOut, Await
<1>12. CASE Disconnected
  BY <1>12 DEF Disconnected, End, Settle, Await
<1>13. ASSUME NEW t \in Transitions, CallFails(t) PROVE ReadyIsInitialized'
  BY <1>13 DEF CallFails, End, EndRefresh, Settle, Await, NoMicrotask
<1>14. CASE ConnectionLost
  BY <1>14 DEF ConnectionLost, MachineUnchanged
<1>15. CASE UNCHANGED vars
  BY <1>15 DEF vars
<1>16. QED
  BY <1>1, <1>2, <1>3, <1>4, <1>5, <1>6, <1>7, <1>8, <1>9, <1>10, <1>11,
       <1>12, <1>13, <1>14, <1>15 DEF Next, CallSettles

\* Refresh tasks are not multiplied: start() queues one when there are only
\* strays, a task requeues itself once, and stop() clears the armed one or
\* leaves a stray.
LEMMA LoopStep == TypeOK /\ HookInv /\ LoopInv /\ [Next]_vars => LoopInv'
<1> SUFFICES ASSUME TypeOK, HookInv, LoopInv, [Next]_vars
             PROVE  LoopInv'
  OBVIOUS
<1> USE DEF TypeOK, MachineTypeOK, Transitions, States, clientVars, taskVars,
     transportVars, historyVars, HookInv, OneHookAtATime, To, LoopInv, Loops
<1>1. CASE Start
  BY <1>1 DEF Start, Fire, Can, Await, From, To
<1>2. ASSUME NEW t \in Transitions, Resolved(t) PROVE LoopInv'
  BY <1>2 DEF Resolved, RefreshHookReturns, QueueRefreshTask, EndRefresh,
       Settle, Await, MachineUnchanged, NoMicrotask
<1>3. ASSUME NEW t \in Transitions, SessionRefreshed(t) PROVE LoopInv'
  BY <1>3 DEF SessionRefreshed, RefreshHookReturns, QueueRefreshTask,
       EndRefresh, Settle, Await, MachineUnchanged, NoMicrotask
<1>4. CASE LoggedIn
  BY <1>4 DEF LoggedIn, KeepSession, Await
<1>5. CASE ServiceResolved
  BY <1>5 DEF ServiceResolved, Await
<1>6. CASE Connected
  BY <1>6 DEF Connected, End, Settle, Await
<1>7. CASE Refresh
  BY <1>7 DEF Refresh, Fire, Can, Await, From, To
<1>8. ASSUME NEW handle \in BOOLEAN, TimerFires(handle) PROVE LoopInv'
  BY <1>8 DEF TimerFires, TimerDue, TimedRefresh, SkippedRefresh, Fire, Can,
       Await, From, To, MachineUnchanged, NoMicrotask
<1>9. CASE Requeue
  BY <1>9 DEF Requeue, QueueRefreshTask, MachineUnchanged
<1>10. CASE Stop
  BY <1>10 DEF Stop, Fire, Can, Await, From, To, ClearRefreshTask,
       LogOutOrDisconnect
<1>11. CASE LoggedOut
  BY <1>11 DEF LoggedOut, Await
<1>12. CASE Disconnected
  BY <1>12 DEF Disconnected, End, Settle, Await
<1>13. ASSUME NEW t \in Transitions, CallFails(t) PROVE LoopInv'
  BY <1>13 DEF CallFails, End, EndRefresh, Settle, Await, NoMicrotask
<1>14. CASE ConnectionLost
  BY <1>14 DEF ConnectionLost, MachineUnchanged
<1>15. CASE UNCHANGED vars
  BY <1>15 DEF vars
<1>16. QED
  BY <1>1, <1>2, <1>3, <1>4, <1>5, <1>6, <1>7, <1>8, <1>9, <1>10, <1>11,
       <1>12, <1>13, <1>14, <1>15 DEF Next, CallSettles

\* What stop() has cleared and released stays so until start() is called.
LEMMA ReleaseStep ==
    TypeOK /\ HookInv /\ StopInv /\ LoopInv /\ ReleaseInv /\ [Next]_vars
        => ReleaseInv'
<1> SUFFICES ASSUME TypeOK, HookInv, StopInv, LoopInv, ReleaseInv, [Next]_vars
             PROVE  ReleaseInv'
  OBVIOUS
<1> USE DEF TypeOK, MachineTypeOK, Transitions, States, clientVars, taskVars,
     transportVars, historyVars, HookInv, OneHookAtATime, To, StopInv,
     LoopInv, Loops, ReleaseInv, StopReleases, StoppedIsCleared
<1>1. CASE Start
  BY <1>1 DEF Start, Fire, Can, Await, From, To
<1>2. ASSUME NEW t \in Transitions, Resolved(t) PROVE ReleaseInv'
  BY <1>2 DEF Resolved, RefreshHookReturns, QueueRefreshTask, EndRefresh,
       Settle, Await, MachineUnchanged, NoMicrotask
<1>3. ASSUME NEW t \in Transitions, SessionRefreshed(t) PROVE ReleaseInv'
  BY <1>3 DEF SessionRefreshed, RefreshHookReturns, QueueRefreshTask,
       EndRefresh, Settle, Await, MachineUnchanged, NoMicrotask
<1>4. CASE LoggedIn
  BY <1>4 DEF LoggedIn, KeepSession, Await
<1>5. CASE ServiceResolved
  BY <1>5 DEF ServiceResolved, Await
<1>6. CASE Connected
  BY <1>6 DEF Connected, End, Settle, Await
<1>7. CASE Refresh
  BY <1>7 DEF Refresh, Fire, Can, Await, From, To
<1>8. ASSUME NEW handle \in BOOLEAN, TimerFires(handle) PROVE ReleaseInv'
  BY <1>8 DEF TimerFires, TimerDue, TimedRefresh, SkippedRefresh, Fire, Can,
       Await, From, To, MachineUnchanged, NoMicrotask
<1>9. CASE Requeue
  BY <1>9 DEF Requeue, QueueRefreshTask, MachineUnchanged
<1>10. CASE Stop
  BY <1>10 DEF Stop, Fire, Can, Await, From, To, ClearRefreshTask,
       LogOutOrDisconnect
<1>11. CASE LoggedOut
  BY <1>11 DEF LoggedOut, Await
<1>12. CASE Disconnected
  BY <1>12 DEF Disconnected, End, Settle, Await
<1>13. ASSUME NEW t \in Transitions, CallFails(t) PROVE ReleaseInv'
  BY <1>13 DEF CallFails, End, EndRefresh, Settle, Await, NoMicrotask
<1>14. CASE ConnectionLost
  BY <1>14 DEF ConnectionLost, MachineUnchanged
<1>15. CASE UNCHANGED vars
  BY <1>15 DEF vars
<1>16. QED
  BY <1>1, <1>2, <1>3, <1>4, <1>5, <1>6, <1>7, <1>8, <1>9, <1>10, <1>11,
       <1>12, <1>13, <1>14, <1>15 DEF Next, CallSettles

\* A refresh task that runs is replaced, unless its refresh fails.
LEMMA ScheduleStep ==
    TypeOK /\ HookInv /\ ScheduleInv /\ [Next]_vars
        => ScheduleInv'
<1> SUFFICES ASSUME TypeOK, HookInv, ScheduleInv, [Next]_vars
             PROVE  ScheduleInv'
  OBVIOUS
<1> USE DEF TypeOK, MachineTypeOK, Transitions, States, clientVars, taskVars,
     transportVars, historyVars, HookInv, OneHookAtATime, To, ScheduleInv,
     RefreshScheduled, Ready, Loops
<1>1. CASE Start
  BY <1>1 DEF Start, Fire, Can, Await, From, To
<1>2. ASSUME NEW t \in Transitions, Resolved(t) PROVE ScheduleInv'
  BY <1>2 DEF Resolved, RefreshHookReturns, QueueRefreshTask, EndRefresh,
       Settle, Await, MachineUnchanged, NoMicrotask
<1>3. ASSUME NEW t \in Transitions, SessionRefreshed(t) PROVE ScheduleInv'
  BY <1>3 DEF SessionRefreshed, RefreshHookReturns, QueueRefreshTask,
       EndRefresh, Settle, Await, MachineUnchanged, NoMicrotask
<1>4. CASE LoggedIn
  BY <1>4 DEF LoggedIn, KeepSession, Await
<1>5. CASE ServiceResolved
  BY <1>5 DEF ServiceResolved, Await
<1>6. CASE Connected
  BY <1>6 DEF Connected, End, Settle, Await
<1>7. CASE Refresh
  BY <1>7 DEF Refresh, Fire, Can, Await, From, To
<1>8. ASSUME NEW handle \in BOOLEAN, TimerFires(handle) PROVE ScheduleInv'
  BY <1>8 DEF TimerFires, TimerDue, TimedRefresh, SkippedRefresh, Fire, Can,
       Await, From, To, MachineUnchanged, NoMicrotask
<1>9. CASE Requeue
  BY <1>9 DEF Requeue, QueueRefreshTask, MachineUnchanged
<1>10. CASE Stop
  BY <1>10 DEF Stop, Fire, Can, Await, From, To, ClearRefreshTask,
       LogOutOrDisconnect
<1>11. CASE LoggedOut
  BY <1>11 DEF LoggedOut, Await
<1>12. CASE Disconnected
  BY <1>12 DEF Disconnected, End, Settle, Await
<1>13. ASSUME NEW t \in Transitions, CallFails(t) PROVE ScheduleInv'
  BY <1>13 DEF CallFails, End, EndRefresh, Settle, Await, NoMicrotask
<1>14. CASE ConnectionLost
  BY <1>14 DEF ConnectionLost, MachineUnchanged
<1>15. CASE UNCHANGED vars
  BY <1>15 DEF vars
<1>16. QED
  BY <1>1, <1>2, <1>3, <1>4, <1>5, <1>6, <1>7, <1>8, <1>9, <1>10, <1>11,
       <1>12, <1>13, <1>14, <1>15 DEF Next, CallSettles

-----------------------------------------------------------------------------
(* The theorems *)

\* The initial state, where nothing is started, satisfies the invariant.
LEMMA InitIInv == Init => IInv
<1> SUFFICES ASSUME Init PROVE IInv
  OBVIOUS
<1> USE DEF Init, MachineInit
<1>1. TypeOK
  <2>1. starts \in 0..MaxStarts
    BY MaxStartsAssumption
  <2>2. QED
    BY <2>1 DEF TypeOK, MachineTypeOK, Transitions, States, Calls, Outcomes
<1>2. HookInv /\ StartInv /\ SessionInv /\ StopInv
  BY DEF HookInv, OneHookAtATime, StartInv, SessionInv, StopInv, Transitions
<1>3. ReadyIsInitialized /\ ReleaseInv
  BY DEF ReadyIsInitialized, Ready, ReleaseInv, StopReleases, StoppedIsCleared
<1>4. LoopInv /\ ScheduleInv
  BY DEF LoopInv, Loops, ScheduleInv, RefreshScheduled, Ready, Transitions
<1>5. QED
  BY <1>1, <1>2, <1>3, <1>4 DEF IInv

\* IInv holds in every state the client can reach.
THEOREM InvariantHolds == Spec => []IInv
<1>1. IInv /\ [Next]_vars => IInv'
  BY TypeStep, HookStep, StartStep, SessionStep, StopStep, ReadyStep, LoopStep,
     ReleaseStep, ScheduleStep DEF IInv
<1>2. QED
  BY InitIInv, <1>1, PTL DEF Spec

\* The variables keep their types: above all, no timer is cleared or fires
\* that is not armed.
THEOREM TypeCorrect == Spec => []TypeOK
<1>1. IInv => TypeOK
  BY DEF IInv
<1>2. QED
  BY InvariantHolds, <1>1, PTL

\* start(), stop() and refresh() never overlap.
THEOREM OneHookAtATimeHolds == Spec => []OneHookAtATime
<1>1. IInv => OneHookAtATime
  BY DEF IInv, HookInv
<1>2. QED
  BY InvariantHolds, <1>1, PTL

\* Between a successful start() and the next stop(), whatever refreshes fail,
\* the client has its domains, its session and an error handler.
THEOREM ReadyIsInitializedHolds == Spec => []ReadyIsInitialized
<1>1. IInv => ReadyIsInitialized
  BY DEF IInv
<1>2. QED
  BY InvariantHolds, <1>1, PTL

\* A stopped client has no domains, and a handle of a refresh task only when
\* it was stopped in the gap before a requeue.
THEOREM StoppedIsClearedHolds == Spec => []StoppedIsCleared
<1>1. IInv => StoppedIsCleared
  BY DEF IInv, ReleaseInv
<1>2. QED
  BY InvariantHolds, <1>1, PTL

\* A successful stop() leaves no session, no connection and no timer behind,
\* but one timer per stop() called in the gap.
THEOREM StopReleasesHolds == Spec => []StopReleases
<1>1. IInv => StopReleases
  BY DEF IInv, ReleaseInv
<1>2. QED
  BY InvariantHolds, <1>1, PTL

\* There is one refresh task at most, plus one per stop() called in the gap.
THEOREM OneRefreshLoopHolds == Spec => []OneRefreshLoop
<1>1. IInv => OneRefreshLoop
  BY DEF IInv, LoopInv, OneRefreshLoop
<1>2. QED
  BY InvariantHolds, <1>1, PTL

\* A ready client has a refresh task, until a periodic refresh fails.
THEOREM RefreshScheduledHolds == Spec => []RefreshScheduled
<1>1. IInv => RefreshScheduled
  BY DEF IInv, ScheduleInv
<1>2. QED
  BY InvariantHolds, <1>1, PTL

\* No step forgets or replaces a session that has not had its logout: LoggedIn,
\* which finds one only after a stop() that failed, and LoggedOut are the steps
\* that write it.
THEOREM LogoutBeforeForgetHolds == Spec => LogoutBeforeForget
<1>1. IInv /\ [Next]_vars
        => [leSession # 0 /\ leSession' # leSession
                => leSession \in logoutTried]_vars
  <2> SUFFICES ASSUME IInv, Next, leSession # 0, leSession' # leSession
               PROVE  leSession \in logoutTried
    OBVIOUS
  <2>1. LoggedIn \/ LoggedOut
    <3>1. ASSUME NEW t \in Transitions,
                 Resolved(t) \/ SessionRefreshed(t) \/ CallFails(t)
          PROVE  FALSE
      BY <3>1 DEF Resolved, SessionRefreshed, CallFails
    <3>2. ASSUME NEW handle \in BOOLEAN, TimerFires(handle) PROVE FALSE
      BY <3>2 DEF TimerFires
    <3>3. QED
      BY <3>1, <3>2 DEF Next, CallSettles, Start, Refresh, Stop, Requeue,
                        ConnectionLost, ServiceResolved, Connected, Disconnected
  <2>2. CASE LoggedIn
    BY <2>2 DEF LoggedIn, IInv, SessionInv
  <2>3. CASE LoggedOut
    BY <2>3 DEF LoggedOut, IInv, SessionInv, HookInv, OneHookAtATime, To,
                Transitions
  <2>4. QED
    BY <2>1, <2>2, <2>3
<1>2. QED
  BY InvariantHolds, <1>1, PTL DEF Spec, LogoutBeforeForget
=============================================================================
