--------------------------- MODULE ClientLifecycle ---------------------------
(***************************************************************************)
(* The life of a TransportClient: start(), stop(), refresh() and the       *)
(* periodic refresh task, through the three classes that stack their hooks: *)
(* CsdsClient (domains and refresh task), LeClient (session), and           *)
(* TransportClient (connection).                                            *)
(*                                                                         *)
(* A step is one turn of the event loop: a call by the user, a timer, or    *)
(* the settling of the promise a hook awaits, with everything the hooks do  *)
(* up to their next `await`.  The resolver, the session provider and the    *)
(* transport are external here: each call to them settles either way.       *)
(***************************************************************************)
EXTENDS StateMachine, Naturals

CONSTANTS
    MaxStarts,   \* bound: how often start() is called
    InGapCalls   \* TRUE: the user may call stop() between the end of a
                 \* periodic refresh and the microtask that requeues it

ASSUME MaxStartsAssumption == MaxStarts \in Nat
ASSUME InGapCallsAssumption == InGapCalls \in BOOLEAN

VARIABLES
    awaiting,      \* for each transition, the call its hook waits for
    viaTimer,      \* the running refresh was fired by the refresh task
    requeue,       \* a refresh task has ended well and is about to requeue
    refreshTask,   \* the handle: "none", or its timer is "armed" or "fired"
    armed,         \* how many refresh timers are armed, reachable or not
    csdsDomains,   \* TRUE when the domains are set
    leSession,     \* the session held, 0 for none
    connected,     \* the transport's connection is up
    errorHandlers, \* how many error callbacks the transport has been given
    last,          \* the last start or stop that ended, and how
    refreshFailed, \* a periodic refresh has failed since the last start
    strays,        \* how many stops came too early to find the refresh task
    logoutTried,   \* the sessions for which logout() has been called
    starts         \* how often start() has been called

clientVars == <<awaiting, viaTimer, requeue>>
taskVars == <<refreshTask, armed>>
transportVars == <<connected, errorHandlers>>
historyVars == <<last, refreshFailed, strays, logoutTried, starts>>
vars == <<state, transition, clientVars, taskVars, csdsDomains, leSession,
          transportVars, historyVars>>

Calls == {"resolve", "refreshSession", "login", "service", "connect",
          "logout", "disconnect"}
Outcomes == {"none", "start.ok", "start.failed", "stop.ok", "stop.failed"}
Sessions == 1..MaxStarts

TypeOK == /\ MachineTypeOK
          /\ awaiting \in [Transitions -> Calls \cup {"none"}]
          /\ viaTimer \in BOOLEAN
          /\ requeue \in BOOLEAN
          /\ refreshTask \in {"none", "armed", "fired"}
          /\ armed \in Nat
          /\ csdsDomains \in BOOLEAN
          /\ leSession \in Sessions \cup {0}
          /\ connected \in BOOLEAN
          /\ errorHandlers \in Nat
          /\ last \in Outcomes
          /\ refreshFailed \in BOOLEAN
          /\ strays \in Nat
          /\ logoutTried \subseteq Sessions
          /\ starts \in 0..MaxStarts

Init == /\ MachineInit
        /\ awaiting = [t \in Transitions |-> "none"]
        /\ viaTimer = FALSE
        /\ requeue = FALSE
        /\ refreshTask = "none"
        /\ armed = 0
        /\ csdsDomains = FALSE
        /\ leSession = 0
        /\ connected = FALSE
        /\ errorHandlers = 0
        /\ last = "none"
        /\ refreshFailed = FALSE
        /\ strays = 0
        /\ logoutTried = {}
        /\ starts = 0

-----------------------------------------------------------------------------
(* Timers, and the points where a hook's promise settles *)

\* setTimeout, the handle overwriting the one kept before.
QueueRefreshTask == /\ refreshTask' = "armed"
                    /\ armed' = armed + 1

\* Mutant: the handle is deleted, its timer is not cleared.
ClearRefreshTask_HandleOnly == /\ refreshTask' = "none"
                               /\ UNCHANGED armed

\* clearTimeout on the handle (a no-op when that timer has fired), then
\* delete of the handle.
ClearRefreshTask == /\ refreshTask' = "none"
                    /\ armed' = IF refreshTask = "armed" THEN armed - 1 ELSE armed

\* Microtasks run before the next timer or I/O event.
NoMicrotask == ~requeue

\* Where the user's own code may run.
MayCall == NoMicrotask \/ InGapCalls

Await(t, call) == awaiting' = [awaiting EXCEPT ![t] = call]

\* The promise of a start() or a stop() settles.
End(t, outcome) == /\ Settle
                   /\ Await(t, "none")
                   /\ last' = outcome

\* A refresh is over.  A periodic one that went well is requeued by the
\* microtask that resumes the refresh task; one that failed is not.
EndRefresh(ok) ==
    /\ Settle
    /\ Await("refresh", "none")
    /\ viaTimer' = FALSE
    /\ requeue' = (requeue \/ (viaTimer /\ ok))
    /\ refreshFailed' = (refreshFailed \/ (viaTimer /\ ~ok))

-----------------------------------------------------------------------------
(* start() *)

Start ==
    /\ MayCall
    /\ starts < MaxStarts
    /\ Fire("start")
    /\ Await("start", "resolve")
    /\ starts' = starts + 1
    /\ refreshFailed' = FALSE
    /\ UNCHANGED <<viaTimer, requeue, taskVars, csdsDomains, leSession,
                   transportVars, last, strays, logoutTried>>

\* onRefresh has returned: start() queues the refresh task and logs in,
\* refresh() is over.
RefreshHookReturns(t) ==
    \/ /\ t = "start"
       /\ QueueRefreshTask
       /\ Await("start", "login")
       /\ MachineUnchanged
       /\ UNCHANGED <<viaTimer, requeue, refreshFailed>>
    \/ /\ t = "refresh"
       /\ EndRefresh(TRUE)
       /\ UNCHANGED taskVars

\* CsdsClient.onRefresh has the domains; LeClient.onRefresh goes on with the
\* session, which start() finds set only when an earlier stop() has failed.
Resolved(t) ==
    /\ awaiting[t] = "resolve"
    /\ NoMicrotask
    /\ csdsDomains' = TRUE
    /\ \/ /\ leSession # 0
          /\ Await(t, "refreshSession")
          /\ MachineUnchanged
          /\ UNCHANGED <<viaTimer, requeue, taskVars, refreshFailed>>
       \/ /\ leSession = 0
          /\ RefreshHookReturns(t)
    /\ UNCHANGED <<leSession, transportVars, last, strays, logoutTried, starts>>

SessionRefreshed(t) ==
    /\ awaiting[t] = "refreshSession"
    /\ NoMicrotask
    /\ RefreshHookReturns(t)
    /\ UNCHANGED <<csdsDomains, leSession, transportVars, last, strays,
                   logoutTried, starts>>

\* Mutant: the session is not kept.
KeepSession_Dropped == UNCHANGED leSession

\* The provider grants a session of its own to every login.
KeepSession == leSession' = starts

LoggedIn ==
    /\ awaiting["start"] = "login"
    /\ NoMicrotask
    /\ KeepSession
    /\ Await("start", "service")
    /\ UNCHANGED <<state, transition, viaTimer, requeue, taskVars, csdsDomains,
                   transportVars, historyVars>>

ServiceResolved ==
    /\ awaiting["start"] = "service"
    /\ NoMicrotask
    /\ Await("start", "connect")
    /\ UNCHANGED <<state, transition, viaTimer, requeue, taskVars, csdsDomains,
                   leSession, transportVars, historyVars>>

Connected ==
    /\ awaiting["start"] = "connect"
    /\ NoMicrotask
    /\ connected' = TRUE
    /\ errorHandlers' = errorHandlers + 1
    /\ End("start", "start.ok")
    /\ UNCHANGED <<viaTimer, requeue, taskVars, csdsDomains, leSession,
                   refreshFailed, strays, logoutTried, starts>>

-----------------------------------------------------------------------------
(* refresh(), by the user and by the refresh task *)

Refresh ==
    /\ MayCall
    /\ Fire("refresh")
    /\ Await("refresh", "resolve")
    /\ UNCHANGED <<viaTimer, requeue, taskVars, csdsDomains, leSession,
                   transportVars, historyVars>>

\* The timer the handle names, or one the client has lost the handle of.
TimerDue(handle) ==
    IF handle THEN refreshTask = "armed"
              ELSE armed > (IF refreshTask = "armed" THEN 1 ELSE 0)

\* The refresh task runs and may refresh.
TimedRefresh(handle) ==
    /\ Fire("refresh")
    /\ Await("refresh", "resolve")
    /\ viaTimer' = TRUE
    /\ armed' = armed - 1
    /\ refreshTask' = IF handle THEN "fired" ELSE refreshTask

\* Mutant: a skipped refresh is not requeued.
SkippedRefresh_NotRequeued(handle) ==
    /\ ~Can("refresh")
    /\ armed' = armed - 1
    /\ refreshTask' = IF handle THEN "fired" ELSE refreshTask
    /\ MachineUnchanged
    /\ UNCHANGED <<awaiting, viaTimer>>

\* The refresh task runs while the client is stopped or busy: it only warns,
\* and requeues at once.
SkippedRefresh(handle) ==
    /\ ~Can("refresh")
    /\ refreshTask' = "armed"
    /\ MachineUnchanged
    /\ UNCHANGED <<awaiting, viaTimer, armed>>

TimerFires(handle) ==
    /\ TimerDue(handle)
    /\ NoMicrotask
    /\ TimedRefresh(handle) \/ SkippedRefresh(handle)
    /\ UNCHANGED <<requeue, csdsDomains, leSession, transportVars, historyVars>>

\* The microtask after a periodic refresh that went well.
Requeue ==
    /\ requeue
    /\ QueueRefreshTask
    /\ requeue' = FALSE
    /\ MachineUnchanged
    /\ UNCHANGED <<awaiting, viaTimer, csdsDomains, leSession, transportVars,
                   historyVars>>

-----------------------------------------------------------------------------
(* stop() *)

\* Mutant: the session is not logged out.
LogOutOrDisconnect_NoLogout == /\ Await("stop", "disconnect")
                               /\ UNCHANGED logoutTried

\* A session is logged out first; without one the transport disconnects.
LogOutOrDisconnect ==
    \/ /\ leSession # 0
       /\ Await("stop", "logout")
       /\ logoutTried' = logoutTried \cup {leSession}
    \/ /\ leSession = 0
       /\ Await("stop", "disconnect")
       /\ UNCHANGED logoutTried

\* The call itself clears the refresh task and the domains.
Stop ==
    /\ MayCall
    /\ Fire("stop")
    /\ ClearRefreshTask
    /\ csdsDomains' = FALSE
    /\ strays' = IF requeue THEN strays + 1 ELSE strays
    /\ LogOutOrDisconnect
    /\ UNCHANGED <<viaTimer, requeue, leSession, transportVars, last,
                   refreshFailed, starts>>

LoggedOut ==
    /\ awaiting["stop"] = "logout"
    /\ NoMicrotask
    /\ leSession' = 0
    /\ Await("stop", "disconnect")
    /\ UNCHANGED <<state, transition, viaTimer, requeue, taskVars, csdsDomains,
                   transportVars, historyVars>>

Disconnected ==
    /\ awaiting["stop"] = "disconnect"
    /\ NoMicrotask
    /\ connected' = FALSE
    /\ End("stop", "stop.ok")
    /\ UNCHANGED <<viaTimer, requeue, taskVars, csdsDomains, leSession,
                   errorHandlers, refreshFailed, strays, logoutTried, starts>>

-----------------------------------------------------------------------------
(* Failures *)

\* The call a hook waits for is rejected, and so is the hook: nothing is
\* rolled back.  A connection there was before a failing connect or
\* disconnect may be open or closed after it.
CallFails(t) ==
    /\ awaiting[t] # "none"
    /\ NoMicrotask
    /\ \/ /\ t = "start" /\ End("start", "start.failed")
          /\ UNCHANGED <<viaTimer, requeue, refreshFailed>>
       \/ /\ t = "stop" /\ End("stop", "stop.failed")
          /\ UNCHANGED <<viaTimer, requeue, refreshFailed>>
       \/ /\ t = "refresh" /\ EndRefresh(FALSE)
          /\ UNCHANGED last
    /\ connected' \in IF awaiting[t] \in {"connect", "disconnect"}
                      THEN {connected, FALSE} ELSE {connected}
    /\ UNCHANGED <<taskVars, csdsDomains, leSession, errorHandlers, strays,
                   logoutTried, starts>>

\* The connection closes by itself; the client is not told.
ConnectionLost ==
    /\ connected
    /\ NoMicrotask
    /\ connected' = FALSE
    /\ MachineUnchanged
    /\ UNCHANGED <<clientVars, taskVars, csdsDomains, leSession, errorHandlers,
                   historyVars>>

-----------------------------------------------------------------------------
CallSettles == \/ \E t \in Transitions :
                   Resolved(t) \/ SessionRefreshed(t) \/ CallFails(t)
               \/ LoggedIn \/ ServiceResolved \/ Connected
               \/ LoggedOut \/ Disconnected

Next == \/ Start \/ Refresh \/ Stop
        \/ CallSettles
        \/ \E handle \in BOOLEAN : TimerFires(handle)
        \/ Requeue
        \/ ConnectionLost

\* Timers fire, microtasks run, and every call to a resolver, provider or
\* transport settles; the user owes nothing.
Fairness == /\ WF_vars(\E handle \in BOOLEAN : TimerFires(handle))
            /\ WF_vars(Requeue)
            /\ WF_vars(CallSettles)

Spec == Init /\ [][Next]_vars
FairSpec == Spec /\ Fairness

-----------------------------------------------------------------------------
(* Properties *)

\* A start() has succeeded, and no stop() has been called since.
Ready == state = "started" /\ transition # "start" /\ last = "start.ok"

\* The runs of the refresh task under way: waiting for a timer, refreshing,
\* or about to requeue.
Loops == armed + (IF viaTimer THEN 1 ELSE 0) + (IF requeue THEN 1 ELSE 0)

\* The hooks of two transitions never run at the same time: a hook that waits
\* for a call is the one of the transition the state machine has pending.
OneHookAtATime == \A t \in Transitions : awaiting[t] # "none" => transition = t

\* After a successful start() and until stop(), the domains and the session the
\* getters return are there, and transport errors are reported.
ReadyIsInitialized ==
    Ready => csdsDomains /\ leSession # 0 /\ errorHandlers > 0

\* A stopped client never gets its domains back, whichever resolver call was
\* under way when it was stopped, and it keeps no refresh timer it could name.
StoppedIsCleared ==
    state = "stopped" => ~csdsDomains /\ (refreshTask # "none" => strays > 0)

\* After a successful stop() nothing is held: the session is logged out, the
\* connection is closed, and no timer is armed (but one per stop() that was
\* called in the gap before a requeue).
StopReleases ==
    state = "stopped" /\ transition = "none" /\ last = "stop.ok"
        => leSession = 0 /\ ~connected /\ armed <= strays

\* There is one refresh task, however often the client is started, stopped and
\* refreshed, and whichever of its calls fail (one more per such stop()).
OneRefreshLoop == Loops <= 1 + strays

\* A client that is ready has its refresh task running, until a periodic
\* refresh fails.
RefreshScheduled == Ready /\ ~refreshFailed => Loops >= 1

\* A session is only forgotten or replaced by another after its provider has
\* been asked to log it out.
LogoutBeforeForget ==
    [][leSession # 0 /\ leSession' # leSession => leSession \in logoutTried]_vars

\* As long as the client stays ready and no periodic refresh fails, it is
\* refreshed again and again.
PeriodicRefresh ==
    <>[](Ready /\ ~refreshFailed) => []<>(awaiting["refresh"] # "none")
=============================================================================
