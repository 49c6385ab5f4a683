----------------------------- MODULE CsdsRefresh -----------------------------
(***************************************************************************)
(* Started CsdsClients that share one CachingCsdsResolver: each refreshes     *)
(* its domains a while after the last answer, and gets what the cache gives   *)
(* it.  Their users may call refresh() besides, and other users of the        *)
(* resolver ask when they like.                                              *)
(*                                                                         *)
(* ClientLifecycle has the states of one client, and what its operations do    *)
(* to each other; here is what a client that is left running holds.           *)
(***************************************************************************)
EXTENDS CsdsResolver

CONSTANTS
    Clients,
    GivenIntervals, \* the refresh intervals that users write, 0 among them
    DEFAULT_CSDS_REFRESH_INTERVAL,
    MaxRefreshes,   \* bound: the refreshes of a client, that of its start included
    FetchTime       \* assumption: by then a request is answered or has failed

RefreshCalls == Clients \X (1..MaxRefreshes)

ASSUME CallsAssumption == MaxRefreshes \in Nat /\ RefreshCalls \subseteq Calls
ASSUME IntervalAssumption == /\ GivenIntervals \subseteq Nat
                             /\ DEFAULT_CSDS_REFRESH_INTERVAL \in Nat \ {0}
                             /\ None \notin GivenIntervals
                             /\ FetchTime \in Nat

VARIABLES
    config,  \* of each client, as the user wrote it
    client   \* of each client: its loop, whether refresh() is under way, its last
             \* refresh, what it holds, its timer, and (of the model) how often that was
             \* skipped since the last answer

allVars == <<vars, config, client>>

-----------------------------------------------------------------------------
ICsdsClientConfigBase == [csdsConfig : ICsdsConfigBase,
                          refreshInterval : GivenIntervals \cup {None}]

\* What the client runs with: an interval of 0 counts as none.
DefaultCsdsClientConfig(base) ==
    [base EXCEPT !.refreshInterval = IF @ \in {None, 0} THEN DEFAULT_CSDS_REFRESH_INTERVAL ELSE @]

refreshInterval(i) == DefaultCsdsClientConfig(config[i]).refreshInterval

ClientType == [loop : {"stopped", "refreshing", "armed", "ended"}, manual : BOOLEAN,
               n : 0..MaxRefreshes, csdsDomains : RefreshCalls \cup {None},
               due : Nat, skipped : Nat]

\* A client that has started holds domains.
TypeOK_Clients ==
    /\ TypeOK
    /\ config \in [Clients -> ICsdsClientConfigBase]
    /\ client \in [Clients -> ClientType]
    /\ \A i \in Clients : client[i].loop \in {"armed", "ended"} => client[i].csdsDomains # None

InitClients == /\ Init
               /\ config \in [Clients -> ICsdsClientConfigBase]
               /\ client = [i \in Clients |-> [loop |-> "stopped", manual |-> FALSE, n |-> 0,
                                               csdsDomains |-> None,
                                               due |-> 0, skipped |-> 0]]

\* A refresh asks for all services.
Asks(i) == /\ client[i].n < MaxRefreshes
           /\ Resolve(<<i, client[i].n + 1>>, Question(config[i].csdsConfig, None))
           /\ UNCHANGED config

\* start() refreshes, and so does the timer, unless a refresh is under way.
onRefresh(i) ==
    /\ \/ client[i].loop = "stopped"
       \/ client[i].loop = "armed" /\ now = client[i].due /\ ~client[i].manual
    /\ Asks(i)
    /\ client' = [client EXCEPT ![i].loop = "refreshing", ![i].n = @ + 1]

\* The user's refresh(), of a client that is started and does not refresh yet.
refresh(i) ==
    /\ client[i].loop \in {"armed", "ended"} /\ ~client[i].manual
    /\ Asks(i)
    /\ client' = [client EXCEPT ![i].manual = TRUE, ![i].n = @ + 1]

\* The timer while refresh() is under way: this one is skipped, and the next is set.
RefreshSkipped(i) ==
    /\ client[i].loop = "armed" /\ now = client[i].due /\ client[i].manual
    /\ client' = [client EXCEPT ![i].due = now + refreshInterval(i), ![i].skipped = @ + 1]
    /\ UNCHANGED <<vars, config>>

Refreshing(i) == client[i].loop = "refreshing"
Last(i) == call[<<i, client[i].n>>]

\* Mutant: the answer is dropped.
Refreshed_Drops(i) ==
    /\ Refreshing(i) /\ Last(i).stage = "resolved"
    /\ client' = [client EXCEPT ![i].loop = "armed", ![i].due = now + refreshInterval(i)]
    /\ UNCHANGED <<vars, config>>

\* Mutant: the domains are only taken if there are none.
Refreshed_Once(i) ==
    /\ Refreshing(i) /\ Last(i).stage = "resolved"
    /\ client' = [client EXCEPT ![i].loop = "armed", ![i].due = now + refreshInterval(i),
                                ![i].csdsDomains = IF @ = None THEN <<i, client[i].n>> ELSE @,
                                ![i].skipped = 0]
    /\ UNCHANGED <<vars, config>>

\* The awaited answer is there: it replaces the domains, and the timer is set.
Refreshed(i) ==
    /\ Refreshing(i) /\ Last(i).stage = "resolved"
    /\ client' = [client EXCEPT ![i].loop = "armed", ![i].due = now + refreshInterval(i),
                                ![i].csdsDomains = <<i, client[i].n>>, ![i].skipped = 0]
    /\ UNCHANGED <<vars, config>>

\* refresh() ends: an answer replaces the domains, a failure is its caller's.  The timer
\* is left as it is.
ManualRefreshed(i) ==
    /\ client[i].manual /\ Last(i).stage = "resolved"
    /\ client' = [client EXCEPT ![i].manual = FALSE, ![i].csdsDomains = <<i, client[i].n>>,
                                ![i].skipped = 0]
    /\ UNCHANGED <<vars, config>>

ManualFailed(i) ==
    /\ client[i].manual /\ Last(i).stage = "rejected"
    /\ client' = [client EXCEPT ![i].manual = FALSE]
    /\ UNCHANGED <<vars, config>>

\* start() fails, and may be tried again; or the rejection leaves the timer's
\* function before it sets the next timer.
RefreshFailed(i) ==
    /\ Refreshing(i) /\ Last(i).stage = "rejected"
    /\ client' = [client EXCEPT ![i].loop = IF client[i].csdsDomains = None
                                            THEN "stopped" ELSE "ended"]
    /\ UNCHANGED <<vars, config>>

\* Somebody else asks, for one service or for all.
Ask(c, base, service) ==
    /\ c \notin RefreshCalls
    /\ Resolve(c, Question(base, service))
    /\ UNCHANGED <<config, client>>

Respond(f, status) == Answered(f, status) /\ UNCHANGED <<config, client>>

\* Timers and continuations run in time.
Elapse ==
    /\ \A i \in Clients :
          /\ client[i].loop = "armed" => now < client[i].due
          /\ Refreshing(i) \/ client[i].manual => Last(i).stage = "waiting"
    /\ \A f \in Calls : Pending(f) => now < call[f].asked + FetchTime
    /\ Tick
    /\ UNCHANGED <<config, client>>

NextClients ==
    \/ \E i \in Clients : \/ onRefresh(i) \/ Refreshed(i) \/ RefreshFailed(i)
                          \/ RefreshSkipped(i)
                          \/ refresh(i) \/ ManualRefreshed(i) \/ ManualFailed(i)
    \/ \E c \in Calls, base \in ICsdsConfigBase, service \in Services \cup {None} :
          Ask(c, base, service)
    \/ \E f \in Calls, status \in Statuses : Respond(f, status)
    \/ Elapse

SpecClients == InitClients /\ [][NextClients]_allVars

-----------------------------------------------------------------------------
(* Properties *)

\* As long as its loop runs a client holds no domains that are older than the
\* cache may make an answer, its own interval and a request together: the two
\* ages add up, and 0 for the interval does not stop the refreshes.  Every run of the
\* timer that met a refresh() of the user, which then failed, costs one interval more.
DomainsFresh ==
    \A i \in Clients :
        client[i].loop \in {"armed", "refreshing"} /\ client[i].csdsDomains # None
        => now < fetch[call[client[i].csdsDomains].of].at
                    + MaxAge + refreshInterval(i) + client[i].skipped * refreshInterval(i)
                    + FetchTime
=============================================================================
