----------------------------- MODULE LeSessions -----------------------------
(***************************************************************************)
(* LeClients, their session providers and the servers that keep the          *)
(* sessions: what is sent for whom, and which sessions stay behind.           *)
(*                                                                         *)
(* All clients are configured with one credentials object, each for an        *)
(* account of its own, and their users pass one headers object to every         *)
(* authenticatedRequest: configurations are copied shallowly.                *)
(*                                                                         *)
(* The servers are external.  A request is carried out or not, whatever is     *)
(* answered: only a 200 says that it was.  A session that has ended is          *)
(* refused.  So is the HTTP library: `got` sends a request that no answer        *)
(* comes to again by itself, with the same body and headers.                   *)
(***************************************************************************)
EXTENDS Naturals, FiniteSets, UtilRequest

CONSTANTS
    Clients,
    Requests,     \* the authenticated requests, each made once
    None,         \* no session, no account, no client
    GotRetries,   \* how often got sends a request again, in each try of util-request
    MaxLogins,    \* bound: how often the clients log in, together
    MaxSessions   \* bound: how many sessions are ever made

Sessions == 1..MaxSessions

ASSUME BoundAssumption == MaxLogins \in Nat /\ MaxSessions \in Nat
ASSUME GotAssumption == GotRetries \in Nat
ASSUME NoneAssumption == None \notin Clients \cup Sessions

VARIABLES
    provider,      \* of each client, the kind of its session provider
    state,         \* of each client, the state of its machine
    op,            \* of each client, the transition under way and its call
    leSession,     \* of each client, the session it holds
    credentials,   \* the account in the credentials object
    headers,       \* the Authorization in the headers object
    request,       \* of each authenticated request: stage, client, tokens
    server,        \* the sessions at the servers
    logins         \* how many logins there have been

vars == <<provider, state, op, leSession, credentials, headers, request, server, logins>>

Agents == {i \in Clients : provider[i] = "agent"}

-----------------------------------------------------------------------------
\* A client waits in a transition for a provider's call: the service is resolved
\* and then the request tried; got has repeated this try `repeats` times.  `meanwhile`
\* are the clients that have begun a login since, `sent` the account in the body once
\* it is made.
OpType == [transition : {"none", "start", "refresh", "stop"},
           call : {"none", "login", "refresh", "logout"},
           stage : {"none", "resolving"} \cup Tries, repeats : 0..GotRetries,
           meanwhile : SUBSET Clients, sent : Clients \cup {None}, login : 0..MaxLogins]

\* Requests know the token they were made with, those written since, and the last sent.
RequestType == [stage : {"new", "ended"} \cup Tries, asked : Sessions \cup {None},
                meanwhile : SUBSET Sessions, sent : Sessions \cup {None}]

\* A session belongs to an account.  It is known once its login was answered by 200;
\* given up once a logout of it has failed.
SessionType == [state : {"none", "live", "ended"}, of : Clients \cup {None}, login : 0..MaxLogins,
                account : Clients \cup {None}, known : BOOLEAN, givenUp : BOOLEAN]

Trying(i) == op[i].stage \in Tries

\* No login is sent without an account.
TypeOK == /\ provider \in [Clients -> {"agent", "consumer"}]
          /\ state \in [Clients -> {"stopped", "started"}]
          /\ op \in [Clients -> OpType]
          /\ \A i \in Clients : op[i].call = "login" /\ Trying(i) => op[i].sent # None
          /\ leSession \in [Clients -> Sessions \cup {None}]
          /\ credentials \in Clients \cup {None}
          /\ headers \in Sessions \cup {None}
          /\ request \in [Requests -> RequestType]
          /\ server \in [Sessions -> SessionType]
          /\ logins \in 0..MaxLogins

NoOp == [transition |-> "none", call |-> "none", stage |-> "none", repeats |-> 0,
         meanwhile |-> {}, sent |-> None, login |-> 0]

NewRequest == [stage |-> "new", asked |-> None, meanwhile |-> {}, sent |-> None]

Init == /\ provider \in [Clients -> {"agent", "consumer"}]
        /\ state = [i \in Clients |-> "stopped"]
        /\ op = [i \in Clients |-> NoOp]
        /\ leSession = [i \in Clients |-> None]
        /\ credentials = None
        /\ headers = None
        /\ request = [r \in Requests |-> NewRequest]
        /\ server = [s \in Sessions |-> [state |-> "none", of |-> None, login |-> 0,
                                         account |-> None, known |-> FALSE, givenUp |-> FALSE]]
        /\ logins = 0

-----------------------------------------------------------------------------
(* The calls of the providers *)

Idle(i) == op[i].transition = "none"

\* A client waits for call c in transition t.
Waits(t, c) == [NoOp EXCEPT !.transition = t, !.call = c, !.stage = "resolving"]

\* Mutant: what the credentials object says already is not replaced.
Merged_IfAbsent(i) == IF credentials = None THEN i ELSE credentials

\* Mutant: the merge goes into a copy, and is lost.
Merged_Copy(i) == credentials

\* Object.assign(credentials, {accountId, csdsDomain}).
Merged(i) == i

\* login() is called: the agents' merges its account into the credentials object
\* before it waits for the service.
Login(i) ==
    /\ logins < MaxLogins
    /\ logins' = logins + 1
    /\ credentials' = IF i \in Agents THEN Merged(i) ELSE credentials
    /\ op' = [j \in Clients |->
                IF j = i THEN [Waits("start", "login") EXCEPT !.login = logins + 1]
                ELSE IF i \in Agents /\ op[j].call = "login" /\ op[j].stage = "resolving"
                     THEN [op[j] EXCEPT !.meanwhile = @ \cup {i}] ELSE op[j]]

NoLogin == UNCHANGED <<logins, credentials>>

\* The transition of client i ends, with or without an error.
Done(i) == op' = [op EXCEPT ![i] = NoOp]

\* onStart: the session that is held, if any, is refreshed before the login.
\* The consumers' refresh and logout do nothing.
Start(i) ==
    /\ Idle(i) /\ state[i] = "stopped"
    /\ state' = [state EXCEPT ![i] = "started"]
    /\ IF leSession[i] # None /\ i \in Agents
       THEN NoLogin /\ op' = [op EXCEPT ![i] = Waits("start", "refresh")]
       ELSE Login(i)
    /\ UNCHANGED <<provider, leSession, headers, request, server>>

Refresh(i) ==
    /\ Idle(i) /\ state[i] = "started"
    /\ leSession[i] # None /\ i \in Agents
    /\ op' = [op EXCEPT ![i] = Waits("refresh", "refresh")]
    /\ NoLogin
    /\ UNCHANGED <<provider, state, leSession, headers, request, server>>

\* Mutant: the session is forgotten, and the server not told.
Stop_Forgets(i) ==
    /\ Idle(i) /\ state[i] = "started"
    /\ state' = [state EXCEPT ![i] = "stopped"]
    /\ leSession' = [leSession EXCEPT ![i] = None]
    /\ NoLogin
    /\ UNCHANGED <<provider, op, headers, request, server>>

Stop(i) ==
    /\ Idle(i) /\ state[i] = "started"
    /\ state' = [state EXCEPT ![i] = "stopped"]
    /\ IF leSession[i] # None /\ i \in Agents
       THEN op' = [op EXCEPT ![i] = Waits("stop", "logout")] /\ UNCHANGED leSession
       ELSE leSession' = [leSession EXCEPT ![i] = None] /\ UNCHANGED op
    /\ NoLogin
    /\ UNCHANGED <<provider, headers, request, server>>

\* JSON.stringify(body), after the wait, of the credentials object as it is by then.
Body(i) == IF i \in Agents THEN credentials ELSE i

ServiceResolved(i) ==
    /\ op[i].stage = "resolving"
    /\ op' = [op EXCEPT ![i].stage = "first",
                        ![i].sent = IF op[i].call = "login" THEN Body(i) ELSE None]
    /\ NoLogin
    /\ UNCHANGED <<provider, state, leSession, headers, request, server>>

-----------------------------------------------------------------------------
(* The requests of the providers at the servers *)

\* The server carries out a login: it makes session s.
Creates(i, s, known) ==
    /\ server[s].state = "none"
    /\ \A s2 \in Sessions : s2 < s => server[s2].state # "none"
    /\ server' = [server EXCEPT ![s] =
           [state |-> "live", of |-> i, login |-> op[i].login, account |-> op[i].sent,
            known |-> known, givenUp |-> FALSE]]

\* It is sent again, by got or by a second try, or the call fails and leaves the
\* session held as it is.
NotAnswered(i, outcome) ==
    /\ Trying(i)
    /\ \/ /\ outcome = "repeat" /\ op[i].repeats < GotRetries
          /\ op' = [op EXCEPT ![i].repeats = @ + 1]
       \/ /\ outcome = "again" /\ outcome \in Outcomes(op[i].stage)
          /\ op' = [op EXCEPT ![i].stage = "second", ![i].repeats = 0]
       \/ /\ outcome = "error" /\ outcome \in Outcomes(op[i].stage)
          /\ Done(i)
    /\ NoLogin
    /\ UNCHANGED <<provider, state, leSession, headers, request>>

LoginSucceeds(i) ==
    /\ Trying(i) /\ op[i].call = "login"
    /\ \E s \in Sessions : /\ Creates(i, s, TRUE)
                           /\ leSession' = [leSession EXCEPT ![i] = s]
    /\ Done(i)
    /\ NoLogin
    /\ UNCHANGED <<provider, state, headers, request>>

\* Every time it is sent it may make a session.  Among the errors of a consumer: a
\* body without a jwt.
LoginFails(i, outcome) ==
    /\ op[i].call = "login"
    /\ NotAnswered(i, outcome)
    /\ UNCHANGED server \/ \E s \in Sessions : Creates(i, s, FALSE)

Live(i) == server[leSession[i]].state = "live"

\* In a start, the login follows the refresh.
RefreshSucceeds(i) ==
    /\ Trying(i) /\ op[i].call = "refresh" /\ Live(i)
    /\ IF op[i].transition = "start" THEN Login(i) ELSE Done(i) /\ NoLogin
    /\ UNCHANGED <<provider, state, leSession, headers, request, server>>

RefreshFails(i, outcome) ==
    /\ op[i].call = "refresh"
    /\ NotAnswered(i, outcome)
    /\ UNCHANGED server

LogoutSucceeds(i) ==
    /\ Trying(i) /\ op[i].call = "logout" /\ Live(i)
    /\ server' = [server EXCEPT ![leSession[i]].state = "ended"]
    /\ leSession' = [leSession EXCEPT ![i] = None]
    /\ Done(i)
    /\ NoLogin
    /\ UNCHANGED <<provider, state, headers, request>>

\* Mutant: a session is forgotten, whether it could be logged out or not.
LogoutFails_Forgets(i, outcome) ==
    /\ op[i].call = "logout" /\ Trying(i) /\ outcome \in Outcomes(op[i].stage)
    /\ server' = [server EXCEPT ![leSession[i]].givenUp = TRUE]
    /\ leSession' = [leSession EXCEPT ![i] = None]
    /\ Done(i)
    /\ NoLogin
    /\ UNCHANGED <<provider, state, headers, request>>

\* The session is held, though it may have ended.
LogoutFails(i, outcome) ==
    /\ op[i].call = "logout"
    /\ NotAnswered(i, outcome)
    /\ \E s \in {server[leSession[i]].state, "ended"} :
          server' = [server EXCEPT ![leSession[i]].state = s,
                                   ![leSession[i]].givenUp = @ \/ outcome = "error"]

\* A session ends by itself; one that nobody holds makes no difference.
Expire(s) == /\ server[s].state = "live" /\ \E i \in Agents : leSession[i] = s
             /\ server' = [server EXCEPT ![s].state = "ended"]
             /\ UNCHANGED <<provider, state, op, leSession, credentials, headers, request, logins>>

ResolveFails(i) ==
    /\ op[i].stage = "resolving"
    /\ Done(i)
    /\ server' = IF op[i].call = "logout" THEN [server EXCEPT ![leSession[i]].givenUp = TRUE]
                                          ELSE server
    /\ NoLogin
    /\ UNCHANGED <<provider, state, leSession, headers, request>>

-----------------------------------------------------------------------------
(* authenticatedRequest *)

Authorization(i) == leSession[i]

\* The token of the session is written into the headers object, and sent.
AuthenticatedRequest(i, r) ==
    /\ state[i] = "started" /\ leSession[i] # None
    /\ request[r].stage = "new"
    /\ headers' = Authorization(i)
    /\ request' = [q \in Requests |->
            IF q = r THEN [stage |-> "first", asked |-> leSession[i],
                           meanwhile |-> {}, sent |-> Authorization(i)]
            ELSE IF request[q].stage \in Tries
                 THEN [request[q] EXCEPT !.meanwhile = @ \cup {Authorization(i)}] ELSE request[q]]
    /\ UNCHANGED <<provider, state, op, leSession, credentials, server, logins>>

\* The second try sends the headers as they are by then; what got repeats does not.
RequestAnswered(r, outcome) ==
    /\ request[r].stage \in Tries
    /\ outcome \in Outcomes(request[r].stage) \cup {"ok"}
    /\ request' = IF outcome = "again"
                  THEN [request EXCEPT ![r].stage = "second", ![r].sent = headers]
                  ELSE [request EXCEPT ![r] = [NewRequest EXCEPT !.stage = "ended"]]
    /\ UNCHANGED <<provider, state, op, leSession, credentials, headers, server, logins>>

Next == \/ \E i \in Clients :
              \/ Start(i) \/ Refresh(i) \/ Stop(i)
              \/ ServiceResolved(i) \/ ResolveFails(i)
              \/ LoginSucceeds(i) \/ RefreshSucceeds(i) \/ LogoutSucceeds(i)
              \/ \E outcome \in {"repeat", "again", "error"} :
                    LoginFails(i, outcome) \/ RefreshFails(i, outcome) \/ LogoutFails(i, outcome)
              \/ \E r \in Requests : AuthenticatedRequest(i, r)
        \/ \E r \in Requests, outcome \in {"again", "ok", "error"} : RequestAnswered(r, outcome)
        \/ \E s \in Sessions : Expire(s)

Spec == Init /\ [][Next]_vars

-----------------------------------------------------------------------------
(* Properties *)

\* doRequest makes its body after a wait, of an object that every login writes to:
\* a client logs in to its own account, or to that of a client that began to log in
\* while it waited; never to one that an earlier login left in the object.
LoginIsOwn ==
    \A i \in Clients : op[i].call = "login" /\ Trying(i)
                       => op[i].sent \in {i} \cup op[i].meanwhile

\* authenticatedRequest sends the token of its client.  A second try may send that of
\* a request made meanwhile with the same headers, and no other.
RequestIsOwn ==
    \A r \in Requests : request[r].sent \in {request[r].asked} \cup request[r].meanwhile

\* No session of an agent is left behind without reason: one that still lives is held
\* by its client, or its client never heard of it, or has failed to log it out.
NoSessionLost ==
    \A s \in Sessions : server[s].state = "live" /\ server[s].of \in Agents
                        => \/ leSession[server[s].of] = s
                           \/ ~server[s].known
                           \/ server[s].givenUp

\* The sessions that login n has made.
MadeBy(n) == {s \in Sessions : server[s].login = n}

\* A login makes no more sessions than two tries and the repeats of each may, however
\* they are answered; and its client knows at most one of them.
SessionsPerLogin ==
    \A n \in 1..MaxLogins :
        /\ Cardinality(MadeBy(n)) <= 2 * (1 + GotRetries)
        /\ \A s, t \in MadeBy(n) : server[s].known /\ server[t].known => s = t

Stuck(i) == /\ leSession[i] # None /\ server[leSession[i]].state = "ended"
            /\ op[i].call # "login"

\* An agent's client that holds a session which has ended, whether it expired or its
\* logout was carried out and not answered, holds it for good: the server refuses to
\* refresh it and to log it out, stop() keeps it, and start() does not reach the login.
StuckForGood == [][\A i \in Agents : Stuck(i) => Stuck(i)' /\ leSession'[i] = leSession[i]]_vars
=============================================================================
