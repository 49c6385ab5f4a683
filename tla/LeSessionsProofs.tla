--------------------------- MODULE LeSessionsProofs ---------------------------
(***************************************************************************)
(* Proofs about LeSessions, for any clients and requests, and any bounds.    *)
(*                                                                         *)
(* IInv is the inductive invariant: the types; what a client waits for;       *)
(* whose account and token are in the shared objects; which session a client  *)
(* holds, and when it may be replaced; and how many sessions a login has       *)
(* made so far.                                                             *)
(***************************************************************************)
EXTENDS LeSessions, FiniteSetTheorems, TLAPS

\* A client waits for a call of its transition; only an agent's that holds a session
\* refreshes it or logs it out; and only a stop leaves a client stopped.
OpInv ==
    \A i \in Clients :
        /\ op[i].transition = "none" <=> op[i].call = "none"
        /\ op[i].call = "none" <=> op[i].stage = "none"
        /\ op[i].call = "login" => op[i].transition = "start"
        /\ op[i].call = "refresh" => op[i].transition \in {"start", "refresh"}
        /\ op[i].call = "logout" => op[i].transition = "stop"
        /\ op[i].call \in {"refresh", "logout"} => i \in Agents /\ leSession[i] # None
        /\ op[i].transition \in {"start", "refresh"} => state[i] = "started"
        /\ op[i].stage = "resolving" => op[i].repeats = 0

\* While an agent's login waits for the service, the credentials object has its account
\* or one that was written meanwhile; and with one of these its body was made.
LoginInv ==
    \A i \in Clients : op[i].call = "login" =>
        /\ op[i].stage = "resolving" /\ i \in Agents => credentials \in {i} \cup op[i].meanwhile
        /\ Trying(i) => op[i].sent \in {i} \cup op[i].meanwhile

\* As long as a request is tried, the headers object has its token or one that was
\* written meanwhile.
RequestInv ==
    \A r \in Requests :
        /\ request[r].sent \in {request[r].asked} \cup request[r].meanwhile
        /\ request[r].stage \in Tries => headers \in {request[r].asked} \cup request[r].meanwhile

\* A client holds a session that was made for it, and that it knows.
HeldInv ==
    \A i \in Clients : leSession[i] # None =>
        /\ server[leSession[i]].state # "none"
        /\ server[leSession[i]].of = i
        /\ server[leSession[i]].known

\* A session that an agent's client still has when it is stopped or starts again has
\* been given up: only then may a login replace it.
KeptInv ==
    \A i \in Agents :
        /\ leSession[i] # None
        /\ op[i].transition = "start" \/ (Idle(i) /\ state[i] = "stopped")
        => server[leSession[i]].givenUp

\* Logins have numbers of their own, which the sessions they have made bear.
NumberInv ==
    /\ \A i \in Clients : op[i].call = "login" => op[i].login \in 1..logins
    /\ \A i, j \in Clients : /\ op[i].call = "login" /\ op[j].call = "login"
                             /\ op[i].login = op[j].login
                             => i = j
    /\ \A s \in Sessions : server[s].login \in 0..logins
    /\ \A s \in Sessions : server[s].state = "none" => server[s].login = 0

\* How often a request was sent, and not answered by success.
Sendings(i) == op[i].repeats + (IF op[i].stage = "second" THEN 1 + GotRetries ELSE 0)

\* A login has made no more sessions than its requests were sent in vain, and none of
\* them is known to its client.
MadeInv ==
    \A i \in Clients : op[i].call = "login" =>
        /\ Cardinality(MadeBy(op[i].login)) <= Sendings(i)
        /\ \A s \in MadeBy(op[i].login) : ~server[s].known

IInv == /\ TypeOK /\ OpInv /\ LoginInv /\ RequestInv /\ HeldInv /\ KeptInv /\ NumberInv /\ MadeInv
        /\ NoSessionLost /\ SessionsPerLogin

-----------------------------------------------------------------------------
(* What the parts of the actions do, pointwise *)

\* No step changes the kind of a provider.
LEMMA AgentsKept ==
    [Next]_vars => provider' = provider /\ Agents' = Agents /\ Agents \subseteq Clients
<1> SUFFICES ASSUME [Next]_vars PROVE provider' = provider
  BY DEF Agents
<1>1. QED
  BY DEF Next, vars, Start, Refresh, Stop, ServiceResolved, ResolveFails, LoginSucceeds, LoginFails,
         RefreshSucceeds, RefreshFails, LogoutSucceeds, LogoutFails, NotAnswered,
         AuthenticatedRequest, RequestAnswered, Expire

\* The fields of the records.
LEMMA Fields ==
    ASSUME TypeOK
    PROVE  /\ \A i \in Clients : /\ op[i].transition \in {"none", "start", "refresh", "stop"}
                                 /\ op[i].call \in {"none", "login", "refresh", "logout"}
                                 /\ op[i].stage \in {"none", "resolving", "first", "second"}
                                 /\ op[i].meanwhile \subseteq Clients
                                 /\ op[i].sent \in Clients \cup {None}
                                 /\ op[i].login \in Nat
                                 /\ op[i].repeats \in 0..GotRetries /\ op[i].repeats \in Nat
                                 /\ leSession[i] \in Sessions \cup {None}
           /\ \A s \in Sessions : /\ server[s].state \in {"none", "live", "ended"}
                                  /\ server[s].of \in Clients \cup {None}
                                  /\ server[s].login \in Nat
                                  /\ server[s].known \in BOOLEAN /\ server[s].givenUp \in BOOLEAN
           /\ logins \in Nat /\ None \notin Clients /\ None \notin Sessions
BY NoneAssumption, BoundAssumption, GotAssumption DEF TypeOK, OpType, SessionType, Tries

\* Only a first try is made again.
LEMMA OutcomesOf ==
    ASSUME NEW try, NEW outcome, outcome \in Outcomes(try)
    PROVE  outcome \in {"again", "error"} /\ (outcome = "again" => try = "first")
BY DEF Outcomes, Outcome

\* A transition that ends leaves a client idle, and the others as they are.
LEMMA DoneShape ==
    ASSUME TypeOK, NEW i \in Clients, Done(i)
    PROVE  /\ op' \in [Clients -> OpType]
           /\ op'[i].transition = "none" /\ op'[i].call = "none" /\ op'[i].stage = "none"
           /\ op'[i].repeats = 0
           /\ \A j \in Clients \ {i} : op'[j] = op[j]
<1>1. NoOp \in OpType
  BY BoundAssumption, GotAssumption DEF NoOp, OpType
<1>2. QED
  BY <1>1 DEF TypeOK, Done, NoOp

\* A refresh or a logout that begins waits for its service.
LEMMA WaitsShape ==
    ASSUME TypeOK, NEW i \in Clients, NEW t \in {"start", "refresh", "stop"},
           NEW c \in {"refresh", "logout"}, op' = [op EXCEPT ![i] = Waits(t, c)]
    PROVE  /\ op' \in [Clients -> OpType]
           /\ op'[i].transition = t /\ op'[i].call = c /\ op'[i].stage = "resolving"
           /\ op'[i].repeats = 0
           /\ \A j \in Clients \ {i} : op'[j] = op[j]
<1>1. NoOp \in OpType
  BY BoundAssumption, GotAssumption DEF NoOp, OpType
<1>2. /\ Waits(t, c) \in OpType
      /\ Waits(t, c).transition = t /\ Waits(t, c).call = c
      /\ Waits(t, c).stage = "resolving" /\ Waits(t, c).repeats = 0
  BY <1>1 DEF Waits, OpType, NoOp
<1>3. QED
  BY <1>2 DEF TypeOK

\* The others are as they were, but for those who now know of the login.
LEMMA LoginShape ==
    ASSUME TypeOK, NEW i \in Clients, Login(i)
    PROVE  /\ logins' = logins + 1 /\ logins' \in 0..MaxLogins
           /\ credentials' = IF i \in Agents THEN i ELSE credentials
           /\ op' \in [Clients -> OpType]
           /\ op'[i].transition = "start" /\ op'[i].call = "login" /\ op'[i].stage = "resolving"
           /\ op'[i].meanwhile = {} /\ op'[i].login = logins + 1 /\ op'[i].repeats = 0
           /\ \A j \in Clients \ {i} :
                /\ op'[j].transition = op[j].transition /\ op'[j].call = op[j].call
                /\ op'[j].stage = op[j].stage /\ op'[j].repeats = op[j].repeats
                /\ op'[j].sent = op[j].sent /\ op'[j].login = op[j].login
                /\ op[j].meanwhile \subseteq op'[j].meanwhile
                /\ i \in Agents /\ op[j].call = "login" /\ op[j].stage = "resolving"
                   => i \in op'[j].meanwhile
<1> DEFINE new == [Waits("start", "login") EXCEPT !.login = logins + 1]
<1>1. logins' = logins + 1 /\ logins' \in 0..MaxLogins
  BY BoundAssumption DEF Login, TypeOK
<1>2. /\ new \in OpType
      /\ new.transition = "start" /\ new.call = "login" /\ new.stage = "resolving"
      /\ new.meanwhile = {} /\ new.login = logins + 1 /\ new.repeats = 0
  <2> DEFINE w == Waits("start", "login")
  <2>1. NoOp \in OpType
    BY BoundAssumption, GotAssumption DEF NoOp, OpType
  <2>2. /\ w \in OpType
        /\ w.transition = "start" /\ w.call = "login" /\ w.stage = "resolving"
        /\ w.meanwhile = {} /\ w.repeats = 0
    BY <2>1 DEF Waits, OpType, NoOp
  <2>3. new = [w EXCEPT !.login = logins + 1]
    OBVIOUS
  <2> HIDE DEF w, new
  <2>4. QED
    BY <1>1, <2>2, <2>3 DEF OpType
<1> HIDE DEF new
<1> DEFINE informed(j) == [op[j] EXCEPT !.meanwhile = @ \cup {i}]
<1>3. ASSUME NEW j \in Clients
      PROVE  /\ informed(j) \in OpType
             /\ informed(j).transition = op[j].transition /\ informed(j).call = op[j].call
             /\ informed(j).stage = op[j].stage /\ informed(j).repeats = op[j].repeats
             /\ informed(j).sent = op[j].sent /\ informed(j).login = op[j].login
             /\ informed(j).meanwhile = op[j].meanwhile \cup {i}
  BY DEF TypeOK, OpType
<1> DEFINE hears(j) == i \in Agents /\ op[j].call = "login" /\ op[j].stage = "resolving"
<1> HIDE DEF informed
<1>4. op' = [j \in Clients |-> IF j = i THEN new ELSE IF hears(j) THEN informed(j) ELSE op[j]]
  BY DEF Login, new, informed
<1> HIDE DEF hears
<1>5. op' \in [Clients -> OpType]
  BY <1>2, <1>3, <1>4 DEF TypeOK
<1>6. op'[i] = new
  BY <1>4
<1>7. \A j \in Clients \ {i} : op'[j] = IF hears(j) THEN informed(j) ELSE op[j]
  BY <1>4
<1>8. credentials' = IF i \in Agents THEN i ELSE credentials
  BY DEF Login, Merged
<1>9. QED
  BY <1>1, <1>2, <1>3, <1>5, <1>6, <1>7, <1>8 DEF hears

\* A call whose service is resolved is tried; a login has its account from the
\* credentials object of that moment.
LEMMA ResolvedShape ==
    ASSUME TypeOK, NEW i \in Clients, ServiceResolved(i)
    PROVE  /\ op[i].stage = "resolving"
           /\ UNCHANGED <<state, leSession, headers, request, server, logins, credentials>>
           /\ op' \in [Clients -> OpType]
           /\ op'[i].transition = op[i].transition /\ op'[i].call = op[i].call
           /\ op'[i].stage = "first" /\ op'[i].repeats = op[i].repeats
           /\ op'[i].meanwhile = op[i].meanwhile /\ op'[i].login = op[i].login
           /\ op[i].call = "login" => op'[i].sent = Body(i)
           /\ \A j \in Clients \ {i} : op'[j] = op[j]
<1>1. Body(i) \in Clients \cup {None}
  BY DEF Body, TypeOK
<1> DEFINE body == IF op[i].call = "login" THEN Body(i) ELSE None
<1>2. body \in Clients \cup {None} /\ (op[i].call = "login" => body = Body(i))
  BY <1>1
<1>3. op' = [op EXCEPT ![i].stage = "first", ![i].sent = body]
  BY DEF ServiceResolved
<1> HIDE DEF body
<1>4. op[i] \in OpType /\ op[i].stage = "resolving"
  BY DEF TypeOK, ServiceResolved
<1>5. op'[i] = [op[i] EXCEPT !.stage = "first", !.sent = body]
  BY <1>3 DEF TypeOK
<1>6. op'[i] \in OpType
  BY <1>2, <1>4, <1>5 DEF OpType, Tries
<1>7. UNCHANGED <<state, leSession, headers, request, server, logins, credentials>>
  BY DEF ServiceResolved, NoLogin
<1>8. QED
  BY <1>2, <1>3, <1>4, <1>5, <1>6, <1>7 DEF TypeOK, OpType

\* A refresh that begins is that of an agent that holds a session.
LEMMA RefreshShape ==
    ASSUME TypeOK, NEW i \in Clients, Refresh(i)
    PROVE  /\ Idle(i) /\ state[i] = "started" /\ leSession[i] # None /\ i \in Agents
           /\ UNCHANGED <<state, leSession, headers, request, server, logins, credentials>>
           /\ op' \in [Clients -> OpType]
           /\ op'[i].transition = "refresh" /\ op'[i].call = "refresh"
           /\ op'[i].stage = "resolving" /\ op'[i].repeats = 0
           /\ \A j \in Clients \ {i} : op'[j] = op[j]
<1>1. op' = [op EXCEPT ![i] = Waits("refresh", "refresh")]
  BY DEF Refresh
<1>2. /\ Idle(i) /\ state[i] = "started" /\ leSession[i] # None /\ i \in Agents
      /\ UNCHANGED <<state, leSession, headers, request, server, logins, credentials>>
  BY DEF Refresh, NoLogin
<1>3. QED
  BY <1>1, <1>2, WaitsShape

\* A call that was not answered by 200 is sent again, or its transition ends.
LEMMA NotAnsweredShape ==
    ASSUME TypeOK, NEW i \in Clients, NEW outcome, NotAnswered(i, outcome)
    PROVE  /\ Trying(i) /\ outcome \in {"repeat", "again", "error"}
           /\ op' \in [Clients -> OpType]
           /\ outcome # "error" =>
                /\ op'[i].stage \in Tries
                /\ op'[i].transition = op[i].transition /\ op'[i].call = op[i].call
                /\ op'[i].meanwhile = op[i].meanwhile
                /\ op'[i].sent = op[i].sent /\ op'[i].login = op[i].login
           /\ outcome = "repeat" =>
                op'[i].repeats = op[i].repeats + 1 /\ op'[i].stage = op[i].stage
           /\ outcome = "again" =>
                op[i].stage = "first" /\ op'[i].stage = "second" /\ op'[i].repeats = 0
           /\ outcome = "error" =>
                op'[i].transition = "none" /\ op'[i].call = "none" /\ op'[i].stage = "none"
           /\ \A j \in Clients \ {i} : op'[j] = op[j]
           /\ UNCHANGED <<state, leSession, headers, request, logins, credentials>>
<1>1. /\ Trying(i) /\ outcome \in {"repeat", "again", "error"}
      /\ UNCHANGED <<state, leSession, headers, request, logins, credentials>>
  BY DEF NotAnswered, NoLogin
<1>2. op[i] \in OpType
  BY DEF TypeOK
<1>3. CASE outcome = "repeat"
  <2>1. op' = [op EXCEPT ![i].repeats = @ + 1] /\ op[i].repeats < GotRetries
    BY <1>3 DEF NotAnswered
  <2>2. op[i].repeats + 1 \in 0..GotRetries
    BY <2>1, Fields, GotAssumption
  <2>3. op'[i] = [op[i] EXCEPT !.repeats = @ + 1] /\ op'[i] \in OpType
    BY <1>2, <2>1, <2>2 DEF TypeOK, OpType
  <2>4. op' \in [Clients -> OpType] /\ \A j \in Clients \ {i} : op'[j] = op[j]
    BY <2>1, <2>3 DEF TypeOK
  <2>5. QED
    BY <1>1, <1>2, <1>3, <2>3, <2>4 DEF OpType, Trying
<1>4. CASE outcome = "again"
  <2>1. op[i].stage = "first" /\ op' = [op EXCEPT ![i].stage = "second", ![i].repeats = 0]
    BY <1>4, OutcomesOf DEF NotAnswered
  <2>2. 0 \in 0..GotRetries
    BY GotAssumption
  <2>3. op'[i] = [op[i] EXCEPT !.stage = "second", !.repeats = 0]
    BY <2>1 DEF TypeOK
  <2>4. op'[i] \in OpType
    BY <1>2, <2>2, <2>3 DEF OpType, Tries
  <2>5. op' \in [Clients -> OpType] /\ \A j \in Clients \ {i} : op'[j] = op[j]
    BY <2>1, <2>4 DEF TypeOK
  <2>6. QED
    BY <1>1, <1>2, <1>4, <2>1, <2>3, <2>5 DEF OpType, Tries
<1>5. CASE outcome = "error"
  <2>1. Done(i)
    BY <1>5 DEF NotAnswered
  <2>2. QED
    BY <1>1, <1>5, <2>1, DoneShape
<1>6. QED
  BY <1>1, <1>3, <1>4, <1>5

\* A session that is made belongs to the client, and to the login it waits in.
LEMMA CreatesShape ==
    ASSUME TypeOK, NEW i \in Clients, NEW s \in Sessions, NEW known \in BOOLEAN,
           Creates(i, s, known)
    PROVE  /\ server[s].state = "none"
           /\ server' \in [Sessions -> SessionType]
           /\ server'[s].state = "live" /\ server'[s].of = i
           /\ server'[s].login = op[i].login /\ server'[s].known = known
           /\ \A t \in Sessions \ {s} : server'[t] = server[t]
<1> DEFINE new == [state |-> "live", of |-> i, login |-> op[i].login, account |-> op[i].sent,
                   known |-> known, givenUp |-> FALSE]
<1>1. op[i] \in OpType
  BY DEF TypeOK
<1>2. new \in SessionType
  BY <1>1 DEF SessionType, OpType
<1>3. server' = [server EXCEPT ![s] = new]
  BY DEF Creates
<1>4. server[s].state = "none"
  BY DEF Creates
<1>5. new.state = "live" /\ new.of = i /\ new.login = op[i].login /\ new.known = known
  OBVIOUS
<1> HIDE DEF new
<1>6. QED
  BY <1>2, <1>3, <1>4, <1>5 DEF TypeOK

\* A login succeeds: the client knows of the session that was made, and holds it.
LEMMA LoggedInShape ==
    ASSUME TypeOK, NEW i \in Clients, LoginSucceeds(i)
    PROVE  /\ op[i].call = "login" /\ Trying(i)
           /\ UNCHANGED <<state, headers, request, logins, credentials>>
           /\ \E s \in Sessions :
                /\ leSession' = [leSession EXCEPT ![i] = s]
                /\ server[s].state = "none"
                /\ server' \in [Sessions -> SessionType]
                /\ server'[s].state = "live" /\ server'[s].of = i
                /\ server'[s].login = op[i].login /\ server'[s].known
                /\ \A t \in Sessions \ {s} : server'[t] = server[t]
<1>1. PICK s \in Sessions : Creates(i, s, TRUE) /\ leSession' = [leSession EXCEPT ![i] = s]
  BY DEF LoginSucceeds
<1> DEFINE new == [state |-> "live", of |-> i, login |-> op[i].login, account |-> op[i].sent,
                   known |-> TRUE, givenUp |-> FALSE]
<1>2. server[s].state = "none" /\ server' = [server EXCEPT ![s] = new]
  BY <1>1 DEF Creates
<1>3. new \in SessionType
  <2>1. op[i] \in OpType
    BY DEF TypeOK
  <2>2. QED
    BY <2>1 DEF SessionType, OpType
<1>4. new.state = "live" /\ new.of = i /\ new.login = op[i].login /\ new.known
  OBVIOUS
<1>5. /\ op[i].call = "login" /\ Trying(i)
      /\ UNCHANGED <<state, headers, request, logins, credentials>>
  BY DEF LoginSucceeds, NoLogin
<1> HIDE DEF new
<1>6. /\ server' \in [Sessions -> SessionType]
      /\ server'[s] = new
      /\ \A t \in Sessions \ {s} : server'[t] = server[t]
  BY <1>2, <1>3 DEF TypeOK
<1>7. QED
  BY <1>1, <1>2, <1>4, <1>5, <1>6

\* One that fails may have made a session that the client does not know.
LEMMA LoginFailsShape ==
    ASSUME TypeOK, NEW i \in Clients, NEW outcome, LoginFails(i, outcome)
    PROVE  /\ op[i].call = "login" /\ NotAnswered(i, outcome)
           /\ \/ UNCHANGED server
              \/ \E s \in Sessions :
                   /\ server[s].state = "none"
                   /\ server' \in [Sessions -> SessionType]
                   /\ server'[s].state = "live" /\ server'[s].of = i
                   /\ server'[s].login = op[i].login /\ ~server'[s].known
                   /\ \A t \in Sessions \ {s} : server'[t] = server[t]
<1>1. op[i].call = "login" /\ NotAnswered(i, outcome)
  BY DEF LoginFails
<1>2. CASE UNCHANGED server
  BY <1>1, <1>2
<1>3. ASSUME NEW s \in Sessions, Creates(i, s, FALSE)
      PROVE  /\ server[s].state = "none"
             /\ server' \in [Sessions -> SessionType]
             /\ server'[s].state = "live" /\ server'[s].of = i
             /\ server'[s].login = op[i].login /\ ~server'[s].known
             /\ \A t \in Sessions \ {s} : server'[t] = server[t]
  <2>1. \E known \in BOOLEAN : ~known /\ Creates(i, s, known)
    BY <1>3
  <2>2. PICK known \in BOOLEAN : ~known /\ Creates(i, s, known)
    BY <2>1
  <2>3. QED
    BY <2>2, CreatesShape
<1>4. QED
  BY <1>1, <1>2, <1>3 DEF LoginFails

\* A session that ends or is given up keeps the rest.
LEMMA ChangeShape ==
    ASSUME TypeOK, NEW s \in Sessions, NEW st \in {"none", "live", "ended"}, NEW g \in BOOLEAN,
           server' = [server EXCEPT ![s].state = st, ![s].givenUp = g]
    PROVE  /\ server' \in [Sessions -> SessionType]
           /\ server'[s].state = st /\ server'[s].givenUp = g
           /\ server'[s].of = server[s].of /\ server'[s].login = server[s].login
           /\ server'[s].known = server[s].known
           /\ \A t \in Sessions \ {s} : server'[t] = server[t]
<1>1. server[s] \in SessionType
  BY DEF TypeOK
<1>2. server'[s] = [state |-> st, of |-> server[s].of, login |-> server[s].login,
                    account |-> server[s].account, known |-> server[s].known, givenUp |-> g]
  BY <1>1 DEF TypeOK, SessionType
<1>3. server'[s] \in SessionType
  BY <1>1, <1>2 DEF SessionType
<1>4. QED
  BY <1>1, <1>2, <1>3 DEF TypeOK, SessionType

\* A session that ends keeps the rest.
LEMMA EndedShape ==
    ASSUME TypeOK, NEW s \in Sessions, server' = [server EXCEPT ![s].state = "ended"]
    PROVE  /\ server' \in [Sessions -> SessionType]
           /\ server'[s].state = "ended" /\ server'[s].givenUp = server[s].givenUp
           /\ server'[s].of = server[s].of /\ server'[s].login = server[s].login
           /\ server'[s].known = server[s].known
           /\ \A t \in Sessions \ {s} : server'[t] = server[t]
<1>1. server[s] \in SessionType
  BY DEF TypeOK
<1>2. server'[s] = [server[s] EXCEPT !.state = "ended"]
  BY DEF TypeOK
<1>3. server'[s] \in SessionType
  BY <1>1, <1>2 DEF SessionType
<1>4. QED
  BY <1>1, <1>2, <1>3 DEF TypeOK, SessionType

\* A session that is given up keeps the rest.
LEMMA GivenUpShape ==
    ASSUME TypeOK, NEW s \in Sessions, NEW g \in BOOLEAN,
           server' = [server EXCEPT ![s].givenUp = g]
    PROVE  /\ server' \in [Sessions -> SessionType]
           /\ server'[s].state = server[s].state /\ server'[s].givenUp = g
           /\ server'[s].of = server[s].of /\ server'[s].login = server[s].login
           /\ server'[s].known = server[s].known
           /\ \A t \in Sessions \ {s} : server'[t] = server[t]
<1>1. server[s] \in SessionType
  BY DEF TypeOK
<1>2. server'[s] = [state |-> server[s].state, of |-> server[s].of, login |-> server[s].login,
                    account |-> server[s].account, known |-> server[s].known, givenUp |-> g]
  BY <1>1 DEF TypeOK, SessionType
<1>3. server'[s] \in SessionType
  BY <1>1, <1>2 DEF SessionType
<1>4. QED
  BY <1>1, <1>2, <1>3 DEF TypeOK, SessionType

\* A logout that fails may have ended the session, and gives it up unless it is tried again.
LEMMA LogoutFailsShape ==
    ASSUME TypeOK, OpInv, NEW i \in Clients, NEW outcome, LogoutFails(i, outcome)
    PROVE  /\ op[i].call = "logout" /\ NotAnswered(i, outcome)
           /\ leSession[i] \in Sessions
           /\ server' \in [Sessions -> SessionType]
           /\ server'[leSession[i]].state \in {server[leSession[i]].state, "ended"}
           /\ server[leSession[i]].givenUp \/ outcome = "error" => server'[leSession[i]].givenUp
           /\ server'[leSession[i]].of = server[leSession[i]].of
           /\ server'[leSession[i]].login = server[leSession[i]].login
           /\ server'[leSession[i]].known = server[leSession[i]].known
           /\ \A t \in Sessions \ {leSession[i]} : server'[t] = server[t]
<1>1. leSession[i] \in Sessions
  BY Fields DEF OpInv, LogoutFails
<1> DEFINE s == leSession[i]
           g == server[s].givenUp \/ outcome = "error"
<1>2. PICK st \in {server[s].state, "ended"} :
         server' = [server EXCEPT ![s].state = st, ![s].givenUp = g]
  BY DEF LogoutFails
<1>3. st \in {"none", "live", "ended"} /\ g \in BOOLEAN
  BY <1>1, Fields
<1> HIDE DEF g
<1>4. /\ server' \in [Sessions -> SessionType]
      /\ server'[s].state = st /\ server'[s].givenUp = g
      /\ server'[s].of = server[s].of /\ server'[s].login = server[s].login
      /\ server'[s].known = server[s].known
      /\ \A t \in Sessions \ {s} : server'[t] = server[t]
  BY <1>1, <1>2, <1>3, ChangeShape
<1>5. op[i].call = "logout" /\ NotAnswered(i, outcome)
  BY DEF LogoutFails
<1>6. QED
  BY <1>1, <1>3, <1>4, <1>5 DEF g

\* A request that is made has the token of its client, and the others learn of it.
LEMMA RequestShape ==
    ASSUME TypeOK, NEW i \in Clients, NEW r \in Requests, AuthenticatedRequest(i, r)
    PROVE  /\ leSession[i] \in Sessions /\ headers' = leSession[i]
           /\ UNCHANGED <<state, op, leSession, credentials, server, logins>>
           /\ request' \in [Requests -> RequestType]
           /\ request'[r].asked = leSession[i] /\ request'[r].sent = leSession[i]
           /\ \A q \in Requests \ {r} :
                /\ request'[q].stage = request[q].stage
                /\ request'[q].asked = request[q].asked /\ request'[q].sent = request[q].sent
                /\ request[q].meanwhile \subseteq request'[q].meanwhile
                /\ request[q].stage \in Tries => leSession[i] \in request'[q].meanwhile
<1>1. leSession[i] \in Sessions
  BY Fields DEF AuthenticatedRequest
<1> DEFINE s == leSession[i]
           new == [stage |-> "first", asked |-> s, meanwhile |-> {}, sent |-> s]
           informed(q) == [request[q] EXCEPT !.meanwhile = @ \cup {s}]
           tried(q) == request[q].stage \in Tries
<1>2. new \in RequestType /\ new.asked = s /\ new.sent = s
  BY <1>1 DEF RequestType, Tries
<1>3. ASSUME NEW q \in Requests
      PROVE  /\ informed(q) \in RequestType
             /\ informed(q).stage = request[q].stage /\ informed(q).asked = request[q].asked
             /\ informed(q).sent = request[q].sent
             /\ informed(q).meanwhile = request[q].meanwhile \cup {s}
  BY <1>1 DEF TypeOK, RequestType
<1>4. request' = [q \in Requests |-> IF q = r THEN new
                                     ELSE IF tried(q) THEN informed(q) ELSE request[q]]
  BY DEF AuthenticatedRequest, Authorization
<1>5. /\ headers' = s
      /\ UNCHANGED <<state, op, leSession, credentials, server, logins>>
  BY DEF AuthenticatedRequest, Authorization
<1> HIDE DEF new, informed, tried
<1>6. request' \in [Requests -> RequestType]
  BY <1>2, <1>3, <1>4 DEF TypeOK
<1>7. request'[r] = new
  BY <1>4
<1>8. \A q \in Requests \ {r} : request'[q] = IF tried(q) THEN informed(q) ELSE request[q]
  BY <1>4
<1>9. QED
  BY <1>1, <1>2, <1>3, <1>5, <1>6, <1>7, <1>8 DEF tried

\* A request is made again with what the headers object says by then, or is over.
LEMMA AnsweredShape ==
    ASSUME TypeOK, NEW r \in Requests, NEW outcome, RequestAnswered(r, outcome)
    PROVE  /\ UNCHANGED <<state, op, leSession, credentials, headers, server, logins>>
           /\ request[r].stage \in Tries
           /\ request' \in [Requests -> RequestType]
           /\ \/ /\ request'[r].asked = request[r].asked
                 /\ request'[r].meanwhile = request[r].meanwhile
                 /\ request'[r].sent = headers
              \/ /\ request'[r].asked = None /\ request'[r].sent = None
                 /\ request'[r].stage \notin Tries
           /\ \A q \in Requests \ {r} : request'[q] = request[q]
<1>1. request[r] \in RequestType /\ headers \in Sessions \cup {None}
  BY DEF TypeOK
<1>2. CASE outcome = "again"
  <2>1. request' = [request EXCEPT ![r].stage = "second", ![r].sent = headers]
    BY <1>2 DEF RequestAnswered
  <2>2. /\ request'[r] = [request[r] EXCEPT !.stage = "second", !.sent = headers]
        /\ request'[r] \in RequestType
    BY <1>1, <2>1 DEF TypeOK, RequestType, Tries
  <2>3. QED
    BY <1>1, <2>1, <2>2 DEF TypeOK, RequestType, RequestAnswered
<1>3. CASE outcome # "again"
  <2> DEFINE new == [NewRequest EXCEPT !.stage = "ended"]
  <2>1. request' = [request EXCEPT ![r] = new]
    BY <1>3 DEF RequestAnswered
  <2>2. new \in RequestType /\ new.asked = None /\ new.sent = None /\ new.stage \notin Tries
    BY DEF NewRequest, RequestType, Tries
  <2> HIDE DEF new
  <2>3. QED
    BY <2>1, <2>2 DEF TypeOK, RequestAnswered
<1>4. QED
  BY <1>2, <1>3

-----------------------------------------------------------------------------
(* Types *)

\* A step keeps the types.
LEMMA TypeStep == TypeOK /\ OpInv /\ LoginInv /\ [Next]_vars => TypeOK'
<1> SUFFICES ASSUME TypeOK, OpInv, LoginInv, [Next]_vars PROVE TypeOK'
  OBVIOUS
<1> USE  DEF TypeOK, OpInv, LoginInv, Trying, Tries
<1>0. provider' = provider /\ Agents' = Agents /\ Agents \subseteq Clients
  BY AgentsKept
<1>1. ASSUME NEW i \in Clients, Start(i) PROVE TypeOK'
  BY <1>1, <1>0, Fields, WaitsShape, LoginShape DEF Start, Idle, NoLogin
<1>2. ASSUME NEW i \in Clients, Refresh(i) PROVE TypeOK'
  BY <1>2, <1>0, Fields, RefreshShape DEF Idle
<1>3. ASSUME NEW i \in Clients, Stop(i) PROVE TypeOK'
  BY <1>3, <1>0, Fields, WaitsShape DEF Stop, Idle, NoLogin
<1>4. ASSUME NEW i \in Clients, ServiceResolved(i) PROVE TypeOK'
  BY <1>4, <1>0, Fields, ResolvedShape DEF Body
<1>5. ASSUME NEW i \in Clients, ResolveFails(i) PROVE TypeOK'
  <2>1. server' \in [Sessions -> SessionType]
    <3>1. CASE op[i].call = "logout"
      <4>1. leSession[i] \in Sessions
        BY <3>1, Fields
      <4>2. \E g \in BOOLEAN : server' = [server EXCEPT ![leSession[i]].givenUp = g]
        BY <1>5, <3>1 DEF ResolveFails
      <4>3. QED
        BY <4>1, <4>2, GivenUpShape
    <3>2. CASE op[i].call # "logout"
      BY <1>5, <3>2 DEF ResolveFails
    <3>3. QED
      BY <3>1, <3>2
  <2>2. Done(i) /\ UNCHANGED <<state, leSession, headers, request, logins, credentials>>
    BY <1>5 DEF ResolveFails, NoLogin
  <2>3. QED
    BY <1>0, <2>1, <2>2, Fields, DoneShape
<1>6. ASSUME NEW i \in Clients, LoginSucceeds(i) PROVE TypeOK'
  <2>1. PICK s \in Sessions :
           /\ leSession' = [leSession EXCEPT ![i] = s]
           /\ server[s].state = "none"
           /\ server' \in [Sessions -> SessionType]
           /\ server'[s].state = "live" /\ server'[s].of = i
           /\ server'[s].login = op[i].login /\ server'[s].known
           /\ \A t \in Sessions \ {s} : server'[t] = server[t]
    BY <1>6, LoggedInShape
  <2>2. /\ op[i].call = "login" /\ Trying(i) /\ Done(i)
        /\ UNCHANGED <<state, headers, request, logins, credentials>>
    BY <1>6, LoggedInShape DEF LoginSucceeds
  <2>3. QED
    BY <1>0, <2>1, <2>2, Fields, DoneShape DEF Trying, Tries
<1>7. ASSUME NEW i \in Clients, NEW outcome \in {"repeat", "again", "error"}, LoginFails(i, outcome)
      PROVE  TypeOK'
  <2>1. op[i].call = "login" /\ NotAnswered(i, outcome)
    BY <1>7, LoginFailsShape
  <2>2. CASE UNCHANGED server
    BY <1>0, <2>1, <2>2, Fields, NotAnsweredShape DEF Trying, Tries
  <2>3. CASE server' # server
    <3>1. PICK s \in Sessions :
             /\ server[s].state = "none"
             /\ server' \in [Sessions -> SessionType]
             /\ server'[s].state = "live" /\ server'[s].of = i
             /\ server'[s].login = op[i].login /\ ~server'[s].known
             /\ \A t \in Sessions \ {s} : server'[t] = server[t]
      BY <1>7, <2>3, LoginFailsShape
    <3>2. QED
      BY <1>0, <2>1, <3>1, Fields, NotAnsweredShape DEF Trying, Tries
  <2>4. QED
    BY <2>2, <2>3
<1>8. ASSUME NEW i \in Clients, RefreshSucceeds(i) PROVE TypeOK'
  BY <1>8, <1>0, Fields, DoneShape, LoginShape DEF RefreshSucceeds, Live, NoLogin,
     Trying, Tries
<1>9. ASSUME NEW i \in Clients, NEW outcome \in {"repeat", "again", "error"}, RefreshFails(i, outcome)
      PROVE  TypeOK'
  BY <1>9, <1>0, Fields, NotAnsweredShape DEF RefreshFails, Trying, Tries
<1>10. ASSUME NEW i \in Clients, LogoutSucceeds(i) PROVE TypeOK'
  <2>1. leSession[i] \in Sessions
    BY <1>10, Fields DEF LogoutSucceeds
  <2>2. server' \in [Sessions -> SessionType]
    BY <1>10, <2>1, EndedShape DEF LogoutSucceeds
  <2>3. /\ Done(i) /\ leSession' \in [Clients -> Sessions \cup {None}]
        /\ UNCHANGED <<state, headers, request, logins, credentials>>
    BY <1>10 DEF LogoutSucceeds, NoLogin
  <2>4. QED
    BY <1>0, <2>2, <2>3, Fields, DoneShape
<1>11. ASSUME NEW i \in Clients, NEW outcome \in {"repeat", "again", "error"}, LogoutFails(i, outcome)
       PROVE  TypeOK'
  BY <1>11, <1>0, Fields, NotAnsweredShape, LogoutFailsShape DEF Trying, Tries
<1>12. ASSUME NEW i \in Clients, NEW r \in Requests, AuthenticatedRequest(i, r) PROVE TypeOK'
  BY <1>12, <1>0, Fields, RequestShape
<1>13. ASSUME NEW r \in Requests, NEW outcome \in {"again", "ok", "error"}, RequestAnswered(r,
              outcome)
       PROVE  TypeOK'
  BY <1>13, <1>0, Fields, AnsweredShape
<1>14. ASSUME NEW s \in Sessions, Expire(s) PROVE TypeOK'
  <2>1. server' \in [Sessions -> SessionType]
    BY <1>14, EndedShape DEF Expire
  <2>2. UNCHANGED <<op, state, leSession, headers, request, logins, credentials>>
    BY <1>14 DEF Expire
  <2>3. QED
    BY <1>0, <2>1, <2>2
<1>15. CASE UNCHANGED vars
  BY <1>0, <1>15 DEF vars
<1>16. QED
  BY <1>1, <1>2, <1>3, <1>4, <1>5, <1>6, <1>7, <1>8, <1>9, <1>10, <1>11, <1>12, <1>13,
     <1>14, <1>15 DEF Next

-----------------------------------------------------------------------------
(* What clients wait for, and what is shared *)

\* A step keeps what is known of what clients wait for.
LEMMA OpStep == TypeOK /\ OpInv /\ [Next]_vars => OpInv'
<1> SUFFICES ASSUME TypeOK, OpInv, [Next]_vars PROVE OpInv'
  OBVIOUS
<1> USE  DEF TypeOK, OpInv
<1>0. provider' = provider /\ Agents' = Agents /\ Agents \subseteq Clients
  BY AgentsKept
<1>1. ASSUME NEW i \in Clients, Start(i) PROVE OpInv'
  BY <1>1, <1>0, Fields, WaitsShape, LoginShape DEF Start, Idle, NoLogin
<1>2. ASSUME NEW i \in Clients, Refresh(i) PROVE OpInv'
  BY <1>2, <1>0, Fields, RefreshShape DEF Idle
<1>3. ASSUME NEW i \in Clients, Stop(i) PROVE OpInv'
  BY <1>3, <1>0, Fields, WaitsShape DEF Stop, Idle, NoLogin
<1>4. ASSUME NEW i \in Clients, ServiceResolved(i) PROVE OpInv'
  BY <1>4, <1>0, Fields, ResolvedShape DEF Body
<1>5. ASSUME NEW i \in Clients, ResolveFails(i) PROVE OpInv'
  BY <1>5, <1>0, Fields, DoneShape, GivenUpShape DEF ResolveFails, NoLogin
<1>6. ASSUME NEW i \in Clients, LoginSucceeds(i) PROVE OpInv'
  <2>1. PICK s \in Sessions :
           /\ leSession' = [leSession EXCEPT ![i] = s]
           /\ server[s].state = "none"
           /\ server' \in [Sessions -> SessionType]
           /\ server'[s].state = "live" /\ server'[s].of = i
           /\ server'[s].login = op[i].login /\ server'[s].known
           /\ \A t \in Sessions \ {s} : server'[t] = server[t]
    BY <1>6, LoggedInShape
  <2>2. /\ op[i].call = "login" /\ Trying(i) /\ Done(i)
        /\ UNCHANGED <<state, headers, request, logins, credentials>>
    BY <1>6, LoggedInShape DEF LoginSucceeds
  <2>3. QED
    BY <1>0, <2>1, <2>2, Fields, DoneShape DEF Trying, Tries
<1>7. ASSUME NEW i \in Clients, NEW outcome \in {"repeat", "again", "error"}, LoginFails(i, outcome)
      PROVE  OpInv'
  <2>1. op[i].call = "login" /\ NotAnswered(i, outcome)
    BY <1>7, LoginFailsShape
  <2>2. CASE UNCHANGED server
    BY <1>0, <2>1, <2>2, Fields, NotAnsweredShape DEF Trying, Tries
  <2>3. CASE server' # server
    <3>1. PICK s \in Sessions :
             /\ server[s].state = "none"
             /\ server' \in [Sessions -> SessionType]
             /\ server'[s].state = "live" /\ server'[s].of = i
             /\ server'[s].login = op[i].login /\ ~server'[s].known
             /\ \A t \in Sessions \ {s} : server'[t] = server[t]
      BY <1>7, <2>3, LoginFailsShape
    <3>2. QED
      BY <1>0, <2>1, <3>1, Fields, NotAnsweredShape DEF Trying, Tries
  <2>4. QED
    BY <2>2, <2>3
<1>8. ASSUME NEW i \in Clients, RefreshSucceeds(i) PROVE OpInv'
  BY <1>8, <1>0, Fields, DoneShape, LoginShape DEF RefreshSucceeds, Live, NoLogin,
     Trying, Tries
<1>9. ASSUME NEW i \in Clients, NEW outcome \in {"repeat", "again", "error"}, RefreshFails(i, outcome)
      PROVE  OpInv'
  BY <1>9, <1>0, Fields, NotAnsweredShape DEF RefreshFails, Trying, Tries
<1>10. ASSUME NEW i \in Clients, LogoutSucceeds(i) PROVE OpInv'
  BY <1>10, <1>0, Fields, DoneShape, EndedShape DEF LogoutSucceeds, Live, NoLogin,
     Trying, Tries
<1>11. ASSUME NEW i \in Clients, NEW outcome \in {"repeat", "again", "error"}, LogoutFails(i, outcome)
       PROVE  OpInv'
  BY <1>11, <1>0, Fields, NotAnsweredShape, LogoutFailsShape DEF Trying, Tries
<1>12. ASSUME NEW i \in Clients, NEW r \in Requests, AuthenticatedRequest(i, r) PROVE OpInv'
  BY <1>12, <1>0, Fields, RequestShape
<1>13. ASSUME NEW r \in Requests, NEW outcome \in {"again", "ok", "error"}, RequestAnswered(r,
              outcome)
       PROVE  OpInv'
  BY <1>13, <1>0, Fields, AnsweredShape
<1>14. ASSUME NEW s \in Sessions, Expire(s) PROVE OpInv'
  BY <1>14, <1>0, Fields, EndedShape DEF Expire
<1>15. CASE UNCHANGED vars
  BY <1>0, <1>15 DEF vars
<1>16. QED
  BY <1>1, <1>2, <1>3, <1>4, <1>5, <1>6, <1>7, <1>8, <1>9, <1>10, <1>11, <1>12, <1>13,
     <1>14, <1>15 DEF Next

\* A step keeps what is known of the accounts of logins.
LEMMA LoginStep == TypeOK /\ OpInv /\ LoginInv /\ [Next]_vars => LoginInv'
<1> SUFFICES ASSUME TypeOK, OpInv, LoginInv, [Next]_vars PROVE LoginInv'
  OBVIOUS
<1> USE  DEF TypeOK, OpInv, LoginInv, Trying, Tries
<1>0. provider' = provider /\ Agents' = Agents /\ Agents \subseteq Clients
  BY AgentsKept
<1>1. ASSUME NEW i \in Clients, Start(i) PROVE LoginInv'
  BY <1>1, <1>0, Fields, WaitsShape, LoginShape DEF Start, Idle, NoLogin
<1>2. ASSUME NEW i \in Clients, Refresh(i) PROVE LoginInv'
  BY <1>2, <1>0, Fields, RefreshShape DEF Idle
<1>3. ASSUME NEW i \in Clients, Stop(i) PROVE LoginInv'
  BY <1>3, <1>0, Fields, WaitsShape DEF Stop, Idle, NoLogin
<1>4. ASSUME NEW i \in Clients, ServiceResolved(i) PROVE LoginInv'
  BY <1>4, <1>0, Fields, ResolvedShape DEF Body
<1>5. ASSUME NEW i \in Clients, ResolveFails(i) PROVE LoginInv'
  BY <1>5, <1>0, Fields, DoneShape, GivenUpShape DEF ResolveFails, NoLogin
<1>6. ASSUME NEW i \in Clients, LoginSucceeds(i) PROVE LoginInv'
  <2>1. PICK s \in Sessions :
           /\ leSession' = [leSession EXCEPT ![i] = s]
           /\ server[s].state = "none"
           /\ server' \in [Sessions -> SessionType]
           /\ server'[s].state = "live" /\ server'[s].of = i
           /\ server'[s].login = op[i].login /\ server'[s].known
           /\ \A t \in Sessions \ {s} : server'[t] = server[t]
    BY <1>6, LoggedInShape
  <2>2. /\ op[i].call = "login" /\ Trying(i) /\ Done(i)
        /\ UNCHANGED <<state, headers, request, logins, credentials>>
    BY <1>6, LoggedInShape DEF LoginSucceeds
  <2>3. QED
    BY <1>0, <2>1, <2>2, Fields, DoneShape DEF Trying, Tries
<1>7. ASSUME NEW i \in Clients, NEW outcome \in {"repeat", "again", "error"}, LoginFails(i, outcome)
      PROVE  LoginInv'
  <2>1. op[i].call = "login" /\ NotAnswered(i, outcome)
    BY <1>7, LoginFailsShape
  <2>2. CASE UNCHANGED server
    BY <1>0, <2>1, <2>2, Fields, NotAnsweredShape DEF Trying, Tries
  <2>3. CASE server' # server
    <3>1. PICK s \in Sessions :
             /\ server[s].state = "none"
             /\ server' \in [Sessions -> SessionType]
             /\ server'[s].state = "live" /\ server'[s].of = i
             /\ server'[s].login = op[i].login /\ ~server'[s].known
             /\ \A t \in Sessions \ {s} : server'[t] = server[t]
      BY <1>7, <2>3, LoginFailsShape
    <3>2. QED
      BY <1>0, <2>1, <3>1, Fields, NotAnsweredShape DEF Trying, Tries
  <2>4. QED
    BY <2>2, <2>3
<1>8. ASSUME NEW i \in Clients, RefreshSucceeds(i) PROVE LoginInv'
  BY <1>8, <1>0, Fields, DoneShape, LoginShape DEF RefreshSucceeds, Live, NoLogin,
     Trying, Tries
<1>9. ASSUME NEW i \in Clients, NEW outcome \in {"repeat", "again", "error"}, RefreshFails(i, outcome)
      PROVE  LoginInv'
  BY <1>9, <1>0, Fields, NotAnsweredShape DEF RefreshFails, Trying, Tries
<1>10. ASSUME NEW i \in Clients, LogoutSucceeds(i) PROVE LoginInv'
  BY <1>10, <1>0, Fields, DoneShape, EndedShape DEF LogoutSucceeds, Live, NoLogin,
     Trying, Tries
<1>11. ASSUME NEW i \in Clients, NEW outcome \in {"repeat", "again", "error"}, LogoutFails(i, outcome)
       PROVE  LoginInv'
  BY <1>11, <1>0, Fields, NotAnsweredShape, LogoutFailsShape DEF Trying, Tries
<1>12. ASSUME NEW i \in Clients, NEW r \in Requests, AuthenticatedRequest(i, r) PROVE LoginInv'
  BY <1>12, <1>0, Fields, RequestShape
<1>13. ASSUME NEW r \in Requests, NEW outcome \in {"again", "ok", "error"}, RequestAnswered(r,
              outcome)
       PROVE  LoginInv'
  BY <1>13, <1>0, Fields, AnsweredShape
<1>14. ASSUME NEW s \in Sessions, Expire(s) PROVE LoginInv'
  BY <1>14, <1>0, Fields, EndedShape DEF Expire
<1>15. CASE UNCHANGED vars
  BY <1>0, <1>15 DEF vars
<1>16. QED
  BY <1>1, <1>2, <1>3, <1>4, <1>5, <1>6, <1>7, <1>8, <1>9, <1>10, <1>11, <1>12, <1>13,
     <1>14, <1>15 DEF Next

\* A step keeps what is known of the tokens of requests.
LEMMA RequestStep == TypeOK /\ RequestInv /\ [Next]_vars => RequestInv'
<1> SUFFICES ASSUME TypeOK, RequestInv, [Next]_vars PROVE RequestInv'
  OBVIOUS
<1> USE  DEF TypeOK, RequestInv, RequestType, Tries
<1>0. provider' = provider /\ Agents' = Agents /\ Agents \subseteq Clients
  BY AgentsKept
<1>1. ASSUME NEW i \in Clients, Start(i) PROVE RequestInv'
  BY <1>1, <1>0, Fields, WaitsShape, LoginShape DEF Start, Idle, NoLogin
<1>2. ASSUME NEW i \in Clients, Refresh(i) PROVE RequestInv'
  BY <1>2, <1>0, Fields, RefreshShape DEF Idle
<1>3. ASSUME NEW i \in Clients, Stop(i) PROVE RequestInv'
  BY <1>3, <1>0, Fields, WaitsShape DEF Stop, Idle, NoLogin
<1>4. ASSUME NEW i \in Clients, ServiceResolved(i) PROVE RequestInv'
  BY <1>4, <1>0, Fields, ResolvedShape DEF Body
<1>5. ASSUME NEW i \in Clients, ResolveFails(i) PROVE RequestInv'
  BY <1>5, <1>0, Fields, DoneShape, GivenUpShape DEF ResolveFails, NoLogin
<1>6. ASSUME NEW i \in Clients, LoginSucceeds(i) PROVE RequestInv'
  <2>1. PICK s \in Sessions :
           /\ leSession' = [leSession EXCEPT ![i] = s]
           /\ server[s].state = "none"
           /\ server' \in [Sessions -> SessionType]
           /\ server'[s].state = "live" /\ server'[s].of = i
           /\ server'[s].login = op[i].login /\ server'[s].known
           /\ \A t \in Sessions \ {s} : server'[t] = server[t]
    BY <1>6, LoggedInShape
  <2>2. /\ op[i].call = "login" /\ Trying(i) /\ Done(i)
        /\ UNCHANGED <<state, headers, request, logins, credentials>>
    BY <1>6, LoggedInShape DEF LoginSucceeds
  <2>3. QED
    BY <1>0, <2>1, <2>2, Fields, DoneShape DEF Trying, Tries
<1>7. ASSUME NEW i \in Clients, NEW outcome \in {"repeat", "again", "error"}, LoginFails(i, outcome)
      PROVE  RequestInv'
  <2>1. op[i].call = "login" /\ NotAnswered(i, outcome)
    BY <1>7, LoginFailsShape
  <2>2. CASE UNCHANGED server
    BY <1>0, <2>1, <2>2, Fields, NotAnsweredShape DEF Trying, Tries
  <2>3. CASE server' # server
    <3>1. PICK s \in Sessions :
             /\ server[s].state = "none"
             /\ server' \in [Sessions -> SessionType]
             /\ server'[s].state = "live" /\ server'[s].of = i
             /\ server'[s].login = op[i].login /\ ~server'[s].known
             /\ \A t \in Sessions \ {s} : server'[t] = server[t]
      BY <1>7, <2>3, LoginFailsShape
    <3>2. QED
      BY <1>0, <2>1, <3>1, Fields, NotAnsweredShape DEF Trying, Tries
  <2>4. QED
    BY <2>2, <2>3
<1>8. ASSUME NEW i \in Clients, RefreshSucceeds(i) PROVE RequestInv'
  BY <1>8, <1>0, Fields, DoneShape, LoginShape DEF RefreshSucceeds, Live, NoLogin,
     Trying, Tries
<1>9. ASSUME NEW i \in Clients, NEW outcome \in {"repeat", "again", "error"}, RefreshFails(i, outcome)
      PROVE  RequestInv'
  BY <1>9, <1>0, Fields, NotAnsweredShape DEF RefreshFails, Trying, Tries
<1>10. ASSUME NEW i \in Clients, LogoutSucceeds(i) PROVE RequestInv'
  BY <1>10, <1>0, Fields, DoneShape, EndedShape DEF LogoutSucceeds, Live, NoLogin,
     Trying, Tries
<1>11. ASSUME NEW i \in Clients, NEW outcome \in {"repeat", "again", "error"}, LogoutFails(i, outcome)
       PROVE  RequestInv'
  <2>1. NotAnswered(i, outcome)
    BY <1>11 DEF LogoutFails
  <2>2. QED
    BY <2>1, NotAnsweredShape
<1>12. ASSUME NEW i \in Clients, NEW r \in Requests, AuthenticatedRequest(i, r)
       PROVE  RequestInv'
  BY <1>12, <1>0, Fields, RequestShape
<1>13. ASSUME NEW r \in Requests, NEW outcome \in {"again", "ok", "error"}, RequestAnswered(r,
              outcome)
       PROVE  RequestInv'
  BY <1>13, <1>0, Fields, AnsweredShape
<1>14. ASSUME NEW s \in Sessions, Expire(s) PROVE RequestInv'
  BY <1>14, <1>0, Fields, EndedShape DEF Expire
<1>15. CASE UNCHANGED vars
  BY <1>0, <1>15 DEF vars
<1>16. QED
  BY <1>1, <1>2, <1>3, <1>4, <1>5, <1>6, <1>7, <1>8, <1>9, <1>10, <1>11, <1>12, <1>13,
     <1>14, <1>15 DEF Next

-----------------------------------------------------------------------------
(* Sessions *)

\* A step keeps what is known of the sessions that clients hold.
LEMMA HeldStep == TypeOK /\ OpInv /\ HeldInv /\ [Next]_vars => HeldInv'
<1> SUFFICES ASSUME TypeOK, OpInv, HeldInv, [Next]_vars PROVE HeldInv'
  OBVIOUS
<1> USE  DEF TypeOK, OpInv, HeldInv
<1>0. provider' = provider /\ Agents' = Agents /\ Agents \subseteq Clients
  BY AgentsKept
<1>1. ASSUME NEW i \in Clients, Start(i) PROVE HeldInv'
  BY <1>1, <1>0, Fields, WaitsShape, LoginShape DEF Start, Idle, NoLogin
<1>2. ASSUME NEW i \in Clients, Refresh(i) PROVE HeldInv'
  BY <1>2, <1>0, Fields, RefreshShape DEF Idle
<1>3. ASSUME NEW i \in Clients, Stop(i) PROVE HeldInv'
  BY <1>3, <1>0, Fields, WaitsShape DEF Stop, Idle, NoLogin
<1>4. ASSUME NEW i \in Clients, ServiceResolved(i) PROVE HeldInv'
  BY <1>4, <1>0, Fields, ResolvedShape DEF Body
<1>5. ASSUME NEW i \in Clients, ResolveFails(i) PROVE HeldInv'
  BY <1>5, <1>0, Fields, DoneShape, GivenUpShape DEF ResolveFails, NoLogin
<1>6. ASSUME NEW i \in Clients, LoginSucceeds(i) PROVE HeldInv'
  <2>1. PICK s \in Sessions :
           /\ leSession' = [leSession EXCEPT ![i] = s]
           /\ server[s].state = "none"
           /\ server' \in [Sessions -> SessionType]
           /\ server'[s].state = "live" /\ server'[s].of = i
           /\ server'[s].login = op[i].login /\ server'[s].known
           /\ \A t \in Sessions \ {s} : server'[t] = server[t]
    BY <1>6, LoggedInShape
  <2>2. /\ op[i].call = "login" /\ Trying(i) /\ Done(i)
        /\ UNCHANGED <<state, headers, request, logins, credentials>>
    BY <1>6, LoggedInShape DEF LoginSucceeds
  <2>3. QED
    BY <1>0, <2>1, <2>2, Fields, DoneShape DEF Trying, Tries
<1>7. ASSUME NEW i \in Clients, NEW outcome \in {"repeat", "again", "error"}, LoginFails(i, outcome)
      PROVE  HeldInv'
  <2>1. op[i].call = "login" /\ NotAnswered(i, outcome)
    BY <1>7, LoginFailsShape
  <2>2. CASE UNCHANGED server
    BY <1>0, <2>1, <2>2, Fields, NotAnsweredShape DEF Trying, Tries
  <2>3. CASE server' # server
    <3>1. PICK s \in Sessions :
             /\ server[s].state = "none"
             /\ server' \in [Sessions -> SessionType]
             /\ server'[s].state = "live" /\ server'[s].of = i
             /\ server'[s].login = op[i].login /\ ~server'[s].known
             /\ \A t \in Sessions \ {s} : server'[t] = server[t]
      BY <1>7, <2>3, LoginFailsShape
    <3>2. QED
      BY <1>0, <2>1, <3>1, Fields, NotAnsweredShape DEF Trying, Tries
  <2>4. QED
    BY <2>2, <2>3
<1>8. ASSUME NEW i \in Clients, RefreshSucceeds(i) PROVE HeldInv'
  BY <1>8, <1>0, Fields, DoneShape, LoginShape DEF RefreshSucceeds, Live, NoLogin,
     Trying, Tries
<1>9. ASSUME NEW i \in Clients, NEW outcome \in {"repeat", "again", "error"}, RefreshFails(i, outcome)
      PROVE  HeldInv'
  BY <1>9, <1>0, Fields, NotAnsweredShape DEF RefreshFails, Trying, Tries
<1>10. ASSUME NEW i \in Clients, LogoutSucceeds(i) PROVE HeldInv'
  BY <1>10, <1>0, Fields, DoneShape, EndedShape DEF LogoutSucceeds, Live, NoLogin,
     Trying, Tries
<1>11. ASSUME NEW i \in Clients, NEW outcome \in {"repeat", "again", "error"}, LogoutFails(i, outcome)
       PROVE  HeldInv'
  BY <1>11, <1>0, Fields, NotAnsweredShape, LogoutFailsShape DEF Trying, Tries
<1>12. ASSUME NEW i \in Clients, NEW r \in Requests, AuthenticatedRequest(i, r) PROVE HeldInv'
  BY <1>12, <1>0, Fields, RequestShape
<1>13. ASSUME NEW r \in Requests, NEW outcome \in {"again", "ok", "error"}, RequestAnswered(r,
              outcome)
       PROVE  HeldInv'
  BY <1>13, <1>0, Fields, AnsweredShape
<1>14. ASSUME NEW s \in Sessions, Expire(s) PROVE HeldInv'
  BY <1>14, <1>0, Fields, EndedShape DEF Expire
<1>15. CASE UNCHANGED vars
  BY <1>0, <1>15 DEF vars
<1>16. QED
  BY <1>1, <1>2, <1>3, <1>4, <1>5, <1>6, <1>7, <1>8, <1>9, <1>10, <1>11, <1>12, <1>13,
     <1>14, <1>15 DEF Next

\* A step keeps what is known of sessions that have been given up.
LEMMA KeptStep == TypeOK /\ OpInv /\ HeldInv /\ KeptInv /\ [Next]_vars => KeptInv'
<1> SUFFICES ASSUME TypeOK, OpInv, HeldInv, KeptInv, [Next]_vars PROVE KeptInv'
  OBVIOUS
<1> USE  DEF TypeOK, OpInv, HeldInv, KeptInv, Idle
<1>0. provider' = provider /\ Agents' = Agents /\ Agents \subseteq Clients
  BY AgentsKept
<1>1. ASSUME NEW i \in Clients, Start(i) PROVE KeptInv'
  BY <1>1, <1>0, Fields, WaitsShape, LoginShape DEF Start, Idle, NoLogin
<1>2. ASSUME NEW i \in Clients, Refresh(i) PROVE KeptInv'
  BY <1>2, <1>0, Fields, RefreshShape DEF Idle
<1>3. ASSUME NEW i \in Clients, Stop(i) PROVE KeptInv'
  BY <1>3, <1>0, Fields, WaitsShape DEF Stop, Idle, NoLogin
<1>4. ASSUME NEW i \in Clients, ServiceResolved(i) PROVE KeptInv'
  BY <1>4, <1>0, Fields, ResolvedShape DEF Body
<1>5. ASSUME NEW i \in Clients, ResolveFails(i) PROVE KeptInv'
  BY <1>5, <1>0, Fields, DoneShape, GivenUpShape DEF ResolveFails, NoLogin
<1>6. ASSUME NEW i \in Clients, LoginSucceeds(i) PROVE KeptInv'
  <2>1. PICK s \in Sessions :
           /\ leSession' = [leSession EXCEPT ![i] = s]
           /\ server[s].state = "none"
           /\ server' \in [Sessions -> SessionType]
           /\ server'[s].state = "live" /\ server'[s].of = i
           /\ server'[s].login = op[i].login /\ server'[s].known
           /\ \A t \in Sessions \ {s} : server'[t] = server[t]
    BY <1>6, LoggedInShape
  <2>2. /\ op[i].call = "login" /\ Trying(i) /\ Done(i)
        /\ UNCHANGED <<state, headers, request, logins, credentials>>
    BY <1>6, LoggedInShape DEF LoginSucceeds
  <2>3. QED
    BY <1>0, <2>1, <2>2, Fields, DoneShape DEF Trying, Tries
<1>7. ASSUME NEW i \in Clients, NEW outcome \in {"repeat", "again", "error"}, LoginFails(i, outcome)
      PROVE  KeptInv'
  <2>1. op[i].call = "login" /\ NotAnswered(i, outcome)
    BY <1>7, LoginFailsShape
  <2>2. CASE UNCHANGED server
    BY <1>0, <2>1, <2>2, Fields, NotAnsweredShape DEF Trying, Tries
  <2>3. CASE server' # server
    <3>1. PICK s \in Sessions :
             /\ server[s].state = "none"
             /\ server' \in [Sessions -> SessionType]
             /\ server'[s].state = "live" /\ server'[s].of = i
             /\ server'[s].login = op[i].login /\ ~server'[s].known
             /\ \A t \in Sessions \ {s} : server'[t] = server[t]
      BY <1>7, <2>3, LoginFailsShape
    <3>2. QED
      BY <1>0, <2>1, <3>1, Fields, NotAnsweredShape DEF Trying, Tries
  <2>4. QED
    BY <2>2, <2>3
<1>8. ASSUME NEW i \in Clients, RefreshSucceeds(i) PROVE KeptInv'
  BY <1>8, <1>0, Fields, DoneShape, LoginShape DEF RefreshSucceeds, Live, NoLogin,
     Trying, Tries
<1>9. ASSUME NEW i \in Clients, NEW outcome \in {"repeat", "again", "error"}, RefreshFails(i, outcome)
      PROVE  KeptInv'
  BY <1>9, <1>0, Fields, NotAnsweredShape DEF RefreshFails, Trying, Tries
<1>10. ASSUME NEW i \in Clients, LogoutSucceeds(i) PROVE KeptInv'
  BY <1>10, <1>0, Fields, DoneShape, EndedShape DEF LogoutSucceeds, Live, NoLogin,
     Trying, Tries
<1>11. ASSUME NEW i \in Clients, NEW outcome \in {"repeat", "again", "error"}, LogoutFails(i, outcome)
       PROVE  KeptInv'
  BY <1>11, <1>0, Fields, NotAnsweredShape, LogoutFailsShape DEF Trying, Tries
<1>12. ASSUME NEW i \in Clients, NEW r \in Requests, AuthenticatedRequest(i, r) PROVE KeptInv'
  BY <1>12, <1>0, Fields, RequestShape
<1>13. ASSUME NEW r \in Requests, NEW outcome \in {"again", "ok", "error"}, RequestAnswered(r,
              outcome)
       PROVE  KeptInv'
  BY <1>13, <1>0, Fields, AnsweredShape
<1>14. ASSUME NEW s \in Sessions, Expire(s) PROVE KeptInv'
  BY <1>14, <1>0, Fields, EndedShape DEF Expire
<1>15. CASE UNCHANGED vars
  BY <1>0, <1>15 DEF vars
<1>16. QED
  BY <1>1, <1>2, <1>3, <1>4, <1>5, <1>6, <1>7, <1>8, <1>9, <1>10, <1>11, <1>12, <1>13,
     <1>14, <1>15 DEF Next

\* A step loses no session of an agent.
LEMMA LostStep ==
    TypeOK /\ OpInv /\ HeldInv /\ KeptInv /\ NoSessionLost /\ [Next]_vars => NoSessionLost'
<1> SUFFICES ASSUME TypeOK, OpInv, HeldInv, KeptInv, NoSessionLost, [Next]_vars
             PROVE  NoSessionLost'
  OBVIOUS
<1> USE  DEF TypeOK, OpInv, HeldInv, KeptInv, NoSessionLost
<1>0. provider' = provider /\ Agents' = Agents /\ Agents \subseteq Clients
  BY AgentsKept
<1>1. ASSUME NEW i \in Clients, Start(i) PROVE NoSessionLost'
  BY <1>1, <1>0, Fields, WaitsShape, LoginShape DEF Start, Idle, NoLogin
<1>2. ASSUME NEW i \in Clients, Refresh(i) PROVE NoSessionLost'
  BY <1>2, <1>0, Fields, RefreshShape DEF Idle
<1>3. ASSUME NEW i \in Clients, Stop(i) PROVE NoSessionLost'
  BY <1>3, <1>0, Fields, WaitsShape DEF Stop, Idle, NoLogin
<1>4. ASSUME NEW i \in Clients, ServiceResolved(i) PROVE NoSessionLost'
  BY <1>4, <1>0, Fields, ResolvedShape DEF Body
<1>5. ASSUME NEW i \in Clients, ResolveFails(i) PROVE NoSessionLost'
  BY <1>5, <1>0, Fields, DoneShape, GivenUpShape DEF ResolveFails, NoLogin
<1>6. ASSUME NEW i \in Clients, LoginSucceeds(i) PROVE NoSessionLost'
  <2>1. PICK s \in Sessions :
           /\ leSession' = [leSession EXCEPT ![i] = s]
           /\ server[s].state = "none"
           /\ server' \in [Sessions -> SessionType]
           /\ server'[s].state = "live" /\ server'[s].of = i
           /\ server'[s].login = op[i].login /\ server'[s].known
           /\ \A t \in Sessions \ {s} : server'[t] = server[t]
    BY <1>6, LoggedInShape
  <2>2. /\ op[i].call = "login" /\ Trying(i) /\ Done(i)
        /\ UNCHANGED <<state, headers, request, logins, credentials>>
    BY <1>6, LoggedInShape DEF LoginSucceeds
  <2>3. QED
    BY <1>0, <2>1, <2>2, Fields, DoneShape DEF Trying, Tries
<1>7. ASSUME NEW i \in Clients, NEW outcome \in {"repeat", "again", "error"}, LoginFails(i, outcome)
      PROVE  NoSessionLost'
  <2>1. op[i].call = "login" /\ NotAnswered(i, outcome)
    BY <1>7, LoginFailsShape
  <2>2. CASE UNCHANGED server
    BY <1>0, <2>1, <2>2, Fields, NotAnsweredShape DEF Trying, Tries
  <2>3. CASE server' # server
    <3>1. PICK s \in Sessions :
             /\ server[s].state = "none"
             /\ server' \in [Sessions -> SessionType]
             /\ server'[s].state = "live" /\ server'[s].of = i
             /\ server'[s].login = op[i].login /\ ~server'[s].known
             /\ \A t \in Sessions \ {s} : server'[t] = server[t]
      BY <1>7, <2>3, LoginFailsShape
    <3>2. QED
      BY <1>0, <2>1, <3>1, Fields, NotAnsweredShape DEF Trying, Tries
  <2>4. QED
    BY <2>2, <2>3
<1>8. ASSUME NEW i \in Clients, RefreshSucceeds(i) PROVE NoSessionLost'
  BY <1>8, <1>0, Fields, DoneShape, LoginShape DEF RefreshSucceeds, Live, NoLogin,
     Trying, Tries
<1>9. ASSUME NEW i \in Clients, NEW outcome \in {"repeat", "again", "error"}, RefreshFails(i, outcome)
      PROVE  NoSessionLost'
  BY <1>9, <1>0, Fields, NotAnsweredShape DEF RefreshFails, Trying, Tries
<1>10. ASSUME NEW i \in Clients, LogoutSucceeds(i) PROVE NoSessionLost'
  BY <1>10, <1>0, Fields, DoneShape, EndedShape DEF LogoutSucceeds, Live, NoLogin,
     Trying, Tries
<1>11. ASSUME NEW i \in Clients, NEW outcome \in {"repeat", "again", "error"}, LogoutFails(i, outcome)
       PROVE  NoSessionLost'
  BY <1>11, <1>0, Fields, NotAnsweredShape, LogoutFailsShape DEF Trying, Tries
<1>12. ASSUME NEW i \in Clients, NEW r \in Requests, AuthenticatedRequest(i, r)
       PROVE  NoSessionLost'
  BY <1>12, <1>0, Fields, RequestShape
<1>13. ASSUME NEW r \in Requests, NEW outcome \in {"again", "ok", "error"}, RequestAnswered(r,
              outcome)
       PROVE  NoSessionLost'
  BY <1>13, <1>0, Fields, AnsweredShape
<1>14. ASSUME NEW s \in Sessions, Expire(s) PROVE NoSessionLost'
  BY <1>14, <1>0, Fields, EndedShape DEF Expire
<1>15. CASE UNCHANGED vars
  BY <1>0, <1>15 DEF vars
<1>16. QED
  BY <1>1, <1>2, <1>3, <1>4, <1>5, <1>6, <1>7, <1>8, <1>9, <1>10, <1>11, <1>12, <1>13,
     <1>14, <1>15 DEF Next

\* A step keeps the numbers of logins apart.
LEMMA NumberStep == TypeOK /\ OpInv /\ NumberInv /\ [Next]_vars => NumberInv'
<1> SUFFICES ASSUME TypeOK, OpInv, NumberInv, [Next]_vars PROVE NumberInv'
  OBVIOUS
<1> USE  DEF TypeOK, OpInv, NumberInv
<1>0. provider' = provider /\ Agents' = Agents /\ Agents \subseteq Clients
  BY AgentsKept
<1>1. ASSUME NEW i \in Clients, Start(i) PROVE NumberInv'
  BY <1>1, <1>0, Fields, WaitsShape, LoginShape DEF Start, Idle, NoLogin
<1>2. ASSUME NEW i \in Clients, Refresh(i) PROVE NumberInv'
  BY <1>2, <1>0, Fields, RefreshShape DEF Idle
<1>3. ASSUME NEW i \in Clients, Stop(i) PROVE NumberInv'
  BY <1>3, <1>0, Fields, WaitsShape DEF Stop, Idle, NoLogin
<1>4. ASSUME NEW i \in Clients, ServiceResolved(i) PROVE NumberInv'
  BY <1>4, <1>0, Fields, ResolvedShape DEF Body
<1>5. ASSUME NEW i \in Clients, ResolveFails(i) PROVE NumberInv'
  <2>1. Done(i) /\ UNCHANGED logins
    BY <1>5 DEF ResolveFails, NoLogin
  <2>2. \A s \in Sessions : /\ server'[s].login = server[s].login
                            /\ server'[s].state = server[s].state
    <3>1. CASE op[i].call = "logout"
      <4>1. leSession[i] \in Sessions
        BY <3>1, Fields
      <4>2. \E g \in BOOLEAN : server' = [server EXCEPT ![leSession[i]].givenUp = g]
        BY <1>5, <3>1 DEF ResolveFails
      <4>3. QED
        BY <4>1, <4>2, GivenUpShape
    <3>2. CASE op[i].call # "logout"
      BY <1>5, <3>2 DEF ResolveFails
    <3>3. QED
      BY <3>1, <3>2
  <2>3. op'[i].call = "none" /\ \A j \in Clients \ {i} : op'[j] = op[j]
    BY <2>1, DoneShape
  <2>4. QED
    BY <2>1, <2>2, <2>3
<1>6. ASSUME NEW i \in Clients, LoginSucceeds(i) PROVE NumberInv'
  <2>1. PICK s \in Sessions :
           /\ leSession' = [leSession EXCEPT ![i] = s]
           /\ server[s].state = "none"
           /\ server' \in [Sessions -> SessionType]
           /\ server'[s].state = "live" /\ server'[s].of = i
           /\ server'[s].login = op[i].login /\ server'[s].known
           /\ \A t \in Sessions \ {s} : server'[t] = server[t]
    BY <1>6, LoggedInShape
  <2>2. /\ op[i].call = "login" /\ Trying(i) /\ Done(i)
        /\ UNCHANGED <<state, headers, request, logins, credentials>>
    BY <1>6, LoggedInShape DEF LoginSucceeds
  <2>3. op[i].login \in 0..logins
    BY <2>2, Fields
  <2>4. \A j \in Clients \ {i} : op'[j] = op[j]
    BY <2>2, DoneShape
  <2>5. op'[i].call = "none"
    BY <2>2, DoneShape
  <2>6. \A t \in Sessions : server'[t].login \in 0..logins
    BY <2>1, <2>3
  <2>7. \A t \in Sessions : server'[t].state = "none" => server'[t].login = 0
    BY <2>1
  <2>8. QED
    BY <2>2, <2>4, <2>5, <2>6, <2>7
<1>7. ASSUME NEW i \in Clients, NEW outcome \in {"repeat", "again", "error"}, LoginFails(i, outcome)
      PROVE  NumberInv'
  <2>1. /\ op[i].call = "login" /\ NotAnswered(i, outcome) /\ op[i].login \in 0..logins
        /\ op'[i].call # "login" \/ op'[i].login = op[i].login
        /\ \A j \in Clients \ {i} : op'[j] = op[j]
        /\ logins' = logins
    BY <1>7, LoginFailsShape, NotAnsweredShape, Fields
  <2>2. CASE UNCHANGED server
    BY <2>1, <2>2
  <2>3. CASE server' # server
    <3>1. PICK s \in Sessions :
             /\ server[s].state = "none"
             /\ server' \in [Sessions -> SessionType]
             /\ server'[s].state = "live" /\ server'[s].of = i
             /\ server'[s].login = op[i].login /\ ~server'[s].known
             /\ \A t \in Sessions \ {s} : server'[t] = server[t]
      BY <1>7, <2>3, LoginFailsShape
    <3>2. \A t \in Sessions : server'[t].login \in 0..logins
      BY <2>1, <3>1
    <3>3. \A t \in Sessions : server'[t].state = "none" => server'[t].login = 0
      BY <3>1
    <3>4. QED
      BY <2>1, <3>2, <3>3
  <2>4. QED
    BY <2>2, <2>3
<1>8. ASSUME NEW i \in Clients, RefreshSucceeds(i) PROVE NumberInv'
  BY <1>8, <1>0, Fields, DoneShape, LoginShape DEF RefreshSucceeds, Live, NoLogin,
     Trying, Tries
<1>9. ASSUME NEW i \in Clients, NEW outcome \in {"repeat", "again", "error"}, RefreshFails(i, outcome)
      PROVE  NumberInv'
  BY <1>9, <1>0, Fields, NotAnsweredShape DEF RefreshFails, Trying, Tries
<1>10. ASSUME NEW i \in Clients, LogoutSucceeds(i) PROVE NumberInv'
  BY <1>10, <1>0, Fields, DoneShape, EndedShape DEF LogoutSucceeds, Live, NoLogin,
     Trying, Tries
<1>11. ASSUME NEW i \in Clients, NEW outcome \in {"repeat", "again", "error"}, LogoutFails(i, outcome)
       PROVE  NumberInv'
  <2>1. op[i].call = "logout" /\ NotAnswered(i, outcome)
    BY <1>11, LogoutFailsShape
  <2>2. op'[i].call # "login" /\ logins' = logins /\ \A j \in Clients \ {i} : op'[j] = op[j]
    BY <2>1, NotAnsweredShape
  <2>3. \A s \in Sessions : /\ server'[s].login = server[s].login
                            /\ server'[s].state = "none" => server[s].state = "none"
    BY <1>11, LogoutFailsShape
  <2>4. QED
    BY <2>2, <2>3
<1>12. ASSUME NEW i \in Clients, NEW r \in Requests, AuthenticatedRequest(i, r) PROVE NumberInv'
  BY <1>12, <1>0, Fields, RequestShape
<1>13. ASSUME NEW r \in Requests, NEW outcome \in {"again", "ok", "error"}, RequestAnswered(r,
              outcome)
       PROVE  NumberInv'
  BY <1>13, <1>0, Fields, AnsweredShape
<1>14. ASSUME NEW s \in Sessions, Expire(s) PROVE NumberInv'
  BY <1>14, <1>0, Fields, EndedShape DEF Expire
<1>15. CASE UNCHANGED vars
  BY <1>0, <1>15 DEF vars
<1>16. QED
  BY <1>1, <1>2, <1>3, <1>4, <1>5, <1>6, <1>7, <1>8, <1>9, <1>10, <1>11, <1>12, <1>13,
     <1>14, <1>15 DEF Next

\* What is known of the sessions of the login in which client i waits.
MadeFor(i) == /\ Cardinality(MadeBy(op[i].login)) <= Sendings(i)
              /\ \A s \in MadeBy(op[i].login) : ~server[s].known

\* Sets of sessions are finite.
LEMMA FiniteSessions ==
    ASSUME NEW S, S \subseteq Sessions
    PROVE  IsFiniteSet(S) /\ Cardinality(S) \in Nat
<1>1. IsFiniteSet(Sessions)
  BY BoundAssumption, FS_Interval DEF Sessions
<1>2. QED
  BY <1>1, FS_Subset, FS_CardinalityType

LEMMA NoMore ==
    ASSUME NEW S, S \subseteq Sessions, NEW T, T \subseteq S
    PROVE  Cardinality(T) <= Cardinality(S)
BY FiniteSessions, FS_Subset

LEMMA OneMore ==
    ASSUME NEW S, S \subseteq Sessions, NEW T, NEW x, T \subseteq Sessions, T \subseteq S \cup {x}
    PROVE  Cardinality(T) <= Cardinality(S) + 1
<1>1. IsFiniteSet(S) /\ Cardinality(S) \in Nat /\ Cardinality(T) \in Nat
  BY FiniteSessions
<1>2. /\ IsFiniteSet(S \cup {x})
      /\ Cardinality(S \cup {x}) = IF x \in S THEN Cardinality(S) ELSE Cardinality(S) + 1
  BY <1>1, FS_AddElement
<1>3. Cardinality(T) <= Cardinality(S \cup {x})
  BY <1>2, FS_Subset
<1>4. QED
  BY <1>1, <1>2, <1>3

\* How often a request was sent is a number.
LEMMA SendingsNat ==
    ASSUME TypeOK, NEW i \in Clients
    PROVE  Sendings(i) \in Nat
BY Fields, GotAssumption DEF Sendings

LEMMA SendingsNext ==
    ASSUME TypeOK', NEW i \in Clients
    PROVE  Sendings(i)' \in Nat
<1>1. op'[i] \in OpType
  BY DEF TypeOK
<1>2. op'[i].repeats \in 0..GotRetries
  BY <1>1 DEF OpType
<1>3. QED
  BY <1>2, GotAssumption DEF Sendings

\* A step that gives no session to the login of client j, nor takes its request back,
\* keeps what is known of it.
LEMMA MadeKept ==
    ASSUME NEW j \in Clients, TypeOK, TypeOK', MadeFor(j),
           op'[j].login = op[j].login, Sendings(j) <= Sendings(j)',
           \A s \in Sessions : server'[s].login = op[j].login
                => server[s].login = op[j].login /\ server'[s].known = server[s].known
    PROVE  MadeFor(j)'
<1> DEFINE n == op[j].login
           F == {s \in Sessions : server[s].login = n}
           G == {s \in Sessions : server'[s].login = n}
<1>1. MadeBy(op[j].login) = F /\ MadeBy(op[j].login)' = G
  BY DEF MadeBy
<1>2. F \subseteq Sessions /\ G \subseteq Sessions
  OBVIOUS
<1>3. Cardinality(F) \in Nat /\ Cardinality(G) \in Nat
  BY <1>2, FiniteSessions
<1>4. G \subseteq F
  OBVIOUS
<1>5. Sendings(j) \in Nat /\ Sendings(j)' \in Nat
  BY SendingsNat, SendingsNext
<1>6. \A s \in G : ~server'[s].known
  BY <1>1 DEF MadeFor
<1> HIDE DEF F, G
<1>7. Cardinality(F) <= Sendings(j)
  BY <1>1 DEF MadeFor
<1>8. Cardinality(G) <= Cardinality(F)
  BY <1>2, <1>4, NoMore
<1>9. Cardinality(G) <= Sendings(j)'
  BY <1>3, <1>5, <1>7, <1>8
<1>10. QED
  BY <1>1, <1>6, <1>9 DEF MadeFor

\* One that gives it a session that is not known, as the request is sent again, does too.
LEMMA MadeOneMore ==
    ASSUME NEW j \in Clients, TypeOK, TypeOK', MadeFor(j),
           op'[j].login = op[j].login, Sendings(j) + 1 <= Sendings(j)',
           NEW x \in Sessions, ~server'[x].known,
           \A s \in Sessions \ {x} : server'[s] = server[s]
    PROVE  MadeFor(j)'
<1> DEFINE n == op[j].login
           F == {s \in Sessions : server[s].login = n}
           G == {s \in Sessions : server'[s].login = n}
<1>1. MadeBy(op[j].login) = F /\ MadeBy(op[j].login)' = G
  BY DEF MadeBy
<1>2. F \subseteq Sessions /\ G \subseteq Sessions
  OBVIOUS
<1>3. Cardinality(F) \in Nat /\ Cardinality(G) \in Nat
  BY <1>2, FiniteSessions
<1>4. G \subseteq F \cup {x}
  OBVIOUS
<1>5. Sendings(j) \in Nat /\ Sendings(j)' \in Nat
  BY SendingsNat, SendingsNext
<1>6. \A s \in G : ~server'[s].known
  BY <1>1 DEF MadeFor
<1> HIDE DEF F, G
<1>7. Cardinality(F) <= Sendings(j)
  BY <1>1 DEF MadeFor
<1>8. Cardinality(G) <= Cardinality(F) + 1
  BY <1>2, <1>4, OneMore
<1>9. Cardinality(G) <= Sendings(j)'
  BY <1>3, <1>5, <1>7, <1>8
<1>10. QED
  BY <1>1, <1>6, <1>9 DEF MadeFor

\* A login that begins has a number that no session bears.
LEMMA MadeNone ==
    ASSUME NEW j \in Clients, TypeOK, TypeOK', NumberInv, UNCHANGED server,
           op'[j].login = logins + 1
    PROVE  MadeFor(j)'
<1>1. MadeBy(op[j].login)' = {}
  <2>1. \A s \in Sessions : server[s].login \in 0..logins
    BY DEF NumberInv
  <2>2. \A s \in Sessions : server[s].login # logins + 1
    BY <2>1, Fields
  <2>3. QED
    BY <2>2 DEF MadeBy
<1>2. Sendings(j)' \in Nat
  BY SendingsNext
<1>3. QED
  BY <1>1, <1>2, FS_EmptySet DEF MadeFor

\* A step keeps what is known of the sessions of a login.
LEMMA MadeStep ==
    TypeOK /\ TypeOK' /\ OpInv /\ NumberInv /\ MadeInv /\ [Next]_vars => MadeInv'
<1> SUFFICES ASSUME TypeOK, TypeOK', OpInv, NumberInv, MadeInv, [Next]_vars,
                    NEW j \in Clients, op'[j].call = "login"
             PROVE  MadeFor(j)'
  BY DEF MadeInv, MadeFor
<1> DEFINE Waiting == /\ op[j].call = "login" /\ op'[j].login = op[j].login
                      /\ op'[j].repeats = op[j].repeats
                      /\ op'[j].stage = "second" <=> op[j].stage = "second"
           Numbers == \A s \in Sessions : /\ server'[s].login = server[s].login
                                          /\ server'[s].known = server[s].known
<1>0. ASSUME Waiting, Numbers PROVE MadeFor(j)'
  <2>1. MadeFor(j)
    BY <1>0 DEF MadeInv, MadeFor
  <2>2. Sendings(j)' = Sendings(j) /\ Sendings(j) \in Nat
    BY <1>0, SendingsNat DEF Sendings
  <2>3. QED
    BY <1>0, <2>1, <2>2, MadeKept
<1>1. ASSUME NEW i \in Clients, Login(i), UNCHANGED server PROVE MadeFor(j)'
  <2>1. CASE j = i
    BY <1>1, <2>1, LoginShape, MadeNone
  <2>2. CASE j # i
    BY <1>0, <1>1, <2>2, LoginShape
  <2>3. QED
    BY <2>1, <2>2
<1>2. ASSUME NEW i \in Clients, op'[i].call # "login", Numbers,
             \A k \in Clients \ {i} : op'[k] = op[k]
      PROVE  MadeFor(j)'
  BY <1>0, <1>2
<1>3. ASSUME NEW i \in Clients, Start(i) PROVE MadeFor(j)'
  <2>1. UNCHANGED server
    BY <1>3 DEF Start
  <2>2. Login(i) \/ op' = [op EXCEPT ![i] = Waits("start", "refresh")]
    BY <1>3 DEF Start
  <2>3. CASE op' = [op EXCEPT ![i] = Waits("start", "refresh")]
    BY <1>2, <2>1, <2>3, WaitsShape
  <2>4. QED
    BY <1>1, <2>1, <2>2, <2>3
<1>4. ASSUME NEW i \in Clients, Refresh(i) PROVE MadeFor(j)'
  BY <1>2, <1>4, RefreshShape
<1>5. ASSUME NEW i \in Clients, Stop(i) PROVE MadeFor(j)'
  <2>1. UNCHANGED server /\ (UNCHANGED op \/ op' = [op EXCEPT ![i] = Waits("stop", "logout")])
    BY <1>5 DEF Stop
  <2>2. CASE op' = [op EXCEPT ![i] = Waits("stop", "logout")]
    BY <1>2, <2>1, <2>2, WaitsShape
  <2>3. QED
    BY <1>0, <2>1, <2>2
<1>6. ASSUME NEW i \in Clients, ServiceResolved(i) PROVE MadeFor(j)'
  <2>1. Numbers /\ Waiting
    BY <1>6, ResolvedShape
  <2>2. QED
    BY <1>0, <2>1
<1>7. ASSUME NEW i \in Clients, ResolveFails(i) PROVE MadeFor(j)'
  <2>1. Done(i)
    BY <1>7 DEF ResolveFails
  <2>2. Numbers
    <3>1. CASE op[i].call = "logout"
      <4>1. leSession[i] \in Sessions
        BY <3>1, Fields DEF OpInv
      <4>2. \E g \in BOOLEAN : server' = [server EXCEPT ![leSession[i]].givenUp = g]
        BY <1>7, <3>1 DEF ResolveFails
      <4>3. QED
        BY <4>1, <4>2, GivenUpShape
    <3>2. CASE op[i].call # "logout"
      BY <1>7, <3>2 DEF ResolveFails
    <3>3. QED
      BY <3>1, <3>2
  <2>3. QED
    BY <1>2, <2>1, <2>2, DoneShape
<1>8. ASSUME NEW i \in Clients, op[i].call = "login", j # i, op'[j] = op[j],
             NEW s \in Sessions, server'[s].login = op[i].login,
             \A t \in Sessions \ {s} : server'[t] = server[t]
      PROVE  MadeFor(j)'
  <2>1. op[j].call = "login" /\ op[j].login # op[i].login
    BY <1>8 DEF NumberInv
  <2>2. MadeFor(j)
    BY <2>1 DEF MadeInv, MadeFor
  <2>3. Sendings(j)' = Sendings(j) /\ Sendings(j) \in Nat
    BY <1>8, SendingsNat DEF Sendings
  <2>4. \A t \in Sessions : server'[t].login = op[j].login
             => server[t].login = op[j].login /\ server'[t].known = server[t].known
    BY <1>8, <2>1
  <2>5. QED
    BY <1>8, <2>2, <2>3, <2>4, MadeKept
<1>9. ASSUME NEW i \in Clients, LoginSucceeds(i) PROVE MadeFor(j)'
  <2>1. PICK s \in Sessions : /\ server'[s].login = op[i].login
                              /\ \A t \in Sessions \ {s} : server'[t] = server[t]
    BY <1>9, LoggedInShape
  <2>2. op[i].call = "login" /\ Done(i)
    BY <1>9 DEF LoginSucceeds
  <2>3. j # i /\ op'[j] = op[j]
    BY <2>2, DoneShape
  <2>4. QED
    BY <1>8, <2>1, <2>2, <2>3
<1>10. ASSUME NEW i \in Clients, NEW outcome, LoginFails(i, outcome) PROVE MadeFor(j)'
  <2>1. op[i].call = "login" /\ NotAnswered(i, outcome)
    BY <1>10, LoginFailsShape
  <2>2. \A k \in Clients \ {i} : op'[k] = op[k]
    BY <2>1, NotAnsweredShape
  <2>3. ASSUME j = i
        PROVE  MadeFor(j) /\ op'[j].login = op[j].login /\ Sendings(j) + 1 <= Sendings(j)'
    <3>1. MadeFor(j)
      BY <2>1, <2>3 DEF MadeInv, MadeFor
    <3>2. outcome \in {"repeat", "again"}
      BY <2>1, <2>3, NotAnsweredShape
    <3>3. op'[j].login = op[j].login
      BY <2>1, <2>3, <3>2, NotAnsweredShape
    <3>4. op[j].repeats \in 0..GotRetries /\ GotRetries \in Nat
      BY Fields, GotAssumption
    <3>5. CASE outcome = "repeat"
      <4>1. op'[j].repeats = op[j].repeats + 1 /\ op'[j].stage = op[j].stage
        BY <2>1, <2>3, <3>5, NotAnsweredShape
      <4>2. QED
        BY <3>1, <3>3, <3>4, <4>1 DEF Sendings
    <3>6. CASE outcome = "again"
      <4>1. op[j].stage = "first" /\ op'[j].stage = "second" /\ op'[j].repeats = 0
        BY <2>1, <2>3, <3>6, NotAnsweredShape
      <4>2. QED
        BY <3>1, <3>3, <3>4, <4>1 DEF Sendings
    <3>7. QED
      BY <3>2, <3>5, <3>6
  <2>4. CASE UNCHANGED server
    <3>1. CASE j = i
      <4>1. Sendings(j) <= Sendings(j)'
        BY <2>3, <3>1, SendingsNat, SendingsNext
      <4>2. QED
        BY <2>3, <2>4, <3>1, <4>1, MadeKept
    <3>2. CASE j # i
      BY <1>0, <2>2, <2>4, <3>2
    <3>3. QED
      BY <3>1, <3>2
  <2>5. CASE server' # server
    <3>1. PICK s \in Sessions :
             /\ server'[s].login = op[i].login /\ ~server'[s].known
             /\ \A t \in Sessions \ {s} : server'[t] = server[t]
      BY <1>10, <2>5, LoginFailsShape
    <3>2. CASE j = i
      BY <2>3, <3>1, <3>2, MadeOneMore
    <3>3. CASE j # i
      BY <1>8, <2>1, <2>2, <3>1, <3>3
    <3>4. QED
      BY <3>2, <3>3
  <2>6. QED
    BY <2>4, <2>5
<1>11. ASSUME NEW i \in Clients, NEW outcome, NotAnswered(i, outcome), Numbers,
              op[i].call # "login"
       PROVE  MadeFor(j)'
  <2>1. op'[i].call # "login" /\ \A k \in Clients \ {i} : op'[k] = op[k]
    BY <1>11, NotAnsweredShape
  <2>2. QED
    BY <1>2, <1>11, <2>1
<1>12. ASSUME NEW i \in Clients, RefreshSucceeds(i) PROVE MadeFor(j)'
  <2>1. UNCHANGED server /\ (Login(i) \/ Done(i))
    BY <1>12 DEF RefreshSucceeds
  <2>2. CASE Done(i)
    BY <1>2, <2>1, <2>2, DoneShape
  <2>3. QED
    BY <1>1, <2>1, <2>2
<1>13. ASSUME NEW i \in Clients, NEW outcome, RefreshFails(i, outcome) PROVE MadeFor(j)'
  BY <1>11, <1>13 DEF RefreshFails
<1>14. ASSUME NEW i \in Clients, LogoutSucceeds(i) PROVE MadeFor(j)'
  <2>1. leSession[i] \in Sessions
    BY <1>14, Fields DEF OpInv, LogoutSucceeds
  <2>2. Numbers
    BY <1>14, <2>1, EndedShape DEF LogoutSucceeds
  <2>3. Done(i)
    BY <1>14 DEF LogoutSucceeds
  <2>4. QED
    BY <1>2, <2>2, <2>3, DoneShape
<1>15. ASSUME NEW i \in Clients, NEW outcome, LogoutFails(i, outcome) PROVE MadeFor(j)'
  <2>1. NotAnswered(i, outcome) /\ op[i].call # "login"
    BY <1>15, LogoutFailsShape
  <2>2. Numbers
    BY <1>15, LogoutFailsShape
  <2>3. QED
    BY <1>11, <2>1, <2>2
<1>16. ASSUME NEW s \in Sessions, Expire(s) PROVE MadeFor(j)'
  <2>1. Numbers /\ UNCHANGED op
    BY <1>16, EndedShape DEF Expire
  <2>2. QED
    BY <1>0, <2>1
<1>17. CASE UNCHANGED <<op, server>>
  BY <1>0, <1>17
<1>18. ASSUME NEW i \in Clients, NEW r \in Requests, AuthenticatedRequest(i, r)
       PROVE  UNCHANGED <<op, server>>
  BY <1>18 DEF AuthenticatedRequest
<1>19. ASSUME NEW r \in Requests, NEW outcome, RequestAnswered(r, outcome)
       PROVE  UNCHANGED <<op, server>>
  BY <1>19 DEF RequestAnswered
<1>20. CASE UNCHANGED vars
  BY <1>17, <1>20 DEF vars
<1>21. QED
  BY <1>3, <1>4, <1>5, <1>6, <1>7, <1>9, <1>10, <1>12, <1>13, <1>14, <1>15, <1>16, <1>17,
     <1>18, <1>19, <1>20 DEF Next

\* A step numbers no session, or one for a login under way.
LEMMA NumbersStep ==
    ASSUME TypeOK, OpInv, [Next]_vars
    PROVE  \/ \A s \in Sessions : /\ server'[s].login = server[s].login
                                  /\ server'[s].known = server[s].known
           \/ \E i \in Clients, s \in Sessions :
                /\ op[i].call = "login" /\ server'[s].login = op[i].login
                /\ \A t \in Sessions \ {s} : server'[t] = server[t]
<1> DEFINE Numbers == \A s \in Sessions : /\ server'[s].login = server[s].login
                                          /\ server'[s].known = server[s].known
           Makes(i, s) == /\ op[i].call = "login" /\ server'[s].login = op[i].login
                          /\ \A t \in Sessions \ {s} : server'[t] = server[t]
<1> SUFFICES Numbers \/ \E i \in Clients, s \in Sessions : Makes(i, s)
  OBVIOUS
<1>1. ASSUME NEW i \in Clients, LoginSucceeds(i) PROVE \E s \in Sessions : Makes(i, s)
  BY <1>1, LoggedInShape
<1>2. ASSUME NEW i \in Clients, NEW outcome, LoginFails(i, outcome)
      PROVE  Numbers \/ \E s \in Sessions : Makes(i, s)
  BY <1>2, LoginFailsShape
<1>3. ASSUME NEW i \in Clients, ResolveFails(i) PROVE Numbers
  <2>1. CASE op[i].call = "logout"
    <3>1. leSession[i] \in Sessions
      BY <2>1, Fields DEF OpInv
    <3>2. \E g \in BOOLEAN : server' = [server EXCEPT ![leSession[i]].givenUp = g]
      BY <1>3, <2>1 DEF ResolveFails
    <3>3. QED
      BY <3>1, <3>2, GivenUpShape
  <2>2. CASE op[i].call # "logout"
    BY <1>3, <2>2 DEF ResolveFails
  <2>3. QED
    BY <2>1, <2>2
<1>4. ASSUME NEW i \in Clients, LogoutSucceeds(i) PROVE Numbers
  <2>1. leSession[i] \in Sessions
    BY <1>4, Fields DEF OpInv, LogoutSucceeds
  <2>2. QED
    BY <1>4, <2>1, EndedShape DEF LogoutSucceeds
<1>5. ASSUME NEW i \in Clients, NEW outcome, LogoutFails(i, outcome) PROVE Numbers
  BY <1>5, LogoutFailsShape
<1>6. ASSUME NEW s \in Sessions, Expire(s) PROVE Numbers
  BY <1>6, EndedShape DEF Expire
<1>7. CASE UNCHANGED server
  BY <1>7
<1>8. ASSUME NEW i \in Clients,
             \/ Start(i) \/ Refresh(i) \/ Stop(i) \/ ServiceResolved(i) \/ RefreshSucceeds(i)
      PROVE  UNCHANGED server
  BY <1>8 DEF Start, Refresh, Stop, ServiceResolved, RefreshSucceeds
<1>9. ASSUME NEW i \in Clients, NEW outcome, RefreshFails(i, outcome) PROVE UNCHANGED server
  BY <1>9 DEF RefreshFails
<1>10. ASSUME NEW i \in Clients, NEW r \in Requests, AuthenticatedRequest(i, r)
       PROVE  UNCHANGED server
  BY <1>10 DEF AuthenticatedRequest
<1>11. ASSUME NEW r \in Requests, NEW outcome, RequestAnswered(r, outcome)
       PROVE  UNCHANGED server
  BY <1>11 DEF RequestAnswered
<1>12. CASE UNCHANGED vars
  BY <1>12 DEF vars
<1> HIDE DEF Numbers, Makes
<1>13. QED
  BY <1>1, <1>2, <1>3, <1>4, <1>5, <1>6, <1>7, <1>8, <1>9, <1>10, <1>11, <1>12 DEF Next

\* A step makes no session beyond those that a login may make, and no second one that
\* is known.
LEMMA CountStep ==
    TypeOK /\ OpInv /\ MadeInv /\ SessionsPerLogin /\ [Next]_vars => SessionsPerLogin'
<1> SUFFICES ASSUME TypeOK, OpInv, MadeInv, SessionsPerLogin, [Next]_vars,
                    NEW n \in 1..MaxLogins
             PROVE  /\ Cardinality(MadeBy(n)') <= 2 * (1 + GotRetries)
                    /\ \A s, t \in MadeBy(n)' : server'[s].known /\ server'[t].known => s = t
  BY DEF SessionsPerLogin
<1> DEFINE F == {s \in Sessions : server[s].login = n}
           G == {s \in Sessions : server'[s].login = n}
<1>1. MadeBy(n) = F /\ MadeBy(n)' = G
  BY DEF MadeBy
<1>2. F \subseteq Sessions /\ G \subseteq Sessions
  OBVIOUS
<1>3. Cardinality(F) \in Nat /\ Cardinality(G) \in Nat /\ GotRetries \in Nat
  BY <1>2, FiniteSessions, GotAssumption
<1>4. /\ Cardinality(F) <= 2 * (1 + GotRetries)
      /\ \A s, t \in F : server[s].known /\ server[t].known => s = t
  BY <1>1 DEF SessionsPerLogin
<1>5. ASSUME \A s \in Sessions : server'[s].login = n
                => server[s].login = n /\ server'[s].known = server[s].known
      PROVE  /\ Cardinality(G) <= 2 * (1 + GotRetries)
             /\ \A s, t \in G : server'[s].known /\ server'[t].known => s = t
  <2>1. G \subseteq F
    BY <1>5
  <2>2. \A s, t \in G : server'[s].known /\ server'[t].known => s = t
    BY <1>4, <1>5
  <2> HIDE DEF F, G
  <2>3. Cardinality(G) <= 2 * (1 + GotRetries)
    <3>1. Cardinality(G) <= Cardinality(F)
      BY <1>2, <2>1, NoMore
    <3>2. QED
      BY <1>3, <1>4, <3>1
  <2>4. QED
    BY <2>2, <2>3
<1>6. ASSUME NEW i \in Clients, NEW x \in Sessions, op[i].call = "login",
             server'[x].login = op[i].login,
             \A t \in Sessions \ {x} : server'[t] = server[t]
      PROVE  /\ Cardinality(G) <= 2 * (1 + GotRetries)
             /\ \A s, t \in G : server'[s].known /\ server'[t].known => s = t
  <2>1. CASE op[i].login # n
    BY <1>5, <1>6, <2>1
  <2>2. CASE op[i].login = n
    <3>1. Cardinality(F) <= Sendings(i) /\ \A s \in F : ~server[s].known
      BY <1>1, <1>6, <2>2 DEF MadeInv
    <3>2. G \subseteq F \cup {x}
      BY <1>6
    <3>3. Sendings(i) \in Nat /\ Sendings(i) <= GotRetries + (1 + GotRetries)
      BY <1>3, Fields DEF Sendings
    <3>4. \A s, t \in G : server'[s].known /\ server'[t].known => s = t
      BY <1>6, <3>1
    <3> HIDE DEF F, G
    <3>5. Cardinality(G) <= 2 * (1 + GotRetries)
      <4>1. Cardinality(G) <= Cardinality(F) + 1
        BY <1>2, <3>2, OneMore
      <4>2. QED
        BY <1>3, <3>1, <3>3, <4>1
    <3>6. QED
      BY <3>4, <3>5
  <2>3. QED
    BY <2>1, <2>2
<1> HIDE DEF F, G
<1>7. CASE \A s \in Sessions : /\ server'[s].login = server[s].login
                               /\ server'[s].known = server[s].known
  BY <1>1, <1>5, <1>7
<1>8. CASE \E i \in Clients, s \in Sessions :
                /\ op[i].call = "login" /\ server'[s].login = op[i].login
                /\ \A t \in Sessions \ {s} : server'[t] = server[t]
  BY <1>1, <1>6, <1>8
<1>9. QED
  BY <1>7, <1>8, NumbersStep

-----------------------------------------------------------------------------
(* The invariant *)

\* The inductive invariant holds at the start.
LEMMA InitHolds == Init => IInv
<1> SUFFICES ASSUME Init PROVE IInv
  OBVIOUS
<1> USE NoneAssumption, BoundAssumption, GotAssumption DEF Init
<1>1. TypeOK
  <2>1. NoOp \in OpType /\ NoOp.call = "none"
    BY DEF NoOp, OpType
  <2>2. NewRequest \in RequestType
    BY DEF NewRequest, RequestType
  <2>3. [state |-> "none", of |-> None, login |-> 0, account |-> None,
         known |-> FALSE, givenUp |-> FALSE] \in SessionType
    BY DEF SessionType
  <2>4. QED
    BY <2>1, <2>2, <2>3 DEF TypeOK
<1>2. OpInv /\ LoginInv /\ HeldInv /\ KeptInv
  BY DEF OpInv, LoginInv, HeldInv, KeptInv, NoOp, Agents
<1>3. RequestInv
  BY DEF RequestInv, NewRequest, Tries
<1>4. NumberInv /\ MadeInv
  BY DEF NumberInv, MadeInv, NoOp
<1>5. NoSessionLost
  BY DEF NoSessionLost
<1>6. SessionsPerLogin
  <2>1. \A n \in 1..MaxLogins : MadeBy(n) = {}
    BY DEF MadeBy
  <2>2. QED
    <3>1. Cardinality({}) = 0 /\ 0 <= 2 * (1 + GotRetries)
      BY FS_EmptySet
    <3>2. \A n \in 1..MaxLogins : Cardinality(MadeBy(n)) = 0
      BY <2>1, <3>1
    <3>3. QED
      BY <2>1, <3>1, <3>2 DEF SessionsPerLogin
<1>7. QED
  BY <1>1, <1>2, <1>3, <1>4, <1>5, <1>6 DEF IInv

\* Every step keeps the inductive invariant.
LEMMA StepHolds == IInv /\ [Next]_vars => IInv'
BY TypeStep, OpStep, LoginStep, RequestStep, HeldStep, KeptStep, LostStep, NumberStep, MadeStep,
   CountStep DEF IInv

\* The inductive invariant holds in every reachable state.
THEOREM InvariantHolds == Spec => []IInv
BY InitHolds, StepHolds, PTL DEF Spec

\* The types; and no login is sent without an account.
THEOREM TypeCorrect == Spec => []TypeOK
<1>1. IInv => TypeOK
  BY DEF IInv
<1>2. QED
  BY InvariantHolds, <1>1, PTL

\* A client logs in to its own account, or to that of one that began to log in while it
\* waited for the service.
THEOREM LoginIsOwnHolds == Spec => []LoginIsOwn
<1>1. IInv => LoginIsOwn
  BY DEF IInv, LoginInv, LoginIsOwn
<1>2. QED
  BY InvariantHolds, <1>1, PTL

\* A request is sent with the token of its client, or with that of another one made
\* meanwhile.
THEOREM RequestIsOwnHolds == Spec => []RequestIsOwn
<1>1. IInv => RequestIsOwn
  BY DEF IInv, RequestInv, RequestIsOwn
<1>2. QED
  BY InvariantHolds, <1>1, PTL

\* A session of an agent that lives is held, or unknown to its client, or was given up.
THEOREM NoSessionLostHolds == Spec => []NoSessionLost
<1>1. IInv => NoSessionLost
  BY DEF IInv
<1>2. QED
  BY InvariantHolds, <1>1, PTL

\* A login makes at most twice as many sessions as got sends a request times, and its
\* client knows at most one of them.
THEOREM SessionsPerLoginHolds == Spec => []SessionsPerLogin
<1>1. IInv => SessionsPerLogin
  BY DEF IInv
<1>2. QED
  BY InvariantHolds, <1>1, PTL

-----------------------------------------------------------------------------
(* Sessions that have ended *)

\* A session that has ended stays with its client, and stays ended.
Keeps(k) == Stuck(k)' /\ leSession'[k] = leSession[k]

\* No step lets go of a session that has ended.
LEMMA StuckStep ==
    ASSUME TypeOK, OpInv, HeldInv, [Next]_vars, NEW k \in Agents, Stuck(k)
    PROVE  Keeps(k)
<1> USE DEF TypeOK, OpInv, HeldInv, Stuck, Keeps
<1>0. provider' = provider /\ Agents' = Agents /\ Agents \subseteq Clients
  BY AgentsKept
<1>1. ASSUME NEW i \in Clients, Start(i) PROVE Keeps(k)
  BY <1>1, <1>0, Fields, WaitsShape, LoginShape DEF Start, Idle, NoLogin
<1>2. ASSUME NEW i \in Clients, Refresh(i) PROVE Keeps(k)
  BY <1>2, <1>0, Fields, RefreshShape DEF Idle
<1>3. ASSUME NEW i \in Clients, Stop(i) PROVE Keeps(k)
  BY <1>3, <1>0, Fields, WaitsShape DEF Stop, Idle, NoLogin
<1>4. ASSUME NEW i \in Clients, ServiceResolved(i) PROVE Keeps(k)
  BY <1>4, <1>0, Fields, ResolvedShape DEF Body
<1>5. ASSUME NEW i \in Clients, ResolveFails(i) PROVE Keeps(k)
  BY <1>5, <1>0, Fields, DoneShape, GivenUpShape DEF ResolveFails, NoLogin
<1>6. ASSUME NEW i \in Clients, LoginSucceeds(i) PROVE Keeps(k)
  <2>1. PICK s \in Sessions :
           /\ leSession' = [leSession EXCEPT ![i] = s]
           /\ server[s].state = "none"
           /\ server' \in [Sessions -> SessionType]
           /\ server'[s].state = "live" /\ server'[s].of = i
           /\ server'[s].login = op[i].login /\ server'[s].known
           /\ \A t \in Sessions \ {s} : server'[t] = server[t]
    BY <1>6, LoggedInShape
  <2>2. /\ op[i].call = "login" /\ Trying(i) /\ Done(i)
        /\ UNCHANGED <<state, headers, request, logins, credentials>>
    BY <1>6, LoggedInShape DEF LoginSucceeds
  <2>3. QED
    BY <1>0, <2>1, <2>2, Fields, DoneShape DEF Trying, Tries
<1>7. ASSUME NEW i \in Clients, NEW outcome \in {"repeat", "again", "error"}, LoginFails(i, outcome)
      PROVE  Keeps(k)
  <2>1. op[i].call = "login" /\ NotAnswered(i, outcome)
    BY <1>7, LoginFailsShape
  <2>2. CASE UNCHANGED server
    BY <1>0, <2>1, <2>2, Fields, NotAnsweredShape DEF Trying, Tries
  <2>3. CASE server' # server
    <3>1. PICK s \in Sessions :
             /\ server[s].state = "none"
             /\ server' \in [Sessions -> SessionType]
             /\ server'[s].state = "live" /\ server'[s].of = i
             /\ server'[s].login = op[i].login /\ ~server'[s].known
             /\ \A t \in Sessions \ {s} : server'[t] = server[t]
      BY <1>7, <2>3, LoginFailsShape
    <3>2. QED
      BY <1>0, <2>1, <3>1, Fields, NotAnsweredShape DEF Trying, Tries
  <2>4. QED
    BY <2>2, <2>3
<1>8. ASSUME NEW i \in Clients, RefreshSucceeds(i) PROVE Keeps(k)
  BY <1>8, <1>0, Fields, DoneShape, LoginShape DEF RefreshSucceeds, Live, NoLogin,
     Trying, Tries
<1>9. ASSUME NEW i \in Clients, NEW outcome \in {"repeat", "again", "error"}, RefreshFails(i, outcome)
      PROVE  Keeps(k)
  BY <1>9, <1>0, Fields, NotAnsweredShape DEF RefreshFails, Trying, Tries
<1>10. ASSUME NEW i \in Clients, LogoutSucceeds(i) PROVE Keeps(k)
  BY <1>10, <1>0, Fields, DoneShape, EndedShape DEF LogoutSucceeds, Live, NoLogin,
     Trying, Tries
<1>11. ASSUME NEW i \in Clients, NEW outcome \in {"repeat", "again", "error"}, LogoutFails(i, outcome)
       PROVE  Keeps(k)
  BY <1>11, <1>0, Fields, NotAnsweredShape, LogoutFailsShape DEF Trying, Tries
<1>12. ASSUME NEW i \in Clients, NEW r \in Requests, AuthenticatedRequest(i, r) PROVE Keeps(k)
  BY <1>12, <1>0, Fields, RequestShape
<1>13. ASSUME NEW r \in Requests, NEW outcome \in {"again", "ok", "error"}, RequestAnswered(r,
              outcome)
       PROVE  Keeps(k)
  BY <1>13, <1>0, Fields, AnsweredShape
<1>14. ASSUME NEW s \in Sessions, Expire(s) PROVE Keeps(k)
  BY <1>14, <1>0, Fields, EndedShape DEF Expire
<1>15. CASE UNCHANGED vars
  BY <1>0, <1>15 DEF vars
<1>16. QED
  BY <1>1, <1>2, <1>3, <1>4, <1>5, <1>6, <1>7, <1>8, <1>9, <1>10, <1>11, <1>12, <1>13,
     <1>14, <1>15 DEF Next

\* An agent's client that holds a session which has ended holds it for good.
THEOREM StuckForGoodHolds == Spec => StuckForGood
<1>1. IInv /\ [Next]_vars
      => [\A i \in Agents : Stuck(i) => Stuck(i)' /\ leSession'[i] = leSession[i]]_vars
  BY StuckStep DEF IInv, Keeps
<1>2. QED
  BY InvariantHolds, <1>1, PTL DEF Spec, StuckForGood
=============================================================================
