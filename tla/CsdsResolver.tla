----------------------------- MODULE CsdsResolver -----------------------------
(***************************************************************************)
(* CachingCsdsResolver over SimpleCsdsResolver: which base URIs an account   *)
(* has.  The cache (library `mem`) keeps the promise of a fetch by the key    *)
(* of its question for MaxAge; a promise that rejects takes its key out,     *)
(* whatever promise the key has by then.                                    *)
(*                                                                         *)
(* Time is a counter; an answer is known by the time at which the server     *)
(* gave it.  The names of accounts and services are the sequences of their     *)
(* parts, those between the underscores.                                      *)
(***************************************************************************)
EXTENDS Naturals, Sequences, UtilRequest

CONSTANTS
    Calls,        \* the calls of resolve(), each made once
    Accounts,     \* the account ids, as sequences of parts
    TestAccounts, \* those that begin with "le" or "qa"
    GivenDomains, \* the domains that users write into their configurations
    Services,     \* the services that are asked for by name, likewise
    None,         \* nothing given, nothing cached
    MaxAge,       \* how long the cache keeps a promise
    MaxTime       \* bound: the end of time

ASSUME AgeAssumption == MaxAge \in Nat /\ MaxTime \in Nat
ASSUME NoneAssumption == None \notin Calls \cup GivenDomains \cup Services
ASSUME AccountsAssumption == TestAccounts \subseteq Accounts

VARIABLES
    now,    \* the time
    cache,  \* the call that made the promise under each key
    fetch,  \* of each call, the fetch it has made: its state, when it was answered
    call    \* of each call: its state, question, times, whose fetch it waits for

vars == <<now, cache, fetch, call>>

Times == 0..MaxTime

-----------------------------------------------------------------------------
(* Configurations and questions *)

TestDomain == "hc1n.dev.lrnd.net"
ProdDomain == "adminlogin.liveperson.net"

getCsdsDomain(accountId) == IF accountId \in TestAccounts THEN TestDomain ELSE ProdDomain

\* Configurations as the user writes them: the domain is optional.
ICsdsConfigBase == [accountId : Accounts, csdsDomain : GivenDomains \cup {None}]

\* Mutant: every account has the same domain.
DefaultCsdsConfig_GivenOnly(base) == base

DefaultCsdsConfig(base) ==
    [base EXCEPT !.csdsDomain = IF @ = None THEN getCsdsDomain(base.accountId) ELSE @]

\* A question is a complete configuration and a service, None for all of them.
Question(base, service) == [config |-> DefaultCsdsConfig(base), service |-> service]

Questions == {Question(base, service) : base \in ICsdsConfigBase,
                                        service \in Services \cup {None}}

\* `${accountId}_${service}` joins the parts of both.  The key leaves out the domain,
\* and an account "a_s" has the key of the service "s" of the account "a".
cacheKey(q) == IF q.service = None THEN q.config.accountId
                                   ELSE q.config.accountId \o q.service

ICsdsConfig == [accountId : Accounts, csdsDomain : GivenDomains \cup {TestDomain, ProdDomain}]
ICsdsServiceConfig == [config : ICsdsConfig, service : Services \cup {None}]

Keys == {cacheKey(q) : q \in Questions}

-----------------------------------------------------------------------------
FetchType == [stage : {"none", "ok", "failed"} \cup Tries, at : Times]
CallType == [stage : {"new", "waiting", "resolved", "rejected"},
             question : ICsdsServiceConfig \cup {None},
             asked : Times, ended : Times, of : Calls \cup {None}]

TypeOK == /\ now \in Times
          /\ cache \in [Keys -> Calls \cup {None}]
          /\ fetch \in [Calls -> FetchType]
          /\ call \in [Calls -> CallType]

Init == /\ now = 0
        /\ cache = [k \in Keys |-> None]
        /\ fetch = [c \in Calls |-> [stage |-> "none", at |-> 0]]
        /\ call = [c \in Calls |-> [stage |-> "new", question |-> None,
                                    asked |-> 0, ended |-> 0, of |-> None]]

Pending(f) == fetch[f].stage \in Tries

\* Mutant: what is cached stays.
Cached_Always(k) == cache[k] # None

\* The promise under a key is of use: it was made less than MaxAge ago.
Cached(k) == /\ cache[k] # None
             /\ now < call[cache[k]].asked + MaxAge

\* Call c is served by the promise of call f, which may have settled.
Serve(c, q, f, stage) ==
    call' = [call EXCEPT ![c] = [stage |-> stage, question |-> q, asked |-> now,
                                 ended |-> IF stage = "waiting" THEN 0 ELSE now, of |-> f]]

\* Mutant: what is cached is the answer, not the promise.
Remember_Answers(c, k) == UNCHANGED cache

\* mem: the new promise is put under the key at once.
Remember(c, k) == cache' = [cache EXCEPT ![k] = c]

\* resolve() and resolveService(), which picks the service from the answer.
Resolve(c, q) ==
    LET k == cacheKey(q)
    IN  /\ call[c].stage = "new"
        /\ \/ /\ Cached(k)
              /\ Serve(c, q, cache[k],
                       CASE fetch[cache[k]].stage = "ok" -> "resolved"
                         [] fetch[cache[k]].stage = "failed" -> "rejected"
                         [] OTHER -> "waiting")
              /\ UNCHANGED <<cache, fetch>>
           \/ /\ ~Cached(k)
              /\ Serve(c, q, c, "waiting")
              /\ Remember(c, k)
              /\ fetch' = [fetch EXCEPT ![c].stage = "first"]
        /\ UNCHANGED now

\* Mutant: a rejected promise is kept.
Forget_Nothing(f) == UNCHANGED cache

\* mem: the key of a rejected promise goes, with the promise it has now.
Forget(f) == cache' = [cache EXCEPT ![cacheKey(call[f].question)] = None]

\* All calls that wait for fetch f.
Settle(f, stage) ==
    call' = [c \in Calls |-> IF call[c].stage = "waiting" /\ call[c].of = f
                             THEN [call[c] EXCEPT !.stage = stage, !.ended = now]
                             ELSE call[c]]

\* The server answers the request of fetch f, or the connection fails.
Answered(f, status) ==
    /\ Pending(f)
    /\ CASE Outcome(status, fetch[f].stage) = "again" ->
               /\ fetch' = [fetch EXCEPT ![f].stage = "second"]
               /\ UNCHANGED <<cache, call>>
         [] Outcome(status, fetch[f].stage) = "ok" ->
               /\ fetch' = [fetch EXCEPT ![f] = [stage |-> "ok", at |-> now]]
               /\ Settle(f, "resolved")
               /\ UNCHANGED cache
         [] OTHER ->
               /\ fetch' = [fetch EXCEPT ![f] = [stage |-> "failed", at |-> now]]
               /\ Settle(f, "rejected")
               /\ Forget(f)
    /\ UNCHANGED now

Tick == /\ now < MaxTime
        /\ now' = now + 1
        /\ UNCHANGED <<cache, fetch, call>>

Next == \/ \E c \in Calls : \/ \E q \in Questions : Resolve(c, q)
                            \/ \E status \in Statuses : Answered(c, status)
        \/ Tick

Spec == Init /\ [][Next]_vars

-----------------------------------------------------------------------------
(* Properties *)

Resolved(c) == call[c].stage = "resolved"

\* CachingCsdsResolver: a caller gets an answer to the request it made itself, or one
\* that the server gave less than MaxAge before it asked, to a request under the same
\* key, whatever was pending, failed or fetched again under that key meanwhile.
FreshAnswer ==
    \A c \in Calls : Resolved(c) =>
        call[c].of = c \/ call[c].asked < fetch[call[c].of].at + MaxAge

\* A failure is shared only by those who asked before it: nobody is served a
\* failure that lies in the past, since mem takes out what rejects.
FailureNotServed ==
    \A c \in Calls : call[c].stage = "rejected" =>
        call[c].of = c \/ call[c].ended > call[c].asked \/ fetch[call[c].of].at = call[c].asked

SameKey(f, g) == cacheKey(call[f].question) = cacheKey(call[g].question)

\* Calls at the same time share one request: two fetches for one key are pending
\* together only when the younger one began as the older had aged out, or as a
\* still older fetch had failed and taken the entry that replaced it along.
RequestsShared ==
    \A f, g \in Calls :
        /\ f # g /\ Pending(f) /\ Pending(g) /\ SameKey(f, g)
        /\ call[f].asked <= call[g].asked
        => \/ call[f].asked + MaxAge <= call[g].asked
           \/ \E h \in Calls : /\ fetch[h].stage = "failed"
                               /\ SameKey(h, f)
                               /\ call[h].asked + MaxAge <= call[f].asked
                               /\ fetch[h].at <= call[g].asked
=============================================================================
