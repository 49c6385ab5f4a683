--------------------------- MODULE CsdsRefreshProofs ---------------------------
(***************************************************************************)
(* Proofs about CsdsRefresh, for any clients, users, intervals and ages.     *)
(*                                                                         *)
(* The clients and the other users are users of the resolver: its invariant  *)
(* IInv holds.  TimeInv says more of its times.  LoopInv is about the clients:   *)
(* the domains that one holds are those of an answer; its timer, or the          *)
(* refresh that is under way, is not too late for it; and that refresh ends in     *)
(* time, as the requests do.                                                 *)
(***************************************************************************)
EXTENDS CsdsRefresh, CsdsResolverProofs

\* A call is served by a fetch that began before it, and gets its answer when that is
\* there, or at once.
ServedInv == \A c \in Calls : Made(c) => call[Source(c)].asked <= call[c].asked
EndedInv == \A c \in Calls : Resolved(c) =>
                call[c].ended = fetch[Source(c)].at \/ call[c].ended = call[c].asked

TimeInv == ServedInv /\ EndedInv

\* When the server gave an answer.
AnsweredAt(c) == fetch[Source(c)].at

\* Until when the next refresh of a client that holds domains has to begin.
Limit(i) == AnsweredAt(client[i].csdsDomains) + MaxAge + refreshInterval(i)
            + client[i].skipped * refreshInterval(i)

\* A client: what is refreshing has made its call not long ago, and goes on when that
\* ends; what it holds was an answer; and, with a cache that keeps anything, the next
\* refresh comes in time for it.
Busy(i) == Refreshing(i) \/ client[i].manual
LoopInv(i) ==
    LET r == client[i]
    IN  /\ r.loop = "stopped" => r.csdsDomains = None
        /\ r.manual => r.loop \in {"armed", "ended"}
        /\ Busy(i) =>
             /\ r.n \in 1..MaxRefreshes
             /\ Made(<<i, r.n>>)
             /\ Resolved(<<i, r.n>>) => call[<<i, r.n>>].ended = now
        /\ r.loop = "refreshing" =>
             /\ now <= call[<<i, r.n>>].asked + FetchTime
             /\ MaxAge # 0 /\ r.csdsDomains # None => call[<<i, r.n>>].asked < Limit(i)
        /\ r.csdsDomains # None => Resolved(r.csdsDomains)
        /\ r.loop = "armed" => /\ now <= r.due /\ r.due <= now + refreshInterval(i)
                               /\ MaxAge # 0 => r.due < Limit(i)

ClientInv == TypeOK_Clients /\ TimeInv /\ \A i \in Clients : LoopInv(i)

-----------------------------------------------------------------------------
(* What a step of the resolver does to a call *)

\* A call is made: it is served by a promise that there is, or by its own.
LEMMA ResolvePoint ==
    ASSUME IInv, NEW c \in Calls, NEW q \in Questions, Resolve(c, q)
    PROVE  /\ call[c].stage = "new" /\ UNCHANGED now
           /\ \A d \in Calls \ {c} : call'[d] = call[d] /\ fetch'[d] = fetch[d]
           /\ call'[c].stage # "new" /\ call'[c].asked = now
           /\ call'[c].stage = "resolved" => call'[c].ended = now
           /\ call'[c].of \in Calls
           /\ call'[c].of = c \/ (Made(call'[c].of) /\ call'[c].of # c)
<1> DEFINE k == cacheKey(q)
<1>0. TypeOK /\ k \in Keys
  BY DEF IInv, Keys
<1>1. CASE Cached(k)
  <2>1. /\ call[c].stage = "new" /\ cache[k] \in Calls
        /\ UNCHANGED <<now, cache, fetch>>
        /\ \E stage \in {"waiting", "resolved", "rejected"} : Serve(c, q, cache[k], stage)
    BY <1>0, <1>1, HitShape
  <2>2. PICK stage \in {"waiting", "resolved", "rejected"} : Serve(c, q, cache[k], stage)
    BY <2>1
  <2>3. /\ \A d \in Calls \ {c} : call'[d] = call[d]
        /\ call'[c].stage = stage /\ call'[c].asked = now /\ call'[c].of = cache[k]
        /\ call'[c].ended = IF stage = "waiting" THEN 0 ELSE now
    BY <1>0, <2>1, <2>2, ServePoint
  <2>4. fetch[cache[k]].stage \in Tries \cup {"ok"}
    BY <1>0, <1>1 DEF IInv, CacheInv, Cached
  <2>5. Made(cache[k])
    BY <2>1, <2>4 DEF IInv, MadeInv, Made, Tries
  <2>6. cache[k] # c
    BY <2>1, <2>5 DEF Made
  <2>7. QED
    BY <2>1, <2>2, <2>3, <2>5, <2>6
<1>2. CASE ~Cached(k)
  <2>1. call[c].stage = "new" /\ Serve(c, q, c, "waiting") /\ UNCHANGED now
    BY <1>2, MissShape
  <2>2. \A d \in Calls \ {c} : fetch'[d] = fetch[d]
    BY <1>0, <1>2, MissPoint
  <2>3. /\ \A d \in Calls \ {c} : call'[d] = call[d]
        /\ call'[c].stage = "waiting" /\ call'[c].asked = now /\ call'[c].of = c
    BY <1>0, <2>1, ServePoint
  <2>4. QED
    BY <2>1, <2>2, <2>3
<1>3. QED
  BY <1>1, <1>2

\* A request is answered: the calls that wait for it end, now.
LEMMA AnsweredPoint ==
    ASSUME TypeOK, NEW f \in Calls, NEW status \in Statuses, Answered(f, status)
    PROVE  /\ Pending(f) /\ UNCHANGED now
           /\ \A d \in Calls \ {f} : fetch'[d] = fetch[d]
           /\ \A d \in Calls :
                /\ call'[d].asked = call[d].asked /\ call'[d].of = call[d].of
                /\ \/ call'[d].stage = call[d].stage /\ call'[d].ended = call[d].ended
                   \/ /\ call[d].stage = "waiting" /\ call[d].of = f
                      /\ call'[d].stage \in {"resolved", "rejected"}
                      /\ call'[d].ended = now /\ fetch'[f].at = now
<1>1. Pending(f) /\ UNCHANGED now /\ \A d \in Calls \ {f} : fetch'[d] = fetch[d]
  BY AnswerShape, AnswerPoint
<1>2. CASE Outcome(status, fetch[f].stage) = "again"
  <2>1. UNCHANGED call
    BY <1>2, AnswerShape
  <2>2. QED
    BY <1>1, <2>1
<1>3. CASE Outcome(status, fetch[f].stage) = "ok"
  <2>1. Settle(f, "resolved") /\ fetch'[f].at = now
    BY <1>3, AnswerShape, AnswerPoint
  <2>2. QED
    BY <1>1, <2>1, SettlePoint
<1>4. CASE Outcome(status, fetch[f].stage) = "error"
  <2>1. Settle(f, "rejected") /\ fetch'[f].at = now
    BY <1>4, AnswerShape, AnswerPoint
  <2>2. QED
    BY <1>1, <2>1, SettlePoint
<1>5. QED
  BY <1>2, <1>3, <1>4, OutcomeCases

\* A call that was made stays as it is until it ends, and then; and so does a fetch that
\* has ended.
LEMMA CallKept ==
    ASSUME IInv, [Next]_vars, NEW d \in Calls, Made(d)
    PROVE  /\ call'[d].stage # "new"
           /\ call'[d].asked = call[d].asked /\ call'[d].of = call[d].of
           /\ Resolved(d) => /\ call'[d].stage = "resolved" /\ call'[d].ended = call[d].ended
                             /\ fetch'[Source(d)].at = fetch[Source(d)].at
           /\ ~Resolved(d) /\ call'[d].stage = "resolved"
                => /\ call'[d].ended = now /\ now' = now
                   /\ call'[d].ended = fetch'[Source(d)].at
<1>0. TypeOK
  BY DEF IInv
<1>1. Source(d) \in Calls /\ (Resolved(d) => fetch[Source(d)].stage = "ok")
  BY DEF IInv, MadeInv, SourceInv
<1>2. ASSUME NEW c \in Calls, NEW q \in Questions, Resolve(c, q)
      PROVE  call'[d] = call[d] /\ (Resolved(d) => fetch'[Source(d)].at = fetch[Source(d)].at)
  <2>1. d # c
    BY <1>2, ResolvePoint DEF Made
  <2>2. call'[d] = call[d] /\ \A e \in Calls \ {c} : fetch'[e] = fetch[e]
    BY <1>2, <2>1, ResolvePoint
  <2>3. ASSUME Resolved(d) PROVE Source(d) # c
    <3>1. Made(Source(d))
      BY <1>1, <2>3 DEF IInv, MadeInv, Made
    <3>2. QED
      BY <1>2, <3>1, ResolvePoint DEF Made
  <2>4. QED
    BY <1>1, <2>2, <2>3
<1>3. ASSUME NEW f \in Calls, NEW status \in Statuses, Answered(f, status)
      PROVE  /\ call'[d].stage # "new"
             /\ call'[d].asked = call[d].asked /\ call'[d].of = call[d].of
             /\ Resolved(d) => /\ call'[d].stage = "resolved" /\ call'[d].ended = call[d].ended
                               /\ fetch'[Source(d)].at = fetch[Source(d)].at
             /\ ~Resolved(d) /\ call'[d].stage = "resolved"
                  => /\ call'[d].ended = now /\ now' = now
                     /\ call'[d].ended = fetch'[Source(d)].at
  <2>1. /\ Pending(f) /\ UNCHANGED now
        /\ \A e \in Calls \ {f} : fetch'[e] = fetch[e]
        /\ call'[d].asked = call[d].asked /\ call'[d].of = call[d].of
        /\ \/ call'[d].stage = call[d].stage /\ call'[d].ended = call[d].ended
           \/ /\ call[d].stage = "waiting" /\ call[d].of = f
              /\ call'[d].stage \in {"resolved", "rejected"}
              /\ call'[d].ended = now /\ fetch'[f].at = now
    BY <1>0, <1>3, AnsweredPoint
  <2>2. Resolved(d) => Source(d) # f
    BY <1>1, <2>1 DEF Pending, Tries
  <2>3. QED
    BY <1>1, <2>1, <2>2 DEF Made, Resolved, Source
<1>4. CASE Tick \/ UNCHANGED vars
  BY <1>4 DEF Tick, vars, Made, Resolved
<1>5. QED
  BY <1>2, <1>3, <1>4 DEF Next, Made, Resolved

-----------------------------------------------------------------------------
(* The clients as users of the resolver *)

\* The configuration that a client runs with has an interval.
LEMMA IntervalNat ==
    ASSUME TypeOK_Clients, NEW i \in Clients
    PROVE  /\ refreshInterval(i) \in Nat
           /\ config[i].csdsConfig \in ICsdsConfigBase
<1>1. /\ config[i].csdsConfig \in ICsdsConfigBase
      /\ config[i].refreshInterval \in GivenIntervals \cup {None}
  BY DEF TypeOK_Clients, ICsdsClientConfigBase
<1>2. refreshInterval(i) = IF config[i].refreshInterval \in {None, 0}
                           THEN DEFAULT_CSDS_REFRESH_INTERVAL ELSE config[i].refreshInterval
  BY DEF TypeOK_Clients, ICsdsClientConfigBase, refreshInterval, DefaultCsdsClientConfig
<1>3. QED
  BY <1>1, <1>2, IntervalAssumption

\* Intervals add up.
LEMMA AddedUp ==
    ASSUME NEW k \in Nat, NEW t \in Nat
    PROVE  k * t \in Nat /\ 0 * t = 0 /\ (k + 1) * t = k * t + t
OBVIOUS

\* What a client is.
LEMMA ClientFields ==
    ASSUME TypeOK_Clients, NEW i \in Clients
    PROVE  /\ client[i].loop \in {"stopped", "refreshing", "armed", "ended"}
           /\ client[i].n \in 0..MaxRefreshes /\ client[i].n \in Nat
           /\ client[i].csdsDomains \in RefreshCalls \cup {None}
           /\ client[i].csdsDomains # None => client[i].csdsDomains \in Calls
           /\ client[i].due \in Nat /\ client[i].skipped \in Nat /\ client[i].manual \in BOOLEAN
           /\ now \in Nat
BY CallsAssumption DEF TypeOK_Clients, ClientType, TypeOK, Times

\* A client has a call for each of its refreshes.
LEMMA RefreshCall ==
    ASSUME NEW i \in Clients, NEW n \in 1..MaxRefreshes
    PROVE  <<i, n>> \in RefreshCalls /\ <<i, n>> \in Calls /\ <<i, n>> # None
<1>1. <<i, n>> \in RefreshCalls
  BY DEF RefreshCalls
<1>2. QED
  BY <1>1, CallsAssumption, NoneAssumption

\* A refresh that begins, of either kind, asks for all services.
LEMMA AsksShape ==
    ASSUME TypeOK_Clients, NEW i \in Clients, Asks(i)
    PROVE  /\ client[i].n + 1 \in 1..MaxRefreshes /\ client[i].n + 1 \in 0..MaxRefreshes
           /\ <<i, client[i].n + 1>> \in Calls
           /\ \E q \in Questions : Resolve(<<i, client[i].n + 1>>, q)
           /\ UNCHANGED config
<1>1. client[i].n \in 0..MaxRefreshes /\ client[i].n < MaxRefreshes
  BY ClientFields DEF Asks
<1>2. client[i].n + 1 \in 1..MaxRefreshes /\ client[i].n + 1 \in 0..MaxRefreshes
  BY <1>1, CallsAssumption
<1>3. Question(config[i].csdsConfig, None) \in Questions
  BY IntervalNat DEF Questions
<1>4. QED
  BY <1>2, <1>3, RefreshCall DEF Asks

\* By start() or by the timer.
LEMMA RefreshShape ==
    ASSUME TypeOK_Clients, NEW i \in Clients, onRefresh(i)
    PROVE  /\ \/ client[i].loop = "stopped"
              \/ client[i].loop = "armed" /\ now = client[i].due /\ ~client[i].manual
           /\ Asks(i)
           /\ \A j \in Clients \ {i} : client'[j] = client[j]
           /\ client'[i].loop = "refreshing" /\ client'[i].manual = client[i].manual
           /\ client'[i].n = client[i].n + 1
           /\ client'[i].csdsDomains = client[i].csdsDomains
           /\ client'[i].due = client[i].due /\ client'[i].skipped = client[i].skipped
           /\ client' \in [Clients -> ClientType]
<1>1. Asks(i) /\ client[i].n + 1 \in 0..MaxRefreshes
  BY AsksShape DEF onRefresh
<1>2. client' = [client EXCEPT ![i].loop = "refreshing", ![i].n = client[i].n + 1]
  BY DEF onRefresh
<1>3. client \in [Clients -> ClientType]
  BY DEF TypeOK_Clients
<1>4. client' \in [Clients -> ClientType]
  BY <1>1, <1>2, <1>3 DEF ClientType
<1>5. /\ \A j \in Clients \ {i} : client'[j] = client[j]
      /\ client'[i].loop = "refreshing" /\ client'[i].manual = client[i].manual
      /\ client'[i].n = client[i].n + 1
      /\ client'[i].csdsDomains = client[i].csdsDomains
      /\ client'[i].due = client[i].due /\ client'[i].skipped = client[i].skipped
  BY <1>2, <1>3 DEF ClientType
<1>6. QED
  BY <1>1, <1>4, <1>5 DEF onRefresh

\* By the user.
LEMMA ManualShape ==
    ASSUME TypeOK_Clients, NEW i \in Clients, refresh(i)
    PROVE  /\ client[i].loop \in {"armed", "ended"} /\ ~client[i].manual
           /\ Asks(i)
           /\ \A j \in Clients \ {i} : client'[j] = client[j]
           /\ client'[i].loop = client[i].loop /\ client'[i].manual = TRUE
           /\ client'[i].n = client[i].n + 1
           /\ client'[i].csdsDomains = client[i].csdsDomains
           /\ client'[i].due = client[i].due /\ client'[i].skipped = client[i].skipped
           /\ client' \in [Clients -> ClientType]
<1>1. Asks(i) /\ client[i].n + 1 \in 0..MaxRefreshes
  BY AsksShape DEF refresh
<1>2. client' = [client EXCEPT ![i].manual = TRUE, ![i].n = client[i].n + 1]
  BY DEF refresh
<1>3. client \in [Clients -> ClientType]
  BY DEF TypeOK_Clients
<1>4. client' \in [Clients -> ClientType]
  BY <1>1, <1>2, <1>3 DEF ClientType
<1>5. /\ \A j \in Clients \ {i} : client'[j] = client[j]
      /\ client'[i].loop = client[i].loop /\ client'[i].manual = TRUE
      /\ client'[i].n = client[i].n + 1
      /\ client'[i].csdsDomains = client[i].csdsDomains
      /\ client'[i].due = client[i].due /\ client'[i].skipped = client[i].skipped
  BY <1>2, <1>3 DEF ClientType
<1>6. QED
  BY <1>1, <1>4, <1>5 DEF refresh

\* A run of the timer that is skipped.
LEMMA SkippedShape ==
    ASSUME TypeOK_Clients, NEW i \in Clients, RefreshSkipped(i)
    PROVE  /\ client[i].loop = "armed" /\ now = client[i].due /\ client[i].manual
           /\ \A j \in Clients \ {i} : client'[j] = client[j]
           /\ client'[i].loop = "armed" /\ client'[i].manual = client[i].manual
           /\ client'[i].n = client[i].n
           /\ client'[i].csdsDomains = client[i].csdsDomains
           /\ client'[i].due = now + refreshInterval(i)
           /\ client'[i].skipped = client[i].skipped + 1
           /\ client' \in [Clients -> ClientType]
           /\ UNCHANGED <<vars, config>>
<1>1. now + refreshInterval(i) \in Nat /\ client[i].skipped + 1 \in Nat
  BY ClientFields, IntervalNat
<1>2. client' = [client EXCEPT ![i].due = now + refreshInterval(i),
                               ![i].skipped = client[i].skipped + 1]
  BY DEF RefreshSkipped
<1>3. client \in [Clients -> ClientType]
  BY DEF TypeOK_Clients
<1>4. client' \in [Clients -> ClientType]
  BY <1>1, <1>2, <1>3 DEF ClientType
<1>5. /\ \A j \in Clients \ {i} : client'[j] = client[j]
      /\ client'[i].loop = client[i].loop /\ client'[i].manual = client[i].manual
      /\ client'[i].n = client[i].n
      /\ client'[i].csdsDomains = client[i].csdsDomains
      /\ client'[i].due = now + refreshInterval(i)
      /\ client'[i].skipped = client[i].skipped + 1
  BY <1>2, <1>3 DEF ClientType
<1>6. QED
  BY <1>4, <1>5 DEF RefreshSkipped

\* A refresh that has its answer.
LEMMA RefreshedShape ==
    ASSUME TypeOK_Clients, NEW i \in Clients, client[i].n # 0, Refreshed(i)
    PROVE  /\ client[i].loop = "refreshing" /\ Resolved(<<i, client[i].n>>)
           /\ client[i].n \in 1..MaxRefreshes
           /\ \A j \in Clients \ {i} : client'[j] = client[j]
           /\ client'[i].loop = "armed" /\ client'[i].manual = client[i].manual
           /\ client'[i].due = now + refreshInterval(i)
           /\ client'[i].csdsDomains = <<i, client[i].n>> /\ client'[i].skipped = 0
           /\ client' \in [Clients -> ClientType]
           /\ UNCHANGED <<vars, config>>
<1>1. client[i].n \in 1..MaxRefreshes
  BY ClientFields
<1>2. <<i, client[i].n>> \in RefreshCalls
  BY <1>1, RefreshCall
<1>3. now + refreshInterval(i) \in Nat
  BY ClientFields, IntervalNat
<1>4. client \in [Clients -> ClientType]
  BY DEF TypeOK_Clients
<1>5. client' = [client EXCEPT ![i].loop = "armed", ![i].due = now + refreshInterval(i),
                               ![i].csdsDomains = <<i, client[i].n>>, ![i].skipped = 0]
  BY DEF Refreshed
<1>6. client' \in [Clients -> ClientType]
  <2> DEFINE t == now + refreshInterval(i)
             d == <<i, client[i].n>>
             x == [client[i] EXCEPT !.loop = "armed", !.due = t, !.csdsDomains = d, !.skipped = 0]
  <2>1. client' = [client EXCEPT ![i] = x]
    BY <1>4, <1>5
  <2>2. t \in Nat /\ d \in RefreshCalls
    BY <1>2, <1>3
  <2> HIDE DEF t, d
  <2>3. x \in ClientType
    BY <1>4, <2>2 DEF ClientType
  <2> HIDE DEF x
  <2>4. QED
    BY <1>4, <2>1, <2>3
<1>7. /\ \A j \in Clients \ {i} : client'[j] = client[j]
      /\ client'[i].loop = "armed" /\ client'[i].manual = client[i].manual
      /\ client'[i].due = now + refreshInterval(i)
      /\ client'[i].csdsDomains = <<i, client[i].n>> /\ client'[i].skipped = 0
  BY <1>4, <1>5 DEF ClientType
<1>8. QED
  BY <1>1, <1>6, <1>7 DEF Refreshed, Refreshing, Last, Resolved

\* And one of the user.
LEMMA ManualRefreshedShape ==
    ASSUME TypeOK_Clients, NEW i \in Clients, client[i].n # 0, ManualRefreshed(i)
    PROVE  /\ client[i].manual /\ Resolved(<<i, client[i].n>>)
           /\ client[i].n \in 1..MaxRefreshes
           /\ \A j \in Clients \ {i} : client'[j] = client[j]
           /\ client'[i].loop = client[i].loop /\ client'[i].manual = FALSE
           /\ client'[i].due = client[i].due
           /\ client'[i].csdsDomains = <<i, client[i].n>> /\ client'[i].skipped = 0
           /\ client' \in [Clients -> ClientType]
           /\ UNCHANGED <<vars, config>>
<1>1. client[i].n \in 1..MaxRefreshes
  BY ClientFields
<1>2. <<i, client[i].n>> \in RefreshCalls
  BY <1>1, RefreshCall
<1>3. client \in [Clients -> ClientType]
  BY DEF TypeOK_Clients
<1>4. client' = [client EXCEPT ![i].manual = FALSE, ![i].csdsDomains = <<i, client[i].n>>,
                               ![i].skipped = 0]
  BY DEF ManualRefreshed
<1>5. client' \in [Clients -> ClientType]
  <2> DEFINE d == <<i, client[i].n>>
             x == [client[i] EXCEPT !.manual = FALSE, !.csdsDomains = d, !.skipped = 0]
  <2>1. client' = [client EXCEPT ![i] = x]
    BY <1>3, <1>4
  <2>2. d \in RefreshCalls
    BY <1>2
  <2> HIDE DEF d
  <2>3. x \in ClientType
    BY <1>3, <2>2 DEF ClientType
  <2> HIDE DEF x
  <2>4. QED
    BY <1>3, <2>1, <2>3
<1>6. /\ \A j \in Clients \ {i} : client'[j] = client[j]
      /\ client'[i].loop = client[i].loop /\ client'[i].manual = FALSE
      /\ client'[i].due = client[i].due
      /\ client'[i].csdsDomains = <<i, client[i].n>> /\ client'[i].skipped = 0
  BY <1>3, <1>4 DEF ClientType
<1>7. QED
  BY <1>1, <1>5, <1>6 DEF ManualRefreshed, Last, Resolved

\* One that has failed, of either kind.
LEMMA FailedShape ==
    ASSUME TypeOK_Clients, NEW i \in Clients, RefreshFailed(i) \/ ManualFailed(i)
    PROVE  /\ \A j \in Clients \ {i} : client'[j] = client[j]
           /\ \/ /\ client[i].loop = "refreshing" /\ client'[i].manual = client[i].manual
                 /\ client'[i].loop = IF client[i].csdsDomains = None THEN "stopped" ELSE "ended"
              \/ client'[i].manual = FALSE /\ client'[i].loop = client[i].loop
           /\ client'[i].csdsDomains = client[i].csdsDomains
           /\ client'[i].due = client[i].due /\ client'[i].skipped = client[i].skipped
           /\ client'[i].n = client[i].n
           /\ client' \in [Clients -> ClientType]
           /\ UNCHANGED <<vars, config>>
<1>1. client \in [Clients -> ClientType]
  BY DEF TypeOK_Clients
<1>2. CASE RefreshFailed(i)
  <2>1. client' = [client EXCEPT ![i].loop = IF client[i].csdsDomains = None
                                             THEN "stopped" ELSE "ended"]
    BY <1>2 DEF RefreshFailed
  <2>2. client' \in [Clients -> ClientType]
    BY <1>1, <2>1 DEF ClientType
  <2>3. QED
    BY <1>1, <1>2, <2>1, <2>2 DEF RefreshFailed, Refreshing, ClientType
<1>3. CASE ManualFailed(i)
  <2>1. client' = [client EXCEPT ![i].manual = FALSE]
    BY <1>3 DEF ManualFailed
  <2>2. client' \in [Clients -> ClientType]
    BY <1>1, <2>1 DEF ClientType
  <2>3. QED
    BY <1>1, <1>3, <2>1, <2>2 DEF ManualFailed, ClientType
<1>4. QED
  BY <1>2, <1>3

\* Every step of the clients is one of the resolver, or none.
LEMMA UsesStep ==
    ASSUME TypeOK_Clients, [NextClients]_allVars
    PROVE  [Next]_vars
<1>1. ASSUME NEW i \in Clients, onRefresh(i) \/ refresh(i) PROVE Next
  BY <1>1, AsksShape DEF onRefresh, refresh, Next
<1>2. ASSUME NEW i \in Clients,
             \/ Refreshed(i) \/ RefreshFailed(i) \/ RefreshSkipped(i)
             \/ ManualRefreshed(i) \/ ManualFailed(i)
      PROVE  UNCHANGED vars
  BY <1>2 DEF Refreshed, RefreshFailed, RefreshSkipped, ManualRefreshed, ManualFailed
<1>3. ASSUME NEW c \in Calls, NEW base \in ICsdsConfigBase,
             NEW service \in Services \cup {None}, Ask(c, base, service)
      PROVE  Next
  BY <1>3 DEF Ask, Next, Questions
<1>4. ASSUME NEW f \in Calls, NEW status \in Statuses, Respond(f, status) PROVE Next
  BY <1>4 DEF Respond, Next
<1>5. CASE Elapse
  BY <1>5 DEF Elapse, Next
<1>6. CASE UNCHANGED allVars
  BY <1>6 DEF allVars, vars
<1>7. QED
  BY <1>1, <1>2, <1>3, <1>4, <1>5, <1>6 DEF NextClients

\* The types of the clients are kept.
LEMMA ClientTypes ==
    ASSUME TypeOK_Clients, TypeOK', [NextClients]_allVars,
           \A i \in Clients : Refreshed(i) \/ ManualRefreshed(i) => client[i].n # 0
    PROVE  TypeOK_Clients'
<1>1. ASSUME UNCHANGED config, client' \in [Clients -> ClientType],
             \A i \in Clients :
                client'[i].loop \in {"armed", "ended"} => client'[i].csdsDomains # None
      PROVE  TypeOK_Clients'
  BY <1>1 DEF TypeOK_Clients
<1>2. \A i \in Clients : client[i].loop \in {"armed", "ended"} => client[i].csdsDomains # None
  BY DEF TypeOK_Clients
<1>3. ASSUME NEW i \in Clients, onRefresh(i) PROVE TypeOK_Clients'
  BY <1>1, <1>2, <1>3, RefreshShape, AsksShape
<1>8. ASSUME NEW i \in Clients, refresh(i) PROVE TypeOK_Clients'
  BY <1>1, <1>2, <1>8, ManualShape, AsksShape
<1>9. ASSUME NEW i \in Clients, RefreshSkipped(i) PROVE TypeOK_Clients'
  BY <1>1, <1>2, <1>9, SkippedShape
<1>10. ASSUME NEW i \in Clients, ManualRefreshed(i) PROVE TypeOK_Clients'
  <2>1. client[i].n \in 1..MaxRefreshes
    BY <1>10, ClientFields
  <2>2. QED
    BY <1>1, <1>2, <1>10, <2>1, ManualRefreshedShape, RefreshCall
<1>4. ASSUME NEW i \in Clients, Refreshed(i) PROVE TypeOK_Clients'
  <2>1. client[i].n \in 1..MaxRefreshes
    BY <1>4, ClientFields
  <2>2. QED
    BY <1>1, <1>2, <1>4, <2>1, RefreshedShape, RefreshCall
<1>5. ASSUME NEW i \in Clients, RefreshFailed(i) \/ ManualFailed(i) PROVE TypeOK_Clients'
  BY <1>1, <1>2, <1>5, FailedShape
<1>6. CASE UNCHANGED <<config, client>>
  BY <1>1, <1>2, <1>6 DEF TypeOK_Clients
<1>7. QED
  BY <1>3, <1>4, <1>5, <1>6, <1>8, <1>9, <1>10 DEF NextClients, Ask, Respond, Elapse, allVars

-----------------------------------------------------------------------------
(* Times *)

\* A step of the resolver keeps what is said of its times.
LEMMA TimeKept == IInv /\ TimeInv /\ [Next]_vars => TimeInv'
<1> SUFFICES ASSUME IInv, TimeInv, [Next]_vars PROVE TimeInv'
  OBVIOUS
<1>0. \A d \in Calls : Made(d) => /\ Source(d) \in Calls /\ Made(Source(d))
                                  /\ call[d].asked <= now
  BY DEF IInv, MadeInv, SourceInv, Made
<1>1. ASSUME NEW d \in Calls, Made(d)
      PROVE  /\ call'[call'[d].of].asked <= call'[d].asked
             /\ call'[d].stage = "resolved" =>
                  \/ call'[d].ended = fetch'[call'[d].of].at
                  \/ call'[d].ended = call'[d].asked
  <2>1. /\ call'[d].asked = call[d].asked /\ call'[d].of = call[d].of
        /\ Resolved(d) => /\ call'[d].ended = call[d].ended
                          /\ fetch'[Source(d)].at = fetch[Source(d)].at
        /\ ~Resolved(d) /\ call'[d].stage = "resolved"
             => call'[d].ended = fetch'[Source(d)].at
    BY <1>1, CallKept
  <2>2. call'[Source(d)].asked = call[Source(d)].asked
    BY <1>0, <1>1, CallKept
  <2>3. call[Source(d)].asked <= call[d].asked
    BY <1>1 DEF TimeInv, ServedInv
  <2>4. Resolved(d) => call[d].ended = fetch[Source(d)].at \/ call[d].ended = call[d].asked
    BY DEF TimeInv, EndedInv
  <2>5. QED
    BY <2>1, <2>2, <2>3, <2>4 DEF Source
<1>2. ASSUME NEW d \in Calls, ~Made(d), call'[d].stage # "new"
      PROVE  /\ call'[call'[d].of].asked <= call'[d].asked
             /\ call'[d].stage = "resolved" => call'[d].ended = call'[d].asked
  <2>1. PICK c \in Calls, q \in Questions : Resolve(c, q)
    <3>1. ASSUME NEW f \in Calls, NEW status \in Statuses, Answered(f, status) PROVE FALSE
      BY <1>2, <3>1, AnsweredPoint DEF IInv, Made
    <3>2. ~Tick /\ ~UNCHANGED vars
      BY <1>2 DEF Tick, vars, Made
    <3>3. QED
      BY <3>1, <3>2 DEF Next
  <2>2. d = c
    BY <1>2, <2>1, ResolvePoint DEF Made
  <2>3. /\ call'[c].asked = now
        /\ call'[c].stage = "resolved" => call'[c].ended = now
        /\ call'[c].of = c \/ (Made(call'[c].of) /\ call'[c].of # c)
        /\ call'[c].of \in Calls
        /\ \A e \in Calls \ {c} : call'[e] = call[e]
    BY <2>1, ResolvePoint
  <2>4. now <= now
    BY NatTimes DEF IInv
  <2>5. call'[call'[c].of].asked <= now
    BY <1>0, <2>3, <2>4
  <2>6. QED
    BY <2>2, <2>3, <2>5
<1>3. QED
  BY <1>1, <1>2 DEF TimeInv, ServedInv, EndedInv, Made, Resolved, Source

\* An answer is still fresh when the call that gets it ends.
LEMMA FreshAtEnd ==
    ASSUME IInv, TimeInv, MaxAge # 0, NEW c \in Calls, Resolved(c)
    PROVE  call[c].ended < AnsweredAt(c) + MaxAge
<1>1. /\ Source(c) \in Calls /\ fetch[Source(c)].stage = "ok"
      /\ Source(c) = c \/ call[c].asked < call[Source(c)].asked + MaxAge
      /\ call[Source(c)].asked <= fetch[Source(c)].at
  BY DEF IInv, MadeInv, SourceInv, Made, Resolved
<1>2. call[c].ended = fetch[Source(c)].at \/ call[c].ended = call[c].asked
  BY DEF TimeInv, EndedInv
<1>3. /\ call[c].asked \in Nat /\ call[c].ended \in Nat /\ call[Source(c)].asked \in Nat
      /\ fetch[Source(c)].at \in Nat /\ MaxAge \in Nat
  BY <1>1, NatTimes, AgeAssumption DEF IInv
<1>4. QED
  BY <1>1, <1>2, <1>3 DEF AnsweredAt

-----------------------------------------------------------------------------
(* The loops of the clients *)

\* What the answers that a client has, or waits for, keep in a step of the resolver.
LEMMA AnswersKept ==
    ASSUME IInv, TypeOK_Clients, [Next]_vars, NEW i \in Clients, LoopInv(i)
    PROVE  /\ client[i].csdsDomains # None =>
                /\ call'[client[i].csdsDomains].stage = "resolved"
                /\ fetch'[call'[client[i].csdsDomains].of].at
                     = AnsweredAt(client[i].csdsDomains)
           /\ Busy(i) /\ UNCHANGED now =>
                /\ call'[<<i, client[i].n>>].stage # "new"
                /\ call'[<<i, client[i].n>>].stage = "resolved" =>
                     call'[<<i, client[i].n>>].ended = now
                /\ call'[<<i, client[i].n>>].asked = call[<<i, client[i].n>>].asked
<1> DEFINE r == client[i]
           l == <<i, r.n>>
<1>1. ASSUME Busy(i), UNCHANGED now
      PROVE  /\ call'[l].stage # "new"
             /\ call'[l].stage = "resolved" => call'[l].ended = now
             /\ call'[l].asked = call[l].asked
  <2>1. r.n \in 1..MaxRefreshes /\ Made(l) /\ (Resolved(l) => call[l].ended = now)
    BY <1>1 DEF LoopInv
  <2>2. l \in Calls
    BY <2>1, RefreshCall
  <2>3. QED
    BY <2>1, <2>2, CallKept
<1>2. ASSUME r.csdsDomains # None
      PROVE  /\ call'[r.csdsDomains].stage = "resolved"
             /\ fetch'[call'[r.csdsDomains].of].at = AnsweredAt(r.csdsDomains)
  <2>1. r.csdsDomains \in Calls /\ Resolved(r.csdsDomains)
    BY <1>2, ClientFields DEF LoopInv
  <2>2. /\ call'[r.csdsDomains].stage = "resolved"
        /\ call'[r.csdsDomains].of = call[r.csdsDomains].of
        /\ fetch'[Source(r.csdsDomains)].at = fetch[Source(r.csdsDomains)].at
    BY <2>1, CallKept DEF Made, Resolved
  <2>3. QED
    BY <2>2 DEF AnsweredAt, Source
<1>3. QED
  BY <1>1, <1>2

\* A client that is left alone, by a step that takes no time.
LEMMA LoopSame ==
    ASSUME IInv, TypeOK_Clients, [Next]_vars, NEW i \in Clients, LoopInv(i),
           client'[i] = client[i], UNCHANGED <<config, now>>
    PROVE  LoopInv(i)'
<1> DEFINE r == client[i]
           l == <<i, r.n>>
<1>1. refreshInterval(i)' = refreshInterval(i)
  BY DEF refreshInterval
<1>2. Busy(i) => /\ call'[l].stage # "new"
                 /\ call'[l].stage = "resolved" => call'[l].ended = now
                 /\ call'[l].asked = call[l].asked
  BY AnswersKept
<1>3. r.csdsDomains # None => /\ call'[r.csdsDomains].stage = "resolved"
                              /\ Limit(i)' = Limit(i)
  BY <1>1, AnswersKept DEF Limit, AnsweredAt, Source
<1>4. r.loop = "armed" => r.csdsDomains # None
  BY DEF TypeOK_Clients
<1>5. Busy(i)' = Busy(i) /\ (r.loop = "refreshing" => Busy(i))
  BY DEF Busy, Refreshing
<1>6. /\ r.loop = "stopped" => r.csdsDomains = None
      /\ r.manual => r.loop \in {"armed", "ended"}
      /\ Busy(i) => r.n \in 1..MaxRefreshes
      /\ r.loop = "refreshing" => now <= call[l].asked + FetchTime
      /\ r.loop = "armed" =>
           /\ now <= r.due /\ r.due <= now + refreshInterval(i)
           /\ MaxAge # 0 => r.due < Limit(i)
      /\ r.loop = "refreshing" /\ MaxAge # 0 /\ r.csdsDomains # None =>
           call[l].asked < Limit(i)
  BY DEF LoopInv
<1>7. QED
  BY <1>1, <1>2, <1>3, <1>4, <1>5, <1>6 DEF LoopInv, Made, Resolved

\* It begins a refresh: at its start, or when its timer fires.
LEMMA LoopBegins ==
    ASSUME IInv, TypeOK_Clients, NEW i \in Clients, LoopInv(i), onRefresh(i)
    PROVE  LoopInv(i)'
<1> DEFINE r == client[i]
           l == <<i, r.n + 1>>
           d == r.csdsDomains
<1>1. /\ r.loop = "stopped" \/ (r.loop = "armed" /\ now = r.due /\ ~r.manual)
      /\ r.n + 1 \in 1..MaxRefreshes /\ l \in Calls
      /\ client'[i].loop = "refreshing" /\ client'[i].n = r.n + 1
      /\ client'[i].manual = r.manual
      /\ client'[i].csdsDomains = d /\ client'[i].skipped = r.skipped
      /\ UNCHANGED config
  BY RefreshShape, AsksShape
<1>2. PICK q \in Questions : Resolve(l, q)
  BY RefreshShape, AsksShape
<1>3. /\ UNCHANGED now /\ call'[l].stage # "new" /\ call'[l].asked = now
      /\ call'[l].stage = "resolved" => call'[l].ended = now
  BY <1>1, <1>2, ResolvePoint
<1>4. refreshInterval(i)' = refreshInterval(i)
  BY <1>1 DEF refreshInterval
<1>5. ASSUME d # None
      PROVE  call'[d].stage = "resolved" /\ Limit(i)' = Limit(i) /\ (MaxAge # 0 => now < Limit(i))
  <2>1. [Next]_vars
    BY <1>1, <1>2 DEF Next
  <2>2. r.loop = "armed"
    BY <1>1, <1>5 DEF LoopInv
  <2>3. MaxAge # 0 => now < Limit(i)
    BY <1>1, <2>2 DEF LoopInv
  <2>4. /\ call'[d].stage = "resolved"
        /\ fetch'[call'[d].of].at = AnsweredAt(d)
    BY <1>5, <2>1, AnswersKept
  <2>5. Limit(i)' = Limit(i)
    BY <1>1, <1>4, <2>4 DEF Limit, AnsweredAt, Source
  <2>6. QED
    BY <2>3, <2>4, <2>5
<1>6. now <= now + FetchTime
  BY ClientFields, IntervalAssumption
<1>7. ~r.manual
  BY <1>1 DEF LoopInv
<1> HIDE DEF l
<1>8. /\ client'[i].loop = "refreshing" /\ <<i, client'[i].n>> = l
      /\ client'[i].n \in 1..MaxRefreshes
  BY <1>1 DEF l
<1>9. QED
  BY <1>1, <1>3, <1>5, <1>6, <1>7, <1>8 DEF LoopInv, Made, Resolved

\* Its user begins one: the timer is left as it is.
LEMMA LoopManual ==
    ASSUME IInv, TypeOK_Clients, NEW i \in Clients, LoopInv(i), refresh(i)
    PROVE  LoopInv(i)'
<1> DEFINE r == client[i]
           l == <<i, r.n + 1>>
           d == r.csdsDomains
<1>1. /\ r.loop \in {"armed", "ended"}
      /\ r.n + 1 \in 1..MaxRefreshes /\ l \in Calls
      /\ client'[i].loop = r.loop /\ client'[i].n = r.n + 1
      /\ client'[i].csdsDomains = d /\ client'[i].skipped = r.skipped
      /\ client'[i].due = r.due
      /\ UNCHANGED config
  BY ManualShape, AsksShape
<1>2. PICK q \in Questions : Resolve(l, q)
  BY ManualShape, AsksShape
<1>3. /\ UNCHANGED now /\ call'[l].stage # "new"
      /\ call'[l].stage = "resolved" => call'[l].ended = now
  BY <1>1, <1>2, ResolvePoint
<1>4. refreshInterval(i)' = refreshInterval(i) /\ d # None
  BY <1>1 DEF refreshInterval, TypeOK_Clients
<1>5. call'[d].stage = "resolved" /\ Limit(i)' = Limit(i)
  <2>1. [Next]_vars
    BY <1>1, <1>2 DEF Next
  <2>2. /\ call'[d].stage = "resolved"
        /\ fetch'[call'[d].of].at = AnsweredAt(d)
    BY <1>4, <2>1, AnswersKept
  <2>3. QED
    BY <1>1, <1>4, <2>2 DEF Limit, AnsweredAt, Source
<1>6. r.loop = "armed" => /\ now <= r.due /\ r.due <= now + refreshInterval(i)
                          /\ MaxAge # 0 => r.due < Limit(i)
  BY DEF LoopInv
<1> HIDE DEF l
<1>7. /\ <<i, client'[i].n>> = l /\ client'[i].n \in 1..MaxRefreshes
      /\ client'[i].loop \notin {"stopped", "refreshing"}
  BY <1>1 DEF l
<1>8. QED
  BY <1>1, <1>3, <1>4, <1>5, <1>6, <1>7 DEF LoopInv, Made, Resolved

\* Its timer is skipped, which costs an interval.
LEMMA LoopSkips ==
    ASSUME TypeOK_Clients, IInv, NEW i \in Clients, LoopInv(i), RefreshSkipped(i)
    PROVE  LoopInv(i)'
<1> DEFINE r == client[i]
           d == r.csdsDomains
           t == refreshInterval(i)
<1>1. /\ r.loop = "armed" /\ now = r.due /\ r.manual
      /\ client'[i].loop = "armed" /\ client'[i].manual = r.manual /\ client'[i].n = r.n
      /\ client'[i].csdsDomains = d
      /\ client'[i].due = now + t /\ client'[i].skipped = r.skipped + 1
      /\ UNCHANGED <<vars, config>>
  BY SkippedShape
<1>2. UNCHANGED <<now, call, fetch>> /\ refreshInterval(i)' = t
  BY <1>1 DEF vars, refreshInterval
<1>3. d # None /\ d \in Calls /\ Resolved(d)
  BY <1>1, ClientFields DEF TypeOK_Clients, LoopInv
<1>4. /\ now \in Nat /\ t \in Nat /\ MaxAge \in Nat /\ AnsweredAt(d) \in Nat /\ r.skipped \in Nat
  <2>1. Source(d) \in Calls
    BY <1>3 DEF IInv, MadeInv, Made, Resolved
  <2>2. QED
    BY <2>1, NatTimes, IntervalNat, ClientFields, AgeAssumption DEF IInv, AnsweredAt
<1>5. Limit(i)' = AnsweredAt(d) + MaxAge + t + (r.skipped + 1) * t
  BY <1>1, <1>2 DEF Limit, AnsweredAt, Source
<1>6. Limit(i) = AnsweredAt(d) + MaxAge + t + r.skipped * t
  BY DEF Limit
<1>7. MaxAge # 0 => now < Limit(i)
  BY <1>1 DEF LoopInv
<1>8. (r.skipped + 1) * t = r.skipped * t + t /\ r.skipped * t \in Nat
  BY <1>4, AddedUp
<1>9. MaxAge # 0 => now + t < Limit(i)'
  <2> DEFINE a == AnsweredAt(d)
             m == r.skipped * t
  <2> HIDE DEF a, m, t
  <2>1. Limit(i)' = a + MaxAge + t + (m + t) /\ Limit(i) = a + MaxAge + t + m
    BY <1>5, <1>6, <1>8 DEF a, m
  <2>2. a \in Nat /\ m \in Nat /\ t \in Nat /\ now \in Nat /\ MaxAge \in Nat
    BY <1>4, <1>8 DEF a, m
  <2>3. QED
    BY <1>7, <2>1, <2>2
<1>10. now <= now + t
  BY <1>4
<1>11. /\ Busy(i) /\ Busy(i)'
       /\ r.n \in 1..MaxRefreshes
       /\ Made(<<i, r.n>>)
       /\ Resolved(<<i, r.n>>) => call[<<i, r.n>>].ended = now
  BY <1>1 DEF LoopInv, Busy
<1> HIDE DEF t
<1>12. now + t <= now + t
  BY <1>4
<1>13. QED
  BY <1>1, <1>2, <1>3, <1>9, <1>10, <1>11, <1>12 DEF LoopInv, Made, Resolved

\* A client that takes an answer has asked.
LEMMA Begun ==
    ASSUME NEW i \in Clients, LoopInv(i), Refreshed(i) \/ ManualRefreshed(i)
    PROVE  client[i].n # 0
<1>1. client[i].n \in 1..MaxRefreshes
  BY DEF LoopInv, Busy, Refreshed, ManualRefreshed
<1>2. QED
  BY <1>1

\* An answer that comes is fresh.
LEMMA AnswerFresh ==
    ASSUME IInv, TimeInv, TypeOK_Clients, NEW i \in Clients, LoopInv(i), Busy(i),
           Resolved(<<i, client[i].n>>)
    PROVE  /\ <<i, client[i].n>> \in Calls /\ <<i, client[i].n>> # None
           /\ AnsweredAt(<<i, client[i].n>>) \in Nat
           /\ MaxAge # 0 => now < AnsweredAt(<<i, client[i].n>>) + MaxAge
<1> DEFINE l == <<i, client[i].n>>
<1>1. client[i].n \in 1..MaxRefreshes /\ call[l].ended = now
  BY DEF LoopInv
<1>2. l \in Calls /\ l # None
  BY <1>1, RefreshCall
<1>3. MaxAge # 0 => now < AnsweredAt(l) + MaxAge
  BY <1>1, <1>2, FreshAtEnd
<1>4. Source(l) \in Calls
  BY <1>2 DEF IInv, MadeInv, Made, Resolved
<1>5. AnsweredAt(l) \in Nat
  BY <1>4, NatTimes DEF IInv, AnsweredAt
<1>6. QED
  BY <1>2, <1>3, <1>5

\* It takes the answer and sets its timer.
LEMMA LoopTakes ==
    ASSUME IInv, TimeInv, TypeOK_Clients, NEW i \in Clients, LoopInv(i), Refreshed(i)
    PROVE  LoopInv(i)'
<1> DEFINE l == <<i, client[i].n>>
           t == refreshInterval(i)
<1>1. client[i].n # 0
  BY Begun
<1>2. /\ client[i].loop = "refreshing" /\ Resolved(l)
      /\ client'[i].loop = "armed" /\ client'[i].due = now + t
      /\ client'[i].manual = client[i].manual
      /\ client'[i].csdsDomains = l /\ client'[i].skipped = 0
      /\ UNCHANGED <<vars, config>>
  BY <1>1, RefreshedShape
<1>3. Busy(i) /\ ~client[i].manual
  BY <1>2 DEF LoopInv, Busy, Refreshing
<1>4. /\ l \in Calls /\ l # None /\ AnsweredAt(l) \in Nat
      /\ MaxAge # 0 => now < AnsweredAt(l) + MaxAge
  BY <1>2, <1>3, AnswerFresh
<1>5. UNCHANGED <<now, call, fetch>> /\ refreshInterval(i)' = t
  BY <1>2 DEF vars, refreshInterval
<1>6. now \in Nat /\ t \in Nat /\ MaxAge \in Nat
  BY ClientFields, IntervalNat, AgeAssumption
<1>7. Limit(i)' = AnsweredAt(l) + MaxAge + t + 0 * t
  BY <1>2, <1>5 DEF Limit, AnsweredAt, Source
<1>8. 0 * t = 0
  BY <1>6, AddedUp
<1>9. /\ now <= now + t /\ now + t <= now + t
      /\ MaxAge # 0 => now + t < Limit(i)'
  <2> DEFINE a == AnsweredAt(l)
  <2> HIDE DEF a, t
  <2>1. Limit(i)' = a + MaxAge + t + 0
    BY <1>7, <1>8 DEF a
  <2>2. QED
    BY <1>4, <1>6, <2>1 DEF a
<1> HIDE DEF l, t
<1>10. QED
  BY <1>2, <1>3, <1>5, <1>9 DEF LoopInv, Resolved, Busy, Refreshing

\* Its user's refresh() has an answer: the timer comes within an interval.
LEMMA LoopTakesManual ==
    ASSUME IInv, TimeInv, TypeOK_Clients, NEW i \in Clients, LoopInv(i), ManualRefreshed(i)
    PROVE  LoopInv(i)'
<1> DEFINE l == <<i, client[i].n>>
           t == refreshInterval(i)
           due == client[i].due
<1>1. client[i].n # 0
  BY Begun
<1>2. /\ client[i].manual /\ Resolved(l)
      /\ client'[i].loop = client[i].loop /\ client'[i].manual = FALSE
      /\ client'[i].due = due
      /\ client'[i].csdsDomains = l /\ client'[i].skipped = 0
      /\ UNCHANGED <<vars, config>>
  BY <1>1, ManualRefreshedShape
<1>3. Busy(i) /\ client[i].loop \in {"armed", "ended"}
  BY <1>2 DEF LoopInv, Busy, Refreshing
<1>4. /\ l \in Calls /\ l # None /\ AnsweredAt(l) \in Nat
      /\ MaxAge # 0 => now < AnsweredAt(l) + MaxAge
  BY <1>2, <1>3, AnswerFresh
<1>5. UNCHANGED <<now, call, fetch>> /\ refreshInterval(i)' = t
  BY <1>2 DEF vars, refreshInterval
<1>6. now \in Nat /\ t \in Nat /\ MaxAge \in Nat /\ due \in Nat
  BY ClientFields, IntervalNat, AgeAssumption
<1>7. Limit(i)' = AnsweredAt(l) + MaxAge + t + 0 * t
  BY <1>2, <1>5 DEF Limit, AnsweredAt, Source
<1>8. 0 * t = 0
  BY <1>6, AddedUp
<1>9. client[i].loop = "armed" => now <= due /\ due <= now + t
  BY DEF LoopInv
<1>10. due <= now + t /\ MaxAge # 0 => due < Limit(i)'
  <2> DEFINE a == AnsweredAt(l)
  <2> HIDE DEF a, t, due
  <2>1. Limit(i)' = a + MaxAge + t + 0
    BY <1>7, <1>8 DEF a
  <2>2. QED
    BY <1>4, <1>6, <2>1 DEF a
<1> HIDE DEF l, t, due
<1>11. QED
  BY <1>2, <1>3, <1>5, <1>9, <1>10 DEF LoopInv, Resolved, Busy, Refreshing

\* It ends with a failure.
LEMMA LoopFails ==
    ASSUME TypeOK_Clients, NEW i \in Clients, LoopInv(i), RefreshFailed(i) \/ ManualFailed(i)
    PROVE  LoopInv(i)'
<1>1. /\ \/ /\ client[i].loop = "refreshing" /\ client'[i].manual = client[i].manual
            /\ client'[i].loop = IF client[i].csdsDomains = None THEN "stopped" ELSE "ended"
         \/ client'[i].manual = FALSE /\ client'[i].loop = client[i].loop
      /\ client'[i].csdsDomains = client[i].csdsDomains
      /\ client'[i].due = client[i].due /\ client'[i].skipped = client[i].skipped
      /\ client'[i].n = client[i].n
      /\ UNCHANGED <<vars, config>>
  BY FailedShape
<1>2. UNCHANGED <<now, call, fetch>> /\ refreshInterval(i)' = refreshInterval(i)
  BY <1>1 DEF vars, refreshInterval
<1>3. Limit(i)' = Limit(i)
  BY <1>1, <1>2 DEF Limit, AnsweredAt, Source
<1>4. client[i].loop = "refreshing" => ~client[i].manual
  BY DEF LoopInv
<1>5. QED
  BY <1>1, <1>2, <1>3, <1>4 DEF LoopInv, Busy, Refreshing, Made, Resolved

\* Time passes: its timer is not late, and its refresh is answered in time.
LEMMA LoopWaits ==
    ASSUME IInv, TimeInv, TypeOK_Clients, NEW i \in Clients, LoopInv(i), Elapse
    PROVE  LoopInv(i)'
<1> DEFINE l == <<i, client[i].n>>
<1>1. /\ now' = now + 1 /\ UNCHANGED <<call, fetch, config, client>>
      /\ client[i].loop = "armed" => now < client[i].due
      /\ Busy(i) => call[l].stage = "waiting"
      /\ \A f \in Calls : Pending(f) => now < call[f].asked + FetchTime
  BY DEF Elapse, Tick, Busy, Last
<1>2. refreshInterval(i)' = refreshInterval(i) /\ Limit(i)' = Limit(i)
  BY <1>1 DEF refreshInterval, Limit, AnsweredAt, Source
<1>3. /\ now \in Nat /\ client[i].due \in Nat /\ FetchTime \in Nat
      /\ refreshInterval(i) \in Nat
  BY ClientFields, IntervalNat, IntervalAssumption
<1>4. ASSUME client[i].loop = "refreshing" PROVE now + 1 <= call[l].asked + FetchTime
  <2>1. l \in Calls /\ Made(l) /\ call[l].stage = "waiting"
    BY <1>1, <1>4, RefreshCall DEF LoopInv, Busy, Refreshing
  <2>2. Source(l) \in Calls /\ Pending(Source(l)) /\ call[Source(l)].asked <= call[l].asked
    BY <2>1 DEF IInv, MadeInv, SourceInv, TimeInv, ServedInv
  <2>3. now < call[Source(l)].asked + FetchTime
    BY <1>1, <2>2
  <2>4. call[l].asked \in Nat /\ call[Source(l)].asked \in Nat
    BY <2>1, <2>2, NatTimes DEF IInv
  <2>5. QED
    BY <1>3, <2>2, <2>3, <2>4
<1>5. client[i].loop = "armed" =>
         now + 1 <= client[i].due /\ client[i].due <= now + 1 + refreshInterval(i)
  <2>1. client[i].loop = "armed" => client[i].due <= now + refreshInterval(i)
    BY DEF LoopInv
  <2>2. QED
    BY <1>1, <1>3, <2>1
<1>6. QED
  BY <1>1, <1>2, <1>4, <1>5 DEF LoopInv, Busy, Refreshing, Made, Resolved

-----------------------------------------------------------------------------
(* The invariant and the theorems *)

\* At first no client has been started.
LEMMA ClientsInit == InitClients => IInv /\ ClientInv
<1> SUFFICES ASSUME InitClients PROVE IInv /\ ClientInv
  OBVIOUS
<1>1. IInv
  BY InitHolds DEF InitClients
<1>2. TimeInv
  BY DEF InitClients, Init, TimeInv, ServedInv, EndedInv, Made, Resolved
<1>3. client = [i \in Clients |-> [loop |-> "stopped", manual |-> FALSE, n |-> 0,
                                  csdsDomains |-> None, due |-> 0, skipped |-> 0]]
  BY DEF InitClients
<1>4. TypeOK_Clients
  <2>1. 0 \in 0..MaxRefreshes
    BY CallsAssumption
  <2>2. client \in [Clients -> ClientType]
    BY <1>3, <2>1 DEF ClientType
  <2>3. \A i \in Clients : client[i].loop = "stopped"
    BY <1>3
  <2>4. QED
    BY <1>1, <2>2, <2>3 DEF InitClients, TypeOK_Clients, IInv
<1>5. \A i \in Clients : LoopInv(i)
  BY <1>3 DEF LoopInv, Busy, Refreshing
<1>6. QED
  BY <1>1, <1>2, <1>4, <1>5 DEF ClientInv

\* Every step keeps the invariant.
LEMMA ClientsStep == IInv /\ ClientInv /\ [NextClients]_allVars => IInv' /\ ClientInv'
<1> SUFFICES ASSUME IInv, ClientInv, [NextClients]_allVars PROVE IInv' /\ ClientInv'
  OBVIOUS
<1>1. TypeOK_Clients /\ TimeInv /\ \A i \in Clients : LoopInv(i)
  BY DEF ClientInv
<1>2. [Next]_vars
  BY <1>1, UsesStep
<1>3. IInv' /\ TimeInv'
  BY <1>1, <1>2, StepHolds, TimeKept
<1>4. TypeOK_Clients'
  <2>1. \A i \in Clients : Refreshed(i) \/ ManualRefreshed(i) => client[i].n # 0
    BY <1>1, Begun
  <2>2. TypeOK'
    BY <1>3 DEF IInv
  <2>3. QED
    BY <1>1, <2>1, <2>2, ClientTypes
<1>5. ASSUME NEW i \in Clients PROVE LoopInv(i)'
  <2>1. ASSUME client'[i] = client[i], UNCHANGED <<config, now>> PROVE LoopInv(i)'
    BY <1>1, <1>2, <2>1, LoopSame
  <2>2. ASSUME NEW j \in Clients, onRefresh(j) PROVE LoopInv(i)'
    <3>1. CASE i = j
      BY <1>1, <2>2, <3>1, LoopBegins
    <3>2. CASE i # j
      <4>1. client'[i] = client[i] /\ UNCHANGED config
        BY <1>1, <2>2, <3>2, RefreshShape, AsksShape
      <4>2. UNCHANGED now
        BY <2>2 DEF onRefresh, Asks, Resolve
      <4>3. QED
        BY <2>1, <4>1, <4>2
    <3>3. QED
      BY <3>1, <3>2
  <2>3. ASSUME NEW j \in Clients, Refreshed(j) PROVE LoopInv(i)'
    <3>1. CASE i = j
      BY <1>1, <2>3, <3>1, LoopTakes
    <3>2. CASE i # j
      <4>1. client[j].n # 0
        BY <1>1, <2>3, Begun
      <4>2. client'[i] = client[i] /\ UNCHANGED <<config, now>>
        BY <1>1, <2>3, <3>2, <4>1, RefreshedShape DEF vars
      <4>3. QED
        BY <2>1, <4>2
    <3>3. QED
      BY <3>1, <3>2
  <2>4. ASSUME NEW j \in Clients, RefreshFailed(j) \/ ManualFailed(j) PROVE LoopInv(i)'
    <3>1. CASE i = j
      BY <1>1, <2>4, <3>1, LoopFails
    <3>2. CASE i # j
      <4>1. client'[i] = client[i] /\ UNCHANGED <<config, now>>
        BY <1>1, <2>4, <3>2, FailedShape DEF vars
      <4>2. QED
        BY <2>1, <4>1
    <3>3. QED
      BY <3>1, <3>2
  <2>10. ASSUME NEW j \in Clients, refresh(j) PROVE LoopInv(i)'
    <3>1. CASE i = j
      BY <1>1, <1>3, <2>10, <3>1, LoopManual
    <3>2. CASE i # j
      <4>1. client'[i] = client[i] /\ UNCHANGED config
        BY <1>1, <2>10, <3>2, ManualShape, AsksShape
      <4>2. UNCHANGED now
        BY <2>10 DEF refresh, Asks, Resolve
      <4>3. QED
        BY <2>1, <4>1, <4>2
    <3>3. QED
      BY <3>1, <3>2
  <2>11. ASSUME NEW j \in Clients, RefreshSkipped(j) PROVE LoopInv(i)'
    <3>1. CASE i = j
      BY <1>1, <2>11, <3>1, LoopSkips
    <3>2. CASE i # j
      <4>1. client'[i] = client[i] /\ UNCHANGED <<config, now>>
        BY <1>1, <2>11, <3>2, SkippedShape DEF vars
      <4>2. QED
        BY <2>1, <4>1
    <3>3. QED
      BY <3>1, <3>2
  <2>12. ASSUME NEW j \in Clients, ManualRefreshed(j) PROVE LoopInv(i)'
    <3>1. CASE i = j
      BY <1>1, <2>12, <3>1, LoopTakesManual
    <3>2. CASE i # j
      <4>1. client[j].n # 0
        BY <1>1, <2>12, Begun
      <4>2. client'[i] = client[i] /\ UNCHANGED <<config, now>>
        BY <1>1, <2>12, <3>2, <4>1, ManualRefreshedShape DEF vars
      <4>3. QED
        BY <2>1, <4>2
    <3>3. QED
      BY <3>1, <3>2
  <2>5. ASSUME NEW c \in Calls, NEW base, NEW service, Ask(c, base, service) PROVE LoopInv(i)'
    BY <2>1, <2>5 DEF Ask, Resolve
  <2>6. ASSUME NEW f \in Calls, NEW status \in Statuses, Respond(f, status) PROVE LoopInv(i)'
    BY <2>1, <2>6 DEF Respond, Answered
  <2>7. CASE Elapse
    BY <1>1, <2>7, LoopWaits
  <2>8. CASE UNCHANGED allVars
    BY <2>1, <2>8 DEF allVars, vars
  <2>9. QED
    BY <2>2, <2>3, <2>4, <2>5, <2>6, <2>7, <2>8, <2>10, <2>11, <2>12 DEF NextClients
<1>6. QED
  BY <1>1, <1>3, <1>4, <1>5 DEF ClientInv

\* Clients that refresh, and any other users, use the resolver as it is meant: what is
\* proved of it holds whenever it is shared by clients.
THEOREM ClientsUseResolver == SpecClients => Spec
<1>1. InitClients => Init
  BY DEF InitClients
<1>2. IInv /\ ClientInv /\ [NextClients]_allVars => [Next]_vars
  BY UsesStep DEF ClientInv
<1>3. QED
  BY <1>1, <1>2, ClientsInit, ClientsStep, PTL DEF SpecClients, Spec

\* The invariant of clients that share a resolver.
THEOREM ClientInvHolds == SpecClients => [](IInv /\ ClientInv)
BY ClientsInit, ClientsStep, PTL DEF SpecClients

\* The types: a client that has been started holds domains, those of a refresh.
THEOREM ClientsTypeCorrect == SpecClients => []TypeOK_Clients
<1>1. ClientInv => TypeOK_Clients
  BY DEF ClientInv
<1>2. QED
  BY <1>1, ClientInvHolds, PTL

\* With a cache that keeps anything, a client whose loop runs holds no domains that are
\* older than the cache, its interval and a request may make them together.
THEOREM DomainsFreshHolds ==
    ASSUME MaxAge # 0
    PROVE  SpecClients => []DomainsFresh
<1>1. IInv /\ ClientInv => DomainsFresh
  <2> SUFFICES ASSUME IInv, ClientInv, NEW i \in Clients,
                      client[i].loop \in {"armed", "refreshing"}, client[i].csdsDomains # None
               PROVE  now < Limit(i) + FetchTime
    BY DEF DomainsFresh, Limit, AnsweredAt, Source
  <2> DEFINE l == <<i, client[i].n>>
  <2>1. TypeOK_Clients /\ LoopInv(i) /\ TypeOK
    BY DEF ClientInv, IInv
  <2>2. client[i].csdsDomains \in Calls /\ Resolved(client[i].csdsDomains)
    BY <2>1, ClientFields DEF LoopInv
  <2>3. Source(client[i].csdsDomains) \in Calls
    BY <2>2 DEF IInv, MadeInv, Made, Resolved
  <2>4. now \in Nat /\ FetchTime \in Nat /\ client[i].due \in Nat /\ Limit(i) \in Nat
    <3>1. /\ AnsweredAt(client[i].csdsDomains) \in Nat /\ MaxAge \in Nat
          /\ refreshInterval(i) \in Nat /\ client[i].skipped \in Nat
      BY <2>1, <2>3, NatTimes, IntervalNat, ClientFields, AgeAssumption DEF AnsweredAt
    <3>2. client[i].skipped * refreshInterval(i) \in Nat
      BY <3>1, AddedUp
    <3>3. Limit(i) \in Nat
      BY <3>1, <3>2 DEF Limit
    <3>4. QED
      BY <2>1, <3>3, ClientFields, IntervalAssumption
  <2>5. CASE client[i].loop = "armed"
    <3>1. now <= client[i].due /\ client[i].due < Limit(i)
      BY <2>1, <2>5 DEF LoopInv
    <3>2. QED
      BY <2>4, <3>1
  <2>6. CASE client[i].loop = "refreshing"
    <3>1. l \in Calls
      BY <2>1, <2>6, RefreshCall DEF LoopInv, Busy, Refreshing
    <3>2. call[l].asked \in Nat
      BY <2>1, <3>1, NatTimes
    <3>3. now <= call[l].asked + FetchTime /\ call[l].asked < Limit(i)
      BY <2>1, <2>6 DEF LoopInv
    <3>4. QED
      BY <2>4, <3>2, <3>3
  <2>7. QED
    BY <2>5, <2>6
<1>2. QED
  BY <1>1, ClientInvHolds, PTL
=============================================================================
