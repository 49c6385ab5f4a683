-------------------------- MODULE CsdsResolverProofs --------------------------
(***************************************************************************)
(* Proofs about CsdsResolver, for any calls, accounts, services, ages and    *)
(* times.                                                                   *)
(*                                                                         *)
(* IInv is the inductive invariant: the types; a call that was made waits     *)
(* for, or has ended with, the fetch of a call about the same key, and was      *)
(* made before that aged out; what is cached has not failed; and a fetch that   *)
(* is pending is cached, unless it has aged out or was taken out by the         *)
(* failure of one that had.                                                 *)
(***************************************************************************)
EXTENDS CsdsResolver, TLAPS

Made(c) == call[c].stage # "new"
Source(c) == call[c].of

\* Only a call that was made has a question and a fetch.
MadeInv ==
    \A c \in Calls :
        /\ call[c].stage = "new" => fetch[c].stage = "none"
        /\ Made(c) => /\ call[c].question \in Questions
                      /\ call[c].asked <= now
                      /\ Source(c) \in Calls
        /\ fetch[c].stage # "none" => Source(c) = c
        /\ fetch[c].stage \in {"ok", "failed"} => call[c].asked <= fetch[c].at

\* A call ends as the fetch it waits for, which was made for the same key and had not
\* aged out when the call was made.
SourceInv ==
    \A c \in Calls : Made(c) =>
        /\ fetch[Source(c)].stage # "none"
        /\ call[c].stage = "waiting" => Pending(Source(c))
        /\ Resolved(c) => fetch[Source(c)].stage = "ok"
        /\ call[c].stage = "rejected" => /\ fetch[Source(c)].stage = "failed"
                                         /\ call[c].ended = fetch[Source(c)].at
                                         /\ call[c].asked <= call[c].ended
        /\ SameKey(Source(c), c)
        /\ Source(c) = c \/ call[c].asked < call[Source(c)].asked + MaxAge

\* What is under a key was fetched for it, and has not failed.
CacheInv ==
    \A k \in Keys : cache[k] # None =>
        /\ fetch[cache[k]].stage \in Tries \cup {"ok"}
        /\ cacheKey(call[cache[k]].question) = k

\* A fetch for the key of f had aged out when f was made, and has failed by time t.
TakenOut(f, t) ==
    \E h \in Calls : /\ fetch[h].stage = "failed"
                     /\ SameKey(h, f)
                     /\ call[h].asked + MaxAge <= call[f].asked
                     /\ fetch[h].at <= t

\* A fetch that is pending is cached, has aged out, or was taken out.
PendingInv ==
    \A f \in Calls : Pending(f) =>
        \/ cache[cacheKey(call[f].question)] = f
        \/ call[f].asked + MaxAge <= now
        \/ TakenOut(f, now)

SharedInv ==
    \A f, g \in Calls :
        /\ f # g /\ Pending(f) /\ Pending(g) /\ SameKey(f, g)
        /\ call[f].asked <= call[g].asked
        => call[f].asked + MaxAge <= call[g].asked \/ TakenOut(f, call[g].asked)

IInv == TypeOK /\ MadeInv /\ SourceInv /\ CacheInv /\ PendingInv /\ SharedInv

-----------------------------------------------------------------------------
(* Types *)

LEMMA OutcomeCases == \A status, try : Outcome(status, try) \in {"again", "ok", "error"}
BY DEF Outcome

\* A question is a configuration that is complete, and a service.
LEMMA QuestionType == Questions \subseteq ICsdsServiceConfig
<1> SUFFICES ASSUME NEW base \in ICsdsConfigBase, NEW service \in Services \cup {None}
             PROVE  Question(base, service) \in ICsdsServiceConfig
  BY DEF Questions
<1>1. DefaultCsdsConfig(base) \in ICsdsConfig
  BY DEF DefaultCsdsConfig, ICsdsConfig, ICsdsConfigBase, getCsdsDomain
<1>2. QED
  BY <1>1 DEF Question, ICsdsServiceConfig

\* A question of which the promise is cached is served by it.
LEMMA HitShape ==
    ASSUME TypeOK, NEW c \in Calls, NEW q \in Questions, Resolve(c, q), Cached(cacheKey(q))
    PROVE  /\ call[c].stage = "new"
           /\ cache[cacheKey(q)] \in Calls
           /\ call[cache[cacheKey(q)]].asked + MaxAge > now
           /\ UNCHANGED <<now, cache, fetch>>
           /\ \E stage \in {"waiting", "resolved", "rejected"} :
                 /\ Serve(c, q, cache[cacheKey(q)], stage)
                 /\ fetch[cache[cacheKey(q)]].stage = "ok" <=> stage = "resolved"
                 /\ fetch[cache[cacheKey(q)]].stage = "failed" <=> stage = "rejected"
<1>1. cacheKey(q) \in Keys
  BY DEF Keys
<1>2. cache[cacheKey(q)] \in Calls
  BY <1>1 DEF TypeOK, Cached
<1>3. now \in Nat /\ call[cache[cacheKey(q)]].asked \in Nat
  BY <1>2 DEF TypeOK, Times, CallType
<1>4. call[cache[cacheKey(q)]].asked + MaxAge > now
  BY <1>3, AgeAssumption DEF Cached
<1>5. QED
  BY <1>2, <1>4 DEF Resolve

LEMMA MissShape ==
    ASSUME NEW c \in Calls, NEW q \in Questions, Resolve(c, q), ~Cached(cacheKey(q))
    PROVE  /\ call[c].stage = "new"
           /\ Serve(c, q, c, "waiting")
           /\ Remember(c, cacheKey(q))
           /\ fetch' = [fetch EXCEPT ![c].stage = "first"]
           /\ UNCHANGED now
BY DEF Resolve

LEMMA AnswerShape ==
    ASSUME NEW f \in Calls, NEW status \in Statuses, Answered(f, status)
    PROVE  /\ Pending(f)
           /\ UNCHANGED now
           /\ Outcome(status, fetch[f].stage) = "again"
                  => /\ fetch' = [fetch EXCEPT ![f].stage = "second"]
                     /\ UNCHANGED <<cache, call>>
           /\ Outcome(status, fetch[f].stage) = "ok"
                  => /\ fetch' = [fetch EXCEPT ![f] = [stage |-> "ok", at |-> now]]
                     /\ Settle(f, "resolved")
                     /\ UNCHANGED cache
           /\ Outcome(status, fetch[f].stage) = "error"
                  => /\ fetch' = [fetch EXCEPT ![f] = [stage |-> "failed", at |-> now]]
                     /\ Settle(f, "rejected")
                     /\ Forget(f)
BY DEF Answered

\* A call that is served has the type of a call.
LEMMA ServeType ==
    ASSUME TypeOK, NEW c \in Calls, NEW q \in Questions, NEW f \in Calls,
           NEW stage \in {"waiting", "resolved", "rejected"}, Serve(c, q, f, stage)
    PROVE  call' \in [Calls -> CallType]
<1>1. now \in Times /\ 0 \in Times
  BY AgeAssumption DEF TypeOK, Times
<1>2. q \in ICsdsServiceConfig
  BY QuestionType
<1> DEFINE new == [stage |-> stage, question |-> q, asked |-> now,
                   ended |-> IF stage = "waiting" THEN 0 ELSE now, of |-> f]
<1>3. new \in CallType
  BY <1>1, <1>2 DEF CallType
<1> HIDE DEF new
<1>4. call' = [call EXCEPT ![c] = new]
  BY DEF Serve, new
<1>5. QED
  BY <1>3, <1>4 DEF TypeOK

LEMMA SettleType ==
    ASSUME TypeOK, NEW f \in Calls, NEW stage \in {"resolved", "rejected"}, Settle(f, stage)
    PROVE  call' \in [Calls -> CallType]
<1>1. ASSUME NEW c \in Calls PROVE [call[c] EXCEPT !.stage = stage, !.ended = now] \in CallType
  BY DEF TypeOK, CallType
<1>2. QED
  BY <1>1 DEF Settle, TypeOK

\* A step keeps the types.
LEMMA TypeStep == TypeOK /\ [Next]_vars => TypeOK'
<1> SUFFICES ASSUME TypeOK, [Next]_vars PROVE TypeOK'
  OBVIOUS
<1> USE DEF TypeOK
<1>1. ASSUME NEW c \in Calls, NEW q \in Questions, Resolve(c, q), Cached(cacheKey(q))
      PROVE  TypeOK'
  <2>1. now' = now /\ cache' = cache /\ fetch' = fetch
    BY <1>1, HitShape
  <2>2. call' \in [Calls -> CallType]
    BY <1>1, HitShape, ServeType
  <2>3. QED
    BY <2>1, <2>2
<1>2. ASSUME NEW c \in Calls, NEW q \in Questions, Resolve(c, q), ~Cached(cacheKey(q))
      PROVE  TypeOK'
  <2>1. now' = now /\ cache' \in [Keys -> Calls \cup {None}]
    BY <1>2, MissShape DEF Remember
  <2>2. call' \in [Calls -> CallType]
    BY <1>2, MissShape, ServeType
  <2>3. fetch' \in [Calls -> FetchType]
    BY <1>2, MissShape DEF FetchType, Tries
  <2>4. QED
    BY <2>1, <2>2, <2>3
<1>3. ASSUME NEW f \in Calls, NEW status \in Statuses, Answered(f, status),
             Outcome(status, fetch[f].stage) = "again"
      PROVE  TypeOK'
  <2>1. now' = now /\ cache' = cache /\ call' = call
    BY <1>3, AnswerShape
  <2>2. fetch' \in [Calls -> FetchType]
    BY <1>3, AnswerShape DEF FetchType, Tries
  <2>3. QED
    BY <2>1, <2>2
<1>4. ASSUME NEW f \in Calls, NEW status \in Statuses, Answered(f, status),
             Outcome(status, fetch[f].stage) = "ok"
      PROVE  TypeOK'
  <2>1. now' = now /\ cache' = cache /\ call' \in [Calls -> CallType]
    BY <1>4, AnswerShape, SettleType
  <2>2. fetch' \in [Calls -> FetchType]
    BY <1>4, AnswerShape DEF FetchType
  <2>3. QED
    BY <2>1, <2>2
<1>5. ASSUME NEW f \in Calls, NEW status \in Statuses, Answered(f, status),
             Outcome(status, fetch[f].stage) = "error"
      PROVE  TypeOK'
  <2>1. now' = now /\ call' \in [Calls -> CallType]
    BY <1>5, AnswerShape, SettleType
  <2>2. fetch' \in [Calls -> FetchType]
    BY <1>5, AnswerShape DEF FetchType
  <2>3. cache' \in [Keys -> Calls \cup {None}]
    BY <1>5, AnswerShape DEF Forget
  <2>4. QED
    BY <2>1, <2>2, <2>3
<1>6. ASSUME Tick
      PROVE  TypeOK'
  <2>1. now' \in Times
    BY <1>6, AgeAssumption DEF Tick, Times
  <2>2. QED
    BY <1>6, <2>1 DEF Tick
<1>7. CASE UNCHANGED vars
  BY <1>7 DEF vars
<1>8. QED
  BY <1>1, <1>2, <1>3, <1>4, <1>5, <1>6, <1>7, OutcomeCases DEF Next

-----------------------------------------------------------------------------
(* What a step does to each call *)

LEMMA ServePoint ==
    ASSUME TypeOK, NEW c \in Calls, NEW q, NEW f, NEW stage, Serve(c, q, f, stage)
    PROVE  /\ \A d \in Calls \ {c} : call'[d] = call[d]
           /\ call'[c].stage = stage /\ call'[c].question = q
           /\ call'[c].asked = now /\ call'[c].of = f
           /\ call'[c].ended = IF stage = "waiting" THEN 0 ELSE now
BY DEF Serve, TypeOK

LEMMA SettlePoint ==
    ASSUME TypeOK, NEW f \in Calls, NEW stage, Settle(f, stage), NEW d \in Calls
    PROVE  /\ call'[d].question = call[d].question
           /\ call'[d].asked = call[d].asked
           /\ call'[d].of = call[d].of
           /\ IF call[d].stage = "waiting" /\ call[d].of = f
              THEN call'[d].stage = stage /\ call'[d].ended = now
              ELSE call'[d].stage = call[d].stage /\ call'[d].ended = call[d].ended
<1>1. call[d] \in CallType
  BY DEF TypeOK
<1>2. CASE call[d].stage = "waiting" /\ call[d].of = f
  <2>1. call'[d] = [call[d] EXCEPT !.stage = stage, !.ended = now]
    BY <1>2 DEF Settle
  <2>2. QED
    BY <1>1, <1>2, <2>1 DEF CallType
<1>3. CASE ~(call[d].stage = "waiting" /\ call[d].of = f)
  <2>1. call'[d] = call[d]
    BY <1>3 DEF Settle
  <2>2. QED
    BY <1>3, <2>1
<1>4. QED
  BY <1>2, <1>3

\* The times of a call and its fetch are numbers.
LEMMA NatTimes ==
    ASSUME TypeOK, NEW d \in Calls
    PROVE  now \in Nat /\ call[d].asked \in Nat /\ call[d].ended \in Nat /\ fetch[d].at \in Nat
BY DEF TypeOK, Times, CallType, FetchType

LEMMA MissPoint ==
    ASSUME TypeOK, NEW c \in Calls, NEW q \in Questions, Resolve(c, q), ~Cached(cacheKey(q))
    PROVE  /\ fetch'[c].stage = "first"
           /\ \A d \in Calls \ {c} : fetch'[d] = fetch[d]
           /\ cache'[cacheKey(q)] = c
           /\ \A k \in Keys \ {cacheKey(q)} : cache'[k] = cache[k]
<1>1. cacheKey(q) \in Keys
  BY DEF Keys
<1>2. QED
  BY <1>1, MissShape DEF TypeOK, FetchType, Remember

LEMMA AnswerPoint ==
    ASSUME TypeOK, NEW f \in Calls, NEW status \in Statuses, Answered(f, status)
    PROVE  /\ \A d \in Calls \ {f} : fetch'[d] = fetch[d]
           /\ Outcome(status, fetch[f].stage) = "again"
                  => fetch'[f].stage = "second" /\ fetch'[f].at = fetch[f].at
           /\ Outcome(status, fetch[f].stage) = "ok"
                  => fetch'[f].stage = "ok" /\ fetch'[f].at = now
           /\ Outcome(status, fetch[f].stage) = "error"
                  => /\ fetch'[f].stage = "failed" /\ fetch'[f].at = now
                     /\ \A k \in Keys : cache'[k] = IF k = cacheKey(call[f].question)
                                                    THEN None ELSE cache[k]
BY AnswerShape, OutcomeCases DEF TypeOK, FetchType, Forget

\* A step keeps what is known of the calls that were made.
LEMMA MadeStep == TypeOK /\ MadeInv /\ [Next]_vars => MadeInv'
<1> SUFFICES ASSUME TypeOK, MadeInv, [Next]_vars PROVE MadeInv'
  OBVIOUS
<1> USE NatTimes DEF MadeInv, Made, Source, Pending, Tries
<1>1. ASSUME NEW c \in Calls, NEW q \in Questions, Resolve(c, q), Cached(cacheKey(q))
      PROVE  MadeInv'
  BY <1>1, HitShape, ServePoint, NatTimes
<1>2. ASSUME NEW c \in Calls, NEW q \in Questions, Resolve(c, q), ~Cached(cacheKey(q))
      PROVE  MadeInv'
  BY <1>2, MissShape, MissPoint, ServePoint, NatTimes
<1>3. ASSUME NEW f \in Calls, NEW status \in Statuses, Answered(f, status),
             Outcome(status, fetch[f].stage) = "again"
      PROVE  MadeInv'
  BY <1>3, AnswerShape, AnswerPoint, NatTimes
<1>4. ASSUME NEW f \in Calls, NEW status \in Statuses, Answered(f, status),
             Outcome(status, fetch[f].stage) = "ok"
      PROVE  MadeInv'
  BY <1>4, AnswerShape, AnswerPoint, SettlePoint, NatTimes
<1>5. ASSUME NEW f \in Calls, NEW status \in Statuses, Answered(f, status),
             Outcome(status, fetch[f].stage) = "error"
      PROVE  MadeInv'
  BY <1>5, AnswerShape, AnswerPoint, SettlePoint, NatTimes
<1>6. ASSUME Tick
      PROVE  MadeInv'
  <2>1. call' = call /\ fetch' = fetch /\ now' = now + 1
    BY <1>6 DEF Tick
  <2>2. \A c \in Calls : call[c].asked <= now => call[c].asked <= now + 1
    BY NatTimes
  <2>3. QED
    BY <2>1, <2>2
<1>7. CASE UNCHANGED vars
  BY <1>7 DEF vars
<1>8. QED
  BY <1>1, <1>2, <1>3, <1>4, <1>5, <1>6, <1>7, OutcomeCases DEF Next

\* A step keeps what is known of the fetch that a call waits for.
LEMMA SourceStep == TypeOK /\ MadeInv /\ SourceInv /\ CacheInv /\ [Next]_vars => SourceInv'
<1> SUFFICES ASSUME TypeOK, MadeInv, SourceInv, CacheInv, [Next]_vars PROVE SourceInv'
  OBVIOUS
<1> USE DEF SourceInv, MadeInv, CacheInv, SameKey, Made, Source, Resolved, Pending, Tries, Keys
<1>1. ASSUME NEW c \in Calls, NEW q \in Questions, Resolve(c, q), Cached(cacheKey(q))
      PROVE  SourceInv'
  <2> DEFINE f == cache[cacheKey(q)]
  <2>1. cacheKey(q) \in Keys /\ f \in Calls /\ f # None /\ f # c
    BY <1>1, HitShape, NoneAssumption
  <2>2. Source(f) = f /\ cacheKey(call[f].question) = cacheKey(q)
    BY <2>1
  <2>3. \A d \in Calls \ {c} : call'[d] = call[d]
    BY <1>1, HitShape, ServePoint
  <2>4. call'[c].question = q /\ call'[c].asked = now /\ call'[c].of = f
    BY <1>1, HitShape, ServePoint
  <2>5. /\ call'[c].stage \in {"waiting", "resolved"}
        /\ call'[c].stage = "waiting" => fetch[f].stage \in Tries
        /\ call'[c].stage = "resolved" => fetch[f].stage = "ok"
        /\ now < call[f].asked + MaxAge
        /\ fetch' = fetch
    <3>1. PICK stage \in {"waiting", "resolved", "rejected"} :
             /\ Serve(c, q, f, stage)
             /\ fetch[f].stage = "ok" <=> stage = "resolved"
             /\ fetch[f].stage = "failed" <=> stage = "rejected"
      BY <1>1, HitShape
    <3>2. now < call[f].asked + MaxAge /\ fetch' = fetch
      BY <1>1, <2>1, HitShape, NatTimes, AgeAssumption
    <3>3. call'[c].stage = stage
      BY <2>1, <3>1, ServePoint
    <3>4. fetch[f].stage \in Tries \cup {"ok"}
      BY <2>1
    <3>5. QED
      BY <3>1, <3>2, <3>3, <3>4
  <2> HIDE DEF f
  <2>6. call[c].stage = "new" /\ fetch[c].stage = "none"
    BY <1>1, HitShape
  <2>7. QED
    BY <2>1, <2>2, <2>3, <2>4, <2>5, <2>6
<1>2. ASSUME NEW c \in Calls, NEW q \in Questions, Resolve(c, q), ~Cached(cacheKey(q))
      PROVE  SourceInv'
  BY <1>2, MissShape, MissPoint, ServePoint, NatTimes
<1>3. ASSUME NEW f \in Calls, NEW status \in Statuses, Answered(f, status),
             Outcome(status, fetch[f].stage) = "again"
      PROVE  SourceInv'
  BY <1>3, AnswerShape, AnswerPoint, NatTimes
<1>4. ASSUME NEW f \in Calls, NEW status \in Statuses, Answered(f, status),
             Outcome(status, fetch[f].stage) = "ok"
      PROVE  SourceInv'
  BY <1>4, AnswerShape, AnswerPoint, SettlePoint, NatTimes
<1>5. ASSUME NEW f \in Calls, NEW status \in Statuses, Answered(f, status),
             Outcome(status, fetch[f].stage) = "error"
      PROVE  SourceInv'
  BY <1>5, AnswerShape, AnswerPoint, SettlePoint, NatTimes
<1>6. ASSUME Tick
      PROVE  SourceInv'
  BY <1>6, NatTimes DEF Tick
<1>7. CASE UNCHANGED vars
  BY <1>7 DEF vars
<1>8. QED
  BY <1>1, <1>2, <1>3, <1>4, <1>5, <1>6, <1>7, OutcomeCases DEF Next

\* A step keeps what is known of the cache.
LEMMA CacheStep == TypeOK /\ MadeInv /\ CacheInv /\ [Next]_vars => CacheInv'
<1> SUFFICES ASSUME TypeOK, MadeInv, CacheInv, [Next]_vars PROVE CacheInv'
  OBVIOUS
<1> USE DEF CacheInv, TypeOK, MadeInv, Made, Source, Pending, Tries, Keys
<1>1. ASSUME NEW c \in Calls, NEW q \in Questions, Resolve(c, q), Cached(cacheKey(q))
      PROVE  CacheInv'
  <2>1. cache' = cache /\ fetch' = fetch /\ fetch[c].stage = "none"
    BY <1>1, HitShape
  <2>2. \A d \in Calls \ {c} : call'[d] = call[d]
    BY <1>1, HitShape, ServePoint
  <2>3. QED
    BY <2>1, <2>2
<1>2. ASSUME NEW c \in Calls, NEW q \in Questions, Resolve(c, q), ~Cached(cacheKey(q))
      PROVE  CacheInv'
  BY <1>2, MissShape, MissPoint, ServePoint, NatTimes
<1>3. ASSUME NEW f \in Calls, NEW status \in Statuses, Answered(f, status),
             Outcome(status, fetch[f].stage) = "again"
      PROVE  CacheInv'
  BY <1>3, AnswerShape, AnswerPoint, NatTimes
<1>4. ASSUME NEW f \in Calls, NEW status \in Statuses, Answered(f, status),
             Outcome(status, fetch[f].stage) = "ok"
      PROVE  CacheInv'
  BY <1>4, AnswerShape, AnswerPoint, SettlePoint, NatTimes
<1>5. ASSUME NEW f \in Calls, NEW status \in Statuses, Answered(f, status),
             Outcome(status, fetch[f].stage) = "error"
      PROVE  CacheInv'
  BY <1>5, AnswerShape, AnswerPoint, SettlePoint, NatTimes
<1>6. ASSUME Tick
      PROVE  CacheInv'
  BY <1>6, NatTimes DEF Tick
<1>7. CASE UNCHANGED vars
  BY <1>7 DEF vars
<1>8. QED
  BY <1>1, <1>2, <1>3, <1>4, <1>5, <1>6, <1>7, OutcomeCases DEF Next

\* A step keeps what is known of the fetches that are pending.
LEMMA PendingStep == TypeOK /\ MadeInv /\ CacheInv /\ PendingInv /\ SharedInv /\ [Next]_vars => PendingInv'
<1> SUFFICES ASSUME TypeOK, MadeInv, CacheInv, PendingInv, SharedInv, [Next]_vars PROVE PendingInv'
  OBVIOUS
<1> USE AgeAssumption DEF PendingInv, MadeInv, SameKey, Made, Source, Pending, Tries, Keys, TakenOut
<1>1. ASSUME NEW c \in Calls, NEW q \in Questions, Resolve(c, q), Cached(cacheKey(q))
      PROVE  PendingInv'
  BY <1>1, HitShape, ServePoint, NatTimes
<1>2. ASSUME NEW c \in Calls, NEW q \in Questions, Resolve(c, q), ~Cached(cacheKey(q))
      PROVE  PendingInv'
  <2>1. /\ call[c].stage = "new" /\ fetch[c].stage = "none" /\ now' = now
        /\ call'[c].question = q /\ call'[c].asked = now
        /\ cache'[cacheKey(q)] = c
        /\ \A k \in Keys \ {cacheKey(q)} : cache'[k] = cache[k]
    BY <1>2, MissShape, MissPoint, ServePoint
  <2>2. \A d \in Calls \ {c} : call'[d] = call[d] /\ fetch'[d] = fetch[d]
    BY <1>2, MissShape, MissPoint, ServePoint
  <2>3. \A d \in Calls : Pending(d) /\ cacheKey(call[d].question) = cacheKey(q)
            => call[d].asked + MaxAge <= now \/ TakenOut(d, now)
    <3>1. SUFFICES ASSUME NEW d \in Calls, Pending(d), cache[cacheKey(q)] = d
                   PROVE  call[d].asked + MaxAge <= now
      BY DEF PendingInv
    <3>2. ~(now < call[d].asked + MaxAge)
      BY <1>2, <3>1, NoneAssumption DEF Cached
    <3>3. QED
      BY <3>2, NatTimes, AgeAssumption
  <2>4. SUFFICES ASSUME NEW f \in Calls, Pending(f)'
                 PROVE  (\/ cache[cacheKey(call[f].question)] = f
                         \/ call[f].asked + MaxAge <= now
                         \/ TakenOut(f, now))'
    OBVIOUS
  <2>5. CASE f = c
    BY <2>1, <2>5
  <2>6. CASE f # c
    <3>1. Pending(f) /\ cacheKey(call[f].question) \in Keys
      BY <2>2, <2>4, <2>6
    <3>2. CASE cache[cacheKey(call[f].question)] = f /\ cacheKey(call[f].question) # cacheKey(q)
      BY <2>1, <2>2, <2>6, <3>1, <3>2
    <3>3. CASE call[f].asked + MaxAge <= now
      BY <2>1, <2>2, <2>6, <3>3
    <3>4. CASE TakenOut(f, now)
      BY <2>1, <2>2, <2>6, <3>4
    <3>5. QED
      BY <2>3, <3>1, <3>2, <3>3, <3>4
  <2>7. QED
    BY <2>5, <2>6
<1>3. ASSUME NEW f \in Calls, NEW status \in Statuses, Answered(f, status),
             Outcome(status, fetch[f].stage) = "again"
      PROVE  PendingInv'
  BY <1>3, AnswerShape, AnswerPoint, NatTimes
<1>4. ASSUME NEW f \in Calls, NEW status \in Statuses, Answered(f, status),
             Outcome(status, fetch[f].stage) = "ok"
      PROVE  PendingInv'
  BY <1>4, AnswerShape, AnswerPoint, SettlePoint, NatTimes
<1>5. ASSUME NEW f \in Calls, NEW status \in Statuses, Answered(f, status),
             Outcome(status, fetch[f].stage) = "error"
      PROVE  PendingInv'
  <2>1. /\ now' = now /\ fetch'[f].stage = "failed" /\ fetch'[f].at = now
        /\ \A d \in Calls \ {f} : fetch'[d] = fetch[d]
        /\ \A k \in Keys : cache'[k] = IF k = cacheKey(call[f].question) THEN None ELSE cache[k]
        /\ Pending(f)
    BY <1>5, AnswerShape, AnswerPoint
  <2>2. \A d \in Calls : call'[d].question = call[d].question /\ call'[d].asked = call[d].asked
    BY <1>5, AnswerShape, SettlePoint
  <2>3. SUFFICES ASSUME NEW g \in Calls, Pending(g)'
                 PROVE  (\/ cache[cacheKey(call[g].question)] = g
                         \/ call[g].asked + MaxAge <= now
                         \/ TakenOut(g, now))'
    OBVIOUS
  <2>4. g # f /\ Pending(g) /\ cacheKey(call[g].question) \in Keys
    BY <2>1, <2>3
  <2>5. CASE cacheKey(call[g].question) # cacheKey(call[f].question) /\ cache[cacheKey(call[g].question)] = g
    BY <2>1, <2>2, <2>4, <2>5
  <2>6. CASE call[g].asked + MaxAge <= now
    BY <2>1, <2>2, <2>6
  <2>7. CASE TakenOut(g, now)
    BY <2>1, <2>2, <2>7
  <2>8. CASE cacheKey(call[g].question) = cacheKey(call[f].question)
    <3>1. call[f].asked <= now /\ call[g].asked <= now
      BY <2>1, <2>4
    <3>2. /\ now \in Nat /\ call[f].asked \in Nat /\ call[g].asked \in Nat
          /\ \A h \in Calls : call[h].asked \in Nat /\ fetch[h].at \in Nat
      BY NatTimes
    <3>3. CASE call[f].asked <= call[g].asked
      <4>1. CASE call[f].asked + MaxAge <= call[g].asked
        BY <2>1, <2>2, <2>8, <4>1, <3>2
      <4>2. CASE TakenOut(f, call[g].asked)
        <5>1. PICK h \in Calls : /\ fetch[h].stage = "failed" /\ SameKey(h, f)
                                 /\ call[h].asked + MaxAge <= call[f].asked
                                 /\ fetch[h].at <= call[g].asked
          BY <4>2
        <5>2. call[h].asked + MaxAge <= call[g].asked /\ fetch[h].at <= now
          BY <3>1, <3>2, <3>3, <5>1
        <5>3. h # f
          BY <2>1, <5>1
        <5>4. QED
          BY <2>1, <2>2, <2>8, <5>1, <5>2, <5>3
      <4>3. QED
        BY <2>1, <2>4, <2>8, <3>3, <4>1, <4>2 DEF SharedInv
    <3>4. CASE call[g].asked <= call[f].asked
      <4>1. CASE call[g].asked + MaxAge <= call[f].asked
        <5>1. call[g].asked + MaxAge <= now
          BY <3>1, <3>2, <4>1
        <5>2. QED
          BY <2>6, <5>1
      <4>2. CASE TakenOut(g, call[f].asked)
        <5>1. TakenOut(g, now)
          BY <3>1, <3>2, <4>2
        <5>2. QED
          BY <2>7, <5>1
      <4>3. QED
        BY <2>1, <2>4, <2>8, <3>4, <4>1, <4>2 DEF SharedInv
    <3>5. QED
      BY <3>2, <3>3, <3>4
  <2>9. QED
    BY <2>4, <2>5, <2>6, <2>7, <2>8
<1>6. ASSUME Tick
      PROVE  PendingInv'
  BY <1>6, NatTimes DEF Tick
<1>7. CASE UNCHANGED vars
  BY <1>7 DEF vars
<1>8. QED
  BY <1>1, <1>2, <1>3, <1>4, <1>5, <1>6, <1>7, OutcomeCases DEF Next

\* A step keeps what is known of two fetches that are pending together.
LEMMA SharedStep == TypeOK /\ MadeInv /\ CacheInv /\ PendingInv /\ SharedInv /\ [Next]_vars => SharedInv'
<1> SUFFICES ASSUME TypeOK, MadeInv, CacheInv, PendingInv, SharedInv, [Next]_vars PROVE SharedInv'
  OBVIOUS
<1> USE AgeAssumption DEF SharedInv, MadeInv, SameKey, Made, Source, Pending, Tries, Keys, TakenOut
<1>1. ASSUME NEW c \in Calls, NEW q \in Questions, Resolve(c, q), Cached(cacheKey(q))
      PROVE  SharedInv'
  BY <1>1, HitShape, ServePoint, NatTimes
<1>2. ASSUME NEW c \in Calls, NEW q \in Questions, Resolve(c, q), ~Cached(cacheKey(q))
      PROVE  SharedInv'
  <2>1. /\ call[c].stage = "new" /\ fetch[c].stage = "none" /\ now' = now
        /\ call'[c].question = q /\ call'[c].asked = now
        /\ cache'[cacheKey(q)] = c
        /\ \A k \in Keys \ {cacheKey(q)} : cache'[k] = cache[k]
    BY <1>2, MissShape, MissPoint, ServePoint
  <2>2. \A d \in Calls \ {c} : call'[d] = call[d] /\ fetch'[d] = fetch[d]
    BY <1>2, MissShape, MissPoint, ServePoint
  <2>3. \A d \in Calls : Pending(d) /\ cacheKey(call[d].question) = cacheKey(q)
            => call[d].asked + MaxAge <= now \/ TakenOut(d, now)
    <3>1. SUFFICES ASSUME NEW d \in Calls, Pending(d), cache[cacheKey(q)] = d
                   PROVE  call[d].asked + MaxAge <= now
      BY DEF PendingInv
    <3>2. ~(now < call[d].asked + MaxAge)
      BY <1>2, <3>1, NoneAssumption DEF Cached
    <3>3. QED
      BY <3>2, NatTimes, AgeAssumption
  <2>4. SUFFICES ASSUME NEW f \in Calls, NEW g \in Calls, f # g,
                        Pending(f)', Pending(g)', SameKey(f, g)',
                        call'[f].asked <= call'[g].asked
                 PROVE  \/ call'[f].asked + MaxAge <= call'[g].asked
                        \/ \E h \in Calls : /\ fetch'[h].stage = "failed"
                                            /\ SameKey(h, f)'
                                            /\ call'[h].asked + MaxAge <= call'[f].asked
                                            /\ fetch'[h].at <= call'[g].asked
    OBVIOUS
  <2>5. /\ now \in Nat
        /\ \A h \in Calls : call[h].asked \in Nat /\ fetch[h].at \in Nat
    BY NatTimes
  <2>6. CASE f # c /\ g # c
    <3>1. call[f].asked + MaxAge <= call[g].asked \/ TakenOut(f, call[g].asked)
      BY <2>2, <2>4, <2>6
    <3>2. QED
      BY <2>1, <2>2, <2>4, <2>6, <3>1
  <2>7. CASE g = c
    <3>1. call[f].asked + MaxAge <= now \/ TakenOut(f, now)
      BY <2>1, <2>2, <2>3, <2>4, <2>7
    <3>2. QED
      BY <2>1, <2>2, <2>4, <2>7, <3>1
  <2>8. CASE f = c
    <3>1. call[g].asked + MaxAge <= now \/ TakenOut(g, now)
      BY <2>1, <2>2, <2>3, <2>4, <2>8
    <3>2. call[g].asked = now
      BY <2>1, <2>2, <2>4, <2>5, <2>8
    <3>3. CASE call[g].asked + MaxAge <= now
      BY <2>1, <2>2, <2>4, <2>8, <3>2, <3>3
    <3>4. CASE TakenOut(g, now)
      BY <2>1, <2>2, <2>4, <2>8, <3>2, <3>4
    <3>5. QED
      BY <3>1, <3>3, <3>4
  <2>9. QED
    BY <2>6, <2>7, <2>8
<1>3. ASSUME NEW f \in Calls, NEW status \in Statuses, Answered(f, status),
             Outcome(status, fetch[f].stage) = "again"
      PROVE  SharedInv'
  BY <1>3, AnswerShape, AnswerPoint, NatTimes
<1>4. ASSUME NEW f \in Calls, NEW status \in Statuses, Answered(f, status),
             Outcome(status, fetch[f].stage) = "ok"
      PROVE  SharedInv'
  BY <1>4, AnswerShape, AnswerPoint, SettlePoint, NatTimes
<1>5. ASSUME NEW f \in Calls, NEW status \in Statuses, Answered(f, status),
             Outcome(status, fetch[f].stage) = "error"
      PROVE  SharedInv'
  BY <1>5, AnswerShape, AnswerPoint, SettlePoint, NatTimes
<1>6. ASSUME Tick
      PROVE  SharedInv'
  BY <1>6, NatTimes DEF Tick
<1>7. CASE UNCHANGED vars
  BY <1>7 DEF vars
<1>8. QED
  BY <1>1, <1>2, <1>3, <1>4, <1>5, <1>6, <1>7, OutcomeCases DEF Next

-----------------------------------------------------------------------------
(* The invariant *)

LEMMA InitHolds == Init => IInv
<1> SUFFICES ASSUME Init PROVE IInv
  OBVIOUS
<1> USE DEF Init
<1>1. TypeOK
  <2>1. 0 \in Times
    BY AgeAssumption DEF Times
  <2>2. QED
    BY <2>1 DEF TypeOK, FetchType, CallType
<1>2. MadeInv /\ SourceInv /\ CacheInv
  BY DEF MadeInv, SourceInv, CacheInv, Made
<1>3. PendingInv /\ SharedInv
  BY DEF PendingInv, SharedInv, Pending, Tries
<1>4. QED
  BY <1>1, <1>2, <1>3 DEF IInv

LEMMA StepHolds == IInv /\ [Next]_vars => IInv'
BY TypeStep, MadeStep, SourceStep, CacheStep, PendingStep, SharedStep DEF IInv

\* The inductive invariant holds in every reachable state.
THEOREM InvariantHolds == Spec => []IInv
BY InitHolds, StepHolds, PTL DEF Spec

\* The types: keys are those of questions, what is cached or waited for is a call.
THEOREM TypeCorrect == Spec => []TypeOK
<1>1. IInv => TypeOK
  BY DEF IInv
<1>2. QED
  BY InvariantHolds, <1>1, PTL

\* No caller is given an answer that was older than MaxAge when it asked.
THEOREM FreshAnswerHolds == Spec => []FreshAnswer
<1>1. IInv => FreshAnswer
  <2> SUFFICES ASSUME IInv, NEW c \in Calls, Resolved(c), Source(c) # c
               PROVE  call[c].asked < fetch[Source(c)].at + MaxAge
    BY DEF FreshAnswer, Source
  <2>1. /\ Source(c) \in Calls
        /\ Source(Source(c)) = Source(c)
        /\ call[c].asked < call[Source(c)].asked + MaxAge
        /\ call[Source(c)].asked <= fetch[Source(c)].at
    BY DEF IInv, MadeInv, SourceInv, Resolved, Made
  <2>2. /\ call[c].asked \in Nat
        /\ call[Source(c)].asked \in Nat /\ fetch[Source(c)].at \in Nat
    BY <2>1, NatTimes DEF IInv
  <2>3. QED
    BY <2>1, <2>2, AgeAssumption
<1>2. QED
  BY InvariantHolds, <1>1, PTL

\* No caller is served a failure that lies in the past.
THEOREM FailureNotServedHolds == Spec => []FailureNotServed
<1>1. IInv => FailureNotServed
  <2> SUFFICES ASSUME IInv, NEW c \in Calls, call[c].stage = "rejected"
               PROVE  call[c].ended > call[c].asked \/ fetch[call[c].of].at = call[c].asked
    BY DEF FailureNotServed
  <2>1. call[c].ended = fetch[call[c].of].at /\ call[c].asked <= call[c].ended
    BY DEF IInv, SourceInv, Made, Source
  <2>2. call[c].asked \in Nat /\ call[c].ended \in Nat
    BY NatTimes DEF IInv
  <2>3. QED
    BY <2>1, <2>2
<1>2. QED
  BY InvariantHolds, <1>1, PTL

\* Calls for one key that are not a MaxAge apart share one request, but for those that
\* come after the failure of a request that had aged out.
THEOREM RequestsSharedHolds == Spec => []RequestsShared
<1>1. IInv => RequestsShared
  BY DEF IInv, SharedInv, TakenOut, RequestsShared
<1>2. QED
  BY InvariantHolds, <1>1, PTL
=============================================================================
