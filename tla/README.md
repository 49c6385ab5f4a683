# A TLA+ model of lp-clients

lp-clients is a set of TypeScript packages for talking to the LivePerson/LiveEngage APIs from
Node.js. A user builds a client out of a resolver, a session provider and a transport, calls
`start()`, sends requests, receives notifications, and calls `stop()`. Everything runs on one
event loop, so there are no data races; what is hard is what happens *between* two turns of that
loop: at every `await`, timer and event another call may come first, and a call that failed
leaves behind whatever it had done.

Paths below are relative to `packages/` in the repository.

## 1. Inventory

| component | state | operations | talks to |
|---|---|---|---|
| `csds-client` `CsdsClient` | state machine, domains, handle of the refresh timer | `start`, `stop`, `refresh`, periodic refresh, `domains` | a resolver; its subclasses' hooks |
| `le-client` `LeClient` | session | hooks `onStart`, `onStop`, `onRefresh`; `credentials`, `authenticatedRequest` | a session provider |
| `transport-client` `TransportClient` | none of its own | hooks `onStart`, `onStop`; `sendMessage`, `onMessage`, `onError` | a transport, the resolver |
| `ums-client` `UmsClient` | listeners by request id, listeners by notification type | `sendMessage`, `onNotification`, `pendingMessages`; hooks `onStart`, `onStop` | the transport, two `TypedEventEmitter`s |
| `transport-ws` `WsTransport` | socket, sending queue, configuration, drain timer, event listeners | `connect`, `disconnect`, `sendMessage(s)`, queue worker, socket events | libraries `ws` and `async` |
| `csds-caching-resolver` over `csds-simple-resolver` | a cache of promises by key, with an age | `resolve`, `resolveService` | `util-request`; library `mem` |
| `le-agent-session-provider`, `le-consumer-session-provider` | none (but the agent's `login` writes to its argument) | `login`, `refresh`, `logout` | resolver, `util-request`, the login servers |
| `util-request` | none (but it reads the caller's headers object at each try) | `get`, `post`, `request`, with one retry on 503 | library `got` |
| `util-types` | the listeners of an emitter | `on`, `once`, `emit`, `removeAllListeners`, ... | - |
| `ums-generated` | none | the messages of UMS, wrappers that add a method per notification and request | `ums-client` |
| `csds-config` and the `config.ts` of the clients | none | configurations and their defaults | - |
| `transport`, `le-session-provider`, `ums-connection`, `ums-id-generator`, `ums-uuid-generator`, `logger`, `logger-console` | none | interfaces, formatting, logging | - |

The four client classes are one inheritance chain (`UmsClient` < `TransportClient` < `LeClient` <
`CsdsClient`). The public `start`/`stop`/`refresh` fire a transition of a
`javascript-state-machine`; the machine enters its new state at once and then runs the hook
(`onStart`, ...), in which each class calls `super` first. So a hook is a chain of awaited calls
through all four classes, and until it settles the machine accepts no other transition. The state
is *not* rolled back when the hook fails.

### Hard behaviour, and what makes each component correct

* **The lifecycle** (`csds-client`, `le-client`, `transport-client`). The refresh timer can fire
  at any time, also while a hook is waiting; a call can fail at each of the awaits; a resolver's
  answer may come when the client has moved on; `stop()` may be called between the end of a
  periodic refresh and the microtask that requeues it. Correct: hooks never overlap; a client that
  has started is complete until it is stopped; one that has stopped holds nothing; there is one
  refresh task, always, not none and not two; a session is logged out before it is forgotten.
* **Requests** (`ums-client`). A response, a timeout and a transport failure race for each request,
  over stops and restarts, and the loser still acts (the timer is never cleared). Correct: a call ends
  exactly once, with the response to *its* request or an error; listeners are neither leaked nor
  taken from another call.
* **The transport** (`transport-ws`). Sockets and queues the transport has let go of still have
  events and workers, which act on the *current* socket and queue; `connect`, `disconnect`, the
  drain timer and the worker's retries interleave. Correct: nothing written twice, out of order or
  reported sent without being sent; no message forgotten, alone or in a batch; `disconnect()` ends,
  and means what it says; the queue of an open connection moves.
* **Dispatch** (`ums-client`, `ums-generated`). Each start adds a dispatch callback that nothing
  removes, and `stop()` removes none of the user's either; a message that is not JSON throws on the
  way, and nothing catches it; events, types and methods agree only by generation. Correct: a
  callback gets the notifications of its kind that come once it is registered, all of them, in
  order, and of the declared interface.
* **The caching resolver.** Calls share the promise of a pending fetch; a rejection removes its key
  later, and with it perhaps a newer promise; entries expire by age, while a fetch is pending, too;
  the key leaves out the domain and joins names. Correct: an answer is recent; a failure is not
  served again; calls at the same time cause one request.
* **Session providers.** A 503 repeats a request that may not be idempotent, and so does `got` by
  itself when a connection fails; credentials and headers
  are objects that the caller owns and that are written to before, and read after, a wait. Correct:
  what is sent is not what an earlier call has left there; a login makes no more sessions than its
  tries and repeats; no session lost without reason.

`PROJECT.json` lists every hazard at its line, with the properties that cover it.

## 2. Modules

| module | models | builds on |
|---|---|---|
| `StateMachine` | the library behind `CsdsClient.stateMachine`: `Can`, `Fire`, `Settle` | - |
| `ClientLifecycle` | the hooks of `CsdsClient`, `LeClient`, `TransportClient` and the refresh task | `StateMachine` |
| `RequestReply` | *abstract*: what `UmsClient.sendMessage` promises its caller | - |
| `UmsRequests` | `UmsClient`: requests, responses, timeouts, start and stop | `StateMachine`, implements `RequestReply` |
| `UmsMessages` | the messages of `ums-generated`: types, events, wrappers | - |
| `UmsDispatch` | received messages on their way through transport, `UmsClient` and wrappers | `StateMachine`, `UmsMessages` |
| `BufferedTransport` | *abstract*: what the comments of `WsTransport` say of the messages it is given | - |
| `WsTransport` | `WsTransport` with its sockets and queues | implements `BufferedTransport` |
| `UtilRequest` | what `util-request` makes of the answers to a request | - |
| `CsdsResolver` | `CachingCsdsResolver` over `SimpleCsdsResolver`, and the configurations | `UtilRequest` |
| `CsdsRefresh` | running `CsdsClient`s that refresh through one `CsdsResolver` | `CsdsResolver` |
| `LeSessions` | `LeClient`s, their session providers, and the sessions at the servers | `UtilRequest` |
| `ClientLifecycleProofs`, `UmsRequestsProofs`, `UmsDispatchProofs`, `WsTransportProofs`, `CsdsResolverProofs`, `CsdsRefreshProofs`, `LeSessionsProofs` | the theorems | the module they name; `CsdsRefreshProofs` also `CsdsResolverProofs` |
| `MC...` | instances for TLC, and promises of comments that do not hold | the module they name |

Operators called `X_Something` beside `X`, commented *Mutant*, are plausible bugs of the code
(`PROJECT.json`, "mutants"): substituting one for `X` makes a checked property fail. Nothing uses
them otherwise.

**A step** is always one turn of the event loop: the user's call, a timer, or an I/O event or
settled promise, with all the code up to the next `await`. Where a microtask can be overtaken by
user code, it is a step of its own (`Requeue`, `Cleanup`, `ConnectGoesOn`), and `NoMicrotask` in
the guards of timers and I/O says that those wait for it.

### ClientLifecycle

`awaiting[t]` is the call for which the hook of transition `t` waits; `transition` and `state`
are the machine's. A start goes `resolve` (`CsdsClient.onRefresh`), `refreshSession`
(`LeClient.onRefresh`, only if a session is left), then the task is queued, `login`, `service`
(`resolveService`), `connect`; a stop clears task and domains in its first turn, then `logout`
(with a session), `disconnect`. `CallFails(t)` rejects the hook at whichever call it waits for.
The refresh task is kept as the code keeps it: a handle (`refreshTask`), which may name a timer
that has fired; `armed` counts the timers that really are armed, so a timer whose handle was lost
is there and fires (`TimerFires(FALSE)`). `viaTimer` and `requeue` are the task's two further
states: refreshing, and about to requeue. The session is the number of the start that logged in.
`strays`, `last`, `refreshFailed` and `logoutTried` are history, for the properties.

What stays outside: the *values* of domains and tokens, log messages, and how a resolver,
provider or transport answers (each call settles either way; a failing `connect` or `disconnect`
may or may not have closed the connection).

### RequestReply and UmsRequests

`RequestReply` is four actions: a request is submitted, may reach the server, is answered with
its own answer or refused; every pending one ends. `UmsRequests` is the code: `listeners[id]` are
the one-shot listeners of `umsResponseHandler`; a call is `waiting` while its race is open,
`failing` when the race was lost and the `catch` handler is queued; `outbox`/`sending` separate
what the transport may still write from the promises it has not settled (it can reject one and
send the message later). `Timeout` needs no started client: the timers survive `stop()`. So
do the listeners (`StopEnds`): `stop()` calls `removeAllListeners()` without an event, and
`TypedEventEmitter` (`util-types/src/event_emitter.ts:20-22`) hands an explicit undefined on to
Node's `EventEmitter`, which tells by the number of arguments and removes the listeners of an event
named "undefined". `ReuseIds` is the user's side of the contract: ids are never taken twice, or at
will. The refinement maps waiting/failing to pending (`Phase`).

Start and stop are cut down to what this class adds; `ClientLifecycle` has the rest. The
transport is an environment that may deliver, drop, delay or refuse a request, and lose the
connection at any time. TLC checks the refinement without reuse only: with it, a late response
can answer another call with the same id, which the code's comment accepts.

### UmsMessages and UmsDispatch

`UmsMessages` has one constant for each interface, enum and wrapper of the generated file: what
`type` it declares, by which field it belongs to a request, which event and method it goes with.
What else a message carries is left out. `WireType` is what the server writes (external): the
declared type or, where that is any string, the one of the event.

`UmsDispatch` keeps the messages in order from the server (`inTransit`) to the callbacks (`got`),
which are called once for each of the `handlers` that starts have left at the transport. A
message that is not JSON throws in the socket's event handler, which by default ends the process
(`Throws`, `running`); one without a type is dropped. Callbacks stay over `stop()`, like the
listeners of `UmsRequests`. History for the properties: `received`, how many messages had been
received when a callback was registered, which response a request got. Requests are cut down to pending or not; `UmsRequests` has the rest.

### BufferedTransport and WsTransport

`BufferedTransport` is what the comments in `transport-ws` say: messages are buffered while the
socket is down, one that could not be sent goes back to the buffer, and the buffer is flushed when
it is let go of. A promise resolves only with its message sent; a message is dropped with its
promise pending only when the buffer in use changes; what is dropped is not sent. It is weaker than
`ITransport.sendMessage`, whose promise "rejects" if the message is not sent: here a message may be
sent after its promise was rejected, and a promise may stay pending. The code does both, so that
`ITransport`'s contract is not what is refined.

The g-th `connect()` of `WsTransport` makes queue `g` and socket `g`; `ws`, `sendingQueue` and
`conf` say which the transport refers to. Others live on: their events pause, resume and settle
promises of the *current* generation, as in the code. A queue is the part of `async.queue` that
matters here (one worker, `paused`, scheduled `process()` and `drain()`, `kill`); `Runs` is its
`process()`. A worker waits for the socket it was given, with so many looks left, then writes to
the one in use. `refused` is a socket whose handshake was answered with anything but an upgrade.
A `connect()` may throw at the endpoint, with the new configuration and the old queue, or at the
headers or the socket, with a new queue and no socket.
`Usage` is how the user calls `connect()` and `disconnect()`: one at a time, which is how
`TransportClient` calls them; in turn, which is how it calls them as long as no logout fails (a
failed logout skips the disconnect, and the next `start()` connects while connected); or in any
overlap. `sendMessages(k)` sends a batch, which has one promise; the mapping to `BufferedTransport`
takes a batch for one message: held while one of its messages may still be sent, sent when one was,
and else dropped. What lies in a paused queue that is not in use can not be sent any more (`Held`),
but for the message that its worker has taken.

Left out: `heartBeatCheck` (never called), the lengths of intervals, and with them
`adjustConfByConnectionStrategy`, which changes only one.

### UtilRequest, CsdsResolver and CsdsRefresh

`Outcome(status, try)` is `doRequest`: again, ok, or error. In `CsdsResolver` a call of `resolve()`
is served by the fetch of the call whose promise is cached under its key, or makes its own; an
answer is known by the time at which it was given. Names are sequences of their parts, and the key
of a service joins those of account and service, as the code does with an underscore: an account
named like another with its service has the same key. `mem` is external: the promise is stored at once,
served while younger than the maximum age, and its key deleted when it rejects, whichever promise
the key has by then (`Forget`).

`CsdsRefresh` puts `CsdsClient`'s refresh loop on top, with the interval and its default (0 counts
as none), beside users that fill the same cache. The user's own `refresh()` may be under way when
the timer fires, which then skips its run and is set again (`RefreshSkipped`). `ClientLifecycle` has the states of the client;
here is what one that is left running holds. Time advances only when no timer is due and no
continuation waits, and never beyond `FetchTime` after a request was made.

### LeSessions

Clients of either kind (agent, consumer) share one credentials object and one headers object, as
configurations are copied shallowly. A call of a provider waits for the service (`resolving`), then
for its first or second try, which `got` (external) may send up to `GotRetries` times more when no
answer comes; the servers carry a request out or not, each time, and only a 200 says which.
`server` has every session that was made, for whom, by which login. `login` of an agent writes
its account into `credentials` at once and makes the body after the wait (`Body`);
`authenticatedRequest` writes `headers`, which the second try reads again (`got` does not). `meanwhile` is history:
who has written since.

## 3. Runs

Run `tlc -config X.cfg MODULE` with the module and configuration named in `PROJECT.json`.

| run | bounds | shows |
|---|---|---|
| `lifecycle` | 3 starts, user code also in the gap before a requeue, fair | hooks never overlap; a ready client is complete and a stopped one released; one refresh task, plus one stray per stop in the gap; logout before forget; periodic refresh |
| `ums_unique` | 2 calls, 2 ids, 2 starts, fair | own response, every call ends, refinement of `RequestReply` |
| `ums_reuse` | 3 calls (symmetric), 2 ids reused at will, 2 starts | one listener per id, no leaked listener, and none lost to another call, a late timer or a stop |
| `ums_dispatch` | 2 callbacks (symmetric), 2 kinds of notifications, 2 requests, 3 messages, 2 starts | what a callback gets is what it was registered for, complete, in order, from its registration on, over stops and restarts; responses have the promised interface |
| `ws_any` | 2 messages, batches of 1 or 2, 2 connects, 2 disconnects, the default of 1 retry, closing when drained, any overlap, fair | nothing written twice; refinement of `BufferedTransport`; `disconnect()` ends |
| `ws_alternate` | 3 messages, batches of 0 to 2, 2 connects and disconnects in turn, 1 given retry, connections left open, fair | no live socket is left after a disconnect, order on the first connection, the queue moves |
| `csds_cache` | 3 calls (symmetric), 2 accounts and 1 service whose keys collide, 1 given domain or none, times 0 to 3, age 2 | fresh answers; past failures not served; requests shared |
| `csds_refresh` | 1 client with 3 refreshes, by timer or user, 1 other user, times 0 to 6, age 2, intervals of 0, 2 or the default 1, requests of up to 2 | the age of what a client holds |
| `le_sessions` | 2 clients (symmetric) of either kind, 1 request, 2 logins, 5 sessions, 1 repeat by `got` in each try | credentials left by an earlier login are not sent, sessions per login, no session lost, ended sessions are held for good |

**Why the bounds are enough.** Three starts give: a start over the session of a failed stop, and
one more after it, so that a stray refresh task of the first meets the second and third. Two
calls are what a race between calls needs, and three add one that takes an id while two are in
different stages; two starts are what a late timer, response or notification needs, and a second
dispatch callback. Three messages are one between two others. Two connections are what a stale
event needs; two messages are needed for one to be in the worker and one behind it, three for a
requeued one to be overtaken by two; one retry gives both "look again" and "give up". Three calls
of the resolver are a fetch that ages out, a second that replaces it, and, when the first fails and
takes that one out, a third beside the second. Three refreshes give a client an answer that is
replaced, one that is cached twice, and a timer that meets a manual refresh. Two tries with a
repeat each make up to four sessions of one login; a fifth would be one too many. For the
safety properties the proofs lift the bounds.

`WrittenInOrder` says "on the first connection": beyond that it is false of the code (a message
requeued into a later connection's queue goes before what that queue already holds). `FreshAnswer`
speaks of requests under the same key, and not of the caller's own question: two users who write
different domains for an account, or whose names join to one key, share an answer, and no doc
promises otherwise. `LoginIsOwn`, and `RequestIsOwn`, which is only proved, name the races that
remain: a login that another one begins during its wait, a second try after another request with
the same headers. `QueueMoves` is checked with connections left open, see below. `DomainsFresh` is
the sum of the cache's age, the intervals and one request, and the sum is reached; without the
interval for each skipped run it is false.

`CHECK_DEADLOCK FALSE` is given everywhere: a client that is stopped, with its calls used up, does
stop.

**Fairness.** Of the lifecycle: timers fire, microtasks run, every call to the resolver,
provider or transport settles. The last is what the code relies on without a timeout of its own,
and what the web socket transport does not grant (`UnexpectedResponse`). Of the requests: only
timers and microtasks; calls must end even if the transport and the server never do anything.
Of the transport: microtasks, scheduled calls and timers run, a write calls back, a connecting
socket gets an answer or an error, a closing one closes (`ws` has a timeout for it). The user is
never under an obligation, and no connection has to come up. The other modules state no liveness:
`got` has no timeout, so a request need never be answered, and `FetchTime` in `CsdsRefresh` is an
assumption, which is part of what `DomainsFresh` says.

### Runs that end in a violation

Each checks one sentence of a comment or contract that the code does not keep; the quotes are in
`PROJECT.json`, "findings".

| run | what TLC finds |
|---|---|
| `lifecycle_periodic` | one failed periodic refresh is the last one |
| `ums_cleanup` | `stop()` removes no listeners and no callbacks |
| `ws_reconnect` | `connect()` while connected ends without a queue |

The models also contain the following behaviour, which comments contradict but no run singles out:

* A `start()` that fails leaves the client `started`: the getters of domains and session
  (`csds-client/src/client.ts:80`, `le-client/src/client.ts:22`) pass `checkStarted` and return
  undefined (`CallFails`).
* After a restart every notification is handed over twice, since `stop()` leaves the dispatch
  callback of the first start at the transport (`StartEnds`, `handlers`), and to the callbacks of
  the first session as well as to those of the second.
* One message that is not JSON ends the process, unless somebody catches what is uncaught
  (`Throws`).
* A handshake answered with anything but an upgrade leaves `connect()` pending
  (`UnexpectedResponse`).
* The close event of a connection that the drain timer has closed, coming after the next
  `connect()`, pauses the queue of the new connection for good (`Closes`, `Pause`).
* A message reported failed is sent later (`GivesUp`), although `transport/src/transport.ts:37` has
  the promise resolve "in case of successful sending" and `transport-ws/src/config.ts:24` speaks of
  dropping it; the promise of a flushed message never settles (`Flushed`), nor does that of an empty
  batch (`sendNoMessages`); the promise of a batch settles with the first of its messages
  (`Settled`).
* The drain timer closes a connection that is being written to, and a `disconnect()`
  during that close resolves at once (`DrainTimerFires`, `CloseSocket`); messages buffered over a
  lost connection stay in the replaced queue, though `transport-ws/src/transport.ts:52` has them
  flushed on disconnect only (`connect`, `Held`); with overlapping connects a socket opens that is
  not the one in use (`Opens`).

## 4. Proofs

Every safety property that a passing run checks is also a theorem, for every value of the
constants. Each proof module has an inductive invariant (`IInv`, unless another name is given),
which TLC found to hold on the instance of a run before it was proved; one lemma per part of it,
with a step per action; and theorems that follow from it. The assumptions are those that the
modules name: bounds are natural numbers, flags Booleans, `None` is none of the values it stands
beside. A theorem that has another hypothesis is named with it below.

**`ClientLifecycleProofs`**, for every number of starts and whether or not user code may run in the
gap (`InGapCalls`): the seven invariants of the `lifecycle` run and `LogoutBeforeForget`. The parts
of `IInv`:

* `HookInv`: only the pending transition's hook waits, for one of its own calls, and the state is
  the one its transition leads to. Without it nothing prevents, say, a login in a stopped client.
* `StartInv`: what start has set up by the time it waits for a later call. It carries
  `ReadyIsInitialized` through the calls of a start.
* `SessionInv`: a session that survives a failed stop has had its logout, until the next login
  has replaced it. This is `LogoutBeforeForget`.
* `StopInv`: stop disconnects only without a session. With `ReleaseInv` it gives `StopReleases`.
* `LoopInv`: when a client is stopped, starting and not yet past the queueing, or has neither an
  armed timer under its handle nor a task under way, all its refresh tasks are strays. The bound
  `OneRefreshLoop` alone does not say *when* a start may add a task.
* `ScheduleInv`: dually, a start past the queueing, and a ready client, have at least one.

**`UmsRequestsProofs`**, for any sets of calls and ids and any number of starts, ids reused or not:
`TypeOK`, `OneListenerPerId`, `ListenersAreLive`, `ListenerKept`; and, for ids that are never
reused (`~ReuseIds`), `ResponseMatches` and the safety part of the refinement (`RR!Safety`). The parts of `IInv`:

* `CallInv`: a call has an id from when it is sent, and only calls that were sent have traces at
  the transport and the server. Otherwise a response could answer a call that was never made.
* `Single`: two listeners on an id are one; `OneListenerPerId` without the cardinality.
* `KeptInv`: a call that has not ended, one that is about to clean up included, has its listener.
  With `Single` it is alone on its id, so that what the cleanup of a call removes is its own:
  `ListenerKept`.
* `UniqueInv`, without reuse: no two calls have one id. From it a response is known to be one to
  the call it resolves, and steps of the code map to steps of `RequestReply` or to stutters.

**`CsdsResolverProofs`**, for any calls, names of accounts and services, domains, ages and times:
`TypeOK`, `FreshAnswer`, `FailureNotServed`, `RequestsShared`. Nothing is assumed of the keys: they
may collide. The parts of `IInv`:

* `MadeInv`, `SourceInv`: a call that was made waits for, or ended with, a fetch for the same key
  that had not aged out; it ends as that fetch does, at the same time if that was a failure.
* `CacheInv`: what is cached has not failed, and was fetched for the key it is under.
* `PendingInv`: a pending fetch is cached, has aged out, or was taken out by the failure of one
  that had aged out when it began (`TakenOut`). This is why a call that misses can only be beside
  a pending fetch in the two cases that `RequestsShared` names.

**`UmsDispatchProofs`**, for any callbacks, any of the notifications and requests that
`ums-generated` declares, any messages and starts: `TypeOK`, `TypedDelivery`, `DeliversAll`. First
the declarations, as lemmas over all of them: the wire tells one notification from another
(`TypesTell`), a method listens to what is on the wire of its own (`WrappersListen`), the server
takes a request for what it is (`RequestsTell`), nothing else passes for a notification
(`OthersTell`). `TypedDelivery` is those, and these parts of `IInv`:

* `PhaseInv`: while a start is under way there are fewer dispatch callbacks than starts.
* `WireInv`: a message is on its way only after a start has left its dispatch callback, so none is
  received that nobody emits; a response on its way is the one promised to the request it names.
* `ListenInv`: a callback listens to the event of its method from its registration on, for good.
* `DeliverInv`: `DeliversAll` place by place: what a callback was called with, and what it was to
  be. New copies go behind all others, and there are never fewer dispatch callbacks than before.

**`WsTransportProofs`**, for any messages, batches, connects, disconnects, retries and strategies.
Under any overlap of calls: `TypeOK`, `WrittenOnce`, `WrittenInOrder`, and the refinement
`RefinesBuffer`, every step of one message or of a batch being one of `BufferedTransport` or a
stutter.
The parts of `MessageInv`:

* `BatchInv`: messages are sent by the user in the order of their numbers, and only the first of a
  batch has a promise. Otherwise the next batch could be messages that are already queued.
* `Apart`: a message is in one place at most: in one queue, once; with the worker that waits to
  write it; or written. A worker's retry, a requeued task and a task that moves to the queue of a
  later connection each take it out of one place and put it into one other. This is `WrittenOnce`.
* `Known`: what is held or written was sent, what is with a writing worker is written, and a task
  that no longer tells its caller has one that has been told. The refinement needs it: a message
  that a queue forgets is one whose caller was told, or whose queue a disconnect let go of.
* `OrderInv`: as long as there was one connect, what was written, what waits and what is queued are
  in order; a task that gives up was the first, and goes back to the front.

The refinement rests on `FreshInv` besides: a queue that is not made yet is not paused. With it, a
queue that is paused and not in use is frozen: no step takes a message out of it but for the one its
worker has, and none resumes it, so that what the mapping counts as dropped is never sent.

For connects and disconnects in turn (`Usage = "alternate"`; otherwise a connection may have no
queue, as `ws_reconnect` shows) and connections left open (`LEAVE_OPEN`): `DisconnectedIsClosed`,
from `InTurnInv`, by which the socket in use is that of the last connect, or none; and `LeftOpenInv`:
a socket that is not in use is closed, but for one whose close event the pending disconnect awaits.
Both hypotheses are needed: when the drain timer may close, a disconnect during that close resolves
at once (section 3).

**`CsdsRefreshProofs`**, on top of the resolver's invariant: clients that refresh, and users beside
them, take only steps of the resolver's specification (`ClientsUseResolver`), so that its theorems
hold of them; `TypeOK_Clients`; and `DomainsFresh`, if anything is cached at all (`MaxAge # 0`; a
cache that keeps nothing gives an answer of age 0, and then the bound is reached). `ClientInv` is:

* `TimeInv`: a call is served by a fetch that began no later than itself, and ends when that is
  answered, or at once. It is what dates an answer from the time of the call.
* `LoopInv`: a refreshing client has called at most one request ago, and goes on, as the user's
  `refresh()` does, as soon as its call has ended; and its timer, or its call, comes before `Limit`,
  when the answer that it holds is as old as the cache, its interval and the runs that the timer had
  to skip may make it. `DomainsFresh` adds the one request that may be under way.

**`LeSessionsProofs`**, for any clients, kinds, requests, logins and sessions: `TypeOK`,
`LoginIsOwn`, `RequestIsOwn`, `NoSessionLost`, `SessionsPerLogin` and the action property
`StuckForGood`, with any number of repeats by `got`. The parts of `IInv`, beside `NoSessionLost` and
`SessionsPerLogin` themselves:

* `OpInv`: a client waits for a call of its transition; only an agent's that holds a session
  refreshes or logs out. Without it an answer could come to a client that holds nothing.
* `LoginInv`, `RequestInv`: as long as a call waits, the shared credentials and headers have its
  own values, or those of one that has written since. What is sent later follows.
* `HeldInv`: a session that is held was made for its client, which knows it.
* `KeptInv`: an agent's session that outlives a stop has been given up. Only so may the next login
  replace it: `NoSessionLost`.
* `NumberInv`, `MadeInv`: no two logins have one number; a login has made no more sessions than its
  requests were sent in vain (`Sendings`), and its client knows none of them.

The mapping `Phase` of `WsTransport` and `WireType` are written with `IF` where alternatives overlap
(a batch may be both held and sent), since the arms of a `CASE` have no order.

Only model-checked: the liveness properties (`PeriodicRefresh`, `CallsEnd`, `DisconnectEnds`,
`QueueMoves`, the liveness half of `RequestReply`), which are beyond TLAPS; and what the runs
that end in a violation show, which is a counterexample.

## 5. Plan

Done: everything in section 2, and the proofs of section 4. What could follow:

1. `UmsRequests` over `BufferedTransport` in place of its environment: that settles each promise at
   most once and may send a message whose promise it has rejected, which is what `UmsRequests`
   assumes; what is left is to state that as a refinement, and prove it.
2. `DisconnectedIsClosed` without its hypotheses, as a theorem of what is left when a disconnect
   resolves: at most sockets that are closing, as many as drain timers have fired.

## 6. Not modelled

`ums-connection` and `ums-uuid-generator` format strings, `ums-id-generator` makes random numbers (its
contract is `ReuseIds`); `logger` and `logger-console` log. Of `ums-generated`, the interfaces of
parts of messages (attachments, metadata, dialogs) and the script that generates the file; of
`util-types`, the emitter's methods that have no caller. None has state to get wrong.
`examples_outdated` does not build against the current packages. `heartBeatCheck` in
`transport-ws` has no caller. The contents of answers and messages, the lengths of the transport's
intervals, and the configuration objects that it writes an interval into are abstracted; so is that
two clients made from one configuration share its emitters, since no test or doc makes two.
That the Node.js process ends by an uncaught error is in `UmsDispatch` only (`Throws`); what comes
after is not modelled: no package keeps anything.
