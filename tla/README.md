# axum-bootstrap in TLA+

This directory models the parts of axum-bootstrap that decide something over
time: the life of a server from its bind to its return, the connections and
requests it serves, the bounded graceful drain, the signal that starts it, the
renewal of the TLS configuration, the handshake and the idle timer of every
connection, a login session from the token's making to its end, and the example
application with its routes and timers. TLC checks the models on small
instances. TLAPS proves the safety properties for every value of the constants,
that the server implements an abstract promise and the idle timer another one,
that the signal is what the server takes it for, and that the TLS server and the
application are such servers.

Paths below are relative to the repository; `lib.rs` is `src/lib.rs`, and
`PROJECT.json` names the exact lines behind each definition with a `src/` in
front.

## 1. Inventory

### Server lifecycle and accept loops (lib.rs: `Server::run`, `serve_plantext`, `serve_tls`)

- State: the listener, the `GracefulShutdown` handle, the shutdown receiver;
  with TLS also the current `ServerConfig` and the receiver of new ones.
- Operations: bind, accept, survive an accept error, take the shutdown branch
  (which drops the listener), wait for the drain for at most ten seconds,
  return. With TLS also: install a new configuration.
- Interaction: `select!` between the shutdown channel, the configuration
  channel and the listener. `handle_connection` runs inside the loop and spawns
  one task per connection. The connection tasks and the loop share nothing but
  the watch channel of `GracefulShutdown`.
- Hard: what a connection is doing when the signal comes; hung handlers;
  running out of descriptors; what still waits in the listen queue.
- Correct when: the drain waits for exactly the connections that are served, it
  reports a graceful end only when none is left, it ends in any case, only the
  shutdown channel stops the loop, and no waiting client is forgotten.

### Connection task (lib.rs: `handle_connection`; hyper, hyper_util)

- State: hyper's connection (no version yet, HTTP/1 with and without part of a
  request's head, HTTP/2), keep-alive, the requests at work, the receiver of the
  watch channel.
- Operations: negotiate the version, read a head, take a request, answer, lose
  one to a reset or a panic, hand the socket to an upgrade, observe the notice,
  close, time out.
- Hard: the notice meets the connection in every one of these states; a request
  may end alone or with its connection; an upgraded connection leaves the drain.
- Correct when: the notice ends idle connections and handshakes at once, lets
  requests that have begun finish, and reaches every connection.

### Requests and interceptor (lib.rs: `handle`, `ReqInterceptor`)

- `Continue` goes to the router, `Return` and `Error` answer, `Drop` makes the
  service fail: that ends an HTTP/1 connection and resets one HTTP/2 stream. A
  panic, which nothing catches, does the same.
- Correct when: no request is lost to a sibling's end, and to the server itself
  only by a forced end.

### Shutdown signal (lib.rs: `generate_shutdown_receiver`, `wait_signal`)

- A task registers for SIGTERM and Ctrl+C and sends one unit into a broadcast
  channel. If it cannot register it panics, its sender is dropped, and the
  receivers get an error, which the loops take for a shutdown.
- Hard: a signal before the task has run; several or late receivers; a second
  signal during the drain; one registration of two that fails.
- Correct when: a server stops only for a signal of its own channel or a failed
  registration, every server is told, and no later signal kills the process.

### Idle timer (src/util/io.rs: `TimeoutIO`)

- State: one `Sleep`. Every operation that completes moves its deadline, every
  operation that waits polls it, a wait after the deadline is `TimedOut`.
- Hard: one timer for two directions; a deadline moved by one operation while
  another one has registered the waker; nothing is polled, nothing times out.
- Correct when: a connection is cut only after a whole silent interval, a
  waiting task is always going to be woken, and a silent peer is cut.

### TLS configuration (src/util/tls.rs: `tls_config`, `TlsAcceptor`; lib.rs: refresher)

- State: two files on disk, the configuration in use, a channel with one slot.
- Operations: load the certificate and the key, broadcast, lag, install, accept
  with a copy of the configuration.
- Hard: the files change between and during the two reads; a load fails; the
  channel overwrites; the refresher outlives the server.
- Hard too: a chain cut between two PEM blocks loads as a shorter one.
- Correct when: a certificate is never used with another one's key, nothing is
  rolled back, nothing the channel overwrites matters, and a complete new pair
  is served in the end.

### TLS stream (src/util/tls.rs: `TlsStream`)

- State: handshaking, with a future, or streaming, with a session.
- Operations: the first read or write drives the handshake; flush and shutdown
  have nothing to do before it is over.
- Hard: the future must not be polled after it has returned; the last flight may
  carry data; a peer may trickle, or send garbage, or go away; the deadline's
  arithmetic.
- Correct when: nothing panics, no success is reported that did not happen, and
  one interval bounds the whole handshake.

### Login session (src/jwt.rs, examples/jwt.rs, static/index.html)

- State: none at the server but its arguments; the token in the browser's
  cookie, and what is on its way between them.
- Operations: login, logout, `/api/me` behind the middleware, restart.
- Hard: two dates of expiry, one in whole seconds and one not; a leeway; delayed
  and reordered responses; a restart with another user or secret.
- Correct when: a cookie that lives is accepted, none is accepted for ever, and
  a logout removes what a login has set.

### Example application (examples/basic.rs)

- State: the requests with their routes and bodies, and four timers: the drain's
  (10 s), the sleep of `/time` (20 s), `TimeoutLayer`'s (30 s) and the
  connection's (120 s).
- Hard: each timer is set somewhere else; their order decides what a client sees.
- Correct when: the timers nest, every request ends, a forced exit cuts only
  what is too young.

### The rest

| Part | State | Correct when | Here |
|---|---|---|---|
| builder (`new_server`, `with_*`) | the fields of `Server` | each call sets one field and their order does not matter | `BasicApp` |
| `Host` (src/util/extractor.rs) | none | header and authority have the documented precedence | `HostExtractor` |
| JSON helpers (src/util/json.rs) | none | each reads the forms it documents | `Json`, without properties |
| `AppError` (src/error.rs) | none | every error is a 500 response | `BasicApp` |
| Dual-stack listener (src/util/io.rs) | none | I/O only; its success or failure is `Bind`, `BindFails` | outcome only |
| logging (src/init_log), `SocketAddrFormat` | third-party loggers, formatting | - | not modelled |

## 2. Modules

```
Drain           what a server promises                         (abstract)
  ^ implemented by
ServerDrain     the refinement mapping
  | extends
Server          loop, signal, connections, requests            <- ServerProofs
  ^ implemented by                ^ extended by
ShutdownSignal  channels, signal    BasicApp  the example       <- BasicAppProofs
  tasks, system signals               | extends
  <- ShutdownSignalProofs           Json      the JSON helpers

TlsReload       files, refresher, channel, acceptor            <- TlsReloadProofs
  ^ extended by
TlsServer       serve_tls: TlsReload and an instance of Server <- TlsServerProofs

IdleTimer       what the idle timeout promises                 (abstract)
  ^ implemented by TimeoutIO and by Connection
Connection      TlsStream in TimeoutIO under hyper             <- ConnectionProofs
TimeoutIO       the idle timer and the task that polls it      <- TimeoutIOProofs

Session         token, cookie, browser, network, restarts      <- SessionProofs
HostExtractor   which name a handler sees
MCServer, MCTimeoutIO, MCSession   instances for TLC
```

A definition whose comment begins with "Fault:" stands before the definition it
is a broken version of: a dropped reset, a missing `watch`, a swapped order.
Nothing in the specifications uses them. They say what each property is able to
detect, and `PROJECT.json` pairs each property with one of them ("mutants").

### Server

| Variable | In the code |
|---|---|
| `signal` | the broadcast channel of `generate_shutdown_receiver`: not registered yet, registered, a unit sent, sender dropped by the panic |
| `phase` | where the task of `run()` is; `exited` is the end of the runtime after `main` |
| `outcome` | the result of `timeout(GRACEFUL_SHUTDOWN_TIMEOUT, graceful.shutdown())` |
| `conn[c]` | a TCP connection, from the listen queue through hyper's states to the way it ended |
| `watchers` | the receivers made by `graceful.watch` that still exist |
| `told` | the connections whose `GracefulConnectionFuture` has seen the notice |
| `req[c][r]` | a request, on HTTP/2 a stream: in the interceptor, in the router, answered, or ended without an answer: dropped by the interceptor, failed by itself, reset by its client, cut with its connection |

`Accept` is one step although `handle_connection` is `async`: the loop awaits
it, and its only `await` (making the service) never waits. `TakeShutdown` stands
for the shutdown branch, the drop of the listener, and the notice, which follow
each other without an `await` that could wait. `DrainComplete` and
`DrainTimeout` may both be enabled: the last connection can end on another
thread between the two polls inside `timeout`. `Exit` is what `main` of the
examples does; it aborts the tasks that are left.

hyper and hyper_util are outside the repository. Their part (`Negotiate`,
`HeadBegins`, `ObserveDrain`, `FinishH2`, `Request`, `ResetStream`, `Upgrade`,
...) follows the way `handle_connection` puts them together, and is marked
external in the map.

- An HTTP/1 connection is `"head"` when part of a request's head has been read,
  which is how it gets its version, and `"h1"` otherwise. At the notice hyper
  closes an idle one. One with part of a head stays if that is its first request
  and the bytes have come as far as hyper's parser, and the request is served
  after the notice; if it has answered a request before, hyper takes it for idle
  and closes it. The model does not keep the two apart: `ObserveDrain` may do
  either.
- A client may reset one HTTP/2 stream, which drops that stream's future only
  (`ResetStream`).
- `HandlerFails` is a panic of the interceptor or the handler, or a response
  whose body fails. hyper serves an HTTP/1 request inside the connection's own
  task, so a panic unwinds that; an HTTP/2 stream is a task of its own, and only
  the stream ends. What a panic does to a handler that has spawned tasks of its
  own is the application's affair.
- When an HTTP/2 connection ends, its streams count as cut at once, although a
  stream's task may be polled once more, with nobody to hear its answer.
- A failing `accept()` for lack of descriptors changes nothing, so it is a
  stuttering step. The loop's retry without a pause, a busy loop, is not a state.

The loop of `serve_tls` is the same one with one more branch, which touches none
of these variables; `TlsReload` has that branch, and `TlsServer` both.

### Drain and ServerDrain

`Drain` has two variables, the mode of the server and the connections it serves.
It admits while open, stops, and ends either with nothing left to serve or by
force; that it ends is part of the promise. `ServerDrain` maps `phase` and
`outcome` to the mode and `Live` to the served connections. An upgraded
connection is not among them: neither the code's drain nor the promise covers it.

### TlsReload

| Variable | In the code |
|---|---|
| `rotation`, `disk` | the pair the operator installs, and what the two files hold: the server's own certificate (leaf), the rest of its chain, the key; 0 is missing or cut within a PEM block |
| `pc`, `certRead` | the two callers of `tls_config` (the first load, the refresher) between its two reads |
| `phase` | where `serve_tls` is |
| `config` | `TlsAcceptor.config` |
| `last`, `pending` | the slot of `broadcast::channel(1)` and the messages not received |
| `accepted[c]` | the clone that `accept` gave to the connection |

A load reads the certificate file in one step and the key in another, and the
operator moves in between, and in the middle of a file. A certificate file cut
after its leaf loads as a chain without its rest, as `pem_file_iter` yields what
is there; without a leaf, or with half a block, it fails. A mismatched pair
fails, as `with_single_cert` checks that the key belongs to the leaf. A
configuration is the three generations it was built from, so that `PairWhole`
can say which of them agree, and `RotationServed` that the whole of the last one
is served in the end. `rx.recv()` has two actions, `Receive`
and `Lagged`. `RecvError::Closed` has none: the refresher holds the sender in a
loop without end. The refresher is never cancelled, and so can send after
`serve_tls` is gone.

### TlsServer

`serve_tls` as one module. It extends `TlsReload` and takes `Server` as an
instance, with `run` for Server's `phase`, which distinguishes a failure, a
return and an exit where `TlsReload` has `"ended"`; `InStep` says that the two
agree. A step of the one accept loop is a step of both modules: `StartUp` loads
the first configuration and binds, `AcceptTls` gives a connection its clone and
spawns its task, `StopLoop` and `EndDrain` are the shutdown and the return.
`TakeConfig`, `TakeLag`, `Refresh` and `Renew` are TlsReload's alone, and `Alike`
is what a server without TLS does in the same way. The refresher ends with the
process only (`run = "exited"`). What is new are the properties that relate a
connection's life to the configuration it was given.

### IdleTimer

What the user of a connection can tell of its idle timeout: whether it is open,
and how long it has been quiet. The interval begins anew whenever an operation
completes; the connection is cut at its end and not before. `TimeoutIO` and
`Connection` map a history variable to that time, `idle`, which each sets from
what the stream under `TimeoutIO` returns and not from `TimeoutIO`'s own
deadline: a completed operation that fails to move the deadline breaks the
refinement. The two thus agree on the one part of the code, `util/io.rs`, that
each of them models in a detail of its own.

### TimeoutIO

`Poll(op)` is one call of a `poll_*` method: the inner operation completes and
the timer is reset (`Completes`), or it waits and the timer is polled (`Waits`),
or it waits and the timer is over (`TimesOut`). `poll_write` and
`poll_write_vectored` are the same operation here. `left` and `waker` are the
`Sleep`: the ticks to its deadline, and whether it holds the task's waker. The
order of the polls (read, write what there is, flush) and the three states of
the handler are those of hyper's connection; `handler = "full"` is a request
whose body or successor hyper will not read before the handler has made room.
`idle`, `silent` and `stirred` record history for the properties and guard
nothing. Time passes (`Tick`) only while the task is parked and nobody has woken
it: a round of polls is short against the timeout.

### Connection

`Poll(op)` is one poll of the stack: `TlsPoll` is what `TlsStream` does and
returns, `TimedPoll` what `TimeoutIO` makes of it, and the rest what hyper does
with the result. `accept` is the future inside `State::Handshaking`: `Drive`
polls it without success, `Establish` takes the session out of it, polls that
and stores it. Polled after it has returned, the future panics; nothing in
`TlsStream` prevents that, so it is a branch of `Drive`, and so is the empty
success of `NotYet`. That neither branch is ever taken is what `NeverPanics` and
`NoHollowSuccess` say. `inbox` is what the peer has sent: a flight, one with
application data behind it, the middle of a record, garbage, the end. `left` and
`waker` are the `Sleep`; `idle` is history, the time since an operation of the
stream was last Ready. `Unrepresentable` says whether now plus the timeout is
past the last `Instant`; then `Reset` panics, while the `Sleep` of `new` never
ends.

`TimeoutIO` models the same timer around a stream whose operations are not
distinguished further but whose handler and wake-ups are.

### ShutdownSignal

| Variable | In the code |
|---|---|
| `handlers`, `raised` | the signals tokio has taken from the system's default, and those its handler has noted |
| `task[c]`, `pending[c]` | the task spawned for a channel, and what its two streams hold |
| `kept` | channels whose sender the user still has a clone of |
| `sub[r]`, `unit` | a receiver's channel, and the receivers the unit was sent to |
| `srv[r]` | the server that was given the receiver |

The two registrations are two steps, `signal(SignalKind::terminate())` and the
first poll of `ctrl_c()`. An error of the first panics, one of the second is
taken for a key press by the pattern `_`. `View(r)` shows a receiver and its
server as an instance of `Server` without connections: `ImplementsSignal` says
that `ListenForSignal`, `SenderGone`, `SignalArrives` and `TakeShutdown` of
`Server` are all that can be seen of this module, whatever the other channels do.
A user who sends on a sender of his own stops his servers himself; that is not
modelled.

### Session

| Variable | In the code |
|---|---|
| `now` | the clock, in half seconds, so that a fraction of a second can be lost |
| `server` | `AppState` of the running process |
| `jar` | the cookies in the browser |
| `net` | requests and responses on their way, a set: none is before another |
| `lastSet` | history: the last `Set-Cookie` obeyed |

`Restart` starts the program with any user and secret; the server forgets
nothing, because it keeps nothing. `Send` is any request the page may send, at
any time (there may be several tabs). `ClaimsNew` drops the fraction after the
addition, as `timestamp()` does; `Decodes` is `Validation::default()`, a leeway
on `exp`. A logout only removes the cookie; a token copied from it remains valid
until it expires, as there is no list of revoked ones.

### BasicApp and Json

`BasicApp` extends `Server` with the application: `what` is a request's route
and body, `status` its response, and `quiet`, `spent` and `drained` are the
timers, in units of ten seconds. Every action is one of `Server` with a guard
that says which timer is due (`AppIdleTimeout`, `AppDrainTimeout`, `AppAnswer`)
and with what it does to the timers, so that the application implements `Server`
by construction of its actions; `AppIsServer` proves it. `Continue`, `Drop`,
`HandlerFails` and `Upgrade` are not among its steps: it has no interceptor, and
no handler of it panics or upgrades.

`Tick` waits for what is due: the model's timers fire on time. `TimeoutLayer`
polls its timer before the handler, and so does `AppAnswer`: a body that arrives
at the deadline is answered 408. That a silent connection is ended after `Idle`
is taken for given here; `TimeoutIO` and `Connection` show it.

The routes that answer at once are one value of `what`, `"quick"`, as no property
tells them apart, and likewise 404 stands for 405 and 415 and 422 for the 400 and
413 of a body that is no JSON or too long. `Json` says which forms of a JSON
value the helpers read, and `BasicApp` answers `/data` by it. An `Option` is a
sequence of at most one element; a JSON value is null, absent, a string that is
some value's text, an empty one, one that is no text, or a value in JSON's own
form. What a text means is chrono's and serde's business, so no property is about
it, and `empty_string_as_none`, which goes through `FromStr` and which
`DataRequest` does not use, is left out: for a `NaiveDateTime` it would refuse
what `my_date_format` writes.

### HostExtractor

`from_request_parts` over every combination of a present, absent or unreadable
`Host` header and a present or absent authority.

## 3. Runs

| Run | Instance | Question |
|---|---|---|
| `server_safety` | 2 connections, 2 requests each, 2 descriptors, interceptor | do the six safety properties and the type invariant hold in every order of events? |
| `server_liveness` | 3 connections, 1 request, 1 descriptor, no interceptor | does the server return, does the notice reach everyone, does every queued client get an answer, is `Drain` implemented, its liveness included? |
| `tls_server` | 1 connection, 1 request, 2 generations, no interceptor | whatever the connection is doing while the files change: is its pair whole and its own for life, is nothing lost or rolled back, is the last pair served? |
| `timeout_io` | interval of 3 ticks | is it the abstract idle timer, is it never deaf, and does silence end the connection? |
| `timeout_io_doc` | interval of 3 ticks | does "no data in the interval" mean `TimedOut`? No: see below |
| `host_test` | 2 names | does the authority win over the header? No: see below |
| `connection` | 2 flights, interval of 3 ticks, 2 sends in a tick | does the handshake end, in one interval, without a panic or a false success, and is the timer the abstract one? |
| `connection_max` | the same, with a timeout past the last `Instant` | does a ready operation return its result? No: see below |
| `session` | 2 users, 2 secrets, life and leeway of 1 s, 2 messages | are live cookies accepted, dead ones refused, and does a logout log out? |
| `shutdown_signal` | 2 channels, 2 receivers | does a server stop for its own signal and no other, are all told, can the process still be killed, is it what `Server` assumes? |
| `signal_doc` | 1 channel, 1 receiver | is whoever has a receiver notified? No: see below |
| `basic_app` | 1 connection, 2 requests, no interceptor; 10, 20, 30 s and an idle timeout over 30 | do the timers nest, does every request end, what does a forced exit cut? |

`CHECK_DEADLOCK FALSE` is set where the system may stop: a server that has
exited, a closed stream, an extractor that has answered.

Bounds, and why they are enough:

- Connections are slots. When one is over a new client may take it, so two slots
  give any number of clients, at most two of them at a time. Interference between
  connections goes through descriptors and `watchers` only, and two connections
  show it. The theorems cover every finite set of them.
- `Reqs`: two streams let one be dropped, answered or cut while a sibling is at
  work. Three clients compete for one descriptor in `server_liveness`: there one
  connection lives at a time, with two in the queue behind it; two that live
  together are in `server_safety`.
- `tls_server`: `MaxGen = 2` is the first pair and one rotation. The refresher
  sends at every interval, renewed or not, so the channel lags, and overwrites
  what the lagging receiver was going to get, at either generation; the theorems
  hold for any number of rotations. `pending = 2`
  stands for "several", as the receiver does the same for any number. One slot is
  enough for what a renewal does to a connection, as no property here compares
  two; what connections do to each other is in `server_safety`, and the theorems
  hold for every number of both.
- `Timeout = 3`: room for an operation to complete in the middle of an interval,
  before it and at its end.
- `Connection`: two flights of the client, as in TLS 1.3, one of which may arrive
  in pieces. `MaxBurst` bounds what the peer's link carries in a tick; without it
  a peer could stop the clock by sending.
- `Session`: `MaxNow = 7` half seconds are the life, the leeway and the lost
  fraction, and one half second more. With `MaxNet = 2` a login's response and a
  logout's, or a request and the response that makes its token old, are on their
  way together.
- `ShutdownSignal`: two channels are apart, two receivers may share one.
- `BasicApp`: `Idle` is 4 units where the program has 12. What matters is that it
  is over `Layer`; the theorems hold for every value that is. One connection with
  two streams is enough, as connections share no timer but the drain's.
- Symmetry is used in `server_safety` and `session`: slots, users and secrets are
  compared for equality and nothing else, and no liveness is checked there.

Each property's comment says which code it is about. In short:

- `WatchExact`, `GracefulMeansDrained`: the drain waits for what is served, and
  "Gracefully shutdown!" is true.
- `StopsOnlyOnSignal`, `ListenerClosed`: how the loop ends, and what it leaves.
- `NoIdleAfterNotice`, `RequestsLostOnlyTo`: a connection that has seen the
  notice lives on only for work it has begun, which may be a request whose head
  has come in part; that one is still served. A request that its client did not
  reset and that did not panic is cut short only with its whole connection, by
  the client, by the idle timer or by a forced end, never by the orderly part of
  the shutdown.
- `ShutdownCompletes`, `NoticeReachesAll`, `QueuedSettles`, `ImplementsDrain`:
  the server returns; a connection that is alive when the drain begins is gone in
  the end or lives on for work of its own, which needs `graceful.watch` before
  the task is spawned; who waits in the queue gets an answer; all of `Drain`.
- `ServedWhole`, `OnlyNewAffected`: an open connection has a certificate with its
  own key, from its handshake to its end; a renewal reaches new connections only,
  and the first of them.
- `NothingLost`, `NeverOlder`, `RotationServed`: what the one slot overwrites does
  not matter, nothing is rolled back, the last pair is served.
- `ImplementsIdleTimer`, `StaysWatched`, `SilentPeerCut`: silence for a whole
  interval ends a connection and nothing less does, in `TimeoutIO` alone and in
  `Connection` under `TlsStream`.
- `NeverPanics`, `NoHollowSuccess`, `HandshakeBounded`, `HandshakeEnds`: of the
  handshake. A peer that trickles bytes is cut on time, since the handshake is
  one read that waits.
- `NoSpuriousShutdown`, `AllTold`, `SettledNeverKilled`, `ImplementsSignal`. The
  second speaks of servers that start late too: the unit waits for whoever had
  subscribed. The third has two sides: no signal kills a process that is to
  drain, and no second Ctrl+C can shorten the ten seconds.
- `LiveCookieAccepted`, `AcceptedInTime`, `LogoutClears`.
- `TimersNest`, `ForcedExitSpares`, `RequestSettles`. At its own deadline
  `TimeoutLayer` looks at its sleep before the handler, so a body that arrives
  just then is answered with 408 like one that never did.

### Four disagreements

- `timeout_io_doc`: the documentation of `TimeoutIO` says `TimedOut` is returned
  when no data moves in the interval. A flush that has nothing to write is Ready
  and resets the timer too, and hyper flushes whenever its task is polled. A
  handler that wakes its connection now and then keeps it open without a byte
  moving. Whoever relies on the idle timeout to bound a stuck streaming response
  should know this.
- `connection_max`: `with_timeout(Duration::MAX)` looks like "no timeout", and
  the first `Sleep` takes it so. The first operation that completes computes
  `Instant::now() + timeout`, which panics and ends the connection's task.
- `signal_doc`: the receiver of `generate_shutdown_receiver` is documented to be
  notified of SIGTERM and Ctrl+C. The handlers are registered by a task that has
  only been spawned: a signal before its first poll kills the process.
- `host_test`: `Host` prefers the `Host` header; its documentation and its test
  `test_authority_precedence` expect the authority to win.

### Fairness

- `Bind`, `TakeShutdown`, `DrainComplete`, `DrainTimeout`, `ObserveDrain`: weak.
  tokio polls a woken task and fires a timer, and `select!` picks among ready
  branches at random, so a branch that stays ready is taken.
- `Accept`: strong, and assumed, not derived: `QueuedSettles` shows that a free
  descriptor is enough, given that each waiting client has its turn. A
  descriptor may come free and be taken by another client again and again; the
  listen queue is FIFO, so a waiting client is next at some point.
- `TlsServer!TakeConfig`: strong, because the refresher sends once a day and the
  loop comes round many times in between; it cannot overwrite the slot between
  every `TakeLag` and the next `recv()`. `Refresh` and `TakeLag`: weak.
- `TimeoutIO`: the task that was woken runs, and time passes: weak.
- `Connection`: a poll that can be made is made, and time passes, weak.
- `ShutdownSignal`: tokio's driver hands on what was raised, a woken task runs, a
  server takes the unit, weak.
- `BasicApp`: what is due happens, weak; time passes, strong, as it is held up
  again and again by what is due first.
- Nothing is assumed of clients, handlers, interceptors, the signal, the
  operator, or of a peer. Handlers may hang and clients may connect for ever.

## 4. Proofs

`ServerProofs` proves, with no bound on `Conns`, `Reqs` or `MaxFiles`, from the
assumptions declared in `Server` (`Conns` is finite, `MaxFiles` is a positive
number, `Interceptor` is a Boolean):

- `TypeCorrect`: `Spec => []TypeOK`;
- `WatchIsExact`, `GracefulIsDrained`, `OnlySignalStops`, `QueueIsClosed`,
  `NoticeEndsIdle`, `LossHasCause`: the six safety properties of
  `server_safety`;
- `ServerKeepsPromise`: `Spec => Promise!Init /\ [][Promise!Next]_(Promise!vars)`,
  the safety part of the refinement;
- `PromiseIsDrained`, `PromiseIsFinal`: what a program may conclude from the
  promise alone, that a graceful end leaves nothing served and that a stopped
  server never admits again; `NeverReopens` carries the second over.

The properties are not inductive one by one. `GracefulMeansDrained` needs that
the watchers are the live connections (`WatchExact`) and that a request at work
has a live connection (`HandlersHaveConn`), and it has to survive `Exit`.
`RequestsLostOnlyTo` needs that an HTTP/1 connection has one request at a time
(`SerialH1`), because `Answer`, `Drop` and a panic end or release the connection
and would leave a second one behind. `NoIdleAfterNotice` needs that nobody has
seen a notice while the server still serves (`NoNoticeWhileServing`), since
`Accept` and `Connect` put fresh connections into slots. `OutcomeOnReturn` ties
`outcome` to `phase`, which the refinement mapping needs. `IInv` is the
conjunction of `TypeOK`, these strengthenings and the six properties, and
`Invariance` proves it, action by action. The lemmas `LeaveKeeps`,
`RequestKeeps` and `LastRequestKeeps` say once what the ways a connection or a
request ends do to it.

`TlsReloadProofs` proves all the safety of `TlsReload` for every set of
connections and every `MaxGen`: `TypeCorrect`, `PairsAreWhole`, `NothingIsLost`,
`NewestAccepted`, `NoRollback`. The invariant adds `Stages` (until the first
load is over the refresher sleeps and the channel is empty; a message in the
channel has a configuration), `ChainOwn` (a chain, on disk or read, is its
leaf's or is cut short after the leaf, never another generation's) and
`Ordered`: the generation in use is not newer than the one in the channel, that
one not newer than what the refresher holds between its two reads, and none of
them newer than what a later read of the certificate file can yield.
`NoRollback` rests on this order; without the refresher's first sleep it does
not hold.

`TlsServerProofs` proves that `serve_tls` is both of its parts: `TlsIsServer`,
`TlsSpec => Serve!Spec`, and `TlsIsReload`, `TlsSpec => Spec`, step by step. So
all safety theorems of the two hold of it (`TlsServerIsSafe`, `TlsKeepsPromise`,
`TlsNothingIsLost`, `TlsNeverOlder`); the theorems about `Server` are cited
through an instance of `ServerProofs`, whose copies of Server's definitions the
`Same...` lemmas identify with those of the model. What neither part can say
needs a joint invariant: the acceptor has a configuration once the first load is
over (`Configured`), the two views of the loop agree (`InStep`), and no step but
`AcceptTls` opens a connection (`AlikeKeeps`, one case for each way a connection
moves). From it follow `TlsTypeCorrect`, `ServedIsWhole` and
`OnlyNewAreAffected`.

`TimeoutIOProofs` proves `TypeCorrect`, `NeverEarly`, `NeverDeaf` and
`TimerIsKept`, that it implements `IdleTimer`, for every interval. Two facts
carry them. `TimerExact` says that the time since the last completed operation
and the time to the deadline add up to the interval. `ArmedWhileWaiting` says
that in a round of polls, where no time passes, an operation that waits has
armed a timer that is not over, and that an operation completing after it keeps
it so.

`ConnectionProofs` proves the safety of a connection for every timeout, number
of flights and burst, if now plus the timeout can be represented: the four
invariants of the run `connection`, `TimerIsKept`, that it implements
`IdleTimer`, and from that promise alone `InTimeIsSpared`, that whoever was cut
had been quiet for a whole interval. The invariant says that while the handshake
lasts hyper only reads (`proto = "version"`), that the future has returned only
when the task is over or the session is stored, that in a handshake the age of
the connection and the time left add up to the interval, and (`TrueDeadline`)
that at all times the time left and the time since the last completed operation
do. The second is counted apart from the deadline, in a history variable that
only completed operations reset, and it is what the mapping to `IdleTimer`
reads: an operation that completed and did not move the deadline would break the
refinement.

`SessionProofs` proves the four properties of `session` for all users, secrets,
lives and leeways, with an unbounded clock. The invariant dates everything: a
token by its making, a cookie by its receipt, a request by its sending, each not
later than the next. `LiveIsAccepted` then is arithmetic on halves: the second a
token may lose and the delays are within the leeway.

`ShutdownSignalProofs` proves the safety of the signal for all channels and
receivers, and `SignalIsServers`, that each receiver's view is a behaviour of
`Server` without connections. Its invariant says that a receiver has the unit
only if its channel's task is over, that a registered task has its handlers, and
why a task is over.

`BasicAppProofs` proves `AppIsServer`, `AppSpec => Spec`, so that all theorems
of `ServerProofs` hold of the application, `AppKeepsPromise` among them; then
its timers, for all durations with drain < sleep < layer < idle
(`DurationsAssumption`). The invariant says that a connection has never been
silent for longer than any of its requests has been at work, and that time does
not pass over one that can be answered at once (`InTime`), so that
`TimeoutLayer` answers before the idle timer is over; that no time passes in the
drain before every live connection has been told (`ToldInTime`); and what holds
when `run()` has returned. `AppLossHasCause` composes both: of the causes that
`Server` leaves for a request that goes with its connection, the idle timer is
none here. What remains is the client and a forced end.

Every invariant and action property that a run checks is proved, and so is the
safety part of every refinement. Model-checked only: the liveness properties
(`ShutdownCompletes`, `NoticeReachesAll`, `QueuedSettles`, `RotationServed`,
`SilentPeerCut`, `HandshakeEnds`, `AllTold`, `RequestSettles`) and the fairness
part of `ImplementsDrain`, as the prover does not reason about ENABLED. The
violated properties of the four disagreements are TLC's alone, being false.

## 5. Not modelled, and why

- Bytes, headers, the TLS protocol, socket options: I/O and other people's code,
  without decisions of this repository.
- `empty_string_as_none`, and what serde and chrono accept as text: see `Json`
  above.
- Logging, `SocketAddrFormat`, the text of errors: no state.
- `_set_timeout_pinned`, `rust_tls_acceptor`, `_io`, `_connection`: nobody calls
  them.
- `wait_signal` on Windows: Ctrl+C only, and no registration that could fail
  half-way.
- The branch of `examples/basic.rs` with the feature `mysql`: it calls
  `register_shutdown_receiver()` (line 104), which does not exist, so it does not
  compile. Also there: the request counter, which is one atomic increment, the
  HTTP client, which no handler uses, compression and tracing.
- What the login page displays. Its requests are in `Session`; that an answer of
  `/api/me` that is later than a logout's shows the application again is listed
  as a hazard.
- An upgraded connection after the drain, and the refresher after `serve_tls`:
  both are in the models (`Exit` cuts the one, `TlsReload` lets the other go on),
  with no promise to check them against.

## 6. Order of the work

Each module rests on the ones before it: `Server` with `Drain`, `TlsReload`,
`TimeoutIO`, `HostExtractor`, `Connection`, `ShutdownSignal`, `Session`, `Json`,
`BasicApp`, `IdleTimer`, `TlsServer`. What would come next, in this order: what
the login page shows, against `Session`; a user who sends on his own sender; the
mysql branch, once it compiles.
