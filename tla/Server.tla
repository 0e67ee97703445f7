------------------------------- MODULE Server -------------------------------
(***************************************************************************)
(* The life of one Server::run: the task that waits for a signal, the      *)
(* accept loop (serve_plantext, and serve_tls up to its TLS reload, which  *)
(* is module TlsReload), the task spawned for each connection, the request *)
(* handler with its interceptor, and the bounded drain at the end.         *)
(*                                                                         *)
(* hyper and hyper_util drive the connections; what they do is modelled    *)
(* from how lib.rs uses them.  A connection is a slot that a later client  *)
(* may take again once it is over, so clients never run out.               *)
(***************************************************************************)
EXTENDS Naturals, FiniteSets

CONSTANTS
    Conns,        \* connection slots
    Reqs,         \* request slots of a connection (HTTP/2 streams)
    MaxFiles,     \* open sockets the process may have (RLIMIT_NOFILE)
    Interceptor   \* was an interceptor installed by with_interceptor?

ASSUME ConnsAssumption == IsFiniteSet(Conns)
ASSUME MaxFilesAssumption == MaxFiles \in Nat \ {0}
ASSUME InterceptorAssumption == Interceptor \in BOOLEAN

VARIABLES
    signal,    \* the shutdown broadcast channel, as its receiver sees it
    phase,     \* where the task that runs Server::run is
    outcome,   \* how the drain ended
    conn,      \* what became of each connection
    watchers,  \* connections that hold a receiver of the drain's watch channel
    told,      \* connections that have seen the drain's notice
    req        \* what became of each request

ctlVars == <<signal, phase, outcome>>
connVars == <<conn, watchers, told, req>>
vars == <<signal, phase, outcome, conn, watchers, told, req>>

\* Its future is not finished: no version yet, HTTP/1 with part of a request's
\* head read, HTTP/1 otherwise, HTTP/2.
Serving == {"fresh", "head", "h1", "h2"}
Over == {"refused", "clientClosed", "timedOut", "finished", "cancelled",
         "dropped", "failed", "aborted"}
Running == {"intercept", "app"}               \* request states with a handler at work
Settled == {"free", "answered", "dropped", "failed", "reset", "cut"}

Live == {c \in Conns : conn[c] \in Serving}
OpenFiles == {c \in Conns : conn[c] \in Serving \cup {"upgraded"}}
InFlight(c) == {r \in Reqs : req[c][r] \in Running}

TypeOK ==
    /\ signal \in {"starting", "listening", "sent", "dropped"}
    /\ phase \in {"binding", "serving", "draining", "returned", "failed", "exited"}
    /\ outcome \in {"none", "graceful", "forced"}
    /\ conn \in [Conns -> {"none", "queued", "upgraded"} \cup Serving \cup Over]
    /\ watchers \subseteq Conns
    /\ told \subseteq Conns
    /\ req \in [Conns -> [Reqs -> Running \cup Settled]]

Init ==
    /\ signal = "starting"
    /\ phase = "binding"
    /\ outcome = "none"
    /\ conn = [c \in Conns |-> "none"]
    /\ watchers = {}
    /\ told = {}
    /\ req = [c \in Conns |-> [r \in Reqs |-> "free"]]

-----------------------------------------------------------------------------
(* How a connection ends.                                                  *)

\* Fault: the record of a lost request is removed instead of marked.
CutForgets(q) == [r \in {s \in Reqs : q[s] \notin Running} |-> q[r]]

\* A handler is dropped with the connection that carries it; the task of an
\* HTTP/2 stream may be polled once more, but nobody hears its answer.
Cut(q) == [r \in Reqs |-> IF q[r] \in Running THEN "cut" ELSE q[r]]

\* Fault: the receiver outlives the connection's future.
ReleaseHeld(c, why) ==
    /\ conn' = [conn EXCEPT ![c] = why]
    /\ UNCHANGED watchers

\* The future of c is done and drops its receiver of the watch channel.
Release(c, why) ==
    /\ conn' = [conn EXCEPT ![c] = why]
    /\ watchers' = watchers \ {c}

\* The same, with the requests it was serving.
Leave(c, why) ==
    /\ Release(c, why)
    /\ req' = [req EXCEPT ![c] = Cut(req[c])]

-----------------------------------------------------------------------------
(* The signal task, spawned by subscribe_shutdown_sender.                  *)

\* Both signal streams are registered.
ListenForSignal ==
    /\ signal = "starting"
    /\ signal' = "listening"
    /\ UNCHANGED <<phase, outcome, connVars>>

\* The last sender goes: registration fails, the task panics and drops its own;
\* one the user kept may go later, also after a unit this receiver was not there
\* to get.
SenderGone ==
    /\ signal \in {"starting", "listening"}
    /\ signal' = "dropped"
    /\ UNCHANGED <<phase, outcome, connVars>>

\* SIGTERM or Ctrl+C; the unit sent stays in the channel until it is received.
SignalArrives ==
    /\ signal = "listening"
    /\ signal' = "sent"
    /\ UNCHANGED <<phase, outcome, connVars>>

-----------------------------------------------------------------------------
(* The accept loop.                                                        *)

Bind ==
    /\ phase = "binding"
    /\ phase' = "serving"
    /\ UNCHANGED <<signal, outcome, connVars>>

\* The port is taken, or the first TLS configuration cannot be loaded.
BindFails ==
    /\ phase = "binding"
    /\ phase' = "failed"
    /\ UNCHANGED <<signal, outcome, connVars>>

\* The kernel completes the TCP handshake of a client; the connection waits
\* in the listener's queue.
Connect(c) ==
    /\ phase = "serving"
    /\ conn[c] \in {"none"} \cup Over
    /\ conn' = [conn EXCEPT ![c] = "queued"]
    /\ req' = [req EXCEPT ![c] = [r \in Reqs |-> "free"]]
    /\ UNCHANGED <<ctlVars, watchers, told>>

\* Fault: the connection is spawned without graceful.watch.
AcceptUnwatched(c) ==
    /\ phase = "serving"
    /\ conn[c] = "queued"
    /\ Cardinality(OpenFiles) < MaxFiles
    /\ conn' = [conn EXCEPT ![c] = "fresh"]
    /\ UNCHANGED <<ctlVars, watchers, told, req>>

\* accept() and handle_connection, which the loop awaits: the connection is
\* watched before its task is spawned, and the loop cannot turn to the
\* shutdown branch in between.  With no descriptor left accept() keeps
\* failing, which changes nothing: the loop warns and comes round again.
Accept(c) ==
    /\ phase = "serving"
    /\ conn[c] = "queued"
    /\ Cardinality(OpenFiles) < MaxFiles
    /\ conn' = [conn EXCEPT ![c] = "fresh"]
    /\ watchers' = watchers \cup {c}
    /\ UNCHANGED <<ctlVars, told, req>>

\* Fault: an accept error leaves the loop, as a missing `continue` would.
AcceptErrorStops(c) ==
    /\ phase = "serving"
    /\ conn[c] = "queued"
    /\ conn' = [d \in Conns |-> IF conn[d] = "queued" THEN "refused" ELSE conn[d]]
    /\ phase' = "draining"
    /\ UNCHANGED <<signal, outcome, watchers, told, req>>

\* accept() reports an error of the connection itself (ECONNABORTED): it is
\* lost, the loop goes on.
AcceptError(c) ==
    /\ phase = "serving"
    /\ conn[c] = "queued"
    /\ conn' = [conn EXCEPT ![c] = "clientClosed"]
    /\ UNCHANGED <<ctlVars, watchers, told, req>>

\* Fault: the loop ends without dropping the listener.
TakeShutdownListening ==
    /\ phase = "serving"
    /\ signal \in {"sent", "dropped"}
    /\ phase' = "draining"
    /\ UNCHANGED <<signal, outcome, connVars>>

\* shutdown_rx.recv() returns, with a unit or because the sender is gone; both
\* end the loop.  Dropping the listener resets what its queue still holds, and
\* graceful.shutdown() raises the notice.
TakeShutdown ==
    /\ phase = "serving"
    /\ signal \in {"sent", "dropped"}
    /\ phase' = "draining"
    /\ conn' = [c \in Conns |-> IF conn[c] = "queued" THEN "refused" ELSE conn[c]]
    /\ UNCHANGED <<signal, outcome, watchers, told, req>>

\* Fault: the loop returns without waiting for the connections.
DrainCompleteAtOnce ==
    /\ phase = "draining"
    /\ phase' = "returned"
    /\ outcome' = "graceful"
    /\ UNCHANGED <<signal, connVars>>

\* graceful.shutdown() finishes: nobody holds a receiver of its channel.
DrainComplete ==
    /\ phase = "draining"
    /\ watchers = {}
    /\ phase' = "returned"
    /\ outcome' = "graceful"
    /\ UNCHANGED <<signal, connVars>>

\* Fault: graceful.shutdown() awaited without the timeout around it.
DrainNeverTimesOut ==
    /\ phase = "draining"
    /\ watchers = {}
    /\ phase' = "returned"
    /\ outcome' = "forced"
    /\ UNCHANGED <<signal, connVars>>

\* GRACEFUL_SHUTDOWN_TIMEOUT has passed.  The last connection may finish on
\* another thread between the two polls of timeout(), so watchers = {} is not
\* excluded here.
DrainTimeout ==
    /\ phase = "draining"
    /\ phase' = "returned"
    /\ outcome' = "forced"
    /\ UNCHANGED <<signal, connVars>>

\* main returns after run() and the runtime drops every task that is left,
\* the ones of upgraded connections included.
Exit ==
    /\ phase = "returned"
    /\ phase' = "exited"
    /\ conn' = [c \in Conns |-> IF c \in OpenFiles THEN "aborted" ELSE conn[c]]
    /\ watchers' = {}
    /\ req' = [c \in Conns |-> Cut(req[c])]
    /\ UNCHANGED <<signal, outcome, told>>

-----------------------------------------------------------------------------
(* The task of a connection: GracefulConnectionFuture around hyper's        *)
(* connection around TimeoutIO.                                            *)

\* The version is known: the HTTP/2 preface came or something else did, which
\* then is the begin of an HTTP/1 request.  For TLS the handshake, which the
\* first read drives, is part of what comes before.
Negotiate(c, version) ==
    /\ conn[c] = "fresh"
    /\ conn' = [conn EXCEPT ![c] = version]
    /\ UNCHANGED <<ctlVars, watchers, told, req>>

\* The notice wakes a task that holds a receiver; it calls graceful_shutdown()
\* on the connection.  One without a version is cancelled, an idle HTTP/1 one
\* closes, a busy one loses keep-alive, an HTTP/2 one sends GOAWAY.  One that
\* has read part of a head stays for that request if it is its first and the
\* bytes have got as far as hyper's parser, and closes otherwise.
ObserveDrain(c) ==
    /\ phase \in {"draining", "returned"}
    /\ c \in watchers \ told
    /\ told' = told \cup {c}
    /\ \/ conn[c] = "fresh" /\ Leave(c, "cancelled")
       \/ conn[c] = "head" /\ Leave(c, "finished")
       \/ conn[c] = "h1" /\ InFlight(c) = {} /\ Leave(c, "finished")
       \/ conn[c] = "h1" /\ InFlight(c) # {} /\ UNCHANGED <<conn, watchers, req>>
       \/ conn[c] \in {"head", "h2"} /\ UNCHANGED <<conn, watchers, req>>
    /\ UNCHANGED ctlVars

\* All streams are done after GOAWAY.
FinishH2(c) ==
    /\ conn[c] = "h2"
    /\ c \in told
    /\ InFlight(c) = {}
    /\ Leave(c, "finished")
    /\ UNCHANGED <<ctlVars, told>>

\* EOF or a reset from the client, or bytes that are no HTTP.  hyper gives up
\* the handlers at work.
ClientClose(c) ==
    /\ c \in OpenFiles
    /\ Leave(c, "clientClosed")
    /\ UNCHANGED <<ctlVars, told>>

\* TimeoutIO reports TimedOut, which ends the connection; a handler that makes
\* its client wait longer than the idle timeout is lost with it.
IdleTimeout(c) ==
    /\ c \in OpenFiles
    /\ Leave(c, "timedOut")
    /\ UNCHANGED <<ctlVars, told>>

-----------------------------------------------------------------------------
(* Requests: hyper calls handle() for each one.                            *)

\* The next request of an HTTP/1 connection begins to arrive.
HeadBegins(c) ==
    /\ conn[c] = "h1"
    /\ InFlight(c) = {}
    /\ c \notin told
    /\ conn' = [conn EXCEPT ![c] = "head"]
    /\ UNCHANGED <<ctlVars, watchers, told, req>>

\* The head is complete.  HTTP/1 has one request at a time, and after the notice
\* only one whose head had begun before; an HTTP/2 client may open streams
\* until it has seen the final GOAWAY.
Request(c, r) ==
    /\ r \notin InFlight(c)
    /\ conn[c] \in {"head", "h2"}
    /\ conn' = [conn EXCEPT ![c] = IF @ = "head" THEN "h1" ELSE @]
    /\ req' = [req EXCEPT ![c][r] = IF Interceptor THEN "intercept" ELSE "app"]
    /\ UNCHANGED <<ctlVars, watchers, told>>

\* An HTTP/2 client resets one stream (RST_STREAM): hyper drops the future that
\* serves it, and the connection goes on.
ResetStream(c, r) ==
    /\ conn[c] = "h2"
    /\ r \in InFlight(c)
    /\ req' = [req EXCEPT ![c][r] = "reset"]
    /\ UNCHANGED <<ctlVars, conn, watchers, told>>

\* InterceptResult::Continue: the request goes to the router.
Continue(c, r) ==
    /\ req[c][r] = "intercept"
    /\ req' = [req EXCEPT ![c][r] = "app"]
    /\ UNCHANGED <<ctlVars, conn, watchers, told>>

\* Fault: the interceptor's Err closes an HTTP/2 connection with its siblings.
DropClosesAll(c, r) ==
    /\ req[c][r] = "intercept"
    /\ Leave(c, "dropped")
    /\ UNCHANGED <<ctlVars, told>>

\* InterceptResult::Drop: handle() returns Err.  It ends an HTTP/1 connection
\* without a response, on HTTP/2 it resets the one stream.
Drop(c, r) ==
    /\ req[c][r] = "intercept"
    /\ req' = [req EXCEPT ![c][r] = "dropped"]
    /\ IF conn[c] = "h1"
         THEN Release(c, "dropped")
         ELSE UNCHANGED <<conn, watchers>>
    /\ UNCHANGED <<ctlVars, told>>

\* Fault: keep-alive stays on after the notice.
AnswerKeepsAlive(c, r) ==
    /\ r \in InFlight(c)
    /\ req' = [req EXCEPT ![c][r] = "answered"]
    /\ UNCHANGED <<ctlVars, conn, watchers, told>>

\* The response, with its body, is written: the interceptor's Return or Error
\* or the router's.  HTTP/1 closes if keep-alive is off, by the notice or by
\* the client's wish.
Answer(c, r) ==
    /\ r \in InFlight(c)
    /\ req' = [req EXCEPT ![c][r] = "answered"]
    /\ \/ conn[c] = "h1" /\ Release(c, "finished")
       \/ (conn[c] = "h2" \/ c \notin told) /\ UNCHANGED <<conn, watchers>>
    /\ UNCHANGED <<ctlVars, told>>

\* The interceptor or the handler panics, or the response's body fails; nothing
\* catches it.  On HTTP/1 that unwinds or ends the connection's own task, on
\* HTTP/2 the stream has a task of its own and only the stream is reset.
HandlerFails(c, r) ==
    /\ r \in InFlight(c)
    /\ req' = [req EXCEPT ![c][r] = "failed"]
    /\ IF conn[c] = "h1"
         THEN Release(c, "failed")
         ELSE UNCHANGED <<conn, watchers>>
    /\ UNCHANGED <<ctlVars, told>>

\* The handler answers 101: hyper's future is done and hands the socket to the
\* task the handler spawned, which nobody watches.
Upgrade(c, r) ==
    /\ conn[c] = "h1"
    /\ req[c][r] = "app"
    /\ req' = [req EXCEPT ![c][r] = "answered"]
    /\ Release(c, "upgraded")
    /\ UNCHANGED <<ctlVars, told>>

\* The task of an upgraded connection ends by itself.
UpgradedEnds(c) ==
    /\ conn[c] = "upgraded"
    /\ Leave(c, "finished")
    /\ UNCHANGED <<ctlVars, told>>

-----------------------------------------------------------------------------
Loop ==
    \/ Bind
    \/ BindFails
    \/ \E c \in Conns : Accept(c) \/ AcceptError(c)
    \/ TakeShutdown
    \/ DrainComplete
    \/ DrainTimeout
    \/ Exit

Task(c) ==
    \/ \E version \in {"head", "h2"} : Negotiate(c, version)
    \/ ObserveDrain(c)
    \/ FinishH2(c)
    \/ IdleTimeout(c)
    \/ UpgradedEnds(c)

Handler(c, r) ==
    \/ Continue(c, r)
    \/ Drop(c, r)
    \/ Answer(c, r)
    \/ HandlerFails(c, r)
    \/ Upgrade(c, r)

Client(c) ==
    \/ Connect(c)
    \/ ClientClose(c)
    \/ HeadBegins(c)
    \/ \E r \in Reqs : Request(c, r) \/ ResetStream(c, r)

Next ==
    \/ ListenForSignal
    \/ SenderGone
    \/ SignalArrives
    \/ Loop
    \/ \E c \in Conns : Task(c) \/ Client(c)
    \/ \E c \in Conns, r \in Reqs : Handler(c, r)

\* What tokio owes the code: a ready select! branch is taken in the end, timers
\* fire, woken tasks are polled.  The listener's queue is FIFO, so a client
\* that finds a free descriptor again and again gets one (SF).  Clients,
\* handlers, the signal and the idle timers owe nothing.
Fairness ==
    /\ WF_vars(Bind \/ BindFails)
    /\ WF_vars(TakeShutdown)
    /\ WF_vars(DrainComplete)
    /\ WF_vars(DrainTimeout)
    /\ \A c \in Conns : SF_vars(Accept(c)) /\ WF_vars(ObserveDrain(c))

Spec == Init /\ [][Next]_vars

FairSpec == Spec /\ Fairness

-----------------------------------------------------------------------------
(* Safety.                                                                 *)

\* The receivers the drain waits for are exactly those of the connections whose
\* task runs: handle_connection watches before it spawns (lib.rs:379-381), and
\* the receiver goes when the future does.
WatchExact == watchers = Live

\* "Gracefully shutdown!" (lib.rs:464) is true: no connection task is left and
\* no handler is at work when run() returns after a drain that completed.
GracefulMeansDrained ==
    outcome = "graceful" => Live = {} /\ \A c \in Conns : InFlight(c) = {}

\* The accept loop ends for the shutdown channel and for nothing else, in
\* particular not for an accept error (lib.rs:447-460).
StopsOnlyOnSignal ==
    phase \in {"draining", "returned", "exited"} => signal \in {"sent", "dropped"}

\* A client that was waiting in the queue when the loop ended is refused at
\* once, not left to wait for the drain (drop(listener), lib.rs:449).
ListenerClosed == phase # "serving" => \A c \in Conns : conn[c] # "queued"

\* A connection that has seen the notice lives on only for work it has begun:
\* no idle HTTP/1 keep-alive connection holds up the drain, and no handshake
\* (lib.rs:378-386, 450).  What it has begun may be the head of a request
\* ("head"): that one is still served.
NoIdleAfterNotice ==
    \A c \in told : /\ conn[c] # "fresh"
                    /\ conn[c] = "h1" => InFlight(c) # {}

\* A handler that is cut short for no fault of its own request (its client did
\* not reset it, it did not panic) goes with its whole connection, and the
\* server itself ends such a connection only when the drain ran out of its ten
\* seconds; otherwise the client or its idle timeout did.  Neither the notice,
\* nor the orderly end of a connection, nor a sibling that was dropped, reset
\* or panicked does it (lib.rs:317-342, 381, 463-466).
RequestsLostOnlyTo ==
    \A c \in Conns, r \in Reqs :
        req[c][r] = "cut" => \/ conn[c] \in {"clientClosed", "timedOut"}
                             \/ conn[c] = "aborted" /\ outcome = "forced"

-----------------------------------------------------------------------------
(* Liveness, under FairSpec.                                               *)

\* After the signal, run() returns, however many clients keep connecting and
\* whatever the handlers do (lib.rs:446-467).
ShutdownCompletes ==
    signal \in {"sent", "dropped"} ~> phase \in {"returned", "failed", "exited"}

\* Every connection that is alive when the drain begins, also one whose client
\* is still silent in its handshake, is gone in the end or lives on for work of
\* its own: that rests on its receiver having been registered before its task
\* was spawned (lib.rs:379-381).
NoticeReachesAll ==
    \A c \in Conns :
        phase = "draining" /\ c \in Live
            ~> c \notin Live \/ (c \in told /\ (conn[c] = "h1" => InFlight(c) # {}))

\* While descriptors come free a queued client does not wait for ever: it is
\* accepted, or refused when the server stops.
QueuedSettles ==
    \A c \in Conns :
        []<>(Cardinality(OpenFiles) < MaxFiles \/ phase # "serving")
            => (conn[c] = "queued" ~> conn[c] # "queued")
=============================================================================
