------------------------------ MODULE BasicApp ------------------------------
(***************************************************************************)
(* examples/basic.rs as a whole: Server with the application's routes and  *)
(* with its four timers, each of which is set somewhere else: the drain's, *)
(* the sleep of /time, TimeoutLayer's and the connection's idle timer.     *)
(* Without the mysql feature.  A tick is the greatest common part of the   *)
(* durations, ten seconds.                                                 *)
(***************************************************************************)
EXTENDS ServerDrain, Json

CONSTANTS
    Drain,   \* GRACEFUL_SHUTDOWN_TIMEOUT
    Slow,    \* the sleep of /time
    Layer,   \* TimeoutLayer
    Idle     \* with_timeout

ASSUME DurationsAssumption ==
    /\ Drain \in Nat /\ Slow \in Nat /\ Layer \in Nat /\ Idle \in Nat
    /\ 0 < Drain /\ Drain < Slow /\ Slow < Layer /\ Layer < Idle

VARIABLES
    quiet,     \* time since the connection's socket was last ready
    spent,     \* time since the request was handed to the router
    what,      \* the request: its route, and of /data also its body
    status,    \* the response's status
    drained    \* time since the drain began

timeVars == <<quiet, spent, drained>>
reqVars == <<spent, what, status>>
appVars == <<signal, phase, outcome, conn, watchers, told, req, quiet, spent, what, status,
             drained>>

-----------------------------------------------------------------------------
(* The server, as main builds it.                                          *)

NewServer == [tls |-> FALSE, interceptor |-> FALSE, idle |-> 12]

WithInterceptor(s) == [s EXCEPT !.interceptor = TRUE]

\* Fault: the other settings fall back to their defaults.
WithTlsParamOnly(s, p) == [NewServer EXCEPT !.tls = p]

WithTlsParam(s, p) == [s EXCEPT !.tls = p]

WithTimeout(s, t) == [s EXCEPT !.idle = t]

\* main, with the flag --tls.
BasicServer == WithTlsParam(WithTimeout(NewServer, Idle), TRUE)

\* main of examples/jwt.rs: TLS takes both files, and with one of them there is
\* none.
JwtServer(cert, key) == WithTlsParam(WithTimeout(NewServer, Idle), cert /\ key)

ASSUME RouterOnlyAssumption == Interceptor = BasicServer.interceptor

-----------------------------------------------------------------------------
(* The routes: build_router.                                               *)

\* "wrongData" is what the body extractor refuses.
Bodies == {"data", "wrongData"}

\* "quick" is all that is answered at once: /, /host, /metrics, /error, a CORS
\* preflight, and what the router or /data rejects before it reads a body.
Fast == {"quick"} \cup Bodies

Whats == Fast \cup {"time", "held"}

\* Every AppError becomes the same response.
AppErrorStatus == 500

\* A Host that cannot be found is an AppError.
HostStatus == {200, AppErrorStatus}

\* The encoder may fail, which is an AppError too.
MetricsStatus == {200, AppErrorStatus}

\* error_func returns nothing else.
ErrorStatus == AppErrorStatus

\* No such route; 405 and 415 (another method, another content type) are one with it.
RejectedStatus == 404

\* What clients send for a DataRequest, and for something else.
DataBodies ==
    UNION {[start : DateSpellings(a), end : {Absent}, distinct : FlagSpellings(x)] :
             a \in {<<>>, <<[min |-> 0, sec |-> 0, frac |-> 0]>>}, x \in BOOLEAN}

WrongBodies ==
    [start : {Empty, Junk}, end : {Absent}, distinct : {Absent}]
      \cup [start : {Null}, end : {Absent}, distinct : {Null, Junk}]

\* The extractor rejects what it cannot read (422 stands for 400 and 413 as well:
\* no JSON, too long); the handler has no database to ask.
DataStatus(o) == IF ReadRequest(o).ok THEN 500 ELSE 422

\* What each route answers once it answers by itself.
Answers(w) ==
    IF w = "time" THEN {200}
    ELSE IF w = "data" THEN {DataStatus(o) : o \in DataBodies}
    ELSE IF w = "wrongData" THEN {DataStatus(o) : o \in WrongBodies}
    ELSE HostStatus \cup MetricsStatus \cup {ErrorStatus, RejectedStatus}

Statuses == {0, 200, 404, 408, 422, 500}

-----------------------------------------------------------------------------
(* The timers.                                                             *)

IdleDue(c) == conn[c] \in Serving /\ quiet[c] >= BasicServer.idle

\* Fault: a router without TimeoutLayer.
NoLayer(c, r) == FALSE

LayerDue(c, r) == r \in InFlight(c) /\ spent[c][r] >= Layer

\* The handler has what it waited for.
HandlerDue(c, r) ==
    /\ r \in InFlight(c)
    /\ \/ what[c][r] \in Fast
       \/ what[c][r] = "time" /\ spent[c][r] >= Slow

\* Fault: the drain gives up at once.
DrainDueAtOnce == phase = "draining"

DrainDue == phase = "draining" /\ drained >= Drain

\* Something is due at once: a timer, an answer, a task's notice, main's return.
Due ==
    \/ \E c \in Conns : \/ IdleDue(c)
                        \/ phase = "draining" /\ c \in Live \ told
                        \/ \E r \in Reqs : LayerDue(c, r) \/ HandlerDue(c, r)
    \/ DrainDue
    \/ phase = "returned"

Capped(t, max) == IF t < max THEN t + 1 ELSE t

Tick ==
    /\ ~Due
    /\ quiet' = [c \in Conns |-> IF conn[c] \in Serving THEN quiet[c] + 1 ELSE quiet[c]]
    /\ spent' = [c \in Conns |-> [r \in Reqs |->
                    IF r \in InFlight(c) THEN Capped(spent[c][r], Layer) ELSE spent[c][r]]]
    /\ drained' = IF phase = "draining" THEN drained + 1 ELSE drained
    /\ UNCHANGED <<vars, what, status>>

-----------------------------------------------------------------------------
AppTypeOK ==
    /\ TypeOK
    /\ quiet \in [Conns -> 0..Idle]
    /\ spent \in [Conns -> [Reqs -> 0..Layer]]
    /\ what \in [Conns -> [Reqs -> Whats]]
    /\ status \in [Conns -> [Reqs -> Statuses]]
    /\ drained \in 0..Drain

AppInit ==
    /\ Init
    /\ quiet = [c \in Conns |-> 0]
    /\ spent = [c \in Conns |-> [r \in Reqs |-> 0]]
    /\ what = [c \in Conns |-> [r \in Reqs |-> "quick"]]
    /\ status = [c \in Conns |-> [r \in Reqs |-> 0]]
    /\ drained = 0

Touch(c) == quiet' = [quiet EXCEPT ![c] = 0]

\* Server's steps that have no part in time.
Untimed ==
    /\ \/ ListenForSignal
       \/ SenderGone
       \/ SignalArrives
       \/ Bind
       \/ BindFails
       \/ TakeShutdown
       \/ DrainComplete
       \/ Exit
       \/ \E c \in Conns : AcceptError(c) \/ ObserveDrain(c) \/ FinishH2(c) \/ ClientClose(c)
    /\ UNCHANGED <<timeVars, what, status>>

AppDrainTimeout == DrainDue /\ DrainTimeout /\ UNCHANGED <<timeVars, what, status>>

AppIdleTimeout(c) == IdleDue(c) /\ IdleTimeout(c) /\ UNCHANGED <<timeVars, what, status>>

AppConnect(c) ==
    /\ Connect(c)
    /\ spent' = [spent EXCEPT ![c] = [r \in Reqs |-> 0]]
    /\ what' = [what EXCEPT ![c] = [r \in Reqs |-> "quick"]]
    /\ status' = [status EXCEPT ![c] = [r \in Reqs |-> 0]]
    /\ UNCHANGED <<quiet, drained>>

AppAccept(c) ==
    /\ Accept(c)
    /\ Touch(c)
    /\ UNCHANGED <<reqVars, drained>>

AppNegotiate(c, version) ==
    /\ Negotiate(c, version)
    /\ Touch(c)
    /\ UNCHANGED <<reqVars, drained>>

AppHeadBegins(c) ==
    /\ HeadBegins(c)
    /\ Touch(c)
    /\ UNCHANGED <<reqVars, drained>>

AppResetStream(c, r) ==
    /\ ResetStream(c, r)
    /\ Touch(c)
    /\ UNCHANGED <<reqVars, drained>>

\* Fault: the bytes of a request do not move the deadline.
AppRequestUntouched(c, r, w) ==
    /\ Request(c, r)
    /\ spent' = [spent EXCEPT ![c][r] = 0]
    /\ what' = [what EXCEPT ![c][r] = w]
    /\ status' = [status EXCEPT ![c][r] = 0]
    /\ UNCHANGED <<quiet, drained>>

\* The router gets the request, TimeoutLayer starts to count; the body of a POST
\* may be still to come.
AppRequest(c, r, w) ==
    /\ Request(c, r)
    /\ Touch(c)
    /\ spent' = [spent EXCEPT ![c][r] = 0]
    /\ what' = [what EXCEPT ![c][r] = w]
    /\ status' = [status EXCEPT ![c][r] = 0]
    /\ UNCHANGED drained

\* The rest of a body.
BodyArrives(c, r, w) ==
    /\ r \in InFlight(c)
    /\ what[c][r] = "held"
    /\ what' = [what EXCEPT ![c][r] = w]
    /\ Touch(c)
    /\ UNCHANGED <<vars, spent, status, drained>>

\* A piece of a head or a body, a PING: anything that makes the socket ready.
Bytes(c) ==
    /\ conn[c] \in Serving
    /\ Touch(c)
    /\ UNCHANGED <<vars, reqVars, drained>>

\* TimeoutLayer's response if its time is up, and else the handler's: the layer
\* polls its timer before the handler.
AppAnswer(c, r) ==
    /\ \/ LayerDue(c, r) /\ status' = [status EXCEPT ![c][r] = 408]
       \/ /\ HandlerDue(c, r) /\ ~LayerDue(c, r)
          /\ \E s \in Answers(what[c][r]) : status' = [status EXCEPT ![c][r] = s]
    /\ Answer(c, r)
    /\ Touch(c)
    /\ UNCHANGED <<spent, what, drained>>

\* All of Server's steps but Continue and Drop, there being no interceptor, and
\* HandlerFails and Upgrade, which no handler here does.
AppNext ==
    \/ Untimed
    \/ AppDrainTimeout
    \/ Tick
    \/ \E c \in Conns :
        \/ AppIdleTimeout(c)
        \/ AppConnect(c)
        \/ AppAccept(c)
        \/ \E version \in {"head", "h2"} : AppNegotiate(c, version)
        \/ AppHeadBegins(c)
        \/ Bytes(c)
        \/ \E r \in Reqs : \/ \E w \in Whats : AppRequest(c, r, w)
                           \/ \E w \in Bodies : BodyArrives(c, r, w)
                           \/ AppResetStream(c, r)
                           \/ AppAnswer(c, r)

AppSpec == AppInit /\ [][AppNext]_appVars

\* Time passes, and what is due happens.
AppFairness ==
    /\ SF_appVars(Tick)
    /\ WF_appVars(AppDrainTimeout)
    /\ WF_appVars(Exit /\ Untimed)
    /\ \A c \in Conns :
        /\ WF_appVars(AppIdleTimeout(c))
        /\ WF_appVars(ObserveDrain(c) /\ Untimed)
        /\ \A r \in Reqs : WF_appVars(AppAnswer(c, r))

AppFairSpec == AppSpec /\ AppFairness

-----------------------------------------------------------------------------
\* The timers nest.  No request is ever lost to the idle timer, and the only one
\* that TimeoutLayer answers is one whose client has held back its body for the
\* whole of its time, be it that the body comes at that very moment: /time and
\* the quick routes are done before (basic.rs:196-212, 121).
TimersNest ==
    \A c \in Conns, r \in Reqs :
        /\ req[c][r] = "cut" => conn[c] # "timedOut"
        /\ status[c][r] = 408 => spent[c][r] = Layer /\ what[c][r] \in {"held"} \cup Bodies

\* The drain is shorter than /time, so a forced exit does cut requests; but not
\* one that was old enough when the drain began, and nothing quick except on a
\* connection that had work left at the notice (basic.rs:196-200, lib.rs:463-466).
ForcedExitSpares ==
    \A c \in Conns, r \in Reqs :
        req[c][r] = "cut" /\ conn[c] = "aborted" =>
            /\ what[c][r] = "time" => spent[c][r] <= drained + (Slow - Drain)
            /\ what[c][r] \in Fast => c \in told

\* Every request ends, whatever its client sends or withholds.
RequestSettles ==
    \A c \in Conns, r \in Reqs : req[c][r] \in Running ~> req[c][r] \notin Running
=============================================================================
