--------------------------- MODULE BasicAppProofs ---------------------------
(***************************************************************************)
(* The application is a Server, so what ServerProofs shows holds of it;    *)
(* and its timers nest for all durations in their order.                   *)
(***************************************************************************)
EXTENDS BasicApp, ServerProofs

(***************************************************************************)
(* The application is a Server.                                            *)
(***************************************************************************)

LEMMA AppStepIsStep == [AppNext]_appVars => [Next]_vars
<1> SUFFICES ASSUME [AppNext]_appVars PROVE [Next]_vars
  OBVIOUS
<1>1. CASE Untimed
  BY <1>1 DEF Untimed, Next, Loop, Task, Client
<1>2. CASE AppDrainTimeout
  BY <1>2 DEF AppDrainTimeout, Next, Loop
<1>3. CASE Tick
  BY <1>3 DEF Tick
<1>4. ASSUME NEW c \in Conns,
             \/ AppIdleTimeout(c)
             \/ AppConnect(c)
             \/ AppAccept(c)
             \/ \E version \in {"head", "h2"} : AppNegotiate(c, version)
             \/ AppHeadBegins(c)
             \/ Bytes(c)
      PROVE  [Next]_vars
  BY <1>4 DEF AppIdleTimeout, AppConnect, AppAccept, AppNegotiate, AppHeadBegins, Bytes,
              Next, Loop, Task, Client
<1>5. ASSUME NEW c \in Conns, NEW r \in Reqs,
             \/ \E w \in Whats : AppRequest(c, r, w)
             \/ \E w \in Bodies : BodyArrives(c, r, w)
             \/ AppResetStream(c, r)
             \/ AppAnswer(c, r)
      PROVE  [Next]_vars
  BY <1>5 DEF AppRequest, BodyArrives, AppResetStream, AppAnswer, Next, Client, Handler
<1>6. CASE UNCHANGED appVars
  BY <1>6 DEF appVars, vars
<1>7. QED BY <1>1, <1>2, <1>3, <1>4, <1>5, <1>6 DEF AppNext

\* The application does what a Server may do, and nothing else.
THEOREM AppIsServer == AppSpec => Spec
<1>1. AppInit => Init
  BY DEF AppInit
<1>2. QED BY <1>1, AppStepIsStep, PTL DEF AppSpec, Spec

\* The application keeps the promise of Drain, timers and all.
THEOREM AppKeepsPromise == AppSpec => PromiseSafety
  BY AppIsServer, ServerKeepsPromise, PTL DEF PromiseSafety

(***************************************************************************)
(* The inductive invariant.                                                *)
(***************************************************************************)

\* The idle timer is never ahead of TimeoutLayer's; /time never oversleeps, and
\* time does not pass over a request that can be answered at once.
InTime ==
    \A c \in Conns, r \in Reqs :
        req[c][r] \in Running =>
            /\ quiet[c] <= spent[c][r]
            /\ what[c][r] = "time" => spent[c][r] <= Slow
            /\ what[c][r] = "quick" => spent[c][r] = 0
            /\ status[c][r] = 0

\* Time does not pass in the drain before all have been told.
ToldInTime ==
    /\ phase \in {"binding", "serving"} => drained = 0
    /\ phase = "draining" /\ drained > 0 => Live \subseteq told

\* run() has returned: all is done, or the drain has had its time.
ReturnedInTime ==
    phase = "returned" => Live = {} \/ (drained >= Drain /\ Live \subseteq told)

AppIInv ==
    /\ IInv
    /\ AppTypeOK
    /\ InTime
    /\ ToldInTime
    /\ ReturnedInTime
    /\ TimersNest
    /\ ForcedExitSpares

LEMMA StatusTypes ==
    \A w \in Whats : Answers(w) \subseteq Statuses \ {0, 408}
  BY DEF Answers, Whats, Fast, Bodies, Statuses, HostStatus, MetricsStatus, ErrorStatus,
         RejectedStatus, AppErrorStatus, DataStatus

LEMMA BasicIdle == BasicServer.idle = Idle
  BY DEF BasicServer, WithTlsParam, WithTimeout, NewServer

LEMMA AppInitHolds == AppInit => AppIInv
<1> SUFFICES ASSUME AppInit PROVE AppIInv
  OBVIOUS
<1>1. IInv
  BY IInvInit DEF AppInit
<1>2. AppTypeOK
  BY <1>1, DurationsAssumption DEF AppInit, AppTypeOK, IInv, Whats, Fast, Statuses
<1>3. /\ \A c \in Conns, r \in Reqs : req[c][r] = "free" /\ status[c][r] = 0
      /\ phase = "binding" /\ drained = 0
  BY DEF AppInit, Init
<1>4. QED
  BY <1>1, <1>2, <1>3
  DEF AppIInv, InTime, ToldInTime, ReturnedInTime, TimersNest, ForcedExitSpares, Running

(***************************************************************************)
(* Steps that leave the clocks alone.                                      *)
(***************************************************************************)

LEMMA ClocksStand ==
    ASSUME AppIInv, IInv',
           UNCHANGED <<timeVars, what, status>>,
           \A c \in Conns, r \in Reqs : req'[c][r] \in Running => req[c][r] \in Running,
           Live' \subseteq Live, told \subseteq told',
           \/ phase' = phase
           \/ phase = "binding" /\ phase' \in {"serving", "failed"}
           \/ phase = "serving" /\ phase' = "draining"
           \/ phase = "draining" /\ phase' = "returned" /\ (watchers = {} \/ DrainDue)
           \/ phase = "returned" /\ phase' = "exited",
           \A c \in Conns, r \in Reqs :
              req'[c][r] = "cut" =>
                \/ req[c][r] = "cut" /\ conn'[c] = conn[c]
                \/ /\ req[c][r] \in Running
                   /\ conn'[c] = "timedOut" => IdleDue(c)
                   /\ conn'[c] = "aborted" => phase = "returned"
    PROVE  AppIInv'
<1> USE DEF AppIInv, timeVars
<1>1. AppTypeOK'
  BY DEF AppTypeOK, IInv
<1>2. InTime'
  BY DEF InTime
<1>3. ToldInTime'
  BY DEF ToldInTime
<1>4. ReturnedInTime'
  BY DurationsAssumption
  DEF ReturnedInTime, ToldInTime, IInv, WatchExact, DrainDue, AppTypeOK
<1>5. TimersNest'
  <2>1. ASSUME NEW c \in Conns, NEW r \in Reqs, req[c][r] \in Running, IdleDue(c)
        PROVE  FALSE
    BY <2>1, BasicIdle, DurationsAssumption DEF InTime, IdleDue, AppTypeOK
  <2>2. QED BY <2>1 DEF TimersNest
<1>6. ForcedExitSpares'
  <2> SUFFICES ASSUME NEW c \in Conns, NEW r \in Reqs, req'[c][r] = "cut", conn'[c] = "aborted"
               PROVE  /\ what[c][r] = "time" => spent[c][r] <= drained + (Slow - Drain)
                      /\ what[c][r] \in Fast => c \in told'
    BY DEF ForcedExitSpares
  <2>1. CASE req[c][r] = "cut" /\ conn'[c] = conn[c]
    BY <2>1 DEF ForcedExitSpares
  <2>2. CASE req[c][r] \in Running /\ phase = "returned"
    <3>1. c \in Live
      BY <2>2 DEF IInv, HandlersHaveConn, InFlight, Live, Serving
    <3>2. drained >= Drain /\ c \in told
      BY <2>2, <3>1 DEF ReturnedInTime
    <3>3. what[c][r] = "time" => spent[c][r] <= Slow
      BY <2>2 DEF InTime
    <3>4. drained \in Nat /\ spent[c][r] \in Nat
      BY DurationsAssumption DEF AppTypeOK
    <3>5. QED BY <3>2, <3>3, <3>4, DurationsAssumption
  <2>3. QED BY <2>1, <2>2
<1>7. QED BY <1>1, <1>2, <1>3, <1>4, <1>5, <1>6

LEMMA UntimedKeeps == AppIInv /\ IInv' /\ Untimed => AppIInv'
<1> SUFFICES ASSUME AppIInv, IInv', Untimed PROVE AppIInv'
  OBVIOUS
<1> USE DEF ctlVars, connVars, Live, Serving, Over
<1>0. TypeOK /\ TypeOK' /\ UNCHANGED <<timeVars, what, status>>
  BY DEF AppIInv, IInv, Untimed
<1>1. CASE ListenForSignal \/ SenderGone \/ SignalArrives
  BY <1>0, <1>1, ClocksStand DEF ListenForSignal, SenderGone, SignalArrives, Running
<1>2. CASE Bind \/ BindFails \/ DrainComplete
  BY <1>0, <1>2, ClocksStand DEF Bind, BindFails, DrainComplete, Running
<1>3. CASE TakeShutdown
  <2>1. \A c \in Conns, r \in Reqs :
          req'[c][r] = "cut" => req[c][r] = "cut" /\ conn'[c] = conn[c]
    BY <1>0, <1>3 DEF TakeShutdown, TypeOK, AppIInv, IInv, RequestsLostOnlyTo
  <2>2. Live' \subseteq Live
    BY <1>0, <1>3 DEF TakeShutdown, TypeOK
  <2>3. QED BY <1>0, <1>3, <2>1, <2>2, ClocksStand DEF TakeShutdown
<1>4. CASE Exit
  <2>1. \A c \in Conns, r \in Reqs :
          /\ req[c][r] \in Running => req'[c][r] = "cut" /\ c \in OpenFiles
          /\ req[c][r] \notin Running => req'[c][r] = req[c][r]
    BY <1>0, <1>4 DEF Exit, Cut, TypeOK, OpenFiles, AppIInv, IInv, HandlersHaveConn, InFlight
  <2>2. \A c \in Conns : conn'[c] = IF c \in OpenFiles THEN "aborted" ELSE conn[c]
    BY <1>0, <1>4 DEF Exit, TypeOK
  <2>3. \A c \in Conns, r \in Reqs : req[c][r] = "cut" => c \notin OpenFiles
    BY DEF OpenFiles, AppIInv, IInv, RequestsLostOnlyTo
  <2>4. Live' \subseteq Live
    BY <2>2 DEF OpenFiles
  <2>5. QED
    BY <1>0, <1>4, <2>1, <2>2, <2>3, <2>4, ClocksStand DEF Exit, Running
<1>5. ASSUME NEW c \in Conns, AcceptError(c) PROVE AppIInv'
  BY <1>0, <1>5, ClocksStand DEF AcceptError, TypeOK, Running, AppIInv, IInv, RequestsLostOnlyTo
<1>6. ASSUME NEW c \in Conns, ObserveDrain(c) \/ FinishH2(c) \/ ClientClose(c) PROVE AppIInv'
  <2>1. /\ UNCHANGED phase /\ told \subseteq told'
        /\ \/ UNCHANGED <<conn, req>>
           \/ \E why \in {"cancelled", "finished", "clientClosed"} :
                c \in OpenFiles /\ Leave(c, why)
    BY <1>6 DEF ObserveDrain, FinishH2, ClientClose, OpenFiles
  <2>2. CASE UNCHANGED <<conn, req>>
    BY <1>0, <2>1, <2>2, ClocksStand DEF Running
  <2>3. ASSUME NEW why \in {"cancelled", "finished", "clientClosed"}, c \in OpenFiles,
               Leave(c, why)
        PROVE  AppIInv'
    <3>1. /\ conn' = [conn EXCEPT ![c] = why]
          /\ \A d \in Conns, r \in Reqs :
               /\ d # c => req'[d][r] = req[d][r]
               /\ d = c => req'[d][r] = IF req[d][r] \in Running THEN "cut" ELSE req[d][r]
      BY <1>0, <2>3 DEF Leave, Release, Cut, TypeOK
    <3>2. \A d \in Conns, r \in Reqs : req[d][r] = "cut" => d # c
      BY <2>3 DEF OpenFiles, AppIInv, IInv, RequestsLostOnlyTo
    <3>3. \A d \in Conns, r \in Reqs : req'[d][r] \in Running => req[d][r] \in Running
      BY <3>1 DEF Running
    <3>4. Live' \subseteq Live
      BY <1>0, <3>1 DEF TypeOK
    <3>5. \A d \in Conns, r \in Reqs :
             req'[d][r] = "cut" =>
               \/ req[d][r] = "cut" /\ conn'[d] = conn[d]
               \/ req[d][r] \in Running /\ conn'[d] \notin {"timedOut", "aborted"}
      BY <1>0, <3>1, <3>2 DEF TypeOK
    <3>6. QED BY <1>0, <2>1, <3>3, <3>4, <3>5, ClocksStand
  <2>4. QED BY <2>1, <2>2, <2>3
<1>7. QED BY <1>1, <1>2, <1>3, <1>4, <1>5, <1>6 DEF Untimed

LEMMA TimeoutsKeep ==
    AppIInv /\ IInv' /\ (AppDrainTimeout \/ \E c \in Conns : AppIdleTimeout(c)) => AppIInv'
<1> SUFFICES ASSUME AppIInv, IInv', AppDrainTimeout \/ \E c \in Conns : AppIdleTimeout(c)
             PROVE  AppIInv'
  OBVIOUS
<1> USE DEF ctlVars, connVars, Live, Serving, Over
<1>0. TypeOK /\ TypeOK'
  BY DEF AppIInv, IInv
<1>1. CASE AppDrainTimeout
  BY <1>0, <1>1, ClocksStand DEF AppDrainTimeout, DrainTimeout, Running
<1>2. ASSUME NEW c \in Conns, AppIdleTimeout(c) PROVE AppIInv'
  <2>1. /\ conn' = [conn EXCEPT ![c] = "timedOut"] /\ UNCHANGED <<phase, told>>
        /\ \A d \in Conns, r \in Reqs :
             /\ d # c => req'[d][r] = req[d][r]
             /\ d = c => req'[d][r] = IF req[d][r] \in Running THEN "cut" ELSE req[d][r]
    BY <1>0, <1>2 DEF AppIdleTimeout, IdleTimeout, Leave, Release, Cut, TypeOK
  <2>2. \A d \in Conns, r \in Reqs : req[d][r] = "cut" => d # c
    BY <1>2 DEF AppIdleTimeout, IdleTimeout, OpenFiles, AppIInv, IInv, RequestsLostOnlyTo
  <2>3. \A d \in Conns, r \in Reqs : req'[d][r] \in Running => req[d][r] \in Running
    BY <2>1 DEF Running
  <2>4. Live' \subseteq Live
    BY <1>0, <2>1 DEF TypeOK
  <2>5. \A d \in Conns, r \in Reqs :
           req'[d][r] = "cut" =>
             \/ req[d][r] = "cut" /\ conn'[d] = conn[d]
             \/ req[d][r] \in Running /\ d = c /\ conn'[d] = "timedOut"
    BY <1>0, <2>1, <2>2 DEF TypeOK
  <2>6. IdleDue(c) /\ UNCHANGED <<timeVars, what, status>>
    BY <1>2 DEF AppIdleTimeout
  <2>7. QED BY <1>0, <2>1, <2>3, <2>4, <2>5, <2>6, ClocksStand
<1>3. QED BY <1>1, <1>2

(***************************************************************************)
(* Steps of the clocks.                                                    *)
(***************************************************************************)

LEMMA TickKeeps == AppIInv /\ IInv' /\ Tick => AppIInv'
<1> SUFFICES ASSUME AppIInv, IInv', Tick PROVE AppIInv'
  OBVIOUS
<1> USE DurationsAssumption DEF AppIInv
<1>1. /\ UNCHANGED <<signal, phase, outcome, conn, watchers, told, req, what, status>>
      /\ ~Due
      /\ Live' = Live
  BY DEF Tick, vars, Live
<1>2. \A c \in Conns :
        /\ quiet'[c] \in 0..Idle
        /\ quiet'[c] = IF conn[c] \in Serving THEN quiet[c] + 1 ELSE quiet[c]
  BY <1>1, BasicIdle DEF Tick, Due, IdleDue, AppTypeOK
<1>3. \A c \in Conns, r \in Reqs :
        /\ req[c][r] \in Running =>
             /\ spent[c][r] < Layer /\ spent'[c][r] = spent[c][r] + 1
             /\ what[c][r] \notin Fast
             /\ what[c][r] = "time" => spent[c][r] < Slow
        /\ req[c][r] \notin Running => spent'[c][r] = spent[c][r]
        /\ spent'[c][r] \in 0..Layer
  <2> SUFFICES ASSUME NEW c \in Conns, NEW r \in Reqs
               PROVE  /\ req[c][r] \in Running =>
                           /\ spent[c][r] < Layer /\ spent'[c][r] = spent[c][r] + 1
                           /\ what[c][r] \notin Fast
                           /\ what[c][r] = "time" => spent[c][r] < Slow
                      /\ req[c][r] \notin Running => spent'[c][r] = spent[c][r]
                      /\ spent'[c][r] \in 0..Layer
    OBVIOUS
  <2>1. spent[c][r] \in 0..Layer
    BY DEF AppTypeOK
  <2>2. r \in InFlight(c) <=> req[c][r] \in Running
    BY DEF InFlight
  <2>3. ~LayerDue(c, r) /\ ~HandlerDue(c, r)
    BY <1>1 DEF Due
  <2>4. spent'[c][r] = IF r \in InFlight(c) THEN Capped(spent[c][r], Layer) ELSE spent[c][r]
    BY DEF Tick
  <2>5. QED BY <2>1, <2>2, <2>3, <2>4 DEF LayerDue, HandlerDue, Capped
<1>4. /\ drained' \in 0..Drain
      /\ drained' = IF phase = "draining" THEN drained + 1 ELSE drained
  BY <1>1 DEF Tick, Due, DrainDue, AppTypeOK
<1>5. AppTypeOK'
  <2>1. quiet' \in [Conns -> 0..Idle]
    BY <1>2 DEF Tick
  <2>2. spent' \in [Conns -> [Reqs -> 0..Layer]]
    BY <1>3 DEF Tick
  <2>3. QED BY <1>1, <1>4, <2>1, <2>2 DEF AppTypeOK, IInv
<1>6. InTime'
  <2> SUFFICES ASSUME NEW c \in Conns, NEW r \in Reqs, req[c][r] \in Running
               PROVE  /\ quiet'[c] <= spent'[c][r]
                      /\ what[c][r] = "time" => spent'[c][r] <= Slow
                      /\ what[c][r] = "quick" => spent'[c][r] = 0
                      /\ status[c][r] = 0
    BY <1>1 DEF InTime
  <2>1. conn[c] \in Serving
    BY DEF IInv, HandlersHaveConn, InFlight, Serving
  <2>2. quiet[c] \in Nat /\ spent[c][r] \in Nat
    BY DEF AppTypeOK
  <2>3. QED BY <1>2, <1>3, <2>1, <2>2 DEF InTime, Fast
<1>7. ToldInTime' /\ ReturnedInTime'
  BY <1>1, <1>4 DEF ToldInTime, ReturnedInTime, Due, Live
<1>8. TimersNest' /\ ForcedExitSpares'
  <2>1. TimersNest'
    <3>1. \A c \in Conns, r \in Reqs : status[c][r] = 408 => req[c][r] \notin Running
      BY DEF InTime
    <3>2. QED BY <1>1, <1>3, <3>1 DEF TimersNest
  <2>2. ASSUME NEW c \in Conns, NEW r \in Reqs, req[c][r] = "cut", conn[c] = "aborted",
               what[c][r] = "time"
        PROVE  spent'[c][r] <= drained' + (Slow - Drain)
    <3>1. spent'[c][r] = spent[c][r] /\ spent[c][r] <= drained + (Slow - Drain)
      BY <1>3, <2>2 DEF ForcedExitSpares, Running
    <3>2. drained \in Nat /\ spent[c][r] \in Nat /\ drained' >= drained
      BY <1>4 DEF AppTypeOK
    <3>3. QED BY <1>4, <3>1, <3>2
  <2>3. ForcedExitSpares'
    BY <1>1, <2>2 DEF ForcedExitSpares
  <2>4. QED BY <2>1, <2>3
<1>9. QED BY <1>5, <1>6, <1>7, <1>8

\* What TimersNest says of a request that TimeoutLayer answered.
AtDeadline(c, r) == spent[c][r] = Layer /\ what[c][r] \in {"held"} \cup Bodies

\* Steps of one connection that set its clock back or leave it, and tell
\* nobody; a request they begin has its clock at zero.
LEMMA ConnStep ==
    ASSUME AppIInv, IInv', NEW c \in Conns, UNCHANGED <<phase, told, drained>>,
           AppTypeOK',
           quiet'[c] = 0 \/ quiet' = quiet,
           Live' \subseteq Live \/ phase = "serving",
           \A d \in Conns \ {c} : /\ conn'[d] = conn[d] /\ req'[d] = req[d] /\ quiet'[d] = quiet[d]
                                  /\ spent'[d] = spent[d] /\ what'[d] = what[d]
                                  /\ status'[d] = status[d],
           \A r \in Reqs :
              /\ req'[c][r] \in Running =>
                   \/ spent'[c][r] = 0 /\ status'[c][r] = 0 /\ quiet'[c] = 0
                   \/ /\ spent'[c][r] = spent[c][r] /\ status'[c][r] = status[c][r]
                      /\ what'[c][r] \in Bodies \/ what'[c][r] = what[c][r]
                      /\ req[c][r] \in Running
              /\ req'[c][r] = "cut" => conn'[c] \notin {"timedOut", "aborted"}
              /\ status'[c][r] = 408 => AtDeadline(c, r)'
    PROVE  AppIInv'
<1> USE DurationsAssumption DEF AppIInv, Bodies, AtDeadline
<1>1. InTime'
  <2> SUFFICES ASSUME NEW d \in Conns, NEW r \in Reqs, req'[d][r] \in Running
               PROVE  /\ quiet'[d] <= spent'[d][r]
                      /\ what'[d][r] = "time" => spent'[d][r] <= Slow
                      /\ what'[d][r] = "quick" => spent'[d][r] = 0
                      /\ status'[d][r] = 0
    BY DEF InTime
  <2>1. quiet[d] \in Nat /\ spent[d][r] \in Nat /\ spent'[d][r] \in Nat
    BY DEF AppTypeOK
  <2>2. QED BY <2>1 DEF InTime
<1>2. ToldInTime' /\ ReturnedInTime'
  BY DEF ToldInTime, ReturnedInTime
<1>3. TimersNest'
  BY DEF TimersNest
<1>4. ForcedExitSpares'
  BY DEF ForcedExitSpares
<1>5. QED BY <1>1, <1>2, <1>3, <1>4

LEMMA OpeningKeeps ==
    ASSUME AppIInv, IInv', NEW c \in Conns,
           \/ AppConnect(c)
           \/ AppAccept(c)
           \/ \E version \in {"head", "h2"} : AppNegotiate(c, version)
           \/ AppHeadBegins(c)
           \/ Bytes(c)
    PROVE  AppIInv'
<1> USE DEF ctlVars, reqVars, Touch
<1>0. TypeOK /\ TypeOK' /\ AppTypeOK /\ IInv
  BY DEF AppIInv, IInv
<1>1. \A d \in Conns, r \in Reqs :
        /\ req[d][r] = "cut" => conn[d] \in {"clientClosed", "timedOut", "aborted"}
        /\ req[d][r] = "cut" => conn[d] # "timedOut"
        /\ status[d][r] = 408 => AtDeadline(d, r)
        /\ req[d][r] \in Running => conn[d] \in {"h1", "h2"} /\ status[d][r] = 0
  BY DEF AppIInv, IInv, RequestsLostOnlyTo, TimersNest, AtDeadline, HandlersHaveConn, InFlight,
         InTime
<1>2. CASE AppConnect(c)
  <2>1. AppTypeOK'
    BY <1>0, <1>2, DurationsAssumption
    DEF AppConnect, AppTypeOK, Whats, Fast, Statuses
  <2>2. \A r \in Reqs : /\ req'[c][r] = "free" /\ status'[c][r] = 0
    BY <1>0, <1>2 DEF AppConnect, Connect, TypeOK, AppTypeOK
  <2>3. \A d \in Conns \ {c} :
           /\ conn'[d] = conn[d] /\ req'[d] = req[d] /\ quiet'[d] = quiet[d]
           /\ spent'[d] = spent[d] /\ what'[d] = what[d] /\ status'[d] = status[d]
    BY <1>0, <1>2 DEF AppConnect, Connect, TypeOK, AppTypeOK
  <2>4. UNCHANGED <<phase, told, drained, quiet>> /\ phase = "serving"
    BY <1>2 DEF AppConnect, Connect
  <2>5. QED BY <2>1, <2>2, <2>3, <2>4, ConnStep DEF Running
<1>3. ASSUME UNCHANGED <<phase, told, drained, req, spent, what, status>>, Touch(c),
             conn[c] \notin Over,
             conn' = conn \/ (\E x \in Serving : conn' = [conn EXCEPT ![c] = x]),
             phase = "serving" \/ Live' = Live
      PROVE  AppIInv'
  <2>1. AppTypeOK'
    BY <1>0, <1>3, DurationsAssumption DEF AppTypeOK
  <2>2. \A d \in Conns \ {c} : conn'[d] = conn[d] /\ quiet'[d] = quiet[d]
    BY <1>0, <1>3 DEF TypeOK, AppTypeOK
  <2>3. quiet'[c] = 0
    BY <1>0, <1>3 DEF AppTypeOK
  <2>4. \A r \in Reqs : req[c][r] # "cut"
    BY <1>1, <1>3 DEF Over
  <2>5. QED BY <1>1, <1>3, <2>1, <2>2, <2>3, <2>4, ConnStep DEF AtDeadline
<1>4. CASE AppAccept(c)
  BY <1>3, <1>4 DEF AppAccept, Accept, Serving, Over
<1>5. ASSUME NEW version \in {"head", "h2"}, AppNegotiate(c, version) PROVE AppIInv'
  <2>1. Live' = Live
    BY <1>0, <1>5 DEF AppNegotiate, Negotiate, Live, Serving, TypeOK
  <2>2. QED BY <1>3, <1>5, <2>1 DEF AppNegotiate, Negotiate, Serving, Over
<1>6. CASE Bytes(c)
  BY <1>3, <1>6 DEF Bytes, vars, Live, Serving, Over
<1>7. CASE AppHeadBegins(c)
  <2>1. Live' = Live
    BY <1>0, <1>7 DEF AppHeadBegins, HeadBegins, Live, Serving, TypeOK
  <2>2. QED BY <1>3, <1>7, <2>1 DEF AppHeadBegins, HeadBegins, Serving, Over
<1>8. QED BY <1>2, <1>4, <1>5, <1>6, <1>7

LEMMA HandlingKeeps ==
    ASSUME AppIInv, IInv', NEW c \in Conns, NEW r \in Reqs,
           \/ \E w \in Whats : AppRequest(c, r, w)
           \/ \E w \in Bodies : BodyArrives(c, r, w)
           \/ AppResetStream(c, r)
           \/ AppAnswer(c, r)
    PROVE  AppIInv'
<1> USE DEF ctlVars, reqVars, Touch
<1>0. TypeOK /\ TypeOK' /\ AppTypeOK /\ IInv
  BY DEF AppIInv, IInv
<1>1. /\ \A q \in Reqs :
           /\ req[c][q] = "cut" => conn[c] \notin Serving
           /\ status[c][q] = 408 => AtDeadline(c, q) /\ req[c][q] \notin Running
      /\ InFlight(c) # {} => conn[c] \in {"h1", "h2"}
  BY DEF AppIInv, IInv, InTime, RequestsLostOnlyTo, TimersNest, AtDeadline, HandlersHaveConn,
         Serving
<1>2. ASSUME NEW w \in Whats, AppRequest(c, r, w) PROVE AppIInv'
  <2>1. AppTypeOK'
    BY <1>0, <1>2, DurationsAssumption DEF AppRequest, AppTypeOK, Statuses
  <2>2. /\ UNCHANGED <<phase, told, drained>> /\ quiet'[c] = 0
        /\ conn[c] \in Serving /\ conn'[c] \in Serving /\ req'[c][r] \in Running
        /\ spent'[c][r] = 0 /\ status'[c][r] = 0
    BY <1>0, <1>2 DEF AppRequest, Request, TypeOK, AppTypeOK, Serving, Running
  <2>3. \A q \in Reqs \ {r} : /\ req'[c][q] = req[c][q] /\ spent'[c][q] = spent[c][q]
                              /\ what'[c][q] = what[c][q] /\ status'[c][q] = status[c][q]
    BY <1>0, <1>2 DEF AppRequest, Request, TypeOK, AppTypeOK
  <2>4. \A d \in Conns \ {c} :
           /\ conn'[d] = conn[d] /\ req'[d] = req[d] /\ quiet'[d] = quiet[d]
           /\ spent'[d] = spent[d] /\ what'[d] = what[d] /\ status'[d] = status[d]
    BY <1>0, <1>2 DEF AppRequest, Request, TypeOK, AppTypeOK
  <2>5. Live' = Live
    BY <2>2, <2>4 DEF Live
  <2>6. QED BY <1>1, <2>1, <2>2, <2>3, <2>4, <2>5, ConnStep DEF AtDeadline, Running, Serving
<1>3. ASSUME NEW w \in Bodies, BodyArrives(c, r, w) PROVE AppIInv'
  <2>1. AppTypeOK'
    BY <1>0, <1>3, DurationsAssumption DEF BodyArrives, vars, AppTypeOK, Whats, Fast, Bodies
  <2>2. /\ UNCHANGED <<conn, req, phase, told, drained, spent, status>> /\ quiet'[c] = 0
        /\ req[c][r] \in Running /\ conn[c] \in Serving
        /\ what'[c][r] = w
        /\ \A q \in Reqs \ {r} : what'[c][q] = what[c][q]
        /\ \A d \in Conns \ {c} : what'[d] = what[d] /\ quiet'[d] = quiet[d]
    BY <1>0, <1>1, <1>3 DEF BodyArrives, vars, AppTypeOK, InFlight, Serving
  <2>3. status[c][r] = 0
    BY <2>2 DEF AppIInv, InTime
  <2>4. Live' = Live
    BY <2>2 DEF Live
  <2>5. QED BY <1>1, <2>1, <2>2, <2>3, <2>4, ConnStep DEF AtDeadline
<1>4. CASE AppAnswer(c, r)
  <2> DEFINE Gets(t) == /\ status' = [status EXCEPT ![c][r] = t]
                        /\ t = 408 => AtDeadline(c, r)
  <2>1. PICK s \in Statuses \ {0} : Gets(s)
    <3>1. \/ LayerDue(c, r) /\ status' = [status EXCEPT ![c][r] = 408]
          \/ \E s \in Answers(what[c][r]) : status' = [status EXCEPT ![c][r] = s]
      BY <1>4 DEF AppAnswer
    <3>2. what[c][r] \in Whats
      BY <1>0 DEF AppTypeOK
    <3>3. ASSUME NEW s \in Answers(what[c][r]), status' = [status EXCEPT ![c][r] = s]
          PROVE  \E t \in Statuses \ {0} : Gets(t)
      <4>1. s \in Statuses \ {0, 408}
        BY <3>2, <3>3, StatusTypes
      <4>2. Gets(s) /\ s \in Statuses \ {0}
        BY <3>3, <4>1
      <4> HIDE DEF Gets
      <4>3. QED BY <4>2
    <3>4. ASSUME LayerDue(c, r), status' = [status EXCEPT ![c][r] = 408]
          PROVE  \E t \in Statuses \ {0} : Gets(t)
      <4>1. spent[c][r] \in 0..Layer
        BY <1>0 DEF AppTypeOK
      <4>2. spent[c][r] = Layer /\ req[c][r] \in Running
        BY <3>4, <4>1, DurationsAssumption DEF LayerDue, InFlight
      <4>3. what[c][r] \notin {"time", "quick"}
        BY <4>2, DurationsAssumption DEF AppIInv, InTime
      <4>4. AtDeadline(c, r)
        BY <3>2, <4>2, <4>3 DEF AtDeadline, Whats, Fast, Bodies
      <4>5. 408 \in Statuses \ {0}
        BY DEF Statuses
      <4>6. QED BY <3>4, <4>4, <4>5
    <3>5. QED BY <3>1, <3>3, <3>4
  <2>2. AppTypeOK'
    BY <1>0, <1>4, <2>1, DurationsAssumption DEF AppAnswer, AppTypeOK
  <2>3. /\ UNCHANGED <<phase, told, drained, spent, what>> /\ quiet'[c] = 0
        /\ conn[c] \in {"h1", "h2"} /\ req'[c][r] = "answered" /\ status'[c][r] = s
        /\ conn'[c] \in {"h1", "h2", "finished"} /\ r \in InFlight(c)
    BY <1>0, <1>1, <1>4, <2>1 DEF AppAnswer, Answer, Release, TypeOK, AppTypeOK
  <2>4. \A q \in Reqs \ {r} : req'[c][q] = req[c][q] /\ status'[c][q] = status[c][q]
    BY <1>0, <1>4, <2>1 DEF AppAnswer, Answer, TypeOK, AppTypeOK
  <2>5. \A d \in Conns \ {c} :
           /\ conn'[d] = conn[d] /\ req'[d] = req[d] /\ quiet'[d] = quiet[d]
           /\ status'[d] = status[d]
    BY <1>0, <1>4, <2>1 DEF AppAnswer, Answer, Release, TypeOK, AppTypeOK
  <2>6. Live' \subseteq Live
    BY <2>3, <2>5 DEF Live, Serving
  <2>7. \A q \in Reqs : status'[c][q] = 408 => AtDeadline(c, q)
    BY <1>1, <2>1, <2>3, <2>4
  <2>8. \A q \in Reqs : /\ req'[c][q] \in Running => q # r /\ req[c][q] \in Running
                        /\ req'[c][q] # "cut"
    BY <1>1, <2>3, <2>4 DEF Running, Serving
  <2>9. QED BY <2>2, <2>3, <2>4, <2>5, <2>6, <2>7, <2>8, ConnStep DEF AtDeadline
<1>5. CASE AppResetStream(c, r)
  <2>1. AppTypeOK'
    BY <1>0, <1>5, DurationsAssumption DEF AppResetStream, AppTypeOK
  <2>2. /\ UNCHANGED <<phase, told, drained, spent, what, status, conn>> /\ quiet'[c] = 0
        /\ conn[c] = "h2" /\ req'[c][r] = "reset"
        /\ \A q \in Reqs \ {r} : req'[c][q] = req[c][q]
        /\ \A d \in Conns \ {c} : req'[d] = req[d] /\ quiet'[d] = quiet[d]
    BY <1>0, <1>5 DEF AppResetStream, ResetStream, TypeOK, AppTypeOK
  <2>3. Live' = Live
    BY <2>2 DEF Live
  <2>4. \A q \in Reqs : /\ req'[c][q] \in Running => q # r /\ req[c][q] \in Running
                        /\ req'[c][q] # "cut"
    BY <1>1, <2>2 DEF Running, Serving
  <2>5. \A q \in Reqs : req'[c][q] \in Running => status[c][q] = 0
    BY <2>4 DEF AppIInv, InTime
  <2>6. QED BY <1>1, <2>1, <2>2, <2>3, <2>4, <2>5, ConnStep DEF AtDeadline
<1>6. QED BY <1>2, <1>3, <1>4, <1>5

LEMMA AppNextKeeps == AppIInv /\ [AppNext]_appVars => AppIInv'
<1> SUFFICES ASSUME AppIInv, [AppNext]_appVars PROVE AppIInv'
  OBVIOUS
<1>1. IInv'
  BY AppStepIsStep, IInvNext DEF AppIInv
<1>2. CASE UNCHANGED appVars
  BY <1>1, <1>2
  DEF appVars, AppIInv, AppTypeOK, IInv, InTime, ToldInTime, ReturnedInTime, TimersNest,
      ForcedExitSpares, Live
<1>3. CASE AppNext
  BY <1>1, <1>3, UntimedKeeps, TimeoutsKeep, TickKeeps, OpeningKeeps, HandlingKeeps DEF AppNext
<1>4. QED BY <1>2, <1>3

THEOREM AppInvariance == AppSpec => []AppIInv
  BY AppInitHolds, AppNextKeeps, PTL DEF AppSpec

(***************************************************************************)
(* What follows.                                                           *)
(***************************************************************************)

\* Every variable keeps its type; no clock runs past its timer.
THEOREM AppTypeCorrect == AppSpec => []AppTypeOK
  BY AppInvariance, PTL DEF AppIInv

\* For all durations in this order, the timers nest.
THEOREM AppTimersNest == AppSpec => []TimersNest
  BY AppInvariance, PTL DEF AppIInv

\* For all of them a forced exit spares what is old enough.
THEOREM AppForcedExitSpares == AppSpec => []ForcedExitSpares
  BY AppInvariance, PTL DEF AppIInv

\* The application cuts a request short, while its client still wants the answer,
\* only for the loss of its connection or in the forced exit: Server leaves the
\* idle timer as a third cause, and here it is none.  (A client that resets its
\* one stream ends it too, as "reset"; no handler here panics.)
AppLosesOnlyTo ==
    \A c \in Conns, r \in Reqs :
        req[c][r] = "cut" => \/ conn[c] = "clientClosed"
                             \/ conn[c] = "aborted" /\ outcome = "forced"

\* This is so for any number of clients and requests.
THEOREM AppLossHasCause == AppSpec => []AppLosesOnlyTo
<1>1. AppIInv => AppLosesOnlyTo
  BY DEF AppIInv, IInv, RequestsLostOnlyTo, TimersNest, AppLosesOnlyTo
<1>2. QED BY <1>1, AppInvariance, PTL

(***************************************************************************)
(* The builder.                                                            *)
(***************************************************************************)

\* The with_ functions touch one setting each, so their order does not matter.
LEMMA BuilderCommutes ==
    ASSUME NEW t, NEW p, NEW u, NEW q, NEW i
    PROVE  LET s == [tls |-> q, interceptor |-> i, idle |-> u]
           IN  /\ WithTlsParam(WithTimeout(s, t), p) = WithTimeout(WithTlsParam(s, p), t)
               /\ WithInterceptor(WithTimeout(s, t)) = WithTimeout(WithInterceptor(s), t)
               /\ WithInterceptor(WithTlsParam(s, p)) = WithTlsParam(WithInterceptor(s), p)
  BY DEF WithTlsParam, WithTimeout, WithInterceptor

\* The server of examples/jwt.rs differs in TLS alone, which no timer depends on.
LEMMA JwtSameServer ==
    \A cert, key \in BOOLEAN : [JwtServer(cert, key) EXCEPT !.tls = TRUE] = BasicServer
  BY DEF JwtServer, BasicServer, NewServer, WithTlsParam, WithTimeout
=============================================================================
