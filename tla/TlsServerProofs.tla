-------------------------- MODULE TlsServerProofs --------------------------
(***************************************************************************)
(* What holds of serve_tls as a whole: it is a Server and a TlsReload at   *)
(* the same time, so that all that is proved of either holds of it, and    *)
(* what neither says, which connections a renewed certificate reaches.     *)
(***************************************************************************)
EXTENDS TlsServer, TlsReloadProofs

\* The theorems about Server, for the variables of this module.
SP == INSTANCE ServerProofs WITH phase <- run

(***************************************************************************)
(* Serve and SP have each a copy of Server's definitions.                  *)
(***************************************************************************)

LEMMA SameSets ==
    /\ Serve!OpenFiles = SP!OpenFiles
    /\ Serve!Live = SP!Live
    /\ \A c : Serve!InFlight(c) = SP!InFlight(c)
  BY DEF Serve!OpenFiles, SP!OpenFiles, Serve!Live, SP!Live, Serve!InFlight, SP!InFlight,
     Serve!Serving, SP!Serving, Serve!Running, SP!Running

LEMMA SameCount == ASSUME NEW S PROVE Serve!Cardinality(S) = SP!Cardinality(S)
  BY DEF Serve!Cardinality, SP!Cardinality

LEMMA SameLeave ==
    ASSUME NEW c, NEW why
    PROVE  /\ Serve!Release(c, why) = SP!Release(c, why)
           /\ Serve!Leave(c, why) = SP!Leave(c, why)
  BY DEF Serve!Release, SP!Release, Serve!Leave, SP!Leave, Serve!Cut, SP!Cut,
     Serve!Running, SP!Running

LEMMA SameTypes == SP!TypeOK <=> Serve!TypeOK
  BY DEF SP!TypeOK, Serve!TypeOK, SP!Serving, Serve!Serving, SP!Over, Serve!Over,
     SP!Running, Serve!Running, SP!Settled, Serve!Settled

LEMMA SameLoop == Serve!Loop => SP!Loop
<1>1. /\ Serve!Bind => SP!Bind
      /\ Serve!BindFails => SP!BindFails
      /\ Serve!TakeShutdown => SP!TakeShutdown
      /\ Serve!DrainComplete => SP!DrainComplete
      /\ Serve!DrainTimeout => SP!DrainTimeout
  BY DEF Serve!Bind, SP!Bind, Serve!BindFails, SP!BindFails, Serve!TakeShutdown,
        SP!TakeShutdown, Serve!DrainComplete, SP!DrainComplete, Serve!DrainTimeout,
        SP!DrainTimeout, Serve!ctlVars, SP!ctlVars, Serve!connVars, SP!connVars
<1>2. ASSUME NEW c \in Conns, Serve!Accept(c) PROVE SP!Accept(c)
  BY <1>2, SameSets, SameCount DEF Serve!Accept, SP!Accept, Serve!ctlVars, SP!ctlVars
<1>3. ASSUME NEW c \in Conns, Serve!AcceptError(c) PROVE SP!AcceptError(c)
  BY <1>3 DEF Serve!AcceptError, SP!AcceptError, Serve!ctlVars, SP!ctlVars
<1>4. Serve!Exit => SP!Exit
  BY SameSets DEF Serve!Exit, SP!Exit, Serve!Cut, SP!Cut, Serve!Running, SP!Running
<1>5. QED
  BY <1>1, <1>2, <1>3, <1>4 DEF Serve!Loop, SP!Loop

LEMMA SameTask == ASSUME NEW c \in Conns, Serve!Task(c) PROVE SP!Task(c)
<1>1. ASSUME NEW version, Serve!Negotiate(c, version) PROVE SP!Negotiate(c, version)
  BY <1>1 DEF Serve!Negotiate, SP!Negotiate, Serve!ctlVars, SP!ctlVars
<1>2. Serve!ObserveDrain(c) => SP!ObserveDrain(c)
  BY SameSets, SameLeave DEF Serve!ObserveDrain, SP!ObserveDrain, Serve!ctlVars, SP!ctlVars
<1>3. /\ Serve!FinishH2(c) => SP!FinishH2(c)
      /\ Serve!IdleTimeout(c) => SP!IdleTimeout(c)
      /\ Serve!UpgradedEnds(c) => SP!UpgradedEnds(c)
  BY SameSets, SameLeave DEF Serve!FinishH2, SP!FinishH2, Serve!IdleTimeout, SP!IdleTimeout,
        Serve!UpgradedEnds, SP!UpgradedEnds, Serve!ctlVars, SP!ctlVars
<1>4. QED
  BY <1>1, <1>2, <1>3 DEF Serve!Task, SP!Task

LEMMA SameClient == ASSUME NEW c \in Conns, Serve!Client(c) PROVE SP!Client(c)
<1>1. Serve!Connect(c) => SP!Connect(c)
  BY DEF Serve!Connect, SP!Connect, Serve!Over, SP!Over, Serve!ctlVars, SP!ctlVars
<1>2. Serve!ClientClose(c) => SP!ClientClose(c)
  BY SameSets, SameLeave DEF Serve!ClientClose, SP!ClientClose, Serve!ctlVars, SP!ctlVars
<1>3. Serve!HeadBegins(c) => SP!HeadBegins(c)
  BY SameSets DEF Serve!HeadBegins, SP!HeadBegins, Serve!ctlVars, SP!ctlVars
<1>4. ASSUME NEW r \in Reqs
      PROVE  /\ Serve!Request(c, r) => SP!Request(c, r)
             /\ Serve!ResetStream(c, r) => SP!ResetStream(c, r)
  BY SameSets DEF Serve!Request, SP!Request, Serve!ResetStream, SP!ResetStream,
        Serve!ctlVars, SP!ctlVars
<1>5. QED
  BY <1>1, <1>2, <1>3, <1>4 DEF Serve!Client, SP!Client

LEMMA SameHandler ==
    ASSUME NEW c \in Conns, NEW r \in Reqs, Serve!Handler(c, r)
    PROVE  SP!Handler(c, r)
<1>1. Serve!Continue(c, r) => SP!Continue(c, r)
  BY DEF Serve!Continue, SP!Continue, Serve!ctlVars, SP!ctlVars
<1>2. /\ Serve!Drop(c, r) => SP!Drop(c, r)
      /\ Serve!Answer(c, r) => SP!Answer(c, r)
      /\ Serve!HandlerFails(c, r) => SP!HandlerFails(c, r)
      /\ Serve!Upgrade(c, r) => SP!Upgrade(c, r)
  BY SameSets, SameLeave DEF Serve!Drop, SP!Drop, Serve!Answer, SP!Answer,
        Serve!HandlerFails, SP!HandlerFails, Serve!Upgrade, SP!Upgrade, Serve!ctlVars, SP!ctlVars
<1>3. QED
  BY <1>1, <1>2 DEF Serve!Handler, SP!Handler

LEMMA SameNext == Serve!Next => SP!Next
<1>1. /\ Serve!ListenForSignal => SP!ListenForSignal
      /\ Serve!SenderGone => SP!SenderGone
      /\ Serve!SignalArrives => SP!SignalArrives
  BY DEF Serve!ListenForSignal, SP!ListenForSignal, Serve!SenderGone, SP!SenderGone,
        Serve!SignalArrives, SP!SignalArrives, Serve!connVars, SP!connVars
<1>2. QED
  BY <1>1, SameLoop, SameTask, SameClient, SameHandler DEF Serve!Next, SP!Next

LEMMA SameSpec == Serve!Spec => SP!Spec
<1>1. Serve!Init => SP!Init
  BY DEF Serve!Init, SP!Init
<1>2. [Serve!Next]_Serve!vars => [SP!Next]_SP!vars
  BY SameNext DEF Serve!vars, SP!vars
<1>3. QED
  BY <1>1, <1>2, PTL DEF Serve!Spec, SP!Spec

(***************************************************************************)
(* Every step of serve_tls is a step, or none, of each of its two parts.   *)
(***************************************************************************)

LEMMA StepIsServer == [TlsNext]_tlsVars => [Serve!Next]_Serve!vars
<1> SUFFICES ASSUME [TlsNext]_tlsVars PROVE Serve!Next \/ UNCHANGED serveVars
  BY DEF Serve!vars, serveVars
<1>1. CASE StartUp
  BY <1>1 DEF StartUp, Serve!Next, Serve!Loop
<1>2. ASSUME NEW c \in Conns, AcceptTls(c) PROVE Serve!Next
  BY <1>2 DEF AcceptTls, Serve!Next, Serve!Loop
<1>3. CASE TakeConfig \/ TakeLag \/ Refresh \/ Renew
  BY <1>3 DEF TakeConfig, TakeLag, Refresh, Renew
<1>4. CASE StopLoop \/ EndDrain
  BY <1>4 DEF StopLoop, EndDrain, Serve!Next, Serve!Loop
<1>5. CASE Alike
  BY <1>5 DEF Alike, Serve!Next, Serve!Loop
<1>6. CASE UNCHANGED tlsVars
  BY <1>6 DEF tlsVars
<1>7. QED
  BY <1>1, <1>2, <1>3, <1>4, <1>5, <1>6 DEF TlsNext

LEMMA StepIsReload == [TlsNext]_tlsVars => [Next]_vars
<1> SUFFICES ASSUME [TlsNext]_tlsVars PROVE Next \/ UNCHANGED vars
  OBVIOUS
<1>1. CASE StartUp
  BY <1>1 DEF StartUp, Next, Loop
<1>2. ASSUME NEW c \in Conns, AcceptTls(c) PROVE Next
  BY <1>2 DEF AcceptTls, Next, Loop
<1>3. CASE TakeConfig \/ TakeLag \/ Refresh \/ Renew
  BY <1>3 DEF TakeConfig, TakeLag, Refresh, Renew, Next, Loop
<1>4. CASE StopLoop \/ EndDrain
  BY <1>4 DEF StopLoop, EndDrain, Next, Loop
<1>5. CASE Alike
  BY <1>5 DEF Alike, reloadVars
<1>6. CASE UNCHANGED tlsVars
  BY <1>6 DEF tlsVars, reloadVars
<1>7. QED
  BY <1>1, <1>2, <1>3, <1>4, <1>5, <1>6 DEF TlsNext

\* serve_tls does nothing with its connections that serve_plantext, which Server
\* models, would not do: the renewal of the certificate takes no part in their
\* life, in the shutdown or in the drain (lib.rs:437-468, 491-555).
THEOREM TlsIsServer == TlsSpec => Serve!Spec
  BY StepIsServer, PTL DEF TlsSpec, TlsInit, Serve!Spec

\* And whatever the connections do, the configuration goes its way from the
\* files to the acceptor as in TlsReload (lib.rs:498-538).
THEOREM TlsIsReload == TlsSpec => Spec
  BY StepIsReload, PTL DEF TlsSpec, TlsInit, Spec

(***************************************************************************)
(* What each part promises, of the whole.                                  *)
(***************************************************************************)

LEMMA ServeAssumptions ==
    SP!ConnsAssumption /\ SP!MaxFilesAssumption /\ SP!InterceptorAssumption
  BY ServeAssumption
     DEF SP!ConnsAssumption, SP!MaxFilesAssumption, SP!InterceptorAssumption,
         IsFiniteSet, SP!IsFiniteSet

\* A server with TLS shuts down as one without: the drain waits for exactly the
\* connections that are served, "Gracefully shutdown!" (lib.rs:551) is true, the
\* loop ends for the shutdown channel only, no client is left in the queue, the
\* notice leaves no idle connection, and a handler is cut short only by its
\* client, its own panic, the idle timeout or the ten seconds (lib.rs:514-519, 539-554).
THEOREM TlsServerIsSafe ==
    TlsSpec => [](/\ Serve!WatchExact
                  /\ Serve!GracefulMeansDrained
                  /\ Serve!StopsOnlyOnSignal
                  /\ Serve!ListenerClosed
                  /\ Serve!NoIdleAfterNotice
                  /\ Serve!RequestsLostOnlyTo)
<1>1. SP!Spec => [](/\ SP!WatchExact /\ SP!GracefulMeansDrained
                    /\ SP!StopsOnlyOnSignal /\ SP!ListenerClosed
                    /\ SP!NoIdleAfterNotice /\ SP!RequestsLostOnlyTo)
  <2>1. SP!Spec => []SP!WatchExact
    BY SP!WatchIsExact, ServeAssumptions
  <2>2. SP!Spec => []SP!GracefulMeansDrained
    BY SP!GracefulIsDrained, ServeAssumptions
  <2>3. SP!Spec => []SP!StopsOnlyOnSignal
    BY SP!OnlySignalStops, ServeAssumptions
  <2>4. SP!Spec => []SP!ListenerClosed
    BY SP!QueueIsClosed, ServeAssumptions
  <2>5. SP!Spec => []SP!NoIdleAfterNotice
    BY SP!NoticeEndsIdle, ServeAssumptions
  <2>6. SP!Spec => []SP!RequestsLostOnlyTo
    BY SP!LossHasCause, ServeAssumptions
  <2>7. QED
    BY <2>1, <2>2, <2>3, <2>4, <2>5, <2>6, PTL
<1>2. /\ SP!WatchExact => Serve!WatchExact
      /\ SP!GracefulMeansDrained => Serve!GracefulMeansDrained
      /\ SP!StopsOnlyOnSignal => Serve!StopsOnlyOnSignal
      /\ SP!ListenerClosed => Serve!ListenerClosed
      /\ SP!NoIdleAfterNotice => Serve!NoIdleAfterNotice
      /\ SP!RequestsLostOnlyTo => Serve!RequestsLostOnlyTo
  <2>1. SP!WatchExact => Serve!WatchExact
    BY SameSets DEF SP!WatchExact, Serve!WatchExact
  <2>2. SP!GracefulMeansDrained => Serve!GracefulMeansDrained
    BY SameSets DEF SP!GracefulMeansDrained, Serve!GracefulMeansDrained
  <2>3. SP!StopsOnlyOnSignal => Serve!StopsOnlyOnSignal
    BY SameSets DEF SP!StopsOnlyOnSignal, Serve!StopsOnlyOnSignal
  <2>4. SP!ListenerClosed => Serve!ListenerClosed
    BY SameSets DEF SP!ListenerClosed, Serve!ListenerClosed
  <2>5. SP!NoIdleAfterNotice => Serve!NoIdleAfterNotice
    BY SameSets DEF SP!NoIdleAfterNotice, Serve!NoIdleAfterNotice
  <2>6. SP!RequestsLostOnlyTo => Serve!RequestsLostOnlyTo
    BY SameSets DEF SP!RequestsLostOnlyTo, Serve!RequestsLostOnlyTo
  <2>7. QED BY <2>1, <2>2, <2>3, <2>4, <2>5, <2>6
<1>3. QED
  BY <1>1, <1>2, TlsIsServer, SameSpec, PTL

(***************************************************************************)
(* What neither part says.                                                 *)
(***************************************************************************)

\* Past the first load the acceptor has a configuration.
Configured == phase \in {"serving", "draining"} => config # None

\* So has every connection that is open.
Given == \A c \in Open : accepted[c] # None

TlsIInv == IInv /\ Serve!TypeOK /\ InStep /\ Configured /\ Given

\* A connection is opened by being accepted only.
LEMMA LeaveCloses ==
    ASSUME Serve!TypeOK, NEW c \in Conns,
           NEW why \in Serve!Over \cup (IF c \in Open THEN {"upgraded"} ELSE {}),
           Serve!Release(c, why)
    PROVE  Open' \subseteq Open
  BY DEF Serve!TypeOK, Serve!Release, Open, Serve!OpenFiles, Serve!Serving, Serve!Over

LEMMA AlikeKeeps ==
    ASSUME Serve!TypeOK, Alike
    PROVE  /\ Open' \subseteq Open
           /\ \/ run' = run
              \/ run = "returned" /\ run' = "exited"
<1> USE DEF Open
<1>1. CASE Serve!ListenForSignal \/ Serve!SenderGone \/ Serve!SignalArrives
  BY <1>1 DEF Serve!ListenForSignal, Serve!SenderGone, Serve!SignalArrives,
     Serve!connVars, Serve!OpenFiles
<1>2. CASE Serve!Exit
  BY <1>2 DEF Serve!Exit, Serve!OpenFiles, Serve!TypeOK, Serve!Serving
<1>3. ASSUME NEW c \in Conns, Serve!AcceptError(c)
      PROVE  run' = run /\ Open' \subseteq Open
  BY <1>3 DEF Serve!AcceptError, Serve!ctlVars, Serve!OpenFiles, Serve!TypeOK,
     Serve!Serving
<1>4. ASSUME NEW c \in Conns, Serve!Task(c)
      PROVE  run' = run /\ Open' \subseteq Open
  <2>1. ASSUME NEW version \in {"head", "h2"}, Serve!Negotiate(c, version)
        PROVE  run' = run /\ Open' \subseteq Open
    BY <2>1 DEF Serve!Negotiate, Serve!ctlVars, Serve!OpenFiles, Serve!TypeOK,
       Serve!Serving
  <2>2. CASE Serve!ObserveDrain(c)
    <3>1. run' = run
      BY <2>2 DEF Serve!ObserveDrain, Serve!ctlVars
    <3>2. CASE UNCHANGED <<conn, watchers, req>>
      BY <3>1, <3>2 DEF Serve!OpenFiles
    <3>3. CASE Serve!Leave(c, "cancelled") \/ Serve!Leave(c, "finished")
      BY <3>1, <3>3, LeaveCloses DEF Serve!Leave, Serve!Over
    <3>4. QED BY <2>2, <3>2, <3>3 DEF Serve!ObserveDrain
  <2>3. CASE Serve!FinishH2(c) \/ Serve!IdleTimeout(c) \/ Serve!UpgradedEnds(c)
    BY <2>3, LeaveCloses DEF Serve!FinishH2, Serve!IdleTimeout, Serve!UpgradedEnds,
       Serve!Leave, Serve!ctlVars, Serve!Over
  <2>4. QED BY <1>4, <2>1, <2>2, <2>3 DEF Serve!Task
<1>5. ASSUME NEW c \in Conns, Serve!Client(c)
      PROVE  run' = run /\ Open' \subseteq Open
  <2>1. CASE Serve!Connect(c)
    BY <2>1 DEF Serve!Connect, Serve!ctlVars, Serve!OpenFiles, Serve!TypeOK,
       Serve!Serving
  <2>2. CASE Serve!ClientClose(c)
    BY <2>2, LeaveCloses DEF Serve!ClientClose, Serve!Leave, Serve!ctlVars, Serve!Over
  <2>3. ASSUME NEW r \in Reqs, Serve!Request(c, r) \/ Serve!ResetStream(c, r)
        PROVE  run' = run /\ Open' \subseteq Open
    BY <2>3 DEF Serve!Request, Serve!ResetStream, Serve!ctlVars,
       Serve!OpenFiles, Serve!Serving, Serve!TypeOK
  <2>4. CASE Serve!HeadBegins(c)
    BY <2>4 DEF Serve!HeadBegins, Serve!ctlVars, Serve!OpenFiles, Serve!Serving, Serve!TypeOK
  <2>5. QED BY <1>5, <2>1, <2>2, <2>3, <2>4 DEF Serve!Client
<1>6. ASSUME NEW c \in Conns, NEW r \in Reqs, Serve!Handler(c, r)
      PROVE  run' = run /\ Open' \subseteq Open
  <2>1. run' = run
    BY <1>6 DEF Serve!Handler, Serve!Continue, Serve!Drop, Serve!Answer,
       Serve!HandlerFails, Serve!Upgrade, Serve!ctlVars
  <2>2. CASE conn' = conn
    BY <2>1, <2>2 DEF Serve!OpenFiles
  <2>3. CASE \E why \in {"dropped", "failed", "finished"} : Serve!Release(c, why)
    BY <2>1, <2>3, LeaveCloses DEF Serve!Over
  <2>4. CASE Serve!Upgrade(c, r)
    <3>1. c \in Open
      BY <2>4 DEF Serve!Upgrade, Serve!OpenFiles, Serve!Serving
    <3>2. QED
      BY <2>1, <2>4, <3>1, LeaveCloses DEF Serve!Upgrade
  <2>5. QED
    BY <1>6, <2>2, <2>3, <2>4 DEF Serve!Handler, Serve!Continue, Serve!Drop, Serve!Answer,
       Serve!HandlerFails
<1>7. QED
  BY <1>1, <1>2, <1>3, <1>4, <1>5, <1>6 DEF Alike

LEMMA TlsIInvInit == TlsInit => TlsIInv
<1> SUFFICES ASSUME TlsInit PROVE TlsIInv
  OBVIOUS
<1>1. IInv
  BY IInvInit DEF TlsInit
<1>2. Serve!TypeOK /\ InStep /\ Configured /\ Given
  BY DEF TlsInit, Init, Serve!Init, Serve!TypeOK, Serve!Serving, Serve!Over,
     Serve!Running, Serve!Settled, InStep, Configured, Given, Open, Serve!OpenFiles
<1>3. QED BY <1>1, <1>2 DEF TlsIInv

\* Proved of Server, needed here step by step.
LEMMA ServeTypeNext == Serve!TypeOK /\ [TlsNext]_tlsVars => Serve!TypeOK'
<1>1. SP!TypeOK /\ [SP!Next]_SP!vars => SP!TypeOK'
  BY SP!TypeNext, ServeAssumptions
<1>2. SP!TypeOK <=> Serve!TypeOK
  BY SameTypes
<1>3. SP!TypeOK' <=> Serve!TypeOK'
  BY SameTypes, PTL
<1>4. [Serve!Next]_Serve!vars => [SP!Next]_SP!vars
  BY SameNext DEF Serve!vars, SP!vars
<1>5. QED
  BY <1>1, <1>2, <1>3, <1>4, StepIsServer

LEMMA TlsIInvNext == TlsIInv /\ [TlsNext]_tlsVars => TlsIInv'
<1> SUFFICES ASSUME TlsIInv, [TlsNext]_tlsVars PROVE TlsIInv'
  OBVIOUS
<1>1. IInv' /\ Serve!TypeOK'
  BY IInvNext, StepIsReload, ServeTypeNext DEF TlsIInv
<1> SUFFICES InStep' /\ Configured' /\ Given'
  BY <1>1 DEF TlsIInv
<1> USE DEF TlsIInv, InStep, Configured, Given
<1>2. CASE StartUp
  <2>1. Given'
    BY <1>2 DEF StartUp, ReadCert, ReadKey, serveVars, Serve!Bind, Serve!BindFails,
       Serve!connVars, Open, Serve!OpenFiles
  <2>2. phase = "loading"
    BY <1>2 DEF StartUp, ReadCert, ReadKey, IInv, Stages
  <2>3. run = "binding"
    BY <2>2 DEF Serve!TypeOK
  <2>4. phase' = "serving" => config' # None
    <3>1. CASE ReadCert("first")
      BY <2>2, <3>1 DEF ReadCert, LoadFails
    <3>2. CASE LoadFails("first")
      BY <3>2 DEF LoadFails
    <3>3. CASE Loaded("first", Built("first")) /\ pc["first"] = "readKey"
      BY <3>3 DEF Loaded, Built, IInv, Ordered, None, Loads
    <3>4. QED BY <1>2, <3>1, <3>2, <3>3 DEF StartUp, ReadKey
  <2>5. CASE phase' = "loading" /\ UNCHANGED serveVars
    BY <2>1, <2>3, <2>5 DEF serveVars
  <2>6. CASE phase' = "serving" /\ Serve!Bind
    BY <2>1, <2>4, <2>6 DEF Serve!Bind
  <2>7. CASE phase' = "ended" /\ Serve!BindFails
    BY <2>1, <2>7 DEF Serve!BindFails
  <2>8. QED BY <1>2, <2>5, <2>6, <2>7 DEF StartUp
<1>3. ASSUME NEW c \in Conns, AcceptTls(c) PROVE InStep' /\ Configured' /\ Given'
  <2>1. /\ phase = "serving" /\ UNCHANGED <<phase, run, config>>
        /\ accepted' = [accepted EXCEPT ![c] = config]
        /\ conn' = [conn EXCEPT ![c] = "fresh"]
    BY <1>3 DEF AcceptTls, Accept, Serve!Accept, Serve!ctlVars
  <2>2. Given'
    BY <2>1 DEF Open, Serve!OpenFiles, IInv, TypeOK, Serve!TypeOK
  <2>3. QED BY <2>1, <2>2
<1>4. CASE TakeConfig \/ TakeLag
  <2>1. UNCHANGED <<phase, run, conn, accepted>>
    BY <1>4 DEF TakeConfig, TakeLag, Receive, Lagged, serveVars
  <2>2. InStep' /\ Given'
    BY <2>1 DEF Open, Serve!OpenFiles
  <2>3. config' = config \/ config' # None
    BY <1>4 DEF TakeConfig, TakeLag, Receive, Lagged, IInv, Stages
  <2>4. QED BY <2>1, <2>2, <2>3
<1>5. CASE StopLoop \/ EndDrain
  BY <1>5 DEF StopLoop, EndDrain, Shutdown, Return, Serve!TakeShutdown,
     Serve!DrainComplete, Serve!DrainTimeout, Serve!connVars, Open, Serve!OpenFiles,
     Serve!Serving, Serve!TypeOK
<1>6. CASE Refresh
  BY <1>6 DEF Refresh, Refresher, Wake, ReadCert, ReadKey, LoadFails, Loaded, serveVars,
     Open, Serve!OpenFiles
<1>7. CASE Renew
  BY <1>7 DEF Renew, Operator, StartRotation, TruncateFile, WriteLeaf, ReplaceFile,
     serveVars, Open, Serve!OpenFiles
<1>8. CASE Alike
  BY <1>8, AlikeKeeps DEF Alike, reloadVars, vars
<1>9. CASE UNCHANGED tlsVars
  BY <1>9 DEF tlsVars, reloadVars, vars, serveVars, Open, Serve!OpenFiles
<1>10. QED
  BY <1>2, <1>3, <1>4, <1>5, <1>6, <1>7, <1>8, <1>9 DEF TlsNext

\* The strengthening holds of every state of serve_tls.
THEOREM TlsInvariance == TlsSpec => []TlsIInv
  BY TlsIInvInit, TlsIInvNext, PTL DEF TlsSpec

\* The two views of the one loop agree in every state, and every variable keeps
\* its type (lib.rs:512-549).
THEOREM TlsTypeCorrect == TlsSpec => []TlsTypeOK
<1>1. TlsIInv => TlsTypeOK
  BY DEF TlsIInv, IInv, TlsTypeOK
<1>2. QED BY <1>1, TlsInvariance, PTL

\* Every open connection was given a certificate with its own key and a chain of
\* its own, whatever the operator has done to the files since (lib.rs:541-543, tls.rs:47-57, 139-142).
THEOREM ServedIsWhole == TlsSpec => []ServedWhole
<1>1. TlsIInv => ServedWhole
  BY DEF TlsIInv, IInv, Given, ServedWhole
<1>2. QED BY <1>1, TlsInvariance, PTL

\* The only step that gives a connection a configuration accepts it.
LEMMA TlsAcceptStep ==
    TlsIInv /\ [TlsNext]_tlsVars =>
        \A c \in Conns : accepted'[c] # accepted[c] =>
            /\ c \notin Open
            /\ pending = 0 /\ last # None => accepted'[c] = last
<1> SUFFICES ASSUME TlsIInv, [TlsNext]_tlsVars,
                    NEW c \in Conns, accepted'[c] # accepted[c]
             PROVE  /\ c \notin Open
                    /\ pending = 0 /\ last # None => accepted'[c] = last
  OBVIOUS
<1>1. CASE StartUp \/ TakeConfig \/ TakeLag \/ StopLoop \/ EndDrain \/ Refresh \/ Renew
  BY <1>1 DEF StartUp, TakeConfig, TakeLag, StopLoop, EndDrain, Refresh, Renew, ReadCert,
     ReadKey, Receive, Lagged, Shutdown, Return, Refresher, Wake, Operator, StartRotation,
     TruncateFile, WriteLeaf, ReplaceFile
<1>2. ASSUME NEW d \in Conns, AcceptTls(d)
      PROVE  /\ c \notin Open
             /\ pending = 0 /\ last # None => accepted'[c] = last
  <2>1. accepted' = [accepted EXCEPT ![d] = config] /\ phase = "serving"
    BY <1>2 DEF AcceptTls, Accept
  <2>2. c = d /\ accepted'[c] = config
    BY <2>1 DEF TlsIInv, IInv, TypeOK
  <2>3. c \notin Open
    BY <1>2, <2>2 DEF AcceptTls, Serve!Accept, Open, Serve!OpenFiles, Serve!Serving
  <2>4. pending = 0 /\ last # None => config = last
    BY <2>1 DEF TlsIInv, IInv, NothingLost
  <2>5. QED BY <2>2, <2>3, <2>4
<1>3. CASE Alike \/ UNCHANGED tlsVars
  BY <1>3 DEF Alike, tlsVars, reloadVars, vars
<1>4. QED
  BY <1>1, <1>2, <1>3 DEF TlsNext

\* A renewed certificate reaches new connections only, and the first that comes
\* after it was received (tls.rs:121-142).
THEOREM OnlyNewAreAffected == TlsSpec => OnlyNewAffected
  BY TlsInvariance, TlsAcceptStep, PTL DEF TlsSpec, OnlyNewAffected

\* With connections, signal and drain around it the loop still ends up with the
\* newest configuration sent (lib.rs:520-537).
THEOREM TlsNothingIsLost == TlsSpec => []NothingLost
  BY TlsIsReload, NothingIsLost, PTL

\* And never goes back to an older one.
THEOREM TlsNeverOlder == TlsSpec => NeverOlder
  BY TlsIsReload, NoRollback, PTL

\* A server with TLS keeps the promise of Drain, its liveness aside: it admits
\* while it listens, and a graceful end is one with nothing left to serve.
THEOREM TlsKeepsPromise == TlsSpec => SP!PromiseSafety
<1>1. SP!Spec => SP!PromiseSafety
  BY SP!ServerKeepsPromise, ServeAssumptions DEF SP!PromiseSafety
<1>2. QED
  BY <1>1, TlsIsServer, SameSpec, PTL
=============================================================================
