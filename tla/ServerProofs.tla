---------------------------- MODULE ServerProofs ----------------------------
(***************************************************************************)
(* What holds of Server for every set of connections, every set of request *)
(* slots, every limit on descriptors, with an interceptor or without.      *)
(***************************************************************************)
EXTENDS ServerDrain, TLAPS

(***************************************************************************)
(* Types.                                                                  *)
(***************************************************************************)

\* The only function the actions build from another one.
LEMMA CutType ==
    ASSUME NEW q \in [Reqs -> Running \cup Settled]
    PROVE  /\ Cut(q) \in [Reqs -> Settled]
           /\ \A r \in Reqs : Cut(q)[r] = IF q[r] \in Running THEN "cut" ELSE q[r]
  BY DEF Cut, Running, Settled

LEMMA TypeInit == Init => TypeOK
  BY DEF Init, TypeOK, Serving, Over, Running, Settled

LEMMA TypeNext == TypeOK /\ [Next]_vars => TypeOK'
<1> SUFFICES ASSUME TypeOK, [Next]_vars PROVE TypeOK'
  OBVIOUS
<1> USE DEF TypeOK, Serving, Over, ctlVars, connVars
<1>1. CASE ListenForSignal \/ SenderGone \/ SignalArrives
  BY <1>1 DEF ListenForSignal, SenderGone, SignalArrives
<1>2. CASE Loop
  <2>1. CASE Bind \/ BindFails \/ DrainComplete \/ DrainTimeout \/ TakeShutdown
    BY <2>1 DEF Bind, BindFails, DrainComplete, DrainTimeout, TakeShutdown
  <2>2. CASE \E c \in Conns : Accept(c) \/ AcceptError(c)
    BY <2>2 DEF Accept, AcceptError
  <2>3. CASE Exit
    BY <2>3, CutType DEF Exit
  <2>4. QED BY <1>2, <2>1, <2>2, <2>3 DEF Loop
<1>3. ASSUME NEW c \in Conns, Task(c) PROVE TypeOK'
  <2>1. ASSUME NEW why \in Over, Leave(c, why),
               UNCHANGED ctlVars, told' \in SUBSET Conns
        PROVE TypeOK'
    BY <2>1, CutType DEF Leave, Release
  <2>2. CASE \E version \in {"head", "h2"} : Negotiate(c, version)
    BY <2>2 DEF Negotiate
  <2>3. CASE ObserveDrain(c)
    BY <2>1, <2>3 DEF ObserveDrain
  <2>4. CASE FinishH2(c)
    BY <2>1, <2>4 DEF FinishH2
  <2>5. CASE IdleTimeout(c)
    BY <2>1, <2>5 DEF IdleTimeout
  <2>6. CASE UpgradedEnds(c)
    BY <2>1, <2>6 DEF UpgradedEnds
  <2>7. QED BY <1>3, <2>2, <2>3, <2>4, <2>5, <2>6 DEF Task
<1>4. ASSUME NEW c \in Conns, Client(c) PROVE TypeOK'
  <2>1. CASE Connect(c)
    BY <2>1 DEF Connect, Settled
  <2>2. CASE ClientClose(c)
    BY <2>2, CutType DEF ClientClose, Leave, Release
  <2>3. CASE HeadBegins(c)
    BY <2>3 DEF HeadBegins
  <2>4. ASSUME NEW r \in Reqs, Request(c, r) \/ ResetStream(c, r) PROVE TypeOK'
    <3>1. CASE Request(c, r)
      BY <3>1 DEF Request, Running
    <3>2. CASE ResetStream(c, r)
      BY <3>2 DEF ResetStream, Settled
    <3>3. QED BY <2>4, <3>1, <3>2
  <2>5. QED BY <1>4, <2>1, <2>2, <2>3, <2>4 DEF Client
<1>5. ASSUME NEW c \in Conns, NEW r \in Reqs, Handler(c, r) PROVE TypeOK'
  <2>1. PICK s \in Running \cup Settled : req' = [req EXCEPT ![c][r] = s]
    BY <1>5 DEF Handler, Continue, Drop, Answer, HandlerFails, Upgrade, Running, Settled
  <2>2. req' \in [Conns -> [Reqs -> Running \cup Settled]]
    BY <2>1
  <2>3. /\ UNCHANGED <<ctlVars, told>>
        /\ \/ UNCHANGED <<conn, watchers>>
           \/ \E why \in {"finished", "dropped", "failed", "upgraded"} : Release(c, why)
    BY <1>5 DEF Handler, Continue, Drop, Answer, HandlerFails, Upgrade
  <2>4. QED BY <2>2, <2>3 DEF Release
<1>6. CASE UNCHANGED vars
  BY <1>6 DEF vars
<1>7. QED BY <1>1, <1>2, <1>3, <1>4, <1>5, <1>6 DEF Next

\* Every variable keeps its type.
THEOREM TypeCorrect == Spec => []TypeOK
  BY TypeInit, TypeNext, PTL DEF Spec

(***************************************************************************)
(* The inductive invariant: the safety properties, and what ties a         *)
(* request to its connection, the notice to the drain and the outcome to   *)
(* the return.                                                             *)
(***************************************************************************)

\* A handler is at work only on a connection that has read the head of its
\* request.
HandlersHaveConn == \A c \in Conns : InFlight(c) # {} => conn[c] \in {"h1", "h2"}

\* HTTP/1 serves one request at a time.
SerialH1 ==
    \A c \in Conns : conn[c] = "h1" => \A r, s \in InFlight(c) : r = s

\* Nobody is told before the loop has ended.
NoNoticeWhileServing == phase \in {"binding", "serving"} => told = {}

\* The outcome is known exactly when run() has returned.
OutcomeOnReturn == outcome # "none" <=> phase \in {"returned", "exited"}

IInv ==
    /\ TypeOK
    /\ HandlersHaveConn
    /\ SerialH1
    /\ NoNoticeWhileServing
    /\ OutcomeOnReturn
    /\ WatchExact
    /\ GracefulMeansDrained
    /\ StopsOnlyOnSignal
    /\ ListenerClosed
    /\ NoIdleAfterNotice
    /\ RequestsLostOnlyTo

LEMMA IInvInit == Init => IInv
<1> SUFFICES ASSUME Init PROVE IInv
  OBVIOUS
<1>1. TypeOK
  BY TypeInit
<1>2. Live = {} /\ \A c \in Conns : InFlight(c) = {}
  BY DEF Init, Live, InFlight, Serving, Running
<1>3. QED
  BY <1>1, <1>2 DEF Init, IInv, HandlersHaveConn, SerialH1, NoNoticeWhileServing,
     OutcomeOnReturn, WatchExact, GracefulMeansDrained, StopsOnlyOnSignal,
     ListenerClosed, NoIdleAfterNotice, RequestsLostOnlyTo

\* A connection that ends keeps the invariant, if what it cuts short is cut by
\* its client or its timer, and a notice comes only once the loop has ended.
LEMMA LeaveKeeps ==
    ASSUME IInv, NEW c \in OpenFiles, NEW why \in Over \ {"aborted", "refused"},
           Leave(c, why), UNCHANGED ctlVars,
           InFlight(c) = {} \/ why \in {"clientClosed", "timedOut"},
           \/ told' = told
           \/ told' = told \cup {c} /\ phase \in {"draining", "returned"}
    PROVE  IInv'
<1> USE DEF IInv
<1> DEFINE Ended == conn' = [conn EXCEPT ![c] = why]
<1>1. /\ c \in Conns
      /\ conn[c] \in Serving \cup {"upgraded"}
      /\ Ended
      /\ watchers' = watchers \ {c}
      /\ req' = [req EXCEPT ![c] = Cut(req[c])]
      /\ Cut(req[c]) \in [Reqs -> Settled]
  BY CutType DEF OpenFiles, Leave, Release, TypeOK
<1>2. TypeOK'
  BY <1>1 DEF TypeOK, ctlVars, Settled
<1>3. /\ InFlight(c)' = {}
      /\ \A d \in Conns \ {c} : InFlight(d)' = InFlight(d) /\ conn'[d] = conn[d]
      /\ conn'[c] = why
  BY <1>1 DEF InFlight, TypeOK, Running, Settled
<1>4. Live' = Live \ {c}
  BY <1>1, <1>3 DEF Live, Serving, Over
<1>5. HandlersHaveConn' /\ SerialH1'
  BY <1>3 DEF HandlersHaveConn, SerialH1, Over
<1>6. NoNoticeWhileServing' /\ OutcomeOnReturn' /\ StopsOnlyOnSignal'
  BY DEF NoNoticeWhileServing, OutcomeOnReturn, StopsOnlyOnSignal, ctlVars
<1>7. WatchExact' /\ GracefulMeansDrained'
  BY <1>1, <1>3, <1>4 DEF WatchExact, GracefulMeansDrained, ctlVars
<1>8. ListenerClosed' /\ NoIdleAfterNotice'
  BY <1>2, <1>3 DEF ListenerClosed, NoIdleAfterNotice, ctlVars, Over, TypeOK
<1>9. RequestsLostOnlyTo'
  <2> SUFFICES ASSUME NEW d \in Conns, NEW r \in Reqs, req'[d][r] = "cut"
               PROVE  \/ conn'[d] \in {"clientClosed", "timedOut"}
                      \/ conn'[d] = "aborted" /\ outcome' = "forced"
    BY DEF RequestsLostOnlyTo
  <2>1. CASE d # c
    BY <1>1, <1>3, <2>1 DEF RequestsLostOnlyTo, ctlVars, TypeOK
  <2>2. CASE d = c /\ InFlight(c) = {}
    <3>1. req[c][r] = "cut"
      BY <1>1, <2>2, CutType DEF InFlight, TypeOK, Running
    <3>2. QED
      BY <1>1, <3>1 DEF RequestsLostOnlyTo, Serving
  <2>3. CASE d = c /\ why \in {"clientClosed", "timedOut"}
    BY <1>3, <2>3
  <2>4. QED BY <2>1, <2>2, <2>3
<1>10. QED BY <1>2, <1>5, <1>6, <1>7, <1>8, <1>9

\* A step of one request slot of a live connection that goes on living.
LEMMA RequestKeeps ==
    ASSUME IInv, NEW c \in Conns, NEW r \in Reqs, NEW s \in (Running \cup Settled) \ {"cut"},
           NEW v \in {"h1", "h2"},
           conn[c] \in {"head", "h1", "h2"},
           conn' = [conn EXCEPT ![c] = v],
           req' = [req EXCEPT ![c][r] = s],
           UNCHANGED <<ctlVars, watchers, told>>,
           v = "h1" => \/ s \in Running /\ InFlight(c) \subseteq {r}
                       \/ s \notin Running /\ c \notin told /\ conn[c] = "h1"
    PROVE  IInv'
<1> USE DEF IInv
<1>1. TypeOK'
  BY DEF TypeOK, ctlVars, Settled, Serving
<1>2. /\ \A d \in Conns : conn'[d] = IF d = c THEN v ELSE conn[d]
      /\ \A d \in Conns \ {c} : InFlight(d)' = InFlight(d)
      /\ InFlight(c)' = IF s \in Running THEN InFlight(c) \cup {r} ELSE InFlight(c) \ {r}
  BY DEF InFlight, TypeOK, Running
<1>3. HandlersHaveConn' /\ SerialH1'
  BY <1>2 DEF HandlersHaveConn, SerialH1
<1>4. NoNoticeWhileServing' /\ OutcomeOnReturn' /\ StopsOnlyOnSignal' /\ ListenerClosed'
  BY <1>2 DEF NoNoticeWhileServing, OutcomeOnReturn, StopsOnlyOnSignal, ListenerClosed, ctlVars
<1>5. Live' = Live /\ c \in Live
  BY <1>2 DEF Live, Serving
<1>6. WatchExact' /\ GracefulMeansDrained'
  BY <1>5 DEF WatchExact, GracefulMeansDrained, ctlVars
<1>7. NoIdleAfterNotice'
  <2> SUFFICES ASSUME NEW d \in told
               PROVE  conn'[d] # "fresh" /\ (conn'[d] = "h1" => InFlight(d)' # {})
    BY DEF NoIdleAfterNotice
  <2>1. CASE d = c
    BY <1>2, <2>1
  <2>2. CASE d # c
    BY <1>2, <2>2 DEF NoIdleAfterNotice, TypeOK
  <2>3. QED BY <2>1, <2>2
<1>8. RequestsLostOnlyTo'
  BY <1>2 DEF RequestsLostOnlyTo, ctlVars, TypeOK, Running
<1>9. QED BY <1>1, <1>3, <1>4, <1>6, <1>7, <1>8

\* A step in which an HTTP/1 connection ends with the request it served.
LEMMA LastRequestKeeps ==
    ASSUME IInv, NEW c \in Conns, NEW r \in InFlight(c), NEW s \in {"answered", "dropped", "failed"},
           NEW why \in {"finished", "dropped", "failed", "upgraded"},
           conn[c] = "h1",
           req' = [req EXCEPT ![c][r] = s],
           Release(c, why),
           UNCHANGED <<ctlVars, told>>
    PROVE  IInv'
<1> USE DEF IInv
<1>1. /\ r \in Reqs
      /\ conn' = [conn EXCEPT ![c] = why]
      /\ watchers' = watchers \ {c}
  BY DEF InFlight, Release
<1>2. TypeOK'
  BY <1>1 DEF TypeOK, ctlVars, Settled, Over
<1>3. /\ \A d \in Conns \ {c} : InFlight(d)' = InFlight(d) /\ conn'[d] = conn[d]
      /\ InFlight(c)' = {}
      /\ conn'[c] = why
  BY <1>1 DEF InFlight, TypeOK, Running, SerialH1
<1>4. Live' = Live \ {c}
  BY <1>1, <1>3 DEF Live, Serving, TypeOK
<1>5. HandlersHaveConn' /\ SerialH1'
  BY <1>3 DEF HandlersHaveConn, SerialH1
<1>6. NoNoticeWhileServing' /\ OutcomeOnReturn' /\ StopsOnlyOnSignal'
  BY DEF NoNoticeWhileServing, OutcomeOnReturn, StopsOnlyOnSignal, ctlVars
<1>7. WatchExact' /\ GracefulMeansDrained'
  BY <1>1, <1>3, <1>4 DEF WatchExact, GracefulMeansDrained, ctlVars
<1>8. ListenerClosed' /\ NoIdleAfterNotice'
  BY <1>2, <1>3 DEF ListenerClosed, NoIdleAfterNotice, ctlVars, TypeOK
<1>9. RequestsLostOnlyTo'
  <2> SUFFICES ASSUME NEW d \in Conns, NEW q \in Reqs, req'[d][q] = "cut"
               PROVE  \/ conn'[d] \in {"clientClosed", "timedOut"}
                      \/ conn'[d] = "aborted" /\ outcome' = "forced"
    BY DEF RequestsLostOnlyTo
  <2>1. req[d][q] = "cut"
    BY <1>1 DEF TypeOK
  <2>2. QED
    BY <1>3, <2>1 DEF RequestsLostOnlyTo, ctlVars
<1>10. QED BY <1>2, <1>5, <1>6, <1>7, <1>8, <1>9

LEMMA IInvNext == IInv /\ [Next]_vars => IInv'
<1> SUFFICES ASSUME IInv, [Next]_vars PROVE IInv'
  OBVIOUS
<1> USE DEF IInv
<1>1. TypeOK'
  BY TypeNext
<1>2. ASSUME UNCHANGED connVars,
             \/ /\ phase' = phase /\ outcome' = outcome
                /\ signal \in {"sent", "dropped"} => signal' = signal
             \/ /\ phase = "binding" /\ phase' \in {"serving", "failed"}
                /\ outcome' = outcome /\ signal' = signal
             \/ /\ phase = "draining" /\ phase' = "returned"
                /\ signal' = signal
                /\ \/ outcome' = "graceful" /\ watchers = {}
                   \/ outcome' = "forced"
      PROVE  IInv'
  <2>1. Live' = Live /\ \A c \in Conns : InFlight(c)' = InFlight(c)
    BY <1>2 DEF connVars, Live, InFlight
  <2>2. HandlersHaveConn' /\ SerialH1' /\ NoIdleAfterNotice' /\ WatchExact'
    BY <1>2, <2>1 DEF connVars, HandlersHaveConn, SerialH1, NoIdleAfterNotice, WatchExact,
       TypeOK
  <2>3. NoNoticeWhileServing' /\ OutcomeOnReturn' /\ StopsOnlyOnSignal' /\ ListenerClosed'
    BY <1>2 DEF connVars, NoNoticeWhileServing, OutcomeOnReturn, StopsOnlyOnSignal,
       ListenerClosed, TypeOK
  <2>4. GracefulMeansDrained'
    BY <1>2, <2>1 DEF connVars, GracefulMeansDrained, WatchExact, HandlersHaveConn,
       OutcomeOnReturn, Live, Serving
  <2>5. RequestsLostOnlyTo'
    BY <1>2 DEF connVars, RequestsLostOnlyTo, OutcomeOnReturn
  <2>6. QED BY <1>1, <2>2, <2>3, <2>4, <2>5
<1>3. CASE ListenForSignal \/ SenderGone \/ SignalArrives
  BY <1>2, <1>3 DEF ListenForSignal, SenderGone, SignalArrives
<1>4. CASE Bind \/ BindFails \/ DrainComplete \/ DrainTimeout
  BY <1>2, <1>4 DEF Bind, BindFails, DrainComplete, DrainTimeout
<1>5. CASE TakeShutdown
  <2>1. Live' = Live /\ \A c \in Conns : InFlight(c)' = InFlight(c)
    BY <1>5 DEF TakeShutdown, Live, InFlight, Serving, TypeOK
  <2>2. HandlersHaveConn' /\ SerialH1' /\ NoIdleAfterNotice' /\ WatchExact'
    BY <1>5, <2>1 DEF TakeShutdown, HandlersHaveConn, SerialH1, NoIdleAfterNotice,
       WatchExact, TypeOK
  <2>3. /\ NoNoticeWhileServing' /\ OutcomeOnReturn' /\ StopsOnlyOnSignal'
        /\ ListenerClosed' /\ GracefulMeansDrained'
    BY <1>5 DEF TakeShutdown, NoNoticeWhileServing, OutcomeOnReturn, StopsOnlyOnSignal,
       ListenerClosed, GracefulMeansDrained, TypeOK
  <2>4. RequestsLostOnlyTo'
    BY <1>5 DEF TakeShutdown, RequestsLostOnlyTo, TypeOK
  <2>5. QED BY <1>1, <2>2, <2>3, <2>4
<1>6. ASSUME NEW c \in Conns, Accept(c) PROVE IInv'
  <2>1. Live' = Live \cup {c} /\ \A d \in Conns : InFlight(d)' = InFlight(d)
    BY <1>6 DEF Accept, Live, InFlight, Serving, TypeOK
  <2>2. WatchExact' /\ NoIdleAfterNotice' /\ HandlersHaveConn' /\ SerialH1'
    BY <1>6, <2>1 DEF Accept, WatchExact, NoIdleAfterNotice, NoNoticeWhileServing,
       HandlersHaveConn, SerialH1, TypeOK
  <2>3. /\ NoNoticeWhileServing' /\ OutcomeOnReturn' /\ StopsOnlyOnSignal'
        /\ ListenerClosed' /\ GracefulMeansDrained' /\ RequestsLostOnlyTo'
    BY <1>6 DEF Accept, ctlVars, NoNoticeWhileServing, OutcomeOnReturn, StopsOnlyOnSignal,
       ListenerClosed, GracefulMeansDrained, RequestsLostOnlyTo, TypeOK
  <2>4. QED BY <1>1, <2>2, <2>3
<1>7. ASSUME NEW c \in Conns, AcceptError(c) \/ Connect(c) PROVE IInv'
  <2>1. /\ phase = "serving" /\ UNCHANGED <<ctlVars, watchers, told>>
        /\ conn[c] \notin Serving /\ conn'[c] \in {"queued", "clientClosed"}
        /\ \A d \in Conns \ {c} : conn'[d] = conn[d] /\ req'[d] = req[d]
        /\ \/ req'[c] = req[c] /\ conn'[c] = "clientClosed"
           \/ req'[c] = [r \in Reqs |-> "free"]
    BY <1>7 DEF AcceptError, Connect, Serving, Over, TypeOK
  <2>2. /\ Live' = Live
        /\ \A d \in Conns \ {c} : InFlight(d)' = InFlight(d)
        /\ InFlight(c)' = {}
    BY <2>1 DEF Live, InFlight, Serving, Running, HandlersHaveConn
  <2>3. HandlersHaveConn' /\ SerialH1' /\ WatchExact' /\ NoIdleAfterNotice'
    BY <2>1, <2>2 DEF HandlersHaveConn, SerialH1, WatchExact, NoIdleAfterNotice,
       NoNoticeWhileServing, ctlVars
  <2>4. /\ NoNoticeWhileServing' /\ OutcomeOnReturn' /\ StopsOnlyOnSignal'
        /\ ListenerClosed' /\ GracefulMeansDrained'
    BY <2>1 DEF ctlVars, NoNoticeWhileServing, OutcomeOnReturn, StopsOnlyOnSignal,
       ListenerClosed, GracefulMeansDrained
  <2>5. RequestsLostOnlyTo'
    BY <2>1 DEF RequestsLostOnlyTo, ctlVars
  <2>6. QED BY <1>1, <2>3, <2>4, <2>5
<1>8. CASE Exit
  <2>1. /\ Live' = {}
        /\ \A c \in Conns : InFlight(c)' = {}
    BY <1>8, CutType DEF Exit, Live, InFlight, OpenFiles, Serving, Running, Settled, TypeOK
  <2>2. HandlersHaveConn' /\ SerialH1' /\ WatchExact' /\ GracefulMeansDrained'
    BY <1>8, <2>1 DEF Exit, HandlersHaveConn, SerialH1, WatchExact, GracefulMeansDrained
  <2>3. NoNoticeWhileServing' /\ OutcomeOnReturn' /\ StopsOnlyOnSignal'
    BY <1>8 DEF Exit, NoNoticeWhileServing, OutcomeOnReturn, StopsOnlyOnSignal
  <2>4. ListenerClosed' /\ NoIdleAfterNotice'
    BY <1>8 DEF Exit, ListenerClosed, NoIdleAfterNotice, OpenFiles, Serving, TypeOK
  <2>5. RequestsLostOnlyTo'
    <3> SUFFICES ASSUME NEW c \in Conns, NEW r \in Reqs, req'[c][r] = "cut"
                 PROVE  \/ conn'[c] \in {"clientClosed", "timedOut"}
                        \/ conn'[c] = "aborted" /\ outcome' = "forced"
      BY DEF RequestsLostOnlyTo
    <3>1. CASE req[c][r] \in Running
      <4>1. InFlight(c) # {}
        BY <3>1 DEF InFlight
      <4>2. c \in OpenFiles /\ outcome = "forced"
        BY <1>8, <4>1 DEF Exit, HandlersHaveConn, GracefulMeansDrained, OutcomeOnReturn,
           OpenFiles, Serving, TypeOK
      <4>3. QED BY <1>8, <4>2 DEF Exit
    <3>2. CASE req[c][r] = "cut"
      BY <1>8, <3>2 DEF Exit, RequestsLostOnlyTo, OpenFiles, Serving
    <3>3. QED BY <1>8, <3>1, <3>2, CutType DEF Exit, TypeOK
  <2>6. QED BY <1>1, <2>2, <2>3, <2>4, <2>5
<1>9. ASSUME NEW c \in Conns, NEW version \in {"head", "h2"},
             Negotiate(c, version) \/ (version = "head" /\ HeadBegins(c))
      PROVE  IInv'
  <2>1. /\ conn[c] \in {"fresh", "h1"} /\ conn' = [conn EXCEPT ![c] = version]
        /\ UNCHANGED <<ctlVars, watchers, told, req>>
        /\ InFlight(c) = {} /\ c \notin told
    BY <1>9 DEF Negotiate, HeadBegins, HandlersHaveConn, NoIdleAfterNotice
  <2>2. Live' = Live /\ \A d \in Conns : InFlight(d)' = InFlight(d)
    BY <2>1 DEF Live, InFlight, Serving, TypeOK
  <2>3. HandlersHaveConn' /\ SerialH1' /\ WatchExact' /\ NoIdleAfterNotice'
    BY <2>1, <2>2 DEF HandlersHaveConn, SerialH1, WatchExact, NoIdleAfterNotice, TypeOK
  <2>4. /\ NoNoticeWhileServing' /\ OutcomeOnReturn' /\ StopsOnlyOnSignal'
        /\ ListenerClosed' /\ GracefulMeansDrained' /\ RequestsLostOnlyTo'
    BY <2>1, <2>2 DEF ctlVars, NoNoticeWhileServing, OutcomeOnReturn,
       StopsOnlyOnSignal, ListenerClosed, GracefulMeansDrained, RequestsLostOnlyTo, TypeOK
  <2>5. QED BY <1>1, <2>3, <2>4
<1>10. ASSUME NEW c \in Conns, ObserveDrain(c) PROVE IInv'
  <2>1. CASE \/ conn[c] = "fresh" /\ Leave(c, "cancelled")
             \/ conn[c] = "head" /\ Leave(c, "finished")
             \/ conn[c] = "h1" /\ InFlight(c) = {} /\ Leave(c, "finished")
    <3>1. c \in OpenFiles /\ InFlight(c) = {}
      BY <2>1 DEF OpenFiles, Serving, HandlersHaveConn
    <3>2. QED BY <1>10, <2>1, <3>1, LeaveKeeps DEF ObserveDrain, Over
  <2>2. CASE /\ conn[c] = "h1" => InFlight(c) # {}
             /\ conn[c] # "fresh"
             /\ UNCHANGED <<conn, watchers, req>>
    <3>1. Live' = Live /\ \A d \in Conns : InFlight(d)' = InFlight(d)
      BY <2>2 DEF Live, InFlight
    <3>2. HandlersHaveConn' /\ SerialH1' /\ WatchExact' /\ NoIdleAfterNotice'
      BY <1>10, <2>2, <3>1 DEF ObserveDrain, HandlersHaveConn, SerialH1, WatchExact,
         NoIdleAfterNotice, TypeOK
    <3>3. /\ NoNoticeWhileServing' /\ OutcomeOnReturn' /\ StopsOnlyOnSignal'
          /\ ListenerClosed' /\ GracefulMeansDrained' /\ RequestsLostOnlyTo'
      BY <1>10, <2>2, <3>1 DEF ObserveDrain, ctlVars, NoNoticeWhileServing,
         OutcomeOnReturn, StopsOnlyOnSignal, ListenerClosed, GracefulMeansDrained,
         RequestsLostOnlyTo
    <3>4. QED BY <1>1, <3>2, <3>3
  <2>3. QED BY <1>10, <2>1, <2>2 DEF ObserveDrain
<1>11. ASSUME NEW c \in Conns, FinishH2(c) \/ IdleTimeout(c) \/ UpgradedEnds(c) \/ ClientClose(c)
       PROVE  IInv'
  <2>1. c \in OpenFiles
    BY <1>11 DEF FinishH2, IdleTimeout, UpgradedEnds, ClientClose, OpenFiles, Serving
  <2>2. CASE FinishH2(c) \/ UpgradedEnds(c)
    <3>1. InFlight(c) = {}
      BY <2>2 DEF FinishH2, UpgradedEnds, HandlersHaveConn
    <3>2. QED BY <2>1, <2>2, <3>1, LeaveKeeps DEF FinishH2, UpgradedEnds, Over
  <2>3. CASE IdleTimeout(c) \/ ClientClose(c)
    BY <2>1, <2>3, LeaveKeeps DEF IdleTimeout, ClientClose, Over
  <2>4. QED BY <1>11, <2>2, <2>3
<1>12. ASSUME NEW c \in Conns, NEW r \in Reqs, Request(c, r) \/ ResetStream(c, r)
       PROVE  IInv'
  <2>1. CASE Request(c, r)
    <3>1. InFlight(c) = {} \/ conn[c] = "h2"
      BY <2>1 DEF Request, HandlersHaveConn
    <3>2. PICK v \in {"h1", "h2"} :
            /\ conn' = [conn EXCEPT ![c] = v]
            /\ v = "h1" => conn[c] = "head"
      BY <2>1 DEF Request, TypeOK
    <3>3. PICK s \in Running : req' = [req EXCEPT ![c][r] = s]
      BY <2>1 DEF Request, Running
    <3>4. /\ s \in (Running \cup Settled) \ {"cut"}
          /\ conn[c] \in {"head", "h1", "h2"}
          /\ UNCHANGED <<ctlVars, watchers, told>>
      BY <2>1, <3>3 DEF Request, Running
    <3>5. v = "h1" => s \in Running /\ InFlight(c) \subseteq {r}
      BY <3>1, <3>2, <3>3
    <3>6. QED BY <3>2, <3>3, <3>4, <3>5, RequestKeeps
  <2>2. CASE ResetStream(c, r)
    <3>1. conn' = [conn EXCEPT ![c] = "h2"]
      BY <2>2 DEF ResetStream, TypeOK
    <3>2. QED BY <2>2, <3>1, RequestKeeps DEF ResetStream, Settled
  <2>3. QED BY <1>12, <2>1, <2>2
<1>13. ASSUME NEW c \in Conns, NEW r \in Reqs, Handler(c, r) PROVE IInv'
  <2> DEFINE Stays == conn' = [conn EXCEPT ![c] = conn[c]]
  <2>1. r \in InFlight(c) /\ conn[c] \in {"h1", "h2"}
    BY <1>13 DEF Handler, Continue, Drop, Answer, HandlerFails, Upgrade, InFlight, Running,
       HandlersHaveConn
  <2>0. UNCHANGED conn => Stays
    BY DEF TypeOK
  <2>2. conn[c] = "h1" => InFlight(c) \subseteq {r}
    BY <2>1 DEF SerialH1
  <2>3. CASE Continue(c, r)
    BY <2>0, <2>1, <2>2, <2>3, RequestKeeps DEF Continue, Running
  <2>4. CASE Drop(c, r) \/ HandlerFails(c, r)
    <3>1. CASE conn[c] = "h1"
      BY <2>1, <2>4, <3>1, LastRequestKeeps DEF Drop, HandlerFails
    <3>2. CASE conn[c] = "h2"
      BY <2>0, <2>4, <3>2, RequestKeeps DEF Drop, HandlerFails, Settled
    <3>3. QED BY <2>1, <3>1, <3>2
  <2>5. CASE Answer(c, r)
    <3>1. CASE conn[c] = "h1" /\ Release(c, "finished")
      BY <2>1, <2>5, <3>1, LastRequestKeeps DEF Answer
    <3>2. CASE (conn[c] = "h2" \/ c \notin told) /\ UNCHANGED <<conn, watchers>>
      BY <2>0, <2>1, <2>5, <3>2, RequestKeeps DEF Answer, Running, Settled
    <3>3. QED BY <2>5, <3>1, <3>2 DEF Answer
  <2>6. CASE Upgrade(c, r)
    BY <2>1, <2>6, LastRequestKeeps DEF Upgrade
  <2>7. QED BY <1>13, <2>3, <2>4, <2>5, <2>6 DEF Handler
<1>14. CASE UNCHANGED vars
  BY <1>2, <1>14 DEF vars, connVars
<1>15. QED
  BY <1>3, <1>4, <1>5, <1>6, <1>7, <1>8, <1>9, <1>10, <1>11, <1>12, <1>13, <1>14
     DEF Next, Loop, Task, Client

\* The strengthening holds in every reachable state.
THEOREM Invariance == Spec => []IInv
  BY IInvInit, IInvNext, PTL DEF Spec

\* The drain waits for exactly the connections whose task runs.
THEOREM WatchIsExact == Spec => []WatchExact
  BY Invariance, PTL DEF IInv

\* "Gracefully shutdown!" is logged only when no connection task is left and
\* no handler is at work.
THEOREM GracefulIsDrained == Spec => []GracefulMeansDrained
  BY Invariance, PTL DEF IInv

\* The accept loop ends for the shutdown channel only.
THEOREM OnlySignalStops == Spec => []StopsOnlyOnSignal
  BY Invariance, PTL DEF IInv

\* No client is left in the queue of a listener that is gone.
THEOREM QueueIsClosed == Spec => []ListenerClosed
  BY Invariance, PTL DEF IInv

\* After the notice a connection lives for the work it has begun, the head of a
\* first request included, and no more.
THEOREM NoticeEndsIdle == Spec => []NoIdleAfterNotice
  BY Invariance, PTL DEF IInv

\* A handler that is cut short, and did not panic and was not reset by its
\* client, went with its connection, by its client, its idle timer or the end
\* of the ten seconds.
THEOREM LossHasCause == Spec => []RequestsLostOnlyTo
  BY Invariance, PTL DEF IInv

(***************************************************************************)
(* The server implements the safety part of Drain: the initial states map  *)
(* to initial states, and every step to a step or a stutter.               *)
(***************************************************************************)

LEMMA DrainInit == Init => Promise!Init
  BY DEF Init, Promise!Init, Mode, Live, Serving

LEMMA DrainNext == IInv /\ [Next]_vars => [Promise!Next]_(Promise!vars)
<1> SUFFICES ASSUME IInv, [Next]_vars PROVE [Promise!Next]_(Promise!vars)
  OBVIOUS
<1> USE DEF IInv, Promise!vars, Mode
\* What a step that only takes connections away maps to.
<1>1. ASSUME UNCHANGED ctlVars, Live' \subseteq Live PROVE [Promise!Next]_(Promise!vars)
  BY <1>1 DEF ctlVars, Promise!Next, Promise!Depart
<1>2. CASE ListenForSignal \/ SenderGone \/ SignalArrives
  BY <1>2 DEF ListenForSignal, SenderGone, SignalArrives, connVars, Live
<1>3. CASE Bind \/ BindFails
  BY <1>3 DEF Bind, BindFails, connVars, Live, Promise!Next, Promise!Open
<1>4. ASSUME NEW c \in Conns, Accept(c) PROVE [Promise!Next]_(Promise!vars)
  <2>1. c \notin Live /\ Live' = Live \cup {c}
    BY <1>4 DEF Accept, Live, Serving, TypeOK
  <2>2. Promise!Admit(c)
    BY <1>4, <2>1 DEF Accept, ctlVars, Promise!Admit
  <2>3. QED BY <2>2 DEF Promise!Next
<1>5. ASSUME NEW c \in Conns, AcceptError(c) \/ Connect(c) PROVE [Promise!Next]_(Promise!vars)
  <2>1. Live' \subseteq Live /\ UNCHANGED ctlVars
    BY <1>5 DEF AcceptError, Connect, Live, Serving, TypeOK
  <2>2. QED BY <1>1, <2>1
<1>6. CASE TakeShutdown
  <2>1. Live' = Live
    BY <1>6 DEF TakeShutdown, Live, Serving, TypeOK
  <2>2. QED BY <1>6, <2>1 DEF TakeShutdown, Promise!Next, Promise!Stop
<1>7. CASE DrainComplete
  BY <1>7 DEF DrainComplete, connVars, Live, WatchExact, Promise!Next, Promise!Finish
<1>8. CASE DrainTimeout
  BY <1>8 DEF DrainTimeout, connVars, Live, Promise!Next, Promise!GiveUp
<1>9. CASE Exit
  <2>1. Live' = {} /\ Mode' = Mode
    BY <1>9 DEF Exit, Live, OpenFiles, Serving, TypeOK
  <2>2. QED BY <2>1 DEF Promise!Next, Promise!Depart
<1>10. ASSUME NEW c \in Conns, NEW why \in {"clientClosed", "timedOut", "finished", "cancelled"},
              Leave(c, why)
       PROVE  Live' \subseteq Live
  BY <1>10 DEF Leave, Release, Live, Serving, TypeOK
<1>11. ASSUME NEW c \in Conns, Task(c) \/ Client(c) PROVE [Promise!Next]_(Promise!vars)
  <2>1. CASE Connect(c)
    BY <1>5, <2>1
  <2>2. CASE \E version \in {"head", "h2"} : Negotiate(c, version)
    <3>1. Live' \subseteq Live /\ UNCHANGED ctlVars
      BY <2>2 DEF Negotiate, Live, Serving, TypeOK
    <3>2. QED BY <1>1, <3>1
  <2>3. CASE ObserveDrain(c)
    <3>1. Live' \subseteq Live
      BY <1>10, <2>3 DEF ObserveDrain, Live
    <3>2. QED BY <1>1, <2>3, <3>1 DEF ObserveDrain
  <2>4. CASE FinishH2(c) \/ IdleTimeout(c) \/ UpgradedEnds(c) \/ ClientClose(c)
    BY <1>1, <1>10, <2>4 DEF FinishH2, IdleTimeout, UpgradedEnds, ClientClose
  <2>5. CASE \/ HeadBegins(c)
             \/ \E r \in Reqs : Request(c, r) \/ ResetStream(c, r)
    <3>1. Live' \subseteq Live /\ UNCHANGED ctlVars
      BY <2>5 DEF HeadBegins, Request, ResetStream, Live, Serving, TypeOK
    <3>2. QED BY <1>1, <3>1
  <2>6. QED BY <1>11, <2>1, <2>2, <2>3, <2>4, <2>5 DEF Task, Client
<1>12. ASSUME NEW c \in Conns, NEW r \in Reqs, Handler(c, r) PROVE [Promise!Next]_(Promise!vars)
  <2>1. UNCHANGED ctlVars
    BY <1>12 DEF Handler, Continue, Drop, Answer, HandlerFails, Upgrade
  <2>2. \/ UNCHANGED conn
        \/ \E why \in {"finished", "dropped", "failed", "upgraded"} : Release(c, why)
    BY <1>12 DEF Handler, Continue, Drop, Answer, HandlerFails, Upgrade
  <2>3. Live' \subseteq Live
    BY <2>2 DEF Release, Live, Serving, TypeOK
  <2>4. QED BY <1>1, <2>1, <2>3
<1>13. CASE UNCHANGED vars
  BY <1>13 DEF vars, Live
<1>14. QED
  BY <1>2, <1>3, <1>4, <1>5, <1>6, <1>7, <1>8, <1>9, <1>11, <1>12, <1>13 DEF Next, Loop

\* Every behaviour of the server is one the promise allows, its liveness aside.
THEOREM ServerKeepsPromise == Spec => Promise!Init /\ [][Promise!Next]_(Promise!vars)
  BY DrainInit, DrainNext, Invariance, PTL DEF Spec

(***************************************************************************)
(* What the promise is worth: shown of Drain, and carried over.            *)
(***************************************************************************)

PromiseSafety == Promise!Init /\ [][Promise!Next]_(Promise!vars)

\* The promise implies that a graceful end means nothing is left to serve.
THEOREM PromiseIsDrained == PromiseSafety => []Promise!GracefulIsEmpty
<1> USE DEF Promise!GracefulIsEmpty, Promise!vars
<1>1. Promise!Init => Promise!GracefulIsEmpty
  BY DEF Promise!Init
<1>2. Promise!GracefulIsEmpty /\ [Promise!Next]_(Promise!vars) => Promise!GracefulIsEmpty'
  BY DEF Promise!Next, Promise!Open, Promise!Admit, Promise!Depart, Promise!Stop,
         Promise!Finish, Promise!GiveUp
<1>3. QED BY <1>1, <1>2, PTL DEF PromiseSafety

\* The promise implies that a server once stopped serves fewer and fewer.
THEOREM PromiseIsFinal == PromiseSafety => Promise!StoppedForGood
<1>1. [Promise!Next]_(Promise!vars)
        => [/\ Mode # "open" => Live' \subseteq Live
            /\ Mode \notin {"closed", "open"} => Mode' \notin {"closed", "open"}]_(Promise!vars)
  BY DEF Promise!vars, Promise!Next, Promise!Open, Promise!Admit, Promise!Depart,
         Promise!Stop, Promise!Finish, Promise!GiveUp
<1>2. QED BY <1>1, PTL DEF PromiseSafety, Promise!StoppedForGood

\* So no connection is admitted once Server::run has left its loop, whatever is
\* still queued or connects, and run() never serves again.
THEOREM NeverReopens == Spec => Promise!StoppedForGood
  BY ServerKeepsPromise, PromiseIsFinal, PTL DEF PromiseSafety
=============================================================================
