-------------------------- MODULE ConnectionProofs --------------------------
(***************************************************************************)
(* What holds of Connection for every interval whose deadlines Instant can *)
(* represent, every number of flights and every rate at which bytes come.  *)
(***************************************************************************)
EXTENDS Connection, TLAPS

Representable == ~Unrepresentable

(***************************************************************************)
(* The inductive invariant.                                                *)
(***************************************************************************)

\* As long as the task lives, the future of an unfinished handshake can be
\* polled, and hyper has nothing yet to do but read.
Unfinished ==
    tls = "Handshaking" /\ task # "done" =>
        /\ accept = "inProgress"
        /\ flights > 0
        /\ proto = "version"

\* A handshake spends the one interval it was given, and a task that waits for
\* it will be woken.
OneInterval ==
    tls = "Handshaking" /\ task # "done" =>
        /\ age + left = Timeout
        /\ waits => (waker /\ left > 0) \/ notified
        /\ task = "parked" => waits

Ended == result = "none" <=> task # "done"

\* The deadline tells the truth: as long as the task lives it lies a whole
\* interval after the last operation that completed.
TrueDeadline == task # "done" => left + idle = Timeout

IInv == /\ Representable
        /\ TypeOK
        /\ Unfinished
        /\ OneInterval
        /\ TrueDeadline
        /\ Ended
        /\ NeverPanics
        /\ NoHollowSuccess

LEMMA IInvInit == Representable /\ Init => IInv
<1> SUFFICES ASSUME Representable, Init PROVE IInv
  OBVIOUS
<1>1. TypeOK
  <2>1. waits \in BOOLEAN /\ notified \in BOOLEAN /\ waker \in BOOLEAN /\ hollow \in BOOLEAN
    BY Zenon DEF Init
  <2>2. QED
    BY <2>1, TimeoutAssumption, FlightsAssumption, MaxBurstAssumption DEF Init, TypeOK, Mail
<1>2. OneInterval
  <2>1. ~waits
    BY Zenon DEF Init
  <2>2. QED BY <2>1, TimeoutAssumption DEF Init, OneInterval
<1>3. NoHollowSuccess
  BY Zenon DEF Init, NoHollowSuccess
<1>4. QED
  BY <1>1, <1>2, <1>3, TimeoutAssumption, FlightsAssumption
  DEF Init, IInv, Unfinished, TrueDeadline, Ended, NeverPanics

(***************************************************************************)
(* One poll.                                                               *)
(***************************************************************************)

\* What a poll of the stream does, as far as the rest needs it: without a
\* session it is a read that waits or fails, and the session is never lost.
LEMMA TlsPollKeeps ==
    ASSUME IInv, NEW op \in Ops, MayPoll(op),
           NEW res \in {"pending", "data", "eof", "done", "err", "panic"},
           TlsPoll(op, res)
    PROVE  /\ tls' \in {"Handshaking", "Streaming"}
           /\ accept' \in {"inProgress", "returned"}
           /\ flights' \in 0..Flights
           /\ inbox' \in Mail
           /\ res # "panic"
           /\ UNCHANGED hollow
           /\ tls' = "Handshaking" =>
                /\ tls = "Handshaking"
                /\ flights' > 0
                /\ \/ res = "err"
                   \/ res = "pending" /\ accept' = "inProgress"
<1> USE DEF IInv, TypeOK, Unfinished, MayPoll, NoHollowSuccess
<1>1. CASE op \in {"read", "write"} /\ Drive(res)
  <2>1. tls = "Handshaking" /\ accept = "inProgress" /\ flights > 0 /\ UNCHANGED <<tls, hollow>>
    BY <1>1 DEF Drive
  <2>2. CASE inbox \in {"garbage", "eof"}
    BY <1>1, <2>1, <2>2 DEF Drive, peerVars
  <2>3. CASE inbox \notin {"garbage", "eof"}
    <3>1. /\ res = "pending" /\ inbox' = "empty" /\ UNCHANGED accept
          /\ flights' = IF inbox = "flight" THEN flights - 1 ELSE flights
          /\ inbox = "flight" => flights # 1
      BY <1>1, <2>1, <2>3 DEF Drive, Completes
    <3>2. flights' \in 0..Flights /\ flights' > 0
      BY <2>1, <3>1, FlightsAssumption
    <3>3. QED BY <2>1, <3>1, <3>2 DEF Mail
  <2>4. QED BY <2>2, <2>3
<1>2. CASE op \in {"read", "write"} /\ Establish(op, res)
  BY <1>2, FlightsAssumption DEF Establish, Completes, Mail
<1>3. CASE Streams(op, res)
  BY <1>3 DEF Streams, Mail
<1>4. CASE NotYet(op, res)
  BY <1>4 DEF NotYet
<1>5. QED BY <1>1, <1>2, <1>3, <1>4 DEF TlsPoll

LEMMA PollKeeps == \A op \in Ops : IInv /\ Poll(op) => IInv'
<1> SUFFICES ASSUME NEW op \in Ops, IInv, Poll(op) PROVE IInv'
  OBVIOUS
<1>1. PICK got \in {"pending", "data", "eof", "done", "err", "panic", "timedOut"} :
        /\ TimedPoll(op, got)
        /\ \/ got = "timedOut" /\ Ends("timedOut")
           \/ got = "err" /\ Ends("failed")
           \/ got = "panic" /\ Ends("panicked")
           \/ got = "done" /\ op = "shutdown" /\ Ends("shutdown")
           \/ /\ \/ got \in {"pending", "data", "eof"}
                 \/ got = "done" /\ op # "shutdown"
              /\ UNCHANGED <<task, result>>
        /\ proto' = IF got \in {"data", "eof"} /\ proto = "version" THEN "http"
                    ELSE IF got = "eof" /\ proto # "version" THEN "closing" ELSE proto
  BY DEF Poll
<1>2. PICK res \in {"pending", "data", "eof", "done", "err", "panic"} :
        /\ TlsPoll(op, res)
        /\ \/ Reset(res, got)
           \/ Pend(res, got)
           \/ res = "panic" /\ got = res /\ UNCHANGED <<left, waker, waits>>
        /\ idle' = IF res \in {"pending", "panic"} THEN idle ELSE 0
  BY <1>1 DEF TimedPoll
<1>3. MayPoll(op) /\ UNCHANGED <<burst, notified, age>> /\ task = "running"
  BY DEF Poll, MayPoll
<1>4. /\ tls' \in {"Handshaking", "Streaming"}
      /\ accept' \in {"inProgress", "returned"}
      /\ flights' \in 0..Flights
      /\ inbox' \in Mail
      /\ res # "panic"
      /\ UNCHANGED hollow
      /\ tls' = "Handshaking" =>
           /\ tls = "Handshaking"
           /\ flights' > 0
           /\ \/ res = "err"
              \/ res = "pending" /\ accept' = "inProgress"
  BY <1>2, <1>3, TlsPollKeeps
<1>5. CASE Reset(res, got)
  <2>1. /\ got = res /\ left' = Timeout /\ UNCHANGED <<waker, waits>> /\ res # "pending"
        /\ idle' = 0
    BY <1>2, <1>4, <1>5 DEF Reset, IInv, Representable
  <2>2. proto' \in {"version", "http", "closing"}
    BY <1>1 DEF IInv, TypeOK
  <2>3. /\ task' \in {"running", "parked", "done"}
        /\ result' \in {"none", "failed", "cancelled", "timedOut", "shutdown"}
        /\ Ended'
    BY <1>1, <1>4, <2>1 DEF Ends, IInv, TypeOK, Ended, NeverPanics
  <2>4. tls' = "Handshaking" => task' = "done"
    BY <1>1, <1>4, <2>1 DEF Ends
  <2>5. TypeOK'
    BY <1>3, <1>4, <2>1, <2>2, <2>3, TimeoutAssumption DEF IInv, TypeOK
  <2>6. QED
    BY <1>4, <2>1, <2>3, <2>4, <2>5, TimeoutAssumption
    DEF IInv, Unfinished, OneInterval, TrueDeadline, NeverPanics, NoHollowSuccess, Representable
<1>6. CASE Pend(res, got)
  <2>1. /\ waker' = (left > 0) /\ waits' = TRUE /\ UNCHANGED left /\ res = "pending"
        /\ got = IF left = 0 THEN "timedOut" ELSE "pending"
        /\ UNCHANGED idle
    BY <1>2, <1>6 DEF Pend
  <2>2. UNCHANGED proto
    BY <1>1, <2>1
  <2>3. /\ task' \in {"running", "done"}
        /\ result' \in {"none", "failed", "cancelled", "timedOut", "shutdown"}
        /\ Ended'
        /\ left = 0 => task' = "done"
    BY <1>1, <1>3, <2>1 DEF Ends, IInv, TypeOK, Ended, NeverPanics
  <2>4. TypeOK'
    <3>1. waits' \in BOOLEAN
      BY <2>1, Zenon
    <3>2. waker' \in BOOLEAN
      <4>1. (left > 0) \in BOOLEAN
        BY SMT
      <4>2. QED BY <2>1, <4>1, Zenon
    <3>3. QED BY <1>3, <1>4, <2>1, <2>2, <2>3, <3>1, <3>2 DEF IInv, TypeOK
  <2>5. Unfinished'
    BY <1>3, <1>4, <2>1, <2>2 DEF IInv, Unfinished
  <2>6. OneInterval'
    <3>1. left > 0 => waker'
      BY <2>1, Zenon
    <3>2. left # 0 => left > 0
      BY TimeoutAssumption DEF IInv, TypeOK
    <3>3. tls' = "Handshaking" /\ task' # "done" => tls = "Handshaking" /\ left # 0
      BY <1>4, <2>3
    <3>4. tls' = "Handshaking" /\ task' # "done" => age' + left' = Timeout
      BY <1>3, <2>1, <3>3 DEF IInv, OneInterval
    <3>5. tls' = "Handshaking" /\ task' # "done" => waker' /\ left' > 0
      BY <2>1, <3>1, <3>2, <3>3
    <3>6. QED BY <2>1, <2>3, <3>4, <3>5 DEF OneInterval
  <2>7. TrueDeadline'
    BY <1>3, <2>1 DEF IInv, TrueDeadline
  <2>8. QED
    BY <1>4, <2>3, <2>4, <2>5, <2>6, <2>7 DEF IInv, NeverPanics, NoHollowSuccess, Representable
<1>7. QED BY <1>2, <1>4, <1>5, <1>6

(***************************************************************************)
(* The steps.                                                              *)
(***************************************************************************)

LEMMA IInvNext == IInv /\ [Next]_vars => IInv'
<1> SUFFICES ASSUME IInv, [Next]_vars PROVE IInv'
  OBVIOUS
<1> USE TimeoutAssumption, MaxBurstAssumption
    DEF IInv, Representable, tlsVars, timerVars, clockVars, Ended, NeverPanics, NoHollowSuccess,
        TrueDeadline
<1>1. CASE Park
  BY <1>1 DEF Park, TypeOK, Unfinished, OneInterval
<1>2. CASE Run
  BY <1>2 DEF Run, TypeOK, Unfinished, OneInterval
<1>3. CASE BeginClose
  BY <1>3 DEF BeginClose, TypeOK, Unfinished, OneInterval
<1>4. CASE Notice
  BY <1>4 DEF Notice, Ends, TypeOK, Unfinished, OneInterval
<1>5. ASSUME NEW x \in Mail, PeerSends(x) PROVE IInv'
  <2>1. burst' \in 0..MaxBurst /\ inbox' \in Mail
    BY <1>5 DEF PeerSends, TypeOK
  <2>2. TypeOK'
    BY <1>5, <2>1 DEF PeerSends, TypeOK
  <2>3. Unfinished' /\ OneInterval'
    BY <1>5 DEF PeerSends, Unfinished, OneInterval
  <2>4. QED BY <1>5, <2>2, <2>3 DEF PeerSends
<1>6. CASE OtherWake
  BY <1>6 DEF OtherWake, TypeOK, Unfinished, OneInterval
<1>7. CASE Tick
  <2>1. /\ left' \in 0..Timeout /\ age' \in 0..(Timeout + 1) /\ burst' \in 0..MaxBurst
        /\ idle' \in 0..Timeout /\ left' + idle' = Timeout
    BY <1>7 DEF Tick, TypeOK
  <2>2. waker' \in BOOLEAN /\ notified' \in BOOLEAN
    BY <1>7, Zenon DEF Tick
  <2>3. TypeOK'
    BY <1>7, <2>1, <2>2 DEF Tick, TypeOK
  <2>4. Unfinished'
    BY <1>7 DEF Tick, Unfinished
  <2>5. OneInterval'
    BY <1>7 DEF Tick, TypeOK, OneInterval
  <2>6. QED BY <1>7, <2>1, <2>3, <2>4, <2>5 DEF Tick
<1>8. CASE UNCHANGED vars
  BY <1>8 DEF vars, TypeOK, Unfinished, OneInterval
<1>9. QED
  BY PollKeeps, <1>1, <1>2, <1>3, <1>4, <1>5, <1>6, <1>7, <1>8 DEF Next, Step

THEOREM Invariance == Representable /\ Spec => []IInv
  BY IInvInit, IInvNext, PTL DEF Spec

(***************************************************************************)
(* What follows.                                                           *)
(***************************************************************************)

\* Every variable keeps its type.
THEOREM TypeCorrect == Representable /\ Spec => []TypeOK
  BY Invariance, PTL DEF IInv

\* No future is polled after it has returned, and no deadline overflows.
THEOREM NobodyPanics == Representable /\ Spec => []NeverPanics
  BY Invariance, PTL DEF IInv

\* A flush or shutdown that succeeds has a session.
THEOREM SuccessIsReal == Representable /\ Spec => []NoHollowSuccess
  BY Invariance, PTL DEF IInv

\* A handshake never gets more than one interval.
THEOREM OneIntervalForAll == Representable /\ Spec => []HandshakeBounded
<1>1. IInv => HandshakeBounded
  BY TimeoutAssumption DEF IInv, TypeOK, OneInterval, Ended, HandshakeBounded
<1>2. QED BY <1>1, Invariance, PTL

(***************************************************************************)
(* A TLS connection implements an idle timer.                              *)
(***************************************************************************)

LEMMA TimerInit == Init => Promise!Init
  BY TimeoutAssumption DEF Init, Promise!Init

LEMMA TimerNext == IInv /\ [Next]_vars => [Promise!Next]_(Promise!vars)
<1> SUFFICES ASSUME IInv, [Next]_vars PROVE [Promise!Next]_(Promise!vars)
  OBVIOUS
<1> USE TimeoutAssumption DEF Promise!vars, Promise!Next, timerVars, clockVars, Ends
<1>0. /\ left \in 0..Timeout /\ idle \in 0..Timeout /\ ~Unrepresentable
      /\ task # "done" => left + idle = Timeout
  BY DEF IInv, TypeOK, TrueDeadline, Representable
<1>1. ASSUME NEW op \in Ops, Poll(op) PROVE [Promise!Next]_(Promise!vars)
  <2>1. PICK got \in {"pending", "data", "eof", "done", "err", "panic", "timedOut"},
             res \in {"pending", "data", "eof", "done", "err", "panic"} :
          /\ \/ got = "timedOut" /\ task' = "done" /\ result' = "timedOut"
             \/ /\ got # "timedOut" /\ got # "pending"
                /\ task' = "done" /\ result' \in {"failed", "panicked", "shutdown"}
             \/ got # "timedOut" /\ UNCHANGED <<task, result>>
          /\ TlsPoll(op, res)
          /\ \/ Reset(res, got)
             \/ Pend(res, got)
             \/ res = "panic"
          /\ idle' = IF res \in {"pending", "panic"} THEN idle ELSE 0
    BY <1>1 DEF Poll, TimedPoll
  <2>2. res # "panic" /\ task = "running"
    BY <1>1, <2>1, TlsPollKeeps DEF Poll, MayPoll
  <2>3. CASE Reset(res, got)
    <3>1. idle' = 0 /\ got # "timedOut"
      BY <1>0, <2>1, <2>2, <2>3 DEF Reset
    <3>2. QED BY <2>1, <2>2, <3>1 DEF Promise!Move
  <2>4. CASE Pend(res, got)
    <3>1. idle' = idle /\ got = IF left = 0 THEN "timedOut" ELSE "pending"
      BY <2>1, <2>4 DEF Pend
    <3>2. QED BY <1>0, <2>1, <2>2, <3>1 DEF Promise!Expire
  <2>5. QED BY <2>1, <2>2, <2>3, <2>4
<1>2. CASE Park \/ Run \/ BeginClose \/ OtherWake \/ \E x \in Mail : PeerSends(x)
  BY <1>2 DEF Park, Run, BeginClose, OtherWake, PeerSends
<1>3. CASE Notice
  BY <1>3 DEF Notice, Promise!Close
<1>4. CASE Tick
  BY <1>0, <1>4 DEF Tick, Promise!Pass
<1>5. CASE UNCHANGED vars
  BY <1>5 DEF vars
<1>6. QED BY <1>1, <1>2, <1>3, <1>4, <1>5 DEF Next, Step

\* Through the handshake and after it, whatever the peer sends: a connection is
\* cut at the end of an interval in which no operation of the stream under
\* TimeoutIO completed, and not before (io.rs:165-179).  The interval is counted
\* apart from TimeoutIO's deadline; TrueDeadline says that the two agree.
THEOREM TimerIsKept == Representable /\ Spec => ImplementsIdleTimer
  BY TimerInit, TimerNext, Invariance, PTL DEF Spec, ImplementsIdleTimer, Promise!Spec

\* So a peer is never cut for silence within the interval after an operation of
\* its stream has completed, handshake or data (io.rs:165-179).
THEOREM InTimeIsSpared == Representable /\ Spec => []Promise!CutIsWhole
<1>1. Promise!Init => Promise!CutIsWhole
  BY DEF Promise!Init, Promise!CutIsWhole
<1>2. Promise!CutIsWhole /\ [Promise!Next]_(Promise!vars) => Promise!CutIsWhole'
  BY DEF Promise!CutIsWhole, Promise!vars, Promise!Next, Promise!Move, Promise!Pass,
         Promise!Expire, Promise!Close
<1>3. QED
  BY <1>1, <1>2, TimerIsKept, PTL DEF ImplementsIdleTimer, Promise!Spec
=============================================================================
