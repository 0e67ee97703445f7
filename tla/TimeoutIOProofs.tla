-------------------------- MODULE TimeoutIOProofs --------------------------
(***************************************************************************)
(* What holds of the idle timer for every interval.                        *)
(***************************************************************************)
EXTENDS TimeoutIO, TLAPS

(***************************************************************************)
(* The strengthening.                                                      *)
(***************************************************************************)

\* The deadline is a whole interval after the last operation that completed.
TimerExact == idle + left = Timeout

\* While a round of polls runs no time passes, so an operation that waits has
\* armed a timer that is not over, whatever completes after it.
ArmedWhileWaiting ==
    waitsOn # {} /\ (task = "running" \/ (task = "parked" /\ ~notified))
        => waker /\ left > 0

IInv == TypeOK /\ TimerExact /\ TimeoutIsIdle /\ ArmedWhileWaiting

(***************************************************************************)
(* The invariant.                                                          *)
(***************************************************************************)

LEMMA IInvInit == Init => IInv
<1> SUFFICES ASSUME Init PROVE IInv
  OBVIOUS
<1>1. closing \in BOOLEAN /\ output \in BOOLEAN /\ notified \in BOOLEAN
        /\ waker \in BOOLEAN /\ stirred \in BOOLEAN
  BY DEF Init
<1>2. left \in 0..Timeout /\ idle \in 0..Timeout /\ silent \in 0..(Timeout + 1)
  BY TimeoutAssumption DEF Init
<1>3. TypeOK
  BY <1>1, <1>2 DEF Init, TypeOK, Ops
<1>4. TimerExact /\ TimeoutIsIdle /\ ArmedWhileWaiting
  BY TimeoutAssumption DEF Init, TimerExact, TimeoutIsIdle, ArmedWhileWaiting
<1>5. QED BY <1>3, <1>4 DEF IInv

\* Where a round begins and what follows an operation are operations again.
LEMMA RoundTypes ==
    ASSUME NEW op \in Ops, TypeOK
    PROVE  After(op) \in Ops \cup {"end"} /\ First \in Ops
<1>1. After(op) \in Ops \cup {"end"}
  BY DEF After, Ops
<1>2. First \in Ops
  BY DEF First, TypeOK, Ops
<1>3. QED BY <1>1, <1>2

LEMMA PollKeeps ==
    ASSUME IInv, NEW op \in Ops, Poll(op)
    PROVE  IInv'
<1> USE TimeoutAssumption DEF IInv
<1>1. pos' \in Ops \cup {"end"} /\ UNCHANGED <<closing, notified>> /\ task = "running"
  BY RoundTypes DEF Poll
<1>2. CASE Completes(op)
  <2>1. TypeOK'
    <3>1. output' \in BOOLEAN /\ closing' \in BOOLEAN /\ notified' \in BOOLEAN
            /\ waker' \in BOOLEAN /\ stirred' \in BOOLEAN
      BY <1>1, <1>2, Zenon DEF Completes, ResetTimer, TypeOK
    <3>2. /\ left' \in 0..Timeout /\ idle' \in 0..Timeout
          /\ silent' \in 0..(Timeout + 1)
      BY <1>2 DEF Completes, ResetTimer, TypeOK
    <3>3. ready' \subseteq Ops /\ waitsOn' \subseteq Ops
      BY <1>2 DEF Completes, TypeOK
    <3>4. /\ task' \in {"running", "parked", "timedOut", "closed"}
          /\ handler' \in {"none", "working", "full"}
      BY <1>2 DEF Completes, TypeOK
    <3>5. QED BY <1>1, <3>1, <3>2, <3>3, <3>4 DEF TypeOK
  <2>2. TimerExact' /\ TimeoutIsIdle' /\ ArmedWhileWaiting'
    BY <1>1, <1>2 DEF Completes, ResetTimer, TimerExact, TimeoutIsIdle, ArmedWhileWaiting, TypeOK
  <2>3. QED BY <2>1, <2>2
<1>3. CASE left > 0 /\ Waits(op)
  <2>1. TypeOK'
    BY <1>1, <1>3 DEF Waits, TypeOK, history
  <2>2. TimerExact' /\ TimeoutIsIdle' /\ ArmedWhileWaiting'
    BY <1>1, <1>3 DEF Waits, TimerExact, TimeoutIsIdle, ArmedWhileWaiting, history
  <2>3. QED BY <2>1, <2>2
<1>4. CASE left = 0 /\ TimesOut
  <2>1. TypeOK'
    BY <1>1, <1>4 DEF TimesOut, TypeOK, history, timerVars
  <2>2. TimerExact' /\ TimeoutIsIdle' /\ ArmedWhileWaiting'
    BY <1>1, <1>4 DEF TimesOut, TimerExact, TimeoutIsIdle, ArmedWhileWaiting, TypeOK, history,
       timerVars
  <2>3. QED BY <2>1, <2>2
<1>5. QED BY <1>2, <1>3, <1>4 DEF Poll

LEMMA IInvNext == IInv /\ [Next]_vars => IInv'
<1> SUFFICES ASSUME IInv, [Next]_vars PROVE IInv'
  OBVIOUS
<1> USE TimeoutAssumption DEF IInv, timerVars, history
<1>1. First \in Ops
  BY RoundTypes DEF Ops
<1>2. CASE RoundEnds
  BY <1>1, <1>2 DEF RoundEnds, TypeOK, TimerExact, TimeoutIsIdle, ArmedWhileWaiting
<1>3. CASE BeginClose
  BY <1>3 DEF BeginClose, TypeOK, TimerExact, TimeoutIsIdle, ArmedWhileWaiting, Ops
<1>4. CASE Run
  BY <1>1, <1>4 DEF Run, TypeOK, TimerExact, TimeoutIsIdle, ArmedWhileWaiting
<1>5. ASSUME NEW op \in Ops, InnerReady(op) PROVE IInv'
  BY <1>5 DEF InnerReady, TypeOK, TimerExact, TimeoutIsIdle, ArmedWhileWaiting
<1>6. CASE HandlerWakes
  BY <1>6 DEF HandlerWakes, TypeOK, TimerExact, TimeoutIsIdle, ArmedWhileWaiting
<1>7. CASE Tick
  <2>1. TypeOK'
    <3>1. notified' \in BOOLEAN /\ waker' \in BOOLEAN /\ stirred' \in BOOLEAN
      BY <1>7 DEF Tick
    <3>2. /\ left' \in 0..Timeout /\ idle' \in 0..Timeout
          /\ silent' \in 0..(Timeout + 1)
      BY <1>7 DEF Tick, TypeOK
    <3>3. QED BY <1>7, <3>1, <3>2 DEF Tick, TypeOK
  <2>2. TimerExact' /\ TimeoutIsIdle'
    BY <1>7 DEF Tick, TypeOK, TimerExact, TimeoutIsIdle
  <2>3. ArmedWhileWaiting'
    BY <1>7 DEF Tick, TypeOK, ArmedWhileWaiting
  <2>4. QED BY <2>1, <2>2, <2>3
<1>8. CASE UNCHANGED vars
  BY <1>8 DEF vars, TypeOK, TimerExact, TimeoutIsIdle, ArmedWhileWaiting
<1>9. QED
  BY PollKeeps, <1>2, <1>3, <1>4, <1>5, <1>6, <1>7, <1>8 DEF Next, Step

THEOREM Invariance == Spec => []IInv
  BY IInvInit, IInvNext, PTL DEF Spec

(***************************************************************************)
(* What follows.                                                           *)
(***************************************************************************)

\* Every variable keeps its type; the time to the deadline is never more than
\* the interval.
THEOREM TypeCorrect == Spec => []TypeOK
  BY Invariance, PTL DEF IInv

\* The timer is never early: whoever is cut was idle for the whole interval.
THEOREM NeverEarly == Spec => []TimeoutIsIdle
  BY Invariance, PTL DEF IInv

\* The timer is never deaf: a task that waits for its stream will be woken.
THEOREM NeverDeaf == Spec => []StaysWatched
<1>1. IInv => StaysWatched
  BY DEF IInv, ArmedWhileWaiting, StaysWatched
<1>2. QED BY <1>1, Invariance, PTL

(***************************************************************************)
(* TimeoutIO implements an idle timer: every step maps to one of its steps *)
(* or to a stutter.                                                        *)
(***************************************************************************)

LEMMA TimerInit == Init => Promise!Init
  BY DEF Init, Promise!Init

LEMMA TimerNext == IInv /\ [Next]_vars => [Promise!Next]_(Promise!vars)
<1> SUFFICES ASSUME IInv, [Next]_vars PROVE [Promise!Next]_(Promise!vars)
  OBVIOUS
<1> USE TimeoutAssumption DEF Promise!vars, Promise!Next, timerVars, history
<1>1. ASSUME NEW op \in Ops, Poll(op) PROVE [Promise!Next]_(Promise!vars)
  <2>1. CASE Completes(op)
    BY <1>1, <2>1 DEF Poll, Completes, Promise!Move
  <2>2. CASE Waits(op)
    BY <2>2 DEF Waits
  <2>3. CASE left = 0 /\ TimesOut
    <3>1. idle = Timeout
      BY <2>3 DEF IInv, TypeOK, TimerExact
    <3>2. QED BY <1>1, <2>3, <3>1 DEF Poll, TimesOut, Promise!Expire
  <2>4. QED BY <1>1, <2>1, <2>2, <2>3 DEF Poll
<1>2. CASE RoundEnds \/ Run
  BY <1>2 DEF RoundEnds, Run
<1>3. CASE BeginClose \/ HandlerWakes \/ \E op \in Ops : InnerReady(op)
  BY <1>3 DEF BeginClose, HandlerWakes, InnerReady
<1>4. CASE Tick
  BY <1>4 DEF Tick, IInv, TypeOK, Promise!Pass
<1>5. CASE UNCHANGED vars
  BY <1>5 DEF vars
<1>6. QED BY <1>1, <1>2, <1>3, <1>4, <1>5 DEF Next, Step

\* Whatever the peer and the handler do, and in whatever order operations wait
\* and complete: the interval begins with the last that completed, and no
\* connection is cut before its end.
THEOREM TimerIsKept == Spec => ImplementsIdleTimer
  BY TimerInit, TimerNext, Invariance, PTL DEF Spec, ImplementsIdleTimer, Promise!Spec
=============================================================================
