------------------------ MODULE ShutdownSignalProofs ------------------------
(***************************************************************************)
(* What holds of ShutdownSignal for any number of channels, tasks and      *)
(* receivers.                                                              *)
(***************************************************************************)
EXTENDS ShutdownSignal, TLAPS

(***************************************************************************)
(* The inductive invariant.                                                *)
(***************************************************************************)

\* What a stream holds came from the system, and its task has not ended.
FromSystem ==
    /\ raised # {} => arrived
    /\ \A c \in Chans : pending[c] # {} => arrived /\ task[c] \in {"termOnly", "waiting"}

\* A task is over because of a signal or for want of one.
OverForCause == \A c \in Chans : Over(c) => arrived \/ c \in failed

\* The unit and the end of a channel come from the end of its task.
UnitFromTask ==
    \A r \in Recvs :
        /\ srv[r] # None => sub[r] # None
        /\ r \in unit \/ srv[r] = "draining" => sub[r] # None /\ Over(sub[r])

\* A channel others know of has had its task.
HasTask ==
    /\ \A c \in kept : task[c] # None
    /\ \A r \in Recvs : sub[r] # None => task[sub[r]] # None

\* The two registrations come in this order, and are never taken back.
Registered ==
    /\ \A c \in Chans : task[c] = "termOnly" => "SIGTERM" \in handlers
    /\ settled => Signals \subseteq handlers /\ process = "alive"

IInv == TypeOK /\ FromSystem /\ OverForCause /\ UnitFromTask /\ HasTask /\ Registered

LEMMA IInvInit == Init => IInv
  BY NoneAssumption
  DEF Init, IInv, TypeOK, FromSystem, OverForCause, UnitFromTask, HasTask, Registered, Over, None

(***************************************************************************)
(* The steps, by who takes them.                                           *)
(***************************************************************************)

\* A new task breaks no receiver's tie to a task that is over.
LEMMA SpawnKeeps ==
    ASSUME IInv, NEW c \in Chans, Spawn(c), UNCHANGED <<osVars, unit, srv>>,
           kept' \subseteq kept \cup {c}, sub' \in [Recvs -> Chans \cup {None}],
           \A r \in Recvs : sub'[r] = sub[r] \/ (sub[r] = None /\ sub'[r] = c)
    PROVE  IInv'
<1> USE DEF IInv, Spawn, osVars
<1>1. TypeOK'
  BY DEF TypeOK
<1>2. FromSystem'
  BY DEF FromSystem, TypeOK, None
<1>3. \A d \in Chans : Over(d)' <=> Over(d)
  BY DEF Over, TypeOK, None
<1>4. OverForCause'
  BY <1>3 DEF OverForCause
<1>5. UnitFromTask'
  BY <1>3 DEF UnitFromTask, TypeOK
<1>6. Registered'
  BY DEF Registered, TypeOK
<1>7. HasTask'
  BY DEF HasTask, TypeOK, None
<1>8. QED BY <1>1, <1>2, <1>4, <1>5, <1>6, <1>7

LEMMA UserKeeps == \A c \in Chans : IInv /\ User(c) => IInv'
<1> SUFFICES ASSUME NEW c \in Chans, IInv, User(c) PROVE IInv'
  OBVIOUS
<1>1. CASE SubscribeSender(c)
  <2>1. \A r \in Recvs : sub'[r] = sub[r]
    BY <1>1 DEF SubscribeSender
  <2>2. QED BY <1>1, <2>1, SpawnKeeps DEF SubscribeSender, IInv, TypeOK
<1>2. CASE DropSender(c)
  BY <1>2 DEF DropSender, IInv, TypeOK, FromSystem, OverForCause, UnitFromTask, HasTask, Registered,
              Over, osVars, taskVars
<1>3. ASSUME NEW r \in Recvs, Generate(c, r) PROVE IInv'
  <2>1. sub' \in [Recvs -> Chans \cup {None}] /\ kept' \subseteq kept \cup {c}
    BY <1>3 DEF Generate, IInv, TypeOK
  <2>2. \A q \in Recvs : sub'[q] = sub[q] \/ (sub[q] = None /\ sub'[q] = c)
    BY <1>3 DEF Generate, IInv, TypeOK
  <2>3. Spawn(c) /\ UNCHANGED <<osVars, unit, srv>>
    BY <1>3 DEF Generate
  <2>4. QED BY <2>1, <2>2, <2>3, SpawnKeeps
<1>4. ASSUME NEW r \in Recvs, Subscribe(c, r) PROVE IInv'
  <2> USE <1>4 DEF Subscribe, IInv, osVars, taskVars
  <2>1. TypeOK'
    BY DEF TypeOK
  <2>2. FromSystem' /\ OverForCause' /\ Registered' /\ HasTask'
    BY DEF FromSystem, OverForCause, Registered, HasTask, Over, TypeOK
  <2>3. UnitFromTask'
    BY NoneAssumption DEF UnitFromTask, TypeOK, Over
  <2>4. QED BY <2>1, <2>2, <2>3
<1>5. QED BY <1>1, <1>2, <1>3, <1>4 DEF User

\* The end of a task, with the unit, for a cause.
LEMMA TellKeeps ==
    ASSUME IInv, NEW c \in Chans, Tell(c), UNCHANGED <<osVars, chanVars, srv, settled>>,
           failed \subseteq failed', failed' \subseteq Chans, arrived \/ c \in failed'
    PROVE  IInv'
<1> USE DEF IInv, Tell, osVars, chanVars
<1>1. TypeOK'
  BY DEF TypeOK
<1>2. FromSystem'
  BY DEF FromSystem, TypeOK
<1>3. /\ Over(c)'
      /\ \A d \in Chans : d # c => Over(d)' = Over(d)
  BY DEF Over, TypeOK
<1>4. OverForCause'
  BY <1>3 DEF OverForCause
<1>5. UnitFromTask'
  BY <1>3, NoneAssumption DEF UnitFromTask, TypeOK
<1>6. Registered'
  BY DEF Registered, TypeOK
<1>7. HasTask'
  BY DEF HasTask, TypeOK, None
<1>8. QED BY <1>1, <1>2, <1>4, <1>5, <1>6, <1>7

LEMMA WaitSignalKeeps == \A c \in Chans : IInv /\ WaitSignal(c) => IInv'
<1> SUFFICES ASSUME NEW c \in Chans, IInv, WaitSignal(c) PROVE IInv'
  OBVIOUS
<1> USE DEF IInv, osVars, chanVars
<1>1. CASE RegisterTerm(c) \/ RegisterInt(c)
  <2> USE <1>1 DEF RegisterTerm, RegisterInt
  <2>1. TypeOK'
    BY Zenon, SMT DEF TypeOK, Signals
  <2>2. FromSystem'
    BY DEF FromSystem, TypeOK
  <2>3. \A d \in Chans : Over(d)' = Over(d)
    BY DEF Over, TypeOK
  <2>4. OverForCause' /\ UnitFromTask'
    BY <2>3 DEF OverForCause, UnitFromTask, TypeOK
  <2>5. Registered' /\ HasTask'
    BY DEF Registered, HasTask, TypeOK, Signals, None
  <2>6. QED BY <2>1, <2>2, <2>4, <2>5
<1>2. CASE RegisterTermFails(c)
  <2> USE <1>2 DEF RegisterTermFails
  <2>1. TypeOK'
    BY DEF TypeOK
  <2>2. FromSystem'
    BY DEF FromSystem, TypeOK
  <2>3. Over(c)' /\ \A d \in Chans : d # c => Over(d)' = Over(d)
    BY DEF Over, TypeOK
  <2>4. OverForCause' /\ UnitFromTask'
    BY <2>3, NoneAssumption DEF OverForCause, UnitFromTask, TypeOK
  <2>5. Registered' /\ HasTask'
    BY DEF Registered, HasTask, TypeOK, None
  <2>6. QED BY <2>1, <2>2, <2>4, <2>5
<1>3. CASE RegisterIntFails(c)
  BY <1>3, TellKeeps DEF RegisterIntFails, TypeOK
<1>4. CASE Send(c)
  BY <1>4, TellKeeps DEF Send, FromSystem, TypeOK
<1>5. QED BY <1>1, <1>2, <1>3, <1>4 DEF WaitSignal

LEMMA IInvNext == IInv /\ [Next]_vars => IInv'
<1> SUFFICES ASSUME IInv, [Next]_vars PROVE IInv'
  OBVIOUS
<1> USE DEF IInv, osVars, taskVars, chanVars
<1>1. ASSUME NEW s \in Signals, Signal(s) PROVE IInv'
  <2>1. arrived' \in BOOLEAN
    BY <1>1, Zenon DEF Signal, TypeOK
  <2>2. TypeOK'
    BY <1>1, <2>1 DEF Signal, TypeOK
  <2>3. FromSystem' /\ OverForCause' /\ UnitFromTask' /\ HasTask' /\ Registered'
    BY <1>1 DEF Signal, FromSystem, OverForCause, UnitFromTask, HasTask, Registered, Over
  <2>4. QED BY <2>2, <2>3
<1>2. CASE Dispatch
  <2>1. TypeOK'
    BY <1>2 DEF Dispatch, TypeOK
  <2>2. \A c \in Chans : pending'[c] # {} => arrived /\ task[c] \in {"termOnly", "waiting"}
    BY <1>2 DEF Dispatch, FromSystem, Streams, TypeOK
  <2>3. FromSystem'
    BY <1>2, <2>2 DEF Dispatch, FromSystem
  <2>4. OverForCause' /\ UnitFromTask' /\ HasTask' /\ Registered'
    BY <1>2 DEF Dispatch, OverForCause, UnitFromTask, HasTask, Registered, Over
  <2>5. QED BY <2>1, <2>3, <2>4
<1>3. ASSUME NEW r \in Recvs, Run(r) \/ TakeShutdown(r) PROVE IInv'
  <2>1. TypeOK'
    BY <1>3 DEF Run, TakeShutdown, TypeOK
  <2>2. FromSystem' /\ OverForCause' /\ HasTask' /\ Registered'
    BY <1>3 DEF Run, TakeShutdown, FromSystem, OverForCause, HasTask, Registered, Over
  <2>3. UnitFromTask'
    BY <1>3 DEF Run, TakeShutdown, UnitFromTask, Over, Closed, TypeOK, None
  <2>4. QED BY <2>1, <2>2, <2>3
<1>4. CASE UNCHANGED vars
  BY <1>4 DEF vars, TypeOK, FromSystem, OverForCause, UnitFromTask, HasTask, Registered, Over
<1>5. QED
  BY <1>1, <1>2, <1>3, <1>4, UserKeeps, WaitSignalKeeps DEF Next

THEOREM Invariance == Spec => []IInv
  BY IInvInit, IInvNext, PTL DEF Spec

(***************************************************************************)
(* What follows.                                                           *)
(***************************************************************************)

\* Every variable keeps its type.
THEOREM TypeCorrect == Spec => []TypeOK
  BY Invariance, PTL DEF IInv

\* However many channels a process has, a server stops only when the task of
\* its own channel is over, for a signal or for want of its registration.
THEOREM StopsForCause == Spec => []NoSpuriousShutdown
<1>1. IInv => NoSpuriousShutdown
  BY NoneAssumption DEF IInv, TypeOK, OverForCause, UnitFromTask, NoSpuriousShutdown
<1>2. QED BY <1>1, Invariance, PTL

\* No signal ends the process once some task has registered for both.
THEOREM HandlersStay == Spec => []SettledNeverKilled
<1>1. IInv => SettledNeverKilled
  BY DEF IInv, Registered, SettledNeverKilled
<1>2. QED BY <1>1, Invariance, PTL

(***************************************************************************)
(* A receiver's view is the signal of module Server.                       *)
(***************************************************************************)

\* How the signal may change in the eyes of one receiver.
Moves(a, b) ==
    \/ a = b
    \/ a = "starting" /\ b = "listening"
    \/ a \in {"starting", "listening"} /\ b = "dropped"
    \/ a = "listening" /\ b = "sent"

\* Each of these is a step of Server's signal, or none.
LEMMA MoveIsStep ==
    ASSUME NEW r \in Recvs, Moves(SignalOf(r), SignalOf(r)'), PhaseOf(r)' = PhaseOf(r)
    PROVE  [View(r)!Next]_(View(r)!vars)
<1> DEFINE S == SignalOf(r)
<1>1. CASE S = S'
  BY <1>1 DEF View!vars, NoConns
<1>2. CASE S = "starting" /\ S' = "listening"
  BY <1>2 DEF View!Next, View!ListenForSignal, View!connVars, NoConns
<1>3. CASE S \in {"starting", "listening"} /\ S' = "dropped"
  BY <1>3 DEF View!Next, View!SenderGone, View!connVars, NoConns
<1>4. CASE S = "listening" /\ S' = "sent"
  BY <1>4 DEF View!Next, View!SignalArrives, View!connVars, NoConns
<1>5. QED BY <1>1, <1>2, <1>3, <1>4 DEF Moves

\* What a step does to a receiver's signal.
LEMMA StepMoves == IInv /\ Next => \A r \in Recvs : Moves(SignalOf(r), SignalOf(r)')
<1> SUFFICES ASSUME IInv, Next, NEW r \in Recvs PROVE Moves(SignalOf(r), SignalOf(r)')
  OBVIOUS
<1> USE NoneAssumption DEF IInv, TypeOK, FromSystem, UnitFromTask, HasTask, None, Moves, SignalOf, Closed, Over, osVars, taskVars, chanVars
<1>1. ASSUME NEW c \in Chans, User(c) PROVE Moves(SignalOf(r), SignalOf(r)')
  <2>1. CASE SubscribeSender(c)
    BY <2>1 DEF SubscribeSender, Spawn
  <2>2. CASE DropSender(c)
    BY <2>2 DEF DropSender
  <2>3. ASSUME NEW q \in Recvs, Generate(c, q) PROVE Moves(SignalOf(r), SignalOf(r)')
    <3>1. CASE q = r
      BY <2>3, <3>1 DEF Generate, Spawn
    <3>2. CASE q # r
      <4>1. sub'[r] = sub[r] /\ sub[r] # c
        BY <2>3, <3>2 DEF Generate, Spawn
      <4>2. QED BY <2>3, <4>1 DEF Generate, Spawn
    <3>3. QED BY <3>1, <3>2
  <2>4. ASSUME NEW q \in Recvs, Subscribe(c, q) PROVE Moves(SignalOf(r), SignalOf(r)')
    BY <2>4 DEF Subscribe
  <2>5. QED BY <1>1, <2>1, <2>2, <2>3, <2>4 DEF User
<1>2. ASSUME NEW c \in Chans, WaitSignal(c) PROVE Moves(SignalOf(r), SignalOf(r)')
  <2>1. CASE RegisterTerm(c) \/ RegisterTermFails(c) \/ RegisterInt(c)
    BY <2>1 DEF RegisterTerm, RegisterTermFails, RegisterInt
  <2>2. CASE RegisterIntFails(c)
    BY <2>2 DEF RegisterIntFails, Tell
  <2>3. CASE Send(c)
    BY <2>3 DEF Send, Tell
  <2>4. QED BY <1>2, <2>1, <2>2, <2>3 DEF WaitSignal
<1>3. ASSUME \/ \E s \in Signals : Signal(s)
             \/ Dispatch
             \/ \E q \in Recvs : Run(q) \/ TakeShutdown(q)
      PROVE  Moves(SignalOf(r), SignalOf(r)')
  BY <1>3 DEF Signal, Dispatch, Run, TakeShutdown
<1>4. QED BY <1>1, <1>2, <1>3 DEF Next

LEMMA StepIsViewed ==
    ASSUME IInv, Next, NEW r \in Recvs
    PROVE  [View(r)!Next]_(View(r)!vars)
<1>1. Moves(SignalOf(r), SignalOf(r)')
  BY StepMoves
<1>2. CASE Run(r)
  <2>1. PhaseOf(r) = "binding" /\ PhaseOf(r)' = "serving" /\ SignalOf(r)' = SignalOf(r)
    BY <1>2 DEF Run, PhaseOf, SignalOf, Closed, Over, IInv, TypeOK, osVars, taskVars, chanVars, None
  <2>2. QED BY <2>1 DEF View!Next, View!Loop, View!Bind, View!connVars, NoConns
<1>3. CASE TakeShutdown(r)
  <2>1. /\ PhaseOf(r) = "serving" /\ PhaseOf(r)' = "draining"
        /\ SignalOf(r)' = SignalOf(r) /\ SignalOf(r) \in {"sent", "dropped"}
    BY <1>3, NoneAssumption
    DEF TakeShutdown, PhaseOf, SignalOf, Closed, Over, IInv, TypeOK, UnitFromTask, osVars,
        taskVars, chanVars, None
  <2>2. QED BY <2>1 DEF View!Next, View!Loop, View!TakeShutdown, NoConns
<1>4. CASE ~Run(r) /\ ~TakeShutdown(r)
  <2>1. srv'[r] = srv[r]
    BY <1>4
    DEF Next, User, SubscribeSender, DropSender, Generate, Subscribe, WaitSignal, RegisterTerm,
        RegisterTermFails, RegisterInt, RegisterIntFails, Send, Signal, Dispatch, Run,
        TakeShutdown, IInv, TypeOK
  <2>2. PhaseOf(r)' = PhaseOf(r)
    BY <2>1 DEF PhaseOf
  <2>3. QED BY <1>1, <2>2, MoveIsStep
<1>5. QED BY <1>2, <1>3, <1>4

\* What Server takes for given is so, for every channel and receiver.
THEOREM SignalIsServers == Spec => ImplementsSignal
<1>1. Init => \A r \in Recvs : View(r)!Init
  BY DEF Init, View!Init, SignalOf, PhaseOf, NoConns, None
<1>2. IInv /\ [Next]_vars => [\A r \in Recvs : [View(r)!Next]_(View(r)!vars)]_vars
  BY StepIsViewed
<1>3. QED BY <1>1, <1>2, Invariance, PTL DEF Spec, ImplementsSignal
=============================================================================
