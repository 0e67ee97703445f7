----------------------------- MODULE TimeoutIO -----------------------------
(***************************************************************************)
(* The idle timer around a connection's byte stream (src/util/io.rs), with *)
(* the task that polls it: hyper's connection, which reads, then writes    *)
(* what it has, then flushes, in that order, every time it is woken.       *)
(*                                                                         *)
(* Time is discrete and passes while the task has nothing to do.  left is  *)
(* the time to the deadline of idle_future; its waker is the task's, once  *)
(* idle_future has been polled, and is consumed when the timer fires.      *)
(***************************************************************************)
EXTENDS Naturals

CONSTANT Timeout    \* idle_timeout, in ticks

ASSUME TimeoutAssumption == Timeout \in Nat \ {0}

VARIABLES
    task,      \* the connection's task
    pos,       \* the operation it polls next in this round
    closing,   \* it has nothing more to serve and shuts the stream down
    output,    \* it has bytes to write
    handler,   \* the request handler it polls; "full": reads wait for it
    notified,  \* it was woken and has not been polled since
    ready,     \* operations the inner stream would complete at once
    waitsOn,   \* operations whose last poll was Pending
    left,      \* idle_future: time to its deadline
    waker,     \* idle_future: it will wake the task
    idle,      \* history: time since an operation last completed
    silent,    \* history: time since a byte last moved, counted to Timeout + 1
    stirred    \* history: the peer or the handler did something since the last tick

timerVars == <<left, waker>>
history == <<idle, silent, stirred>>
vars == <<task, pos, closing, output, handler, notified, ready, waitsOn, left, waker,
          idle, silent, stirred>>

Ops == {"read", "write", "flush", "shutdown"}

TypeOK ==
    /\ task \in {"running", "parked", "timedOut", "closed"}
    /\ pos \in Ops \cup {"end"}
    /\ closing \in BOOLEAN /\ output \in BOOLEAN /\ notified \in BOOLEAN
    /\ handler \in {"none", "working", "full"}
    /\ ready \subseteq Ops
    /\ waitsOn \subseteq Ops
    /\ left \in 0..Timeout /\ waker \in BOOLEAN
    /\ idle \in 0..Timeout /\ silent \in 0..(Timeout + 1)
    /\ stirred \in BOOLEAN

\* TimeoutIO::new: the timer runs, nobody has polled it.
Init ==
    /\ task = "running" /\ pos = "read" /\ closing = FALSE
    /\ output = FALSE /\ handler = "none" /\ notified = FALSE
    /\ ready \in SUBSET Ops
    /\ waitsOn = {}
    /\ left = Timeout /\ waker = FALSE
    /\ idle = 0 /\ silent = 0 /\ stirred = FALSE

-----------------------------------------------------------------------------
(* One poll_read, poll_write, poll_write_vectored, poll_flush or           *)
(* poll_shutdown: the inner stream is polled first.                        *)

\* What hyper polls after op.
After(op) ==
    CASE op = "read" -> IF output' THEN "write" ELSE "flush"
      [] op = "write" -> "flush"
      [] OTHER -> "end"

\* Fault: a completed write does not reset the timer.
CompletesReadOnly(op) ==
    /\ left' = IF op = "write" THEN left ELSE Timeout
    /\ UNCHANGED waker

\* Fault: a new Sleep instead of Sleep::reset, which would keep the waker.
CompletesNewTimer(op) ==
    /\ left' = Timeout
    /\ waker' = FALSE

\* Fault: the deadline is set one tick late.
CompletesLate(op) ==
    /\ left' = Timeout + 1
    /\ UNCHANGED waker

\* Ready, in whatever way: data, EOF, an error, or nothing to flush.  reset()
\* moves the deadline and keeps the waker.
ResetTimer(op) ==
    /\ left' = Timeout
    /\ UNCHANGED waker

Completes(op) ==
    /\ ResetTimer(op)
    /\ idle' = 0
    /\ silent' = IF op \in {"read", "write"} THEN 0 ELSE silent
    /\ waitsOn' = waitsOn \ {op}
    /\ \/ /\ op = "read"
          /\ ready' = ready \ {op}
          /\ output' \in {output, TRUE}
          /\ handler' \in {handler, "working", "full"}
       \/ /\ op = "write"
          /\ ready' \in {ready, ready \ {op}}
          /\ output' \in BOOLEAN
          /\ UNCHANGED handler
       \/ op \in {"flush", "shutdown"} /\ UNCHANGED <<ready, output, handler>>
    /\ task' = IF op = "shutdown" THEN "closed" ELSE task
    /\ UNCHANGED stirred

\* Fault: idle_future is not polled, so nobody registers with it.
WaitsUnarmed(op) ==
    /\ waitsOn' = waitsOn \cup {op}
    /\ UNCHANGED <<task, output, handler, ready, timerVars, history>>

\* Pending, and so is the timer: both hold the task's waker now.
Waits(op) ==
    /\ waker' = TRUE
    /\ waitsOn' = waitsOn \cup {op}
    /\ UNCHANGED <<task, output, handler, ready, left, history>>

\* Pending, but the timer is over: TimedOut, which ends hyper's connection.
TimesOut ==
    /\ task' = "timedOut"
    /\ UNCHANGED <<output, handler, ready, waitsOn, timerVars, history>>

Poll(op) ==
    /\ task = "running"
    /\ pos = op
    /\ \/ op \in ready /\ Completes(op)
       \/ op \notin ready /\ left > 0 /\ Waits(op)
       \/ op \notin ready /\ left = 0 /\ TimesOut
    /\ pos' = After(op)
    /\ UNCHANGED <<closing, notified>>

-----------------------------------------------------------------------------
(* The task.                                                               *)

\* Where a round begins.
First ==
    CASE closing -> "shutdown"
      [] ~closing /\ handler # "full" -> "read"
      [] ~closing /\ handler = "full" -> IF output THEN "write" ELSE "flush"

\* A read that completed is followed by another round; the task parks when an
\* operation waits, or when it waits for its handler alone.
RoundEnds ==
    /\ task = "running"
    /\ pos = "end"
    /\ IF waitsOn = {} /\ handler # "full"
         THEN pos' = First /\ UNCHANGED task
         ELSE task' = "parked" /\ UNCHANGED pos
    /\ UNCHANGED <<closing, output, handler, notified, ready, waitsOn, timerVars, history>>

\* hyper is done with the connection and shuts the stream down.
BeginClose ==
    /\ task = "running"
    /\ pos = "end"
    /\ ~closing
    /\ closing' = TRUE
    /\ pos' = "shutdown"
    /\ waitsOn' = {}
    /\ UNCHANGED <<task, output, handler, notified, ready, timerVars, history>>

\* The executor polls a task that was woken.
Run ==
    /\ task = "parked"
    /\ notified
    /\ task' = "running"
    /\ pos' = First
    /\ notified' = FALSE
    /\ waitsOn' = {}
    /\ UNCHANGED <<closing, output, handler, ready, timerVars, history>>

-----------------------------------------------------------------------------
(* What the task does not control.                                         *)

\* The peer sends, acknowledges or closes, and may do so while the task runs; a
\* flush becomes ready when the last buffered bytes have gone out.
InnerReady(op) ==
    /\ task \in {"running", "parked"}
    /\ op \notin ready
    /\ ready' = ready \cup {op}
    /\ notified' = (notified \/ op \in waitsOn)
    /\ silent' = IF op = "flush" THEN 0 ELSE silent
    /\ stirred' = TRUE
    /\ UNCHANGED <<task, pos, closing, output, handler, waitsOn, timerVars, idle>>

\* The handler wakes the connection: it has made room for reads, has bytes for
\* the client, is done, or only has to be polled again.
HandlerWakes ==
    /\ task \in {"running", "parked"}
    /\ ~closing
    /\ handler # "none"
    /\ notified' = TRUE
    /\ output' \in {output, TRUE}
    /\ handler' \in {handler, "working", "none"}
    /\ handler' = "none" => output'
    /\ stirred' = TRUE
    /\ UNCHANGED <<task, pos, closing, ready, waitsOn, timerVars, idle, silent>>

\* A tick passes while the task waits; the timer that fires wakes whoever has
\* registered, and only them.
Tick ==
    /\ task = "parked"
    /\ ~notified
    /\ left' = IF left = 0 THEN 0 ELSE left - 1
    /\ notified' = (waker /\ left' = 0)
    /\ waker' = (waker /\ left' # 0)
    /\ idle' = IF idle = Timeout THEN idle ELSE idle + 1
    /\ silent' = IF silent > Timeout THEN silent ELSE silent + 1
    /\ stirred' = FALSE
    /\ UNCHANGED <<task, pos, closing, output, handler, ready, waitsOn>>

-----------------------------------------------------------------------------
Step ==
    \/ \E op \in Ops : Poll(op)
    \/ RoundEnds
    \/ Run

Next ==
    \/ Step
    \/ BeginClose
    \/ \E op \in Ops : InnerReady(op)
    \/ HandlerWakes
    \/ Tick

\* The executor runs the task and time passes; peer and handler owe nothing.
Fairness == WF_vars(Step) /\ WF_vars(Tick)

Spec == Init /\ [][Next]_vars

FairSpec == Spec /\ Fairness

-----------------------------------------------------------------------------
\* A connection is cut only after a whole interval in which no operation of
\* either direction completed (io.rs:88-90): a long download whose reads all
\* wait is not idle.
TimeoutIsIdle == task = "timedOut" => idle = Timeout

\* A task that waits for its stream will be woken by the timer, also when an
\* operation that completed after the read was polled has moved the deadline.
StaysWatched == task = "parked" /\ ~notified /\ waitsOn # {} => waker /\ left > 0

\* A peer that does nothing while the handler does nothing is cut in the end,
\* whether the connection waits to read, to write or to shut down.  Not so a
\* connection that waits for its handler alone: nothing is polled then that
\* could report TimedOut.
SilentPeerCut ==
    <>[](~stirred /\ (handler = "full" => closing)) => <>(task \in {"timedOut", "closed"})

\* For whoever uses the connection TimeoutIO is an idle timer and no more: polls
\* of either direction, wakers and the order of a round cannot be told from it.
Promise == INSTANCE IdleTimer WITH
    Interval <- Timeout,
    mode <- IF task \in {"running", "parked"} THEN "open" ELSE task,
    quiet <- idle

\* The interval begins anew with each operation that completes, also while others
\* wait, and is whole when the connection is cut (io.rs:88-90, 158-186).
ImplementsIdleTimer == Promise!Spec

\* What the type's documentation says (io.rs:81-82): an operation during which
\* no data has moved for the interval returns TimedOut.
NoDataMeansTimedOut == silent > Timeout /\ waitsOn # {} => task = "timedOut"
=============================================================================
