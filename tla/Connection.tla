----------------------------- MODULE Connection -----------------------------
(***************************************************************************)
(* A TLS connection from its accept on: TlsStream, whose first read or     *)
(* write drives the handshake (src/util/tls.rs), inside TimeoutIO, whose   *)
(* deadline is computed with Instant (src/util/io.rs), polled by           *)
(* hyper_util's connection, which first reads to learn the HTTP version.   *)
(***************************************************************************)
EXTENDS Naturals

CONSTANTS
    Timeout,          \* idle_timeout, in ticks
    Unrepresentable,  \* is now + idle_timeout past the last Instant?
    Flights,          \* flights of the client in its handshake
    MaxBurst          \* bound: what the peer's link carries in a tick

ASSUME TimeoutAssumption == Timeout \in Nat \ {0}
ASSUME UnrepresentableAssumption == Unrepresentable \in BOOLEAN
ASSUME FlightsAssumption == Flights \in Nat \ {0}
ASSUME MaxBurstAssumption == MaxBurst \in Nat

VARIABLES
    tls,       \* TlsStream.state
    accept,    \* the future inside State::Handshaking
    flights,   \* flights the server still waits for
    inbox,     \* what the peer has sent and nobody has read
    burst,     \* how often the peer has sent since the last tick
    proto,     \* where hyper's connection is
    task,      \* its task
    waits,     \* a poll of this round was Pending
    notified,  \* the task was woken and has not run since
    left,      \* the Sleep of TimeoutIO: time to its deadline
    waker,     \* it holds the task's waker
    result,    \* how the task ended
    hollow,    \* history: a flush or a shutdown succeeded without a TLS session
    age,       \* history: time since the accept, counted to Timeout + 1
    idle       \* history: time since the inner stream completed an operation, to Timeout

peerVars == <<flights, inbox>>
tlsVars == <<tls, accept, flights, inbox, hollow>>
timerVars == <<left, waker>>
clockVars == <<burst, age, idle>>
vars == <<tls, accept, flights, inbox, burst, proto, task, waits, notified, left, waker,
          result, hollow, age, idle>>

Ops == {"read", "write", "flush", "shutdown"}

Mail == {"empty", "fragment", "flight", "flightAndData", "data", "garbage", "eof"}

TypeOK ==
    /\ tls \in {"Handshaking", "Streaming"}
    /\ accept \in {"inProgress", "returned"}
    /\ flights \in 0..Flights
    /\ inbox \in Mail
    /\ burst \in 0..MaxBurst
    /\ proto \in {"version", "http", "closing"}
    /\ task \in {"running", "parked", "done"}
    /\ waits \in BOOLEAN /\ notified \in BOOLEAN
    /\ left \in 0..Timeout /\ waker \in BOOLEAN
    /\ result \in {"none", "failed", "cancelled", "timedOut", "shutdown", "panicked"}
    /\ hollow \in BOOLEAN
    /\ age \in 0..(Timeout + 1)
    /\ idle \in 0..Timeout

\* TlsAcceptor::accept, TlsStream::new, TimeoutIO::new: nothing is polled yet.
\* sleep() takes a deadline it cannot represent for the far future.
Init ==
    /\ tls = "Handshaking" /\ accept = "inProgress"
    /\ flights = Flights /\ inbox = "empty" /\ burst = 0
    /\ proto = "version" /\ task = "running"
    /\ waits = FALSE /\ notified = FALSE
    /\ left = Timeout /\ waker = FALSE
    /\ result = "none" /\ hollow = FALSE /\ age = 0 /\ idle = 0

-----------------------------------------------------------------------------
(* TlsStream: one poll, and what it returns.                               *)

\* The future has all it needs to return the session.
Completes ==
    /\ tls = "Handshaking"
    /\ accept = "inProgress"
    /\ flights = 1
    /\ inbox \in {"flight", "flightAndData"}

\* Accept::poll without a session as its result.  It returns an error once;
\* polled after it has returned, it panics.
Drive(res) ==
    /\ tls = "Handshaking"
    /\ ~Completes
    /\ \/ accept = "returned" /\ res = "panic" /\ UNCHANGED <<accept, peerVars>>
       \/ /\ accept = "inProgress"
          /\ inbox \in {"garbage", "eof"}
          /\ res = "err"
          /\ accept' = "returned"
          /\ UNCHANGED peerVars
       \/ /\ accept = "inProgress"
          /\ inbox \notin {"garbage", "eof"}
          /\ res = "pending"
          /\ flights' = IF inbox = "flight" THEN flights - 1 ELSE flights
          /\ inbox' = "empty"
          /\ UNCHANGED accept
    /\ UNCHANGED <<tls, hollow>>

\* Fault: a Pending read returns before the session is stored.
EstablishLoses(op, res) ==
    /\ Completes
    /\ tls' = IF inbox = "flightAndData" THEN "Streaming" ELSE tls
    /\ accept' = "returned"
    /\ flights' = 0
    /\ inbox' = "empty"
    /\ res = IF op = "read" /\ inbox = "flightAndData" THEN "data" ELSE "pending"
    /\ UNCHANGED hollow

\* The handshake is complete: the session is polled, and kept whatever that
\* returns.
Establish(op, res) ==
    /\ Completes
    /\ tls' = "Streaming"
    /\ accept' = "returned"
    /\ flights' = 0
    /\ inbox' = IF inbox = "flightAndData" /\ op = "write" THEN "data" ELSE "empty"
    /\ \/ op = "read" /\ res = (IF inbox = "flightAndData" THEN "data" ELSE "pending")
       \/ op = "write" /\ res \in {"done", "pending"}
    /\ UNCHANGED hollow

\* The established session, tokio_rustls's stream.
Streams(op, res) ==
    /\ tls = "Streaming"
    /\ \/ /\ op = "read"
          /\ \/ inbox \in {"empty", "fragment"} /\ res = "pending" /\ inbox' = "empty"
             \/ inbox = "data" /\ res = "data" /\ inbox' = "empty"
             \/ inbox = "eof" /\ res = "eof" /\ UNCHANGED inbox
             \/ inbox \in {"garbage", "flight", "flightAndData"} /\ res = "err" /\ UNCHANGED inbox
       \/ op \in {"write", "flush", "shutdown"} /\ res \in {"done", "pending"} /\ UNCHANGED inbox
    /\ UNCHANGED <<tls, accept, flights, hollow>>

\* poll_flush and poll_shutdown have nothing to do before there is a session.
NotYet(op, res) ==
    /\ tls = "Handshaking"
    /\ op \in {"flush", "shutdown"}
    /\ res = "done"
    /\ hollow' = TRUE
    /\ UNCHANGED <<tls, accept, peerVars>>

TlsPoll(op, res) ==
    \/ op \in {"read", "write"} /\ Drive(res)
    \/ op \in {"read", "write"} /\ Establish(op, res)
    \/ Streams(op, res)
    \/ NotYet(op, res)

-----------------------------------------------------------------------------
(* TimeoutIO around it: what the caller gets.                              *)

\* Fault: the deadline is rounded up.
ResetLate(res, got) ==
    /\ res \notin {"pending", "panic"}
    /\ got = IF Unrepresentable THEN "panic" ELSE res
    /\ left' = Timeout + 1
    /\ UNCHANGED <<waker, waits>>

\* Fault: only a read moves the deadline.
ResetOnRead(res, got) ==
    /\ res \notin {"pending", "panic"}
    /\ got = IF Unrepresentable THEN "panic" ELSE res
    /\ left' = IF res \in {"data", "eof"} THEN Timeout ELSE left
    /\ UNCHANGED <<waker, waits>>

\* Ready: Instant::now() + timeout, which panics past the last Instant.
Reset(res, got) ==
    /\ res \notin {"pending", "panic"}
    /\ got = IF Unrepresentable THEN "panic" ELSE res
    /\ left' = Timeout
    /\ UNCHANGED <<waker, waits>>

\* Fault: an attempt that makes the handshake wait starts the interval anew.
PendRestarts(res, got) ==
    /\ res = "pending"
    /\ got = IF left = 0 THEN "timedOut" ELSE res
    /\ left' = IF left = 0 THEN 0 ELSE Timeout
    /\ waker' = (left > 0)
    /\ waits' = TRUE

\* Fault: the timer is looked at but not registered with.
PendUnarmed(res, got) ==
    /\ res = "pending"
    /\ got = IF left = 0 THEN "timedOut" ELSE res
    /\ waits' = TRUE
    /\ UNCHANGED timerVars

\* Pending: the timer is over, or it will wake the task.
Pend(res, got) ==
    /\ res = "pending"
    /\ got = IF left = 0 THEN "timedOut" ELSE res
    /\ waker' = (left > 0)
    /\ waits' = TRUE
    /\ UNCHANGED left

TimedPoll(op, got) ==
    \E res \in {"pending", "data", "eof", "done", "err", "panic"} :
        /\ TlsPoll(op, res)
        /\ \/ Reset(res, got)
           \/ Pend(res, got)
           \/ res = "panic" /\ got = res /\ UNCHANGED <<left, waker, waits>>
        /\ idle' = IF res \in {"pending", "panic"} THEN idle ELSE 0

-----------------------------------------------------------------------------
(* hyper's connection.                                                     *)

\* Until it has read something it knows no version and does nothing but read.
MayPoll(op) ==
    /\ task = "running"
    /\ CASE proto = "version" -> op = "read" /\ ~waits
         [] proto = "http" -> op # "shutdown"
         [] proto = "closing" -> op = "shutdown" /\ ~waits

Ends(how) == task' = "done" /\ result' = how

Poll(op) ==
    /\ MayPoll(op)
    /\ \E got \in {"pending", "data", "eof", "done", "err", "panic", "timedOut"} :
        /\ TimedPoll(op, got)
        /\ \/ got = "timedOut" /\ Ends("timedOut")
           \/ got = "err" /\ Ends("failed")
           \/ got = "panic" /\ Ends("panicked")
           \/ got = "done" /\ op = "shutdown" /\ Ends("shutdown")
           \/ /\ \/ got \in {"pending", "data", "eof"}
                 \/ got = "done" /\ op # "shutdown"
              /\ UNCHANGED <<task, result>>
        /\ proto' = IF got \in {"data", "eof"} /\ proto = "version" THEN "http"
                    ELSE IF got = "eof" /\ proto # "version" THEN "closing" ELSE proto
    /\ UNCHANGED <<burst, notified, age>>

Park ==
    /\ task = "running"
    /\ waits
    /\ task' = "parked"
    /\ UNCHANGED <<tlsVars, proto, waits, notified, result, timerVars, clockVars>>

Run ==
    /\ task = "parked"
    /\ notified
    /\ task' = "running"
    /\ notified' = FALSE
    /\ waits' = FALSE
    /\ UNCHANGED <<tlsVars, proto, result, timerVars, clockVars>>

\* Nothing more to serve: the client's wish, the end of keep-alive or the notice.
BeginClose ==
    /\ task = "running"
    /\ proto = "http"
    /\ proto' = "closing"
    /\ waits' = FALSE
    /\ UNCHANGED <<tlsVars, task, notified, result, timerVars, clockVars>>

\* Fault: the notice closes the stream in the handshake too.
NoticeCloses ==
    /\ task # "done"
    /\ proto = "version"
    /\ proto' = "closing"
    /\ task' = "running"
    /\ waits' = FALSE
    /\ UNCHANGED <<tlsVars, notified, result, timerVars, clockVars>>

\* The drain's notice finds no version yet: the connection is dropped.
Notice ==
    /\ task # "done"
    /\ proto = "version"
    /\ Ends("cancelled")
    /\ UNCHANGED <<tlsVars, proto, waits, notified, timerVars, clockVars>>

-----------------------------------------------------------------------------
(* The peer and the clock.                                                 *)

\* Bytes that end in the middle of a record may come for ever.
PeerSends(x) ==
    /\ task # "done"
    /\ inbox = "empty"
    /\ burst < MaxBurst
    /\ CASE x = "flight" -> flights > 0
         [] x = "flightAndData" -> flights = 1
         [] x = "data" -> flights = 0
         [] OTHER -> x # "empty"
    /\ inbox' = x
    /\ burst' = burst + 1
    /\ notified' = TRUE
    /\ UNCHANGED <<tls, accept, flights, hollow, proto, task, waits, result, timerVars, age, idle>>

\* Room for writes again, or a handler that has something to send.
OtherWake ==
    /\ task # "done"
    /\ tls = "Streaming"
    /\ ~notified
    /\ notified' = TRUE
    /\ UNCHANGED <<tlsVars, proto, task, waits, result, timerVars, clockVars>>

Tick ==
    /\ task = "parked"
    /\ ~notified
    /\ left' = IF Unrepresentable \/ left = 0 THEN left ELSE left - 1
    /\ notified' = (waker /\ left' = 0)
    /\ waker' = (waker /\ left' # 0)
    /\ age' = IF age > Timeout THEN age ELSE age + 1
    /\ idle' = IF idle = Timeout THEN idle ELSE idle + 1
    /\ burst' = 0
    /\ UNCHANGED <<tlsVars, proto, task, waits, result>>

-----------------------------------------------------------------------------
Step ==
    \/ \E op \in Ops : Poll(op)
    \/ Park
    \/ Run

Next ==
    \/ Step
    \/ BeginClose
    \/ Notice
    \/ \E x \in Mail : PeerSends(x)
    \/ OtherWake
    \/ Tick

Spec == Init /\ [][Next]_vars

\* A woken task is polled, and time passes, since a link carries only so much in
\* a tick.  The peer owes nothing.
Fairness == WF_vars(Step) /\ WF_vars(Tick)

FairSpec == Spec /\ Fairness

-----------------------------------------------------------------------------
\* Nothing in TlsStream keeps it from being polled after its handshake has
\* failed, or after the session was taken out of the future (tls.rs:224-230);
\* it is the order of these lines and hyper's ways that do.
NeverPanics == result # "panicked"

\* poll_flush and poll_shutdown never report a success that did not happen: by
\* the time hyper calls them there is a session (tls.rs:253-265).
NoHollowSuccess == ~hollow

\* The handshake as a whole has one interval.  It is a single read that waits,
\* and unlike an exchange of data its flights and fragments do not move the
\* deadline, so a peer that trickles bytes is cut on time (io.rs:171-179).
HandshakeBounded == tls = "Handshaking" /\ result = "none" => age <= Timeout

\* However the peer sends, or does not, its handshake comes to an end.
HandshakeEnds == <>(tls = "Streaming" \/ result # "none")

\* Under hyper and around TlsStream it is the same idle timer, handshake and all.
\* How long the connection has been quiet is told by what the stream under
\* TimeoutIO returned, and not by TimeoutIO's own deadline.
Promise == INSTANCE IdleTimer WITH
    Interval <- Timeout,
    mode <- IF task # "done" THEN "open"
            ELSE IF result = "timedOut" THEN "timedOut" ELSE "closed",
    quiet <- idle

\* No poll cuts the connection before its interval is over, and nothing but an
\* operation that completes moves the deadline (io.rs:158-186).
ImplementsIdleTimer == Promise!Spec

\* "If the operation is ready at once, the timer is reset and the result is
\* returned" (io.rs:158, 186), for every timeout with_timeout takes.
ReadyIsReturned == tls = "Streaming" => result # "panicked"
=============================================================================
