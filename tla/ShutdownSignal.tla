--------------------------- MODULE ShutdownSignal ---------------------------
(***************************************************************************)
(* From the operating system's signal to the servers' shutdown: the        *)
(* broadcast channels, the task that subscribe_shutdown_sender spawns for  *)
(* each (lib.rs, the Unix variant of wait_signal), tokio's signal handlers *)
(* and the receivers that Server::run polls.  A process may have several   *)
(* channels, and a channel several receivers.                              *)
(***************************************************************************)
EXTENDS Naturals

CONSTANTS
    Chans,   \* broadcast channels
    Recvs    \* receivers, each given to a server

Signals == {"SIGTERM", "SIGINT"}

VARIABLES
    process,    \* is the process there?
    handlers,   \* signals tokio has taken from the system's default
    raised,     \* signals tokio's handler has noted and not yet handed on
    task,       \* the signal task of each channel
    pending,    \* signals the task's streams hold
    kept,       \* channels made by the user, who still has a sender
    sub,        \* the channel of each receiver
    unit,       \* receivers the unit was sent to
    srv,        \* the server each receiver was given to
    settled,    \* history: some task has registered both streams
    arrived,    \* history: a signal has come that did not kill the process
    failed      \* history: tasks that could not register

osVars == <<process, handlers, raised, arrived>>
taskVars == <<task, pending, settled, failed>>
chanVars == <<kept, sub>>
vars == <<process, handlers, raised, task, pending, kept, sub, unit, srv,
          settled, arrived, failed>>

None == "none"
ASSUME NoneAssumption == None \notin Chans

TypeOK ==
    /\ process \in {"alive", "killed"}
    /\ handlers \subseteq Signals
    /\ raised \subseteq Signals
    /\ task \in [Chans -> {None, "spawned", "termOnly", "waiting", "sent", "panicked"}]
    /\ pending \in [Chans -> SUBSET Signals]
    /\ kept \subseteq Chans
    /\ sub \in [Recvs -> Chans \cup {None}]
    /\ unit \subseteq Recvs
    /\ srv \in [Recvs -> {None, "serving", "draining"}]
    /\ settled \in BOOLEAN
    /\ arrived \in BOOLEAN
    /\ failed \subseteq Chans

Init ==
    /\ process = "alive" /\ handlers = {} /\ raised = {}
    /\ task = [c \in Chans |-> None] /\ pending = [c \in Chans |-> {}]
    /\ kept = {}
    /\ sub = [r \in Recvs |-> None] /\ unit = {} /\ srv = [r \in Recvs |-> None]
    /\ settled = FALSE /\ arrived = FALSE /\ failed = {}

Over(c) == task[c] \in {"sent", "panicked"}

-----------------------------------------------------------------------------
(* The public functions.                                                   *)

\* tokio::spawn: the task takes the sender with it, and is polled some day.
Spawn(c) ==
    /\ process = "alive"
    /\ task[c] = None
    /\ task' = [task EXCEPT ![c] = "spawned"]
    /\ UNCHANGED <<pending, settled, failed>>

\* generate_shutdown_receiver: a channel of its own, with one receiver.
Generate(c, r) ==
    /\ sub[r] = None
    /\ Spawn(c)
    /\ sub' = [sub EXCEPT ![r] = c]
    /\ UNCHANGED <<osVars, kept, unit, srv>>

\* subscribe_shutdown_sender with a clone of the user's sender.
SubscribeSender(c) ==
    /\ Spawn(c)
    /\ kept' = kept \cup {c}
    /\ UNCHANGED <<osVars, sub, unit, srv>>

\* shutdown_tx.subscribe(), before the signal or after it.
Subscribe(c, r) ==
    /\ process = "alive"
    /\ c \in kept
    /\ sub[r] = None
    /\ sub' = [sub EXCEPT ![r] = c]
    /\ UNCHANGED <<osVars, taskVars, kept, unit, srv>>

DropSender(c) ==
    /\ process = "alive"
    /\ c \in kept
    /\ kept' = kept \ {c}
    /\ UNCHANGED <<osVars, taskVars, sub, unit, srv>>

-----------------------------------------------------------------------------
(* wait_signal.                                                            *)

\* Fault: another kind of signal is registered.
RegisterHangup(c) ==
    /\ process = "alive"
    /\ task[c] = "spawned"
    /\ handlers' = handlers \cup {"SIGHUP"}
    /\ task' = [task EXCEPT ![c] = "termOnly"]
    /\ UNCHANGED <<process, raised, arrived, pending, chanVars, unit, srv, settled, failed>>

\* signal(SignalKind::terminate()).
RegisterTerm(c) ==
    /\ process = "alive"
    /\ task[c] = "spawned"
    /\ handlers' = handlers \cup {"SIGTERM"}
    /\ task' = [task EXCEPT ![c] = "termOnly"]
    /\ UNCHANGED <<process, raised, arrived, pending, chanVars, unit, srv, settled, failed>>

\* Its error ends the task in a panic, which drops the task's sender.
RegisterTermFails(c) ==
    /\ process = "alive"
    /\ task[c] = "spawned"
    /\ task' = [task EXCEPT ![c] = "panicked"]
    /\ failed' = failed \cup {c}
    /\ UNCHANGED <<osVars, pending, chanVars, unit, srv, settled>>

\* The first poll of ctrl_c(), in select!.
RegisterInt(c) ==
    /\ process = "alive"
    /\ task[c] = "termOnly"
    /\ handlers' = handlers \cup {"SIGINT"}
    /\ task' = [task EXCEPT ![c] = "waiting"]
    /\ settled' = TRUE
    /\ UNCHANGED <<process, raised, arrived, pending, chanVars, unit, srv, failed>>

\* The task is over, and its streams and its sender are gone.
Tell(c) ==
    /\ task' = [task EXCEPT ![c] = "sent"]
    /\ pending' = [pending EXCEPT ![c] = {}]
    /\ unit' = unit \cup {r \in Recvs : sub[r] = c}

\* ctrl_c() returns an error: the pattern `_` takes it for a Ctrl+C.
RegisterIntFails(c) ==
    /\ process = "alive"
    /\ task[c] = "termOnly"
    /\ Tell(c)
    /\ failed' = failed \cup {c}
    /\ UNCHANGED <<osVars, chanVars, srv, settled>>

\* Fault: the wait ends for one receiver, as with a queue they share.
SendOne(c) ==
    /\ process = "alive"
    /\ pending[c] # {}
    /\ task' = [task EXCEPT ![c] = "sent"]
    /\ pending' = [pending EXCEPT ![c] = {}]
    /\ \E r \in Recvs : unit' = unit \cup ({r} \cap {q \in Recvs : sub[q] = c})
    /\ UNCHANGED <<osVars, chanVars, srv, settled, failed>>

\* Fault: the task gives the signals back to the system when it ends.
SendUnregisters(c) ==
    /\ process = "alive"
    /\ pending[c] # {}
    /\ Tell(c)
    /\ handlers' = {}
    /\ UNCHANGED <<process, raised, arrived, chanVars, srv, settled, failed>>

\* A stream has a signal.  recv() of the SIGTERM stream may be ready before
\* ctrl_c() has been polled at all, and then never is.
Send(c) ==
    /\ process = "alive"
    /\ pending[c] # {}
    /\ Tell(c)
    /\ UNCHANGED <<osVars, chanVars, srv, settled, failed>>

-----------------------------------------------------------------------------
(* The system and tokio.                                                   *)

\* A signal nobody has registered for ends the process.
Signal(s) ==
    /\ process = "alive"
    /\ \/ s \in handlers /\ raised' = raised \cup {s} /\ arrived' = TRUE /\ UNCHANGED process
       \/ s \notin handlers /\ process' = "killed" /\ UNCHANGED <<raised, arrived>>
    /\ UNCHANGED <<handlers, taskVars, chanVars, unit, srv>>

Streams(c) ==
    CASE task[c] = "termOnly" -> {"SIGTERM"}
      [] task[c] = "waiting" -> Signals
      [] OTHER -> {}

\* Every stream there is gets the signal; the handlers stay for good.
Dispatch ==
    /\ process = "alive"
    /\ raised # {}
    /\ raised' = {}
    /\ pending' = [c \in Chans |-> pending[c] \cup (raised \cap Streams(c))]
    /\ UNCHANGED <<process, handlers, arrived, task, chanVars, unit, srv, settled, failed>>

-----------------------------------------------------------------------------
(* The receivers' servers.                                                 *)

Run(r) ==
    /\ process = "alive"
    /\ sub[r] # None
    /\ srv[r] = None
    /\ srv' = [srv EXCEPT ![r] = "serving"]
    /\ UNCHANGED <<osVars, taskVars, chanVars, unit>>

\* Fault: the task does not keep the channel open by itself.
ClosedEarly(c) == task[c] # None /\ c \notin kept

\* Nobody has a sender of the channel any more.
Closed(c) == Over(c) /\ c \notin kept

\* Fault: an empty channel read as a request to stop.
TakeShutdownEmpty(r) ==
    /\ process = "alive"
    /\ srv[r] = "serving"
    /\ srv' = [srv EXCEPT ![r] = "draining"]
    /\ UNCHANGED <<osVars, taskVars, chanVars, unit>>

\* shutdown_rx.recv() returns, with the unit or with the channel's end.
TakeShutdown(r) ==
    /\ process = "alive"
    /\ srv[r] = "serving"
    /\ r \in unit \/ Closed(sub[r])
    /\ srv' = [srv EXCEPT ![r] = "draining"]
    /\ UNCHANGED <<osVars, taskVars, chanVars, unit>>

-----------------------------------------------------------------------------
User(c) ==
    \/ SubscribeSender(c)
    \/ DropSender(c)
    \/ \E r \in Recvs : Generate(c, r) \/ Subscribe(c, r)

WaitSignal(c) ==
    \/ RegisterTerm(c)
    \/ RegisterTermFails(c)
    \/ RegisterInt(c)
    \/ RegisterIntFails(c)
    \/ Send(c)

Next ==
    \/ \E c \in Chans : User(c) \/ WaitSignal(c)
    \/ \E s \in Signals : Signal(s)
    \/ Dispatch
    \/ \E r \in Recvs : Run(r) \/ TakeShutdown(r)

Spec == Init /\ [][Next]_vars

\* tokio polls what it has woken; users and the system owe nothing.
Fairness ==
    /\ WF_vars(Dispatch)
    /\ \A c \in Chans : WF_vars(WaitSignal(c))
    /\ \A r \in Recvs : WF_vars(TakeShutdown(r))

FairSpec == Spec /\ Fairness

-----------------------------------------------------------------------------
(* A server sees of all this what module Server says.                      *)

SignalOf(r) ==
    IF r \in unit THEN "sent"
    ELSE IF sub[r] = None THEN "starting"
    ELSE IF task[sub[r]] = "spawned" THEN "starting"
    ELSE IF Closed(sub[r]) THEN "dropped" ELSE "listening"

PhaseOf(r) == IF srv[r] = None THEN "binding" ELSE srv[r]

NoConns == [c \in {} |-> None]

View(r) == INSTANCE Server WITH
    Conns <- {}, Reqs <- {}, MaxFiles <- 1, Interceptor <- FALSE,
    signal <- SignalOf(r), phase <- PhaseOf(r), outcome <- None,
    conn <- NoConns, watchers <- {}, told <- {}, req <- NoConns

\* The signal that Server takes for given, step by step, is what a receiver
\* gets here from whatever channel it was made for (lib.rs:447, 573-590).
ImplementsSignal ==
    /\ \A r \in Recvs : View(r)!Init
    /\ [][\A r \in Recvs : [View(r)!Next]_(View(r)!vars)]_vars

-----------------------------------------------------------------------------
\* A server stops only for a signal its own channel's task received, or when
\* that task could not register; not because a user let go of a sender or
\* another server's channel has ended (lib.rs:585-594).
NoSpuriousShutdown ==
    \A r \in Recvs :
        srv[r] = "draining" =>
            /\ sub[r] # None /\ Over(sub[r])
            /\ arrived \/ sub[r] \in failed

\* From the first complete registration on, no SIGTERM and no Ctrl+C ends the
\* process at once, however many follow and even when all tasks are over: the
\* drain cannot be cut short by a second Ctrl+C (lib.rs:608-618).
SettledNeverKilled == settled => process = "alive"

\* A signal that comes when a channel's task waits stops every server that runs
\* on one of the receivers there were, also one that begins to run only after the
\* unit was sent (lib.rs:447, 586-589).
AllTold ==
    \A c \in Chans, r \in Recvs :
        <>(task[c] = "waiting" /\ raised # {} /\ sub[r] = c) => []<>(srv[r] # "serving")

\* Whoever holds a receiver is notified of SIGTERM and Ctrl+C (lib.rs:562).
SubscribedNotKilled == process = "killed" => \A r \in Recvs : sub[r] = None
=============================================================================
