----------------------------- MODULE TlsServer -----------------------------
(***************************************************************************)
(* serve_tls as a whole: the life of a server that is module Server, with  *)
(* the TLS configuration and its renewal that are module TlsReload.  Both  *)
(* have the same accept loop; here one step of it is a step of each.       *)
(***************************************************************************)
EXTENDS TlsReload, FiniteSets

CONSTANTS Reqs, MaxFiles, Interceptor    \* see Server

ASSUME ServeAssumption ==
    IsFiniteSet(Conns) /\ MaxFiles \in Nat \ {0} /\ Interceptor \in BOOLEAN

VARIABLES
    run,    \* Server's phase, which tells more than TlsReload's
    signal, outcome, conn, watchers, told, req

Serve == INSTANCE Server WITH phase <- run

reloadVars == vars
serveVars == <<signal, run, outcome, conn, watchers, told, req>>
tlsVars == <<reloadVars, serveVars>>

Open == Serve!OpenFiles

TlsInit == Init /\ Serve!Init

-----------------------------------------------------------------------------
\* The first load, then the listener: one `?` each.
StartUp ==
    /\ ReadCert("first") \/ ReadKey("first")
    /\ \/ phase' = "loading" /\ UNCHANGED serveVars
       \/ phase' = "serving" /\ Serve!Bind
       \/ phase' = "ended" /\ Serve!BindFails

\* The connection takes its configuration where it is accepted; the handshake
\* is its task's.
AcceptTls(c) == Accept(c) /\ Serve!Accept(c)

\* Fault: the connections share the acceptor's configuration.
TakeSharedConfig ==
    /\ phase = "serving" /\ pending = 1
    /\ pending' = 0
    /\ config' = last
    /\ accepted' = [c \in Conns |-> IF accepted[c] = None THEN None ELSE last]
    /\ UNCHANGED <<diskVars, loadVars, phase, last, serveVars>>

\* A configuration, or the news that some were overwritten.
TakeConfig == Receive /\ UNCHANGED serveVars

TakeLag == Lagged /\ UNCHANGED serveVars

\* drop(acceptor), and with it the listener.
StopLoop == Shutdown /\ Serve!TakeShutdown

EndDrain == Return /\ (Serve!DrainComplete \/ Serve!DrainTimeout)

\* Nothing ends the refresher but the runtime's own end.
Refresh == Refresher /\ run # "exited" /\ UNCHANGED serveVars

Renew == Operator /\ UNCHANGED serveVars

\* What a plain server does alike.
Alike ==
    /\ \/ Serve!ListenForSignal
       \/ Serve!SenderGone
       \/ Serve!SignalArrives
       \/ Serve!Exit
       \/ \E c \in Conns : Serve!AcceptError(c) \/ Serve!Task(c) \/ Serve!Client(c)
       \/ \E c \in Conns, r \in Reqs : Serve!Handler(c, r)
    /\ UNCHANGED reloadVars

TlsNext ==
    \/ StartUp
    \/ \E c \in Conns : AcceptTls(c)
    \/ TakeConfig
    \/ TakeLag
    \/ StopLoop
    \/ EndDrain
    \/ Refresh
    \/ Renew
    \/ Alike

TlsSpec == TlsInit /\ [][TlsNext]_tlsVars

\* As in TlsReload.
TlsFairness == WF_tlsVars(Refresh) /\ WF_tlsVars(TakeLag) /\ SF_tlsVars(TakeConfig)

TlsFairSpec == TlsSpec /\ TlsFairness

-----------------------------------------------------------------------------
\* The two views of the loop agree.
InStep ==
    phase = CASE run = "binding" -> "loading"
              [] run \in {"serving", "draining"} -> run
              [] run \in {"returned", "failed", "exited"} -> "ended"

TlsTypeOK == TypeOK /\ Serve!TypeOK /\ InStep

\* Whatever a rotation does to the files: every connection that is open, from
\* its handshake to its end, drain included, was given a configuration, and that
\* is a certificate with its own key and its own chain, at worst a short one
\* (lib.rs:512, 541-543, tls.rs:47-57).
ServedWhole == PairWhole /\ \A c \in Open : accepted[c] # None

\* A new configuration is for new connections and "existing connections are not
\* affected" (tls.rs:121-124); a new one gets the newest that was received.
OnlyNewAffected ==
    [][\A c \in Conns : accepted'[c] # accepted[c] =>
            /\ c \notin Open
            /\ pending = 0 /\ last # None => accepted'[c] = last]_tlsVars
=============================================================================
