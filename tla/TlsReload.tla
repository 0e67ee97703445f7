----------------------------- MODULE TlsReload -----------------------------
(***************************************************************************)
(* How a renewed certificate reaches new connections: somebody replaces    *)
(* the certificate and the key on disk, a task of serve_tls reads both     *)
(* every REFRESH_INTERVAL and broadcasts the configuration it builds, the  *)
(* accept loop receives it and replaces the one of its TlsAcceptor.        *)
(*                                                                         *)
(* The certificate file holds the server's own certificate (the leaf) and  *)
(* the rest of its chain; each part holds the generation of the pair it    *)
(* belongs to, 0 when it is missing or cut within a PEM block.  A file cut  *)
(* between two blocks, here after the leaf, loads as a shorter chain.  A   *)
(* configuration is what it was built from: leaf, key and rest of chain.   *)
(* A file is short enough to be read at once.                              *)
(***************************************************************************)
EXTENDS Naturals

CONSTANTS
    Conns,    \* connection slots, each taken again and again
    MaxGen    \* bound: how many pairs the operator ever installs

ASSUME MaxGenAssumption == MaxGen \in Nat \ {0}

VARIABLES
    rotation,   \* the generation the operator has installed or is installing
    disk,       \* what the two parts of the certificate file and the key file hold
    pc,         \* where serve_tls's first load and the refresher are
    certRead,   \* the leaf and the rest of the chain each of the two loads has read
    phase,      \* where serve_tls is
    config,     \* TlsAcceptor.config
    last,       \* the value in the broadcast channel
    pending,    \* messages rx has not received: 0, 1, or 2 for several
    accepted    \* the configuration each connection was accepted with

diskVars == <<rotation, disk>>
loadVars == <<pc, certRead>>
chanVars == <<last, pending>>
vars == <<rotation, disk, pc, certRead, phase, config, last, pending, accepted>>

Files == {"cert", "key"}
Parts == {"leaf", "rest", "key"}
PartsOf(f) == IF f = "cert" THEN {"leaf", "rest"} ELSE {"key"}
Loads == {"first", "refresher"}
NoCert == <<0, 0>>
None == <<0, 0, 0>>
Config == (1..MaxGen) \X (1..MaxGen) \X (0..MaxGen)

TypeOK ==
    /\ rotation \in 1..MaxGen
    /\ disk \in [Parts -> 0..MaxGen]
    /\ pc \in [Loads -> {"asleep", "readCert", "readKey", "done"}]
    /\ certRead \in [Loads -> (0..MaxGen) \X (0..MaxGen)]
    /\ phase \in {"loading", "serving", "draining", "ended"}
    /\ config \in Config \cup {None}
    /\ last \in Config \cup {None}
    /\ pending \in 0..2
    /\ accepted \in [Conns -> Config \cup {None}]

Init ==
    /\ rotation = 1
    /\ disk \in [Parts -> {0, 1}]
    /\ disk["rest"] <= disk["leaf"]
    /\ pc = [first |-> "readCert", refresher |-> "asleep"]
    /\ certRead = [load \in Loads |-> NoCert]
    /\ phase = "loading"
    /\ config = None
    /\ last = None
    /\ pending = 0
    /\ accepted = [c \in Conns |-> None]

-----------------------------------------------------------------------------
(* The operator, or the ACME client, that renews the pair.  Neither file is *)
(* locked, and the two are never replaced in one step.                     *)

StartRotation ==
    /\ \A p \in Parts : disk[p] = rotation
    /\ rotation < MaxGen
    /\ rotation' = rotation + 1
    /\ UNCHANGED <<disk, loadVars, phase, config, chanVars, accepted>>

\* The file is truncated to be written in place.
TruncateFile(f) ==
    /\ \A p \in PartsOf(f) : disk[p] < rotation
    /\ \E p \in PartsOf(f) : disk[p] # 0
    /\ disk' = [p \in Parts |-> IF p \in PartsOf(f) THEN 0 ELSE disk[p]]
    /\ UNCHANGED <<rotation, loadVars, phase, config, chanVars, accepted>>

\* The block of the leaf is written, the rest of its chain is not yet.
WriteLeaf ==
    /\ disk["leaf"] = 0
    /\ disk' = [disk EXCEPT !["leaf"] = rotation]
    /\ UNCHANGED <<rotation, loadVars, phase, config, chanVars, accepted>>

\* The new content is complete, written in place or renamed over the old one.
ReplaceFile(f) ==
    /\ \E p \in PartsOf(f) : disk[p] < rotation
    /\ disk' = [p \in Parts |-> IF p \in PartsOf(f) THEN rotation ELSE disk[p]]
    /\ UNCHANGED <<rotation, loadVars, phase, config, chanVars, accepted>>

-----------------------------------------------------------------------------
(* tls_config, run by serve_tls once and by the refresher every interval.  *)

\* Fault: a load that fails ends the refresher too.
LoadFailsForGood(load) ==
    /\ pc' = [pc EXCEPT ![load] = "done"]
    /\ phase' = IF load = "first" THEN "ended" ELSE phase
    /\ UNCHANGED <<config, chanVars>>

\* The first load that fails ends serve_tls, one of the refresher is ignored
\* until the next interval.
LoadFails(load) ==
    /\ pc' = [pc EXCEPT ![load] = IF load = "first" THEN "done" ELSE "asleep"]
    /\ phase' = IF load = "first" THEN "ended" ELSE phase
    /\ UNCHANGED <<config, chanVars>>

\* The bind may fail after the first load; the refresher's send overwrites the
\* one slot of the channel and fails once the receiver is gone.
Loaded(load, built) ==
    /\ pc' = [pc EXCEPT ![load] = IF load = "first" THEN "done" ELSE "asleep"]
    /\ \/ /\ load = "first"
          /\ config' = built
          /\ phase' \in {"serving", "ended"}
          /\ UNCHANGED chanVars
       \/ /\ load = "refresher"
          /\ phase # "ended"
          /\ last' = built
          /\ pending' = IF pending = 0 THEN 1 ELSE 2
          /\ UNCHANGED <<phase, config>>
       \/ /\ load = "refresher"
          /\ phase = "ended"
          /\ UNCHANGED <<phase, config, chanVars>>

\* Fault: a timer whose first tick is immediate.
WakeAtOnce ==
    /\ pc["refresher"] = "asleep"
    /\ pc' = [pc EXCEPT !["refresher"] = "readCert"]
    /\ UNCHANGED <<diskVars, certRead, phase, config, chanVars, accepted>>

\* The interval is over; nothing ends the refresher, not even the server's
\* return.  The first load takes far less than a day.
Wake ==
    /\ pc["refresher"] = "asleep"
    /\ phase # "loading"
    /\ pc' = [pc EXCEPT !["refresher"] = "readCert"]
    /\ UNCHANGED <<diskVars, certRead, phase, config, chanVars, accepted>>

\* The chain is read and parsed first.  One that is cut within a block does not
\* parse and an empty one is refused with the key; a short one is taken as it is.
ReadCert(load) ==
    /\ pc[load] = "readCert"
    /\ \/ /\ disk["leaf"] = 0
          /\ LoadFails(load)
          /\ UNCHANGED certRead
       \/ /\ disk["leaf"] # 0
          /\ certRead' = [certRead EXCEPT ![load] = <<disk["leaf"], disk["rest"]>>]
          /\ pc' = [pc EXCEPT ![load] = "readKey"]
          /\ UNCHANGED <<phase, config, chanVars>>
    /\ UNCHANGED <<diskVars, accepted>>

Built(load) == <<certRead[load][1], disk["key"], certRead[load][2]>>

\* Fault: the key is taken as it is.
ReadKeyUnchecked(load) ==
    /\ pc[load] = "readKey"
    /\ Loaded(load, Built(load))
    /\ certRead' = [certRead EXCEPT ![load] = NoCert]
    /\ UNCHANGED <<diskVars, accepted>>

\* Then the key; with_single_cert refuses one that is not the leaf's.
ReadKey(load) ==
    /\ pc[load] = "readKey"
    /\ \/ disk["key"] # certRead[load][1] /\ LoadFails(load)
       \/ disk["key"] = certRead[load][1] /\ Loaded(load, Built(load))
    /\ certRead' = [certRead EXCEPT ![load] = NoCert]
    /\ UNCHANGED <<diskVars, accepted>>

-----------------------------------------------------------------------------
(* The accept loop of serve_tls.                                           *)

\* rx.recv() is Ok: replace_config.
Receive ==
    /\ phase = "serving"
    /\ pending = 1
    /\ pending' = 0
    /\ config' = last
    /\ UNCHANGED <<diskVars, loadVars, phase, last, accepted>>

\* Fault: a lagging receiver skips to the end of the channel.
LaggedSkipsAll ==
    /\ phase = "serving"
    /\ pending = 2
    /\ pending' = 0
    /\ UNCHANGED <<diskVars, loadVars, phase, config, last, accepted>>

\* rx.recv() is Lagged: what was overwritten is gone, the next recv() returns
\* what is in the slot.
Lagged ==
    /\ phase = "serving"
    /\ pending = 2
    /\ pending' = 1
    /\ UNCHANGED <<diskVars, loadVars, phase, config, last, accepted>>

\* TlsAcceptor::accept: the connection takes a clone of the configuration and
\* handshakes with it, whatever is installed meanwhile.
Accept(c) ==
    /\ phase = "serving"
    /\ accepted' = [accepted EXCEPT ![c] = config]
    /\ UNCHANGED <<diskVars, loadVars, phase, config, chanVars>>

\* The shutdown branch; rx lives on, unread, until the drain is over.
Shutdown ==
    /\ phase = "serving"
    /\ phase' = "draining"
    /\ UNCHANGED <<diskVars, loadVars, config, chanVars, accepted>>

\* serve_tls returns and drops rx.
Return ==
    /\ phase = "draining"
    /\ phase' = "ended"
    /\ UNCHANGED <<diskVars, loadVars, config, chanVars, accepted>>

-----------------------------------------------------------------------------
Operator ==
    \/ StartRotation
    \/ WriteLeaf
    \/ \E f \in Files : TruncateFile(f) \/ ReplaceFile(f)

Refresher == Wake \/ ReadCert("refresher") \/ ReadKey("refresher")

Loop ==
    \/ ReadCert("first")
    \/ ReadKey("first")
    \/ Receive
    \/ Lagged
    \/ \E c \in Conns : Accept(c)
    \/ Shutdown
    \/ Return

Next == Operator \/ Refresher \/ Loop

\* The refresher's timer fires and its task runs; select! takes a branch that
\* stays ready.  Receive is strongly fair because the loop comes round many
\* times in an interval: the refresher cannot overwrite the slot between every
\* Lagged and the next recv().  The operator may stop half way.
Fairness == WF_vars(Refresher) /\ WF_vars(Lagged) /\ SF_vars(Receive)

Spec == Init /\ [][Next]_vars

FairSpec == Spec /\ Fairness

-----------------------------------------------------------------------------
\* Whatever the operator is doing to the files, no configuration in use pairs a
\* certificate with another one's key (tls.rs:47-57): not the acceptor's, not
\* the one in the channel, not a connection's.  Its chain is the leaf's own, or
\* is short.
PairWhole ==
    \A used \in {config, last} \cup {accepted[c] : c \in Conns} :
        used[1] = used[2] /\ used[3] \in {0, used[1]}

\* A receiver that has read the channel has the newest configuration, also one
\* that lagged and was told so; the warning of lib.rs:533 is about time only.
NothingLost ==
    phase = "serving" /\ pending = 0 /\ last # None => config = last

\* No connection is accepted with a configuration older than the newest one
\* received (tls.rs:121-132).
AcceptUsesNewest ==
    [][\A c \in Conns : accepted'[c] # accepted[c] /\ pending = 0 /\ last # None
           => accepted'[c] = last]_vars

\* A new configuration is never older than the one it replaces.
NeverOlder == [][config[1] <= config'[1]]_vars

\* Once the last pair is complete on disk, new connections get it with its whole
\* chain, whatever rounds failed or found a short one on the way (lib.rs:500-511,
\* 520-524).
RotationServed ==
    phase = "serving" /\ (\A p \in Parts : disk[p] = MaxGen)
        ~> config = <<MaxGen, MaxGen, MaxGen>> \/ phase # "serving"
=============================================================================
