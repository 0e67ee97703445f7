-------------------------- MODULE TlsReloadProofs --------------------------
(***************************************************************************)
(* What holds of TlsReload for every number of connections and of          *)
(* rotations: generations only grow on their way from the files through    *)
(* the refresher and the channel to the acceptor.                          *)
(***************************************************************************)
EXTENDS TlsReload, TLAPS

(***************************************************************************)
(* The strengthening.                                                      *)
(***************************************************************************)

\* The first load is over exactly when serve_tls has left it; until then the
\* refresher has not run.  A message in the channel has a configuration.
Stages ==
    /\ pc["first"] \in {"readCert", "readKey"} <=> phase = "loading"
    /\ phase = "loading" => /\ config = None /\ last = None /\ pending = 0
                            /\ pc["refresher"] = "asleep"
    /\ pending # 0 => last # None

\* No later read of the certificate file yields a generation older than g.
NotAhead(g) == g <= rotation /\ (disk["leaf"] # 0 => g <= disk["leaf"])

\* Generations are ordered along their way.
Ordered ==
    /\ \A p \in Parts : disk[p] <= rotation
    /\ NotAhead(config[1]) /\ NotAhead(last[1])
    /\ last # None => config[1] <= last[1]
    /\ \A load \in Loads :
           pc[load] = "readKey" => /\ certRead[load][1] # 0
                                   /\ NotAhead(certRead[load][1])
    /\ pc["refresher"] = "readKey" => /\ config[1] <= certRead["refresher"][1]
                                      /\ last[1] <= certRead["refresher"][1]

\* A chain, on disk or read, is its leaf's or is short.
ChainOwn ==
    /\ disk["rest"] \in {0, disk["leaf"]}
    /\ \A load \in Loads : certRead[load][2] \in {0, certRead[load][1]}

IInv == TypeOK /\ Stages /\ Ordered /\ ChainOwn /\ PairWhole /\ NothingLost

(***************************************************************************)
(* The invariant.                                                          *)
(***************************************************************************)

LEMMA IInvInit == Init => IInv
  BY MaxGenAssumption DEF Init, IInv, TypeOK, Parts, Loads, None, NoCert, Config, Stages,
     Ordered, ChainOwn, NotAhead, PairWhole, NothingLost

\* What the operator does to the files leaves every order standing.
LEMMA OperatorKeeps ==
    ASSUME IInv, Operator
    PROVE  IInv'
<1> USE DEF IInv, diskVars, loadVars, chanVars, TypeOK
<1>1. UNCHANGED <<loadVars, phase, config, chanVars, accepted>>
  BY DEF Operator, StartRotation, TruncateFile, WriteLeaf, ReplaceFile
<1> DEFINE FilesMove ==
               /\ rotation' \in 1..MaxGen /\ rotation <= rotation'
               /\ disk' \in [Parts -> 0..MaxGen]
               /\ \A p \in Parts : disk'[p] <= rotation'
               /\ disk'["rest"] \in {0, disk'["leaf"]}
               /\ disk'["leaf"] \in {0, disk["leaf"], rotation'}
               /\ disk'["leaf"] = disk["leaf"] \/ rotation' = rotation
<1>2. FilesMove
  <2> USE MaxGenAssumption DEF Parts, PartsOf, Ordered, ChainOwn
  <2>1. CASE StartRotation
    BY <2>1 DEF StartRotation
  <2>2. CASE WriteLeaf
    BY <2>2 DEF WriteLeaf
  <2>3. ASSUME NEW f \in Files, TruncateFile(f) PROVE FilesMove
    <3>1. \A p \in Parts : disk'[p] \in {0, disk[p]}
      BY <2>3 DEF TruncateFile
    <3>2. disk'["rest"] \in {0, disk'["leaf"]} /\ disk' \in [Parts -> 0..MaxGen]
      BY <2>3 DEF TruncateFile, Files
    <3>3. QED BY <2>3, <3>1, <3>2 DEF TruncateFile
  <2>4. ASSUME NEW f \in Files, ReplaceFile(f) PROVE FilesMove
    BY <2>4 DEF ReplaceFile, Files
  <2>5. QED BY <2>1, <2>2, <2>3, <2>4 DEF Operator
<1>3. TypeOK' /\ Stages' /\ ChainOwn' /\ PairWhole' /\ NothingLost'
  BY <1>1, <1>2 DEF Stages, ChainOwn, PairWhole, NothingLost
<1>4. Ordered'
  <2>1. ASSUME NEW g \in Nat, NotAhead(g) PROVE NotAhead(g)'
    BY <1>2, <2>1 DEF NotAhead, Parts
  <2>2. QED
    BY <1>1, <1>2, <2>1, MaxGenAssumption DEF Ordered, Config, None, Loads
<1>5. QED BY <1>3, <1>4

LEMMA ReadCertKeeps ==
    ASSUME IInv, NEW load \in Loads, ReadCert(load)
    PROVE  IInv'
<1> USE DEF IInv, ReadCert, LoadFails, diskVars, chanVars
<1>1. TypeOK'
  BY DEF TypeOK, Loads, Parts
<1>2. Stages'
  BY DEF Stages, TypeOK, Loads
<1>3. Ordered'
  BY DEF Ordered, NotAhead, TypeOK, Loads, Parts, Config, None, Stages
<1>4. PairWhole' /\ NothingLost' /\ ChainOwn'
  BY DEF PairWhole, NothingLost, ChainOwn, TypeOK, Stages, Loads
<1>5. QED BY <1>1, <1>2, <1>3, <1>4

\* The load that succeeds has a pair of one generation.
LEMMA ReadKeyKeeps ==
    ASSUME IInv, NEW load \in Loads, ReadKey(load)
    PROVE  IInv'
<1> USE DEF IInv, diskVars, chanVars
<1>0. /\ pc[load] = "readKey"
      /\ certRead' = [certRead EXCEPT ![load] = NoCert]
      /\ UNCHANGED <<diskVars, accepted>>
  BY DEF ReadKey
<1> NoCert \in (0..MaxGen) \X (0..MaxGen)
  BY MaxGenAssumption DEF NoCert
<1>1. ChainOwn'
  BY <1>0 DEF ChainOwn, TypeOK, Loads, NoCert
<1>2. CASE LoadFails(load)
  <2>1. TypeOK'
    BY <1>0, <1>2 DEF LoadFails, TypeOK, Loads, Parts
  <2>2. Stages'
    BY <1>0, <1>2 DEF LoadFails, Stages, TypeOK, Loads
  <2>3. Ordered'
    BY <1>0, <1>2 DEF LoadFails, Ordered, NotAhead, TypeOK, Loads
  <2>4. PairWhole' /\ NothingLost'
    BY <1>0, <1>2 DEF LoadFails, PairWhole, NothingLost
  <2>5. QED BY <1>1, <2>1, <2>2, <2>3, <2>4
<1>3. CASE disk["key"] = certRead[load][1] /\ Loaded(load, Built(load))
  <2> DEFINE g == certRead[load][1]
             h == certRead[load][2]
             built == <<g, g, h>>
  <2>1. g \in 1..MaxGen /\ NotAhead(g) /\ h \in {0, g} /\ h \in 0..MaxGen
    BY <1>0 DEF Ordered, ChainOwn, TypeOK, Loads
  <2>2. /\ Loaded(load, built)
        /\ built \in Config /\ built # None
        /\ built[1] = g /\ built[2] = g /\ built[3] = h
    BY <1>3, <2>1 DEF Built, Config, None
  <2>3. TypeOK'
    BY <1>0, <2>2 DEF Loaded, TypeOK, Loads, Parts
  <2>4. Stages'
    BY <1>0, <2>2 DEF Loaded, Stages, TypeOK, Loads
  <2> HIDE DEF built
  <2>5. Ordered'
    <3>1. CASE load = "first"
      BY <1>0, <2>1, <2>2, <3>1 DEF Loaded, Ordered, NotAhead, Stages, TypeOK, Loads, None
    <3>2. CASE load = "refresher"
      BY <1>0, <2>1, <2>2, <3>2 DEF Loaded, Ordered, NotAhead, Stages, TypeOK, Loads, None
    <3>3. QED BY <3>1, <3>2 DEF Loads
  <2>6. PairWhole'
    BY <1>0, <2>1, <2>2 DEF Loaded, PairWhole
  <2>7. NothingLost'
    BY <1>0, <2>2 DEF Loaded, NothingLost, Stages, TypeOK
  <2>8. QED BY <1>1, <2>3, <2>4, <2>5, <2>6, <2>7
<1>4. QED BY <1>2, <1>3 DEF ReadKey

LEMMA IInvNext == IInv /\ [Next]_vars => IInv'
<1> SUFFICES ASSUME IInv, [Next]_vars PROVE IInv'
  OBVIOUS
<1> USE DEF IInv, diskVars, loadVars, chanVars
<1>1. CASE Wake
  BY <1>1 DEF Wake, TypeOK, Stages, Ordered, NotAhead, ChainOwn, PairWhole, NothingLost,
     Loads
<1>2. CASE Receive
  <2>1. config' = last /\ last # None /\ pending' = 0
    BY <1>2 DEF Receive, Stages
  <2>2. TypeOK' /\ Stages' /\ ChainOwn' /\ PairWhole' /\ NothingLost'
    BY <1>2, <2>1 DEF Receive, TypeOK, Stages, ChainOwn, PairWhole, NothingLost
  <2>3. Ordered'
    BY <1>2, <2>1 DEF Receive, Ordered, NotAhead, TypeOK, Config, None
  <2>4. QED BY <2>2, <2>3
<1>3. CASE Lagged \/ Shutdown \/ Return
  BY <1>3 DEF Lagged, Shutdown, Return, TypeOK, Stages, Ordered, NotAhead, ChainOwn,
     PairWhole, NothingLost
<1>4. ASSUME NEW c \in Conns, Accept(c) PROVE IInv'
  <2>1. TypeOK' /\ PairWhole'
    BY <1>4 DEF Accept, TypeOK, PairWhole
  <2>2. Stages' /\ Ordered' /\ ChainOwn' /\ NothingLost'
    BY <1>4 DEF Accept, Stages, Ordered, NotAhead, ChainOwn, NothingLost
  <2>3. QED BY <2>1, <2>2
<1>5. CASE UNCHANGED vars
  BY <1>5 DEF vars, TypeOK, Stages, Ordered, NotAhead, ChainOwn, PairWhole,
     NothingLost
<1>6. QED
  BY <1>1, <1>2, <1>3, <1>4, <1>5, OperatorKeeps, ReadCertKeeps, ReadKeyKeeps
     DEF Next, Refresher, Loop, Loads

THEOREM Invariance == Spec => []IInv
  BY IInvInit, IInvNext, PTL DEF Spec

(***************************************************************************)
(* What follows.                                                           *)
(***************************************************************************)

\* Every variable keeps its type.  With it, whatever the operator leaves on disk
\* half written, a configuration in use has a leaf and a key that were complete;
\* only the rest of its chain may be missing (tls.rs:47-58).
THEOREM TypeCorrect == Spec => []TypeOK
  BY Invariance, PTL DEF IInv

\* No certificate is ever used with another one's key or another one's chain.
THEOREM PairsAreWhole == Spec => []PairWhole
  BY Invariance, PTL DEF IInv

\* A receiver that has read the channel has the newest configuration.
THEOREM NothingIsLost == Spec => []NothingLost
  BY Invariance, PTL DEF IInv

LEMMA AcceptStep ==
    ASSUME IInv, [Next]_vars, NEW c \in Conns,
           accepted'[c] # accepted[c], pending = 0, last # None
    PROVE  accepted'[c] = last
<1>1. PICK d \in Conns : Accept(d)
  BY DEF Next, vars, Operator, StartRotation, TruncateFile, WriteLeaf, ReplaceFile, Refresher, Loop,
     Wake, ReadCert, ReadKey, Receive, Lagged, Shutdown, Return
<1>2. QED BY <1>1 DEF Accept, IInv, NothingLost, TypeOK

\* A connection is accepted with the newest configuration received.
THEOREM NewestAccepted == Spec => AcceptUsesNewest
<1>1. IInv /\ [Next]_vars
        => [\A c \in Conns : accepted'[c] # accepted[c] /\ pending = 0 /\ last # None
                => accepted'[c] = last]_vars
  BY AcceptStep
<1>2. QED BY <1>1, Invariance, PTL DEF Spec, AcceptUsesNewest

\* A configuration is never replaced by an older one.
THEOREM NoRollback == Spec => NeverOlder
<1>1. ASSUME IInv, [Next]_vars PROVE config[1] <= config'[1]
  <2>1. config[1] \in Nat
    BY MaxGenAssumption, <1>1 DEF IInv, TypeOK, Config, None
  <2>2. CASE config' = config
    BY <2>1, <2>2
  <2>3. CASE Receive
    BY <1>1, <2>3 DEF Receive, IInv, Stages, Ordered
  <2>4. CASE ReadKey("first")
    <3>1. config[1] = 0 /\ certRead["first"][1] \in Nat
      BY <1>1, <2>4 DEF ReadKey, IInv, Stages, TypeOK, None, Loads
    <3>2. config' = config \/ config'[1] = certRead["first"][1]
      BY <2>4 DEF ReadKey, Loaded, LoadFails, Built
    <3>3. QED BY <2>1, <3>1, <3>2
  <2>5. QED
    BY <1>1, <2>2, <2>3, <2>4 DEF Next, vars, Operator, StartRotation, TruncateFile,
       WriteLeaf, ReplaceFile, Refresher, Loop, Wake, ReadCert, ReadKey, LoadFails, Loaded, Lagged,
       Accept, Shutdown, Return
<1>2. QED BY <1>1, Invariance, PTL DEF Spec, NeverOlder
=============================================================================
