------------------------------- MODULE Drain -------------------------------
(***************************************************************************)
(* What a server promises the program that awaits Server::run, with the    *)
(* sockets, tasks and channels left out: it admits connections while it is *)
(* open, stops admitting when it is told to stop, and then ends in bounded *)
(* time, either gracefully, with nothing left to serve, or by force.       *)
(***************************************************************************)
CONSTANT Conns

VARIABLES mode,   \* where the server is between its start and its return
          live    \* the connections it serves

vars == <<mode, live>>

TypeOK ==
    /\ mode \in {"closed", "open", "draining", "graceful", "forced", "failed"}
    /\ live \subseteq Conns

Init == mode = "closed" /\ live = {}

Open == mode = "closed" /\ mode' \in {"open", "failed"} /\ UNCHANGED live

Admit(c) == mode = "open" /\ c \notin live /\ live' = live \cup {c} /\ UNCHANGED mode

\* Connections leave at any time: the peer goes, a request is dropped, the
\* process that outlives the server ends.
Depart == live' \in SUBSET live /\ UNCHANGED mode

Stop == mode = "open" /\ mode' = "draining" /\ UNCHANGED live

Finish == mode = "draining" /\ live = {} /\ mode' = "graceful" /\ UNCHANGED live

GiveUp == mode = "draining" /\ mode' = "forced" /\ UNCHANGED live

Next ==
    \/ Open
    \/ \E c \in Conns : Admit(c)
    \/ Depart
    \/ Stop
    \/ Finish
    \/ GiveUp

\* Once it drains it ends, whatever the connections do.
Spec == Init /\ [][Next]_vars /\ WF_vars(Finish \/ GiveUp)

-----------------------------------------------------------------------------
(* What the program may count on, from the promise alone.                  *)

\* Whoever is told of a graceful end finds nothing served, then and later.
GracefulIsEmpty == mode = "graceful" => live = {}

\* A server that is not open admits nobody, and one that was told to stop never
\* opens again.
StoppedForGood ==
    [][/\ mode # "open" => live' \subseteq live
       /\ mode \notin {"closed", "open"} => mode' \notin {"closed", "open"}]_vars
=============================================================================
