----------------------------- MODULE IdleTimer -----------------------------
(***************************************************************************)
(* What the idle timeout of a connection promises, with its polls, wakers  *)
(* and deadlines left out: the interval begins anew whenever an operation  *)
(* completes, and the connection is cut for silence only at its end.       *)
(***************************************************************************)
EXTENDS Naturals

CONSTANT Interval

VARIABLES mode,   \* what became of the connection
          quiet   \* time since an operation completed, counted to Interval

vars == <<mode, quiet>>

TypeOK ==
    /\ mode \in {"open", "closed", "timedOut"}
    /\ quiet \in 0..Interval

Init == mode = "open" /\ quiet = 0

\* An operation completes; it may be the connection's last.
Move == mode = "open" /\ mode' \in {"open", "closed"} /\ quiet' = 0

Pass == mode = "open" /\ quiet < Interval /\ quiet' = quiet + 1 /\ UNCHANGED mode

Expire == mode = "open" /\ quiet = Interval /\ mode' = "timedOut" /\ UNCHANGED quiet

\* It ends for a cause of its own.
Close == mode = "open" /\ mode' = "closed" /\ UNCHANGED quiet

Next == Move \/ Pass \/ Expire \/ Close

Spec == Init /\ [][Next]_vars

-----------------------------------------------------------------------------
\* What the user of a connection may count on, from the promise alone: one that
\* was cut for silence had been quiet for the whole interval.
CutIsWhole == mode = "timedOut" => quiet = Interval
=============================================================================
