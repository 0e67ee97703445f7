---------------------------- MODULE ServerDrain ----------------------------
(***************************************************************************)
(* The server keeps the promise of module Drain.  The connections it       *)
(* serves are those whose task runs; an upgraded one is not among them.    *)
(***************************************************************************)
EXTENDS Server

Mode ==
    CASE phase = "binding" -> "closed"
      [] phase = "serving" -> "open"
      [] phase = "draining" -> "draining"
      [] phase = "failed" -> "failed"
      [] phase \in {"returned", "exited"} -> outcome

Promise == INSTANCE Drain WITH mode <- Mode, live <- Live

\* Server::run admits only while it listens, reports a graceful end only when
\* nothing is left to serve, and ends in bounded time once it drains.
ImplementsDrain == Promise!Spec
=============================================================================
