------------------------------ MODULE MCServer ------------------------------
(***************************************************************************)
(* Server on small instances.  Connection and request slots are only ever  *)
(* compared for equality, so they may be permuted where no liveness is     *)
(* checked.                                                                *)
(***************************************************************************)
EXTENDS ServerDrain, TLC

Symmetry == Permutations(Conns) \cup Permutations(Reqs)
=============================================================================
