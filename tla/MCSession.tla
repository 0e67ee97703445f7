----------------------------- MODULE MCSession -----------------------------
(***************************************************************************)
(* Session on a small instance.  Users and secrets are only compared for   *)
(* equality, and no liveness is checked, so they may be permuted.          *)
(***************************************************************************)
EXTENDS Session, TLC

Symmetry == Permutations(Users) \cup Permutations(Secrets)
=============================================================================
