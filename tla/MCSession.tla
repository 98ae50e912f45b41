----------------------------- MODULE MCSession -----------------------------
(* Small instances of Session.                                             *)
EXTENDS Session, TLC

\* Clients are alike
Symmetry == Permutations(Clients)
=============================================================================
