------------------------------ MODULE MCServer ------------------------------
(* Small instances of Server.                                              *)
EXTENDS Server

\* Addresses are alike
Symmetry == Permutations(Addrs)
=============================================================================
