----------------------------- MODULE MCSessions -----------------------------
(* Instances of Sessions for TLC. *)
EXTENDS Sessions, TLC

Symmetry == Permutations(Sess) \cup Permutations(Hnds) \cup Permutations(Transports)
=============================================================================
