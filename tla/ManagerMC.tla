----------------------------- MODULE ManagerMC ------------------------------
(* Manager on small instances. *)
EXTENDS Manager, TLC

CONSTANTS j1, j2, g1, g2, g3, r1, r2

(* Pollers and requests are interchangeable; used for safety runs only. *)
Symmetry == Permutations({g1, g2, g3}) \cup Permutations({r1, r2})
=============================================================================
