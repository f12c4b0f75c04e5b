------------------------------ MODULE ServiceMC ------------------------------
(* Service on small instances; pollers and bases are interchangeable. *)
EXTENDS Service, TLC

CONSTANTS p1, p2, b1, b2

Permuted == Permutations(Pollers) \cup Permutations(Bases)

(* Bound: one of the jobs is removed, the other one may stay. *)
OneRemoval == IF rm.pc = "idle" THEN Cardinality((1..inserted) \ exists) <= 1
                                ELSE 1..inserted = exists \cup {rm.job}

(* Bounds: two submissions, so that a removal takes two requests, and requests *)
(* nobody waits for any more, are combined with one poller at work at a time.  *)
Working == {p \in Pollers : pl[p].pc # "idle"}
AloneWithTwo == visible > 1 => Cardinality(Working) <= 1
AloneWithDoubt == abandoned # {} \/ doomed # {} => Cardinality(Working) <= 1
=============================================================================
