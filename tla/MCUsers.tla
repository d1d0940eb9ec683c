------------------------------ MODULE MCUsers -------------------------------
(* Two rival registrations and three changes.  Symmetry and liveness do    *)
(* not go together in TLC, so the initial states are chosen instead: one   *)
(* for all those that are alike up to the names of requests.               *)
EXTENDS Users

CONSTANTS ann, bea, r1, r2, r3

MCCreations == {ann, bea}
MCChanges   == {r1, r2, r3}

\* What a change asks for, as a number.
Asks(r) == (IF target[r] = ann THEN 0 ELSE 2) + (IF wanted[r] = "ACTIVE" THEN 0 ELSE 1)

MCInit ==
    /\ Init
    /\ Asks(r1) <= Asks(r2) /\ Asks(r2) <= Asks(r3)
    /\ Cardinality(ChangesOf(bea)) < Cardinality(ChangesOf(ann))

MCSpec == MCInit /\ [][Next]_vars /\ Fairness
=============================================================================
