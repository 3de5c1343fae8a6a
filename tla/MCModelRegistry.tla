--------------------------- MODULE MCModelRegistry --------------------------
(* Two registrations of one model with different artifacts and a first job *)
(* of the same name; the placeholder has a version of its own.             *)
EXTENDS ModelRegistry

CONSTANTS r1, r2, q1, c1, c2, n1, v0, v1

MCNameOf    == [q \in Requests |-> n1]
MCVersionOf == [r \in Registrations |-> v1]
MCCidOf     == [r \in Registrations |-> IF r = r1 THEN c1 ELSE c2]
MCIdOf      == [p \in {n1} \X {v0, v1} |-> p[2]]
============================================================================
