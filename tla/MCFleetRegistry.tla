-------------------------- MODULE MCFleetRegistry --------------------------
(* A fleet of two devices and three requests, two of which repeat an id.   *)
EXTENDS FleetRegistry, TLC

CONSTANTS d1, d2, q1, q2, q3, c1, c2

MCDevices == {d1, d2}
MCRequests == {q1, q2, q3}
MCCommandIds == {c1, c2}

\* q1 and q2 carry the same command_id, q3 has one of its own.
MCIdOf == (q1 :> c1) @@ (q2 :> c1) @@ (q3 :> c2)

MCTimes == {1}

Symmetry == Permutations(MCDevices)
=============================================================================
