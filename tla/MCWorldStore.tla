---------------------------- MODULE MCWorldStore ----------------------------
(***************************************************************************)
(* Instances of WorldStore for TLC.                                        *)
(***************************************************************************)
EXTENDS WorldStore, TLC

CONSTANTS c1, c2, c3, a

\* A corridor of two tiles and a wall behind it; both tiles are spawn points.
Corridor == <<0, 0, 1>>
CorridorSpawns == <<<<0, 0>>, <<16, 0>>>>
NoNpcs == [n \in {} |-> <<0, 0>>]

\* One character and three sockets, a new one for every reconnection.
OneCharacter == {c1, c2, c3} \X {a}
Sockets == Permutations({c1, c2, c3})

NothingStored == {None}
=============================================================================
