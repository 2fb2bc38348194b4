------------------------------ MODULE MCWorld ------------------------------
(***************************************************************************)
(* Instances of World for TLC.                                             *)
(***************************************************************************)
EXTENDS World, TLC

CONSTANTS c1, c2, c3, a, b, oak

\* A corridor of three tiles and a wall behind it, a spawn point at each end and
\* one in the wall, which comes first and is never free; nobody else is in it.
Corridor == <<0, 0, 0, 1>>
CorridorSpawns == <<<<48, 0>>, <<0, 0>>, <<32, 8>>>>
NoNpcs == [n \in {} |-> <<0, 0>>]

\* An NPC stands on the first spawn point, as Professor Oak does in the
\* laboratory, and one tile belongs to a spawn zone.
LabFloor == <<>>
LabSpawns == <<<<0, 0>>, <<16, 0>>, <<32, 0>>>>
LabNpcs == oak :> <<0, 0>>
LabZone == {<<3, 0>>}

\* Every socket may enter with every character of the account, ...
AnyCharacter == Conns \X Chars
\* ... or keeps to one character that another socket may enter with too.
OneCharacterEach == {<<c1, a>>, <<c2, b>>, <<c3, a>>}

\* Nothing stored, or the tile in the middle.
MiddleOrNone == {None, <<1, 0>>}
Middle == {<<1, 0>>}

Swaps == Permutations(Conns) \cup Permutations(Chars)
=============================================================================
