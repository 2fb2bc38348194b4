------------------------------ MODULE MCBattle ------------------------------
(***************************************************************************)
(* An instance of Battle for TLC: two species that hit hard and have       *)
(* little to lose.  A hit leaves one or two of 30 HP or none, so that every *)
(* outcome is at most two turns away.                                      *)
(***************************************************************************)
EXTENDS Battle, TLC

CONSTANTS b1, b2, v1, v2

Fragile == [stat \in StatNames |->
    CASE stat = "hp" -> 1 [] stat \in {"attack", "specialAttack"} -> 80 [] OTHER -> 10]

TwoSpecies == [dex \in {16, 19} |-> Fragile]

EvenMatch ==
    {"player" :> [dex |-> 16, level |-> 20] @@ "wild" :> [dex |-> 19, level |-> 20]}

Grass == {[dex |-> 19, minLevel |-> 20, maxLevel |-> 20]}
Pidgey == [dex |-> 16, level |-> 20]

Names == Permutations({b1, b2}) \cup Permutations({v1, v2})
=============================================================================
