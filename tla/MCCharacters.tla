---------------------------- MODULE MCCharacters ----------------------------
(***************************************************************************)
(* Instances of Characters for TLC.                                        *)
(***************************************************************************)
EXTENDS Characters, TLC

CONSTANTS mercury, venus, ash, Ash, gary

\* Only Mercury may be joined.
Planets == mercury :> "online" @@ venus :> "offline"
LowerCase == ash :> ash @@ Ash :> ash @@ gary :> gary

Interchangeable == Permutations(Ids) \cup Permutations(Accounts) \cup Permutations(Handlers)
=============================================================================
