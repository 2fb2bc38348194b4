---------------------------- MODULE MCAccessTokens ----------------------------
(***************************************************************************)
(* An instance of AccessTokens for TLC: time enough for a token to be      *)
(* signed, revoked and outlived by its entry, and for two callers in turn. *)
(***************************************************************************)
EXTENDS AccessTokens, TLC

CONSTANTS t1, t2, c1, c2

Names == Permutations({t1, t2}) \cup Permutations({c1, c2})
=============================================================================
