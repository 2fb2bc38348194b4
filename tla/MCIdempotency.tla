--------------------------- MODULE MCIdempotency ---------------------------
(***************************************************************************)
(* Instances of Idempotency for TLC.                                       *)
(***************************************************************************)
EXTENDS Idempotency, TLC

CONSTANTS r1, r2, r3, r4, p, q

\* Three retries of one command, and another command under the same key.
TwoPayloads == r1 :> p @@ r2 :> p @@ r3 :> p @@ r4 :> q

Retries == Permutations({r1, r2, r3})
=============================================================================
