--------------------------- MODULE MCAuthSessions ---------------------------
(***************************************************************************)
(* Instances of AuthSessions for TLC.                                      *)
(***************************************************************************)
EXTENDS AuthSessions, TLC

CONSTANTS u1, h1, h2

Swaps == Permutations(Handlers)

\* What follows once a revocation has stopped half-way or a password change
\* was overwritten is explored with one session less.
FewAfterFault == spoilt = {} \/ issued < MaxSessions
=============================================================================
