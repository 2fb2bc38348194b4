----------------------------- MODULE MCLockout -----------------------------
(***************************************************************************)
(* Instances of Lockout for TLC.                                           *)
(***************************************************************************)
EXTENDS Lockout

=============================================================================
