---------------------------- MODULE MCCredentials ----------------------------
(***************************************************************************)
(* Instances of Credentials for TLC.                                       *)
(***************************************************************************)
EXTENDS Credentials, TLC

Interchangeable == Permutations(Emails) \cup Permutations(Phones) \cup Permutations(Secrets)
                   \cup Permutations(Tokens) \cup Permutations(Handlers)
=============================================================================
