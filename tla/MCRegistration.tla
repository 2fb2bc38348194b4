--------------------------- MODULE MCRegistration ---------------------------
(***************************************************************************)
(* Instances of Registration for TLC.                                      *)
(***************************************************************************)
EXTENDS Registration, TLC

Interchangeable == Permutations(Users) \cup Permutations(Names) \cup
                   Permutations(Emails) \cup Permutations(Handlers)
=============================================================================
