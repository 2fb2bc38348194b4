---------------------------- MODULE CheckThenAct ----------------------------
(***************************************************************************)
(* What a limit promises that is checked first and acted upon later: an    *)
(* actor is admitted while fewer than Limit acts are done, and acts some   *)
(* time afterwards without looking again.  So the limit may be overrun,    *)
(* but by no more than the actors that were admitted together.             *)
(*                                                                         *)
(* The limit of accounts per contact, of characters per account and of     *)
(* failed logins, and the single use of a token, are all of this kind.     *)
(***************************************************************************)
EXTENDS Integers, FiniteSets

CONSTANTS
    Actors,
    Limit

LimitAssumption == IsFiniteSet(Actors) /\ Limit \in Nat \ {0}

VARIABLES
    done,       \* acts done that still count
    admitted    \* actors that have passed the check and have not acted yet

vars == <<done, admitted>>

TypeOK == done \in Nat /\ admitted \subseteq Actors

Init == done = 0 /\ admitted = {}

Admit(a) ==
    /\ a \notin admitted
    /\ done < Limit
    /\ admitted' = admitted \cup {a}
    /\ UNCHANGED done

Act(a) ==
    /\ a \in admitted
    /\ admitted' = admitted \ {a}
    /\ done' = done + 1

\* Actors give up, or what they would do no longer counts; acts are undone.
Withdraw ==
    /\ admitted' \subseteq admitted
    /\ done' \in 0 .. done

Next == (\E a \in Actors : Admit(a) \/ Act(a)) \/ Withdraw

Spec == Init /\ [][Next]_vars

\* Never more than one act too many for each actor but one, nor can the acts
\* that are on their way make it more.
OverrunBounded == done + Cardinality(admitted) <= Limit - 1 + Cardinality(Actors)
=============================================================================
