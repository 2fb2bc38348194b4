-------------------------- MODULE ExecutionRights --------------------------
(***************************************************************************)
(* What an idempotency key promises about the command it protects: the     *)
(* right to execute it is granted to one request at a time.  A right ends  *)
(* only by lapsing: the request's processing timeout passes, or the store  *)
(* that recorded the right is gone.  A request that has executed keeps its *)
(* right, which is what makes the later ones replays.                      *)
(***************************************************************************)
CONSTANT Requests

VARIABLES
    granted,    \* requests that were given the right to execute
    lapsed      \* those whose right has ended

Init == granted = {} /\ lapsed = {}

Grant(r) ==
    /\ r \in Requests \ granted
    /\ granted \subseteq lapsed
    /\ granted' = granted \cup {r}
    /\ lapsed' = lapsed

Lapse ==
    /\ \E S \in SUBSET granted : lapsed' = lapsed \cup S
    /\ granted' = granted

Next == (\E r \in Requests : Grant(r)) \/ Lapse

Spec == Init /\ [][Next]_<<granted, lapsed>>
=============================================================================
