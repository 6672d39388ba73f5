----------------------------- MODULE MCGateway -----------------------------
(***************************************************************************)
(* Small instances of Gateway: three requests for one name.                *)
(***************************************************************************)
EXTENDS Gateway, TLC

CONSTANTS r1, r2, r3

MCCalls == {r1, r2, r3}

\* A token in the last second it is valid, and one that is past it.
Token == [bearer |-> TRUE, genuine |-> TRUE, decodes |-> TRUE, exp |-> 3, nbf |-> 3]
Expired == [Token EXCEPT !.exp = 2]

Ask(op) == [op |-> op, wellFormed |-> TRUE, cred |-> Token]

\* One of each kind of operation (kill and restart take the path of stop and
\* start), and the requests that are refused at once.
MCRequests ==
  {Ask(op) : op \in Ops \ {"kill", "restart"}} \cup
    {[Ask("stop") EXCEPT !.wellFormed = FALSE], [Ask("stop") EXCEPT !.cred = Expired]}

MCTimes == {3}

Symmetry == Permutations(MCCalls)
=============================================================================
