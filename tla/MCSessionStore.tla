--------------------------- MODULE MCSessionStore ---------------------------
(* The event loop and one agent thread, on the sessions of one user.       *)
EXTENDS SessionStore

CONSTANTS u1, s1, s2

EveryRequest ==
    {[op |-> "create", user |-> u1],
     [op |-> "update", session |-> s1, status |-> "COMPLETED"],
     [op |-> "update", session |-> s1, status |-> None],
     [op |-> "delete", session |-> s1],
     [op |-> "task", session |-> s1],
     [op |-> "run", user |-> u1, session |-> s1],
     [op |-> "run", user |-> u1, session |-> None],
     [op |-> "graph", user |-> u1, session |-> s2, outcome |-> "COMPLETED"]}
=============================================================================
