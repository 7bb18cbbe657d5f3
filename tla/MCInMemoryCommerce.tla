------------------------- MODULE MCInMemoryCommerce -------------------------
(***************************************************************************)
(* An instance of InMemoryCommerce for TLC.                                *)
(***************************************************************************)
EXTENDS InMemoryCommerce

CONSTANTS c1, c2, s1

Open ==
    [ceiling |-> 150000, threshold |-> 50000, categories |-> {"laptops"},
     blocked |-> {}, defense |-> TRUE]

\* The defaults, and a policy that refuses the first product of the
\* catalogue, asks for no approval below 100000 and scans nothing.
TwoPolicies ==
    {Open, [Open EXCEPT !.ceiling = 100000, !.threshold = 100000, !.defense = FALSE]}

SentSizes == {-1, 2}
OneBack   == {-1}

\* A rule that approves by itself what it blocks.
Contradictory == {Rule(120000, 60000)}

\* Of an unregistered tool whose name has words of two categories.
CartCharge == [charge_cart |-> {"charge", "cart"}]

Bounds == [merchants |-> 5, trust |-> 4]
=============================================================================
