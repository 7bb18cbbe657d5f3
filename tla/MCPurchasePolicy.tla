-------------------------- MODULE MCPurchasePolicy --------------------------
(***************************************************************************)
(* An instance of PurchasePolicy for TLC.                                  *)
(***************************************************************************)
EXTENDS MCCartsAndQuotes, PurchasePolicy

CONSTANT j1

\* Both products are of one merchant; the category of the second is unknown.
OneMerchant   == (p1 :> m1 @@ p2 :> m1)
KnownAndNot   == (p1 :> "LAPTOPS" @@ p2 :> None)

Lenient ==
    [active |-> TRUE, ceiling |-> 10000000, autoLimit |-> 2500000,
     allowedMerchants |-> {}, blockedMerchants |-> {},
     allowedCategories |-> {}, blockedCategories |-> {"WEAPONS"},
     blockedProducts |-> {}, perProduct |-> 2, inTotal |-> 2,
     shippingLimit |-> 50000, allowedShipping |-> {}, blockedShipping |-> {}]

\* One line of the first product costs 22595 with tax and shipping, two
\* units 40290.  The second policy has a ceiling in between and no limit on the
\* units, the third allows one unit below the same ceiling, the fourth has no
\* limit on the amount.
SomePolicies ==
    {Lenient,
     [Lenient EXCEPT !.autoLimit = 20000, !.ceiling = 40000, !.inTotal = 0],
     [Lenient EXCEPT !.autoLimit = 20000, !.ceiling = 40000, !.perProduct = 1, !.inTotal = 1],
     [Lenient EXCEPT !.allowedCategories = {"PHONES"}, !.autoLimit = None, !.ceiling = None],
     [Lenient EXCEPT !.blockedMerchants = {m1}, !.autoLimit = 20000]}
=============================================================================
