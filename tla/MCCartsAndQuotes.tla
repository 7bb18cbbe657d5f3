-------------------------- MODULE MCCartsAndQuotes --------------------------
(***************************************************************************)
(* Instances of CartsAndQuotes for TLC.                                    *)
(***************************************************************************)
EXTENDS CartsAndQuotes, TLC

CONSTANTS m1, m2, p1, p2, c1, c2, c3, q1, q2, q3, k1, u1, u2, w1, w2

OwnMerchant == (p1 :> m1 @@ p2 :> m2)

OneCart == [c \in CartIds |->
               IF c = c1 THEN [merchant |-> m1, session |-> u1, subtotal |-> 0] ELSE None]

Add(p, n)      == [op |-> "add", cart |-> c1, product |-> p, quantity |-> n]
Update(l, n)   == [op |-> "update", cart |-> c1, item |-> l, quantity |-> n]
Clear          == [op |-> "clear", cart |-> c1]
Create(m, s)   == [op |-> "create", merchant |-> m, session |-> s]
Select(c, m, p) == [op |-> "select", cart |-> c, merchant |-> m, session |-> u2,
                    product |-> p, quantity |-> 1]
Body(s, o, d)  == [cart |-> c1, session |-> s, option |-> o, promo |-> d]
Prepare(b, h, k) == [op |-> "prepare", body |-> b, header |-> h, key |-> k]

AllCodes == {"STANDARD", "EXPRESS", "o1", "o2", "TEN", "FLAT"}

TwoOptions ==
    {[id |-> "o1", merchant |-> m1, code |-> "STANDARD", cost |-> 4900, active |-> TRUE],
     [id |-> "o2", merchant |-> m2, code |-> "EXPRESS", cost |-> 9900, active |-> TRUE]}

\* Ten percent up to 50 rupees, and 3000 rupees off, both of m1.
TwoPromos ==
    {[merchant |-> m1, code |-> "TEN", kind |-> "PERCENTAGE", value |-> 10,
      floor |-> 100, cap |-> 5000, active |-> TRUE],
     [merchant |-> m1, code |-> "FLAT", kind |-> "FLAT", value |-> 300000,
      floor |-> 0, cap |-> None, active |-> TRUE]}

Symmetric ==
    Permutations(Workers) \union Permutations(QuoteIds) \union Permutations(CartIds \ {c1})

\* Quotes of one cart, with and without a key, what can change the cart, and
\* carts of another session.
QuoteRequests ==
    {Add(p1, 1), Clear,
     Prepare(Body(u1, "o1", "TEN"), None, k1), Prepare(Body(None, "STANDARD", "FLAT"), u1, None),
     Prepare(Body(u1, "o2", None), None, None),
     Select(None, m1, p1)}

\* Every operation, for one thread.
PolicyRequests ==
    {Create(m1, u2), Add(p1, 1), Add(p2, 1), Update(1, 2), Update(1, 0),
     Prepare(Body(u1, "o1", None), None, None), Prepare(Body(u1, None, None), u1, None)}
=============================================================================
