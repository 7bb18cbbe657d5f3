--------------------------- MODULE MCFulfilment ---------------------------
(***************************************************************************)
(* Instances of Fulfilment for TLC.                                        *)
(***************************************************************************)
EXTENDS Fulfilment, TLC

CONSTANTS s1, s2, p1, p2, px, o1, o2, o3, o4, w1, w2

Line(p, n) == [product |-> p, quantity |-> n]

\* Two quotes of the same two products in opposite orders; one of them names
\* a product twice and has another without an inventory row.
CrossedItems == (s1 :> <<Line(p1, 2), Line(p2, 1)>>
              @@ s2 :> <<Line(p2, 1), Line(px, 1), Line(p1, 1), Line(p1, 1)>>)

\* One quote of both units of a product.
OneItem == (s1 :> <<Line(p1, 2)>>)

ScarceStock == (p1 :> 3 @@ p2 :> 1)
SingleStock == (p1 :> 2)

AllTargets == OrderStatuses
=============================================================================
