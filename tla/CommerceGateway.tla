-------------------------- MODULE CommerceGateway ---------------------------
(***************************************************************************)
(* The commerce gateway: its capabilities over the stores of the merchant  *)
(* simulator (discovery, which only reads, is left out).  It has code of   *)
(* its own for each, so a cart made on one route may be changed, quoted    *)
(* and paid on the other.  The transport asked for is only echoed.         *)
(***************************************************************************)
EXTENDS MerchantSimulator

gateway_cart(m, p, n) ==
    LET price    == MERCHANT_INVENTORIES[m][p].price
        subtotal == 100 * price * n
    IN  [route |-> "gateway", product |-> p, quantity |-> n, unit_price |-> price,
         total_price |-> subtotal, subtotal |-> subtotal, tax |-> TaxOn(subtotal),
         shipping_fee |-> MERCHANT_CONFIGS[m].fee,
         grand_total |-> subtotal + TaxOn(subtotal) + MERCHANT_CONFIGS[m].fee]

create_cart(m, p, n) ==
    /\ p \in DOMAIN MERCHANT_INVENTORIES[m]
    /\ carts' = [carts EXCEPT ![m] = Append(@, gateway_cart(m, p, n))]
    /\ UNCHANGED <<quotes, orders>>

\* What the gateway makes of a cart; unlike PATCH it leaves updated_at alone.
Updated(cart, n) ==
    LET subtotal == 100 * cart.unit_price * n
        tax      == TaxOn(subtotal)
    IN  [cart EXCEPT !.quantity = n, !.total_price = subtotal, !.subtotal = subtotal,
                     !.tax = tax, !.grand_total = subtotal + tax + cart.shipping_fee]

update_cart(m, c, n) ==
    /\ carts' = [carts EXCEPT ![m][c] = Updated(@, n)]
    /\ UNCHANGED <<quotes, orders>>

gateway_quote(m, c, code) ==
    LET cart     == carts[m][c]
        discount == DiscountFor(m, code, cart.subtotal)
    IN  [route |-> "gateway", cart |-> c, subtotal |-> cart.subtotal,
         tax |-> cart.tax, shipping_fee |-> cart.shipping_fee, discount |-> discount,
         grand_total |-> cart.subtotal + cart.tax + cart.shipping_fee - discount]

checkout(m, c, code) ==
    /\ quotes' = [quotes EXCEPT ![m] = Append(@, gateway_quote(m, c, code))]
    /\ UNCHANGED <<carts, orders>>

\* Mutant: the order is charged what the cart costs by now.
ChargeTheCart(m, q) ==
    [route |-> "gateway", quote |-> q, itemsOf |-> 0,
     total_amount |-> carts[m][quotes[m][q].cart].grand_total,
     order_status |-> "CONFIRMED"]

\* An order of the gateway shows no items.
gateway_order(m, q) ==
    [route |-> "gateway", quote |-> q, itemsOf |-> 0,
     total_amount |-> quotes[m][q].grand_total, order_status |-> "CONFIRMED"]

authorize_payment(m, q) ==
    /\ orders' = [orders EXCEPT ![m] = Append(@, gateway_order(m, q))]
    /\ UNCHANGED <<carts, quotes>>

\* Mutant: a cancelled order is refunded in the books.
Refunded(order) == [order EXCEPT !.order_status = "CANCELLED", !.total_amount = 0]

Cancelled(order) == [order EXCEPT !.order_status = "CANCELLED"]

\* Whatever the status was, a return that is under way included.
cancel_order(m, o) ==
    /\ orders' = [orders EXCEPT ![m][o] = Cancelled(@)]
    /\ UNCHANGED <<carts, quotes>>

-----------------------------------------------------------------------------
SimulatorRoutes ==
    \E m \in Shops :
        \/ \E p \in DOMAIN MERCHANT_INVENTORIES[m], n \in Sizes :
               create_or_add_merchant_cart(m, p, n)
        \/ \E c \in DOMAIN carts[m], n \in Sizes : patch_merchant_cart(m, c, n)
        \/ \E c \in DOMAIN carts[m], code \in Codes : merchant_checkout(m, c, code)
        \/ \E q \in DOMAIN quotes[m] : merchant_payment(m, q)
        \/ \E o \in DOMAIN orders[m] : return_merchant_order(m, o)

GatewayRoutes ==
    \E m \in Shops :
        \/ \E p \in DOMAIN MERCHANT_INVENTORIES[m], n \in Sizes :
               create_cart(m, p, n)
        \/ \E c \in DOMAIN carts[m], n \in Sizes : update_cart(m, c, n)
        \/ \E c \in DOMAIN carts[m], code \in Codes : checkout(m, c, code)
        \/ \E q \in DOMAIN quotes[m] : authorize_payment(m, q)
        \/ \E o \in DOMAIN orders[m] : cancel_order(m, o)

-----------------------------------------------------------------------------
(* A cart adds up, whichever routes created and changed it: its item,      *)
(* subtotal and tax belong to one quantity, at the unit price of the       *)
(* inventory.  Each handler sums up with code of its own.                  *)
CartsAddUp ==
    \A m \in Shops : \A c \in DOMAIN carts[m] :
        LET cart == carts[m][c]
        IN  /\ cart.unit_price = MERCHANT_INVENTORIES[m][cart.product].price
            /\ cart.total_price = 100 * cart.unit_price * cart.quantity
            /\ cart.subtotal = cart.total_price
            /\ cart.tax = 18 * cart.unit_price * cart.quantity
            /\ cart.grand_total = cart.subtotal + cart.tax + cart.shipping_fee

(* What an order charges is explained by one quantity of its cart's        *)
(* product and one promotion of its merchant, even when the cart was       *)
(* patched on another route between cart, quote and payment: price, tax    *)
(* and discount are of one moment.                                         *)
ChargesAreExplained ==
    \A m \in Shops : \A o \in DOMAIN orders[m] :
        LET quote == quotes[m][orders[m][o].quote]
            price == 100 * carts[m][quote.cart].unit_price
        IN  \E n \in Sizes, code \in Codes :
                /\ quote.subtotal = price * n
                /\ orders[m][o].total_amount =
                       price * n + TaxOn(price * n) + MERCHANT_CONFIGS[m].fee
                         - DiscountFor(m, code, price * n)

(* An order once settled stays: no later request of either route takes it  *)
(* away, changes what it charged or whose quote it paid, or confirms it    *)
(* again after a cancellation or a return; and no quote ever changes.      *)
(* Only a restart of the process forgets, and it forgets everything.       *)
SettledOrdersStay ==
    [][\/ orders' = [m \in Shops |-> << >>] /\ quotes' = orders' /\ carts' = orders'
       \/ \A m \in Shops :
            /\ \A q \in DOMAIN quotes[m] :
                  q \in DOMAIN quotes'[m] /\ quotes'[m][q] = quotes[m][q]
            /\ \A o \in DOMAIN orders[m] :
                /\ o \in DOMAIN orders'[m]
                /\ orders'[m][o].total_amount = orders[m][o].total_amount
                /\ orders'[m][o].quote = orders[m][o].quote
                /\ orders'[m][o].order_status = "CONFIRMED"
                       => orders[m][o].order_status = "CONFIRMED"]_simVars
=============================================================================
