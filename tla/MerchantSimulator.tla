------------------------- MODULE MerchantSimulator --------------------------
(***************************************************************************)
(* The merchant simulator and the commerce gateway: two routes to the      *)
(* in-memory carts, quotes and orders of each merchant.  Every handler is  *)
(* a coroutine that never awaits, so it is one step of the event loop.     *)
(* A price is in rupees, an amount in paise: with whole prices and whole   *)
(* percentages round(x, 2) changes nothing.  An id is a position in the    *)
(* merchant's store (a uuid in the code) together with its route.          *)
(***************************************************************************)
EXTENDS Integers, Sequences

CONSTANTS
    Shops,         \* the merchants that clients use
    Sizes,         \* quantities that clients send; the schemas accept any int
    Codes          \* promotion codes that clients send

Laptop(price) == [price |-> price]

MerchantIds == {"merchant-a", "merchant-b", "merchant-c", "merchant-d"}

MERCHANT_INVENTORIES ==
    [m \in MerchantIds |->
        CASE m = "merchant-a" -> [rog |-> Laptop(109999), macbook |-> Laptop(189900)]
          [] m = "merchant-b" -> [helios |-> Laptop(99999), tuf |-> Laptop(74999)]
          [] m = "merchant-c" -> [legion |-> Laptop(114999)]
          [] m = "merchant-d" -> [alienware |-> Laptop(117999)]]

\* The shipping fee in paise, the promotions in percent.
MERCHANT_CONFIGS ==
    [m \in MerchantIds |->
        CASE m = "merchant-a" -> [fee |-> 0, promos |-> [AI_DEVELOPER_5OFF |-> 5,
                                                         TECH_HUB_FREE |-> 0]]
          [] m = "merchant-b" -> [fee |-> 0, promos |-> [SUMMER_TECH_10 |-> 10]]
          [] m = "merchant-c" -> [fee |-> 49900, promos |-> [EXTRA_WARRANTY |-> 0]]
          [] m = "merchant-d" -> [fee |-> 0, promos |-> [ENTERPRISE_DEV_BUNDLE |-> 8]]]

ASSUME ShopsAssumption == Shops \subseteq MerchantIds
ASSUME SizesAssumption == Sizes \subseteq Int

Routes == {"simulator", "gateway"}

MerchantCarts ==
    [route : Routes, product : UNION {DOMAIN MERCHANT_INVENTORIES[m] : m \in Shops},
     quantity : Sizes, unit_price : Nat, total_price : Int, subtotal : Int,
     tax : Int, shipping_fee : Nat, grand_total : Int]

MerchantQuotes ==
    [route : Routes, cart : Nat, subtotal : Int, tax : Int, shipping_fee : Nat,
     discount : Int, grand_total : Int]

\* itemsOf: the cart whose list of items the order shows, 0 for no items.
MerchantOrders ==
    [route : Routes, quote : Nat, itemsOf : Nat, total_amount : Int,
     order_status : {"CONFIRMED", "CANCELLED", "RETURN_REQUESTED"}]

VARIABLES carts, quotes, orders   \* MERCHANT_CARTS, MERCHANT_QUOTES, MERCHANT_ORDERS

simVars == <<carts, quotes, orders>>

SimulatorTypeOK ==
    \A m \in Shops :
        /\ \A c \in DOMAIN carts[m] : carts[m][c] \in MerchantCarts
        /\ \A q \in DOMAIN quotes[m] : quotes[m][q] \in MerchantQuotes
        /\ \A o \in DOMAIN orders[m] :
            /\ orders[m][o] \in MerchantOrders
            /\ orders[m][o].quote \in DOMAIN quotes[m]
            /\ orders[m][o].itemsOf \in {0, quotes[m][orders[m][o].quote].cart}

SimulatorInit ==
    /\ carts = [m \in Shops |-> << >>]
    /\ quotes = [m \in Shops |-> << >>]
    /\ orders = [m \in Shops |-> << >>]

TaxOn(subtotal) == 18 * (subtotal \div 100)

-----------------------------------------------------------------------------
(* The routes of the simulator.                                            *)

create_or_add_merchant_cart(m, p, n) ==
    /\ p \in DOMAIN MERCHANT_INVENTORIES[m]
    /\ LET price    == MERCHANT_INVENTORIES[m][p].price
           subtotal == 100 * price * n
           shipping == MERCHANT_CONFIGS[m].fee
       IN  carts' = [carts EXCEPT ![m] = Append(@,
               [route |-> "simulator", product |-> p, quantity |-> n,
                unit_price |-> price, total_price |-> subtotal,
                subtotal |-> subtotal, tax |-> TaxOn(subtotal),
                shipping_fee |-> shipping,
                grand_total |-> subtotal + TaxOn(subtotal) + shipping])]
    /\ UNCHANGED <<quotes, orders>>

\* The cart after its item was given the quantity n.  The discount of a cart
\* is 0 from its creation on.
Requantified(cart, n) ==
    LET subtotal == 100 * cart.unit_price * n
    IN  [cart EXCEPT !.quantity = n, !.total_price = subtotal,
                     !.subtotal = subtotal, !.tax = TaxOn(subtotal),
                     !.grand_total = subtotal + TaxOn(subtotal) + cart.shipping_fee]

patch_merchant_cart(m, c, n) ==
    /\ carts' = [carts EXCEPT ![m][c] = Requantified(@, n)]
    /\ UNCHANGED <<quotes, orders>>

\* A code that the merchant does not know is no discount.
DiscountFor(m, code, subtotal) ==
    IF code \in DOMAIN MERCHANT_CONFIGS[m].promos
    THEN (subtotal \div 100) * MERCHANT_CONFIGS[m].promos[code] ELSE 0

QuoteFor(m, c, code) ==
    LET cart     == carts[m][c]
        discount == DiscountFor(m, code, cart.subtotal)
    IN  [route |-> "simulator", cart |-> c, subtotal |-> cart.subtotal,
         tax |-> cart.tax, shipping_fee |-> cart.shipping_fee,
         discount |-> discount,
         grand_total |-> cart.subtotal + cart.tax + cart.shipping_fee - discount]

merchant_checkout(m, c, code) ==
    /\ quotes' = [quotes EXCEPT ![m] = Append(@, QuoteFor(m, c, code))]
    /\ UNCHANGED <<carts, orders>>

\* The order holds the items of the cart themselves, not a copy: a later
\* PATCH of the cart shows in the order.  The quote is neither consumed nor
\* compared with its expiry.
merchant_payment(m, q) ==
    /\ orders' = [orders EXCEPT ![m] = Append(@,
           [route |-> "simulator", quote |-> q,
            itemsOf |-> IF quotes[m][q].cart \in DOMAIN carts[m]
                        THEN quotes[m][q].cart ELSE 0,
            total_amount |-> quotes[m][q].grand_total,
            order_status |-> "CONFIRMED"])]
    /\ UNCHANGED <<carts, quotes>>

return_merchant_order(m, o) ==
    /\ orders' = [orders EXCEPT ![m][o].order_status = "RETURN_REQUESTED"]
    /\ UNCHANGED <<carts, quotes>>
=============================================================================
