----------------------- MODULE InMemoryCommerceProofs -----------------------
(***************************************************************************)
(* Proofs about the commerce that one process keeps in its memory.  The    *)
(* inductive invariant has a part for each store: the merchants' carts,    *)
(* quotes and orders fit each other (ShopInv), the engine's carts are what *)
(* Totalled makes of lines that are priced (BasketInv), orders and ledger  *)
(* agree (LedgerInv), and rules and mandates have their types (AuthInv).   *)
(***************************************************************************)
EXTENDS InMemoryCommerce, SumLemmas

-----------------------------------------------------------------------------
(* The merchants                                                           *)

\* A cart at its merchant: as CartsAddUp says, and at the merchant's fee.
CartFits(m, cart) ==
    /\ cart \in MerchantCarts
    /\ cart.product \in DOMAIN MERCHANT_INVENTORIES[m]
    /\ cart.unit_price = MERCHANT_INVENTORIES[m][cart.product].price
    /\ cart.total_price = 100 * cart.unit_price * cart.quantity
    /\ cart.subtotal = cart.total_price
    /\ cart.tax = TaxOn(cart.subtotal)
    /\ cart.shipping_fee = MERCHANT_CONFIGS[m].fee
    /\ cart.grand_total = cart.subtotal + cart.tax + cart.shipping_fee

\* A quote is explained by a quantity and a code, at the price of its cart.
QuoteFits(m, quote, store) ==
    /\ quote.cart \in DOMAIN store
    /\ \E n \in Sizes, code \in Codes :
        LET subtotal == 100 * store[quote.cart].unit_price * n
        IN  /\ quote.subtotal = subtotal
            /\ quote.grand_total = subtotal + TaxOn(subtotal) + MERCHANT_CONFIGS[m].fee
                                     - DiscountFor(m, code, subtotal)

OrderFits(order, store) ==
    /\ order.quote \in DOMAIN store
    /\ order.total_amount = store[order.quote].grand_total

ShopInv ==
    /\ carts \in [Shops -> Seq(MerchantCarts)]
    /\ quotes \in [Shops -> Seq(MerchantQuotes)]
    /\ orders \in [Shops -> Seq(MerchantOrders)]
    /\ \A m \in Shops :
        /\ \A c \in DOMAIN carts[m] : CartFits(m, carts[m][c])
        /\ \A q \in DOMAIN quotes[m] : QuoteFits(m, quotes[m][q], carts[m])
        /\ \A o \in DOMAIN orders[m] : OrderFits(orders[m][o], quotes[m])

\* What SettledOrdersStay says of a step that is no restart.
Keeps ==
    \A m \in Shops :
        /\ \A q \in DOMAIN quotes[m] :
              q \in DOMAIN quotes'[m] /\ quotes'[m][q] = quotes[m][q]
        /\ \A o \in DOMAIN orders[m] :
            /\ o \in DOMAIN orders'[m]
            /\ orders'[m][o].total_amount = orders[m][o].total_amount
            /\ orders'[m][o].quote = orders[m][o].quote
            /\ orders'[m][o].order_status = "CONFIRMED"
                   => orders[m][o].order_status = "CONFIRMED"

\* The tables of the merchants have the values that a price, a fee and a
\* percentage may have.
LEMMA TableTypes ==
    ASSUME NEW m \in Shops
    PROVE  /\ \A p \in DOMAIN MERCHANT_INVENTORIES[m] :
                 MERCHANT_INVENTORIES[m][p].price \in Nat
           /\ MERCHANT_CONFIGS[m].fee \in Nat
           /\ \A code \in DOMAIN MERCHANT_CONFIGS[m].promos :
                 MERCHANT_CONFIGS[m].promos[code] \in Nat
<1>1. m \in MerchantIds
    BY ShopsAssumption
<1>2. \A p \in DOMAIN MERCHANT_INVENTORIES[m] : MERCHANT_INVENTORIES[m][p].price \in Nat
    BY <1>1 DEF MERCHANT_INVENTORIES, Laptop, MerchantIds
<1>3. /\ MERCHANT_CONFIGS[m].fee \in Nat
      /\ \A code \in DOMAIN MERCHANT_CONFIGS[m].promos :
            MERCHANT_CONFIGS[m].promos[code] \in Nat
    BY <1>1 DEF MERCHANT_CONFIGS, MerchantIds
<1> QED
    BY <1>2, <1>3

LEMMA AmountTypes ==
    ASSUME NEW m \in Shops, NEW subtotal \in Int, NEW code
    PROVE  TaxOn(subtotal) \in Int /\ DiscountFor(m, code, subtotal) \in Int
<1>1. subtotal \div 100 \in Int
    OBVIOUS
<1>2. TaxOn(subtotal) \in Int
    BY <1>1 DEF TaxOn
<1>3. CASE code \in DOMAIN MERCHANT_CONFIGS[m].promos
  <2>1. MERCHANT_CONFIGS[m].promos[code] \in Nat
      BY <1>3, TableTypes
  <2>2. PICK a \in Int, b \in Int :
           a = subtotal \div 100 /\ b = MERCHANT_CONFIGS[m].promos[code]
      BY <1>1, <2>1
  <2>3. a * b \in Int
      OBVIOUS
  <2> QED
      BY <1>2, <1>3, <2>2, <2>3 DEF DiscountFor
<1>4. CASE code \notin DOMAIN MERCHANT_CONFIGS[m].promos
    BY <1>2, <1>4 DEF DiscountFor
<1> QED
    BY <1>3, <1>4

LEMMA ShopsStay ==
    ASSUME ShopInv, UNCHANGED simVars
    PROVE  ShopInv' /\ Keeps
BY SMTT(30) DEF ShopInv, simVars, Keeps, CartFits, QuoteFits, OrderFits, TaxOn, DiscountFor

\* A quote fits as long as carts keep their prices.
LEMMA QuoteStays ==
    ASSUME NEW m, NEW quote, NEW s, NEW t, QuoteFits(m, quote, s),
           DOMAIN s \subseteq DOMAIN t,
           \A c \in DOMAIN s : t[c].unit_price = s[c].unit_price
    PROVE  QuoteFits(m, quote, t)
<1>1. quote.cart \in DOMAIN t /\ t[quote.cart].unit_price = s[quote.cart].unit_price
    BY DEF QuoteFits
<1> QED
    BY <1>1 DEF QuoteFits

\* A cart that fits is added.
LEMMA CartAdded ==
    ASSUME ShopInv, NEW m \in Shops, NEW x, CartFits(m, x),
           carts' = [carts EXCEPT ![m] = Append(@, x)], UNCHANGED <<quotes, orders>>
    PROVE  ShopInv' /\ Keeps
<1>1. x \in MerchantCarts
    BY DEF CartFits
<1>2. /\ carts' \in [Shops -> Seq(MerchantCarts)]
      /\ \A k \in Shops \ {m} : carts'[k] = carts[k]
      /\ carts'[m] = Append(carts[m], x)
      /\ carts[m] \in Seq(MerchantCarts)
    BY <1>1 DEF ShopInv
<1>3. /\ DOMAIN carts[m] \subseteq DOMAIN carts'[m]
      /\ \A c \in DOMAIN carts[m] : carts'[m][c] = carts[m][c]
      /\ \A c \in DOMAIN carts'[m] : c \in DOMAIN carts[m] \/ carts'[m][c] = x
    BY <1>1, <1>2
<1>4. \A k \in Shops : \A c \in DOMAIN carts'[k] : CartFits(k, carts'[k][c])
    BY <1>2, <1>3 DEF ShopInv
<1>5. \A k \in Shops : \A q \in DOMAIN quotes[k] : QuoteFits(k, quotes[k][q], carts'[k])
  <2>1. ASSUME NEW q \in DOMAIN quotes[m] PROVE QuoteFits(m, quotes[m][q], carts'[m])
    <3>1. QuoteFits(m, quotes[m][q], carts[m])
        BY DEF ShopInv
    <3>2. \A c \in DOMAIN carts[m] : carts'[m][c].unit_price = carts[m][c].unit_price
        BY <1>3
    <3> QED
        BY <1>3, <3>1, <3>2, QuoteStays
  <2> QED
      BY <1>2, <2>1 DEF ShopInv
<1> QED
    BY <1>2, <1>4, <1>5 DEF ShopInv, Keeps

\* A cart is replaced by one that fits, of the same price.
LEMMA CartReplaced ==
    ASSUME ShopInv, NEW m \in Shops, NEW c \in DOMAIN carts[m], NEW x, CartFits(m, x),
           x.unit_price = carts[m][c].unit_price,
           carts' = [carts EXCEPT ![m][c] = x], UNCHANGED <<quotes, orders>>
    PROVE  ShopInv' /\ Keeps
<1>1. x \in MerchantCarts
    BY DEF CartFits
<1>2. /\ carts[m] \in Seq(MerchantCarts)
      /\ carts'[m] = [carts[m] EXCEPT ![c] = x]
      /\ \A k \in Shops \ {m} : carts'[k] = carts[k]
      /\ carts' = [k \in Shops |-> carts'[k]]
    BY DEF ShopInv
<1>3. carts'[m] \in Seq(MerchantCarts)
    BY <1>1, <1>2
<1>4. carts' \in [Shops -> Seq(MerchantCarts)]
    BY <1>2, <1>3 DEF ShopInv
<1>5. /\ DOMAIN carts'[m] = DOMAIN carts[m]
      /\ \A d \in DOMAIN carts[m] : carts'[m][d] = IF d = c THEN x ELSE carts[m][d]
    BY <1>2
<1>6. \A k \in Shops : \A d \in DOMAIN carts'[k] : CartFits(k, carts'[k][d])
    BY <1>2, <1>5 DEF ShopInv
<1>7. \A d \in DOMAIN carts[m] : carts'[m][d].unit_price = carts[m][d].unit_price
    BY <1>5
<1>8. \A k \in Shops : \A q \in DOMAIN quotes[k] : QuoteFits(k, quotes[k][q], carts'[k])
  <2>1. ASSUME NEW q \in DOMAIN quotes[m] PROVE QuoteFits(m, quotes[m][q], carts'[m])
      BY <1>5, <1>7, QuoteStays DEF ShopInv
  <2> QED
      BY <1>2, <2>1, ZenonT(40) DEF ShopInv
<1> QED
    BY <1>4, <1>6, <1>8 DEF ShopInv, Keeps

\* A quote that fits is added.
LEMMA QuoteAdded ==
    ASSUME ShopInv, NEW m \in Shops, NEW x \in MerchantQuotes, QuoteFits(m, x, carts[m]),
           quotes' = [quotes EXCEPT ![m] = Append(@, x)], UNCHANGED <<carts, orders>>
    PROVE  ShopInv' /\ Keeps
<1>1. /\ quotes' \in [Shops -> Seq(MerchantQuotes)]
      /\ \A k \in Shops \ {m} : quotes'[k] = quotes[k]
      /\ quotes'[m] = Append(quotes[m], x)
      /\ quotes[m] \in Seq(MerchantQuotes)
    BY DEF ShopInv
<1>2. /\ DOMAIN quotes[m] \subseteq DOMAIN quotes'[m]
      /\ \A q \in DOMAIN quotes[m] : quotes'[m][q] = quotes[m][q]
      /\ \A q \in DOMAIN quotes'[m] : q \in DOMAIN quotes[m] \/ quotes'[m][q] = x
    BY <1>1
<1>3. \A k \in Shops : \A q \in DOMAIN quotes'[k] : QuoteFits(k, quotes'[k][q], carts[k])
    BY <1>1, <1>2 DEF ShopInv
<1>4. \A k \in Shops : \A o \in DOMAIN orders[k] : OrderFits(orders[k][o], quotes'[k])
    BY <1>1, <1>2 DEF ShopInv, OrderFits
<1> QED
    BY <1>1, <1>2, <1>3, <1>4 DEF ShopInv, Keeps

\* An order that fits is added.
LEMMA OrderAdded ==
    ASSUME ShopInv, NEW m \in Shops, NEW x \in MerchantOrders, OrderFits(x, quotes[m]),
           orders' = [orders EXCEPT ![m] = Append(@, x)], UNCHANGED <<carts, quotes>>
    PROVE  ShopInv' /\ Keeps
<1>1. /\ orders' \in [Shops -> Seq(MerchantOrders)]
      /\ \A k \in Shops \ {m} : orders'[k] = orders[k]
      /\ orders'[m] = Append(orders[m], x)
      /\ orders[m] \in Seq(MerchantOrders)
    BY DEF ShopInv
<1>2. /\ DOMAIN orders[m] \subseteq DOMAIN orders'[m]
      /\ \A o \in DOMAIN orders[m] : orders'[m][o] = orders[m][o]
      /\ \A o \in DOMAIN orders'[m] : o \in DOMAIN orders[m] \/ orders'[m][o] = x
    BY <1>1
<1>3. \A k \in Shops : \A o \in DOMAIN orders'[k] : OrderFits(orders'[k][o], quotes[k])
    BY <1>1, <1>2 DEF ShopInv
<1> QED
    BY <1>1, <1>2, <1>3 DEF ShopInv, Keeps

\* The status of an order changes, not to CONFIRMED.
LEMMA OrderReplaced ==
    ASSUME ShopInv, NEW m \in Shops, NEW o \in DOMAIN orders[m], NEW x \in MerchantOrders,
           x.quote = orders[m][o].quote, x.total_amount = orders[m][o].total_amount,
           x.order_status # "CONFIRMED",
           orders' = [orders EXCEPT ![m][o] = x], UNCHANGED <<carts, quotes>>
    PROVE  ShopInv' /\ Keeps
<1>1. /\ orders[m] \in Seq(MerchantOrders)
      /\ orders'[m] = [orders[m] EXCEPT ![o] = x]
      /\ \A k \in Shops \ {m} : orders'[k] = orders[k]
      /\ orders' = [k \in Shops |-> orders'[k]]
    BY DEF ShopInv
<1>2. orders'[m] \in Seq(MerchantOrders)
    BY <1>1
<1>3. orders' \in [Shops -> Seq(MerchantOrders)]
    BY <1>1, <1>2 DEF ShopInv
<1>4. /\ DOMAIN orders'[m] = DOMAIN orders[m]
      /\ \A d \in DOMAIN orders[m] : orders'[m][d] = IF d = o THEN x ELSE orders[m][d]
    BY <1>1
<1>5. \A k \in Shops : \A d \in DOMAIN orders'[k] : OrderFits(orders'[k][d], quotes[k])
    BY <1>1, <1>4 DEF ShopInv, OrderFits
<1>6. Keeps
    BY <1>1, <1>4 DEF Keeps
<1> QED
    BY <1>3, <1>5, <1>6 DEF ShopInv
\* The carts that the handlers create and change, fit.
LEMMA NewCartsFit ==
    ASSUME NEW m \in Shops, NEW p \in DOMAIN MERCHANT_INVENTORIES[m], NEW n \in Sizes,
           NEW route \in Routes, NEW price, price = MERCHANT_INVENTORIES[m][p].price,
           NEW subtotal, subtotal = 100 * price * n,
           NEW fee, fee = MERCHANT_CONFIGS[m].fee
    PROVE  CartFits(m, [route |-> route, product |-> p, quantity |-> n,
                        unit_price |-> price, total_price |-> subtotal,
                        subtotal |-> subtotal, tax |-> TaxOn(subtotal),
                        shipping_fee |-> fee,
                        grand_total |-> subtotal + TaxOn(subtotal) + fee])
<1>1. price \in Nat /\ fee \in Nat /\ n \in Int
    BY TableTypes, SizesAssumption
<1>2. subtotal \in Int
    BY <1>1
<1>3. TaxOn(subtotal) \in Int
    BY <1>2, AmountTypes
<1>4. subtotal + TaxOn(subtotal) + fee \in Int
    BY <1>1, <1>2, <1>3
<1>5. p \in UNION {DOMAIN MERCHANT_INVENTORIES[k] : k \in Shops}
    OBVIOUS
<1> QED
    BY <1>1, <1>2, <1>3, <1>4, <1>5 DEF CartFits, MerchantCarts

LEMMA ChangedCartsFit ==
    ASSUME NEW m \in Shops, NEW cart, CartFits(m, cart), NEW n \in Sizes, NEW x,
           x = Requantified(cart, n) \/ x = Updated(cart, n)
    PROVE  CartFits(m, x) /\ x.unit_price = cart.unit_price
<1> DEFINE subtotal == 100 * cart.unit_price * n
<1>1. cart \in MerchantCarts /\ cart.unit_price \in Nat /\ cart.shipping_fee \in Nat
    BY DEF CartFits, MerchantCarts
<1>2. subtotal \in Int
    BY <1>1, SizesAssumption
<1>3. TaxOn(subtotal) \in Int
    BY <1>2, AmountTypes
<1>4. subtotal + TaxOn(subtotal) + cart.shipping_fee \in Int
    BY <1>1, <1>2, <1>3
<1>5. x = [cart EXCEPT !.quantity = n, !.total_price = subtotal,
                       !.subtotal = subtotal, !.tax = TaxOn(subtotal),
                       !.grand_total = subtotal + TaxOn(subtotal) + cart.shipping_fee]
    BY <1>1 DEF Requantified, Updated, MerchantCarts
<1>6. x \in MerchantCarts
    BY <1>1, <1>2, <1>3, <1>4, <1>5, ZenonT(40) DEF MerchantCarts
<1>7. /\ x.quantity = n /\ x.total_price = subtotal /\ x.subtotal = subtotal
      /\ x.tax = TaxOn(subtotal) /\ x.unit_price = cart.unit_price
      /\ x.grand_total = subtotal + TaxOn(subtotal) + cart.shipping_fee
      /\ x.product = cart.product /\ x.shipping_fee = cart.shipping_fee
    BY <1>1, <1>5 DEF MerchantCarts
<1> QED
    BY <1>6, <1>7 DEF CartFits

\* Both routes make quotes that fit.
LEMMA NewQuotesFit ==
    ASSUME ShopInv, NEW m \in Shops, NEW c \in DOMAIN carts[m], NEW code \in Codes, NEW x,
           x = QuoteFor(m, c, code) \/ x = gateway_quote(m, c, code)
    PROVE  x \in MerchantQuotes /\ QuoteFits(m, x, carts[m])
<1> DEFINE cart == carts[m][c]
           discount == DiscountFor(m, code, cart.subtotal)
<1>1. CartFits(m, cart) /\ c \in Nat
    BY DEF ShopInv
<1>2. /\ cart.subtotal \in Int /\ cart.tax \in Int /\ cart.shipping_fee \in Nat
      /\ cart.quantity \in Sizes
    BY <1>1 DEF CartFits, MerchantCarts
<1>3. discount \in Int
    BY <1>2, AmountTypes
<1> HIDE DEF cart, discount
<1>4. cart.subtotal + cart.tax + cart.shipping_fee - discount \in Int
    BY <1>2, <1>3
<1>5. \E route \in Routes :
         x = [route |-> route, cart |-> c, subtotal |-> cart.subtotal,
              tax |-> cart.tax, shipping_fee |-> cart.shipping_fee, discount |-> discount,
              grand_total |-> cart.subtotal + cart.tax + cart.shipping_fee - discount]
    BY DEF QuoteFor, gateway_quote, Routes, cart, discount
<1>6. x \in MerchantQuotes
    BY <1>1, <1>2, <1>3, <1>4, <1>5 DEF MerchantQuotes
<1>7. /\ x.cart = c /\ x.subtotal = cart.subtotal
      /\ x.grand_total = cart.subtotal + cart.tax + cart.shipping_fee - discount
    BY <1>5
<1>8. /\ cart.subtotal = 100 * cart.unit_price * cart.quantity
      /\ cart.tax = TaxOn(cart.subtotal) /\ cart.shipping_fee = MERCHANT_CONFIGS[m].fee
    BY <1>1 DEF CartFits
<1>9. QuoteFits(m, x, carts[m])
    BY <1>2, <1>7, <1>8 DEF QuoteFits, cart, discount
<1> QED
    BY <1>6, <1>9

\* One step of a client on the simulator's routes, or on the gateway's.
LEMMA SimulatorStep ==
    ASSUME ShopInv, SimulatorRoutes
    PROVE  ShopInv' /\ Keeps
<1>1. PICK m \in Shops :
        \/ \E p \in DOMAIN MERCHANT_INVENTORIES[m], n \in Sizes :
               create_or_add_merchant_cart(m, p, n)
        \/ \E c \in DOMAIN carts[m], n \in Sizes : patch_merchant_cart(m, c, n)
        \/ \E c \in DOMAIN carts[m], code \in Codes : merchant_checkout(m, c, code)
        \/ \E q \in DOMAIN quotes[m] : merchant_payment(m, q)
        \/ \E o \in DOMAIN orders[m] : return_merchant_order(m, o)
    BY DEF SimulatorRoutes
<1>2. ASSUME NEW p \in DOMAIN MERCHANT_INVENTORIES[m], NEW n \in Sizes,
             create_or_add_merchant_cart(m, p, n)
      PROVE  ShopInv' /\ Keeps
  <2>1. PICK price, subtotal, fee :
           /\ price = MERCHANT_INVENTORIES[m][p].price
           /\ subtotal = 100 * price * n
           /\ fee = MERCHANT_CONFIGS[m].fee
      OBVIOUS
  <2> DEFINE x == [route |-> "simulator", product |-> p, quantity |-> n,
                   unit_price |-> price, total_price |-> subtotal,
                   subtotal |-> subtotal, tax |-> TaxOn(subtotal),
                   shipping_fee |-> fee,
                   grand_total |-> subtotal + TaxOn(subtotal) + fee]
  <2>2. CartFits(m, x)
      BY <2>1, NewCartsFit DEF Routes
  <2>3. carts' = [carts EXCEPT ![m] = Append(@, x)] /\ UNCHANGED <<quotes, orders>>
      BY <1>2, <2>1 DEF create_or_add_merchant_cart
  <2> HIDE DEF x
  <2> QED
      BY <2>2, <2>3, CartAdded
<1>3. ASSUME NEW c \in DOMAIN carts[m], NEW n \in Sizes, patch_merchant_cart(m, c, n)
      PROVE  ShopInv' /\ Keeps
  <2>1. PICK x : x = Requantified(carts[m][c], n)
      OBVIOUS
  <2>2. CartFits(m, x) /\ x.unit_price = carts[m][c].unit_price
      BY <2>1, ChangedCartsFit DEF ShopInv
  <2>3. carts' = [carts EXCEPT ![m][c] = x] /\ UNCHANGED <<quotes, orders>>
      BY <1>3, <2>1 DEF patch_merchant_cart
  <2> QED
      BY <2>2, <2>3, CartReplaced
<1>4. ASSUME NEW c \in DOMAIN carts[m], NEW code \in Codes, merchant_checkout(m, c, code)
      PROVE  ShopInv' /\ Keeps
    BY <1>4, NewQuotesFit, QuoteAdded DEF merchant_checkout
<1>5. ASSUME NEW q \in DOMAIN quotes[m], merchant_payment(m, q)
      PROVE  ShopInv' /\ Keeps
  <2> DEFINE x == [route |-> "simulator", quote |-> q,
                   itemsOf |-> IF quotes[m][q].cart \in DOMAIN carts[m]
                               THEN quotes[m][q].cart ELSE 0,
                   total_amount |-> quotes[m][q].grand_total,
                   order_status |-> "CONFIRMED"]
  <2>1. q \in Nat /\ quotes[m][q] \in MerchantQuotes
      BY DEF ShopInv
  <2>2. x \in MerchantOrders
      BY <2>1 DEF MerchantOrders, MerchantQuotes, Routes
  <2>3. OrderFits(x, quotes[m])
      BY DEF OrderFits
  <2> QED
      BY <1>5, <2>2, <2>3, OrderAdded DEF merchant_payment
<1>6. ASSUME NEW o \in DOMAIN orders[m], return_merchant_order(m, o)
      PROVE  ShopInv' /\ Keeps
  <2>1. orders[m][o] \in MerchantOrders
      BY DEF ShopInv
  <2>2. PICK x : x = [orders[m][o] EXCEPT !.order_status = "RETURN_REQUESTED"]
      OBVIOUS
  <2>3. /\ x \in MerchantOrders /\ x.quote = orders[m][o].quote
        /\ x.total_amount = orders[m][o].total_amount /\ x.order_status # "CONFIRMED"
      BY <2>1, <2>2 DEF MerchantOrders
  <2>4. orders' = [orders EXCEPT ![m][o] = x] /\ UNCHANGED <<carts, quotes>>
      BY <1>6, <2>2 DEF return_merchant_order
  <2> QED
      BY <2>3, <2>4, OrderReplaced
<1> QED
    BY <1>1, <1>2, <1>3, <1>4, <1>5, <1>6

LEMMA GatewayStep ==
    ASSUME ShopInv, GatewayRoutes
    PROVE  ShopInv' /\ Keeps
<1>1. PICK m \in Shops :
        \/ \E p \in DOMAIN MERCHANT_INVENTORIES[m], n \in Sizes : create_cart(m, p, n)
        \/ \E c \in DOMAIN carts[m], n \in Sizes : update_cart(m, c, n)
        \/ \E c \in DOMAIN carts[m], code \in Codes : checkout(m, c, code)
        \/ \E q \in DOMAIN quotes[m] : authorize_payment(m, q)
        \/ \E o \in DOMAIN orders[m] : cancel_order(m, o)
    BY DEF GatewayRoutes
<1>2. ASSUME NEW p \in DOMAIN MERCHANT_INVENTORIES[m], NEW n \in Sizes, create_cart(m, p, n)
      PROVE  ShopInv' /\ Keeps
  <2>1. CartFits(m, gateway_cart(m, p, n))
      BY NewCartsFit DEF gateway_cart, Routes
  <2> QED
      BY <1>2, <2>1, CartAdded DEF create_cart
<1>3. ASSUME NEW c \in DOMAIN carts[m], NEW n \in Sizes, update_cart(m, c, n)
      PROVE  ShopInv' /\ Keeps
  <2>1. PICK x : x = Updated(carts[m][c], n)
      OBVIOUS
  <2>2. CartFits(m, x) /\ x.unit_price = carts[m][c].unit_price
      BY <2>1, ChangedCartsFit DEF ShopInv
  <2>3. carts' = [carts EXCEPT ![m][c] = x] /\ UNCHANGED <<quotes, orders>>
      BY <1>3, <2>1 DEF update_cart
  <2> QED
      BY <2>2, <2>3, CartReplaced
<1>4. ASSUME NEW c \in DOMAIN carts[m], NEW code \in Codes, checkout(m, c, code)
      PROVE  ShopInv' /\ Keeps
    BY <1>4, NewQuotesFit, QuoteAdded DEF checkout
<1>5. ASSUME NEW q \in DOMAIN quotes[m], authorize_payment(m, q)
      PROVE  ShopInv' /\ Keeps
  <2>1. q \in Nat /\ quotes[m][q] \in MerchantQuotes
      BY DEF ShopInv
  <2>2. gateway_order(m, q) \in MerchantOrders
      BY <2>1 DEF MerchantOrders, MerchantQuotes, Routes, gateway_order
  <2>3. OrderFits(gateway_order(m, q), quotes[m])
      BY DEF OrderFits, gateway_order
  <2> QED
      BY <1>5, <2>2, <2>3, OrderAdded DEF authorize_payment
<1>6. ASSUME NEW o \in DOMAIN orders[m], cancel_order(m, o)
      PROVE  ShopInv' /\ Keeps
  <2>1. orders[m][o] \in MerchantOrders
      BY DEF ShopInv
  <2>2. PICK x : x = Cancelled(orders[m][o])
      OBVIOUS
  <2>3. /\ x \in MerchantOrders /\ x.quote = orders[m][o].quote
        /\ x.total_amount = orders[m][o].total_amount /\ x.order_status # "CONFIRMED"
      BY <2>1, <2>2 DEF MerchantOrders, Cancelled
  <2>4. orders' = [orders EXCEPT ![m][o] = x] /\ UNCHANGED <<carts, quotes>>
      BY <1>6, <2>2 DEF cancel_order
  <2> QED
      BY <2>3, <2>4, OrderReplaced
<1> QED
    BY <1>1, <1>2, <1>3, <1>4, <1>5, <1>6

-----------------------------------------------------------------------------
(* The engine's carts                                                      *)

PricedLines == {x \in EngineItems : x.total = x.quantity * Price(x.product)}

BasketInv ==
    /\ basket = [c \in CartIds |-> basket[c]]
    /\ \A c \in CartIds :
        /\ basket[c].items \in Seq(PricedLines)
        /\ basket[c] = Totalled(basket[c].items)

LEMMA CatalogueTypes ==
    ASSUME NEW p \in DOMAIN PRODUCT_CATALOG
    PROVE  /\ PRODUCT_CATALOG[p].price \in Nat
           /\ PRODUCT_CATALOG[p].shipping \in Nat
           /\ Price(p) \in Nat
<1>1. PRODUCT_CATALOG[p].price \in Nat /\ PRODUCT_CATALOG[p].shipping \in Nat
    BY DEF PRODUCT_CATALOG, Listing
<1> QED
    BY <1>1 DEF Price

LEMMA LineTypes ==
    ASSUME NEW x \in PricedLines
    PROVE  /\ x.product \in DOMAIN PRODUCT_CATALOG
           /\ x.quantity \in Int
           /\ x.total = x.quantity * Price(x.product)
BY WantedAssumption DEF PricedLines, EngineItems

\* A line for n pieces of p.
LEMMA NewLine ==
    ASSUME NEW p \in Wanted, NEW n \in Int
    PROVE  /\ Price(p) \in Nat
           /\ [product |-> p, quantity |-> n, total |-> n * Price(p)] \in PricedLines
<1>1. Price(p) \in Nat
    BY WantedAssumption, CatalogueTypes
<1>2. n * Price(p) \in Int
    BY <1>1
<1> QED
    BY <1>1, <1>2 DEF PricedLines, EngineItems

\* Adding keeps every line priced.
LEMMA AddedKeepsPrices ==
    ASSUME NEW items \in Seq(PricedLines), NEW p \in Wanted, NEW n \in Int
    PROVE  Added(items, p, n) \in Seq(PricedLines)
<1>1. CASE \E i \in DOMAIN items : items[i].product = p
  <2> DEFINE new == [i \in DOMAIN items |->
                       IF items[i].product = p
                       THEN [items[i] EXCEPT !.quantity = items[i].quantity + n,
                                             !.total = (items[i].quantity + n) * Price(p)]
                       ELSE items[i]]
  <2>1. ASSUME NEW i \in DOMAIN items, items[i].product = p
        PROVE  [items[i] EXCEPT !.quantity = items[i].quantity + n,
                                !.total = (items[i].quantity + n) * Price(p)] \in PricedLines
    <3>1. items[i] \in PricedLines
        OBVIOUS
    <3>2. PICK k \in Int : k = items[i].quantity + n
        BY <3>1, LineTypes
    <3>3. items[i] \in EngineItems
        BY <3>1 DEF PricedLines
    <3>4. PICK y : y = [items[i] EXCEPT !.quantity = k, !.total = k * Price(p)]
        OBVIOUS
    <3>5. k * Price(p) \in Int
      <4>1. Price(p) \in Int
          BY WantedAssumption, CatalogueTypes
      <4> QED
          BY <3>2, <4>1
    <3>6. y \in EngineItems /\ y.product = p /\ y.quantity = k /\ y.total = k * Price(p)
        BY <2>1, <3>2, <3>3, <3>4, <3>5 DEF EngineItems
    <3> QED
        BY <3>2, <3>4, <3>6 DEF PricedLines
  <2>2. \A i \in DOMAIN items : new[i] \in PricedLines
    <3> SUFFICES ASSUME NEW i \in DOMAIN items PROVE new[i] \in PricedLines
        OBVIOUS
    <3>1. items[i] \in PricedLines
        OBVIOUS
    <3> QED
        BY <2>1, <3>1
  <2>3. DOMAIN items = 1 .. Len(items) /\ Len(items) \in Nat
      OBVIOUS
  <2>4. Added(items, p, n) = new
      BY <1>1 DEF Added
  <2>5. new = [i \in 1 .. Len(items) |-> new[i]]
      BY <2>3
  <2> HIDE DEF new
  <2> QED
      BY <2>2, <2>3, <2>4, <2>5
<1>2. CASE ~\E i \in DOMAIN items : items[i].product = p
  <2>1. PICK x : x = [product |-> p, quantity |-> n, total |-> n * Price(p)]
      OBVIOUS
  <2>2. x \in PricedLines
      BY <2>1, NewLine
  <2>3. Added(items, p, n) = Append(items, x)
      BY <1>2, <2>1 DEF Added
  <2> QED
      BY <2>2, <2>3
<1> QED
    BY <1>1, <1>2

\* Removing a product keeps every line priced.
LEMMA WithoutKeepsPrices ==
    ASSUME NEW items \in Seq(PricedLines), NEW p
    PROVE  Without(items, p) \in Seq(PricedLines)
<1> DEFINE n == Len(items)
           Next1(g, i) == IF i = 0 THEN << >>
                          ELSE IF items[i].product = p THEN g[i - 1]
                          ELSE Append(g[i - 1], items[i])
           R(g, m) == g = [i \in 0 .. m |-> Next1(g, i)]
           Has(m) == \E g \in [0 .. m -> Seq(PricedLines)] : R(g, m)
           Q == {m \in Nat : m <= n => Has(m)}
<1>1. n \in Nat /\ \A i \in 1 .. n : items[i] \in PricedLines
    OBVIOUS
<1> HIDE DEF n
<1>2. Has(0)
  <2>1. [i \in 0 .. 0 |-> << >>] \in [0 .. 0 -> Seq(PricedLines)]
      OBVIOUS
  <2>2. R([i \in 0 .. 0 |-> << >>], 0)
      OBVIOUS
  <2> QED
      BY <2>1, <2>2
<1>3. ASSUME NEW m \in Nat, m + 1 <= n, Has(m) PROVE Has(m + 1)
  <2>1. m <= n /\ m + 1 \in 1 .. n
      BY <1>1, <1>3
  <2>2. PICK g \in [0 .. m -> Seq(PricedLines)] : R(g, m)
      BY <1>3
  <2> DEFINE h == [i \in 0 .. m + 1 |-> Next1(g, i)]
  <2>3. \A i \in 0 .. m + 1 : h[i] \in Seq(PricedLines)
    <3> SUFFICES ASSUME NEW i \in 0 .. m + 1, i # 0 PROVE h[i] \in Seq(PricedLines)
        OBVIOUS
    <3>1. i - 1 \in 0 .. m /\ i \in 1 .. n
        BY <1>1, <1>3
    <3>2. g[i - 1] \in Seq(PricedLines) /\ items[i] \in PricedLines
        BY <1>1, <3>1
    <3> QED
        BY <3>2
  <2>4. \A i \in 0 .. m : h[i] = g[i]
    <3>1. \A i \in 0 .. m : i \in 0 .. m + 1
        OBVIOUS
    <3> QED
        BY <2>2, <3>1
  <2>5. \A i \in 0 .. m + 1 : i # 0 => h[i - 1] = g[i - 1]
    <3>1. \A i \in 0 .. m + 1 : i # 0 => i - 1 \in 0 .. m
        OBVIOUS
    <3> QED
        BY <2>4, <3>1
  <2>6. h = [i \in 0 .. m + 1 |-> Next1(h, i)]
      BY <2>5
  <2>7. h \in [0 .. m + 1 -> Seq(PricedLines)]
      BY <2>3
  <2> HIDE DEF h
  <2> QED
      BY <2>6, <2>7
<1> HIDE DEF Has
<1>4. 0 \in Q /\ \A m \in Nat : m \in Q => m + 1 \in Q
  <2>1. ASSUME NEW m \in Nat, m \in Q PROVE m + 1 \in Q
    <3>1. m + 1 \in Nat /\ (m + 1 <= n => m <= n)
        BY <1>1
    <3> QED
        BY <1>3, <2>1, <3>1
  <2> QED
      BY <1>2, <2>1
<1> HIDE DEF Q
<1>5. n \in Q
    BY <1>1, <1>4, CountingUp
<1>6. PICK g \in [0 .. n -> Seq(PricedLines)] : R(g, n)
  <2>1. Has(n)
      BY <1>1, <1>5 DEF Q
  <2> QED
      BY <2>1 DEF Has
<1> DEFINE f == CHOOSE h : R(h, n)
<1>7. Without(items, p) = f[n]
    BY DEF Without, n
<1>8. R(f, n)
  <2> HIDE DEF R
  <2> QED
      BY <1>6
<1> HIDE DEF f
<1> DEFINE T == {m \in Nat : m <= n => f[m] \in Seq(PricedLines)}
<1>9. 0 \in T
  <2>1. 0 \in 0 .. n
      BY <1>1
  <2> QED
      BY <1>8, <2>1
<1>10. ASSUME NEW m \in Nat, m \in T PROVE m + 1 \in T
  <2> SUFFICES ASSUME m + 1 <= n PROVE f[m + 1] \in Seq(PricedLines)
      OBVIOUS
  <2>1. m + 1 \in 0 .. n /\ m + 1 \in 1 .. n /\ m <= n /\ (m + 1) - 1 = m /\ m + 1 # 0
      BY <1>1
  <2>2. f[m] \in Seq(PricedLines) /\ items[m + 1] \in PricedLines
      BY <1>1, <1>10, <2>1
  <2>3. f[m + 1] = IF items[m + 1].product = p THEN f[m] ELSE Append(f[m], items[m + 1])
      BY <1>8, <2>1
  <2> QED
      BY <2>2, <2>3
<1> HIDE DEF T
<1>11. n \in T
    BY <1>1, <1>9, <1>10, CountingUp
<1> QED
    BY <1>1, <1>7, <1>11 DEF T

\* A rule that adds the next weight to the sum of the rest.
BackRule(g, w, D) ==
    g = [s \in SUBSET D |-> IF s = {} THEN 0 ELSE g[s \ {Chosen(s)}] + w[Chosen(s)]]

\* Such a rule has one solution, the table of sums.
LEMMA BackSums ==
    ASSUME NEW D, IsFiniteSet(D),
           NEW M \in SUBSET Int, 0 \in M, \A a, b \in M : a + b \in M,
           NEW w, \A x \in D : w[x] \in M
    PROVE  /\ BackRule(SumTable(w, D), w, D)
           /\ \A f : BackRule(f, w, D) => f = SumTable(w, D)
           /\ WeightOf(w, D) \in M
           /\ D = {} => WeightOf(w, D) = 0
<1> DEFINE g == SumTable(w, D)
<1>1. g \in [SUBSET D -> M] /\ SumRule(g, w, D)
    BY SumTableIn
<1>2. WeightOf(w, D) = g[D]
    BY DEF WeightOf
<1> HIDE DEF g
<1>3. \A s \in SUBSET D : s # {} => Chosen(s) \in D /\ s \ {Chosen(s)} \in SUBSET D
    BY DEF Chosen
<1>4. \A s \in SUBSET D : s # {} =>
          w[Chosen(s)] + g[s \ {Chosen(s)}] = g[s \ {Chosen(s)}] + w[Chosen(s)]
  <2> SUFFICES ASSUME NEW s \in SUBSET D, s # {}
               PROVE  w[Chosen(s)] + g[s \ {Chosen(s)}] = g[s \ {Chosen(s)}] + w[Chosen(s)]
      OBVIOUS
  <2>1. w[Chosen(s)] \in Int /\ g[s \ {Chosen(s)}] \in Int
      BY <1>1, <1>3
  <2> QED
      BY <2>1
<1>5. BackRule(g, w, D)
    BY <1>1, <1>4 DEF BackRule, SumRule
<1>6. ASSUME NEW f, BackRule(f, w, D) PROVE f = g
  <2>1. g \in [SUBSET D -> Int] /\ \A x \in D : w[x] \in Int
      BY <1>1
  <2>2. f = [s \in SUBSET D |-> IF s = {} THEN 0 ELSE f[s \ {Chosen(s)}] + w[Chosen(s)]]
      BY <1>6 DEF BackRule
  <2> QED
      BY <1>1, <2>1, <2>2, SumsCoincide
<1>7. g[D] \in M /\ (D = {} => g[D] = 0)
    BY <1>1 DEF SumRule
<1> QED
    BY <1>2, <1>5, <1>6, <1>7 DEF g

Amounts100 == {100 * k : k \in Int}

LEMMA Hundreds ==
    /\ Amounts100 \in SUBSET Int
    /\ 0 \in Amounts100
    /\ \A a, b \in Amounts100 : a + b \in Amounts100
    /\ \A a \in Amounts100, n \in Int : n * a \in Amounts100
<1>1. 0 = 100 * 0
    OBVIOUS
<1>2. ASSUME NEW a \in Amounts100, NEW b \in Amounts100 PROVE a + b \in Amounts100
  <2>1. PICK k \in Int, l \in Int : a = 100 * k /\ b = 100 * l
      BY DEF Amounts100
  <2>2. a + b = 100 * (k + l) /\ k + l \in Int
      BY <2>1
  <2> QED
      BY <2>2 DEF Amounts100
<1>3. ASSUME NEW a \in Amounts100, NEW n \in Int PROVE n * a \in Amounts100
  <2>1. PICK k \in Int : a = 100 * k
      BY DEF Amounts100
  <2>2. n * a = 100 * (n * k) /\ n * k \in Int
      BY <2>1
  <2> QED
      BY <2>2 DEF Amounts100
<1>4. Amounts100 \in SUBSET Int
    BY DEF Amounts100
<1>5. 0 \in Amounts100
    BY <1>1 DEF Amounts100
<1> QED
    BY <1>2, <1>3, <1>4, <1>5

\* The three sums over the lines of a cart.
LEMMA SumOfTotals ==
    ASSUME NEW items \in Seq(PricedLines)
    PROVE  /\ SumOf(items, LAMBDA x : x.total) \in Amounts100
           /\ SumOf(items, LAMBDA x : x.total)
                = SumOf(items, LAMBDA x : x.quantity * Price(x.product))
           /\ items = << >> => SumOf(items, LAMBDA x : x.total) = 0
<1> DEFINE D == DOMAIN items
           w == [i \in D |-> items[i].total]
           R(g) == g = [s \in SUBSET D |-> IF s = {} THEN 0 ELSE
                            g[s \ {Chosen(s)}] + items[Chosen(s)].total]
           T(g) == g = [s \in SUBSET D |-> IF s = {} THEN 0 ELSE
                            g[s \ {Chosen(s)}]
                              + items[Chosen(s)].quantity * Price(items[Chosen(s)].product)]
<1>1. SumOf(items, LAMBDA x : x.total) = (CHOOSE g : R(g))[D]
    BY DEF SumOf, FoldSeq, FoldFunction, FoldFunctionOnSet, MapThenFoldSet, Chosen
<1>2. SumOf(items, LAMBDA x : x.quantity * Price(x.product)) = (CHOOSE g : T(g))[D]
    BY DEF SumOf, FoldSeq, FoldFunction, FoldFunctionOnSet, MapThenFoldSet, Chosen
<1>3. IsFiniteSet(D)
  <2>1. D = 1 .. Len(items) /\ Len(items) \in Int /\ 1 \in Int
      OBVIOUS
  <2> QED
      BY <2>1, FS_Interval
<1>4. \A i \in D : items[i] \in PricedLines
    OBVIOUS
<1>5. \A i \in D : w[i] \in Amounts100
  <2> SUFFICES ASSUME NEW i \in D PROVE items[i].total \in Amounts100
      OBVIOUS
  <2>1. /\ items[i].product \in DOMAIN PRODUCT_CATALOG
        /\ items[i].quantity \in Int
        /\ items[i].total = items[i].quantity * Price(items[i].product)
      BY <1>4, LineTypes
  <2>2. Price(items[i].product) \in Amounts100
      BY <2>1, CatalogueTypes DEF Price, Amounts100
  <2> QED
      BY <2>1, <2>2, Hundreds
<1>6. \A s \in SUBSET D : s # {} =>
         /\ w[Chosen(s)] = items[Chosen(s)].total
         /\ w[Chosen(s)] = items[Chosen(s)].quantity * Price(items[Chosen(s)].product)
  <2> SUFFICES ASSUME NEW s \in SUBSET D, s # {}
               PROVE  /\ w[Chosen(s)] = items[Chosen(s)].total
                      /\ w[Chosen(s)] = items[Chosen(s)].quantity
                                          * Price(items[Chosen(s)].product)
      OBVIOUS
  <2>1. Chosen(s) \in D
      BY DEF Chosen
  <2>2. items[Chosen(s)] \in PricedLines
      BY <1>4, <2>1
  <2> QED
      BY <2>1, <2>2, LineTypes
<1> HIDE DEF w
<1>7. \A g : (R(g) <=> BackRule(g, w, D)) /\ (T(g) <=> BackRule(g, w, D))
    BY <1>6 DEF BackRule
<1>8. /\ BackRule(SumTable(w, D), w, D)
      /\ \A f : BackRule(f, w, D) => f = SumTable(w, D)
      /\ WeightOf(w, D) \in Amounts100
      /\ D = {} => WeightOf(w, D) = 0
    BY <1>3, <1>5, Hundreds, BackSums
<1> HIDE DEF R, T
<1>9. (CHOOSE g : R(g)) = SumTable(w, D) /\ (CHOOSE g : T(g)) = SumTable(w, D)
    BY <1>7, <1>8
<1>10. items = << >> => D = {}
    OBVIOUS
<1> HIDE DEF D
<1> QED
    BY <1>1, <1>2, <1>8, <1>9, <1>10 DEF WeightOf

LEMMA SumOfShipping ==
    ASSUME NEW items \in Seq(PricedLines)
    PROVE  /\ SumOf(items, LAMBDA x : 100 * PRODUCT_CATALOG[x.product].shipping) \in Nat
           /\ items = << >> =>
                SumOf(items, LAMBDA x : 100 * PRODUCT_CATALOG[x.product].shipping) = 0
<1> DEFINE D == DOMAIN items
           w == [i \in D |-> 100 * PRODUCT_CATALOG[items[i].product].shipping]
           R(g) == g = [s \in SUBSET D |-> IF s = {} THEN 0 ELSE
                            g[s \ {Chosen(s)}]
                              + 100 * PRODUCT_CATALOG[items[Chosen(s)].product].shipping]
<1>1. SumOf(items, LAMBDA x : 100 * PRODUCT_CATALOG[x.product].shipping)
        = (CHOOSE g : R(g))[D]
    BY DEF SumOf, FoldSeq, FoldFunction, FoldFunctionOnSet, MapThenFoldSet, Chosen
<1>2. IsFiniteSet(D)
  <2>1. D = 1 .. Len(items) /\ Len(items) \in Int /\ 1 \in Int
      OBVIOUS
  <2> QED
      BY <2>1, FS_Interval
<1>3. \A i \in D : w[i] \in Nat
  <2> SUFFICES ASSUME NEW i \in D
               PROVE  100 * PRODUCT_CATALOG[items[i].product].shipping \in Nat
      OBVIOUS
  <2>1. items[i] \in PricedLines
      OBVIOUS
  <2>2. PRODUCT_CATALOG[items[i].product].shipping \in Nat
      BY <2>1, LineTypes, CatalogueTypes
  <2> QED
      BY <2>2
<1>4. \A s \in SUBSET D : s # {} =>
         w[Chosen(s)] = 100 * PRODUCT_CATALOG[items[Chosen(s)].product].shipping
  <2>1. \A s \in SUBSET D : s # {} => Chosen(s) \in D
      BY DEF Chosen
  <2> QED
      BY <2>1
<1> HIDE DEF w
<1>5. \A g : R(g) <=> BackRule(g, w, D)
    BY <1>4 DEF BackRule
<1>6. Nat \in SUBSET Int /\ 0 \in Nat /\ \A a, b \in Nat : a + b \in Nat
    OBVIOUS
<1>7. /\ BackRule(SumTable(w, D), w, D)
      /\ \A f : BackRule(f, w, D) => f = SumTable(w, D)
      /\ WeightOf(w, D) \in Nat
      /\ D = {} => WeightOf(w, D) = 0
    BY <1>2, <1>3, <1>6, BackSums
<1> HIDE DEF R
<1>8. (CHOOSE g : R(g)) = SumTable(w, D)
    BY <1>5, <1>7
<1>9. items = << >> => D = {}
    OBVIOUS
<1> HIDE DEF D
<1> QED
    BY <1>1, <1>7, <1>8, <1>9 DEF WeightOf

\* Totalled keeps the lines; its amounts are integers, and they are those
\* of the lines.
LEMMA TotalsFit ==
    ASSUME NEW items \in Seq(PricedLines), NEW cart, cart = Totalled(items)
    PROVE  /\ cart.items = items
           /\ cart.grand_total \in Int
           /\ \A i \in DOMAIN items : items[i].total = items[i].quantity * Price(items[i].product)
           /\ LET sum == SumOf(items, LAMBDA x : x.quantity * Price(x.product))
              IN  /\ cart.subtotal = sum
                  /\ cart.grand_total - cart.shipping =
                       (sum \div 100) * (IF sum >= OneLakh THEN 113 ELSE 118)
<1>1. PICK subtotal, shipping :
         /\ subtotal = SumOf(items, LAMBDA x : x.total)
         /\ shipping = SumOf(items, LAMBDA x : 100 * PRODUCT_CATALOG[x.product].shipping)
    OBVIOUS
<1>2. /\ subtotal \in Amounts100 /\ shipping \in Nat
      /\ subtotal = SumOf(items, LAMBDA x : x.quantity * Price(x.product))
    BY <1>1, SumOfTotals, SumOfShipping
<1> DEFINE tax      == 18 * (subtotal \div 100)
           discount == IF subtotal >= OneLakh THEN 5 * (subtotal \div 100) ELSE 0
<1>3. cart = [items |-> items, subtotal |-> subtotal, shipping |-> shipping,
              tax |-> tax, discount |-> discount,
              grand_total |-> subtotal + shipping + tax - discount]
    BY <1>1 DEF Totalled
<1>4. PICK k \in Int : subtotal = 100 * k
    BY <1>2 DEF Amounts100
<1>5. subtotal \div 100 = k
    BY <1>4
<1>6. subtotal + shipping + tax - discount
         = shipping + k * (IF subtotal >= OneLakh THEN 113 ELSE 118)
  <2>1. CASE subtotal >= OneLakh
    <3>1. discount = 5 * k /\ tax = 18 * k
        BY <1>5, <2>1
    <3> HIDE DEF discount, tax
    <3>2. (IF subtotal >= OneLakh THEN 113 ELSE 118) = 113
        BY <2>1
    <3>3. 100 * k + shipping + 18 * k - 5 * k = shipping + k * 113
      <4>1. shipping \in Nat
          BY <1>2
      <4> QED
          BY <4>1
    <3> QED
        BY <1>4, <3>1, <3>2, <3>3
  <2>2. CASE ~(subtotal >= OneLakh)
    <3>1. discount = 0 /\ tax = 18 * k
        BY <1>5, <2>2
    <3> HIDE DEF discount, tax
    <3>2. (IF subtotal >= OneLakh THEN 113 ELSE 118) = 118
        BY <2>2
    <3>3. 100 * k + shipping + 18 * k - 0 = shipping + k * 118
      <4>1. shipping \in Nat
          BY <1>2
      <4> QED
          BY <4>1
    <3> QED
        BY <1>4, <3>1, <3>2, <3>3
  <2> QED
      BY <2>1, <2>2
<1>7. PICK rest \in Int : rest = k * (IF subtotal >= OneLakh THEN 113 ELSE 118)
    BY <1>4
<1>8. cart.items = items /\ cart.subtotal = subtotal /\ cart.shipping = shipping
    BY <1>3
<1>9. cart.grand_total = shipping + rest
    BY <1>3, <1>6, <1>7
<1>10. cart.grand_total \in Int /\ cart.grand_total - cart.shipping = rest
  <2>1. shipping + rest \in Int /\ (shipping + rest) - shipping = rest
    <3>1. shipping \in Nat
        BY <1>2
    <3> QED
        BY <3>1
  <2> QED
      BY <1>8, <1>9, <2>1
<1>11. \A i \in DOMAIN items : items[i].total = items[i].quantity * Price(items[i].product)
  <2>1. \A i \in DOMAIN items : items[i] \in PricedLines
      OBVIOUS
  <2> QED
      BY <2>1, LineTypes
<1> QED
    BY <1>2, <1>5, <1>7, <1>8, <1>10, <1>11, ZenonT(40)

LEMMA EmptyTotals == << >> \in Seq(PricedLines) /\ EmptyCart = Totalled(<< >>)
<1>1. << >> \in Seq(PricedLines)
    OBVIOUS
<1>2. PICK subtotal, shipping :
         /\ subtotal = SumOf(<< >>, LAMBDA x : x.total)
         /\ shipping = SumOf(<< >>, LAMBDA x : 100 * PRODUCT_CATALOG[x.product].shipping)
    OBVIOUS
<1>3. subtotal = 0 /\ shipping = 0
    BY <1>1, <1>2, SumOfTotals, SumOfShipping
<1>4. 18 * (subtotal \div 100) = 0 /\ ~(subtotal >= OneLakh)
  <2>1. 18 * (0 \div 100) = 0
      OBVIOUS
  <2>2. ~(0 >= OneLakh)
      BY SMT DEF OneLakh
  <2> QED
      BY <1>3, <2>1, <2>2
<1>5. Totalled(<< >>) = [items |-> << >>, subtotal |-> 0, shipping |-> 0, tax |-> 0,
                         discount |-> 0, grand_total |-> 0 + 0 + 0 - 0]
    BY <1>2, <1>3, <1>4 DEF Totalled
<1> QED
    BY <1>1, <1>5 DEF EmptyCart

LEMMA BasketsStay ==
    ASSUME BasketInv, UNCHANGED basket
    PROVE  BasketInv'
BY DEF BasketInv

\* Whatever priced lines a cart is given, with their totals.
LEMMA BasketTotalled ==
    ASSUME BasketInv, NEW c \in CartIds, NEW items \in Seq(PricedLines),
           basket' = [basket EXCEPT ![c] = Totalled(items)]
    PROVE  BasketInv' /\ basket'[c].grand_total \in Int
<1>1. PICK x : x = Totalled(items)
    OBVIOUS
<1>2. x.items = items /\ x.grand_total \in Int
    BY <1>1, TotalsFit
<1>3. basket' = [d \in CartIds |-> IF d = c THEN x ELSE basket[d]]
    BY <1>1 DEF BasketInv
<1>4. \A d \in CartIds : /\ basket'[d].items \in Seq(PricedLines)
                         /\ basket'[d] = Totalled(basket'[d].items)
    BY <1>1, <1>2, <1>3 DEF BasketInv
<1> QED
    BY <1>2, <1>3, <1>4 DEF BasketInv

LEMMA BasketAdded ==
    ASSUME BasketInv, NEW c \in CartIds, NEW p \in Wanted, NEW n \in Int,
           add_to_cart(c, p, n)
    PROVE  BasketInv' /\ basket'[c].grand_total \in Int
<1>1. PICK items : items = Added(basket[c].items, p, n)
    OBVIOUS
<1>2. items \in Seq(PricedLines)
    BY <1>1, AddedKeepsPrices DEF BasketInv
<1>3. basket' = [basket EXCEPT ![c] = Totalled(items)]
    BY <1>1 DEF add_to_cart
<1> QED
    BY <1>2, <1>3, BasketTotalled

LEMMA BasketInit ==
    ASSUME NEW b, b = [c \in CartIds |-> EmptyCart]
    PROVE  /\ b = [c \in CartIds |-> b[c]]
           /\ \A c \in CartIds : b[c].items \in Seq(PricedLines) /\ b[c] = Totalled(b[c].items)
<1>1. EmptyCart.items = << >>
    BY DEF EmptyCart
<1> QED
    BY <1>1, EmptyTotals

\* What the engine promises of its carts.
LEMMA BasketsAddUp ==
    ASSUME BasketInv
    PROVE  EngineCartsAddUp
<1> SUFFICES ASSUME NEW c \in CartIds
             PROVE  LET cart == basket[c]
                        sum  == SumOf(cart.items, LAMBDA x : x.quantity * Price(x.product))
                    IN  /\ \A i \in DOMAIN cart.items :
                            cart.items[i].total
                              = cart.items[i].quantity * Price(cart.items[i].product)
                        /\ cart.subtotal = sum
                        /\ cart.grand_total - cart.shipping =
                             (sum \div 100) * (IF sum >= OneLakh THEN 113 ELSE 118)
    BY DEF EngineCartsAddUp
<1>1. PICK items \in Seq(PricedLines) : items = basket[c].items /\ basket[c] = Totalled(items)
    BY DEF BasketInv
<1> QED
    BY <1>1, TotalsFit, ZenonT(40)

\* What the merchants promise of their carts.
LEMMA ShopCartsAddUp ==
    ASSUME ShopInv
    PROVE  CartsAddUp
<1> SUFFICES ASSUME NEW m \in Shops, NEW c \in DOMAIN carts[m]
             PROVE  LET cart == carts[m][c]
                    IN  /\ cart.unit_price = MERCHANT_INVENTORIES[m][cart.product].price
                        /\ cart.total_price = 100 * cart.unit_price * cart.quantity
                        /\ cart.subtotal = cart.total_price
                        /\ cart.tax = 18 * cart.unit_price * cart.quantity
                        /\ cart.grand_total = cart.subtotal + cart.tax + cart.shipping_fee
    BY DEF CartsAddUp
<1>1. PICK cart : cart = carts[m][c] /\ CartFits(m, cart)
    BY DEF ShopInv
<1>2. cart.unit_price \in Int /\ cart.quantity \in Int
  <2>1. cart.unit_price \in Nat /\ cart.quantity \in Sizes
      BY <1>1 DEF CartFits, MerchantCarts
  <2>2. cart.unit_price \in Int
      BY <2>1
  <2>3. cart.quantity \in Int
      BY <2>1, SizesAssumption
  <2> QED
      BY <2>2, <2>3
<1>3. PICK a \in Int, b \in Int : a = cart.unit_price /\ b = cart.quantity
    BY <1>2
<1>4. PICK k \in Int : k = a * b
    OBVIOUS
<1>5. cart.subtotal = 100 * k
  <2>1. 100 * a * b = 100 * k
      BY <1>4
  <2> QED
      BY <1>1, <1>3, <2>1 DEF CartFits
<1>6. cart.tax = 18 * k
  <2>1. (100 * k) \div 100 = k
      OBVIOUS
  <2> QED
      BY <1>1, <1>5, <2>1 DEF CartFits, TaxOn
<1>7. cart.tax = 18 * cart.unit_price * cart.quantity
  <2>1. 18 * a * b = 18 * k
      BY <1>4
  <2> QED
      BY <1>3, <1>6, <2>1
<1> QED
    BY <1>1, <1>7 DEF CartFits

\* Every charge is explained.
LEMMA ShopChargesExplained ==
    ASSUME ShopInv
    PROVE  ChargesAreExplained
<1> SUFFICES ASSUME NEW m \in Shops, NEW o \in DOMAIN orders[m]
             PROVE  LET quote == quotes[m][orders[m][o].quote]
                        price == 100 * carts[m][quote.cart].unit_price
                    IN  \E n \in Sizes, code \in Codes :
                            /\ quote.subtotal = price * n
                            /\ orders[m][o].total_amount =
                                   price * n + TaxOn(price * n) + MERCHANT_CONFIGS[m].fee
                                     - DiscountFor(m, code, price * n)
    BY DEF ChargesAreExplained
<1>1. OrderFits(orders[m][o], quotes[m])
    BY DEF ShopInv
<1>2. QuoteFits(m, quotes[m][orders[m][o].quote], carts[m])
    BY <1>1 DEF ShopInv, OrderFits
<1> QED
    BY <1>1, <1>2, ZenonT(40) DEF OrderFits, QuoteFits

-----------------------------------------------------------------------------
(* The ledger and the engine's orders                                      *)

LedgerInv ==
    /\ \E S : ledger \in Seq(S)
    /\ placed \in Seq(EngineOrders)
    /\ OrdersAndLedgerAgree

\* An order that still names the same block, product and route.
SameStamp(order, before) ==
    /\ order.block = before.block
    /\ order.product = before.product
    /\ order.via = before.via

LEMMA SettledNames ==
    SettledActions = {"CHECKOUT_EXECUTED", "EXECUTE_PURCHASE"}
BY DEF SettledActions, PurchaseAction

LEMMA UnchangedStamps ==
    ASSUME UNCHANGED placed
    PROVE  \A o \in DOMAIN placed : SameStamp(placed'[o], placed[o])
BY DEF SameStamp

\* A step adds no block that must be of an order, and no order; what orders
\* name stays.
LEMMA OtherLogs ==
    ASSUME LedgerInv, NEW S, ledger' \in Seq(S),
           Len(ledger) <= Len(ledger'),
           \A b \in DOMAIN ledger : ledger'[b] = ledger[b],
           \A b \in DOMAIN ledger' \ DOMAIN ledger :
               ledger'[b].action_type \notin SettledActions,
           placed' \in Seq(EngineOrders), DOMAIN placed' = DOMAIN placed,
           \A o \in DOMAIN placed : SameStamp(placed'[o], placed[o])
    PROVE  LedgerInv'
<1>1. PICK T : ledger \in Seq(T)
    BY DEF LedgerInv
<1>2. DOMAIN ledger \subseteq DOMAIN ledger'
    BY <1>1
<1>3. OrdersAreStamped'
  <2> SUFFICES ASSUME NEW o \in DOMAIN placed'
               PROVE  /\ placed'[o].block \in DOMAIN ledger'
                      /\ ledger'[placed'[o].block].action_type = PurchaseAction[placed'[o].via]
                      /\ ledger'[placed'[o].block].about = placed'[o].product
                      /\ \A later \in DOMAIN placed' :
                            o < later => placed'[o].block < placed'[later].block
      BY DEF OrdersAreStamped
  <2>1. /\ placed[o].block \in DOMAIN ledger
        /\ ledger[placed[o].block].action_type = PurchaseAction[placed[o].via]
        /\ ledger[placed[o].block].about = placed[o].product
        /\ \A later \in DOMAIN placed :
              o < later => placed[o].block < placed[later].block
      BY DEF LedgerInv, OrdersAndLedgerAgree, OrdersAreStamped
  <2>2. \A later \in DOMAIN placed : placed'[later].block = placed[later].block
      BY DEF SameStamp
  <2>3. placed'[o].product = placed[o].product /\ placed'[o].via = placed[o].via
      BY DEF SameStamp
  <2> QED
      BY <1>2, <2>1, <2>2, <2>3
<1>4. StampsAreOfOrders'
  <2> SUFFICES ASSUME NEW b \in DOMAIN ledger',
                      ledger'[b].action_type \in SettledActions
               PROVE  \E o \in DOMAIN placed' : placed'[o].block = b
      BY DEF StampsAreOfOrders
  <2>1. b \in DOMAIN ledger /\ ledger[b].action_type \in SettledActions
      OBVIOUS
  <2>2. PICK o \in DOMAIN placed : placed[o].block = b
      BY <2>1 DEF LedgerInv, OrdersAndLedgerAgree, StampsAreOfOrders
  <2> QED
      BY <2>2 DEF SameStamp
<1> QED
    BY <1>3, <1>4 DEF LedgerInv, OrdersAndLedgerAgree

LEMMA LedgerStays ==
    ASSUME LedgerInv, UNCHANGED <<ledger, placed>>
    PROVE  LedgerInv'
BY DEF LedgerInv, OrdersAndLedgerAgree, OrdersAreStamped, StampsAreOfOrders

\* The ledger grows by a block that need not be of an order.
LEMMA OneOtherLog ==
    ASSUME LedgerInv, NEW b, b.action_type \notin SettledActions,
           ledger' = Append(ledger, b),
           placed' \in Seq(EngineOrders), DOMAIN placed' = DOMAIN placed,
           \A o \in DOMAIN placed : SameStamp(placed'[o], placed[o])
    PROVE  LedgerInv'
<1>1. PICK T : ledger \in Seq(T)
    BY DEF LedgerInv
<1>2. PICK S : S = T \union {b}
    OBVIOUS
<1>3. ledger \in Seq(S) /\ b \in S
  <2>1. T \subseteq S /\ b \in S
      BY <1>2
  <2>2. \A i \in 1 .. Len(ledger) : ledger[i] \in S
      BY <1>1, <2>1
  <2>3. Len(ledger) \in Nat /\ ledger = [i \in 1 .. Len(ledger) |-> ledger[i]]
      BY <1>1
  <2> QED
      BY <2>1, <2>2, <2>3
<1>4. /\ ledger' \in Seq(S)
      /\ Len(ledger) <= Len(ledger')
      /\ \A i \in DOMAIN ledger : ledger'[i] = ledger[i]
      /\ \A i \in DOMAIN ledger' \ DOMAIN ledger : ledger'[i] = b
    BY <1>3
<1> QED
    BY <1>4, OtherLogs

\* An order and its stamp.
LEMMA PurchaseLogged ==
    ASSUME LedgerInv, NEW p \in DOMAIN PRODUCT_CATALOG,
           NEW via \in {"ucp", "mcp", "pipeline"}, NEW amount \in Int,
           NEW approved \in BOOLEAN,
           add_audit_log(PurchaseAction[via], p, TRUE),
           execute_order_checkout(via, p, amount, approved)
    PROVE  LedgerInv'
<1>1. PICK T : ledger \in Seq(T)
    BY DEF LedgerInv
<1>2. PICK b, S : b = Block(PurchaseAction[via], p, TRUE) /\ S = T \union {b}
    OBVIOUS
<1>3. ledger \in Seq(S) /\ b \in S
  <2>1. T \subseteq S /\ b \in S
      BY <1>2
  <2>2. \A i \in 1 .. Len(ledger) : ledger[i] \in S
      BY <1>1, <2>1
  <2>3. Len(ledger) \in Nat /\ ledger = [i \in 1 .. Len(ledger) |-> ledger[i]]
      BY <1>1
  <2> QED
      BY <2>1, <2>2, <2>3
<1>4. PICK k \in Nat : k = Len(ledger) + 1
    BY <1>1
<1>5. /\ ledger' \in Seq(S)
      /\ DOMAIN ledger = 1 .. k - 1 /\ DOMAIN ledger' = 1 .. k
      /\ \A i \in 1 .. k - 1 : ledger'[i] = ledger[i]
      /\ ledger'[k] = b /\ Len(ledger') = k
  <2>1. ledger' = Append(ledger, b)
      BY <1>2 DEF add_audit_log
  <2>2. Len(ledger) \in Nat /\ Len(ledger) = k - 1 /\ DOMAIN ledger = 1 .. Len(ledger)
      BY <1>3, <1>4
  <2>3. ledger' \in Seq(S) /\ Len(ledger') = Len(ledger) + 1
      BY <1>3, <2>1
  <2>4. Len(ledger') = k /\ DOMAIN ledger' = 1 .. k
      BY <1>4, <2>3
  <2>5. \A i \in 1 .. Len(ledger) : ledger'[i] = ledger[i]
      BY <1>3, <2>1
  <2>6. ledger'[Len(ledger) + 1] = b
      BY <1>3, <2>1
  <2> QED
      BY <1>4, <2>2, <2>3, <2>4, <2>5, <2>6
<1>6. b.action_type = PurchaseAction[via] /\ b.about = p
    BY <1>2 DEF Block
<1>7. PICK x : x = NewOrder(via, p, amount, approved)
    OBVIOUS
<1>8. x \in EngineOrders /\ x.block = k /\ x.product = p /\ x.via = via
    BY <1>5, <1>7 DEF NewOrder, EngineOrders
<1>9. PICK n \in Nat : n = Len(placed) + 1
    BY DEF LedgerInv
<1>10. /\ placed' \in Seq(EngineOrders)
       /\ DOMAIN placed = 1 .. n - 1 /\ DOMAIN placed' = 1 .. n
       /\ \A o \in 1 .. n - 1 : placed'[o] = placed[o]
       /\ placed'[n] = x
    BY <1>7, <1>8, <1>9 DEF LedgerInv, execute_order_checkout
<1>11. OrdersAreStamped'
  <2> SUFFICES ASSUME NEW o \in DOMAIN placed'
               PROVE  /\ placed'[o].block \in DOMAIN ledger'
                      /\ ledger'[placed'[o].block].action_type = PurchaseAction[placed'[o].via]
                      /\ ledger'[placed'[o].block].about = placed'[o].product
                      /\ \A later \in DOMAIN placed' :
                            o < later => placed'[o].block < placed'[later].block
      BY DEF OrdersAreStamped
  <2>1. CASE o = n
    <3>1. \A later \in DOMAIN placed' : ~(n < later)
        BY <1>9, <1>10
    <3>2. k \in DOMAIN ledger'
        BY <1>4, <1>5
    <3> QED
        BY <1>5, <1>6, <1>8, <1>10, <2>1, <3>1, <3>2
  <2>2. CASE o # n
    <3>1. o \in DOMAIN placed
        BY <1>9, <1>10, <2>2
    <3>2. /\ placed[o].block \in DOMAIN ledger
          /\ ledger[placed[o].block].action_type = PurchaseAction[placed[o].via]
          /\ ledger[placed[o].block].about = placed[o].product
          /\ \A later \in DOMAIN placed :
                o < later => placed[o].block < placed[later].block
        BY <3>1 DEF LedgerInv, OrdersAndLedgerAgree, OrdersAreStamped
    <3>3. placed[o].block < k /\ placed[o].block \in DOMAIN ledger'
        BY <1>4, <1>5, <3>2
    <3>4. \A later \in DOMAIN placed' : later \in DOMAIN placed \/ later = n
        BY <1>9, <1>10
    <3>5. placed'[o] = placed[o] /\ ledger'[placed[o].block] = ledger[placed[o].block]
        BY <1>5, <1>10, <3>1, <3>2
    <3>6. \A later \in DOMAIN placed : placed'[later] = placed[later]
        BY <1>10
    <3> QED
        BY <1>8, <1>10, <3>2, <3>3, <3>4, <3>5, <3>6
  <2> QED
      BY <2>1, <2>2
<1>12. StampsAreOfOrders'
  <2> SUFFICES ASSUME NEW i \in DOMAIN ledger',
                      ledger'[i].action_type \in SettledActions
               PROVE  \E o \in DOMAIN placed' : placed'[o].block = i
      BY DEF StampsAreOfOrders
  <2>1. CASE i = k
    <3>1. n \in DOMAIN placed'
        BY <1>9, <1>10
    <3> QED
        BY <1>8, <1>10, <2>1, <3>1
  <2>2. CASE i # k
    <3>1. i \in DOMAIN ledger /\ ledger'[i] = ledger[i]
        BY <1>4, <1>5, <2>2
    <3>2. PICK o \in DOMAIN placed : placed[o].block = i
        BY <3>1 DEF LedgerInv, OrdersAndLedgerAgree, StampsAreOfOrders
    <3>3. o \in DOMAIN placed' /\ placed'[o] = placed[o]
        BY <1>9, <1>10
    <3> QED
        BY <3>2, <3>3
  <2> QED
      BY <2>1, <2>2
<1> QED
    BY <1>5, <1>10, <1>11, <1>12 DEF LedgerInv, OrdersAndLedgerAgree

\* One step of the engine's callers and of the trust layer.
LEMMA EngineStep ==
    ASSUME BasketInv, LedgerInv, StagedNext
    PROVE  BasketInv' /\ LedgerInv'
<1>0. placed \in Seq(EngineOrders)
    BY DEF LedgerInv
<1>1. CASE SetPolicy
  <2>1. PICK new \in Policies : update_policy(new) /\ UNCHANGED <<basket, placed, stage>>
      BY <1>1 DEF SetPolicy
  <2>2. PICK b : b = Block("POLICY_UPDATE", "", TRUE)
      OBVIOUS
  <2>3. b.action_type = "POLICY_UPDATE"
      BY <2>2 DEF Block
  <2>4. ledger' = Append(ledger, b)
      BY <2>1, <2>2 DEF update_policy, add_audit_log
  <2> QED
      BY <1>0, <2>1, <2>3, <2>4, BasketsStay, OneOtherLog, UnchangedStamps, SettledNames
<1>2. CASE OtherLogging
  <2>1. /\ \/ \E suspicious \in BOOLEAN : sanitize_merchant_content(suspicious)
           \/ \E action \in RecoveryActions : simulate_recovery(action)
        /\ UNCHANGED <<basket, placed, stage>>
      BY <1>2 DEF OtherLogging
  <2>2. PICK a \in RecoveryActions \union {"INJECTION_BLOCKED"} :
           add_audit_log(a, "", TRUE)
      BY <2>1 DEF sanitize_merchant_content, simulate_recovery
  <2>3. PICK b : b = Block(a, "", TRUE)
      OBVIOUS
  <2>4. b.action_type = a
      BY <2>3 DEF Block
  <2>5. ledger' = Append(ledger, b)
      BY <2>2, <2>3 DEF add_audit_log
  <2>6. a \notin SettledActions
      BY SettledNames DEF RecoveryActions
  <2> QED
      BY <1>0, <2>1, <2>4, <2>5, <2>6, BasketsStay, OneOtherLog, UnchangedStamps
<1>3. CASE execute_ucp_checkout
  <2>1. FirstProduct \in DOMAIN PRODUCT_CATALOG
      BY DEF FirstProduct, PRODUCT_CATALOG
  <2>2. Price(FirstProduct) \in Int
      BY <2>1, CatalogueTypes
  <2>3. PurchaseAction["ucp"] = "CHECKOUT_EXECUTED"
      BY DEF PurchaseAction
  <2> QED
      BY <1>3, <2>1, <2>2, <2>3, BasketsStay, PurchaseLogged DEF execute_ucp_checkout
<1>4. ASSUME NEW c \in CartIds, NEW p \in Wanted, NEW n \in Quantities,
             generate_ucp_quote(c, p, n)
      PROVE  BasketInv' /\ LedgerInv'
  <2>1. n \in Int
      BY QuantitiesAssumption
  <2>2. BasketInv'
      BY <1>4, <2>1, BasketAdded DEF generate_ucp_quote
  <2>3. PICK verified : add_audit_log("QUOTE_GENERATED", p, verified)
      BY <1>4 DEF generate_ucp_quote
  <2>4. PICK b : b = Block("QUOTE_GENERATED", p, verified)
      OBVIOUS
  <2>5. b.action_type = "QUOTE_GENERATED"
      BY <2>4 DEF Block
  <2>6. ledger' = Append(ledger, b) /\ UNCHANGED placed
      BY <1>4, <2>3, <2>4 DEF add_audit_log, generate_ucp_quote
  <2> QED
      BY <1>0, <2>2, <2>5, <2>6, OneOtherLog, UnchangedStamps, SettledNames
<1>5. ASSUME NEW c \in CartIds, NEW p \in Wanted, remove_from_cart(c, p)
      PROVE  BasketInv' /\ LedgerInv'
  <2>1. PICK items : items = Without(basket[c].items, p)
      OBVIOUS
  <2>2. items \in Seq(PricedLines)
      BY <2>1, WithoutKeepsPrices DEF BasketInv
  <2>3. basket' = [basket EXCEPT ![c] = Totalled(items)] /\ UNCHANGED <<placed, ledger>>
      BY <1>5, <2>1 DEF remove_from_cart
  <2> QED
      BY <2>2, <2>3, BasketTotalled, LedgerStays
<1>6. ASSUME NEW c \in CartIds, clear_cart(c) PROVE BasketInv' /\ LedgerInv'
    BY <1>6, EmptyTotals, BasketTotalled, LedgerStays DEF clear_cart
<1>7. ASSUME NEW c \in CartIds, NEW p \in Wanted, execute_plan(c, p)
      PROVE  BasketInv' /\ LedgerInv'
    BY <1>7, BasketAdded, LedgerStays DEF execute_plan
<1>8. ASSUME NEW p \in Wanted, ExecuteCheckoutTool(p) PROVE BasketInv' /\ LedgerInv'
  <2>1. p \in DOMAIN PRODUCT_CATALOG /\ Price(p) \in Int
      BY WantedAssumption, CatalogueTypes
  <2>2. PurchaseAction["mcp"] = "MCP_TOOL_CHECKOUT"
      BY DEF PurchaseAction
  <2>3. CASE execute_order_checkout("mcp", p, Price(p), FALSE)
      BY <1>8, <2>1, <2>2, <2>3, BasketsStay, PurchaseLogged DEF ExecuteCheckoutTool
  <2>4. CASE UNCHANGED placed
    <3>1. PICK b : b = Block("MCP_TOOL_CHECKOUT", p, TRUE)
        OBVIOUS
    <3>2. b.action_type = "MCP_TOOL_CHECKOUT"
        BY <3>1 DEF Block
    <3>3. ledger' = Append(ledger, b) /\ UNCHANGED basket
        BY <1>8, <3>1 DEF add_audit_log, ExecuteCheckoutTool
    <3> QED
        BY <1>0, <2>4, <3>2, <3>3, BasketsStay, OneOtherLog, UnchangedStamps, SettledNames
  <2> QED
      BY <1>8, <2>3, <2>4 DEF ExecuteCheckoutTool
<1>9. ASSUME NEW o \in DOMAIN placed, return_ucp_order(o) PROVE BasketInv' /\ LedgerInv'
  <2>1. PICK x : x = [placed[o] EXCEPT !.order_status = "RETURN_REQUESTED"]
      OBVIOUS
  <2>2. x \in EngineOrders /\ SameStamp(x, placed[o])
    <3>1. placed[o] \in EngineOrders
        BY <1>0
    <3> QED
        BY <2>1, <3>1 DEF EngineOrders, SameStamp
  <2>3. placed' = [placed EXCEPT ![o] = x]
      BY <1>9, <2>1 DEF return_ucp_order, process_return_request
  <2>4. PICK b : b = Block("RETURN_REQUESTED", placed[o].product, TRUE)
      OBVIOUS
  <2>5. b.action_type = "RETURN_REQUESTED"
      BY <2>4 DEF Block
  <2>6. ledger' = Append(ledger, b) /\ UNCHANGED basket
      BY <1>9, <2>4 DEF add_audit_log, return_ucp_order
  <2>7. /\ placed' \in Seq(EngineOrders) /\ DOMAIN placed' = DOMAIN placed
        /\ \A i \in DOMAIN placed : SameStamp(placed'[i], placed[i])
      BY <1>0, <2>2, <2>3 DEF SameStamp
  <2> QED
      BY <2>5, <2>6, <2>7, BasketsStay, OneOtherLog, SettledNames
<1>10. ASSUME NEW o \in DOMAIN placed, update_order_status(o) PROVE BasketInv' /\ LedgerInv'
  <2>1. PICK x : x = [placed[o] EXCEPT !.order_status = "SHIPPED"]
      OBVIOUS
  <2>2. x \in EngineOrders /\ SameStamp(x, placed[o])
    <3>1. placed[o] \in EngineOrders
        BY <1>0
    <3> QED
        BY <2>1, <3>1 DEF EngineOrders, SameStamp
  <2>3. placed' = [placed EXCEPT ![o] = x] /\ UNCHANGED <<basket, ledger>>
      BY <1>10, <2>1 DEF update_order_status
  <2>4. /\ placed' \in Seq(EngineOrders) /\ DOMAIN placed' = DOMAIN placed
        /\ \A i \in DOMAIN placed : SameStamp(placed'[i], placed[i])
      BY <1>0, <2>2, <2>3 DEF SameStamp
  <2>5. PICK S : ledger \in Seq(S)
      BY DEF LedgerInv
  <2>6. Len(ledger) <= Len(ledger)
      BY <2>5
  <2> QED
      BY <2>3, <2>4, <2>5, <2>6, BasketsStay, OtherLogs
<1>11. ASSUME NEW s \in SessionIds, NEW pick \in Wanted \union {None},
              NEW budget \in Budgets, NEW suspicious \in BOOLEAN,
              process_request(s, pick, budget, suspicious)
       PROVE  BasketInv' /\ LedgerInv'
  <2>1. PICK b1, b2 :
           /\ ledger' = ledger \o scan_for_prompt_injection(suspicious) \o <<b2>>
           /\ b1 = Block("INJECTION_BLOCKED", "", FALSE)
           /\ b2 = Evaluation(pick, budget)
      BY <1>11 DEF process_request
  <2>2. b1.action_type = "INJECTION_BLOCKED" /\ b2.action_type = "SUPERVISOR_EVALUATE"
      BY <2>1 DEF Block, Evaluation
  <2>3. UNCHANGED <<basket, placed>>
      BY <1>11 DEF process_request
  <2>4. PICK T, S : ledger \in Seq(T) /\ S = T \union {b1, b2}
      BY DEF LedgerInv
  <2>5. ledger \in Seq(S) /\ b1 \in S /\ b2 \in S
    <3>1. T \subseteq S /\ b1 \in S /\ b2 \in S
        BY <2>4
    <3>2. \A i \in 1 .. Len(ledger) : ledger[i] \in S
        BY <2>4, <3>1
    <3>3. Len(ledger) \in Nat /\ ledger = [i \in 1 .. Len(ledger) |-> ledger[i]]
        BY <2>4
    <3> QED
        BY <3>1, <3>2, <3>3
  <2>6. PICK more : /\ more \in Seq({b1}) /\ ledger' = (ledger \o more) \o <<b2>>
                    /\ more = << >> \/ more = <<b1>>
    <3>1. \/ scan_for_prompt_injection(suspicious) = << >>
          \/ scan_for_prompt_injection(suspicious) = <<b1>>
        BY <2>1 DEF scan_for_prompt_injection
    <3>2. << >> \in Seq({b1}) /\ <<b1>> \in Seq({b1})
        OBVIOUS
    <3>3. PICK more : /\ more = scan_for_prompt_injection(suspicious)
                      /\ ledger' = (ledger \o more) \o <<b2>>
        BY <2>1
    <3> QED
        BY <3>1, <3>2, <3>3
  <2>7. /\ ledger' \in Seq(S)
        /\ Len(ledger) <= Len(ledger')
        /\ \A i \in DOMAIN ledger : ledger'[i] = ledger[i]
        /\ \A i \in DOMAIN ledger' \ DOMAIN ledger : ledger'[i] \in {b1, b2}
    <3>1. CASE more = << >>
        BY <2>5, <2>6, <3>1
    <3>2. CASE more = <<b1>>
        BY <2>5, <2>6, <3>2
    <3> QED
        BY <2>6, <3>1, <3>2
  <2>8. \A i \in DOMAIN ledger' \ DOMAIN ledger : ledger'[i].action_type \notin SettledActions
      BY <2>2, <2>7, SettledNames
  <2> QED
      BY <1>0, <2>3, <2>7, <2>8, BasketsStay, OtherLogs, UnchangedStamps
<1>12. ASSUME NEW s \in SessionIds, NEW c \in CartIds, NEW p \in Wanted,
              NEW confirmed \in BOOLEAN, RefuseCheckout(s, c, p, confirmed)
       PROVE  BasketInv' /\ LedgerInv'
    BY <1>12, BasketAdded, LedgerStays DEF RefuseCheckout
<1>13. ASSUME NEW s \in SessionIds, NEW c \in CartIds, NEW p \in Wanted,
              NEW confirmed \in BOOLEAN, CompleteCheckout(s, c, p, confirmed)
       PROVE  BasketInv' /\ LedgerInv'
  <2>1. BasketInv' /\ QuotedAmount(c) \in Int
      BY <1>13, BasketAdded DEF CompleteCheckout, QuotedAmount
  <2>2. PICK amount \in Int : execute_order_checkout("pipeline", p, amount, confirmed)
      BY <1>13, <2>1 DEF CompleteCheckout
  <2>3. add_audit_log("EXECUTE_PURCHASE", p, TRUE)
      BY <1>13 DEF CompleteCheckout, Stamp
  <2>4. PurchaseAction["pipeline"] = "EXECUTE_PURCHASE" /\ p \in DOMAIN PRODUCT_CATALOG
      BY WantedAssumption DEF PurchaseAction
  <2> QED
      BY <2>1, <2>2, <2>3, <2>4, PurchaseLogged
<1> QED
    BY <1>1, <1>2, <1>3, <1>4, <1>5, <1>6, <1>7, <1>8, <1>9, <1>10, <1>11, <1>12, <1>13
       DEF StagedNext

-----------------------------------------------------------------------------
(* The delegated authority                                                 *)

AuthInv ==
    /\ rules = [k \in DOMAIN rules |-> rules[k]]
    /\ \A k \in DOMAIN rules : rules[k] \in CategoryRule
    /\ tokens \in Seq(Mandates)

\* What MandatesKeepToTheRules says of a step.
MandatesKept ==
    /\ \A t \in DOMAIN tokens' \ DOMAIN tokens :
        LET token == tokens'[t]
            rule  == RuleFor(token.category)
        IN  /\ token.amount <= HARD_SINGLE_TRANSACTION_CEILING
            /\ token.amount <= rule.hard_block_above
            /\ token.confirmed \/ token.amount <= rule.auto_approve_max
            /\ ~token.used
    /\ \A t \in DOMAIN tokens \intersect DOMAIN tokens' :
        /\ tokens'[t].amount = tokens[t].amount
        /\ tokens[t].used => tokens'[t].used

LEMMA FirstRules ==
    /\ CategoryRules = [k \in DOMAIN CategoryRules |-> CategoryRules[k]]
    /\ \A k \in DOMAIN CategoryRules : CategoryRules[k] \in CategoryRule
<1>1. CategoryRules = [k \in DOMAIN CategoryRules |-> CategoryRules[k]]
    BY DEF CategoryRules
<1>2. \A k \in DOMAIN CategoryRules : CategoryRules[k] \in CategoryRule
    BY DEF CategoryRules, Rule, CategoryRule
<1> QED
    BY <1>1, <1>2

LEMMA RuleTypes ==
    ASSUME AuthInv, NEW category
    PROVE  /\ RuleFor(category).hard_block_above \in Int
           /\ RuleFor(category).auto_approve_max \in Int
<1>1. GeneralGoods \in CategoryRule
    BY DEF GeneralGoods, Rule, CategoryRule
<1>2. RuleFor(category) \in CategoryRule
    BY <1>1 DEF RuleFor, AuthInv
<1> QED
    BY <1>2 DEF CategoryRule

LEMMA AuthorityStays ==
    ASSUME AuthInv, UNCHANGED <<rules, tokens>>
    PROVE  AuthInv' /\ MandatesKept
<1>1. AuthInv'
    BY DEF AuthInv
<1>2. MandatesKept
    BY DEF MandatesKept
<1> QED
    BY <1>1, <1>2

\* An approval is within both ceilings, and confirmed above the limit.
LEMMA ApprovalKeepsRules ==
    ASSUME AuthInv, NEW category, NEW amount \in Int, NEW confirmed \in BOOLEAN,
           Decision(category, amount, confirmed) = "AUTO_APPROVE"
    PROVE  /\ amount <= HARD_SINGLE_TRANSACTION_CEILING
           /\ amount <= RuleFor(category).hard_block_above
           /\ confirmed \/ amount <= RuleFor(category).auto_approve_max
<1>1. PICK hard \in Int, auto \in Int, most \in Int :
         /\ hard = RuleFor(category).hard_block_above
         /\ auto = RuleFor(category).auto_approve_max
         /\ most = HARD_SINGLE_TRANSACTION_CEILING
  <2>1. HARD_SINGLE_TRANSACTION_CEILING \in Int
      BY SMT DEF HARD_SINGLE_TRANSACTION_CEILING
  <2> QED
      BY <2>1, RuleTypes
<1>2. ~(amount > most \/ amount > hard) /\ (amount <= auto \/ confirmed)
    BY <1>1 DEF Decision
<1>3. amount <= most /\ amount <= hard
    BY <1>2
<1> QED
    BY <1>1, <1>2, <1>3

\* One step of the authority.
LEMMA AuthorityStep ==
    ASSUME AuthInv, LedgerInv, UNCHANGED placed, AuthorityNext
    PROVE  AuthInv' /\ LedgerInv' /\ MandatesKept
<1>1. ASSUME NEW category \in Categories, NEW amount \in Amounts, NEW confirmed \in BOOLEAN,
             evaluate_transaction(category, amount, confirmed)
      PROVE  AuthInv' /\ LedgerInv' /\ MandatesKept
  <2>1. PICK x : x = [category |-> category, amount |-> amount,
                      used |-> FALSE, confirmed |-> confirmed]
      OBVIOUS
  <2>2. tokens' = Append(tokens, x) /\ UNCHANGED <<rules, ledger>>
      BY <1>1, <2>1 DEF evaluate_transaction, issue_delegated_auth_token
  <2>3. /\ x \in Mandates /\ x.category = category /\ x.amount = amount
        /\ x.used = FALSE /\ x.confirmed = confirmed
      BY <2>1 DEF Mandates
  <2>4. /\ amount <= HARD_SINGLE_TRANSACTION_CEILING
        /\ amount <= RuleFor(category).hard_block_above
        /\ confirmed \/ amount <= RuleFor(category).auto_approve_max
      BY <1>1, AmountsAssumption, ApprovalKeepsRules DEF evaluate_transaction
  <2>5. /\ tokens' \in Seq(Mandates)
        /\ \A t \in DOMAIN tokens : tokens'[t] = tokens[t]
        /\ \A t \in DOMAIN tokens' \ DOMAIN tokens : tokens'[t] = x
      BY <2>2, <2>3 DEF AuthInv
  <2>6. AuthInv'
      BY <2>2, <2>5 DEF AuthInv
  <2>7. MandatesKept
      BY <2>3, <2>4, <2>5 DEF MandatesKept
  <2> QED
      BY <2>2, <2>6, <2>7, LedgerStays
<1>2. ASSUME NEW category \in Categories, NEW rule \in NewRules,
             update_category_rule(category, rule)
      PROVE  AuthInv' /\ LedgerInv' /\ MandatesKept
  <2>1. rule \in CategoryRule
      BY NewRulesAssumption
  <2>2. /\ rules' = [k \in DOMAIN rules \union {category} |->
                       IF k = category THEN rule ELSE rules[k]]
        /\ UNCHANGED <<tokens, ledger>>
      BY <1>2 DEF update_category_rule
  <2>3. AuthInv'
      BY <2>1, <2>2 DEF AuthInv
  <2>4. MandatesKept
      BY <2>2 DEF MandatesKept
  <2> QED
      BY <2>2, <2>3, <2>4, LedgerStays
<1>3. ASSUME NEW t \in DOMAIN tokens, execute_sandbox_charge(t)
      PROVE  AuthInv' /\ LedgerInv' /\ MandatesKept
  <2>1. tokens[t] \in Mandates
      BY DEF AuthInv
  <2>2. PICK x : x = Used(tokens[t])
      OBVIOUS
  <2>3. x \in Mandates /\ x.amount = tokens[t].amount /\ x.used
      BY <2>1, <2>2 DEF Used, Mandates
  <2>4. tokens' = [tokens EXCEPT ![t] = x] /\ UNCHANGED <<rules, ledger>>
      BY <1>3, <2>2 DEF execute_sandbox_charge
  <2>5. /\ tokens' \in Seq(Mandates) /\ DOMAIN tokens' = DOMAIN tokens
        /\ \A s \in DOMAIN tokens : tokens'[s] = IF s = t THEN x ELSE tokens[s]
      BY <2>3, <2>4 DEF AuthInv
  <2>6. AuthInv'
      BY <2>4, <2>5 DEF AuthInv
  <2>7. MandatesKept
      BY <2>3, <2>5 DEF MandatesKept
  <2> QED
      BY <2>4, <2>6, <2>7, LedgerStays
<1>4. ASSUME NEW role \in DOMAIN TOOL_PERMISSION_MATRIX, NEW tool \in Tools,
             check_permission(role, tool)
      PROVE  AuthInv' /\ LedgerInv' /\ MandatesKept
  <2>1. PICK category : add_audit_log("UNAUTHORIZED_TOOL_BLOCKED", category, TRUE)
      BY <1>4 DEF check_permission, Refuse
  <2>2. PICK b : b = Block("UNAUTHORIZED_TOOL_BLOCKED", category, TRUE)
      OBVIOUS
  <2>3. b.action_type = "UNAUTHORIZED_TOOL_BLOCKED"
      BY <2>2 DEF Block
  <2>4. ledger' = Append(ledger, b)
      BY <2>1, <2>2 DEF add_audit_log
  <2>5. placed' \in Seq(EngineOrders)
      BY DEF LedgerInv
  <2>6. LedgerInv'
      BY <2>3, <2>4, <2>5, OneOtherLog, UnchangedStamps, SettledNames
  <2>7. UNCHANGED <<rules, tokens>>
      BY <1>4 DEF check_permission
  <2> QED
      BY <2>6, <2>7, AuthorityStays
<1> QED
    BY <1>1, <1>2, <1>3, <1>4 DEF AuthorityNext

-----------------------------------------------------------------------------
(* Orders and the policy in force                                          *)

\* What PolicyBeforePurchase says of an order of this step.
Allowed(order) ==
    LET product == PRODUCT_CATALOG[order.product]
    IN  /\ order.via \in {"ucp", "pipeline"} =>
             /\ product.price <= policy.ceiling
             /\ product.merchant \notin policy.blocked
        /\ order.via = "pipeline" /\ product.price >= policy.threshold
             => order.approved

NewOrdersAllowed == \A o \in DOMAIN placed' \ DOMAIN placed : Allowed(placed'[o])

\* What passed the evaluation without a budget, keeps to the policy.
LEMMA PassedIsAllowed ==
    ASSUME NEW product, evaluate_spending_policy(product, None).passed
    PROVE  product.price <= policy.ceiling /\ product.merchant \notin policy.blocked
BY DEF evaluate_spending_policy

LEMMA NoOrderPlaced ==
    ASSUME DOMAIN placed' = DOMAIN placed
    PROVE  NewOrdersAllowed
BY DEF NewOrdersAllowed

LEMMA OneOrderPlaced ==
    ASSUME placed \in Seq(EngineOrders), NEW via, NEW p, NEW amount, NEW approved,
           execute_order_checkout(via, p, amount, approved),
           /\ via \in {"ucp", "pipeline"} =>
                /\ PRODUCT_CATALOG[p].price <= policy.ceiling
                /\ PRODUCT_CATALOG[p].merchant \notin policy.blocked
           /\ via = "pipeline" /\ PRODUCT_CATALOG[p].price >= policy.threshold => approved
    PROVE  NewOrdersAllowed
<1>1. PICK x : x = NewOrder(via, p, amount, approved)
    OBVIOUS
<1>2. x.via = via /\ x.product = p /\ x.approved = approved
    BY <1>1 DEF NewOrder
<1>3. placed' = Append(placed, x)
    BY <1>1 DEF execute_order_checkout
<1>4. \A o \in DOMAIN placed' \ DOMAIN placed : placed'[o] = x
  <2>1. PICK S : S = EngineOrders \union {x}
      OBVIOUS
  <2>2. placed \in Seq(S) /\ x \in S
      BY <2>1
  <2> QED
      BY <1>3, <2>2
<1>5. Allowed(x)
    BY <1>2 DEF Allowed
<1> QED
    BY <1>4, <1>5 DEF NewOrdersAllowed

LEMMA EngineAllows ==
    ASSUME placed \in Seq(EngineOrders), StagedNext
    PROVE  NewOrdersAllowed
<1>1. CASE execute_ucp_checkout
  <2>1. /\ PRODUCT_CATALOG[FirstProduct].price <= policy.ceiling
        /\ PRODUCT_CATALOG[FirstProduct].merchant \notin policy.blocked
      BY <1>1, PassedIsAllowed DEF execute_ucp_checkout, UcpAllows
  <2>2. execute_order_checkout("ucp", FirstProduct, Price(FirstProduct), FALSE)
      BY <1>1 DEF execute_ucp_checkout
  <2> QED
      BY <2>1, <2>2, OneOrderPlaced
<1>2. ASSUME NEW p \in Wanted, ExecuteCheckoutTool(p) PROVE NewOrdersAllowed
  <2>1. \/ execute_order_checkout("mcp", p, Price(p), FALSE)
        \/ UNCHANGED placed
      BY <1>2 DEF ExecuteCheckoutTool
  <2> QED
      BY <2>1, OneOrderPlaced, NoOrderPlaced
<1>3. ASSUME NEW s \in SessionIds, NEW c \in CartIds, NEW p \in Wanted,
             NEW confirmed \in BOOLEAN, CompleteCheckout(s, c, p, confirmed)
      PROVE  NewOrdersAllowed
  <2>1. /\ PRODUCT_CATALOG[p].price <= policy.ceiling
        /\ PRODUCT_CATALOG[p].merchant \notin policy.blocked
      BY <1>3, PassedIsAllowed DEF CompleteCheckout, Granted, Check
  <2>2. PRODUCT_CATALOG[p].price >= policy.threshold => confirmed
      BY <1>3 DEF CompleteCheckout, Granted, Check, evaluate_spending_policy
  <2>3. execute_order_checkout("pipeline", p, QuotedAmount(c), confirmed)
      BY <1>3 DEF CompleteCheckout
  <2> QED
      BY <2>1, <2>2, <2>3, OneOrderPlaced
<1>4. \/ SetPolicy
      \/ OtherLogging
      \/ execute_ucp_checkout
      \/ \E p \in Wanted : ExecuteCheckoutTool(p)
      \/ \E s \in SessionIds, c \in CartIds, p \in Wanted, confirmed \in BOOLEAN :
            CompleteCheckout(s, c, p, confirmed)
      \/ UNCHANGED placed
      \/ DOMAIN placed' = DOMAIN placed
    BY DEF StagedNext, generate_ucp_quote, remove_from_cart, execute_plan, clear_cart,
           process_request, RefuseCheckout, return_ucp_order, process_return_request,
           update_order_status
<1>5. SetPolicy \/ OtherLogging => UNCHANGED placed
    BY DEF SetPolicy, OtherLogging
<1> QED
    BY <1>1, <1>2, <1>3, <1>4, <1>5, NoOrderPlaced

-----------------------------------------------------------------------------
(* All stores together                                                     *)

CommerceInv == ShopInv /\ BasketInv /\ LedgerInv /\ AuthInv

LEMMA CommerceStarts ==
    ASSUME CommerceInit
    PROVE  CommerceInv
<1>1. ShopInv
    BY DEF CommerceInit, SimulatorInit, ShopInv
<1>2. BasketInv
    BY BasketInit DEF CommerceInit, StagedInit, BasketInv
<1>3. LedgerInv
  <2>1. placed = << >>
      BY DEF CommerceInit, StagedInit
  <2>2. PICK b : b = Block("SYSTEM_INIT", "", TRUE)
      OBVIOUS
  <2>3. b.action_type = "SYSTEM_INIT"
      BY <2>2 DEF Block
  <2>4. ledger = <<b>>
      BY <2>2 DEF CommerceInit, StagedInit, TrustInit
  <2>5. ledger \in Seq({b}) /\ \A i \in DOMAIN ledger : ledger[i] = b
      BY <2>4
  <2>6. \A i \in DOMAIN ledger : ledger[i].action_type \notin SettledActions
      BY <2>3, <2>5, SettledNames
  <2>7. OrdersAndLedgerAgree
      BY <2>1, <2>6 DEF OrdersAndLedgerAgree, OrdersAreStamped, StampsAreOfOrders
  <2> QED
      BY <2>1, <2>5, <2>7 DEF LedgerInv
<1>4. AuthInv
    BY FirstRules DEF CommerceInit, AuthorityInit, AuthInv
<1> QED
    BY <1>1, <1>2, <1>3, <1>4 DEF CommerceInv

\* A restart begins anew, and forgets everything.
LEMMA RestartStep ==
    ASSUME Restart
    PROVE  /\ CommerceInv'
           /\ orders' = [m \in Shops |-> << >>] /\ quotes' = orders' /\ carts' = orders'
           /\ NewOrdersAllowed
           /\ MandatesKept
<1>1. ShopInv'
  <2>1. \A m \in Shops : carts'[m] = << >> /\ quotes'[m] = << >> /\ orders'[m] = << >>
      BY DEF Restart
  <2>2. /\ carts' \in [Shops -> Seq(MerchantCarts)]
        /\ quotes' \in [Shops -> Seq(MerchantQuotes)]
        /\ orders' \in [Shops -> Seq(MerchantOrders)]
    <3>1. /\ carts' = [m \in Shops |-> << >>]
          /\ quotes' = [m \in Shops |-> << >>]
          /\ orders' = [m \in Shops |-> << >>]
        BY DEF Restart
    <3>2. \A S : << >> \in Seq(S)
        OBVIOUS
    <3> QED
        BY <3>1, <3>2
  <2> QED
      BY <2>1, <2>2 DEF ShopInv
<1>2. BasketInv'
    BY BasketInit DEF Restart, BasketInv
<1>3. LedgerInv'
  <2>1. placed' = << >>
      BY DEF Restart
  <2>2. PICK b : b = Block("SYSTEM_INIT", "", TRUE)
      OBVIOUS
  <2>3. b.action_type = "SYSTEM_INIT"
      BY <2>2 DEF Block
  <2>4. ledger' = <<b>>
      BY <2>2 DEF Restart
  <2>5. ledger' \in Seq({b}) /\ \A i \in DOMAIN ledger' : ledger'[i] = b
      BY <2>4
  <2>6. \A i \in DOMAIN ledger' : ledger'[i].action_type \notin SettledActions
      BY <2>3, <2>5, SettledNames
  <2>7. OrdersAndLedgerAgree'
      BY <2>1, <2>6 DEF OrdersAndLedgerAgree, OrdersAreStamped, StampsAreOfOrders
  <2> QED
      BY <2>1, <2>5, <2>7 DEF LedgerInv
<1>4. AuthInv'
  <2>1. rules' = CategoryRules /\ tokens' = << >>
      BY DEF Restart
  <2>2. << >> \in Seq(Mandates)
      OBVIOUS
  <2> QED
      BY <2>1, <2>2, FirstRules DEF AuthInv
<1>5. NewOrdersAllowed /\ MandatesKept
  <2>1. DOMAIN placed' = {} /\ DOMAIN tokens' = {}
    <3>1. placed' = << >> /\ tokens' = << >>
        BY DEF Restart
    <3>2. DOMAIN << >> = {}
        OBVIOUS
    <3> QED
        BY <3>1, <3>2
  <2> QED
      BY <2>1 DEF NewOrdersAllowed, MandatesKept
<1> QED
    BY <1>1, <1>2, <1>3, <1>4, <1>5 DEF CommerceInv, Restart

LEMMA CommerceStep ==
    ASSUME CommerceInv, [CommerceNext]_commerceVars
    PROVE  /\ CommerceInv'
           /\ \/ orders' = [m \in Shops |-> << >>] /\ quotes' = orders' /\ carts' = orders'
              \/ Keeps
           /\ NewOrdersAllowed
           /\ MandatesKept
<1>1. CASE Shopping
  <2>1. UNCHANGED <<basket, placed, ledger, rules, tokens>>
      BY <1>1 DEF Shopping
  <2>2. ShopInv' /\ Keeps
      BY <1>1, SimulatorStep, GatewayStep DEF CommerceInv, Shopping
  <2> QED
      BY <2>1, <2>2, BasketsStay, LedgerStays, AuthorityStays, NoOrderPlaced DEF CommerceInv
<1>2. CASE Engine
  <2>1. StagedNext /\ UNCHANGED <<carts, quotes, orders, rules, tokens>>
      BY <1>2 DEF Engine
  <2>2. BasketInv' /\ LedgerInv'
      BY <2>1, EngineStep DEF CommerceInv
  <2>3. NewOrdersAllowed
      BY <2>1, EngineAllows DEF CommerceInv, LedgerInv
  <2> QED
      BY <2>1, <2>2, <2>3, ShopsStay, AuthorityStays DEF CommerceInv, simVars
<1>3. CASE Authority
  <2>1. AuthorityNext /\ UNCHANGED <<carts, quotes, orders, basket, placed>>
      BY <1>3 DEF Authority
  <2>2. AuthInv' /\ LedgerInv' /\ MandatesKept
      BY <2>1, AuthorityStep DEF CommerceInv
  <2> QED
      BY <2>1, <2>2, ShopsStay, BasketsStay, NoOrderPlaced DEF CommerceInv, simVars
<1>4. CASE Restart
    BY <1>4, RestartStep
<1>5. CASE UNCHANGED commerceVars
  <2>1. UNCHANGED <<carts, quotes, orders, basket, placed, ledger, rules, tokens>>
      BY <1>5 DEF commerceVars
  <2> QED
      BY <2>1, ShopsStay, BasketsStay, LedgerStays, AuthorityStays, NoOrderPlaced
         DEF CommerceInv, simVars
<1> QED
    BY <1>1, <1>2, <1>3, <1>4, <1>5 DEF CommerceNext

LEMMA CommerceAlways == CommerceSpec => []CommerceInv
<1>1. CommerceInit => CommerceInv
    BY CommerceStarts
<1>2. CommerceInv /\ [CommerceNext]_commerceVars => CommerceInv'
    BY CommerceStep
<1> QED
    BY <1>1, <1>2, PTL DEF CommerceSpec

\* Every cart adds up, the merchants' and the engine's, whichever routes and
\* callers created, changed and left it: for any merchants of the tables,
\* quantities (negative ones too), clients and number of requests.
THEOREM CartsAddUpEverywhere == CommerceSpec => []EveryCartAddsUp
<1>1. CommerceInv => EveryCartAddsUp
    BY ShopCartsAddUp, BasketsAddUp DEF CommerceInv, EveryCartAddsUp
<1> QED
    BY <1>1, CommerceAlways, PTL

\* What an order of a merchant charges, is explained by one quantity and one
\* promotion, although carts are patched on either route between cart,
\* quote and payment.
THEOREM OrdersAreExplained == CommerceSpec => []ChargesAreExplained
<1>1. CommerceInv => ChargesAreExplained
    BY ShopChargesExplained DEF CommerceInv
<1> QED
    BY <1>1, CommerceAlways, PTL

\* The orders of the engine and the ledger of the trust layer tell one story,
\* whoever else writes to the ledger: every order has its own block, and every
\* block of the UCP router or the pipeline its order, though an MCP call may
\* fail between the two.
THEOREM LedgerTellsTheOrders == CommerceSpec => []OrdersAndLedgerAgree
<1>1. CommerceInv => OrdersAndLedgerAgree
    BY DEF CommerceInv, LedgerInv
<1> QED
    BY <1>1, CommerceAlways, PTL

\* No request of either route takes back or changes a settled order or its
\* quote; only a restart forgets, and then everything.
THEOREM SettledStays == CommerceSpec => SettledOrdersStay
<1>1. CommerceInv /\ [CommerceNext]_commerceVars =>
        \/ orders' = [m \in Shops |-> << >>] /\ quotes' = orders' /\ carts' = orders'
        \/ Keeps
    BY CommerceStep
<1>2. CommerceInv /\ [CommerceNext]_commerceVars =>
        [\/ orders' = [m \in Shops |-> << >>] /\ quotes' = orders' /\ carts' = orders'
         \/ Keeps]_simVars
    BY <1>1
<1> QED
    BY <1>2, CommerceAlways, PTL DEF CommerceSpec, SettledOrdersStay, Keeps

\* What the UCP router and the pipeline order, the policy of that moment
\* allows; what the pipeline orders from the threshold on, was confirmed.
THEOREM PurchasesAreAllowed == CommerceSpec => PolicyBeforePurchase
<1>1. CommerceInv /\ [CommerceNext]_commerceVars => [NewOrdersAllowed]_stagedVars
    BY CommerceStep
<1> QED
    BY <1>1, CommerceAlways, PTL
       DEF CommerceSpec, PolicyBeforePurchase, NewOrdersAllowed, Allowed

\* Every new mandate keeps to both ceilings and to the automatic limit of its
\* moment; later rules and charges leave it alone.
THEOREM MandatesAreKept == CommerceSpec => MandatesKeepToTheRules
<1>1. CommerceInv /\ [CommerceNext]_commerceVars => [MandatesKept]_authVars
    BY CommerceStep
<1> QED
    BY <1>1, CommerceAlways, PTL DEF CommerceSpec, MandatesKeepToTheRules, MandatesKept
=============================================================================
