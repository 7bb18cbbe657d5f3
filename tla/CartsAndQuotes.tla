--------------------------- MODULE CartsAndQuotes ---------------------------
(***************************************************************************)
(* CartService and CheckoutService.prepare_checkout on one database.  No   *)
(* handler takes a lock: each reads what it needs in one transaction step  *)
(* and commits what it computed from that in a later one.  The cart's      *)
(* discount, shipping and tax are always zero, so its grand total is its   *)
(* subtotal; the totals of a line are recomputed by every reader.          *)
(***************************************************************************)
EXTENDS Pricing, FiniteSets, FiniteSetsExt

CONSTANTS
    Clients,      \* session ids of the callers
    Workers,      \* request threads
    CartIds, QuoteIds, Keys,
    MaxLines,     \* how many cart lines are ever inserted
    Products,
    MerchantOf,   \* MerchantOf[p]: ProductModel.merchant_id
    Prices,       \* prices in paise that a product may get
    StockLevels,  \* values of available_quantity
    Options,      \* the rows of shipping_options
    Promos,       \* the rows of discounts
    FirstCarts,   \* the carts there are at the start
    Requests,     \* what callers ask for
    Events        \* what else happens: "price", "active", "stock", "merchant", "day"

MaxQuantity == 100
LineIds == 1..MaxLines

CartRows  == [merchant : Merchants, session : Clients \union {None}, subtotal : Nat]
LineRows  == [cart : CartIds, product : Products, quantity : 1..MaxQuantity, price : Nat]
ItemRows  == [product : Products, quantity : Nat, price : Nat]
\* The quotes of the lines ids.
QuoteRows(ids) ==
    [cart : CartIds, merchant : Merchants, session : Clients \union {None},
     items : [ids -> ItemRows],
     subtotal : Nat, discount : Nat, shipping : Nat, tax : Nat, total : Nat,
     option : Codes \union {None}]
IsQuote(x) == \E ids \in SUBSET LineIds : x \in QuoteRows(ids)

CreateRequests == [op : {"create"}, merchant : Merchants, session : Clients \union {None}]
AddRequests    == [op : {"add"}, cart : CartIds, product : Products, quantity : Nat]
UpdateRequests == [op : {"update"}, cart : CartIds, item : LineIds, quantity : Nat]
ClearRequests  == [op : {"clear"}, cart : CartIds]
SelectRequests ==
    [op : {"select"}, cart : CartIds \union {None}, merchant : Merchants,
     session : Clients \union {None}, product : Products, quantity : Nat]
Bodies ==
    [cart : CartIds, session : Clients \union {None},
     option : Codes \union {None}, promo : Codes \union {None}]
PrepareRequests ==
    [op : {"prepare"}, body : Bodies, header : Clients \union {None},
     key : Keys \union {None}]
AllRequests ==
    CreateRequests \union AddRequests \union UpdateRequests \union ClearRequests
        \union SelectRequests \union PrepareRequests

RecordRows ==
    [body : Bodies, session : Clients \union {None}, quote : QuoteIds, old : BOOLEAN]

\* Every operation a caller may name is one the routers have.
ASSUME RequestsAssumption == \A r \in Requests : r \in AllRequests

\* Products have a merchant; prices, stock, costs and discounts are amounts.
ASSUME CatalogueAssumption ==
    /\ \A p \in Products : MerchantOf[p] \in Merchants
    /\ Prices \subseteq Nat /\ StockLevels \subseteq Nat
    /\ Promos \subseteq PromoRows
    /\ \A o \in Options : o.id \in Codes /\ o.cost \in Nat

ASSUME FirstCartsAssumption == FirstCarts \in [CartIds -> CartRows \union {None}]

ASSUME BoundAssumption == MaxLines \in Nat

\* A null is no row, no number and no key.
ASSUME NoneAssumption ==
    /\ None \notin CartRows \union LineRows \union RecordRows \union Nat
    /\ None \notin CartIds \union QuoteIds \union Keys
    /\ ~IsQuote(None)

VARIABLES
    price, active, onHand,   \* current_price, is_active, available_quantity
    open,                    \* MerchantModel.is_active
    cart,                    \* carts; every one is ACTIVE
    line, made,              \* cart_items, and how many were ever inserted
    quote,                   \* checkout_sessions
    touched,                 \* touched[q]: cart.updated_at > quote.created_at
    record,                  \* checkout_idempotency_records of prepare_checkout
    pc, req,
    mine,                    \* the cart that the request works on
    seen,                    \* the rows its transaction read
    draft,                   \* the quote it is about to save, or has saved
    granted,                 \* history: units added to a cart by its callers
    answered                 \* history: its key had an answer when it came

catalogue == <<price, active, onHand, open>>
rows      == <<cart, line, made, quote, touched, record>>
cartVars  == <<price, active, onHand, open, cart, line, made, quote, touched,
               record, pc, req, mine, seen, draft, granted, answered>>

LinesOf(c) == {l \in LineIds : line[l] # None /\ line[l].cart = c}
RowsOf(c)  == [l \in LinesOf(c) |-> line[l]]

\* What a transaction keeps of its reads.
Nothing  == [lines |-> <<>>, price |-> <<>>, subtotal |-> 0]
Read(c)  == [lines |-> RowsOf(c), price |-> price, subtotal |-> cart[c].subtotal]

CartTypeOK ==
    /\ price \in [Products -> Nat]
    /\ active \in [Products -> BOOLEAN]
    /\ onHand \in [Products -> Nat]
    /\ open \in [Merchants -> BOOLEAN]
    /\ \A c \in CartIds : cart[c] = None \/ cart[c] \in CartRows
    /\ \A l \in LineIds : line[l] = None \/ line[l] \in LineRows
    /\ made \in 0..MaxLines
    /\ \A q \in QuoteIds : quote[q] = None \/ IsQuote(quote[q])
    /\ touched \in [QuoteIds -> BOOLEAN]
    /\ \A k \in Keys : record[k] = None \/ record[k] \in RecordRows
    /\ pc \in [Workers -> {"idle", "find", "insert", "read", "write", "gate",
                           "quote", "save", "look", "record"}]
    /\ \A w \in Workers : req[w] = None \/ req[w] \in Requests
    /\ mine \in [Workers -> CartIds \union {None}]
    /\ granted \in [CartIds -> [Products -> Nat]]
    /\ answered \in [Workers -> BOOLEAN]

CartInit ==
    /\ price \in [Products -> Prices]
    /\ active = [p \in Products |-> TRUE]
    /\ onHand \in [Products -> StockLevels]
    /\ open = [m \in Merchants |-> TRUE]
    /\ cart = FirstCarts
    /\ line = [l \in LineIds |-> None]
    /\ made = 0
    /\ quote = [q \in QuoteIds |-> None]
    /\ touched = [q \in QuoteIds |-> FALSE]
    /\ record = [k \in Keys |-> None]
    /\ pc = [w \in Workers |-> "idle"]
    /\ req = [w \in Workers |-> None]
    /\ mine = [w \in Workers |-> None]
    /\ seen = [w \in Workers |-> Nothing]
    /\ draft = [w \in Workers |-> None]
    /\ granted = [c \in CartIds |-> [p \in Products |-> 0]]
    /\ answered = [w \in Workers |-> FALSE]

-----------------------------------------------------------------------------
(* Requests                                                                *)

GoTo(w, place) == pc' = [pc EXCEPT ![w] = place]

\* The answer, or an exception; either way the transaction is over.
End(w) ==
    /\ GoTo(w, "idle")
    /\ req' = [req EXCEPT ![w] = None]
    /\ mine' = [mine EXCEPT ![w] = None]
    /\ seen' = [seen EXCEPT ![w] = Nothing]
    /\ draft' = [draft EXCEPT ![w] = None]
    /\ answered' = [answered EXCEPT ![w] = FALSE]

Busy == {w \in Workers : pc[w] # "idle"}

\* The bounds: an id is left for everyone who may need one.
Room(r) ==
    /\ r.op \in {"create", "select"} =>
          Cardinality({c \in CartIds : cart[c] = None}) > Cardinality(Busy)
    /\ r.op = "prepare" =>
          Cardinality({q \in QuoteIds : quote[q] = None}) > Cardinality(Busy)
    /\ r.op \in {"add", "select"} => MaxLines - made > Cardinality(Busy)

FirstStep(r) ==
    CASE r.op = "create"                     -> "find"
      [] r.op = "select" /\ r.cart = None    -> "find"
      [] r.op = "prepare" /\ r.key = None    -> "quote"
      [] r.op = "prepare" /\ r.key # None    -> "gate"
      [] OTHER                               -> "read"

Submit(w) ==
    /\ pc[w] = "idle"
    /\ \E r \in Requests :
         /\ Room(r)
         /\ req' = [req EXCEPT ![w] = r]
         /\ GoTo(w, FirstStep(r))
         /\ mine' = [mine EXCEPT ![w] = IF r.op = "create" THEN None
                                        ELSE IF r.op = "prepare" THEN r.body.cart
                                        ELSE r.cart]
         /\ answered' = [answered EXCEPT ![w] =
                /\ r.op = "prepare" /\ r.key # None
                /\ record[r.key] # None /\ ~record[r.key].old]
    /\ UNCHANGED <<catalogue, rows, seen, draft, granted>>

-----------------------------------------------------------------------------
(* Carts                                                                   *)

\* The product may be sold to a cart of merchant m.
Sellable(p, m) == active[p] /\ MerchantOf[p] = m /\ price[p] > 0

QuantityOk(n) == n \in 1..MaxQuantity

\* What select_recommendation_and_add_to_cart validates before it looks for
\* a cart.
Selectable(r) ==
    r.op = "select" =>
        QuantityOk(r.quantity) /\ open[r.merchant] /\ Sellable(r.product, r.merchant)

ActiveCarts(m, s) ==
    {c \in CartIds : cart[c] # None /\ s # None /\ cart[c].merchant = m
                                    /\ cart[c].session = s}

\* The cart is known: create is answered, select goes on with it.
Found(w, c) ==
    IF req[w].op = "create" THEN End(w)
    ELSE /\ GoTo(w, "read")
         /\ mine' = [mine EXCEPT ![w] = c]
         /\ UNCHANGED <<req, seen, draft, answered>>

\* get_or_create_active_cart up to its query.
FindCart(w) ==
    LET r == req[w]
        known == ActiveCarts(r.merchant, r.session)
    IN  /\ pc[w] = "find"
        /\ \/ (~open[r.merchant] \/ ~Selectable(r)) /\ End(w)
           \/ /\ open[r.merchant] /\ Selectable(r)
              /\ \/ \E c \in known : Found(w, c)
                 \/ /\ known = {}
                    /\ GoTo(w, "insert")
                    /\ UNCHANGED <<req, mine, seen, draft, answered>>
        /\ UNCHANGED <<catalogue, rows, granted>>

\* create_cart: the insertion commits.
InsertCart(w) ==
    /\ pc[w] = "insert"
    /\ \E c \in CartIds :
         /\ cart[c] = None
         /\ cart' = [cart EXCEPT ![c] = [merchant |-> req[w].merchant,
                                         session |-> req[w].session, subtotal |-> 0]]
         /\ Found(w, c)
    /\ UNCHANGED <<catalogue, line, made, quote, touched, record, granted>>

\* The line that an addition of p increments.
Existing(lines, p) ==
    LET same == {l \in DOMAIN lines : lines[l].product = p}
    IN  IF same = {} THEN None ELSE Min(same)

Target(lines, r) ==
    LET l == Existing(lines, r.product)
    IN  IF l = None THEN r.quantity ELSE lines[l].quantity + r.quantity

\* A select that looked for its cart was validated before (FindCart), and is
\* not asked again whether merchant and product are still active.
Accepts(c, r) ==
    CASE r.op = "clear"  -> TRUE
      [] r.op = "update" ->
           /\ r.quantity <= MaxQuantity
           /\ r.item \in LinesOf(c)
           /\ r.quantity > 0 => /\ active[line[r.item].product]
                                /\ onHand[line[r.item].product] >= r.quantity
      [] OTHER ->
           /\ QuantityOk(r.quantity) /\ MerchantOf[r.product] = cart[c].merchant
           /\ r.op = "add" => Sellable(r.product, cart[c].merchant)
           /\ r.op = "select" => cart[c].merchant = r.merchant
           /\ r.op = "select" /\ r.cart # None => Selectable(r)
           /\ Target(RowsOf(c), r) <= MaxQuantity
           /\ onHand[r.product] >= Target(RowsOf(c), r)

\* The reads and checks of add_item_to_cart, update_cart_item, clear_cart
\* and select_recommendation_and_add_to_cart.
ReadCart(w) ==
    LET c == mine[w]
    IN  /\ pc[w] = "read"
        /\ IF cart[c] # None /\ Accepts(c, req[w])
           THEN /\ seen' = [seen EXCEPT ![w] = Read(c)]
                /\ GoTo(w, "write")
                /\ UNCHANGED <<req, mine, draft, answered>>
           ELSE End(w)
        /\ UNCHANGED <<catalogue, rows, granted>>

\* The lines that the handler deletes.
Deleted(r, lines) ==
    CASE r.op = "clear"                      -> DOMAIN lines
      [] r.op = "update" /\ r.quantity = 0   -> {r.item}
      [] OTHER                               -> {}

Wanted(r, lines, l) ==
    CASE r.op = "update" /\ l = r.item       -> r.quantity
      [] r.op \in {"add", "select"} /\ l = Existing(lines, r.product)
                                             -> Target(lines, r)
      [] OTHER                               -> lines[l].quantity

\* The handler's view of the lines it keeps, after recalculate_cart has
\* given each the price of its product.
Kept(r, s) ==
    [l \in DOMAIN s.lines \ Deleted(r, s.lines) |->
        [s.lines[l] EXCEPT !.quantity = Wanted(r, s.lines, l),
                           !.price = s.price[s.lines[l].product]]]

Inserts(r, lines) == r.op \in {"add", "select"} /\ Existing(lines, r.product) = None

\* A mutant of UpdatedLine: the quantity is added in the database, to what
\* others have added since.
AddedToTheRow(l, before, after) ==
    [line[l] EXCEPT
        !.quantity = IF after.quantity = before.quantity THEN @
                     ELSE @ + after.quantity,
        !.price = IF after.price = before.price THEN @ ELSE after.price]

\* An UPDATE sets the columns whose value changed and leaves the others.
UpdatedLine(l, before, after) ==
    [line[l] EXCEPT
        !.quantity = IF after.quantity = before.quantity THEN @ ELSE after.quantity,
        !.price = IF after.price = before.price THEN @ ELSE after.price]

\* An UPDATE of a line that is gone raises StaleDataError.
Vanished(before, after) ==
    \E l \in DOMAIN after : after[l] # before[l] /\ line[l] = None

NewSubtotal(r, s) ==
    LET kept == Kept(r, s)
        new  == IF Inserts(r, s.lines) THEN s.price[r.product] * r.quantity ELSE 0
    IN  new + MapThenSumSet(LAMBDA l : CalculateLineItemTotal(kept[l].price, kept[l].quantity),
                            DOMAIN kept)

\* A mutant of Touch: only a growing cart is stamped.
TouchGrowing(c, before, after) ==
    IF after <= before THEN touched' = touched
    ELSE touched' = [q \in QuoteIds |->
                        touched[q] \/ (quote[q] # None /\ quote[q].cart = c)]

\* updated_at is set when an UPDATE of the cart is issued, that is when its
\* subtotal is not what the transaction read.
Touch(c, before, after) ==
    IF after = before THEN touched' = touched
    ELSE touched' = [q \in QuoteIds |->
                        touched[q] \/ (quote[q] # None /\ quote[q].cart = c)]

\* The units that the request adds to what it read.
Granted(r, c, s) ==
    IF r.op = "update"
    THEN [granted EXCEPT ![c][s.lines[r.item].product] =
             @ + Less(r.quantity, s.lines[r.item].quantity)]
    ELSE [granted EXCEPT ![c][r.product] = @ + r.quantity]

\* The flush and the commit of those handlers.
WriteCart(w) ==
    LET r == req[w]
        c == mine[w]
        s == seen[w]
        kept == Kept(r, s)
        gone == Deleted(r, s.lines)
    IN  /\ pc[w] = "write"
        /\ \/ /\ Vanished(s.lines, kept)
              /\ UNCHANGED <<rows, granted>>
           \/ /\ ~Vanished(s.lines, kept)
              /\ line' = [l \in LineIds |->
                    IF l \in gone THEN None
                    ELSE IF l \in DOMAIN kept /\ line[l] # None
                         THEN UpdatedLine(l, s.lines[l], kept[l])
                    ELSE IF Inserts(r, s.lines) /\ l = made + 1
                         THEN [cart |-> c, product |-> r.product,
                               quantity |-> r.quantity, price |-> s.price[r.product]]
                    ELSE line[l]]
              /\ made' = IF Inserts(r, s.lines) THEN made + 1 ELSE made
              /\ Touch(c, s.subtotal, NewSubtotal(r, s))
              /\ cart' = IF NewSubtotal(r, s) = s.subtotal THEN cart
                         ELSE [cart EXCEPT ![c].subtotal = NewSubtotal(r, s)]
              /\ granted' = IF r.op = "clear" THEN granted ELSE Granted(r, c, s)
              /\ UNCHANGED <<quote, record>>
        /\ End(w)
        /\ UNCHANGED catalogue

-----------------------------------------------------------------------------
(* Quotes                                                                  *)

Caller(r) == IF r.header # None THEN r.header ELSE r.body.session

\* Access checks let a caller without a session pass.
Foreign(caller, owner) == caller # None /\ owner # None /\ caller # owner

\* A mutant of Usable: the test of the record's age is the wrong way round.
OnlyOld(known) == known # None /\ known.old

Usable(known) == known # None /\ ~known.old

\* check_idempotency: a record of yesterday is deleted, one of another body
\* or another session refuses, and any other is the answer.
PrepareGate(w) ==
    LET r == req[w]
        known == record[r.key]
    IN  /\ pc[w] = "gate"
        /\ IF ~Usable(known)
           THEN /\ GoTo(w, "quote")
                /\ record' = [record EXCEPT ![r.key] = None]
                /\ UNCHANGED <<req, mine, seen, draft, answered>>
           ELSE End(w) /\ UNCHANGED record
        /\ UNCHANGED <<catalogue, cart, line, made, quote, touched, granted>>

Quotable(c, caller) ==
    /\ cart[c] # None
    /\ ~Foreign(caller, cart[c].session)
    /\ LinesOf(c) # {}
    /\ open[cart[c].merchant]
    /\ \A l \in LinesOf(c) : /\ Sellable(line[l].product, cart[c].merchant)
                             /\ onHand[line[l].product] >= line[l].quantity

\* items_snapshot, at the live prices: an entry for each line.
Snapshot(c) ==
    [l \in LinesOf(c) |-> [product |-> line[l].product,
                           quantity |-> line[l].quantity,
                           price |-> price[line[l].product]]]

\* The shipping options that prepare_checkout may settle on; None when no
\* option is asked for and the merchant has none.
ShippingChoices(m, wanted) ==
    IF wanted # None THEN ValidOptions(Options, m, wanted)
    ELSE IF CheapestOptions(Options, m) = {} THEN {None}
    ELSE CheapestOptions(Options, m)

\* The quote of the cart as it is now.
QuoteOf(c, body, option) ==
    LET m        == cart[c].merchant
        items    == Snapshot(c)
        subtotal == CalculateSubtotal(items)
        promos   == Applicable(Promos, m, body.promo, subtotal)
        discount == IF promos = {} THEN 0
                    ELSE DiscountOf(CHOOSE d \in promos : TRUE, subtotal)
        shipping == IF option = None THEN 0 ELSE ShippingCost(option, subtotal)
        tax      == CalculateTax(Less(subtotal, discount))
    IN  [cart |-> c, merchant |-> m,
         session |-> IF body.session # None THEN body.session ELSE cart[c].session,
         items |-> items, subtotal |-> subtotal, discount |-> discount,
         shipping |-> shipping, tax |-> tax,
         total |-> ComputeGrandTotal(subtotal, discount, shipping, tax),
         option |-> IF option = None THEN None ELSE option.id]

\* prepare_checkout up to the totals.
PrepareRead(w) ==
    LET r == req[w]
        c == mine[w]
    IN  /\ pc[w] = "quote"
        /\ IF /\ Quotable(c, Caller(r))
              /\ ShippingChoices(cart[c].merchant, r.body.option) # {}
           THEN /\ \E option \in ShippingChoices(cart[c].merchant, r.body.option) :
                     draft' = [draft EXCEPT ![w] = QuoteOf(c, r.body, option)]
                /\ seen' = [seen EXCEPT ![w] = Read(c)]
                /\ GoTo(w, "save")
                /\ UNCHANGED <<req, mine, answered>>
           ELSE End(w)
        /\ UNCHANGED <<catalogue, rows, granted>>

\* The lines as prepare_checkout leaves them: at their live price.
Repriced(s) == [l \in DOMAIN s.lines |->
                   [s.lines[l] EXCEPT !.price = s.price[s.lines[l].product]]]

\* created_at is taken here, then the quote is inserted and committed.
PrepareSave(w) ==
    LET s == seen[w]
    IN  /\ pc[w] = "save"
        /\ \/ /\ Vanished(s.lines, Repriced(s))
              /\ End(w)
              /\ UNCHANGED rows
           \/ /\ ~Vanished(s.lines, Repriced(s))
              /\ line' = [l \in LineIds |->
                    IF l \in DOMAIN s.lines /\ line[l] # None
                    THEN UpdatedLine(l, s.lines[l], Repriced(s)[l]) ELSE line[l]]
              /\ \E q \in QuoteIds :
                   /\ quote[q] = None
                   /\ quote' = [quote EXCEPT ![q] = draft[w]]
                   /\ IF req[w].key = None THEN End(w)
                      ELSE /\ draft' = [draft EXCEPT ![w] = q]
                           /\ GoTo(w, "look")
                           /\ UNCHANGED <<req, mine, seen, answered>>
              /\ UNCHANGED <<cart, made, touched, record>>
        /\ UNCHANGED <<catalogue, granted>>

\* record_idempotency_success up to its query.  A record that is there gets
\* the new response and keeps the fingerprint of the old request.
PrepareLook(w) ==
    LET r == req[w]
        known == record[r.key]
    IN  /\ pc[w] = "look"
        /\ IF known = None
           THEN /\ GoTo(w, "record")
                /\ UNCHANGED <<req, mine, seen, draft, answered, record>>
           ELSE /\ record' = [record EXCEPT ![r.key] =
                      [known EXCEPT !.quote = draft[w], !.old = FALSE,
                                !.session = IF Caller(r) # None THEN Caller(r) ELSE @]]
                /\ End(w)
        /\ UNCHANGED <<catalogue, cart, line, made, quote, touched, granted>>

\* Its insertion; the second of two with one key violates the constraint.
PrepareRecord(w) ==
    LET r == req[w]
    IN  /\ pc[w] = "record"
        /\ record' = IF record[r.key] # None THEN record
                     ELSE [record EXCEPT ![r.key] =
                              [body |-> r.body, session |-> Caller(r),
                               quote |-> draft[w], old |-> FALSE]]
        /\ End(w)
        /\ UNCHANGED <<catalogue, cart, line, made, quote, touched, granted>>

-----------------------------------------------------------------------------
(* What else happens                                                       *)

\* A worker dies; the database rolls its transaction back.
Crash(w) ==
    /\ pc[w] # "idle"
    /\ End(w)
    /\ UNCHANGED <<catalogue, rows, granted>>

CatalogueEvent ==
    /\ \/ /\ "price" \in Events
          /\ \E p \in Products, n \in Prices : price' = [price EXCEPT ![p] = n]
          /\ UNCHANGED <<active, onHand, open>>
       \/ /\ "active" \in Events
          /\ \E p \in Products : active' = [active EXCEPT ![p] = FALSE]
          /\ UNCHANGED <<price, onHand, open>>
       \/ /\ "stock" \in Events
          /\ \E p \in Products, n \in StockLevels : onHand' = [onHand EXCEPT ![p] = n]
          /\ UNCHANGED <<price, active, open>>
       \/ /\ "merchant" \in Events
          /\ \E m \in Merchants : open' = [open EXCEPT ![m] = FALSE]
          /\ UNCHANGED <<price, active, onHand>>
    /\ UNCHANGED <<rows, pc, req, mine, seen, draft, granted, answered>>

\* A day passes after the record was written.
AgeRecord ==
    /\ "day" \in Events
    /\ \E k \in Keys :
         /\ record[k] # None
         /\ record' = [record EXCEPT ![k].old = TRUE]
         /\ answered' = [w \in Workers |->
                answered[w] /\ ~(req[w].op = "prepare" /\ req[w].key = k)]
    /\ UNCHANGED <<catalogue, cart, line, made, quote, touched, pc, req, mine,
                   seen, draft, granted>>

CartNext ==
    \/ \E w \in Workers :
          \/ Submit(w) \/ FindCart(w) \/ InsertCart(w) \/ ReadCart(w) \/ WriteCart(w)
          \/ PrepareGate(w) \/ PrepareRead(w) \/ PrepareSave(w)
          \/ PrepareLook(w) \/ PrepareRecord(w) \/ Crash(w)
    \/ CatalogueEvent \/ AgeRecord

CartSpec == CartInit /\ [][CartNext]_cartVars

-----------------------------------------------------------------------------
(* Properties                                                              *)

UnitsIn(c, p) ==
    MapThenSumSet(LAMBDA l : line[l].quantity,
                  {l \in LinesOf(c) : line[l].product = p})

\* A cart never holds more units of a product than its callers asked for and
\* were granted, however their reads and writes interleave: additions may be
\* lost (add_item_to_cart takes no lock), never counted twice.
NothingFromNowhere ==
    \A c \in CartIds, p \in Products : UnitsIn(c, p) <= granted[c][p]

\* Carts and quotes stay with one merchant, through any sequence of
\* additions, selections and promotions, for the goods as for the shipping.
OneMerchantPerCart ==
    /\ \A l \in LineIds :
         line[l] # None => MerchantOf[line[l].product] = cart[line[l].cart].merchant
    /\ \A q \in QuoteIds : quote[q] # None =>
         /\ quote[q].merchant = cart[quote[q].cart].merchant
         /\ \A i \in DOMAIN quote[q].items :
               MerchantOf[quote[q].items[i].product] = quote[q].merchant
         /\ quote[q].option # None =>
               \E o \in Options : o.id = quote[q].option /\ o.merchant = quote[q].merchant

\* What a quote charges is never below the tax and shipping on top of the
\* discounted goods, and the tax is never more than 18% of those goods and
\* half a paisa: no rounding, cap or promotion makes a total inconsistent.
QuoteAddsUp ==
    \A q \in QuoteIds : quote[q] # None =>
        LET x == quote[q]
        IN  /\ DOMAIN x.items # {}
            /\ x.discount <= x.subtotal
            /\ x.total + x.discount = x.subtotal + x.shipping + x.tax
            /\ 100 * x.tax <= 18 * (x.subtotal - x.discount) + 50

\* A request that repeats a key whose answer is recorded makes no quote: it
\* does not get past the gate.  (Two that start before the record is there
\* both do.)
RepeatMakesNoQuote ==
    \A w \in Workers : answered[w] => pc[w] \in {"idle", "gate"}

\* A quote that is not stale (get_checkout_session) shows the products and
\* quantities of its cart.
FreshQuoteShowsTheCart ==
    \A q \in QuoteIds : quote[q] # None /\ ~touched[q] =>
        \A p \in Products :
            UnitsIn(quote[q].cart, p) =
                MapThenSumSet(LAMBDA i : quote[q].items[i].quantity,
                              {i \in DOMAIN quote[q].items : quote[q].items[i].product = p})
=============================================================================
