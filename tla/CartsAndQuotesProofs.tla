------------------------ MODULE CartsAndQuotesProofs ------------------------
(***************************************************************************)
(* Proofs about carts and quotes, for any number of request threads,       *)
(* carts, lines, quotes and products: carts and quotes stay with one       *)
(* merchant, quotes add up, no unit in a cart comes from nowhere and a     *)
(* repeated request makes no quote, although no handler takes a lock; and  *)
(* what the policy says of quotes, for every policy.                       *)
(***************************************************************************)
EXTENDS PurchasePolicy, SumLemmas

-----------------------------------------------------------------------------
(* Amounts                                                                 *)

\* Rounding to a paisa is off by half a paisa at most.
LEMMA Rounding ==
    ASSUME NEW n \in Nat
    PROVE  /\ QuantizeMoney(n, 100) \in Nat
           /\ 100 * QuantizeMoney(n, 100) <= n + 50
           /\ \A k \in Nat : n <= 100 * k => QuantizeMoney(n, 100) <= k
<1> DEFINE m == (2 * n + 100) \div 200
<1>1. m \in Nat /\ 200 * m <= 2 * n + 100
    OBVIOUS
<1>2. QuantizeMoney(n, 100) = m
    BY DEF QuantizeMoney
<1> HIDE DEF m
<1>3. ASSUME NEW k \in Nat, n <= 100 * k PROVE m <= k
  <2>1. 200 * m <= 200 * k + 100
      BY <1>1, <1>3
  <2> QED
      BY <1>1, <2>1
<1> QED
    BY <1>1, <1>2, <1>3

\* A discount is an amount, and never more than what it is taken from.
LEMMA DiscountBounded ==
    ASSUME NEW d \in PromoRows, NEW subtotal \in Nat
    PROVE  /\ DiscountOf(d, subtotal) \in Nat
           /\ DiscountOf(d, subtotal) <= subtotal
<1>1. d.value \in Nat /\ d.cap \in Nat \union {None}
    BY DEF PromoRows
<1>2. CASE d.kind = "FLAT"
    BY <1>1, <1>2 DEF DiscountOf, Lower
<1>3. CASE d.kind # "FLAT"
  <2> DEFINE raw == subtotal * d.value
             capped == IF d.cap = None THEN raw ELSE Lower(raw, 100 * d.cap)
  <2>1. raw \in Nat
      BY <1>1
  <2>2. capped \in Nat
      BY <1>1, <2>1 DEF Lower
  <2> HIDE DEF capped
  <2>3. Lower(capped, 100 * subtotal) \in Nat /\ Lower(capped, 100 * subtotal) <= 100 * subtotal
      BY <2>2 DEF Lower
  <2>4. DiscountOf(d, subtotal) = QuantizeMoney(Lower(capped, 100 * subtotal), 100)
      BY <1>3 DEF DiscountOf, capped
  <2> QED
      BY <2>3, <2>4, Rounding
<1> QED
    BY <1>2, <1>3

\* The tax is at most 18% and half a paisa.
LEMMA TaxBounded ==
    ASSUME NEW n \in Nat
    PROVE  CalculateTax(n) \in Nat /\ 100 * CalculateTax(n) <= 18 * n + 50
<1>1. 18 * n \in Nat
    OBVIOUS
<1> QED
    BY <1>1, Rounding DEF CalculateTax

\* The subtotal of lines with prices and quantities is an amount.
LEMMA SubtotalIsAmount ==
    ASSUME NEW D, IsFiniteSet(D), NEW lines, DOMAIN lines = D,
           \A l \in D : lines[l].price \in Nat /\ lines[l].quantity \in Nat
    PROVE  CalculateSubtotal(lines) \in Nat
<1> DEFINE w == [l \in D |-> lines[l].price * lines[l].quantity]
           R(g) == g = [s \in SUBSET D |-> IF s = {} THEN 0 ELSE
                            g[s \ {Chosen(s)}] + lines[Chosen(s)].price * lines[Chosen(s)].quantity]
           W(g) == g = [s \in SUBSET D |-> IF s = {} THEN 0 ELSE
                            g[s \ {Chosen(s)}] + w[Chosen(s)]]
<1>1. CalculateSubtotal(lines) = (CHOOSE g : R(g))[D]
    BY DEF CalculateSubtotal, FoldFunction, FoldFunctionOnSet, MapThenFoldSet, Chosen,
           CalculateLineItemTotal
<1>2. \A l \in D : w[l] \in Nat
    OBVIOUS
<1>3. \A s \in SUBSET D : s # {} => Chosen(s) \in D
    BY DEF Chosen
<1>4. \A g : R(g) <=> W(g)
    BY <1>3
<1> HIDE DEF w
<1>5. PICK g : g \in [SUBSET D -> Nat] /\ SumRule(g, w, D)
    BY <1>2, SumTableOK
<1>6. \A s \in SUBSET D : s # {} =>
          w[Chosen(s)] + g[s \ {Chosen(s)}] = g[s \ {Chosen(s)}] + w[Chosen(s)]
  <2> SUFFICES ASSUME NEW s \in SUBSET D, s # {}
               PROVE  w[Chosen(s)] + g[s \ {Chosen(s)}] = g[s \ {Chosen(s)}] + w[Chosen(s)]
      OBVIOUS
  <2>1. w[Chosen(s)] \in Nat /\ g[s \ {Chosen(s)}] \in Nat
      BY <1>2, <1>3, <1>5
  <2> QED
      BY <2>1
<1>7. W(g)
    BY <1>5, <1>6 DEF SumRule
<1> DEFINE f == CHOOSE h : R(h)
<1>8. f = [s \in SUBSET D |-> IF s = {} THEN 0 ELSE f[s \ {Chosen(s)}] + w[Chosen(s)]]
  <2> HIDE DEF R
  <2>1. R(f)
      BY <1>4, <1>7
  <2> HIDE DEF f
  <2> QED
      BY <1>4, <2>1
<1> HIDE DEF f
<1>9. f = g
    BY <1>2, <1>5, <1>8, SumsAreOne
<1> QED
    BY <1>1, <1>5, <1>9, ZenonT(40) DEF f

-----------------------------------------------------------------------------
(* The invariant                                                           *)

RowsOK ==
    /\ price \in [Products -> Nat]
    /\ cart \in [CartIds -> CartRows \union {None}]
    /\ line \in [LineIds -> LineRows \union {None}]
    /\ made \in Nat
    /\ \A l \in LineIds : l > made => line[l] = None
    /\ quote = [q \in QuoteIds |-> quote[q]]
    /\ \A q \in QuoteIds : quote[q] = None \/ IsQuote(quote[q])

\* A line is of a cart that exists, and its product of the cart's merchant.
LineAtHome(l) ==
    line[l] # None =>
        /\ cart[line[l].cart] # None
        /\ MerchantOf[line[l].product] = cart[line[l].cart].merchant

OptionOf(m, id) == id # None => \E o \in Options : o.id = id /\ o.merchant = m

\* x is of a cart that exists, of its merchant, goods and shipping included.
QuoteAtHome(x) ==
    /\ cart[x.cart] # None
    /\ x.merchant = cart[x.cart].merchant
    /\ \A i \in DOMAIN x.items : MerchantOf[x.items[i].product] = x.merchant
    /\ OptionOf(x.merchant, x.option)

AddsUp(x) ==
    /\ DOMAIN x.items # {}
    /\ x.discount <= x.subtotal
    /\ x.total + x.discount = x.subtotal + x.shipping + x.tax
    /\ 100 * x.tax <= 18 * (x.subtotal - x.discount) + 50

\* What a request has read of cart c: lines that still are of c, with the
\* product they had, or are gone.
SeenOK(s, c) ==
    /\ s.price \in [Products -> Nat]
    /\ s.subtotal \in Nat
    /\ DOMAIN s.lines \subseteq LineIds
    /\ \A l \in DOMAIN s.lines :
         /\ l <= made
         /\ s.lines[l] \in LineRows
         /\ s.lines[l].cart = c
         /\ line[l] # None => line[l].cart = c /\ line[l].product = s.lines[l].product

\* What Accepts has found of the request r on cart c.
AcceptedOK(r, s, c) ==
    /\ r.op = "update" => r.quantity <= MaxQuantity /\ r.item \in DOMAIN s.lines
    /\ r.op \in {"add", "select"} =>
         /\ r.quantity \in 1..MaxQuantity
         /\ Target(s.lines, r) <= MaxQuantity
         /\ MerchantOf[r.product] = cart[c].merchant

Finding  == {"find", "insert"}
Writing  == {"read", "write"}
Quoting  == {"quote", "save"}
Keeping  == {"gate", "look", "record"}

ThreadOK(w) ==
    /\ pc[w] \in {"idle"} \union Finding \union Writing \union Quoting \union Keeping
    /\ pc[w] \in Finding => req[w] \in CreateRequests \union SelectRequests
    /\ pc[w] \in Writing =>
         /\ req[w] \in AddRequests \union UpdateRequests \union ClearRequests \union SelectRequests
         /\ mine[w] \in CartIds
    /\ pc[w] \in Quoting \union Keeping => req[w] \in PrepareRequests
    /\ pc[w] \in Keeping => req[w].key # None
    /\ pc[w] \in Quoting \union Keeping => mine[w] = req[w].body.cart
    /\ pc[w] \in {"write", "save"} => cart[mine[w]] # None /\ SeenOK(seen[w], mine[w])
    /\ pc[w] = "write" => AcceptedOK(req[w], seen[w], mine[w])
    /\ pc[w] = "save" => /\ IsQuote(draft[w])
                         /\ draft[w].cart = mine[w]
                         /\ QuoteAtHome(draft[w])
                         /\ AddsUp(draft[w])

Tables ==
    /\ pc = [w \in Workers |-> pc[w]]
    /\ req = [w \in Workers |-> req[w]]
    /\ mine = [w \in Workers |-> mine[w]]
    /\ seen = [w \in Workers |-> seen[w]]
    /\ draft = [w \in Workers |-> draft[w]]

CartInv ==
    /\ RowsOK
    /\ Tables
    /\ \A l \in LineIds : LineAtHome(l)
    /\ \A q \in QuoteIds : quote[q] # None => QuoteAtHome(quote[q]) /\ AddsUp(quote[q])
    /\ \A w \in Workers : ThreadOK(w)

-----------------------------------------------------------------------------
(* What every step does to the tables                                      *)

\* Carts stay and keep their merchant; a line keeps its cart and product
\* until it is gone, and what is gone does not come back.
Grows ==
    /\ \A c \in CartIds : cart[c] # None =>
          cart'[c] # None /\ cart'[c].merchant = cart[c].merchant
    /\ made' \in Nat /\ made <= made'
    /\ \A l \in LineIds : l <= made =>
          \/ line'[l] = None
          \/ /\ line[l] # None
             /\ line'[l].cart = line[l].cart
             /\ line'[l].product = line[l].product

Same(v) ==
    /\ pc'[v] = pc[v] /\ req'[v] = req[v] /\ mine'[v] = mine[v]
    /\ seen'[v] = seen[v] /\ draft'[v] = draft[v]

\* Only the request of w moves.
Moves(w) == Tables' /\ \A v \in Workers : v # w => Same(v)

LEMMA QuoteKept ==
    ASSUME Grows, NEW x, x.cart \in CartIds, QuoteAtHome(x)
    PROVE  QuoteAtHome(x)'
BY DEF Grows, QuoteAtHome, OptionOf

LEMMA SeenKept ==
    ASSUME RowsOK, Grows, NEW s, NEW c, SeenOK(s, c)
    PROVE  SeenOK(s, c)'
<1> SUFFICES ASSUME NEW l \in DOMAIN s.lines
             PROVE  /\ l <= made'
                    /\ line'[l] # None => line'[l].cart = c /\ line'[l].product = s.lines[l].product
    BY DEF SeenOK
<1>1. l \in LineIds /\ l <= made /\ l \in Nat /\ made \in Nat
    BY BoundAssumption DEF SeenOK, RowsOK, LineIds
<1>2. made' \in Nat /\ made <= made'
    BY DEF Grows
<1> QED
    BY <1>1, <1>2 DEF Grows, SeenOK

LEMMA AcceptedKept ==
    ASSUME Grows, NEW r, NEW s, NEW c \in CartIds, cart[c] # None, AcceptedOK(r, s, c)
    PROVE  AcceptedOK(r, s, c)'
BY DEF Grows, AcceptedOK, Target, Existing

LEMMA ThreadKept ==
    ASSUME CartInv, Grows, NEW v \in Workers, Same(v)
    PROVE  ThreadOK(v)'
<1>1. ThreadOK(v) /\ RowsOK
    BY DEF CartInv
<1>2. PICK r, s, c, x, p : r = req[v] /\ s = seen[v] /\ c = mine[v] /\ x = draft[v] /\ p = pc[v]
    OBVIOUS
<1>3. r = req'[v] /\ s = seen'[v] /\ c = mine'[v] /\ x = draft'[v] /\ p = pc'[v]
    BY <1>2 DEF Same
<1>4. p \in {"write", "save"} => /\ c \in CartIds
                                 /\ cart[c] # None /\ cart'[c] # None
                                 /\ SeenOK(s, c)'
  <2> SUFFICES ASSUME p \in {"write", "save"}
               PROVE  c \in CartIds /\ cart[c] # None /\ cart'[c] # None /\ SeenOK(s, c)'
      OBVIOUS
  <2>1. c \in CartIds
      BY <1>1, <1>2 DEF ThreadOK, Writing, Quoting, PrepareRequests, Bodies
  <2>2. cart[c] # None /\ SeenOK(s, c)
      BY <1>1, <1>2 DEF ThreadOK
  <2> QED
      BY <1>1, <2>1, <2>2, SeenKept DEF Grows
<1>5. p = "write" => AcceptedOK(r, s, c)'
    BY <1>1, <1>2, <1>4, AcceptedKept DEF ThreadOK
<1>6. p = "save" => IsQuote(x) /\ x.cart = c /\ QuoteAtHome(x)' /\ AddsUp(x)
  <2> SUFFICES ASSUME p = "save"
               PROVE  IsQuote(x) /\ x.cart = c /\ QuoteAtHome(x)' /\ AddsUp(x)
      OBVIOUS
  <2>1. IsQuote(x) /\ x.cart = c /\ QuoteAtHome(x) /\ AddsUp(x)
      BY <1>1, <1>2 DEF ThreadOK
  <2> QED
      BY <1>4, <2>1, QuoteKept
<1>7. /\ p \in {"idle"} \union Finding \union Writing \union Quoting \union Keeping
      /\ p \in Finding => r \in CreateRequests \union SelectRequests
      /\ p \in Writing =>
           /\ r \in AddRequests \union UpdateRequests \union ClearRequests \union SelectRequests
           /\ c \in CartIds
      /\ p \in Quoting \union Keeping => r \in PrepareRequests
      /\ p \in Keeping => r.key # None
      /\ p \in Quoting \union Keeping => c = r.body.cart
    BY <1>1, <1>2 DEF ThreadOK
<1> QED
    BY <1>3, <1>4, <1>5, <1>6, <1>7 DEF ThreadOK, AddsUp

\* A step that changes no row.
LEMMA RowsKept ==
    ASSUME CartInv, NEW w \in Workers, Moves(w), ThreadOK(w)',
           UNCHANGED <<price, cart, line, made, quote>>
    PROVE  CartInv'
<1>1. RowsOK'
    BY DEF CartInv, RowsOK
<1>2. Grows
    BY DEF CartInv, RowsOK, Grows
<1>3. \A v \in Workers : ThreadOK(v)'
    BY <1>2, ThreadKept DEF Moves
<1>4. \A l \in LineIds : LineAtHome(l)'
    BY DEF CartInv, LineAtHome
<1>5. ASSUME NEW q \in QuoteIds, quote'[q] # None
      PROVE  QuoteAtHome(quote[q])' /\ AddsUp(quote[q])'
    BY <1>5 DEF CartInv, QuoteAtHome, OptionOf, AddsUp
<1> QED
    BY <1>1, <1>3, <1>4, <1>5 DEF CartInv, Moves

LEMMA EndMoves ==
    ASSUME CartInv, NEW w \in Workers, End(w)
    PROVE  Moves(w) /\ ThreadOK(w)'
<1>1. Tables
    BY DEF CartInv
<1>2. Moves(w)
    BY <1>1 DEF End, GoTo, Tables, Moves, Same
<1>3. pc'[w] = "idle"
    BY <1>1 DEF End, GoTo, Tables
<1> QED
    BY <1>2, <1>3 DEF ThreadOK, Finding, Writing, Quoting, Keeping

-----------------------------------------------------------------------------
(* Steps that change no row                                                *)

LEMMA SubmitKeeps ==
    ASSUME CartInv, NEW w \in Workers, Submit(w)
    PROVE  CartInv'
<1>1. PICK r \in Requests :
         /\ req' = [req EXCEPT ![w] = r]
         /\ GoTo(w, FirstStep(r))
         /\ mine' = [mine EXCEPT ![w] = IF r.op = "create" THEN None
                                        ELSE IF r.op = "prepare" THEN r.body.cart
                                        ELSE r.cart]
    BY DEF Submit
<1>2. Tables
    BY DEF CartInv
<1>3. UNCHANGED <<price, cart, line, made, quote, seen, draft>>
    BY DEF Submit, catalogue, rows
<1>4. Moves(w)
    BY <1>1, <1>2, <1>3 DEF GoTo, Tables, Moves, Same
<1>5. pc'[w] = FirstStep(r) /\ req'[w] = r
      /\ mine'[w] = IF r.op = "create" THEN None ELSE IF r.op = "prepare" THEN r.body.cart ELSE r.cart
    BY <1>1, <1>2 DEF GoTo, Tables
<1>6. r \in AllRequests
    BY RequestsAssumption
<1>7. CASE r \in CreateRequests
  <2>1. r.op = "create"
      BY <1>7 DEF CreateRequests
  <2> QED
      BY <1>3, <1>4, <1>5, <1>7, <2>1, RowsKept
      DEF FirstStep, ThreadOK, Finding, Writing, Quoting, Keeping
<1>8. CASE r \in AddRequests \union UpdateRequests \union ClearRequests
  <2>1. r.op \in {"add", "update", "clear"} /\ r.cart \in CartIds
      BY <1>8 DEF AddRequests, UpdateRequests, ClearRequests
  <2>2. FirstStep(r) = "read"
      BY <2>1 DEF FirstStep
  <2> QED
      BY <1>3, <1>4, <1>5, <1>8, <2>1, <2>2, RowsKept
      DEF ThreadOK, Finding, Writing, Quoting, Keeping
<1>9. CASE r \in SelectRequests
  <2>1. r.op = "select" /\ r.cart \in CartIds \union {None}
      BY <1>9 DEF SelectRequests
  <2>2. FirstStep(r) = IF r.cart = None THEN "find" ELSE "read"
      BY <2>1 DEF FirstStep
  <2> QED
      BY <1>3, <1>4, <1>5, <1>9, <2>1, <2>2, RowsKept
      DEF ThreadOK, Finding, Writing, Quoting, Keeping
<1>10. CASE r \in PrepareRequests
  <2>1. r.op = "prepare"
      BY <1>10 DEF PrepareRequests
  <2>2. FirstStep(r) = IF r.key = None THEN "quote" ELSE "gate"
      BY <2>1 DEF FirstStep
  <2> QED
      BY <1>3, <1>4, <1>5, <1>10, <2>1, <2>2, RowsKept
      DEF ThreadOK, Finding, Writing, Quoting, Keeping
<1> QED
    BY <1>6, <1>7, <1>8, <1>9, <1>10 DEF AllRequests

\* The cart is known, here or after its insertion.
LEMMA FoundMoves ==
    ASSUME CartInv, NEW w \in Workers, pc[w] \in Finding, NEW c \in CartIds, Found(w, c)
    PROVE  Moves(w) /\ ThreadOK(w)'
<1>1. Tables /\ ThreadOK(w)
    BY DEF CartInv
<1>2. req[w] \in CreateRequests \union SelectRequests
    BY <1>1 DEF ThreadOK
<1>3. CASE req[w].op = "create"
    BY <1>3, EndMoves DEF Found
<1>4. CASE req[w].op # "create"
  <2>1. req[w] \in SelectRequests
      BY <1>2, <1>4 DEF CreateRequests
  <2>2. Moves(w)
      BY <1>1, <1>4 DEF Found, GoTo, Tables, Moves, Same
  <2>3. pc'[w] = "read" /\ mine'[w] = c /\ req'[w] = req[w]
      BY <1>1, <1>4 DEF Found, GoTo, Tables
  <2> QED
      BY <2>1, <2>2, <2>3 DEF ThreadOK, Finding, Writing, Quoting, Keeping
<1> QED
    BY <1>3, <1>4

LEMMA FindCartKeeps ==
    ASSUME CartInv, NEW w \in Workers, FindCart(w)
    PROVE  CartInv'
<1>1. UNCHANGED <<price, cart, line, made, quote>> /\ pc[w] = "find"
    BY DEF FindCart, catalogue, rows
<1>2. Tables /\ ThreadOK(w)
    BY DEF CartInv
<1>3. CASE End(w)
    BY <1>1, <1>3, EndMoves, RowsKept
<1>4. CASE \E c \in CartIds : Found(w, c)
    BY <1>1, <1>4, FoundMoves, RowsKept DEF Finding
<1>5. CASE GoTo(w, "insert") /\ UNCHANGED <<req, mine, seen, draft, answered>>
  <2>1. Moves(w)
      BY <1>2, <1>5 DEF GoTo, Tables, Moves, Same
  <2>2. pc'[w] = "insert" /\ req'[w] \in CreateRequests \union SelectRequests
      BY <1>1, <1>2, <1>5 DEF GoTo, Tables, ThreadOK, Finding
  <2> QED
      BY <1>1, <2>1, <2>2, RowsKept DEF ThreadOK, Finding, Writing, Quoting, Keeping
<1> QED
    BY <1>3, <1>4, <1>5 DEF FindCart, ActiveCarts

LEMMA CrashKeeps ==
    ASSUME CartInv, NEW w \in Workers, Crash(w)
    PROVE  CartInv'
BY EndMoves, RowsKept DEF Crash, catalogue, rows

\* A prepare request that goes on, with what it is working on.
LEMMA GoesOn ==
    ASSUME CartInv, NEW w \in Workers, pc[w] \in Quoting \union Keeping,
           NEW place \in {"quote", "record"}, GoTo(w, place),
           place = "record" => req[w].key # None,
           UNCHANGED <<req, mine, seen, draft>>
    PROVE  Moves(w) /\ ThreadOK(w)'
<1>1. Tables /\ ThreadOK(w)
    BY DEF CartInv
<1>2. Moves(w)
    BY <1>1 DEF GoTo, Tables, Moves, Same
<1>3. /\ pc'[w] = place
      /\ req'[w] \in PrepareRequests /\ mine'[w] = req'[w].body.cart
      /\ place = "record" => req'[w].key # None
    BY <1>1 DEF GoTo, Tables, ThreadOK
<1> QED
    BY <1>2, <1>3 DEF ThreadOK, Finding, Writing, Quoting, Keeping

LEMMA GateLookRecordKeep ==
    ASSUME CartInv, NEW w \in Workers,
           PrepareGate(w) \/ PrepareLook(w) \/ PrepareRecord(w)
    PROVE  CartInv'
<1>1. UNCHANGED <<price, cart, line, made, quote>> /\ pc[w] \in Keeping
    BY DEF PrepareGate, PrepareLook, PrepareRecord, catalogue, Keeping
<1>2. req[w].key # None
    BY <1>1 DEF CartInv, ThreadOK
<1>3. CASE End(w)
    BY <1>1, <1>3, EndMoves, RowsKept
<1>4. CASE ~End(w)
  <2>1. PICK place \in {"quote", "record"} :
          GoTo(w, place) /\ UNCHANGED <<req, mine, seen, draft>>
      BY <1>4 DEF PrepareGate, PrepareLook, PrepareRecord
  <2> QED
      BY <1>1, <1>2, <2>1, GoesOn, RowsKept
<1> QED
    BY <1>3, <1>4

\* A step of no request that changes prices at most.
LEMMA QuietKept ==
    ASSUME CartInv, price' \in [Products -> Nat],
           UNCHANGED <<cart, line, made, quote, pc, req, mine, seen, draft>>
    PROVE  CartInv'
<1>1. Grows
    BY DEF CartInv, RowsOK, Grows
<1>2. \A v \in Workers : ThreadOK(v)'
    BY <1>1, ThreadKept DEF Same
<1>3. RowsOK' /\ Tables' /\ (\A l \in LineIds : LineAtHome(l)')
    BY DEF CartInv, RowsOK, Tables, LineAtHome
<1>4. ASSUME NEW q \in QuoteIds, quote'[q] # None
      PROVE  QuoteAtHome(quote[q])' /\ AddsUp(quote[q])'
    BY <1>4 DEF CartInv, QuoteAtHome, OptionOf, AddsUp
<1> QED
    BY <1>2, <1>3, <1>4 DEF CartInv

LEMMA AgeRecordKeeps ==
    ASSUME CartInv, AgeRecord
    PROVE  CartInv'
<1>1. price' = price /\ price \in [Products -> Nat]
    BY DEF AgeRecord, catalogue, CartInv, RowsOK
<1> QED
    BY <1>1, QuietKept DEF AgeRecord

LEMMA CatalogueEventKeeps ==
    ASSUME CartInv, CatalogueEvent
    PROVE  CartInv'
<1>1. price \in [Products -> Nat]
    BY DEF CartInv, RowsOK
<1>2. CASE UNCHANGED price
    BY <1>1, <1>2, QuietKept DEF CatalogueEvent, rows
<1>3. CASE \E p \in Products, n \in Prices : price' = [price EXCEPT ![p] = n]
  <2>1. price' \in [Products -> Nat]
      BY <1>1, <1>3, CatalogueAssumption
  <2> QED
      BY <2>1, QuietKept DEF CatalogueEvent, rows
<1> QED
    BY <1>2, <1>3 DEF CatalogueEvent

-----------------------------------------------------------------------------
(* Steps that change rows                                                  *)

\* What remains to be shown of a step that changes rows.
LEMMA RowsChanged ==
    ASSUME CartInv, NEW w \in Workers, Moves(w), ThreadOK(w)', Grows, RowsOK',
           \A l \in LineIds : LineAtHome(l)',
           \A q \in QuoteIds : \/ quote'[q] = quote[q]
                               \/ QuoteAtHome(quote[q])' /\ AddsUp(quote[q])'
    PROVE  CartInv'
<1>1. \A v \in Workers : ThreadOK(v)'
    BY ThreadKept DEF Moves
<1>2. ASSUME NEW q \in QuoteIds, quote'[q] # None
      PROVE  QuoteAtHome(quote[q])' /\ AddsUp(quote[q])'
  <2>1. CASE quote'[q] = quote[q]
    <3>1. PICK x : x = quote[q] /\ x = quote'[q]
        BY <2>1
    <3>2. QuoteAtHome(x) /\ AddsUp(x) /\ IsQuote(x)
        BY <1>2, <3>1 DEF CartInv, RowsOK
    <3>3. x.cart \in CartIds
        BY <3>2 DEF IsQuote, QuoteRows
    <3>4. QuoteAtHome(x)' /\ AddsUp(x)
        BY <3>2, <3>3, QuoteKept
    <3> QED
        BY <3>1, <3>4 DEF QuoteAtHome, OptionOf, AddsUp
  <2> QED
      BY <1>2, <2>1
<1> QED
    BY <1>1, <1>2 DEF CartInv, Moves

LEMMA InsertCartKeeps ==
    ASSUME CartInv, NEW w \in Workers, InsertCart(w)
    PROVE  CartInv'
<1>1. PICK c \in CartIds :
         /\ cart[c] = None
         /\ cart' = [cart EXCEPT ![c] = [merchant |-> req[w].merchant,
                                         session |-> req[w].session, subtotal |-> 0]]
         /\ Found(w, c)
    BY DEF InsertCart
<1>2. pc[w] \in Finding /\ UNCHANGED <<price, line, made, quote>>
    BY DEF InsertCart, catalogue, Finding
<1>3. Moves(w) /\ ThreadOK(w)'
    BY <1>1, <1>2, FoundMoves
<1>4. req[w] \in CreateRequests \union SelectRequests
    BY <1>2 DEF CartInv, ThreadOK
<1>5. [merchant |-> req[w].merchant, session |-> req[w].session, subtotal |-> 0] \in CartRows
    BY <1>4 DEF CreateRequests, SelectRequests, CartRows
<1>6. RowsOK'
    BY <1>1, <1>2, <1>5 DEF CartInv, RowsOK
<1>7. \A d \in CartIds : cart[d] # None => cart'[d] = cart[d]
    BY <1>1 DEF CartInv, RowsOK
<1>8. Grows
    BY <1>2, <1>7 DEF CartInv, RowsOK, Grows
<1>9. ASSUME NEW l \in LineIds PROVE LineAtHome(l)'
  <2> SUFFICES ASSUME line[l] # None
               PROVE  /\ cart'[line[l].cart] # None
                      /\ MerchantOf[line[l].product] = cart'[line[l].cart].merchant
      BY <1>2 DEF LineAtHome
  <2>1. line[l].cart \in CartIds
      BY DEF CartInv, RowsOK, LineRows
  <2> QED
      BY <1>7, <2>1 DEF CartInv, LineAtHome
<1> QED
    BY <1>2, <1>3, <1>6, <1>8, <1>9, RowsChanged

LEMMA ReadOK ==
    ASSUME CartInv, NEW c \in CartIds, cart[c] # None
    PROVE  /\ SeenOK(Read(c), c)
           /\ Read(c).lines = RowsOf(c)
           /\ Read(c).price = price
           /\ DOMAIN RowsOf(c) = LinesOf(c)
           /\ \A l \in LinesOf(c) : RowsOf(c)[l] = line[l]
<1>1. DOMAIN RowsOf(c) = LinesOf(c) /\ \A l \in LinesOf(c) : RowsOf(c)[l] = line[l]
    BY DEF RowsOf
<1>2. Read(c).lines = RowsOf(c) /\ Read(c).price = price /\ Read(c).subtotal = cart[c].subtotal
    BY DEF Read
<1>3. cart[c].subtotal \in Nat /\ price \in [Products -> Nat]
    BY DEF CartInv, RowsOK, CartRows
<1>4. ASSUME NEW l \in LinesOf(c)
      PROVE  l \in LineIds /\ l <= made /\ line[l] \in LineRows /\ line[l].cart = c
  <2>1. l \in LineIds /\ line[l] # None /\ line[l].cart = c
      BY DEF LinesOf
  <2>2. l \in Nat /\ made \in Nat
      BY <2>1, BoundAssumption DEF LineIds, CartInv, RowsOK
  <2> QED
      BY <2>1, <2>2 DEF CartInv, RowsOK
<1> QED
    BY <1>1, <1>2, <1>3, <1>4 DEF SeenOK

LEMMA ReadCartKeeps ==
    ASSUME CartInv, NEW w \in Workers, ReadCart(w)
    PROVE  CartInv'
<1> DEFINE c == mine[w]
<1>1. UNCHANGED <<price, cart, line, made, quote>> /\ pc[w] = "read"
    BY DEF ReadCart, catalogue, rows
<1>2. Tables /\ ThreadOK(w)
    BY DEF CartInv
<1>3. CASE End(w)
    BY <1>1, <1>3, EndMoves, RowsKept
<1>4. CASE ~End(w)
  <2>1. /\ cart[c] # None /\ Accepts(c, req[w])
        /\ seen' = [seen EXCEPT ![w] = Read(c)]
        /\ GoTo(w, "write")
        /\ UNCHANGED <<req, mine, draft>>
      BY <1>4 DEF ReadCart
  <2>2. /\ c \in CartIds
        /\ req[w] \in AddRequests \union UpdateRequests \union ClearRequests \union SelectRequests
      BY <1>1, <1>2 DEF ThreadOK, Writing
  <2>3. Moves(w)
      BY <1>2, <2>1 DEF GoTo, Tables, Moves, Same
  <2>4. pc'[w] = "write" /\ req'[w] = req[w] /\ mine'[w] = c /\ seen'[w] = Read(c)
      BY <1>2, <2>1 DEF GoTo, Tables
  <2>5. SeenOK(Read(c), c)
      BY <2>1, <2>2, ReadOK
  <2>6. AcceptedOK(req[w], Read(c), c)
    <3>1. CASE req[w].op = "update"
        BY <2>1, <2>2, <3>1, ReadOK DEF Accepts, AcceptedOK
    <3>2. CASE req[w].op \in {"add", "select"}
        BY <2>1, <2>2, <3>2, ReadOK DEF Accepts, AcceptedOK, QuantityOk, Sellable
    <3> QED
        BY <3>1, <3>2 DEF AcceptedOK
  <2>7. PICK s, r, d : s = Read(c) /\ r = req[w] /\ d = c
      OBVIOUS
  <2>8. SeenOK(s, d)' /\ AcceptedOK(r, s, d)'
      BY <1>1, <2>5, <2>6, <2>7 DEF SeenOK, AcceptedOK, Target, Existing
  <2>9. SeenOK(seen[w], mine[w])' /\ AcceptedOK(req[w], seen[w], mine[w])'
      BY <2>4, <2>7, <2>8
  <2>10. ThreadOK(w)'
      BY <1>1, <2>1, <2>2, <2>4, <2>9 DEF ThreadOK, Finding, Writing, Quoting, Keeping
  <2> QED
      BY <1>1, <2>3, <2>10, RowsKept
<1> QED
    BY <1>3, <1>4
-----------------------------------------------------------------------------
(* WriteCart                                                               *)

LEMMA LinesFinite == IsFiniteSet(LineIds) /\ LineIds \subseteq Nat \ {0}
<1>1. IsFiniteSet(1..MaxLines)
    BY BoundAssumption, FS_Interval
<1> QED
    BY <1>1, BoundAssumption DEF LineIds

WriteRequests == AddRequests \union UpdateRequests \union ClearRequests \union SelectRequests

\* The line that an addition increments is one of those it has read.
LEMMA ExistingOK ==
    ASSUME NEW s, DOMAIN s.lines \subseteq LineIds, NEW p
    PROVE  \/ /\ Existing(s.lines, p) = None
              /\ \A l \in DOMAIN s.lines : s.lines[l].product # p
           \/ /\ Existing(s.lines, p) \in DOMAIN s.lines
              /\ s.lines[Existing(s.lines, p)].product = p
<1> DEFINE same == {l \in DOMAIN s.lines : s.lines[l].product = p}
<1>1. same \in SUBSET Nat
    BY LinesFinite
<1>2. CASE same = {}
    BY <1>2 DEF Existing
<1>3. CASE same # {}
  <2> HIDE DEF same
  <2>1. \E x \in same : \A y \in same : x <= y
      BY <1>1, <1>3, LeastNatural
  <2>2. Min(same) \in same
      BY <2>1 DEF Min
  <2>3. Existing(s.lines, p) = Min(same)
      BY <1>3 DEF Existing, same
  <2> QED
      BY <2>2, <2>3 DEF same
<1> QED
    BY <1>2, <1>3

LEMMA WantedOK ==
    ASSUME NEW s, NEW c, SeenOK(s, c), NEW r \in WriteRequests, AcceptedOK(r, s, c),
           NEW l \in DOMAIN s.lines \ Deleted(r, s.lines)
    PROVE  Wanted(r, s.lines, l) \in 1..MaxQuantity
<1>1. s.lines[l].quantity \in 1..MaxQuantity
    BY DEF SeenOK, LineRows
<1>2. r.op \in {"add", "update", "clear", "select"}
    BY DEF WriteRequests, AddRequests, UpdateRequests, ClearRequests, SelectRequests
<1>3. CASE r.op = "update"
  <2>1. r.quantity \in Nat
      BY <1>3 DEF WriteRequests, AddRequests, UpdateRequests, ClearRequests, SelectRequests
  <2>2. l = r.item => r.quantity # 0
      BY <1>3 DEF Deleted
  <2>3. r.quantity <= MaxQuantity
      BY <1>3 DEF AcceptedOK
  <2>4. l = r.item => r.quantity \in 1..MaxQuantity
      BY <2>1, <2>2, <2>3 DEF MaxQuantity
  <2> QED
      BY <1>1, <1>3, <2>4 DEF Wanted
<1>4. CASE r.op \in {"add", "select"}
  <2>1. r.quantity \in 1..MaxQuantity /\ Target(s.lines, r) <= MaxQuantity
      BY <1>4 DEF AcceptedOK
  <2>2. l # None
      BY LinesFinite, NoneAssumption DEF SeenOK
  <2>3. l = Existing(s.lines, r.product) => Target(s.lines, r) = s.lines[l].quantity + r.quantity
      BY <2>2 DEF Target
  <2>4. ASSUME l = Existing(s.lines, r.product)
        PROVE  Target(s.lines, r) \in 1..MaxQuantity
    <3>1. PICK m \in 1..100, n \in 1..100 : m = s.lines[l].quantity /\ n = r.quantity
        BY <1>1, <2>1 DEF MaxQuantity
    <3>2. Target(s.lines, r) = m + n /\ m + n <= 100
        BY <2>1, <2>3, <2>4, <3>1 DEF MaxQuantity
    <3> QED
        BY <3>2 DEF MaxQuantity
  <2> QED
      BY <1>1, <1>4, <2>4 DEF Wanted
<1>5. CASE r.op = "clear"
    BY <1>1, <1>5 DEF Wanted
<1> QED
    BY <1>2, <1>3, <1>4, <1>5

\* The lines that the handler keeps, as it would write them.
LEMMA KeptOK ==
    ASSUME NEW s, NEW c, SeenOK(s, c), NEW r \in WriteRequests, AcceptedOK(r, s, c)
    PROVE  /\ DOMAIN Kept(r, s) = DOMAIN s.lines \ Deleted(r, s.lines)
           /\ DOMAIN Kept(r, s) \subseteq LineIds
           /\ \A l \in DOMAIN Kept(r, s) :
                /\ Kept(r, s)[l].quantity = Wanted(r, s.lines, l)
                /\ Kept(r, s)[l].quantity \in 1..MaxQuantity
                /\ Kept(r, s)[l].price \in Nat
<1>1. DOMAIN Kept(r, s) = DOMAIN s.lines \ Deleted(r, s.lines)
    BY DEF Kept
<1>2. ASSUME NEW l \in DOMAIN s.lines \ Deleted(r, s.lines)
      PROVE  /\ Kept(r, s)[l].quantity = Wanted(r, s.lines, l)
             /\ Kept(r, s)[l].price \in Nat
  <2>1. s.lines[l] \in LineRows
      BY DEF SeenOK
  <2>2. Kept(r, s)[l] = [s.lines[l] EXCEPT !.quantity = Wanted(r, s.lines, l),
                                           !.price = s.price[s.lines[l].product]]
      BY DEF Kept
  <2>3. s.price[s.lines[l].product] \in Nat
      BY <2>1 DEF SeenOK, LineRows
  <2> QED
      BY <2>1, <2>2, <2>3 DEF LineRows
<1> QED
    BY <1>1, <1>2, WantedOK DEF SeenOK

\* What the kept lines are worth, and the inserted one.
KeptWorth(r, s) == [l \in DOMAIN Kept(r, s) |-> Kept(r, s)[l].price * Kept(r, s)[l].quantity]

InsertWorth(r, s) == IF Inserts(r, s.lines) THEN s.price[r.product] * r.quantity ELSE 0

\* The subtotal of a write is a sum over the lines that it leaves.
LEMMA NewSubtotalIsSum ==
    ASSUME NEW s, NEW c, SeenOK(s, c), NEW r \in WriteRequests, AcceptedOK(r, s, c)
    PROVE  /\ IsFiniteSet(DOMAIN Kept(r, s))
           /\ \A l \in DOMAIN Kept(r, s) : KeptWorth(r, s)[l] \in Nat
           /\ InsertWorth(r, s) \in Nat
           /\ NewSubtotal(r, s) = InsertWorth(r, s) + WeightOf(KeptWorth(r, s), DOMAIN Kept(r, s))
<1> DEFINE kept == Kept(r, s)
           D == DOMAIN kept
           w == KeptWorth(r, s)
           sum == MapThenSumSet(LAMBDA l : CalculateLineItemTotal(kept[l].price, kept[l].quantity),
                                DOMAIN kept)
           R(g) == g = [t \in SUBSET D |-> IF t = {} THEN 0 ELSE
                           kept[Chosen(t)].price * kept[Chosen(t)].quantity + g[t \ {Chosen(t)}]]
<1>1. IsFiniteSet(D) /\ \A l \in D : kept[l].price \in Nat /\ kept[l].quantity \in Nat
  <2>1. \A l \in D : kept[l].price \in Nat /\ kept[l].quantity \in 1..MaxQuantity
      BY KeptOK
  <2>2. D \subseteq LineIds
      BY KeptOK
  <2> QED
      BY <2>1, <2>2, LinesFinite, FS_Subset DEF MaxQuantity
<1>2. NewSubtotal(r, s) = InsertWorth(r, s) + sum
    BY DEF NewSubtotal, InsertWorth
<1>3. InsertWorth(r, s) \in Nat
  <2> SUFFICES ASSUME Inserts(r, s.lines) PROVE s.price[r.product] * r.quantity \in Nat
      BY DEF InsertWorth
  <2>1. r.op \in {"add", "select"}
      BY DEF Inserts
  <2>2. r.product \in Products /\ r.quantity \in Nat
      BY <2>1 DEF WriteRequests, AddRequests, UpdateRequests, ClearRequests, SelectRequests
  <2>3. s.price[r.product] \in Nat
      BY <2>2 DEF SeenOK
  <2> QED
      BY <2>2, <2>3
<1>4. \A l \in D : w[l] = kept[l].price * kept[l].quantity /\ w[l] \in Nat
    BY <1>1 DEF KeptWorth
<1>5. sum = WeightOf(w, D)
  <2> HIDE DEF kept
  <2>1. sum = (CHOOSE g : R(g))[D]
      BY DEF MapThenSumSet, MapThenFoldSet, Chosen, CalculateLineItemTotal
  <2>2. \A t \in SUBSET D : t # {} => Chosen(t) \in D
      BY DEF Chosen
  <2> HIDE DEF w
  <2>3. \A g : R(g) <=> SumRule(g, w, D)
      BY <1>4, <2>2 DEF SumRule
  <2>5. PICK g : g \in [SUBSET D -> Nat] /\ SumRule(g, w, D)
      BY <1>1, <1>4, SumTableOK
  <2> DEFINE f == CHOOSE h : R(h)
  <2>6. R(f)
    <3> HIDE DEF R
    <3> QED
        BY <2>3, <2>5
  <2> HIDE DEF f
  <2>7. SumRule(f, w, D)
      BY <2>3, <2>6
  <2>8. SumRule(SumTable(w, D), w, D)
      BY <1>1, <1>4, SumTableOK
  <2>9. f = g /\ SumTable(w, D) = g
      BY <1>1, <1>4, <2>5, <2>7, <2>8, SumsAreOne
  <2> QED
      BY <2>1, <2>9 DEF f, WeightOf
<1> QED
    BY <1>1, <1>2, <1>3, <1>4, <1>5

LEMMA NewSubtotalOK ==
    ASSUME NEW s, NEW c, SeenOK(s, c), NEW r \in WriteRequests, AcceptedOK(r, s, c)
    PROVE  NewSubtotal(r, s) \in Nat
<1>1. /\ IsFiniteSet(DOMAIN Kept(r, s))
      /\ \A l \in DOMAIN Kept(r, s) : KeptWorth(r, s)[l] \in Nat
      /\ InsertWorth(r, s) \in Nat
      /\ NewSubtotal(r, s) = InsertWorth(r, s) + WeightOf(KeptWorth(r, s), DOMAIN Kept(r, s))
    BY NewSubtotalIsSum
<1>2. WeightOf(KeptWorth(r, s), DOMAIN Kept(r, s)) \in Nat
    BY <1>1, SumType
<1> QED
    BY <1>1, <1>2

\* An UPDATE leaves a line of the cart and product it was of.
LEMMA UpdatedOK ==
    ASSUME NEW l, line[l] \in LineRows, NEW before, NEW after,
           after.quantity \in 1..MaxQuantity, after.price \in Nat
    PROVE  /\ UpdatedLine(l, before, after) \in LineRows
           /\ UpdatedLine(l, before, after).cart = line[l].cart
           /\ UpdatedLine(l, before, after).product = line[l].product
           /\ UpdatedLine(l, before, after).quantity =
                 IF after.quantity = before.quantity THEN line[l].quantity ELSE after.quantity
BY DEF UpdatedLine, LineRows

\* The rows after a write that went through.
Written(w) ==
    LET r == req[w]
        c == mine[w]
        s == seen[w]
        kept == Kept(r, s)
    IN  /\ line' = [l \in LineIds |->
              IF l \in Deleted(r, s.lines) THEN None
              ELSE IF l \in DOMAIN kept /\ line[l] # None
                   THEN UpdatedLine(l, s.lines[l], kept[l])
              ELSE IF Inserts(r, s.lines) /\ l = made + 1
                   THEN [cart |-> c, product |-> r.product,
                         quantity |-> r.quantity, price |-> s.price[r.product]]
              ELSE line[l]]
        /\ made' = IF Inserts(r, s.lines) THEN made + 1 ELSE made
        /\ cart' = IF NewSubtotal(r, s) = s.subtotal THEN cart
                   ELSE [cart EXCEPT ![c].subtotal = NewSubtotal(r, s)]
        /\ granted' = IF r.op = "clear" THEN granted ELSE Granted(r, c, s)

LEMMA WriteCases ==
    ASSUME NEW w \in Workers, WriteCart(w)
    PROVE  /\ pc[w] = "write" /\ End(w) /\ UNCHANGED <<price, quote>>
           /\ \/ Written(w)
              \/ UNCHANGED <<cart, line, made, granted>>
BY DEF WriteCart, Written, rows, catalogue

\* What a thread that writes works on.
LEMMA WritingOn ==
    ASSUME CartInv, NEW w \in Workers, pc[w] = "write"
    PROVE  /\ req[w] \in WriteRequests
           /\ mine[w] \in CartIds
           /\ cart[mine[w]] # None
           /\ SeenOK(seen[w], mine[w])
           /\ AcceptedOK(req[w], seen[w], mine[w])
BY DEF CartInv, ThreadOK, Writing, WriteRequests

\* The row of each line after a write.
LEMMA WrittenLines ==
    ASSUME CartInv, NEW w \in Workers, pc[w] = "write", Written(w),
           NEW l \in LineIds
    PROVE  \/ line'[l] = None
           \/ line'[l] = line[l]
           \/ /\ line[l] \in LineRows /\ line'[l] \in LineRows
              /\ line'[l].cart = line[l].cart /\ line'[l].product = line[l].product
              /\ l \in DOMAIN Kept(req[w], seen[w])
           \/ /\ Inserts(req[w], seen[w].lines) /\ l = made + 1
              /\ line'[l] \in LineRows
              /\ line'[l].cart = mine[w] /\ line'[l].product = req[w].product
              /\ line'[l].quantity = req[w].quantity
<1> DEFINE r == req[w]
           c == mine[w]
           s == seen[w]
<1>1. r \in WriteRequests /\ c \in CartIds /\ SeenOK(s, c) /\ AcceptedOK(r, s, c)
    BY WritingOn
<1>2. line'[l] = IF l \in Deleted(r, s.lines) THEN None
                 ELSE IF l \in DOMAIN Kept(r, s) /\ line[l] # None
                      THEN UpdatedLine(l, s.lines[l], Kept(r, s)[l])
                 ELSE IF Inserts(r, s.lines) /\ l = made + 1
                      THEN [cart |-> c, product |-> r.product,
                            quantity |-> r.quantity, price |-> s.price[r.product]]
                 ELSE line[l]
    BY DEF Written
<1>3. line[l] \in LineRows \union {None}
    BY DEF CartInv, RowsOK
<1>4. ASSUME Inserts(r, s.lines)
      PROVE  [cart |-> c, product |-> r.product,
              quantity |-> r.quantity, price |-> s.price[r.product]] \in LineRows
  <2>1. r.op \in {"add", "select"}
      BY <1>4 DEF Inserts
  <2>2. r.quantity \in 1..MaxQuantity /\ r.product \in Products
      BY <1>1, <2>1
      DEF AcceptedOK, WriteRequests, AddRequests, UpdateRequests, ClearRequests, SelectRequests
  <2>3. s.price[r.product] \in Nat
      BY <1>1, <2>2 DEF SeenOK
  <2> QED
      BY <1>1, <2>2, <2>3 DEF LineRows
<1> HIDE DEF r, c, s
<1>5. CASE l \in Deleted(r, s.lines)
    BY <1>2, <1>5
<1>6. CASE l \notin Deleted(r, s.lines) /\ l \in DOMAIN Kept(r, s) /\ line[l] # None
  <2>1. line[l] \in LineRows
      BY <1>3, <1>6
  <2>2. line'[l] = UpdatedLine(l, s.lines[l], Kept(r, s)[l])
      BY <1>2, <1>6
  <2>3. Kept(r, s)[l].quantity \in 1..MaxQuantity /\ Kept(r, s)[l].price \in Nat
      BY <1>1, <1>6, KeptOK
  <2> QED
      BY <1>6, <2>1, <2>2, <2>3, UpdatedOK DEF r, s
<1>7. CASE l \notin Deleted(r, s.lines) /\ ~(l \in DOMAIN Kept(r, s) /\ line[l] # None)
  <2>1. CASE Inserts(r, s.lines) /\ l = made + 1
    <3>1. line'[l] = [cart |-> c, product |-> r.product,
                      quantity |-> r.quantity, price |-> s.price[r.product]]
        BY <1>2, <1>7, <2>1
    <3> QED
        BY <1>4, <2>1, <3>1 DEF r, c, s
  <2>2. CASE ~(Inserts(r, s.lines) /\ l = made + 1)
      BY <1>2, <1>7, <2>2
  <2> QED
      BY <2>1, <2>2
<1> QED
    BY <1>5, <1>6, <1>7

LEMMA WrittenCarts ==
    ASSUME CartInv, NEW w \in Workers, pc[w] = "write", Written(w)
    PROVE  /\ cart' \in [CartIds -> CartRows \union {None}]
           /\ \A c \in CartIds : /\ cart'[c] = None <=> cart[c] = None
                                 /\ cart[c] # None => cart'[c].merchant = cart[c].merchant
<1> DEFINE c == mine[w]
           n == NewSubtotal(req[w], seen[w])
<1>1. c \in CartIds /\ cart[c] # None /\ n \in Nat
    BY WritingOn, NewSubtotalOK
<1>2. cart \in [CartIds -> CartRows \union {None}]
    BY DEF CartInv, RowsOK
<1>3. cart' = cart \/ cart' = [cart EXCEPT ![c].subtotal = n]
    BY DEF Written
<1> HIDE DEF c, n
<1>4. cart[c] \in CartRows
    BY <1>1, <1>2
<1>5. /\ [cart[c] EXCEPT !.subtotal = n] \in CartRows
      /\ [cart[c] EXCEPT !.subtotal = n].merchant = cart[c].merchant
    BY <1>1, <1>4 DEF CartRows
<1>6. CASE cart' = cart
    BY <1>2, <1>6
<1>7. CASE cart' = [cart EXCEPT ![c].subtotal = n]
  <2>1. cart' = [cart EXCEPT ![c] = [cart[c] EXCEPT !.subtotal = n]]
      BY <1>7
  <2>2. cart'[c] = [cart[c] EXCEPT !.subtotal = n] /\ \A d \in CartIds \ {c} : cart'[d] = cart[d]
      BY <1>1, <1>2, <2>1
  <2>3. cart' \in [CartIds -> CartRows \union {None}]
      BY <1>2, <1>5, <2>1
  <2>4. cart'[c] # None
      BY <1>5, <2>2, NoneAssumption
  <2> QED
      BY <1>1, <1>5, <2>2, <2>3, <2>4
<1> QED
    BY <1>3, <1>6, <1>7

LEMMA WriteCartKeeps ==
    ASSUME CartInv, NEW w \in Workers, WriteCart(w)
    PROVE  CartInv'
<1>1. pc[w] = "write" /\ UNCHANGED <<price, quote>> /\ Moves(w) /\ ThreadOK(w)'
    BY WriteCases, EndMoves
<1>2. CASE UNCHANGED <<cart, line, made>>
    BY <1>1, <1>2, RowsKept
<1>3. CASE Written(w)
  <2>1. made \in Nat /\ made' = IF Inserts(req[w], seen[w].lines) THEN made + 1 ELSE made
      BY <1>3 DEF Written, CartInv, RowsOK
  <2>2. made' \in Nat /\ made <= made'
      BY <2>1
  <2>3. \A l \in LineIds : l \in Nat
      BY LinesFinite
  <2>4. \A l \in LineIds : line[l] # None => l <= made
      BY <2>1, <2>3 DEF CartInv, RowsOK
  <2>5. SeenOK(seen[w], mine[w]) /\ DOMAIN Kept(req[w], seen[w]) \subseteq DOMAIN seen[w].lines
      BY <1>1, WritingOn, KeptOK, ZenonT(40)
  <2>6. ASSUME NEW l \in LineIds
        PROVE  \/ line'[l] = None
               \/ /\ line[l] # None /\ line'[l] # None /\ line'[l] \in LineRows
                  /\ line'[l].cart = line[l].cart /\ line'[l].product = line[l].product
               \/ /\ l = made + 1 /\ made' = made + 1
                  /\ line'[l] \in LineRows
                  /\ line'[l].cart = mine[w] /\ line'[l].product = req[w].product
                  /\ req[w].op \in {"add", "select"}
    <3>1. line[l] \in LineRows \union {None}
        BY DEF CartInv, RowsOK
    <3> QED
        BY <1>1, <1>3, <2>1, <3>1, WrittenLines, NoneAssumption DEF Inserts
  <2>7. Grows
    <3>1. \A l \in LineIds : l <= made => l # made + 1
        BY <2>1, <2>3
    <3> QED
        BY <1>1, <1>3, <2>2, <2>6, <3>1, WrittenCarts DEF Grows
  <2>8. RowsOK'
    <3>1. line' \in [LineIds -> LineRows \union {None}]
      <4>1. line' = [l \in LineIds |-> line'[l]]
          BY <1>3 DEF Written
      <4> QED
          BY <2>6, <4>1
    <3>2. ASSUME NEW l \in LineIds, l > made' PROVE line'[l] = None
      <4>1. (l > made /\ l # made + 1) \/ made' # made + 1
          BY <2>1, <2>3, <3>2
      <4>2. l > made
          BY <2>1, <2>2, <2>3, <3>2
      <4>3. line[l] = None
          BY <4>2 DEF CartInv, RowsOK
      <4> QED
          BY <2>6, <4>1, <4>3
    <3> QED
        BY <1>1, <1>3, <2>2, <3>1, <3>2, WrittenCarts DEF CartInv, RowsOK
  <2>9. ASSUME NEW l \in LineIds PROVE LineAtHome(l)'
    <3>1. CASE line'[l] = None
        BY <3>1 DEF LineAtHome
    <3>2. CASE /\ line[l] # None /\ line'[l] # None
               /\ line'[l].cart = line[l].cart /\ line'[l].product = line[l].product
      <4>1. LineAtHome(l) /\ line[l].cart \in CartIds
          BY <3>2 DEF CartInv, RowsOK, LineRows
      <4> QED
          BY <1>1, <1>3, <3>2, <4>1, WrittenCarts DEF LineAtHome
    <3>3. CASE /\ line'[l].cart = mine[w] /\ line'[l].product = req[w].product
               /\ req[w].op \in {"add", "select"}
      <4>1. mine[w] \in CartIds /\ cart[mine[w]] # None
            /\ MerchantOf[req[w].product] = cart[mine[w]].merchant
          BY <1>1, <3>3, WritingOn DEF AcceptedOK
      <4> QED
          BY <1>1, <1>3, <3>3, <4>1, WrittenCarts DEF LineAtHome
    <3> QED
        BY <2>6, <3>1, <3>2, <3>3
  <2> QED
      BY <1>1, <2>7, <2>8, <2>9, RowsChanged
<1> QED
    BY <1>2, <1>3, WriteCases
-----------------------------------------------------------------------------
(* Quotes                                                                  *)

LEMMA SnapshotOK ==
    ASSUME CartInv, NEW c \in CartIds
    PROVE  /\ DOMAIN Snapshot(c) = LinesOf(c) /\ LinesOf(c) \in SUBSET LineIds
           /\ Snapshot(c) \in [LinesOf(c) -> ItemRows]
           /\ \A l \in LinesOf(c) : /\ MerchantOf[Snapshot(c)[l].product] = cart[c].merchant
                                    /\ Snapshot(c)[l].price \in Nat
                                    /\ Snapshot(c)[l].quantity \in Nat
<1>1. DOMAIN Snapshot(c) = LinesOf(c) /\ LinesOf(c) \in SUBSET LineIds
    BY DEF Snapshot, LinesOf
<1>2. ASSUME NEW l \in LinesOf(c)
      PROVE  /\ Snapshot(c)[l] = [product |-> line[l].product, quantity |-> line[l].quantity,
                                  price |-> price[line[l].product]]
             /\ line[l].product \in Products
             /\ line[l].quantity \in Nat
             /\ price[line[l].product] \in Nat
             /\ MerchantOf[line[l].product] = cart[c].merchant
  <2>1. l \in LineIds /\ line[l] # None /\ line[l].cart = c
      BY DEF LinesOf
  <2>2. line[l] \in LineRows /\ LineAtHome(l) /\ price \in [Products -> Nat]
      BY <2>1 DEF CartInv, RowsOK
  <2>3. line[l].quantity \in 1..MaxQuantity /\ line[l].product \in Products
      BY <2>2 DEF LineRows
  <2>4. line[l].quantity \in Nat
      BY <2>3 DEF MaxQuantity
  <2> QED
      BY <2>1, <2>2, <2>3, <2>4 DEF Snapshot, LineAtHome
<1>3. ASSUME NEW l \in LinesOf(c) PROVE Snapshot(c)[l] \in ItemRows
  <2>1. PICK p \in Products, n \in Nat, m \in Nat :
          p = line[l].product /\ n = line[l].quantity /\ m = price[line[l].product]
      BY <1>2
  <2>2. Snapshot(c)[l] = [product |-> p, quantity |-> n, price |-> m]
      BY <1>2, <2>1
  <2> QED
      BY <2>2 DEF ItemRows
<1>4. Snapshot(c) = [l \in LinesOf(c) |-> Snapshot(c)[l]]
    BY DEF Snapshot
<1>5. Snapshot(c) \in [LinesOf(c) -> ItemRows]
    BY <1>3, <1>4
<1> QED
    BY <1>1, <1>2, <1>5

LEMMA ChoiceOK ==
    ASSUME NEW m, NEW wanted, NEW option \in ShippingChoices(m, wanted)
    PROVE  option = None \/ (option \in Options /\ option.merchant = m)
BY DEF ShippingChoices, ValidOptions, CheapestOptions, GetShippingOptions

LEMMA QuoteOfOK ==
    ASSUME CartInv, NEW c \in CartIds, NEW body \in Bodies, cart[c] # None,
           LinesOf(c) # {}, NEW option \in ShippingChoices(cart[c].merchant, body.option)
    PROVE  /\ IsQuote(QuoteOf(c, body, option))
           /\ QuoteOf(c, body, option).cart = c
           /\ QuoteAtHome(QuoteOf(c, body, option))
           /\ AddsUp(QuoteOf(c, body, option))
<1> DEFINE m        == cart[c].merchant
           items    == Snapshot(c)
           subtotal == CalculateSubtotal(items)
           promos   == Applicable(Promos, m, body.promo, subtotal)
           discount == IF promos = {} THEN 0
                       ELSE DiscountOf(CHOOSE d \in promos : TRUE, subtotal)
           shipping == IF option = None THEN 0 ELSE ShippingCost(option, subtotal)
           tax      == CalculateTax(Less(subtotal, discount))
           x        == QuoteOf(c, body, option)
           session  == IF body.session # None THEN body.session ELSE cart[c].session
           named    == IF option = None THEN None ELSE option.id
           total    == ComputeGrandTotal(subtotal, discount, shipping, tax)
<1>1. x = [cart |-> c, merchant |-> m, session |-> session, items |-> items,
           subtotal |-> subtotal, discount |-> discount, shipping |-> shipping,
           tax |-> tax, total |-> total, option |-> named]
    BY DEF QuoteOf
<1>2. /\ DOMAIN items = LinesOf(c) /\ LinesOf(c) \in SUBSET LineIds
      /\ items \in [LinesOf(c) -> ItemRows]
      /\ \A l \in LinesOf(c) : /\ MerchantOf[items[l].product] = m
                               /\ items[l].price \in Nat /\ items[l].quantity \in Nat
    BY SnapshotOK
<1>3. m \in Merchants /\ cart[c].session \in Clients \union {None}
    BY DEF CartInv, RowsOK, CartRows
<1>4. session \in Clients \union {None}
    BY <1>3 DEF Bodies
<1>5. option = None \/ (option \in Options /\ option.merchant = m)
    BY ChoiceOK
<1>6. named \in Codes \union {None} /\ OptionOf(m, named)
    BY <1>5, CatalogueAssumption DEF OptionOf
<1> HIDE DEF items, m, session, named
<1>7. subtotal \in Nat
    BY <1>2, LinesFinite, FS_Subset, SubtotalIsAmount
<1> HIDE DEF subtotal
<1>8. discount \in Nat /\ discount <= subtotal
  <2>1. CASE promos = {}
      BY <1>7, <2>1
  <2>2. CASE promos # {}
    <3>1. (CHOOSE d \in promos : TRUE) \in promos
        BY <2>2
    <3>2. promos \subseteq PromoRows
        BY CatalogueAssumption DEF Applicable
    <3> HIDE DEF promos
    <3>3. PICK d \in PromoRows : d = (CHOOSE e \in promos : TRUE)
        BY <3>1, <3>2
    <3>4. discount = DiscountOf(d, subtotal)
        BY <2>2, <3>3
    <3> QED
        BY <1>7, <3>4, DiscountBounded
  <2> QED
      BY <2>1, <2>2
<1>9. shipping \in Nat
    BY <1>5, CatalogueAssumption DEF ShippingCost
<1> HIDE DEF discount, shipping
<1>10. Less(subtotal, discount) \in Nat /\ Less(subtotal, discount) + discount = subtotal
      /\ Less(subtotal, discount) = subtotal - discount
    BY <1>7, <1>8 DEF Less
<1>11. tax \in Nat /\ 100 * tax <= 18 * Less(subtotal, discount) + 50
    BY <1>10, TaxBounded
<1> HIDE DEF tax
<1>12. total = Less(subtotal, discount) + shipping + tax
    BY DEF ComputeGrandTotal
<1>13. total \in Nat /\ total + discount = subtotal + shipping + tax
    BY <1>7, <1>8, <1>9, <1>10, <1>11, <1>12
<1> HIDE DEF total, x
<1>14. x \in QuoteRows(LinesOf(c))
    BY <1>1, <1>2, <1>3, <1>4, <1>6, <1>7, <1>8, <1>9, <1>11, <1>13 DEF QuoteRows
<1>15. IsQuote(x)
    BY <1>2, <1>14 DEF IsQuote
<1>16. QuoteAtHome(x)
    BY <1>1, <1>2, <1>6 DEF QuoteAtHome, m
<1>17. 100 * tax <= 18 * (subtotal - discount) + 50
    BY <1>10, <1>11
<1>18. AddsUp(x)
    BY <1>1, <1>2, <1>8, <1>13, <1>17 DEF AddsUp
<1> QED
    BY <1>1, <1>15, <1>16, <1>18 DEF x

LEMMA PrepareReadKeeps ==
    ASSUME CartInv, NEW w \in Workers, PrepareRead(w)
    PROVE  CartInv'
<1> DEFINE c == mine[w]
<1>1. UNCHANGED <<price, cart, line, made, quote>> /\ pc[w] = "quote"
    BY DEF PrepareRead, catalogue, rows
<1>2. Tables /\ ThreadOK(w)
    BY DEF CartInv
<1>3. CASE End(w)
    BY <1>1, <1>3, EndMoves, RowsKept
<1>4. CASE ~End(w)
  <2>1. PICK option \in ShippingChoices(cart[c].merchant, req[w].body.option) :
           draft' = [draft EXCEPT ![w] = QuoteOf(c, req[w].body, option)]
      BY <1>4 DEF PrepareRead
  <2>2. /\ Quotable(c, Caller(req[w]))
        /\ seen' = [seen EXCEPT ![w] = Read(c)]
        /\ GoTo(w, "save")
        /\ UNCHANGED <<req, mine>>
      BY <1>4 DEF PrepareRead
  <2>3. req[w] \in PrepareRequests /\ c = req[w].body.cart
      BY <1>1, <1>2 DEF ThreadOK, Quoting
  <2>4. req[w].body \in Bodies /\ c \in CartIds /\ cart[c] # None /\ LinesOf(c) # {}
      BY <2>2, <2>3 DEF PrepareRequests, Bodies, Quotable
  <2>5. Moves(w)
      BY <1>2, <2>1, <2>2 DEF GoTo, Tables, Moves, Same
  <2>6. PICK x, s, d : x = QuoteOf(c, req[w].body, option) /\ s = Read(c) /\ d = c
      OBVIOUS
  <2>7. /\ pc'[w] = "save" /\ req'[w] = req[w] /\ mine'[w] = d
        /\ seen'[w] = s /\ draft'[w] = x
      BY <1>2, <2>1, <2>2, <2>6 DEF GoTo, Tables
  <2>8. IsQuote(x) /\ x.cart = d /\ QuoteAtHome(x) /\ AddsUp(x)
      BY <2>1, <2>4, <2>6, QuoteOfOK
  <2>9. SeenOK(s, d)
      BY <2>4, <2>6, ReadOK
  <2>10. QuoteAtHome(x)' /\ SeenOK(s, d)'
      BY <1>1, <2>8, <2>9 DEF QuoteAtHome, OptionOf, SeenOK
  <2>11. cart'[d] # None
      BY <1>1, <2>4, <2>6
  <2>12. ThreadOK(w)'
      BY <2>3, <2>6, <2>7, <2>8, <2>10, <2>11
      DEF ThreadOK, Finding, Writing, Quoting, Keeping, AddsUp
  <2> QED
      BY <1>1, <2>5, <2>12, RowsKept
<1> QED
    BY <1>3, <1>4

LEMMA PrepareSaveKeeps ==
    ASSUME CartInv, NEW w \in Workers, PrepareSave(w)
    PROVE  CartInv'
<1> DEFINE s == seen[w]
<1>1. UNCHANGED <<price, cart, made>> /\ pc[w] = "save"
    BY DEF PrepareSave, catalogue, rows
<1>2. Tables /\ ThreadOK(w) /\ RowsOK
    BY DEF CartInv
<1>3. /\ req[w] \in PrepareRequests /\ mine[w] = req[w].body.cart
      /\ SeenOK(s, mine[w])
      /\ IsQuote(draft[w]) /\ QuoteAtHome(draft[w]) /\ AddsUp(draft[w])
    BY <1>1, <1>2 DEF ThreadOK, Quoting
<1>4. CASE End(w) /\ UNCHANGED rows
    BY <1>1, <1>4, EndMoves, RowsKept DEF rows
<1>5. CASE ~(End(w) /\ UNCHANGED rows)
  <2>1. line' = [l \in LineIds |->
            IF l \in DOMAIN s.lines /\ line[l] # None
            THEN UpdatedLine(l, s.lines[l], Repriced(s)[l]) ELSE line[l]]
      BY <1>5 DEF PrepareSave
  <2>2. PICK q \in QuoteIds :
           /\ quote' = [quote EXCEPT ![q] = draft[w]]
           /\ IF req[w].key = None THEN End(w)
              ELSE /\ draft' = [draft EXCEPT ![w] = q]
                   /\ GoTo(w, "look")
                   /\ UNCHANGED <<req, mine, seen, answered>>
      BY <1>5 DEF PrepareSave
  <2>3. Moves(w) /\ ThreadOK(w)'
    <3>1. CASE req[w].key = None
        BY <2>2, <3>1, EndMoves
    <3>2. CASE req[w].key # None
      <4>1. Moves(w)
          BY <1>2, <2>2, <3>2 DEF GoTo, Tables, Moves, Same
      <4>2. pc'[w] = "look" /\ req'[w] = req[w] /\ mine'[w] = mine[w]
          BY <1>2, <2>2, <3>2 DEF GoTo, Tables
      <4> QED
          BY <1>3, <3>2, <4>1, <4>2 DEF ThreadOK, Finding, Writing, Quoting, Keeping
    <3> QED
        BY <3>1, <3>2
  <2>4. ASSUME NEW l \in LineIds
        PROVE  \/ line'[l] = None /\ line[l] = None
               \/ /\ line[l] \in LineRows /\ line'[l] \in LineRows
                  /\ line'[l].cart = line[l].cart /\ line'[l].product = line[l].product
    <3>1. line[l] \in LineRows \union {None}
        BY <1>2 DEF RowsOK
    <3>2. CASE l \in DOMAIN s.lines /\ line[l] # None
      <4>1. s.lines[l] \in LineRows
          BY <1>3, <3>2 DEF SeenOK
      <4>2. Repriced(s)[l] = [s.lines[l] EXCEPT !.price = s.price[s.lines[l].product]]
          BY <3>2 DEF Repriced
      <4>3. s.price[s.lines[l].product] \in Nat
          BY <1>3, <4>1 DEF SeenOK, LineRows
      <4>4. Repriced(s)[l].quantity \in 1..MaxQuantity /\ Repriced(s)[l].price \in Nat
          BY <4>1, <4>2, <4>3 DEF LineRows
      <4>5. line'[l] = UpdatedLine(l, s.lines[l], Repriced(s)[l])
          BY <2>1, <3>2
      <4> QED
          BY <3>1, <3>2, <4>4, <4>5, UpdatedOK
    <3>3. CASE ~(l \in DOMAIN s.lines /\ line[l] # None)
        BY <2>1, <3>1, <3>3
    <3> QED
        BY <3>2, <3>3
  <2>5. \A l \in LineIds : line[l] # None <=> line'[l] # None
      BY <2>4, NoneAssumption
  <2>6. RowsOK'
    <3>1. line' \in [LineIds -> LineRows \union {None}]
        BY <2>1, <2>4
    <3>2. \A l \in LineIds : l > made' => line'[l] = None
        BY <1>1, <1>2, <2>5 DEF RowsOK
    <3>3. /\ quote' = [p \in QuoteIds |-> quote'[p]]
          /\ \A p \in QuoteIds : quote'[p] = None \/ IsQuote(quote'[p])
        BY <1>2, <1>3, <2>2 DEF RowsOK
    <3> QED
        BY <1>1, <1>2, <3>1, <3>2, <3>3 DEF RowsOK
  <2>7. Grows
      BY <1>1, <1>2, <2>4, <2>5 DEF Grows, RowsOK
  <2>8. \A l \in LineIds : LineAtHome(l)'
      BY <1>1, <2>4, <2>5 DEF CartInv, LineAtHome
  <2>9. ASSUME NEW p \in QuoteIds
        PROVE  \/ quote'[p] = quote[p]
               \/ QuoteAtHome(quote[p])' /\ AddsUp(quote[p])'
    <3>1. CASE p = q
      <4>1. quote'[p] = draft[w]
          BY <1>2, <2>2, <3>1 DEF RowsOK
      <4> QED
          BY <1>1, <1>3, <4>1 DEF QuoteAtHome, OptionOf, AddsUp
    <3>2. CASE p # q
        BY <1>2, <2>2, <3>2 DEF RowsOK
    <3> QED
        BY <3>1, <3>2
  <2> QED
      BY <2>3, <2>6, <2>7, <2>8, <2>9, RowsChanged
<1> QED
    BY <1>4, <1>5

-----------------------------------------------------------------------------
(* The invariant holds                                                     *)

LEMMA CartInvInit == CartInit => CartInv
<1> SUFFICES ASSUME CartInit PROVE CartInv
    OBVIOUS
<1>1. RowsOK
    BY CatalogueAssumption, FirstCartsAssumption DEF CartInit, RowsOK
<1>2. Tables
    BY DEF CartInit, Tables
<1>3. \A l \in LineIds : LineAtHome(l)
    BY DEF CartInit, LineAtHome
<1>4. \A q \in QuoteIds : quote[q] = None
    BY DEF CartInit
<1>5. \A w \in Workers : ThreadOK(w)
    BY DEF CartInit, ThreadOK, Finding, Writing, Quoting, Keeping
<1> QED
    BY <1>1, <1>2, <1>3, <1>4, <1>5 DEF CartInv

LEMMA CartInvStep == CartInv /\ [CartNext]_cartVars => CartInv'
<1> SUFFICES ASSUME CartInv, [CartNext]_cartVars PROVE CartInv'
    OBVIOUS
<1>1. CASE UNCHANGED cartVars
  <2>1. price' \in [Products -> Nat]
      BY <1>1 DEF cartVars, CartInv, RowsOK
  <2> QED
      BY <1>1, <2>1, QuietKept DEF cartVars
<1>2. ASSUME NEW w \in Workers, Submit(w) \/ FindCart(w) \/ InsertCart(w) \/ ReadCart(w)
      PROVE  CartInv'
    BY <1>2, SubmitKeeps, FindCartKeeps, InsertCartKeeps, ReadCartKeeps
<1>3. ASSUME NEW w \in Workers, WriteCart(w) \/ PrepareRead(w) \/ PrepareSave(w) \/ Crash(w)
      PROVE  CartInv'
    BY <1>3, WriteCartKeeps, PrepareReadKeeps, PrepareSaveKeeps, CrashKeeps
<1>4. ASSUME NEW w \in Workers, PrepareGate(w) \/ PrepareLook(w) \/ PrepareRecord(w)
      PROVE  CartInv'
    BY <1>4, GateLookRecordKeep
<1> QED
    BY <1>1, <1>2, <1>3, <1>4, CatalogueEventKeeps, AgeRecordKeeps DEF CartNext

LEMMA CartInvAlways == CartSpec => []CartInv
BY CartInvInit, CartInvStep, PTL DEF CartSpec

\* Carts and quotes stay with one merchant (OneMerchantPerCart), however many
\* threads add, select and quote: add_item_to_cart compares the product's
\* merchant with a cart it read earlier, and no handler moves a cart.
THEOREM OneMerchant == CartSpec => []OneMerchantPerCart
<1>1. CartInv => OneMerchantPerCart
    BY DEF CartInv, OneMerchantPerCart, LineAtHome, QuoteAtHome, OptionOf
<1> QED
    BY <1>1, CartInvAlways, PTL

\* What a quote charges is consistent (QuoteAddsUp) for every price, cost and
\* promotion there can be: prepare_checkout rounds, caps and subtracts without
\* losing or inventing a paisa.
THEOREM QuotesAddUp == CartSpec => []QuoteAddsUp
<1>1. CartInv => QuoteAddsUp
    BY DEF CartInv, QuoteAddsUp, AddsUp
<1> QED
    BY <1>1, CartInvAlways, PTL

-----------------------------------------------------------------------------
(* Units that callers were granted                                         *)

HeldBy(c, p) == {l \in LinesOf(c) : line[l].product = p}

\* Some share of what was granted explains each line, and what each request
\* has read of a line it is about to write.
Explains(share) ==
    /\ \A l \in LineIds : l > made => share[l] = 0
    /\ \A c \in CartIds, p \in Products : WeightOf(share, HeldBy(c, p)) <= granted[c][p]
    /\ \A l \in LineIds : line[l] # None => line[l].quantity <= share[l]
    /\ \A w \in Workers : pc[w] = "write" =>
          \A l \in DOMAIN seen[w].lines : seen[w].lines[l].quantity <= share[l]

GrantInv ==
    /\ granted \in [CartIds -> [Products -> Nat]]
    /\ \E share \in [LineIds -> Nat] : Explains(share)

\* The units that a cart holds are a sum over its lines.
LEMMA UnitsAreSum ==
    ASSUME CartInv, NEW c \in CartIds, NEW p \in Products
    PROVE  UnitsIn(c, p) = WeightOf([l \in LineIds |-> line[l].quantity], HeldBy(c, p))
<1> DEFINE D == HeldBy(c, p)
           w == [l \in LineIds |-> line[l].quantity]
           R(g) == g = [t \in SUBSET D |-> IF t = {} THEN 0 ELSE
                           line[Chosen(t)].quantity + g[t \ {Chosen(t)}]]
<1>1. D \subseteq LineIds /\ IsFiniteSet(D)
    BY LinesFinite, FS_Subset DEF HeldBy, LinesOf
<1>2. \A l \in D : w[l] \in Nat
  <2> SUFFICES ASSUME NEW l \in D PROVE line[l].quantity \in Nat
      BY <1>1
  <2>1. line[l] \in LineRows
      BY DEF HeldBy, LinesOf, CartInv, RowsOK
  <2>2. line[l].quantity \in 1..MaxQuantity
      BY <2>1 DEF LineRows
  <2> QED
      BY <2>2 DEF MaxQuantity
<1>3. UnitsIn(c, p) = (CHOOSE g : R(g))[D]
    BY DEF UnitsIn, HeldBy, MapThenSumSet, MapThenFoldSet, Chosen
<1>4. \A t \in SUBSET D : t # {} => Chosen(t) \in LineIds
    BY <1>1 DEF Chosen
<1>5. \A g : R(g) <=> SumRule(g, w, D)
    BY <1>4 DEF SumRule
<1> HIDE DEF w, D
<1>6. PICK g : g \in [SUBSET D -> Nat] /\ SumRule(g, w, D)
    BY <1>1, <1>2, SumTableOK
<1> DEFINE f == CHOOSE h : R(h)
<1>7. R(f)
  <2> HIDE DEF R
  <2> QED
      BY <1>5, <1>6
<1> HIDE DEF f
<1>8. SumRule(f, w, D)
    BY <1>5, <1>7
<1>9. SumRule(SumTable(w, D), w, D)
    BY <1>1, <1>2, SumTableOK
<1>10. f = g /\ SumTable(w, D) = g
    BY <1>1, <1>2, <1>6, <1>8, <1>9, SumsAreOne
<1> QED
    BY <1>3, <1>10 DEF f, WeightOf, w, D

LEMMA HeldFinite ==
    ASSUME NEW c, NEW p
    PROVE  HeldBy(c, p) \in SUBSET LineIds /\ IsFiniteSet(HeldBy(c, p))
BY LinesFinite, FS_Subset DEF HeldBy, LinesOf

LEMMA GrantsExplainUnits == CartInv /\ GrantInv => NothingFromNowhere
<1> SUFFICES ASSUME CartInv, GrantInv, NEW c \in CartIds, NEW p \in Products
             PROVE  UnitsIn(c, p) <= granted[c][p]
    BY DEF NothingFromNowhere
<1>1. PICK share \in [LineIds -> Nat] : Explains(share)
    BY DEF GrantInv
<1>2. PICK D, w : D = HeldBy(c, p) /\ w = [l \in LineIds |-> line[l].quantity]
    OBVIOUS
<1>3. D \in SUBSET LineIds /\ IsFiniteSet(D)
    BY <1>2, HeldFinite
<1>4. ASSUME NEW l \in D PROVE w[l] \in Nat /\ share[l] \in Nat /\ w[l] <= share[l]
  <2>1. l \in LineIds /\ line[l] # None /\ line[l] \in LineRows
      BY <1>2 DEF HeldBy, LinesOf, CartInv, RowsOK
  <2>2. line[l].quantity \in 1..MaxQuantity
      BY <2>1 DEF LineRows
  <2>3. w[l] = line[l].quantity /\ w[l] \in Nat
      BY <1>2, <2>1, <2>2 DEF MaxQuantity
  <2> QED
      BY <1>1, <2>1, <2>3 DEF Explains
<1>5. WeightOf(w, D) <= WeightOf(share, D)
    BY <1>3, <1>4, SumMonotone
<1>6. WeightOf(share, D) <= granted[c][p]
    BY <1>1, <1>2 DEF Explains
<1>7. WeightOf(w, D) \in Nat /\ WeightOf(share, D) \in Nat /\ granted[c][p] \in Nat
    BY <1>3, <1>4, SumType DEF GrantInv
<1>8. UnitsIn(c, p) = WeightOf(w, D)
    BY <1>2, UnitsAreSum
<1> QED
    BY <1>5, <1>6, <1>7, <1>8

\* A step that adds no unit to a line.
LEMMA SharesKept ==
    ASSUME CartInv, NEW w \in Workers, GrantInv,
           granted' \in [CartIds -> [Products -> Nat]],
           \A c \in CartIds, p \in Products : granted[c][p] <= granted'[c][p],
           made' \in Nat, made <= made',
           NEW share \in [LineIds -> Nat], Explains(share),
           \A v \in Workers \ {w} : pc'[v] = pc[v] /\ seen'[v] = seen[v],
           pc'[w] = "write" => \A l \in DOMAIN seen'[w].lines :
                                  seen'[w].lines[l].quantity <= share[l],
           \A l \in LineIds :
              \/ line'[l] = None
              \/ line'[l] = line[l]
              \/ /\ line[l] # None
                 /\ line'[l].cart = line[l].cart /\ line'[l].product = line[l].product
                 /\ line'[l].quantity = line[l].quantity
    PROVE  GrantInv'
<1>1. ASSUME NEW c \in CartIds, NEW p \in Products
      PROVE  WeightOf(share, HeldBy(c, p)') <= granted'[c][p]
  <2>1. PICK D, E : D = HeldBy(c, p) /\ E = HeldBy(c, p)'
      OBVIOUS
  <2>2. E \in SUBSET D
      BY <2>1 DEF HeldBy, LinesOf
  <2>3. D \in SUBSET LineIds /\ IsFiniteSet(D)
      BY <2>1, HeldFinite
  <2>4. IsFiniteSet(E)
      BY <2>2, <2>3, FS_Subset
  <2>5. WeightOf(share, E) <= WeightOf(share, D)
      BY <2>2, <2>3, SumOfPart
  <2>6. WeightOf(share, E) \in Nat /\ WeightOf(share, D) \in Nat
      BY <2>2, <2>3, <2>4, SumType
  <2>7. WeightOf(share, D) <= granted[c][p] /\ granted[c][p] \in Nat
        /\ granted'[c][p] \in Nat /\ granted[c][p] <= granted'[c][p]
      BY <2>1 DEF Explains, GrantInv
  <2> QED
      BY <2>1, <2>5, <2>6, <2>7
<1>2. \A l \in LineIds : line'[l] # None => line'[l].quantity <= share[l]
    BY DEF Explains
<1>3. ASSUME NEW v \in Workers, pc'[v] = "write"
      PROVE  \A l \in DOMAIN seen'[v].lines : seen'[v].lines[l].quantity <= share[l]
    BY <1>3 DEF Explains
<1>4. ASSUME NEW l \in LineIds, l > made' PROVE share[l] = 0
  <2>1. l \in Nat /\ made \in Nat
      BY LinesFinite DEF CartInv, RowsOK
  <2>2. l > made
      BY <1>4, <2>1
  <2> QED
      BY <2>2 DEF Explains
<1>5. Explains(share)'
    BY <1>1, <1>2, <1>3, <1>4 DEF Explains
<1> QED
    BY <1>5 DEF GrantInv

\* What grants stay as they are.
LEMMA GrantsStay ==
    ASSUME GrantInv, granted' = granted
    PROVE  /\ granted' \in [CartIds -> [Products -> Nat]]
           /\ \A c \in CartIds, p \in Products : granted[c][p] <= granted'[c][p]
BY DEF GrantInv

LEMMA RaisedOnce ==
    ASSUME NEW f \in [CartIds -> [Products -> Nat]],
           NEW c \in CartIds, NEW p \in Products, NEW n \in Nat, NEW g,
           g = [f EXCEPT ![c][p] = @ + n]
    PROVE  /\ g \in [CartIds -> [Products -> Nat]]
           /\ \A d \in CartIds, q \in Products : f[d][q] <= g[d][q]
<1> DEFINE row == [f[c] EXCEPT ![p] = @ + n]
<1>1. row \in [Products -> Nat] /\ \A q \in Products : f[c][q] <= row[q]
    OBVIOUS
<1>2. g = [f EXCEPT ![c] = row]
    OBVIOUS
<1> HIDE DEF row
<1> QED
    BY <1>1, <1>2

\* A step of w that adds n units of p to c, all of them on the line t.
Raised(w, c, p, n, t, share) ==
    /\ granted' = [granted EXCEPT ![c][p] = @ + n]
    /\ \A v \in Workers \ {w} : pc'[v] = pc[v] /\ seen'[v] = seen[v]
    /\ pc'[w] # "write"
    /\ \A l \in LineIds \ {t} :
          \/ line'[l] = None
          \/ line'[l] = line[l]
          \/ /\ line[l] # None
             /\ line'[l].cart = line[l].cart /\ line'[l].product = line[l].product
             /\ line'[l].quantity = line[l].quantity
    /\ line'[t] # None => /\ line'[t].cart = c /\ line'[t].product = p
                          /\ line'[t].quantity <= share[t] + n
                          /\ line[t] # None => line[t].cart = c /\ line[t].product = p
    /\ line'[t] # None /\ line[t] = None => share[t] = 0
    /\ made' \in Nat /\ made <= made' /\ t <= made'

LEMMA SharesRaised ==
    ASSUME CartInv, NEW w \in Workers, GrantInv,
           NEW c \in CartIds, NEW p \in Products, NEW n \in Nat, NEW t \in LineIds,
           NEW share \in [LineIds -> Nat], Explains(share),
           Raised(w, c, p, n, t, share)
    PROVE  GrantInv'
<1> USE DEF Raised
<1> DEFINE more == [share EXCEPT ![t] = share[t] + n]
<1>0. /\ more \in [LineIds -> Nat] /\ more[t] = share[t] + n
      /\ \A l \in LineIds \ {t} : more[l] = share[l]
      /\ \A l \in LineIds : share[l] \in Nat /\ more[l] \in Nat /\ share[l] <= more[l]
    OBVIOUS
<1>1. granted' \in [CartIds -> [Products -> Nat]]
      /\ \A d \in CartIds, q \in Products :
            granted'[d][q] = IF d = c /\ q = p THEN granted[d][q] + n ELSE granted[d][q]
    BY DEF GrantInv
<1> HIDE DEF more
<1>2. ASSUME NEW d \in CartIds, NEW q \in Products
      PROVE  WeightOf(more, HeldBy(d, q)') <= granted'[d][q]
  <2>1. PICK D, E : D = HeldBy(d, q) /\ E = HeldBy(d, q)'
      OBVIOUS
  <2>2. D \in SUBSET LineIds /\ E \in SUBSET LineIds
      BY <2>1 DEF HeldBy, LinesOf
  <2>3. IsFiniteSet(D) /\ IsFiniteSet(E) /\ IsFiniteSet(E \ {t})
      BY <2>2, LinesFinite, FS_Subset
  <2>4. E \ {t} \in SUBSET D
      BY <2>1 DEF HeldBy, LinesOf
  <2>5. WeightOf(share, D) <= granted[d][q] /\ granted[d][q] \in Nat /\ granted'[d][q] \in Nat
      BY <1>1, <2>1 DEF Explains, GrantInv
  <2>6. WeightOf(share, D) \in Nat
      BY <1>0, <2>2, <2>3, SumType
  <2>7. WeightOf(share, E \ {t}) = WeightOf(more, E \ {t})
        /\ WeightOf(share, E \ {t}) \in Nat
      BY <1>0, <2>2, <2>3, SumAgrees, SumType
  <2>8. CASE t \notin E
    <3>1. E \ {t} = E
        BY <2>8
    <3>2. WeightOf(share, E) <= WeightOf(share, D)
        BY <1>0, <2>2, <2>3, <2>4, <3>1, SumOfPart
    <3>3. granted[d][q] <= granted'[d][q]
        BY <1>1, <2>5
    <3>4. WeightOf(more, E) = WeightOf(share, E) /\ WeightOf(share, E) \in Nat
        BY <2>7, <3>1
    <3> QED
        BY <2>1, <2>5, <2>6, <3>2, <3>3, <3>4
  <2>9. CASE t \in E
    <3>1. d = c /\ q = p /\ line'[t] # None
        BY <2>1, <2>9 DEF HeldBy, LinesOf
    <3>2. granted'[d][q] = granted[d][q] + n
        BY <1>1, <3>1
    <3>3. WeightOf(more, E) = more[t] + WeightOf(more, E \ {t})
        BY <1>0, <2>2, <2>3, <2>9, SumTakesOut
    <3>4. WeightOf(more, E) = share[t] + n + WeightOf(share, E \ {t})
        BY <1>0, <2>7, <3>3
    <3>5. CASE line[t] = None
      <4>1. share[t] = 0
          BY <3>1, <3>5
      <4>2. WeightOf(share, E \ {t}) <= WeightOf(share, D)
          BY <1>0, <2>2, <2>3, <2>4, SumOfPart
      <4> QED
          BY <2>1, <2>5, <2>6, <2>7, <3>2, <3>4, <4>1, <4>2
    <3>6. CASE line[t] # None
      <4>1. t \in D
          BY <2>1, <3>1, <3>6 DEF HeldBy, LinesOf
      <4>2. E \in SUBSET D
          BY <2>4, <4>1
      <4>3. WeightOf(share, E) <= WeightOf(share, D)
          BY <1>0, <2>2, <2>3, <4>2, SumOfPart
      <4>4. WeightOf(share, E) = share[t] + WeightOf(share, E \ {t})
          BY <1>0, <2>2, <2>3, <2>9, SumTakesOut
      <4>5. share[t] \in Nat
          BY <1>0
      <4> QED
          BY <2>1, <2>5, <2>6, <2>7, <3>2, <3>4, <4>3, <4>4, <4>5
    <3> QED
        BY <3>5, <3>6
  <2> QED
      BY <2>8, <2>9
<1>3. ASSUME NEW l \in LineIds, line'[l] # None PROVE line'[l].quantity <= more[l]
    BY <1>0, <1>3 DEF Explains
<1>4. ASSUME NEW v \in Workers, pc'[v] = "write", NEW l \in DOMAIN seen'[v].lines
      PROVE  seen'[v].lines[l].quantity <= more[l]
  <2>1. v # w /\ pc[v] = "write" /\ seen'[v] = seen[v]
      BY <1>4
  <2>2. SeenOK(seen[v], mine[v]) /\ l \in DOMAIN seen[v].lines
      BY <1>4, <2>1 DEF CartInv, ThreadOK
  <2>3. l \in LineIds /\ seen[v].lines[l].quantity \in Nat
    <3>1. seen[v].lines[l].quantity \in 1..MaxQuantity
        BY <2>2 DEF SeenOK, LineRows
    <3> QED
        BY <2>2, <3>1 DEF SeenOK, MaxQuantity
  <2>4. seen[v].lines[l].quantity <= share[l]
      BY <2>1, <2>2 DEF Explains
  <2>5. share[l] \in Nat /\ more[l] \in Nat /\ share[l] <= more[l]
      BY <1>0, <2>3
  <2> QED
      BY <2>1, <2>3, <2>4, <2>5
<1>5. ASSUME NEW l \in LineIds, l > made' PROVE more[l] = 0
  <2>1. l \in Nat /\ t \in Nat /\ made \in Nat
      BY LinesFinite DEF CartInv, RowsOK
  <2>2. l # t /\ l > made
      BY <1>5, <2>1
  <2> QED
      BY <1>0, <2>2 DEF Explains
<1>6. Explains(more)'
    BY <1>2, <1>3, <1>4, <1>5 DEF Explains
<1> QED
    BY <1>0, <1>1, <1>6 DEF GrantInv

\* What a write does to the quantities: it adds units on one line or none.
LEMMA WrittenUnits ==
    ASSUME CartInv, NEW w \in Workers, pc[w] = "write", Written(w),
           NEW l \in LineIds, line'[l] # None, line[l] # None,
           Wanted(req[w], seen[w].lines, l) = seen[w].lines[l].quantity
    PROVE  line'[l].quantity = line[l].quantity
<1> DEFINE r == req[w]
           s == seen[w]
<1>1. r \in WriteRequests /\ SeenOK(s, mine[w]) /\ AcceptedOK(r, s, mine[w])
    BY WritingOn
<1>2. line[l] \in LineRows
    BY DEF CartInv, RowsOK
<1>3. CASE l \in DOMAIN Kept(r, s)
  <2>1. line'[l] = UpdatedLine(l, s.lines[l], Kept(r, s)[l])
      BY <1>3 DEF Written
  <2>2. /\ Kept(r, s)[l].quantity \in 1..MaxQuantity /\ Kept(r, s)[l].price \in Nat
        /\ Kept(r, s)[l].quantity = s.lines[l].quantity
      BY <1>1, <1>3, KeptOK
  <2> QED
      BY <1>2, <2>1, <2>2, UpdatedOK
<1>4. CASE l \notin DOMAIN Kept(r, s)
  <2>1. l <= made /\ l \in Nat /\ made \in Nat
      BY LinesFinite DEF CartInv, RowsOK
  <2>2. l # made + 1
      BY <2>1
  <2>3. line'[l] = line[l]
      BY <1>4, <2>2 DEF Written
  <2> QED
      BY <2>3
<1> QED
    BY <1>3, <1>4

LEMMA WriteCartGrants ==
    ASSUME CartInv, GrantInv, NEW w \in Workers, WriteCart(w)
    PROVE  GrantInv'
<1> DEFINE r == req[w]
           c == mine[w]
           s == seen[w]
<1>1. PICK share \in [LineIds -> Nat] : Explains(share)
    BY DEF GrantInv
<1>2. /\ pc[w] = "write" /\ Moves(w) /\ pc'[w] # "write"
      /\ \A v \in Workers \ {w} : pc'[v] = pc[v] /\ seen'[v] = seen[v]
  <2>1. pc[w] = "write" /\ End(w) /\ Moves(w)
      BY WriteCases, EndMoves
  <2>2. pc'[w] = "idle"
      BY <2>1 DEF End, GoTo, CartInv, Tables
  <2> QED
      BY <2>1, <2>2 DEF Moves, Same
<1>3. /\ r \in WriteRequests /\ c \in CartIds
      /\ SeenOK(s, c) /\ AcceptedOK(r, s, c)
    BY <1>2, WritingOn
<1>4. made \in Nat /\ (\A l \in LineIds : l \in Nat) /\ (\A l \in LineIds : line[l] # None => l <= made)
  <2>1. made \in Nat /\ (\A l \in LineIds : l \in Nat)
      BY LinesFinite DEF CartInv, RowsOK
  <2> QED
      BY <2>1 DEF CartInv, RowsOK
<1>5. CASE UNCHANGED <<cart, line, made, granted>>
    BY <1>1, <1>2, <1>4, <1>5, GrantsStay, SharesKept
<1>6. CASE Written(w)
  <2>1. ASSUME NEW l \in LineIds,
               Wanted(r, s.lines, l) = s.lines[l].quantity,
               ~(Inserts(r, s.lines) /\ l = made + 1)
        PROVE  \/ line'[l] = None
               \/ line'[l] = line[l]
               \/ /\ line[l] # None
                  /\ line'[l].cart = line[l].cart /\ line'[l].product = line[l].product
                  /\ line'[l].quantity = line[l].quantity
      BY <1>2, <1>6, <2>1, WrittenLines, WrittenUnits, NoneAssumption
  <2>2. CASE r.op = "clear"
    <3>1. granted' = granted /\ made' = made /\ ~Inserts(r, s.lines)
        BY <1>6, <2>2 DEF Written, Inserts
    <3>2. \A l \in LineIds : Wanted(r, s.lines, l) = s.lines[l].quantity
        BY <2>2 DEF Wanted
    <3> QED
        BY <1>1, <1>2, <1>4, <2>1, <3>1, <3>2, GrantsStay, SharesKept
  <2>3. CASE r.op = "update"
    <3> DEFINE t == r.item
               p == s.lines[t].product
               n == Less(r.quantity, s.lines[t].quantity)
    <3>1. r.quantity \in Nat /\ r.quantity <= MaxQuantity /\ t \in DOMAIN s.lines
        BY <1>3, <2>3
        DEF AcceptedOK, WriteRequests, AddRequests, UpdateRequests, ClearRequests, SelectRequests
    <3>2. t \in LineIds /\ t <= made /\ s.lines[t] \in LineRows
          /\ (line[t] # None => line[t].cart = c /\ line[t].product = p)
        BY <1>3, <3>1 DEF SeenOK
    <3>3. p \in Products /\ s.lines[t].quantity \in 1..MaxQuantity
        BY <3>2 DEF LineRows
    <3>4. n \in Nat /\ r.quantity <= s.lines[t].quantity + n
      <4> HIDE DEF r, c, s, t, p
      <4> QED
          BY <3>1, <3>3, SMTT(40) DEF Less, MaxQuantity
    <3>5. /\ granted' = [granted EXCEPT ![c][p] = @ + n]
          /\ made' = made /\ ~Inserts(r, s.lines)
        BY <1>6, <2>3 DEF Written, Granted, Inserts
    <3>6. \A l \in LineIds \ {t} : Wanted(r, s.lines, l) = s.lines[l].quantity
        BY <2>3, SMTT(40) DEF Wanted
    <3>7. \A l \in LineIds \ {t} :
              \/ line'[l] = None
              \/ line'[l] = line[l]
              \/ /\ line[l] # None
                 /\ line'[l].cart = line[l].cart /\ line'[l].product = line[l].product
                 /\ line'[l].quantity = line[l].quantity
        BY <2>1, <3>5, <3>6
    <3>8. ASSUME line'[t] # None
          PROVE  /\ line[t] # None
                 /\ line'[t].cart = c /\ line'[t].product = p
                 /\ line'[t].quantity <= share[t] + n
      <4>1. line[t] \in LineRows /\ line[t] # None
            /\ line'[t].cart = line[t].cart /\ line'[t].product = line[t].product
        <5>1. \/ line'[t] = line[t]
              \/ /\ line[t] \in LineRows
                 /\ line'[t].cart = line[t].cart /\ line'[t].product = line[t].product
            BY <3>2, <3>5, <3>8, <1>6, <1>2, WrittenLines
        <5>2. line[t] = None \/ line[t] \in LineRows
            BY <1>2, <3>2 DEF CartInv, RowsOK
        <5> QED
            BY <3>8, <5>1, <5>2, NoneAssumption
      <4>2. t \notin Deleted(r, s.lines)
          BY <1>6, <3>2, <3>8 DEF Written
      <4>3. t \in DOMAIN Kept(r, s)
          BY <3>1, <4>2, SMTT(40) DEF Kept
      <4>4. line'[t] = UpdatedLine(t, s.lines[t], Kept(r, s)[t])
          BY <1>6, <3>2, <4>1, <4>2, <4>3 DEF Written
      <4>5. /\ Kept(r, s)[t].quantity = r.quantity
            /\ r.quantity \in 1..MaxQuantity /\ Kept(r, s)[t].price \in Nat
        <5>1. Wanted(r, s.lines, t) = r.quantity
            BY <2>3 DEF Wanted
        <5> QED
          <6>1. /\ Kept(r, s)[t].quantity = Wanted(r, s.lines, t)
                /\ Kept(r, s)[t].quantity \in 1..MaxQuantity
                /\ Kept(r, s)[t].price \in Nat
              BY <1>3, <4>3, KeptOK
          <6> QED
              BY <5>1, <6>1
      <4>6. line'[t].quantity = IF r.quantity = s.lines[t].quantity THEN line[t].quantity
                                ELSE r.quantity
          BY <4>1, <4>4, <4>5, UpdatedOK
      <4>7. s.lines[t].quantity <= share[t] /\ line[t].quantity <= share[t] /\ share[t] \in Nat
          BY <1>1, <1>2, <3>1, <3>2, <4>1 DEF Explains
      <4>8. line[t].quantity \in 1..MaxQuantity
          BY <4>1, SMTT(40) DEF LineRows
      <4>9. line'[t].quantity <= share[t] + n
        <5> HIDE DEF r, c, s, t, p, n
        <5> QED
            BY <3>1, <3>3, <3>4, <4>6, <4>7, <4>8, SMTT(40) DEF MaxQuantity
      <4>10. line'[t].cart = c /\ line'[t].product = p
        <5> HIDE DEF c, p, t, n
        <5> QED
            BY <3>2, <4>1
      <4> QED
          BY <4>1, <4>9, <4>10
    <3>9. made' \in Nat /\ made <= made' /\ t <= made'
        BY <1>4, <3>2, <3>5, SMTT(40)
    <3>10. c \in CartIds /\ p \in Products /\ n \in Nat /\ t \in LineIds
        BY <1>3, <3>2, <3>3, <3>4, SMTT(40)
    <3>11. Raised(w, c, p, n, t, share)
        BY <1>2, <3>2, <3>5, <3>7, <3>8, <3>9 DEF Raised
    <3> HIDE DEF r, c, s, t, p, n
    <3> QED
        BY <1>1, <3>10, <3>11, SharesRaised
  <2>4. CASE r.op \in {"add", "select"}
    <3> DEFINE p == r.product
               n == r.quantity
    <3>1. p \in Products /\ n \in 1..MaxQuantity /\ n \in Nat
        BY <1>3, <2>4, SMTT(40)
        DEF AcceptedOK, WriteRequests, AddRequests, UpdateRequests, ClearRequests,
            SelectRequests, MaxQuantity
    <3>2. granted' = [granted EXCEPT ![c][p] = @ + n]
        BY <1>6, <2>4 DEF Written, Granted
    <3>3. DOMAIN s.lines \subseteq LineIds /\ None \notin LineIds
        BY <1>3, LinesFinite, NoneAssumption DEF SeenOK
    <3>4. CASE Existing(s.lines, p) # None
      <4> DEFINE t == Existing(s.lines, p)
      <4>1. t \in DOMAIN s.lines /\ s.lines[t].product = p
          BY <3>3, <3>4, ExistingOK
      <4>2. t \in LineIds /\ t <= made /\ s.lines[t] \in LineRows
            /\ (line[t] # None => line[t].cart = c /\ line[t].product = p)
          BY <1>3, <4>1 DEF SeenOK
      <4>3. made' = made /\ ~Inserts(r, s.lines)
          BY <1>6, <3>4 DEF Written, Inserts
      <4>4. \A l \in LineIds \ {t} : Wanted(r, s.lines, l) = s.lines[l].quantity
          BY <2>4 DEF Wanted
      <4>5. \A l \in LineIds \ {t} :
                \/ line'[l] = None
                \/ line'[l] = line[l]
                \/ /\ line[l] # None
                   /\ line'[l].cart = line[l].cart /\ line'[l].product = line[l].product
                   /\ line'[l].quantity = line[l].quantity
          BY <2>1, <4>3, <4>4
      <4>6. ASSUME line'[t] # None
            PROVE  /\ line[t] # None
                   /\ line'[t].cart = c /\ line'[t].product = p
                   /\ line'[t].quantity <= share[t] + n
        <5>1. line[t] \in LineRows /\ line[t] # None
              /\ line'[t].cart = line[t].cart /\ line'[t].product = line[t].product
            BY <1>2, <1>6, <4>2, <4>3, <4>6, WrittenLines, NoneAssumption DEF CartInv, RowsOK
        <5>2. t \notin Deleted(r, s.lines)
            BY <1>6, <4>2, <4>6 DEF Written
        <5>3. t \in DOMAIN Kept(r, s)
            BY <4>1, <5>2 DEF Kept
        <5>4. line'[t] = UpdatedLine(t, s.lines[t], Kept(r, s)[t])
            BY <1>6, <4>2, <5>1, <5>2, <5>3 DEF Written
        <5>5. /\ Kept(r, s)[t].quantity = s.lines[t].quantity + n
              /\ Kept(r, s)[t].quantity \in 1..MaxQuantity /\ Kept(r, s)[t].price \in Nat
            BY <1>3, <2>4, <3>4, <5>3, KeptOK, ZenonT(40) DEF Wanted, Target
        <5>6. s.lines[t].quantity \in 1..MaxQuantity
            BY <4>2 DEF LineRows
        <5>7. Kept(r, s)[t].quantity # s.lines[t].quantity
          <6> HIDE DEF r, c, s, t, p, n
          <6> QED
              BY <3>1, <5>5, <5>6 DEF MaxQuantity
        <5>8. line'[t].quantity = s.lines[t].quantity + n
            BY <5>1, <5>4, <5>5, <5>7, UpdatedOK
        <5>9. s.lines[t].quantity <= share[t] /\ share[t] \in Nat
            BY <1>1, <1>2, <4>1, <4>2, SMTT(40) DEF Explains
        <5>10. line'[t].quantity <= share[t] + n
          <6> HIDE DEF r, c, s, t, p, n
          <6> QED
              BY <3>1, <5>6, <5>8, <5>9 DEF MaxQuantity
        <5> QED
            BY <4>2, <5>1, <5>10
      <4>7. made' \in Nat /\ made <= made' /\ t <= made'
          BY <1>4, <4>2, <4>3
      <4>8. line'[t] # None => line[t] # None
          BY <4>6
      <4>9. c \in CartIds /\ p \in Products /\ n \in Nat /\ t \in LineIds
          BY <1>3, <3>1, <4>2
      <4> HIDE DEF r, c, s, p, n
      <4>10. Raised(w, c, p, n, t, share)
          BY <1>2, <3>2, <4>2, <4>5, <4>6, <4>7, <4>8 DEF Raised
      <4> HIDE DEF t
      <4> QED
          BY <1>1, <4>9, <4>10, SharesRaised
    <3>5. CASE Existing(s.lines, p) = None
      <4> DEFINE t == made + 1
      <4>1. Inserts(r, s.lines) /\ made' = made + 1
          BY <1>6, <2>4, <3>5 DEF Written, Inserts
      <4>2. \A l \in LineIds : Wanted(r, s.lines, l) = s.lines[l].quantity
          BY <2>4, <3>3, <3>5 DEF Wanted
      <4>3. \A l \in LineIds \ {t} :
                \/ line'[l] = None
                \/ line'[l] = line[l]
                \/ /\ line[l] # None
                   /\ line'[l].cart = line[l].cart /\ line'[l].product = line[l].product
                   /\ line'[l].quantity = line[l].quantity
          BY <2>1, <4>2
      <4>4. CASE t \in LineIds
        <5>1. line[t] = None /\ share[t] = 0
          <6>1. t > made
              BY <1>4
          <6> QED
              BY <1>1, <4>4, <6>1 DEF CartInv, RowsOK, Explains
        <5>2. t \notin DOMAIN s.lines
            BY <1>3, <1>4 DEF SeenOK
        <5>3. line'[t] = [cart |-> c, product |-> p, quantity |-> n,
                          price |-> s.price[r.product]]
              \/ line'[t] = None
            BY <1>6, <4>1, <4>4, <5>1 DEF Written
        <5>4. line'[t] # None => line'[t].cart = c /\ line'[t].product = p
                                 /\ line'[t].quantity <= share[t] + n
            BY <3>1, <5>1, <5>3
        <5>5. t \in Nat /\ made <= made' /\ t <= made' /\ made' \in Nat
            BY <1>4, <4>1
        <5>6. c \in CartIds /\ p \in Products /\ n \in Nat
            BY <1>3, <3>1
        <5>7. Raised(w, c, p, n, t, share)
            BY <1>2, <3>2, <4>3, <4>4, <5>1, <5>4, <5>5 DEF Raised
        <5> HIDE DEF r, c, s, t, p, n
        <5> QED
            BY <1>1, <4>4, <5>6, <5>7, SharesRaised
      <4>5. CASE t \notin LineIds
        <5>1. made' \in Nat /\ made <= made'
            BY <1>4, <4>1
        <5>2. granted' \in [CartIds -> [Products -> Nat]]
              /\ \A d \in CartIds, q \in Products : granted[d][q] <= granted'[d][q]
          <6>1. PICK m \in Nat, d \in CartIds, q \in Products : m = n /\ d = c /\ q = p
              BY <1>3, <3>1
          <6> QED
              BY <3>2, <6>1, RaisedOnce DEF GrantInv
        <5>3. LineIds \ {t} = LineIds
            BY <4>5
        <5> HIDE DEF r, c, s, t, p, n
        <5> QED
            BY <1>1, <1>2, <4>3, <5>1, <5>2, <5>3, SharesKept
      <4> QED
          BY <4>4, <4>5
    <3> QED
        BY <3>4, <3>5
  <2> QED
      BY <1>3, <2>2, <2>3, <2>4
      DEF WriteRequests, AddRequests, UpdateRequests, ClearRequests, SelectRequests
<1> QED
    BY <1>5, <1>6, WriteCases

\* A request that changes no line and is not about to write.
LEMMA IdleGrants ==
    ASSUME CartInv, GrantInv, NEW w \in Workers,
           UNCHANGED <<line, made, granted>>,
           NEW place, place # "write", GoTo(w, place),
           \A v \in Workers \ {w} : seen'[v] = seen[v]
    PROVE  GrantInv'
<1>1. PICK share \in [LineIds -> Nat] : Explains(share)
    BY DEF GrantInv
<1>2. pc'[w] # "write" /\ \A v \in Workers \ {w} : pc'[v] = pc[v]
    BY DEF GoTo, CartInv, Tables
<1>3. made' \in Nat /\ made <= made'
    BY DEF CartInv, RowsOK
<1> QED
    BY <1>1, <1>2, <1>3, GrantsStay, SharesKept

LEMMA EndGrants ==
    ASSUME CartInv, GrantInv, NEW w \in Workers,
           UNCHANGED <<line, made, granted>>, End(w)
    PROVE  GrantInv'
BY IdleGrants DEF End, CartInv, Tables

\* The steps that leave the lines alone.
LEMMA QuietGrants ==
    ASSUME CartInv, GrantInv, NEW w \in Workers,
           \/ Submit(w) \/ FindCart(w) \/ InsertCart(w) \/ Crash(w)
           \/ PrepareGate(w) \/ PrepareRead(w) \/ PrepareLook(w) \/ PrepareRecord(w)
    PROVE  GrantInv'
<1>1. UNCHANGED <<line, made, granted>>
    BY DEF Submit, FindCart, InsertCart, Crash, PrepareGate, PrepareRead, PrepareLook,
           PrepareRecord, rows
<1>2. CASE End(w)
    BY <1>1, <1>2, EndGrants
<1>3. CASE Submit(w)
  <2>1. PICK r \in Requests : GoTo(w, FirstStep(r)) /\ UNCHANGED seen
      BY <1>3 DEF Submit
  <2>2. FirstStep(r) # "write"
      BY DEF FirstStep
  <2> QED
      BY <1>1, <2>1, <2>2, IdleGrants
<1>4. CASE PrepareRead(w) /\ ~End(w)
  <2>1. GoTo(w, "save") /\ \A v \in Workers \ {w} : seen'[v] = seen[v]
      BY <1>4 DEF PrepareRead, CartInv, Tables
  <2> QED
      BY <1>1, <2>1, IdleGrants
<1>5. CASE (FindCart(w) \/ InsertCart(w)) /\ ~End(w)
  <2>1. PICK place \in {"read", "insert"} : GoTo(w, place) /\ UNCHANGED seen
      BY <1>5 DEF FindCart, InsertCart, Found
  <2> QED
      BY <1>1, <2>1, IdleGrants
<1>6. CASE (PrepareGate(w) \/ PrepareLook(w) \/ PrepareRecord(w)) /\ ~End(w)
  <2>1. PICK place \in {"quote", "record"} : GoTo(w, place) /\ UNCHANGED seen
      BY <1>6 DEF PrepareGate, PrepareLook, PrepareRecord
  <2> QED
      BY <1>1, <2>1, IdleGrants
<1> QED
    BY <1>2, <1>3, <1>4, <1>5, <1>6 DEF Crash

LEMMA ReadCartGrants ==
    ASSUME CartInv, GrantInv, NEW w \in Workers, ReadCart(w)
    PROVE  GrantInv'
<1> DEFINE c == mine[w]
<1>1. UNCHANGED <<line, made, granted>> /\ pc[w] = "read"
    BY DEF ReadCart, rows
<1>2. CASE End(w)
    BY <1>1, <1>2, EndGrants
<1>3. CASE ~End(w)
  <2>1. /\ cart[c] # None
        /\ seen' = [seen EXCEPT ![w] = Read(c)]
        /\ GoTo(w, "write")
      BY <1>3 DEF ReadCart
  <2>2. c \in CartIds
      BY <1>1 DEF CartInv, ThreadOK, Writing
  <2>3. PICK share \in [LineIds -> Nat] : Explains(share)
      BY DEF GrantInv
  <2>4. /\ seen'[w] = Read(c)
        /\ \A v \in Workers \ {w} : pc'[v] = pc[v] /\ seen'[v] = seen[v]
      BY <2>1 DEF GoTo, CartInv, Tables
  <2>5. ASSUME NEW l \in DOMAIN seen'[w].lines
        PROVE  seen'[w].lines[l].quantity <= share[l]
    <3>1. l \in LinesOf(c) /\ seen'[w].lines[l] = line[l]
        BY <2>1, <2>2, <2>4, ReadOK
    <3>2. l \in LineIds /\ line[l] # None
        BY <3>1 DEF LinesOf
    <3> QED
        BY <2>3, <3>1, <3>2 DEF Explains
  <2>6. made' \in Nat /\ made <= made'
      BY <1>1 DEF CartInv, RowsOK
  <2> QED
      BY <1>1, <2>3, <2>4, <2>5, <2>6, GrantsStay, SharesKept
<1> QED
    BY <1>2, <1>3

\* prepare_checkout gives lines their live price and no other quantity.
LEMMA PrepareSaveGrants ==
    ASSUME CartInv, GrantInv, NEW w \in Workers, PrepareSave(w)
    PROVE  GrantInv'
<1> DEFINE s == seen[w]
<1>1. UNCHANGED <<made, granted>> /\ pc[w] = "save"
    BY DEF PrepareSave, rows
<1>2. SeenOK(s, mine[w])
    BY <1>1 DEF CartInv, ThreadOK
<1>3. CASE UNCHANGED line /\ End(w)
    BY <1>1, <1>3, EndGrants
<1>4. CASE ~(UNCHANGED line /\ End(w))
  <2>1. line' = [l \in LineIds |->
            IF l \in DOMAIN s.lines /\ line[l] # None
            THEN UpdatedLine(l, s.lines[l], Repriced(s)[l]) ELSE line[l]]
      BY <1>4 DEF PrepareSave, rows
  <2>2. PICK place \in {"idle", "look"} :
           GoTo(w, place) /\ \A v \in Workers \ {w} : seen'[v] = seen[v]
      BY <1>4 DEF PrepareSave, End, CartInv, Tables, rows
  <2>3. /\ pc'[w] # "write"
        /\ \A v \in Workers \ {w} : pc'[v] = pc[v] /\ seen'[v] = seen[v]
      BY <2>2 DEF GoTo, CartInv, Tables
  <2>4. ASSUME NEW l \in LineIds
        PROVE  \/ line'[l] = line[l]
               \/ /\ line[l] # None
                  /\ line'[l].cart = line[l].cart /\ line'[l].product = line[l].product
                  /\ line'[l].quantity = line[l].quantity
    <3>1. CASE l \in DOMAIN s.lines /\ line[l] # None
      <4>1. s.lines[l] \in LineRows /\ line[l] \in LineRows
          BY <1>2, <3>1 DEF SeenOK, CartInv, RowsOK
      <4>2. Repriced(s)[l] = [s.lines[l] EXCEPT !.price = s.price[s.lines[l].product]]
          BY <3>1 DEF Repriced
      <4>3. s.price[s.lines[l].product] \in Nat
          BY <1>2, <4>1 DEF SeenOK, LineRows
      <4>4. /\ Repriced(s)[l].quantity = s.lines[l].quantity
            /\ Repriced(s)[l].quantity \in 1..MaxQuantity /\ Repriced(s)[l].price \in Nat
          BY <4>1, <4>2, <4>3 DEF LineRows
      <4>5. line'[l] = UpdatedLine(l, s.lines[l], Repriced(s)[l])
          BY <2>1, <3>1
      <4> QED
          BY <3>1, <4>1, <4>4, <4>5, UpdatedOK
    <3>2. CASE ~(l \in DOMAIN s.lines /\ line[l] # None)
        BY <2>1, <3>2
    <3> QED
        BY <3>1, <3>2
  <2>5. PICK share \in [LineIds -> Nat] : Explains(share)
      BY DEF GrantInv
  <2>6. made' \in Nat /\ made <= made'
      BY <1>1 DEF CartInv, RowsOK
  <2> QED
      BY <1>1, <2>3, <2>4, <2>5, <2>6, GrantsStay, SharesKept
<1> QED
    BY <1>3, <1>4

\* Nothing is granted at the start, and there is no line to explain.
LEMMA GrantInvInit == CartInit => GrantInv
<1> SUFFICES ASSUME CartInit PROVE GrantInv
    OBVIOUS
<1> DEFINE share == [l \in LineIds |-> 0]
<1>1. share \in [LineIds -> Nat] /\ granted \in [CartIds -> [Products -> Nat]]
    BY DEF CartInit
<1>2. ASSUME NEW c \in CartIds, NEW p \in Products
      PROVE  WeightOf(share, HeldBy(c, p)) <= granted[c][p]
  <2>1. HeldBy(c, p) = {}
      BY DEF CartInit, HeldBy, LinesOf
  <2> HIDE DEF share
  <2>2. WeightOf(share, {}) = 0
      BY SumUnrolled, FS_EmptySet
  <2> QED
      BY <2>1, <2>2 DEF CartInit
<1>3. Explains(share)
    BY <1>2 DEF CartInit, Explains
<1> QED
    BY <1>1, <1>3 DEF GrantInv

LEMMA GrantInvStep == CartInv /\ GrantInv /\ [CartNext]_cartVars => GrantInv'
<1> SUFFICES ASSUME CartInv, GrantInv, [CartNext]_cartVars PROVE GrantInv'
    OBVIOUS
<1>1. CASE UNCHANGED <<line, made, granted, pc, seen>>
    BY <1>1 DEF GrantInv, Explains, HeldBy, LinesOf
<1>2. CASE UNCHANGED cartVars \/ CatalogueEvent \/ AgeRecord
    BY <1>1, <1>2 DEF cartVars, CatalogueEvent, AgeRecord, rows
<1> QED
    BY <1>2, QuietGrants, ReadCartGrants, WriteCartGrants, PrepareSaveGrants DEF CartNext

\* A cart never holds more units of a product than its callers were granted
\* (NothingFromNowhere), for any number of threads: each of the handlers reads
\* a line, adds in its own memory and writes the sum back without a lock, so
\* additions can be lost but never counted twice.
THEOREM GrantsExplainCarts == CartSpec => []NothingFromNowhere
<1>1. CartSpec => []GrantInv
    BY CartInvAlways, GrantInvInit, GrantInvStep, PTL DEF CartSpec
<1> QED
    BY <1>1, CartInvAlways, GrantsExplainUnits, PTL

-----------------------------------------------------------------------------
(* Answers that are recorded                                               *)

\* A request whose key had an answer is at the gate, and the answer is there:
\* only a gate that finds it unusable deletes it.
AnsweredOK(w) == answered[w] => pc[w] = "gate" /\ Usable(record[req[w].key])

RecordInv ==
    /\ record \in [Keys -> RecordRows \union {None}]
    /\ answered = [w \in Workers |-> answered[w]]
    /\ \A w \in Workers : pc[w] \in {"look", "record"} => draft[w] \in QuoteIds
    /\ \A w \in Workers : AnsweredOK(w)

\* A request whose key is answered names a key.
LEMMA GateKey ==
    ASSUME CartInv, NEW w \in Workers, pc[w] \in Keeping
    PROVE  /\ req[w] \in PrepareRequests /\ req[w].op = "prepare" /\ req[w].key \in Keys
           /\ req[w].body \in Bodies /\ Caller(req[w]) \in Clients \union {None}
<1>1. req[w] \in PrepareRequests /\ req[w].key # None
    BY DEF CartInv, ThreadOK
<1> QED
    BY <1>1 DEF PrepareRequests, Bodies, Caller

\* What remains to be shown of a step of w: its own thread, and that no
\* usable record of another becomes unusable.
LEMMA RecordsChanged ==
    ASSUME RecordInv, CartInv, NEW w \in Workers,
           record' \in [Keys -> RecordRows \union {None}],
           answered' = [v \in Workers |-> answered'[v]],
           \A v \in Workers \ {w} : /\ pc'[v] = pc[v] /\ req'[v] = req[v]
                                    /\ draft'[v] = draft[v]
                                    /\ answered'[v] => answered[v],
           \A k \in Keys : Usable(record[k]) => Usable(record'[k]),
           pc'[w] \in {"look", "record"} => draft'[w] \in QuoteIds,
           AnsweredOK(w)'
    PROVE  RecordInv'
<1>1. ASSUME NEW v \in Workers \ {w} PROVE AnsweredOK(v)'
  <2> SUFFICES ASSUME answered'[v] PROVE pc'[v] = "gate" /\ Usable(record'[req'[v].key])
      BY DEF AnsweredOK, Usable
  <2>1. pc[v] = "gate" /\ Usable(record[req[v].key])
      BY DEF RecordInv, AnsweredOK
  <2>2. req[v].key \in Keys
      BY <2>1, GateKey DEF Keeping
  <2> QED
      BY <2>1, <2>2
<1>2. \A v \in Workers : AnsweredOK(v)'
    BY <1>1
<1>3. \A v \in Workers : pc'[v] \in {"look", "record"} => draft'[v] \in QuoteIds
    BY DEF RecordInv
<1> QED
    BY <1>2, <1>3 DEF RecordInv

\* A request that ends.
LEMMA EndRecords ==
    ASSUME RecordInv, CartInv, NEW w \in Workers, End(w),
           record' \in [Keys -> RecordRows \union {None}],
           \A k \in Keys : Usable(record[k]) => Usable(record'[k])
    PROVE  RecordInv'
<1>1. /\ answered'[w] = FALSE /\ pc'[w] = "idle"
      /\ answered' = [v \in Workers |-> answered'[v]]
      /\ \A v \in Workers \ {w} : /\ pc'[v] = pc[v] /\ req'[v] = req[v]
                                   /\ draft'[v] = draft[v] /\ answered'[v] = answered[v]
    BY DEF End, GoTo, CartInv, Tables, RecordInv
<1> QED
    BY <1>1, RecordsChanged DEF AnsweredOK

\* A request that goes on from a place past the gate.
LEMMA OnRecords ==
    ASSUME RecordInv, CartInv, NEW w \in Workers, NEW place, GoTo(w, place),
           pc[w] # "gate", UNCHANGED <<record, answered, req>>,
           \A v \in Workers \ {w} : draft'[v] = draft[v],
           place \in {"look", "record"} => draft'[w] \in QuoteIds
    PROVE  RecordInv'
<1>1. /\ pc'[w] = place
      /\ \A v \in Workers \ {w} : pc'[v] = pc[v]
      /\ answered' = [v \in Workers |-> answered'[v]] /\ ~answered'[w]
    BY DEF GoTo, CartInv, Tables, RecordInv, AnsweredOK
<1>2. record' \in [Keys -> RecordRows \union {None}]
    BY DEF RecordInv
<1> QED
    BY <1>1, <1>2, RecordsChanged DEF AnsweredOK

LEMMA SubmitRecords ==
    ASSUME RecordInv, CartInv, NEW w \in Workers, Submit(w)
    PROVE  RecordInv'
<1>1. PICK r \in Requests :
         /\ req' = [req EXCEPT ![w] = r]
         /\ GoTo(w, FirstStep(r))
         /\ answered' = [answered EXCEPT ![w] =
                /\ r.op = "prepare" /\ r.key # None
                /\ record[r.key] # None /\ ~record[r.key].old]
    BY DEF Submit
<1>2. UNCHANGED <<record, draft>>
    BY DEF Submit, rows
<1>3. /\ pc'[w] = FirstStep(r) /\ req'[w] = r
      /\ \A v \in Workers \ {w} : pc'[v] = pc[v] /\ req'[v] = req[v]
    BY <1>1 DEF GoTo, CartInv, Tables
<1>4. /\ answered' = [v \in Workers |-> answered'[v]]
      /\ \A v \in Workers \ {w} : answered'[v] = answered[v]
      /\ answered'[w] <=> /\ r.op = "prepare" /\ r.key # None
                          /\ record[r.key] # None /\ ~record[r.key].old
    BY <1>1 DEF RecordInv
<1>5. FirstStep(r) \notin {"look", "record"}
    BY DEF FirstStep
<1>6. answered'[w] => FirstStep(r) = "gate" /\ Usable(record[r.key])
    BY <1>4 DEF FirstStep, Usable
<1>7. AnsweredOK(w)'
    BY <1>2, <1>3, <1>6 DEF AnsweredOK, Usable
<1>8. record' \in [Keys -> RecordRows \union {None}]
    BY <1>2 DEF RecordInv
<1> QED
    BY <1>2, <1>3, <1>4, <1>5, <1>7, <1>8, RecordsChanged

\* The steps that touch no record, past the gate.
LEMMA QuietRecords ==
    ASSUME RecordInv, CartInv, NEW w \in Workers,
           \/ FindCart(w) \/ InsertCart(w) \/ ReadCart(w) \/ WriteCart(w)
           \/ PrepareRead(w) \/ PrepareSave(w) \/ Crash(w)
    PROVE  RecordInv'
<1>1. UNCHANGED record
    BY DEF FindCart, InsertCart, ReadCart, WriteCart, PrepareRead, PrepareSave, Crash, rows
<1>2. record' \in [Keys -> RecordRows \union {None}]
    BY <1>1 DEF RecordInv
<1>3. CASE End(w)
    BY <1>1, <1>2, <1>3, EndRecords
<1>4. CASE ~End(w)
  <2>1. PICK place \in {"insert", "read", "write", "save", "look"} :
          /\ GoTo(w, place) /\ UNCHANGED <<answered, req>>
          /\ place = "look" => \E q \in QuoteIds : draft' = [draft EXCEPT ![w] = q]
      BY <1>4 DEF FindCart, InsertCart, Found, ReadCart, WriteCart, PrepareRead, PrepareSave, Crash
  <2>2. pc[w] # "gate"
      BY <1>4 DEF FindCart, InsertCart, ReadCart, WriteCart, PrepareRead, PrepareSave, Crash
  <2>3. \A v \in Workers \ {w} : draft'[v] = draft[v]
      BY <1>4 DEF FindCart, InsertCart, Found, ReadCart, WriteCart, PrepareRead, PrepareSave,
                  Crash, CartInv, Tables
  <2>4. place = "look" => draft'[w] \in QuoteIds
      BY <2>1 DEF CartInv, Tables
  <2> QED
      BY <1>1, <2>1, <2>2, <2>3, <2>4, OnRecords
<1> QED
    BY <1>3, <1>4

LEMMA GateRecords ==
    ASSUME RecordInv, CartInv, NEW w \in Workers, PrepareGate(w)
    PROVE  RecordInv'
<1> DEFINE k == req[w].key
<1>1. pc[w] = "gate" /\ k \in Keys
    BY GateKey DEF PrepareGate, Keeping
<1>2. CASE Usable(record[k])
  <2>1. End(w) /\ UNCHANGED record
      BY <1>2 DEF PrepareGate
  <2>2. record' \in [Keys -> RecordRows \union {None}]
      BY <2>1 DEF RecordInv
  <2> QED
      BY <2>1, <2>2, EndRecords
<1>3. CASE ~Usable(record[k])
  <2>1. /\ GoTo(w, "quote") /\ record' = [record EXCEPT ![k] = None]
        /\ UNCHANGED <<req, draft, answered>>
      BY <1>3 DEF PrepareGate
  <2>2. /\ record' \in [Keys -> RecordRows \union {None}]
        /\ \A j \in Keys : Usable(record[j]) => record'[j] = record[j]
      BY <1>3, <2>1 DEF RecordInv
  <2>3. \A j \in Keys : Usable(record[j]) => Usable(record'[j])
      BY <2>2
  <2>4. /\ pc'[w] = "quote"
        /\ \A v \in Workers \ {w} : pc'[v] = pc[v]
        /\ answered' = [v \in Workers |-> answered'[v]] /\ ~answered'[w]
      BY <1>3, <2>1 DEF GoTo, CartInv, Tables, RecordInv, AnsweredOK
  <2> QED
      BY <2>1, <2>2, <2>3, <2>4, RecordsChanged DEF AnsweredOK
<1> QED
    BY <1>2, <1>3

LEMMA LookRecords ==
    ASSUME RecordInv, CartInv, NEW w \in Workers, PrepareLook(w)
    PROVE  RecordInv'
<1> DEFINE r == req[w]
           k == req[w].key
<1>1. pc[w] = "look" /\ k \in Keys /\ Caller(r) \in Clients \union {None}
    BY GateKey DEF PrepareLook, Keeping
<1>2. draft[w] \in QuoteIds
    BY <1>1 DEF RecordInv
<1>3. CASE record[k] = None
  <2>1. GoTo(w, "record") /\ UNCHANGED <<req, draft, answered, record>>
      BY <1>3 DEF PrepareLook
  <2> QED
      BY <1>1, <1>2, <2>1, OnRecords
<1>4. CASE record[k] # None
  <2>1. record[k] \in RecordRows
      BY <1>1, <1>4 DEF RecordInv
  <2>2. PICK x : x = [record[k] EXCEPT !.quote = draft[w], !.old = FALSE,
                          !.session = IF Caller(r) # None THEN Caller(r) ELSE @]
      OBVIOUS
  <2>3. record' = [record EXCEPT ![k] = x] /\ End(w)
      BY <1>4, <2>2 DEF PrepareLook
  <2>4. x \in RecordRows /\ ~x.old
      BY <1>1, <1>2, <2>1, <2>2 DEF RecordRows
  <2>5. Usable(x)
      BY <2>4, NoneAssumption DEF Usable
  <2>6. record' \in [Keys -> RecordRows \union {None}]
      BY <2>3, <2>4 DEF RecordInv
  <2>7. \A j \in Keys : Usable(record[j]) => Usable(record'[j])
      BY <2>3, <2>5 DEF RecordInv
  <2> QED
      BY <2>3, <2>6, <2>7, EndRecords
<1> QED
    BY <1>3, <1>4

LEMMA InsertRecords ==
    ASSUME RecordInv, CartInv, NEW w \in Workers, PrepareRecord(w)
    PROVE  RecordInv'
<1> DEFINE r == req[w]
           k == req[w].key
           x == [body |-> r.body, session |-> Caller(r), quote |-> draft[w], old |-> FALSE]
<1>1. /\ pc[w] = "record" /\ k \in Keys /\ End(w)
      /\ r.body \in Bodies /\ Caller(r) \in Clients \union {None}
    BY GateKey DEF PrepareRecord, Keeping
<1>2. x \in RecordRows
    BY <1>1 DEF RecordInv, RecordRows
<1>3. record' = record \/ (record[k] = None /\ record' = [record EXCEPT ![k] = x])
    BY DEF PrepareRecord
<1>4. record' \in [Keys -> RecordRows \union {None}]
    BY <1>2, <1>3 DEF RecordInv
<1>5. \A j \in Keys : Usable(record[j]) => Usable(record'[j])
    BY <1>3 DEF RecordInv, Usable
<1> QED
    BY <1>1, <1>4, <1>5, EndRecords

\* An answer that ages is no longer counted as one.
LEMMA AgeRecords ==
    ASSUME RecordInv, CartInv, AgeRecord
    PROVE  RecordInv'
<1>1. PICK k \in Keys :
         /\ record[k] # None
         /\ record' = [record EXCEPT ![k].old = TRUE]
         /\ answered' = [w \in Workers |->
                answered[w] /\ ~(req[w].op = "prepare" /\ req[w].key = k)]
    BY DEF AgeRecord
<1>2. UNCHANGED <<pc, req, draft>>
    BY DEF AgeRecord
<1>3. PICK x : x = [record[k] EXCEPT !.old = TRUE]
    OBVIOUS
<1>4. record[k] \in RecordRows
    BY <1>1 DEF RecordInv
<1>5. x \in RecordRows
    BY <1>3, <1>4 DEF RecordRows
<1>6. record' = [record EXCEPT ![k] = x]
    BY <1>1, <1>3
<1>7. record' \in [Keys -> RecordRows \union {None}]
      /\ \A j \in Keys \ {k} : record'[j] = record[j]
    BY <1>5, <1>6 DEF RecordInv
<1>8. answered' = [w \in Workers |-> answered'[w]]
    BY <1>1
<1>9. ASSUME NEW w \in Workers, answered'[w]
      PROVE  pc'[w] = "gate" /\ Usable(record'[req'[w].key])
  <2>1. answered[w] /\ ~(req[w].op = "prepare" /\ req[w].key = k)
      BY <1>1, <1>9
  <2>2. pc[w] = "gate" /\ Usable(record[req[w].key])
      BY <2>1 DEF RecordInv, AnsweredOK
  <2>3. req[w].op = "prepare" /\ req[w].key \in Keys
      BY <2>2, GateKey DEF Keeping
  <2> QED
      BY <1>2, <1>7, <2>1, <2>2, <2>3
<1> QED
    BY <1>2, <1>7, <1>8, <1>9 DEF RecordInv, AnsweredOK, Usable

LEMMA RecordInvInit == CartInit => RecordInv
BY DEF CartInit, RecordInv, AnsweredOK

LEMMA RecordInvStep == CartInv /\ RecordInv /\ [CartNext]_cartVars => RecordInv'
<1> SUFFICES ASSUME CartInv, RecordInv, [CartNext]_cartVars PROVE RecordInv'
    OBVIOUS
<1>1. CASE UNCHANGED cartVars \/ CatalogueEvent
    BY <1>1 DEF cartVars, CatalogueEvent, rows, RecordInv, AnsweredOK, Usable
<1> QED
    BY <1>1, SubmitRecords, QuietRecords, GateRecords, LookRecords, InsertRecords, AgeRecords
    DEF CartNext

\* A request that repeats an answered key makes no quote (RepeatMakesNoQuote),
\* whatever other requests with that key, expiries and crashes come between:
\* check_idempotency deletes only records that are too old to answer.
THEOREM RepeatsStopAtTheGate == CartSpec => []RepeatMakesNoQuote
<1>1. CartSpec => []RecordInv
    BY CartInvAlways, RecordInvInit, RecordInvStep, PTL DEF CartSpec
<1>2. RecordInv => RepeatMakesNoQuote
    BY SMTT(40) DEF RecordInv, AnsweredOK, RepeatMakesNoQuote
<1> QED
    BY <1>1, <1>2, PTL

-----------------------------------------------------------------------------
(* Evaluations of a quote                                                  *)

\* A quote that is made stays as it is: no handler updates one.
LEMMA QuotesStay ==
    ASSUME CartInv, [CartNext]_cartVars, NEW q \in QuoteIds, quote[q] # None
    PROVE  quote'[q] = quote[q]
<1>1. CASE UNCHANGED quote
    BY <1>1
<1>2. CASE \E p \in QuoteIds : quote[p] = None /\ \E x : quote' = [quote EXCEPT ![p] = x]
    BY <1>2 DEF CartInv, RowsOK
<1>3. ASSUME NEW w \in Workers, PrepareSave(w) PROVE quote'[q] = quote[q]
    BY <1>1, <1>2, <1>3 DEF PrepareSave, rows
<1> QED
    BY <1>1, <1>3
    DEF CartNext, cartVars, rows, Submit, FindCart, InsertCart, ReadCart, WriteCart,
        PrepareGate, PrepareRead, PrepareLook, PrepareRecord, Crash, CatalogueEvent, AgeRecord

\* The verdict v is right about the quote x, whatever was read live.
Sound(v, x) ==
    LET y == v.policy
    IN  /\ v.decision \in {"ALLOW", "REQUIRE_AUTHORIZATION"} =>
             /\ y.active /\ Within(x.total, y.ceiling)
             /\ x.merchant \notin y.blockedMerchants
             /\ \A i \in Goods(x) :
                   /\ CategoryOf[i.product] \notin {None} \union y.blockedCategories
                   /\ i.product \notin y.blockedProducts
             /\ y.inTotal # 0 => Units(x) <= y.inTotal
        /\ v.decision = "ALLOW" => Within(x.total, y.autoLimit)

JudgeOK(j) ==
    judging[j] # None =>
        /\ judging[j].quote \in QuoteIds /\ judging[j].policy \in Policies
        /\ quote[judging[j].quote] # None

VerdictOK(q) ==
    verdict[q] # None => quote[q] # None /\ Sound(verdict[q], quote[q])

PolicyInv ==
    /\ CartInv
    /\ judging = [j \in Judges |-> judging[j]]
    /\ verdict = [q \in QuoteIds |-> verdict[q]]
    /\ \A j \in Judges : JudgeOK(j)
    /\ \A q \in QuoteIds : VerdictOK(q)

\* The reasons that Decision ignores only as long as there is another.
Threshold == "ABOVE_AUTO_APPROVAL_THRESHOLD"

LEMMA DecisionCases ==
    ASSUME NEW R
    PROVE  /\ Decision(R) = "DENY" <=> \E m \in R : m # Threshold
           /\ Decision(R) = "ALLOW" => R = {}
BY DEF Decision, Threshold

\* Rules that find no reason but the threshold.
LEMMA QuietRules ==
    ASSUME NEW x, IsQuote(x), NEW y \in Policies, NEW f,
           \A m \in Reasons(x, y, f) : m = Threshold
    PROVE  /\ y.active /\ Within(x.total, y.ceiling)
           /\ x.merchant \notin y.blockedMerchants
           /\ \A i \in Goods(x) :
                 /\ CategoryOf[i.product] \notin {None} \union y.blockedCategories
                 /\ i.product \notin y.blockedProducts
           /\ y.inTotal # 0 => ~(Units(x) > y.inTotal)
           /\ Reasons(x, y, f) = {} => Within(x.total, y.autoLimit)
<1>1. x.total \in Nat
    BY DEF IsQuote, QuoteRows
<1>2. y \in PolicyRows
    BY PoliciesAssumption
<1>3. (y.ceiling = None \/ y.ceiling \in Nat) /\ (y.autoLimit = None \/ y.autoLimit \in Nat)
    BY <1>2 DEF PolicyRows
<1>4. /\ \A m \in StandingReasons(x, y) : m = Threshold
      /\ \A m \in GoodsReasons(x, y) : m = Threshold
      /\ Reasons(x, y, f) = {} => StandingReasons(x, y) = {}
    BY DEF Reasons
<1>5. /\ \A m \in Flag(~y.active, "POLICY_INACTIVE") : m = Threshold
      /\ \A m \in MerchantReasons(x, y) : m = Threshold
      /\ \A m \in QuantityReasons(x, y) : m = Threshold
      /\ \A m \in SpendingReasons(x, y) : m = Threshold
      /\ Reasons(x, y, f) = {} => SpendingReasons(x, y) = {}
    BY <1>4 DEF StandingReasons
<1>6. y.active
    BY <1>2, <1>5 DEF Flag, Threshold, PolicyRows
<1>7. x.merchant \notin y.blockedMerchants
    BY <1>5 DEF MerchantReasons, Permission, Threshold
<1>8. y.inTotal # 0 => ~(Units(x) > y.inTotal)
    BY <1>5 DEF QuantityReasons, Flag, Threshold
<1>9. Within(x.total, y.ceiling)
    BY <1>1, <1>3, <1>5 DEF SpendingReasons, Flag, Threshold, Within
<1>10. Reasons(x, y, f) = {} => Within(x.total, y.autoLimit)
    BY <1>1, <1>3, <1>5, <1>9 DEF SpendingReasons, Flag, Within
<1>11. ASSUME NEW i \in Goods(x)
       PROVE  /\ CategoryOf[i.product] \notin {None} \union y.blockedCategories
              /\ i.product \notin y.blockedProducts
  <2>1. /\ \A m \in CategoryReasons(i, y) : m = Threshold
        /\ \A m \in Flag(i.product \in y.blockedProducts, "BLOCKED_PRODUCT_ID") : m = Threshold
      BY <1>4 DEF GoodsReasons
  <2> QED
      BY <2>1 DEF CategoryReasons, Permission, Flag, Threshold
<1> QED
    BY <1>6, <1>7, <1>8, <1>9, <1>10, <1>11

\* The units of a quote are a number.
LEMMA UnitsAreAmount ==
    ASSUME NEW x, IsQuote(x)
    PROVE  Units(x) \in Nat
<1>1. PICK ids \in SUBSET LineIds : x.items \in [ids -> ItemRows]
    BY DEF IsQuote, QuoteRows
<1> DEFINE w == [l \in ids |-> x.items[l].quantity]
           R(g) == g = [s \in SUBSET ids |-> IF s = {} THEN 0 ELSE
                            x.items[Chosen(s)].quantity + g[s \ {Chosen(s)}]]
<1>2. IsFiniteSet(ids)
    BY LinesFinite, FS_Subset
<1>3. \A l \in ids : w[l] \in Nat
    BY <1>1 DEF ItemRows
<1>4. Units(x) = (CHOOSE g : R(g))[ids]
    BY <1>1 DEF Units, FoldFunction, FoldFunctionOnSet, MapThenFoldSet, Chosen
<1>5. \A s \in SUBSET ids : s # {} => Chosen(s) \in ids
    BY DEF Chosen
<1>6. \A g : R(g) <=> SumRule(g, w, ids)
    BY <1>5 DEF SumRule
<1> HIDE DEF w
<1>7. PICK g : g \in [SUBSET ids -> Nat] /\ SumRule(g, w, ids)
    BY <1>2, <1>3, SumTableOK
<1> DEFINE f == CHOOSE h : R(h)
<1>8. R(f)
  <2> HIDE DEF R
  <2> QED
      BY <1>6, <1>7
<1> HIDE DEF f
<1>9. f = g
    BY <1>2, <1>3, <1>6, <1>7, <1>8, SumsAreOne
<1>10. Units(x) = f[ids]
    BY <1>4 DEF f
<1> QED
    BY <1>7, <1>9, <1>10

\* An evaluation that finishes is right about its quote.
LEMMA FinishIsSound ==
    ASSUME NEW x, IsQuote(x), NEW y \in Policies, NEW f, NEW v,
           v = [policy |-> y, total |-> x.total, decision |-> Decision(Reasons(x, y, f))]
    PROVE  Sound(v, x)
<1> DEFINE R == Reasons(x, y, f)
<1>1. v.policy = y /\ v.decision = Decision(R)
    OBVIOUS
<1>2. CASE Decision(R) = "DENY"
    BY <1>1, <1>2 DEF Sound
<1>3. CASE Decision(R) # "DENY"
  <2>1. (\A m \in R : m = Threshold) /\ (Decision(R) = "ALLOW" => R = {})
      BY <1>3, DecisionCases
  <2>2. y.inTotal \in Nat /\ Units(x) \in Nat
      BY PoliciesAssumption, UnitsAreAmount DEF PolicyRows
  <2>3. /\ y.active /\ Within(x.total, y.ceiling)
        /\ x.merchant \notin y.blockedMerchants
        /\ \A i \in Goods(x) :
              /\ CategoryOf[i.product] \notin {None} \union y.blockedCategories
              /\ i.product \notin y.blockedProducts
        /\ y.inTotal # 0 => ~(Units(x) > y.inTotal)
        /\ R = {} => Within(x.total, y.autoLimit)
      BY <2>1, QuietRules
  <2>4. y.inTotal # 0 => Units(x) <= y.inTotal
      BY <2>2, <2>3
  <2> HIDE DEF R
  <2> QED
      BY <1>1, <2>1, <2>3, <2>4 DEF Sound
<1> QED
    BY <1>2, <1>3

LEMMA PolicyInvInit == PolicyInit => PolicyInv
BY CartInvInit DEF PolicyInit, PolicyInv, JudgeOK, VerdictOK

\* Carts and quotes go on while nobody evaluates.
LEMMA CartsGoOn ==
    ASSUME PolicyInv, [CartNext]_cartVars, UNCHANGED <<judging, verdict>>
    PROVE  PolicyInv'
<1>1. CartInv /\ CartInv'
    BY CartInvStep DEF PolicyInv
<1>2. ASSUME NEW j \in Judges PROVE JudgeOK(j)'
  <2> SUFFICES ASSUME judging[j] # None
               PROVE  /\ judging[j].quote \in QuoteIds /\ judging[j].policy \in Policies
                      /\ quote'[judging[j].quote] # None
      BY DEF JudgeOK
  <2>1. /\ judging[j].quote \in QuoteIds /\ judging[j].policy \in Policies
        /\ quote[judging[j].quote] # None
      BY DEF PolicyInv, JudgeOK
  <2> QED
      BY <1>1, <2>1, QuotesStay
<1>3. ASSUME NEW q \in QuoteIds PROVE VerdictOK(q)'
  <2> SUFFICES ASSUME verdict[q] # None
               PROVE  quote'[q] # None /\ Sound(verdict[q], quote'[q])
      BY DEF VerdictOK, Sound
  <2>1. quote[q] # None /\ Sound(verdict[q], quote[q])
      BY DEF PolicyInv, VerdictOK
  <2>2. quote'[q] = quote[q]
      BY <1>1, <2>1, QuotesStay
  <2> QED
      BY <2>1, <2>2
<1> QED
    BY <1>1, <1>2, <1>3 DEF PolicyInv

LEMMA StartKeeps ==
    ASSUME PolicyInv, NEW j \in Judges, StartEvaluation(j)
    PROVE  PolicyInv'
<1>1. PICK q \in QuoteIds, y \in Policies :
         /\ quote[q] # None
         /\ judging' = [judging EXCEPT ![j] =
                [quote |-> q, policy |-> y, late |-> late[q],
                 stale |-> touched[q], open |-> open[quote[q].merchant]]]
    BY DEF StartEvaluation
<1>2. UNCHANGED <<cartVars, late, verdict>>
    BY DEF StartEvaluation
<1>3. CartInv' /\ UNCHANGED <<quote, verdict>>
    BY <1>2, CartInvStep DEF PolicyInv, cartVars
<1>4. ASSUME NEW i \in Judges PROVE JudgeOK(i)'
  <2>1. CASE i = j
      BY <1>1, <1>3, <2>1 DEF PolicyInv, JudgeOK
  <2>2. CASE i # j
    <3>1. judging'[i] = judging[i]
        BY <1>1, <2>2 DEF PolicyInv
    <3> QED
        BY <1>3, <3>1 DEF PolicyInv, JudgeOK
  <2> QED
      BY <2>1, <2>2
<1>5. \A r \in QuoteIds : VerdictOK(r)'
    BY <1>3 DEF PolicyInv, VerdictOK, Sound
<1>6. judging' = [i \in Judges |-> judging'[i]]
    BY <1>1 DEF PolicyInv
<1> QED
    BY <1>3, <1>4, <1>5, <1>6 DEF PolicyInv

LEMMA FinishKeeps ==
    ASSUME PolicyInv, NEW j \in Judges, FinishEvaluation(j)
    PROVE  PolicyInv'
<1>1. PICK f : f = judging[j]
    OBVIOUS
<1>2. PICK q, x, y : q = f.quote /\ x = quote[q] /\ y = f.policy
    OBVIOUS
<1>3. f # None /\ q \in QuoteIds /\ y \in Policies /\ x # None
    BY <1>1, <1>2 DEF FinishEvaluation, PolicyInv, JudgeOK
<1>4. IsQuote(x)
    BY <1>2, <1>3 DEF PolicyInv, CartInv, RowsOK
<1>5. PICK v : v = [policy |-> y, total |-> x.total, decision |-> Decision(Reasons(x, y, f))]
    OBVIOUS
<1>6. /\ verdict' = [verdict EXCEPT ![q] = v]
      /\ judging' = [judging EXCEPT ![j] = None]
      /\ UNCHANGED <<cartVars, late>>
    BY <1>1, <1>2, <1>5 DEF FinishEvaluation
<1>7. CartInv' /\ UNCHANGED quote
    BY <1>6, CartInvStep DEF PolicyInv, cartVars
<1>8. Sound(v, x)
    BY <1>3, <1>4, <1>5, FinishIsSound
<1>9. ASSUME NEW p \in QuoteIds PROVE VerdictOK(p)'
  <2>1. CASE p = q
    <3>1. verdict'[p] = v /\ quote'[p] = x
        BY <1>2, <1>6, <1>7, <2>1 DEF PolicyInv
    <3> QED
        BY <1>3, <1>8, <3>1 DEF VerdictOK, Sound
  <2>2. CASE p # q
    <3>1. verdict'[p] = verdict[p] /\ quote'[p] = quote[p]
        BY <1>6, <1>7, <2>2 DEF PolicyInv
    <3> QED
        BY <3>1 DEF PolicyInv, VerdictOK, Sound
  <2> QED
      BY <2>1, <2>2
<1>10. ASSUME NEW i \in Judges PROVE JudgeOK(i)'
  <2>1. judging'[i] = None \/ judging'[i] = judging[i]
      BY <1>6 DEF PolicyInv
  <2> QED
      BY <1>7, <2>1 DEF PolicyInv, JudgeOK
<1>11. /\ judging' = [i \in Judges |-> judging'[i]]
       /\ verdict' = [p \in QuoteIds |-> verdict'[p]]
    BY <1>6 DEF PolicyInv
<1> QED
    BY <1>7, <1>9, <1>10, <1>11 DEF PolicyInv

LEMMA PolicyInvStep == PolicyInv /\ [PolicyNext]_policyVars => PolicyInv'
<1> SUFFICES ASSUME PolicyInv, [PolicyNext]_policyVars PROVE PolicyInv'
    OBVIOUS
<1>1. CASE UNCHANGED policyVars \/ QuoteExpires \/ (CartNext /\ UNCHANGED <<late, judging, verdict>>)
  <2>1. [CartNext]_cartVars /\ UNCHANGED <<judging, verdict>>
      BY <1>1 DEF policyVars, QuoteExpires
  <2> QED
      BY <2>1, CartsGoOn
<1> QED
    BY <1>1, StartKeeps, FinishKeeps DEF PolicyNext

LEMMA PolicyInvAlways == PolicySpec => []PolicyInv
BY PolicyInvInit, PolicyInvStep, PTL DEF PolicySpec

\* What a policy allowed without a person stays within it (AllowRespectsPolicy)
\* for every policy and quote there can be: the limits of
\* evaluate_quote_against_policy are of the amount the customer pays and of
\* all units, and no handler changes the quote that was judged.
THEOREM AllowsRespectPolicies == PolicySpec => []AllowRespectsPolicy
<1>1. PolicyInv => AllowRespectsPolicy
  <2> SUFFICES ASSUME PolicyInv, NEW q \in QuoteIds, verdict[q] # None,
                      verdict[q].decision = "ALLOW"
               PROVE  LET x == quote[q]
                          y == verdict[q].policy
                      IN  /\ x.subtotal - x.discount + x.shipping + x.tax <=
                                 IF y.autoLimit = None THEN x.total ELSE y.autoLimit
                          /\ Within(x.total, y.ceiling)
                          /\ y.inTotal # 0 => Units(x) <= y.inTotal
                          /\ \A i \in Goods(x) :
                                /\ CategoryOf[i.product] \notin {None} \union y.blockedCategories
                                /\ i.product \notin y.blockedProducts
      BY DEF AllowRespectsPolicy
  <2>1. PICK x, y : x = quote[q] /\ y = verdict[q].policy
      OBVIOUS
  <2>2. x # None /\ Sound(verdict[q], x)
      BY <2>1 DEF PolicyInv, VerdictOK
  <2>3. IsQuote(x) /\ AddsUp(x)
      BY <2>1, <2>2 DEF PolicyInv, CartInv, RowsOK
  <2>4. /\ x.subtotal \in Nat /\ x.discount \in Nat /\ x.shipping \in Nat
        /\ x.tax \in Nat /\ x.total \in Nat
      BY <2>3 DEF IsQuote, QuoteRows
  <2>5. x.subtotal - x.discount + x.shipping + x.tax = x.total
    <3>1. PICK g \in Nat, d \in Nat, h \in Nat, t \in Nat, n \in Nat :
             g = x.subtotal /\ d = x.discount /\ h = x.shipping /\ t = x.tax /\ n = x.total
        BY <2>4
    <3>2. n + d = g + h + t
        BY <2>3, <3>1 DEF AddsUp
    <3>3. g - d + h + t = n
        BY <3>2
    <3> QED
        BY <3>1, <3>3
  <2>6. x.total <= IF y.autoLimit = None THEN x.total ELSE y.autoLimit
      BY <2>1, <2>2, <2>4 DEF Sound, Within
  <2> QED
      BY <2>1, <2>2, <2>5, <2>6 DEF Sound
<1> QED
    BY <1>1, PolicyInvAlways, PTL

\* No policy asks a person for what it forbids (ForbiddenIsNeverAsked): the
\* threshold is the only reason that Decision does not refuse for.
THEOREM ForbiddenNeedsNoPerson == PolicySpec => []ForbiddenIsNeverAsked
<1>1. PolicyInv => ForbiddenIsNeverAsked
    BY DEF PolicyInv, VerdictOK, Sound, ForbiddenIsNeverAsked
<1> QED
    BY <1>1, PolicyInvAlways, PTL

\* What a wider list objects to, a narrower one objects to as well.
LEMMA PermissionLoosens ==
    ASSUME NEW v, NEW a, NEW b, AsWide(a, b), NEW c, NEW d, c \subseteq d,
           NEW s, NEW t, NEW m \in Permission(v, a, c, s, t)
    PROVE  m \in {s, t} /\ \E k \in Permission(v, b, d, s, t) : k \in {s, t}
BY DEF Permission, Flag, AsWide

\* Whatever the looser policy finds, the stricter one has a reason as grave.
LEMMA LooserRefusesLess ==
    ASSUME NEW x, IsQuote(x), NEW y \in Policies, NEW z \in Policies, Looser(y, z),
           NEW m \in RuleReasons(x, y)
    PROVE  \E k \in RuleReasons(x, z) : m # Threshold => k # Threshold
<1>1. y \in PolicyRows /\ z \in PolicyRows
    BY PoliciesAssumption
<1>2. /\ y.perProduct \in Nat /\ z.perProduct \in Nat
      /\ y.inTotal \in Nat /\ z.inTotal \in Nat
      /\ y.ceiling = None \/ y.ceiling \in Nat
      /\ z.ceiling = None \/ z.ceiling \in Nat
      /\ y.autoLimit = None \/ y.autoLimit \in Nat
      /\ z.autoLimit = None \/ z.autoLimit \in Nat
      /\ y.shippingLimit = None \/ y.shippingLimit \in Nat
      /\ z.shippingLimit = None \/ z.shippingLimit \in Nat
    BY <1>1 DEF PolicyRows
<1>3. /\ Units(x) \in Nat /\ x.total \in Nat /\ x.shipping \in Nat
      /\ \A i \in Goods(x) : i.quantity \in Nat
  <2>1. \A i \in Goods(x) : i.quantity \in Nat
      BY DEF IsQuote, QuoteRows, ItemRows, Goods, Range
  <2> QED
      BY <2>1, UnitsAreAmount DEF IsQuote, QuoteRows
<1>4. /\ StandingReasons(x, z) \subseteq RuleReasons(x, z)
      /\ GoodsReasons(x, z) \subseteq RuleReasons(x, z)
    BY DEF RuleReasons
<1>5. CASE m \in Flag(~y.active, "POLICY_INACTIVE")
  <2>1. m \in Flag(~z.active, "POLICY_INACTIVE")
      BY <1>5 DEF Flag, Looser
  <2>2. m \in StandingReasons(x, z)
      BY <2>1 DEF StandingReasons
  <2> QED
      BY <1>4, <2>2
<1>6. CASE m \in MerchantReasons(x, y)
  <2>1. PICK k \in MerchantReasons(x, z) : k \in {"BLOCKED_MERCHANT", "UNAUTHORIZED_MERCHANT"}
      BY <1>6, PermissionLoosens DEF MerchantReasons, Looser
  <2>2. k \in StandingReasons(x, z) /\ k # Threshold
      BY <2>1 DEF StandingReasons, Threshold
  <2> QED
      BY <1>4, <2>2
<1>7. CASE m \in QuantityReasons(x, y)
  <2>1. CASE y.perProduct # 0 /\ \E i \in Goods(x) : i.quantity > y.perProduct
    <3>1. PICK i \in Goods(x) : i.quantity > y.perProduct
        BY <2>1
    <3>2. z.perProduct # 0 /\ i.quantity > z.perProduct
        BY <1>2, <1>3, <2>1, <3>1 DEF Looser, AsHigh
    <3>3. "EXCEEDS_MAX_PRODUCT_QUANTITY" \in StandingReasons(x, z)
        BY <3>2 DEF StandingReasons, QuantityReasons, Flag
    <3> QED
        BY <1>4, <3>3 DEF Threshold
  <2>2. CASE y.inTotal # 0 /\ Units(x) > y.inTotal
    <3>1. z.inTotal # 0 /\ Units(x) > z.inTotal
        BY <1>2, <1>3, <2>2 DEF Looser, AsHigh
    <3>2. "EXCEEDS_MAX_TOTAL_QUANTITY" \in StandingReasons(x, z)
        BY <3>1 DEF StandingReasons, QuantityReasons, Flag
    <3> QED
        BY <1>4, <3>2 DEF Threshold
  <2> QED
      BY <1>7, <2>1, <2>2 DEF QuantityReasons, Flag
<1>8. CASE m \in ShippingReasons(x, y)
  <2>1. CASE y.shippingLimit # None /\ x.shipping > y.shippingLimit
    <3>1. z.shippingLimit # None /\ x.shipping > z.shippingLimit
        BY <1>2, <1>3, <2>1 DEF Looser, AsHigh
    <3>2. "EXCEEDS_MAX_SHIPPING_COST" \in StandingReasons(x, z)
        BY <3>1 DEF StandingReasons, ShippingReasons, Flag
    <3> QED
        BY <1>4, <3>2 DEF Threshold
  <2>2. CASE \E o \in Options : /\ o.id = x.option
                               /\ m \in Permission(o.code, y.allowedShipping, y.blockedShipping,
                                                   "BLOCKED_SHIPPING_TYPE",
                                                   "UNAUTHORIZED_SHIPPING_TYPE")
    <3>1. PICK o \in Options : /\ o.id = x.option
                               /\ m \in Permission(o.code, y.allowedShipping, y.blockedShipping,
                                                   "BLOCKED_SHIPPING_TYPE",
                                                   "UNAUTHORIZED_SHIPPING_TYPE")
        BY <2>2
    <3>2. PICK k \in Permission(o.code, z.allowedShipping, z.blockedShipping,
                                "BLOCKED_SHIPPING_TYPE", "UNAUTHORIZED_SHIPPING_TYPE") :
            k \in {"BLOCKED_SHIPPING_TYPE", "UNAUTHORIZED_SHIPPING_TYPE"}
        BY <3>1, PermissionLoosens DEF Looser
    <3>3. k \in ShippingReasons(x, z)
        BY <3>1 DEF ShippingReasons
    <3>4. k \in StandingReasons(x, z) /\ k # Threshold
        BY <3>2, <3>3 DEF StandingReasons, Threshold
    <3> QED
        BY <1>4, <3>4
  <2> QED
      BY <1>8, <2>1, <2>2 DEF ShippingReasons, Flag
<1>9. CASE m \in SpendingReasons(x, y)
  <2>1. CASE z.ceiling # None /\ x.total > z.ceiling
    <3>1. "EXCEEDS_MAX_PURCHASE_AMOUNT" \in StandingReasons(x, z)
        BY <2>1 DEF StandingReasons, SpendingReasons
    <3> QED
        BY <1>4, <3>1 DEF Threshold
  <2>2. CASE ~(z.ceiling # None /\ x.total > z.ceiling)
    <3>1. ~(y.ceiling # None /\ x.total > y.ceiling)
        BY <1>2, <1>3, <2>2 DEF Looser, AsHigh
    <3>2. m = Threshold /\ y.autoLimit # None /\ x.total > y.autoLimit
        BY <1>9, <3>1 DEF SpendingReasons, Flag, Threshold
    <3>3. z.autoLimit # None /\ x.total > z.autoLimit
        BY <1>2, <1>3, <3>2 DEF Looser, AsHigh
    <3>4. m \in StandingReasons(x, z)
        BY <2>2, <3>2, <3>3 DEF StandingReasons, SpendingReasons, Flag, Threshold
    <3> QED
        BY <1>4, <3>2, <3>4
  <2> QED
      BY <2>1, <2>2
<1>10. CASE m \in GoodsReasons(x, y)
  <2>1. PICK i \in Goods(x) :
          \/ m \in ItemReasons(i) \/ m \in CategoryReasons(i, y)
          \/ m \in Flag(i.product \in y.blockedProducts, "BLOCKED_PRODUCT_ID")
      BY <1>10 DEF GoodsReasons
  <2>2. \A k : \/ k \in ItemReasons(i) \/ k \in CategoryReasons(i, z)
               \/ k \in Flag(i.product \in z.blockedProducts, "BLOCKED_PRODUCT_ID")
            => k \in GoodsReasons(x, z)
      BY DEF GoodsReasons
  <2>3. CASE m \in ItemReasons(i)
      BY <1>4, <2>2, <2>3
  <2>4. CASE m \in Flag(i.product \in y.blockedProducts, "BLOCKED_PRODUCT_ID")
    <3>1. m \in Flag(i.product \in z.blockedProducts, "BLOCKED_PRODUCT_ID")
        BY <2>4 DEF Flag, Looser
    <3> QED
        BY <1>4, <2>2, <3>1
  <2>5. CASE m \in CategoryReasons(i, y)
    <3>1. CASE CategoryOf[i.product] = None
      <4>1. m \in CategoryReasons(i, z)
          BY <2>5, <3>1 DEF CategoryReasons
      <4> QED
          BY <1>4, <2>2, <4>1
    <3>2. CASE CategoryOf[i.product] # None
      <4>1. PICK k \in CategoryReasons(i, z) : k \in {"BLOCKED_CATEGORY", "UNAUTHORIZED_CATEGORY"}
          BY <2>5, <3>2, PermissionLoosens DEF CategoryReasons, Looser
      <4> QED
          BY <1>4, <2>2, <4>1 DEF Threshold
    <3> QED
        BY <3>1, <3>2
  <2> QED
      BY <2>1, <2>3, <2>4, <2>5
<1>11. \/ m \in Flag(~y.active, "POLICY_INACTIVE") \/ m \in MerchantReasons(x, y)
       \/ m \in QuantityReasons(x, y) \/ m \in ShippingReasons(x, y)
       \/ m \in SpendingReasons(x, y) \/ m \in GoodsReasons(x, y)
    BY DEF RuleReasons, StandingReasons
<1> QED
    BY <1>5, <1>6, <1>7, <1>8, <1>9, <1>10, <1>11

\* Loosening a policy never makes its answer stricter (LooserIsNeverStricter),
\* for every pair of policies: zero, null and the empty list are the loosest
\* limits, and the threshold is looked at only below the ceiling.
THEOREM LooseningIsSafe == PolicySpec => []LooserIsNeverStricter
<1>1. PolicyInv => LooserIsNeverStricter
  <2> SUFFICES ASSUME PolicyInv, NEW q \in QuoteIds, NEW pair \in LooserPairs,
                      quote[q] # None,
                      NEW y, y = pair[1], NEW z, z = pair[2],
                      NEW loose, loose = RuleReasons(quote[q], y),
                      NEW strict, strict = RuleReasons(quote[q], z)
               PROVE  /\ Decision(loose) = "DENY" => Decision(strict) = "DENY"
                      /\ Decision(strict) = "ALLOW" => Decision(loose) = "ALLOW"
      BY DEF LooserIsNeverStricter
  <2>1. y \in Policies /\ z \in Policies /\ Looser(y, z)
      BY DEF LooserPairs
  <2>2. IsQuote(quote[q])
      BY DEF PolicyInv, CartInv, RowsOK
  <2>3. \A m \in loose : \E k \in strict : m # Threshold => k # Threshold
      BY <2>2, <2>1, LooserRefusesLess
  <2>4. Decision(loose) = "DENY" => Decision(strict) = "DENY"
      BY <2>3, DecisionCases
  <2>5. Decision(strict) = "ALLOW" => Decision(loose) = "ALLOW"
    <3>1. strict = {} => loose = {}
        BY <2>3
    <3>2. Decision({}) = "ALLOW"
        BY DEF Decision
    <3> QED
        BY <3>1, <3>2, DecisionCases
  <2> QED
      BY <2>4, <2>5
<1> QED
    BY <1>1, PolicyInvAlways, PTL
=============================================================================
