---------------------------- MODULE Fulfilment ----------------------------
(***************************************************************************)
(* Orders and stock: OrderService.create_order with the row locks it takes *)
(* on the inventory of its items one after another,                        *)
(* OrderService.update_order_status, and the operations of                 *)
(* InventoryService.  What create_order has flushed is seen by nobody      *)
(* until it commits, and a crash or a deadlock rolls it back.  The quotes  *)
(* are those of CheckoutStateMachine, which has what else happens to them. *)
(***************************************************************************)
EXTENDS Naturals, Sequences, FiniteSets, FiniteSetsExt

CONSTANTS Sessions,     \* checkout sessions (quotes)
          Catalogue,    \* products that quotes name
          Products,     \* those of them that have an inventory row
          ItemsOf,      \* ItemsOf[s]: items_snapshot, <<[product, quantity], ...>>
          Stock,        \* Stock[p]: how many units there are
          OrderIds,     \* names for orders; bounds how many are placed
          Workers,      \* request threads
          Quantities,   \* quantities that callers reserve and release
          Targets,      \* statuses that clients ask for
          None          \* "no value"

OrderStatuses ==
    {"CREATED", "CONFIRMED", "PROCESSING", "SHIPPED", "OUT_FOR_DELIVERY",
     "DELIVERED", "CANCELLED"}

ASSUME FulfilmentAssumption ==
    /\ Products \subseteq Catalogue
    /\ Stock \in [Products -> Nat]
    /\ ItemsOf \in [Sessions -> Seq([product : Catalogue, quantity : Nat])]
    /\ Quantities \subseteq Nat
    /\ Targets \subseteq OrderStatuses
    /\ IsFiniteSet(OrderIds)
    /\ None \notin Workers \union OrderStatuses \union Sessions \union OrderIds

VARIABLES
    status,      \* status[s]: CheckoutSessionModel.status
    late,        \* late[s]: the clock has passed expires_at
    available,   \* available[p], reserved[p], sold[p]: the committed
    reserved,    \*   columns of InventoryModel
    sold,
    label,       \* label[p]: InventoryModel.availability_state
    rowLock,     \* rowLock[p]: the worker whose transaction has the row
    order,       \* order[o]: OrderModel.status, None if there is no such row
    quoteOf,     \* quoteOf[o]: the quote that o was made from
    pc,          \* where the worker is in its handler
    req,         \* the request it serves
    item,        \* the item of the snapshot that it is at
    loaded,      \* loaded[w]: products whose row its database session has
    copy,        \* copy[w][p]: that row, with what is flushed and uncommitted
    passed       \* history, passed[o]: the statuses that o has had

stock == <<available, reserved, sold, label, rowLock>>
book  == <<order, quoteOf, passed>>
local == <<pc, req, item, loaded, copy>>
vars  == <<status, late, available, reserved, sold, label, rowLock, order,
           quoteOf, pc, req, item, loaded, copy, passed>>

-----------------------------------------------------------------------------
(* Requests and the type invariant                                         *)

PlaceRequests  == [op : {"place"}, session : Sessions]
StatusRequests == [op : {"status"}, order : OrderIds, target : Targets]
Requests == PlaceRequests \union StatusRequests

Nothing == [p \in Products |-> 0]

\* The columns that a sale changes.
Rows  == [reserved : Nat, sold : Nat]
Blank == [p \in Products |-> [reserved |-> 0, sold |-> 0]]

\* compute_state, with the threshold of five units.
ComputeState(n) ==
    IF n = 0 THEN "OUT_OF_STOCK" ELSE IF n <= 5 THEN "LOW_STOCK" ELSE "IN_STOCK"

\* A mutant of AllowedNext: a parcel may be delivered straight from the
\* depot.
SkipDelivery(st) ==
    IF st = "SHIPPED" THEN {"OUT_FOR_DELIVERY", "DELIVERED"}
    ELSE CASE st = "CREATED"          -> {"CONFIRMED", "CANCELLED"}
           [] st = "CONFIRMED"        -> {"PROCESSING", "CANCELLED"}
           [] st = "PROCESSING"       -> {"SHIPPED", "CANCELLED"}
           [] st = "OUT_FOR_DELIVERY" -> {"DELIVERED"}
           [] OTHER                   -> {}

\* ALLOWED_TRANSITIONS.
AllowedNext(st) ==
    CASE st = "CREATED"          -> {"CONFIRMED", "CANCELLED"}
      [] st = "CONFIRMED"        -> {"PROCESSING", "CANCELLED"}
      [] st = "PROCESSING"       -> {"SHIPPED", "CANCELLED"}
      [] st = "SHIPPED"          -> {"OUT_FOR_DELIVERY"}
      [] st = "OUT_FOR_DELIVERY" -> {"DELIVERED"}
      [] OTHER                   -> {}

\* Every variable has values of its type.
TypeOK ==
    /\ status \in [Sessions -> {"PENDING", "COMPLETED", "EXPIRED"}]
    /\ late \in [Sessions -> BOOLEAN]
    /\ available \in [Products -> Nat]
    /\ reserved \in [Products -> Nat]
    /\ sold \in [Products -> Nat]
    /\ label \in [Products -> {"OUT_OF_STOCK", "LOW_STOCK", "IN_STOCK"}]
    /\ rowLock \in [Products -> Workers \union {None}]
    /\ order \in [OrderIds -> OrderStatuses \union {None}]
    /\ quoteOf \in [OrderIds -> Sessions \union {None}]
    /\ pc \in [Workers -> {"idle", "begin", "refuse", "items", "write"}]
    /\ req \in [Workers -> Requests \union {None}]
    /\ item \in [Workers -> Nat]
    /\ loaded \in [Workers -> SUBSET Products]
    /\ copy \in [Workers -> [Products -> Rows]]
    /\ passed \in [OrderIds -> SUBSET OrderStatuses]

Init ==
    /\ status = [s \in Sessions |-> "PENDING"]
    /\ late = [s \in Sessions |-> FALSE]
    /\ available = Stock
    /\ reserved = Nothing
    /\ sold = Nothing
    /\ label = [p \in Products |-> ComputeState(Stock[p])]
    /\ rowLock = [p \in Products |-> None]
    /\ order = [o \in OrderIds |-> None]
    /\ quoteOf = [o \in OrderIds |-> None]
    /\ pc = [w \in Workers |-> "idle"]
    /\ req = [w \in Workers |-> None]
    /\ item = [w \in Workers |-> 0]
    /\ loaded = [w \in Workers |-> {}]
    /\ copy = [w \in Workers |-> Blank]
    /\ passed = [o \in OrderIds |-> {}]

-----------------------------------------------------------------------------
(* What the handlers share                                                 *)

\* Mutants of Smaller: what is asked for is not bounded by what is reserved,
\* and all that is reserved is taken.
Asked(a, b) == b
All(a, b) == a

Smaller(a, b) == IF a <= b THEN a ELSE b

\* A mutant of ReleaseRows: the transaction is not ended.
KeepRows(w) == rowLock' = rowLock

ReleaseRows(w) ==
    rowLock' = [p \in Products |-> IF rowLock[p] = w THEN None ELSE rowLock[p]]

GoTo(w, place) == pc' = [pc EXCEPT ![w] = place]

\* Commit or rollback, and the end of the request.
End(w) ==
    /\ GoTo(w, "idle")
    /\ req' = [req EXCEPT ![w] = None]
    /\ item' = [item EXCEPT ![w] = 0]
    /\ loaded' = [loaded EXCEPT ![w] = {}]
    /\ copy' = [copy EXCEPT ![w] = Blank]
    /\ ReleaseRows(w)

\* A mutant of RowIsFree: a query without FOR UPDATE.
RowNeverWaits(w, p) == TRUE

\* SELECT ... FOR UPDATE on the inventory row goes through.
RowIsFree(w, p) == rowLock[p] \in {w, None}

Items(w) == ItemsOf[req[w].session]

-----------------------------------------------------------------------------
(* OrderService.create_order                                               *)

Submit(w) ==
    /\ pc[w] = "idle"
    /\ \E r \in Requests : req' = [req EXCEPT ![w] = r]
    /\ GoTo(w, "begin")
    /\ UNCHANGED <<status, late, stock, book, item, loaded, copy>>

\* The session is read without a lock.
CheckSession(w) ==
    LET s == req[w].session IN
    /\ pc[w] = "begin" /\ req[w].op = "place"
    /\ \/ status[s] # "PENDING" /\ End(w)
       \/ /\ status[s] = "PENDING"
          /\ GoTo(w, IF late[s] THEN "refuse" ELSE "items")
          /\ item' = [item EXCEPT ![w] = 1]
          /\ UNCHANGED <<rowLock, req, loaded, copy>>
    /\ UNCHANGED <<status, late, available, reserved, sold, label, book>>

ExpireSession(w) ==
    /\ pc[w] = "refuse"
    /\ status' = [status EXCEPT ![req[w].session] = "EXPIRED"]
    /\ End(w)
    /\ UNCHANGED <<late, available, reserved, sold, label, book>>

\* The row as the worker's transaction sees it.
RowOf(w, p) ==
    IF p \in loaded[w] THEN copy[w][p]
    ELSE [reserved |-> reserved[p], sold |-> sold[p]]

\* commit_sold_stock for the next item: the row lock is awaited, what is
\* reserved is turned into sold and flushed.  A product without an inventory
\* row is passed over.
SellItem(w) ==
    LET i == item[w]
        p == Items(w)[i].product
        n == Smaller(RowOf(w, p).reserved, Items(w)[i].quantity)
    IN
    /\ pc[w] = "items" /\ i <= Len(Items(w))
    /\ \/ /\ p \in Products /\ RowIsFree(w, p)
          /\ rowLock' = [rowLock EXCEPT ![p] = w]
          /\ loaded' = [loaded EXCEPT ![w] = @ \union {p}]
          /\ copy' = [copy EXCEPT ![w][p] =
                         [reserved |-> RowOf(w, p).reserved - n,
                          sold |-> RowOf(w, p).sold + n]]
       \/ p \notin Products /\ UNCHANGED <<rowLock, loaded, copy>>
    /\ item' = [item EXCEPT ![w] = i + 1]
    /\ UNCHANGED <<status, late, available, reserved, sold, label, book, pc, req>>

\* A fresh identifier; None when OrderIds is used up.
NewOrder ==
    IF \A o \in OrderIds : order[o] # None THEN None
    ELSE CHOOSE o \in OrderIds : order[o] = None

\* One commit: the order and its items, the session, the cart, and the rows
\* of the products with the values that were computed from what was read.
CommitOrder(w) ==
    LET s == req[w].session IN
    /\ pc[w] = "items" /\ item[w] > Len(Items(w))
    /\ NewOrder \in OrderIds
    /\ order' = [order EXCEPT ![NewOrder] = "CONFIRMED"]
    /\ quoteOf' = [quoteOf EXCEPT ![NewOrder] = s]
    /\ passed' = [passed EXCEPT ![NewOrder] = {"CONFIRMED"}]
    /\ status' = [status EXCEPT ![s] = "COMPLETED"]
    /\ reserved' = [p \in Products |-> RowOf(w, p).reserved]
    /\ sold' = [p \in Products |-> RowOf(w, p).sold]
    /\ End(w)
    /\ UNCHANGED <<late, available, label>>

\* The process or the connection dies, or PostgreSQL ends a deadlock by
\* aborting one of the transactions: everything flushed is rolled back.
Holder(w) == rowLock[Items(w)[item[w]].product]

Waiting(w) ==
    /\ pc[w] = "items" /\ item[w] <= Len(Items(w))
    /\ Items(w)[item[w]].product \in Products
    /\ ~RowIsFree(w, Items(w)[item[w]].product)

\* w is on a cycle of transactions that wait for each other.
Deadlocked(w) ==
    \E S \in SUBSET Workers :
        /\ w \in S
        /\ \A v \in S : Waiting(v)
        /\ {Holder(v) : v \in S} = S

AbortDeadlock(w) ==
    /\ Deadlocked(w)
    /\ End(w)
    /\ UNCHANGED <<status, late, available, reserved, sold, label, book>>

Crash(w) ==
    /\ pc[w] # "idle"
    /\ End(w)
    /\ UNCHANGED <<status, late, available, reserved, sold, label, book>>

-----------------------------------------------------------------------------
(* OrderService.update_order_status                                        *)

\* The order is read without a lock and the table consulted.
ReadOrder(w) ==
    LET o == req[w].order IN
    /\ pc[w] = "begin" /\ req[w].op = "status"
    /\ \/ order[o] = None /\ End(w)
       \/ /\ order[o] # None /\ req[w].target \notin AllowedNext(order[o])
          /\ End(w)
       \/ /\ order[o] # None /\ req[w].target \in AllowedNext(order[o])
          /\ GoTo(w, "write")
          /\ UNCHANGED <<rowLock, req, item, loaded, copy>>
    /\ UNCHANGED <<status, late, available, reserved, sold, label, book>>

WriteOrder(w) ==
    LET o == req[w].order IN
    /\ pc[w] = "write"
    /\ order' = [order EXCEPT ![o] = req[w].target]
    /\ passed' = [passed EXCEPT ![o] = @ \union {req[w].target}]
    /\ End(w)
    /\ UNCHANGED <<status, late, available, reserved, sold, label, quoteOf>>

-----------------------------------------------------------------------------
(* InventoryService for callers that commit at once, and the clock         *)

ReserveStock(p, n) ==
    /\ RowIsFree(None, p)
    /\ n > 0 /\ available[p] >= n
    /\ available' = [available EXCEPT ![p] = @ - n]
    /\ reserved' = [reserved EXCEPT ![p] = @ + n]
    /\ label' = [label EXCEPT ![p] = ComputeState(available[p] - n)]
    /\ UNCHANGED <<status, late, sold, rowLock, book, local>>

\* No more than is reserved is released.
ReleaseStock(p, n) ==
    LET back == Smaller(reserved[p], n) IN
    /\ RowIsFree(None, p)
    /\ reserved' = [reserved EXCEPT ![p] = @ - back]
    /\ available' = [available EXCEPT ![p] = @ + back]
    /\ label' = [label EXCEPT ![p] = ComputeState(available[p] + back)]
    /\ UNCHANGED <<status, late, sold, rowLock, book, local>>

Elapse(s) ==
    /\ ~late[s]
    /\ late' = [late EXCEPT ![s] = TRUE]
    /\ UNCHANGED <<status, stock, book, local>>

-----------------------------------------------------------------------------
(* The specification                                                       *)

Handle(w) ==
    \/ CheckSession(w) \/ ExpireSession(w) \/ SellItem(w) \/ CommitOrder(w)
    \/ AbortDeadlock(w) \/ ReadOrder(w) \/ WriteOrder(w)

Next ==
    \/ \E w \in Workers : Submit(w) \/ Handle(w) \/ Crash(w)
    \/ \E p \in Products, n \in Quantities :
          ReserveStock(p, n) \/ ReleaseStock(p, n)
    \/ \E s \in Sessions : Elapse(s)

Spec == Init /\ [][Next]_vars

\* Threads run, and a row lock that is free again and again is obtained.
FairSpec == Spec /\ \A w \in Workers : SF_vars(Handle(w))

-----------------------------------------------------------------------------
(* Properties that hold                                                    *)

\* Units are neither made nor lost by reservations, releases, orders,
\* deadlocks and crashes (inventory_service.py:96-169).
StockConserved ==
    \A p \in Products : available[p] + reserved[p] + sold[p] = Stock[p]

\* What an order has computed from a row and flushed still fits the row when
\* it commits: no reservation, release or other order is overwritten
\* (inventory_service.py:159-167, order_service.py:87-151).
FlushedFitsTheRow ==
    \A w \in Workers : \A p \in loaded[w] :
        /\ rowLock[p] = w
        /\ copy[w][p].reserved + copy[w][p].sold = reserved[p] + sold[p]

\* Nothing is sold without an order for it, whatever failed between the sale
\* of the first item and the commit.
OrderedUnits(o, p) ==
    IF order[o] = None THEN 0
    ELSE LET items == ItemsOf[quoteOf[o]]
         IN  MapThenSumSet(LAMBDA i : IF items[i].product = p
                                        THEN items[i].quantity ELSE 0,
                           DOMAIN items)

Ordered(p) == MapThenSumSet(LAMBDA o : OrderedUnits(o, p), OrderIds)

SoldWasOrdered == \A p \in Products : sold[p] <= Ordered(p)

\* An order that was delivered went through every stage before, although
\* changes of status race with each other (order_service.py:26-34, 186-205).
DeliveryPassesEveryStage ==
    \A o \in OrderIds :
        /\ "DELIVERED" \in passed[o] => "OUT_FOR_DELIVERY" \in passed[o]
        /\ "OUT_FOR_DELIVERY" \in passed[o] => "SHIPPED" \in passed[o]
        /\ "SHIPPED" \in passed[o] => "PROCESSING" \in passed[o]

\* Every order request ends although orders can deadlock on the rows of
\* their items.
EveryRequestEnds == \A w \in Workers : pc[w] = "begin" ~> pc[w] = "idle"

-----------------------------------------------------------------------------
(* Claims of the repository that the code does not keep                    *)

\* "Prevents overselling" (inventory_service.py:4).
NoOverselling == \A p \in Products : Ordered(p) <= Stock[p]

\* "enforces deterministic state machine transitions" (order_service.py:3):
\* an order changes its status along ALLOWED_TRANSITIONS.
OrdersFollowTheTable ==
    [][\A o \in OrderIds :
          (order[o] # None /\ order'[o] # order[o]) =>
              order'[o] \in AllowedNext(order[o])]_vars

=============================================================================
