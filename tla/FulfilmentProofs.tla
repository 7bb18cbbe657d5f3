------------------------- MODULE FulfilmentProofs -------------------------
(***************************************************************************)
(* Proofs about Fulfilment, for every number of quotes, products, orders   *)
(* and request threads: stock is conserved, nothing is sold without an     *)
(* order for it, and orders go through every stage before they are         *)
(* delivered.                                                              *)
(***************************************************************************)
EXTENDS Fulfilment, SumLemmas, SequenceTheorems

-----------------------------------------------------------------------------
(* Type correctness                                                        *)

\* Which request a worker has at each place, and how far it has come.
Control(w) ==
    /\ pc[w] # "idle" => req[w] \in Requests
    /\ pc[w] \in {"refuse", "items"} => req[w].op = "place"
    /\ pc[w] = "items" => item[w] > 0
    /\ pc[w] = "write" => req[w].op = "status"

ThreadsOK ==
    /\ rowLock \in [Products -> Workers \union {None}]
    /\ pc \in [Workers -> {"idle", "begin", "refuse", "items", "write"}]
    /\ req \in [Workers -> Requests \union {None}]
    /\ item \in [Workers -> Nat]
    /\ loaded \in [Workers -> SUBSET Products]
    /\ copy \in [Workers -> [Products -> Rows]]
    /\ \A w \in Workers : Control(w)

StockOK ==
    /\ available \in [Products -> Nat]
    /\ reserved \in [Products -> Nat]
    /\ sold \in [Products -> Nat]
    /\ label \in [Products -> {"OUT_OF_STOCK", "LOW_STOCK", "IN_STOCK"}]

BookOK ==
    /\ status \in [Sessions -> {"PENDING", "COMPLETED", "EXPIRED"}]
    /\ late \in [Sessions -> BOOLEAN]
    /\ order \in [OrderIds -> OrderStatuses \union {None}]
    /\ quoteOf \in [OrderIds -> Sessions \union {None}]
    /\ passed \in [OrderIds -> SUBSET OrderStatuses]

ControlInv == ThreadsOK /\ StockOK /\ BookOK

\* What a request carries, whichever kind it is.
LEMMA RequestFields ==
    ASSUME NEW r \in Requests
    PROVE  /\ r.op = "place" => r.session \in Sessions
           /\ r.op = "status" => r.order \in OrderIds /\ r.target \in OrderStatuses
           /\ r.op \in {"place", "status"}
BY FulfilmentAssumption
DEF Requests, PlaceRequests, StatusRequests, FulfilmentAssumption

LEMMA ComputeStateType ==
    ASSUME NEW n \in Nat
    PROVE  ComputeState(n) \in {"OUT_OF_STOCK", "LOW_STOCK", "IN_STOCK"}
BY DEF ComputeState

\* Ending a request keeps the threads in order.
LEMMA EndKeepsThreads ==
    ASSUME ThreadsOK, NEW w \in Workers, End(w)
    PROVE  ThreadsOK'
<1>1. Blank \in [Products -> Rows]
  BY DEF Blank, Rows
<1>2. rowLock' \in [Products -> Workers \union {None}]
  BY DEF ThreadsOK, End, ReleaseRows
<1>3. \A v \in Workers : Control(v)'
  BY DEF ThreadsOK, End, GoTo, Control
<1> QED
  BY <1>1, <1>2, <1>3 DEF ThreadsOK, End, GoTo

\* The item that a worker is at.
LEMMA ItemFields ==
    ASSUME ControlInv, NEW w \in Workers, pc[w] = "items",
           item[w] <= Len(Items(w))
    PROVE  /\ Items(w)[item[w]].product \in Catalogue
           /\ Items(w)[item[w]].quantity \in Nat
<1>1. req[w].session \in Sessions
  BY RequestFields DEF ControlInv, ThreadsOK, Control
<1>2. Items(w) \in Seq([product : Catalogue, quantity : Nat])
  BY <1>1, FulfilmentAssumption DEF Items, FulfilmentAssumption
<1>3. item[w] \in 1 .. Len(Items(w))
  BY <1>2 DEF ControlInv, ThreadsOK, Control
<1>4. Items(w)[item[w]] \in [product : Catalogue, quantity : Nat]
  BY <1>2, <1>3, ElementOfSeq
<1> QED
  BY <1>4

LEMMA RowType ==
    ASSUME ThreadsOK, StockOK, NEW w \in Workers, NEW p \in Products
    PROVE  /\ RowOf(w, p) \in Rows
           /\ RowOf(w, p).reserved \in Nat
           /\ RowOf(w, p).sold \in Nat
BY DEF ThreadsOK, StockOK, RowOf, Rows

LEMMA TypeInit == Init => ControlInv
<1> SUFFICES ASSUME Init PROVE ControlInv
  OBVIOUS
<1>1. Blank \in [Products -> Rows] /\ Nothing \in [Products -> Nat]
  BY DEF Blank, Rows, Nothing
<1>2. \A p \in Products : Stock[p] \in Nat
  BY FulfilmentAssumption DEF FulfilmentAssumption
<1>3. StockOK
  BY <1>1, <1>2, ComputeStateType, FulfilmentAssumption
  DEF Init, StockOK, FulfilmentAssumption
<1>4. ThreadsOK
  BY <1>1 DEF Init, ThreadsOK, Control
<1>5. BookOK
  BY DEF Init, BookOK
<1> QED
  BY <1>3, <1>4, <1>5 DEF ControlInv

\* A request begins and moves on.
LEMMA SubmitType ==
    ASSUME ControlInv, NEW w \in Workers, Submit(w)
    PROVE  ControlInv'
BY DEF ControlInv, ThreadsOK, StockOK, BookOK, Control, Submit, GoTo, stock, book

LEMMA CheckSessionType ==
    ASSUME ControlInv, NEW w \in Workers, CheckSession(w)
    PROVE  ControlInv'
<1>1. StockOK' /\ BookOK'
  BY DEF ControlInv, StockOK, BookOK, CheckSession, book
<1>2. CASE End(w)
  BY <1>1, <1>2, EndKeepsThreads DEF ControlInv
<1>3. CASE ~End(w)
  <2>1. /\ pc' = [pc EXCEPT ![w] = IF late[req[w].session] THEN "refuse" ELSE "items"]
        /\ item' = [item EXCEPT ![w] = 1]
        /\ UNCHANGED <<rowLock, req, loaded, copy>>
        /\ pc[w] = "begin" /\ req[w].op = "place"
    BY <1>3 DEF CheckSession, GoTo
  <2>2. \A v \in Workers : Control(v)'
    BY <2>1 DEF ControlInv, ThreadsOK, Control
  <2>3. ThreadsOK'
    BY <2>1, <2>2 DEF ControlInv, ThreadsOK
  <2> QED
    BY <1>1, <2>3 DEF ControlInv
<1> QED
  BY <1>2, <1>3

LEMMA ExpireSessionType ==
    ASSUME ControlInv, NEW w \in Workers, ExpireSession(w)
    PROVE  ControlInv'
<1>1. ThreadsOK'
  BY EndKeepsThreads DEF ControlInv, ExpireSession
<1> QED
  BY <1>1 DEF ControlInv, StockOK, BookOK, ExpireSession, book

\* What a sale leaves in the row of its product.
LEMMA SoldRow ==
    ASSUME NEW a \in Nat, NEW n \in Nat
    PROVE  Smaller(a, n) \in Nat /\ Smaller(a, n) <= a /\ Smaller(a, n) <= n
BY DEF Smaller

\* What SellItem does to the rows, with the amount named.
LEMMA SellItemFacts ==
    ASSUME ControlInv, NEW w \in Workers, SellItem(w)
    PROVE  /\ pc[w] = "items"
           /\ item' = [item EXCEPT ![w] = item[w] + 1]
           /\ UNCHANGED <<status, late, available, reserved, sold, label,
                          order, quoteOf, passed, pc, req>>
           /\ \/ UNCHANGED <<rowLock, loaded, copy>>
              \/ \E p \in Products, n \in Nat :
                    /\ rowLock[p] \in {w, None}
                    /\ n <= RowOf(w, p).reserved
                    /\ rowLock' = [rowLock EXCEPT ![p] = w]
                    /\ loaded' = [loaded EXCEPT ![w] = loaded[w] \union {p}]
                    /\ copy' = [copy EXCEPT ![w][p] =
                                  [reserved |-> RowOf(w, p).reserved - n,
                                   sold |-> RowOf(w, p).sold + n]]
<1> DEFINE i == item[w]
           p == Items(w)[i].product
           n == Smaller(RowOf(w, p).reserved, Items(w)[i].quantity)
<1>1. pc[w] = "items" /\ i <= Len(Items(w))
  BY DEF SellItem
<1>2. Items(w)[i].quantity \in Nat
  BY <1>1, ItemFields
<1>3. CASE p \notin Products
  BY <1>3 DEF SellItem, book
<1>4. CASE p \in Products
  <2>1. n \in Nat /\ n <= RowOf(w, p).reserved
    BY <1>2, <1>4, RowType, SoldRow DEF ControlInv
  <2>2. /\ rowLock[p] \in {w, None}
        /\ rowLock' = [rowLock EXCEPT ![p] = w]
        /\ loaded' = [loaded EXCEPT ![w] = loaded[w] \union {p}]
        /\ copy' = [copy EXCEPT ![w][p] =
                      [reserved |-> RowOf(w, p).reserved - n,
                       sold |-> RowOf(w, p).sold + n]]
    BY <1>4 DEF SellItem, RowIsFree
  <2>3. \E q \in Products, m \in Nat :
           /\ rowLock[q] \in {w, None}
           /\ m <= RowOf(w, q).reserved
           /\ rowLock' = [rowLock EXCEPT ![q] = w]
           /\ loaded' = [loaded EXCEPT ![w] = loaded[w] \union {q}]
           /\ copy' = [copy EXCEPT ![w][q] =
                         [reserved |-> RowOf(w, q).reserved - m,
                          sold |-> RowOf(w, q).sold + m]]
    <3> HIDE DEF n, p
    <3> QED
      BY <1>4, <2>1, <2>2
  <2> QED
    BY <2>3 DEF SellItem, book
<1> QED
  BY <1>3, <1>4

LEMMA SellItemType ==
    ASSUME ControlInv, NEW w \in Workers, SellItem(w)
    PROVE  ControlInv'
<1>1. StockOK' /\ BookOK'
  BY SellItemFacts DEF ControlInv, StockOK, BookOK
<1>2. \A v \in Workers : Control(v)'
  BY SellItemFacts DEF ControlInv, ThreadsOK, Control
<1>3. CASE UNCHANGED <<rowLock, loaded, copy>>
  BY <1>1, <1>2, <1>3, SellItemFacts DEF ControlInv, ThreadsOK
<1>4. CASE ~ UNCHANGED <<rowLock, loaded, copy>>
  <2>1. PICK p \in Products, n \in Nat :
           /\ n <= RowOf(w, p).reserved
           /\ rowLock' = [rowLock EXCEPT ![p] = w]
           /\ loaded' = [loaded EXCEPT ![w] = loaded[w] \union {p}]
           /\ copy' = [copy EXCEPT ![w][p] =
                         [reserved |-> RowOf(w, p).reserved - n,
                          sold |-> RowOf(w, p).sold + n]]
    BY <1>4, SellItemFacts
  <2>2. [reserved |-> RowOf(w, p).reserved - n,
         sold |-> RowOf(w, p).sold + n] \in Rows
    BY <2>1, RowType DEF ControlInv, Rows
  <2>3. copy' \in [Workers -> [Products -> Rows]]
    BY <2>1, <2>2 DEF ControlInv, ThreadsOK
  <2>4. /\ rowLock' \in [Products -> Workers \union {None}]
        /\ loaded' \in [Workers -> SUBSET Products]
    BY <2>1 DEF ControlInv, ThreadsOK
  <2> QED
    BY <1>1, <1>2, <2>3, <2>4, SellItemFacts, SMTT(40) DEF ControlInv, ThreadsOK
<1> QED
  BY <1>3, <1>4

LEMMA CommitOrderType ==
    ASSUME ControlInv, NEW w \in Workers, CommitOrder(w)
    PROVE  ControlInv'
<1>1. ThreadsOK'
  BY EndKeepsThreads DEF ControlInv, CommitOrder
<1>2. StockOK'
  BY RowType DEF ControlInv, StockOK, CommitOrder
<1>3. req[w].session \in Sessions
  BY RequestFields DEF ControlInv, ThreadsOK, Control, CommitOrder
<1>4. BookOK'
  BY <1>3 DEF ControlInv, BookOK, CommitOrder, OrderStatuses
<1> QED
  BY <1>1, <1>2, <1>4 DEF ControlInv

LEMMA AbortType ==
    ASSUME ControlInv, NEW w \in Workers, AbortDeadlock(w) \/ Crash(w)
    PROVE  ControlInv'
<1>1. ThreadsOK'
  BY EndKeepsThreads DEF ControlInv, AbortDeadlock, Crash
<1> QED
  BY <1>1 DEF ControlInv, StockOK, BookOK, AbortDeadlock, Crash, book

LEMMA ReadOrderType ==
    ASSUME ControlInv, NEW w \in Workers, ReadOrder(w)
    PROVE  ControlInv'
<1>1. StockOK' /\ BookOK'
  BY DEF ControlInv, StockOK, BookOK, ReadOrder, book
<1>2. CASE End(w)
  BY <1>1, <1>2, EndKeepsThreads DEF ControlInv
<1>3. CASE ~End(w)
  BY <1>1, <1>3 DEF ControlInv, ThreadsOK, Control, ReadOrder, GoTo
<1> QED
  BY <1>2, <1>3

LEMMA WriteOrderType ==
    ASSUME ControlInv, NEW w \in Workers, WriteOrder(w)
    PROVE  ControlInv'
<1>1. ThreadsOK'
  BY EndKeepsThreads DEF ControlInv, WriteOrder
<1>2. req[w].order \in OrderIds /\ req[w].target \in OrderStatuses
  BY RequestFields DEF ControlInv, ThreadsOK, Control, WriteOrder
<1> QED
  BY <1>1, <1>2 DEF ControlInv, StockOK, BookOK, WriteOrder

LEMMA ReserveStockType ==
    ASSUME ControlInv, NEW p \in Products, NEW n \in Quantities,
           ReserveStock(p, n)
    PROVE  ControlInv'
<1>1. n \in Nat /\ available[p] - n \in Nat
  BY FulfilmentAssumption
  DEF ControlInv, StockOK, ReserveStock, FulfilmentAssumption
<1>2. StockOK'
  BY <1>1, ComputeStateType DEF ControlInv, StockOK, ReserveStock
<1> QED
  BY <1>2 DEF ControlInv, ThreadsOK, BookOK, Control, ReserveStock, local, book

LEMMA ReleaseStockType ==
    ASSUME ControlInv, NEW p \in Products, NEW n \in Quantities,
           ReleaseStock(p, n)
    PROVE  ControlInv'
<1> DEFINE back == Smaller(reserved[p], n)
<1>1. back \in Nat /\ back <= reserved[p]
  BY SoldRow, FulfilmentAssumption
  DEF ControlInv, StockOK, FulfilmentAssumption
<1>2. reserved[p] - back \in Nat /\ available[p] + back \in Nat
  BY <1>1 DEF ControlInv, StockOK
<1>3. StockOK'
  BY <1>2, ComputeStateType DEF ControlInv, StockOK, ReleaseStock
<1> QED
  BY <1>3 DEF ControlInv, ThreadsOK, BookOK, Control, ReleaseStock, local, book

LEMMA ElapseType ==
    ASSUME ControlInv, NEW s \in Sessions, Elapse(s)
    PROVE  ControlInv'
BY DEF ControlInv, ThreadsOK, StockOK, BookOK, Control, Elapse, stock, book, local

LEMMA TypeStep == ControlInv /\ [Next]_vars => ControlInv'
<1> SUFFICES ASSUME ControlInv, [Next]_vars PROVE ControlInv'
  OBVIOUS
<1>1. ASSUME NEW w \in Workers, Submit(w) PROVE ControlInv'
  BY <1>1, SubmitType
<1>2. ASSUME NEW w \in Workers, Handle(w) PROVE ControlInv'
  BY <1>2, CheckSessionType, ExpireSessionType, SellItemType, CommitOrderType,
     AbortType, ReadOrderType, WriteOrderType DEF Handle
<1>3. ASSUME NEW w \in Workers, Crash(w) PROVE ControlInv'
  BY <1>3, AbortType
<1>4. ASSUME NEW p \in Products, NEW n \in Quantities,
             ReserveStock(p, n) \/ ReleaseStock(p, n)
      PROVE ControlInv'
  BY <1>4, ReserveStockType, ReleaseStockType
<1>5. ASSUME NEW s \in Sessions, Elapse(s) PROVE ControlInv'
  BY <1>5, ElapseType
<1>6. CASE UNCHANGED vars
  BY <1>6 DEF ControlInv, ThreadsOK, StockOK, BookOK, Control, vars
<1> QED
  BY <1>1, <1>2, <1>3, <1>4, <1>5, <1>6 DEF Next

LEMMA ControlAlways == Spec => []ControlInv
BY TypeInit, TypeStep, PTL DEF Spec

\* Every variable always has values of its type; in particular no column of
\* the inventory goes below zero (inventory_service.py:95-169).
THEOREM StockTypes == Spec => []TypeOK
<1>1. ControlInv => TypeOK
  BY DEF ControlInv, ThreadsOK, StockOK, BookOK, TypeOK
<1> QED
  BY <1>1, ControlAlways, PTL

-----------------------------------------------------------------------------
(* Conservation of stock                                                   *)

(* What a transaction writes at its commit it has computed from rows that  *)
(* it read earlier; the stock is conserved because those rows still have   *)
(* the same units then.  So the two properties are proved together.        *)

StockInv == ControlInv /\ FlushedFitsTheRow /\ StockConserved

\* A row that a worker has not loaded looks as it is committed; a loaded one
\* has as many units outside of the available ones.
LEMMA RowUnits ==
    ASSUME FlushedFitsTheRow, NEW w \in Workers, NEW p \in Products
    PROVE  RowOf(w, p).reserved + RowOf(w, p).sold = reserved[p] + sold[p]
BY DEF FlushedFitsTheRow, RowOf

\* The end of a request keeps the other transactions' rows.
LEMMA EndKeepsRows ==
    ASSUME StockInv, NEW w \in Workers, End(w),
           \A v \in Workers : \A p \in loaded[v] :
              v # w => reserved'[p] + sold'[p] = reserved[p] + sold[p]
    PROVE  FlushedFitsTheRow'
<1> SUFFICES ASSUME NEW v \in Workers, NEW p \in loaded'[v]
             PROVE  /\ rowLock'[p] = v
                    /\ copy'[v][p].reserved + copy'[v][p].sold
                         = reserved'[p] + sold'[p]
  BY DEF FlushedFitsTheRow
<1>1. v # w /\ p \in loaded[v] /\ p \in Products /\ copy'[v] = copy[v]
  BY DEF StockInv, ControlInv, ThreadsOK, End
<1>2. rowLock[p] = v
  BY <1>1 DEF StockInv, FlushedFitsTheRow
<1>3. rowLock'[p] = v
  BY <1>1, <1>2 DEF End, ReleaseRows
<1> QED
  BY <1>1, <1>3 DEF StockInv, FlushedFitsTheRow

\* A step that leaves the stock, the locks and the copies alone.
LEMMA StockFrame ==
    ASSUME StockInv, ControlInv',
           UNCHANGED <<available, reserved, sold, rowLock, loaded, copy>>
    PROVE  StockInv'
BY DEF StockInv, FlushedFitsTheRow, StockConserved

LEMMA EndFrame ==
    ASSUME StockInv, ControlInv', NEW w \in Workers, End(w),
           UNCHANGED <<available, reserved, sold>>
    PROVE  StockInv'
<1>1. FlushedFitsTheRow'
  BY EndKeepsRows
<1> QED
  BY <1>1 DEF StockInv, StockConserved

LEMMA SellItemStock ==
    ASSUME StockInv, ControlInv', NEW w \in Workers, SellItem(w)
    PROVE  StockInv'
<1>1. UNCHANGED <<available, reserved, sold>>
  BY SellItemFacts DEF StockInv
<1>2. CASE UNCHANGED <<rowLock, loaded, copy>>
  BY <1>1, <1>2, StockFrame
<1>3. CASE ~ UNCHANGED <<rowLock, loaded, copy>>
  <2>1. PICK p \in Products, n \in Nat :
           /\ rowLock[p] \in {w, None}
           /\ n <= RowOf(w, p).reserved
           /\ rowLock' = [rowLock EXCEPT ![p] = w]
           /\ loaded' = [loaded EXCEPT ![w] = loaded[w] \union {p}]
           /\ copy' = [copy EXCEPT ![w][p] =
                         [reserved |-> RowOf(w, p).reserved - n,
                          sold |-> RowOf(w, p).sold + n]]
    BY <1>3, SellItemFacts DEF StockInv
  <2>2. FlushedFitsTheRow'
    <3> SUFFICES ASSUME NEW v \in Workers, NEW q \in loaded'[v]
                 PROVE  /\ rowLock'[q] = v
                        /\ copy'[v][q].reserved + copy'[v][q].sold
                             = reserved[q] + sold[q]
      BY <1>1 DEF FlushedFitsTheRow
    <3>1. CASE v = w /\ q = p
      <4>1. /\ copy'[v][q].reserved = RowOf(w, p).reserved - n
            /\ copy'[v][q].sold = RowOf(w, p).sold + n
        BY <2>1, <3>1 DEF StockInv, ControlInv, ThreadsOK
      <4>2. RowOf(w, p).reserved \in Nat /\ RowOf(w, p).sold \in Nat
        BY RowType DEF StockInv, ControlInv
      <4>3. copy'[v][q].reserved + copy'[v][q].sold = reserved[q] + sold[q]
        BY <3>1, <4>1, <4>2, RowUnits DEF StockInv
      <4> QED
        BY <2>1, <3>1, <4>3 DEF StockInv, ControlInv, ThreadsOK
    <3>2. CASE ~(v = w /\ q = p)
      <4>1. q \in loaded[v] /\ q \in Products /\ copy'[v][q] = copy[v][q]
        BY <2>1, <3>2 DEF StockInv, ControlInv, ThreadsOK
      <4>2. rowLock[q] = v
        BY <4>1 DEF StockInv, FlushedFitsTheRow
      <4>3. rowLock'[q] = v
        BY <2>1, <3>2, <4>1, <4>2, FulfilmentAssumption
        DEF StockInv, ControlInv, ThreadsOK, FulfilmentAssumption
      <4> QED
        BY <4>1, <4>3 DEF StockInv, FlushedFitsTheRow
    <3> QED
      BY <3>1, <3>2
  <2> QED
    BY <1>1, <2>2 DEF StockInv, StockConserved
<1> QED
  BY <1>2, <1>3

LEMMA CommitOrderStock ==
    ASSUME StockInv, ControlInv', NEW w \in Workers, CommitOrder(w)
    PROVE  StockInv'
<1>1. \A p \in Products : reserved'[p] + sold'[p] = reserved[p] + sold[p]
  BY RowUnits DEF StockInv, CommitOrder
<1>2. FlushedFitsTheRow'
  <2>1. \A v \in Workers : loaded[v] \subseteq Products
    BY DEF StockInv, ControlInv, ThreadsOK
  <2> QED
    BY <1>1, <2>1, EndKeepsRows DEF CommitOrder
<1>3. StockConserved'
  <2> SUFFICES ASSUME NEW p \in Products
               PROVE  available'[p] + reserved'[p] + sold'[p] = Stock[p]
    BY DEF StockConserved
  <2>1. available'[p] = available[p]
    BY DEF CommitOrder
  <2>2. /\ available[p] \in Nat
        /\ reserved[p] \in Nat /\ sold[p] \in Nat
        /\ reserved'[p] \in Nat /\ sold'[p] \in Nat
    BY DEF StockInv, ControlInv, StockOK
  <2> QED
    BY <1>1, <2>1, <2>2 DEF StockInv, StockConserved
<1> QED
  BY <1>2, <1>3 DEF StockInv

\* Reservations and releases wait for the row, so nobody has a copy of it.
LEMMA ReserveStockStock ==
    ASSUME StockInv, ControlInv', NEW p \in Products, NEW n \in Quantities,
           ReserveStock(p, n) \/ ReleaseStock(p, n)
    PROVE  StockInv'
<1>1. UNCHANGED <<sold, rowLock, loaded, copy>>
  BY DEF ReserveStock, ReleaseStock, local
<1>2. PICK m \in Int :
         /\ available' = [available EXCEPT ![p] = available[p] - m]
         /\ reserved' = [reserved EXCEPT ![p] = reserved[p] + m]
  <2>1. CASE ReserveStock(p, n)
    <3>1. n \in Int
      BY FulfilmentAssumption DEF FulfilmentAssumption
    <3> QED
      BY <2>1, <3>1 DEF ReserveStock
  <2>2. CASE ReleaseStock(p, n)
    <3> DEFINE back == Smaller(reserved[p], n)
    <3>1. back \in Nat
      BY SoldRow, FulfilmentAssumption
      DEF StockInv, ControlInv, StockOK, FulfilmentAssumption
    <3>2. /\ available' = [available EXCEPT ![p] = available[p] + back]
          /\ reserved' = [reserved EXCEPT ![p] = reserved[p] - back]
      BY <2>2 DEF ReleaseStock
    <3> HIDE DEF back
    <3>3. 0 - back \in Int /\ available[p] - (0 - back) = available[p] + back
          /\ reserved[p] + (0 - back) = reserved[p] - back
      BY <3>1 DEF StockInv, ControlInv, StockOK
    <3> QED
      BY <3>2, <3>3
  <2> QED
    BY <2>1, <2>2
<1>3. FlushedFitsTheRow'
  <2> SUFFICES ASSUME NEW v \in Workers, NEW q \in loaded[v]
               PROVE  /\ rowLock[q] = v
                      /\ copy[v][q].reserved + copy[v][q].sold
                           = reserved'[q] + sold[q]
    BY <1>1 DEF FlushedFitsTheRow
  <2>1. rowLock[q] = v
    BY DEF StockInv, FlushedFitsTheRow
  <2>2. q # p
    BY <2>1, FulfilmentAssumption
    DEF ReserveStock, ReleaseStock, RowIsFree, FulfilmentAssumption
  <2>3. reserved'[q] = reserved[q]
    BY <1>2, <2>2 DEF StockInv, ControlInv, ThreadsOK, StockOK
  <2> QED
    BY <2>1, <2>3 DEF StockInv, FlushedFitsTheRow
<1>4. StockConserved'
  <2> SUFFICES ASSUME NEW q \in Products
               PROVE  available'[q] + reserved'[q] + sold[q] = Stock[q]
    BY <1>1 DEF StockConserved
  <2>1. available[q] \in Nat /\ reserved[q] \in Nat /\ sold[q] \in Nat
    BY DEF StockInv, ControlInv, StockOK
  <2>2. available[q] + reserved[q] + sold[q] = Stock[q]
    BY DEF StockInv, StockConserved
  <2>3. available'[q] + reserved'[q] = available[q] + reserved[q]
    BY <1>2, <2>1 DEF StockInv, ControlInv, StockOK
  <2>4. available'[q] \in Nat /\ reserved'[q] \in Nat
    BY DEF ControlInv, StockOK
  <2> QED
    BY <2>1, <2>2, <2>3, <2>4
<1> QED
  BY <1>3, <1>4 DEF StockInv

LEMMA StockInit == Init => StockInv
<1> SUFFICES ASSUME Init PROVE StockInv
  OBVIOUS
<1>1. FlushedFitsTheRow
  BY DEF Init, FlushedFitsTheRow
<1>2. StockConserved
  BY FulfilmentAssumption DEF Init, Nothing, StockConserved, FulfilmentAssumption
<1> QED
  BY <1>1, <1>2, TypeInit DEF StockInv

LEMMA StockStep == StockInv /\ [Next]_vars => StockInv'
<1> SUFFICES ASSUME StockInv, [Next]_vars PROVE StockInv'
  OBVIOUS
<1>1. ControlInv'
  BY TypeStep DEF StockInv
<1>2. ASSUME NEW w \in Workers, Submit(w) PROVE StockInv'
  BY <1>1, <1>2, StockFrame DEF Submit, stock
<1>3. ASSUME NEW w \in Workers, Handle(w) PROVE StockInv'
  <2>1. CASE CheckSession(w)
    BY <1>1, <2>1, StockFrame, EndFrame DEF CheckSession
  <2>2. CASE ExpireSession(w)
    BY <1>1, <2>2, EndFrame DEF ExpireSession
  <2>3. CASE SellItem(w)
    BY <1>1, <2>3, SellItemStock
  <2>4. CASE CommitOrder(w)
    BY <1>1, <2>4, CommitOrderStock
  <2>5. CASE AbortDeadlock(w)
    BY <1>1, <2>5, EndFrame DEF AbortDeadlock
  <2>6. CASE ReadOrder(w)
    BY <1>1, <2>6, StockFrame, EndFrame DEF ReadOrder
  <2>7. CASE WriteOrder(w)
    BY <1>1, <2>7, EndFrame DEF WriteOrder
  <2> QED
    BY <1>3, <2>1, <2>2, <2>3, <2>4, <2>5, <2>6, <2>7 DEF Handle
<1>4. ASSUME NEW w \in Workers, Crash(w) PROVE StockInv'
  BY <1>1, <1>4, EndFrame DEF Crash
<1>5. ASSUME NEW p \in Products, NEW n \in Quantities,
             ReserveStock(p, n) \/ ReleaseStock(p, n)
      PROVE StockInv'
  BY <1>1, <1>5, ReserveStockStock
<1>6. ASSUME NEW s \in Sessions, Elapse(s) PROVE StockInv'
  BY <1>1, <1>6, StockFrame DEF Elapse, stock, local
<1>7. CASE UNCHANGED vars
  BY <1>1, <1>7, StockFrame DEF vars
<1> QED
  BY <1>2, <1>3, <1>4, <1>5, <1>6, <1>7 DEF Next

\* No unit of a product is ever made or lost, whatever reservations, releases,
\* orders, deadlocks and crashes do (inventory_service.py:95-169).
THEOREM StockIsConserved == Spec => []StockConserved
<1>1. Spec => []StockInv
  BY StockInit, StockStep, PTL DEF Spec
<1>2. StockInv => StockConserved
  BY DEF StockInv
<1> QED
  BY <1>1, <1>2, PTL

\* No order commits over a row that has changed since it read it
\* (inventory_service.py:159-167, order_service.py:87-151).
THEOREM NoLostUpdate == Spec => []FlushedFitsTheRow
<1>1. Spec => []StockInv
  BY StockInit, StockStep, PTL DEF Spec
<1>2. StockInv => FlushedFitsTheRow
  BY DEF StockInv
<1> QED
  BY <1>1, <1>2, PTL

-----------------------------------------------------------------------------
(* Orders go through every stage                                           *)

(* Two changes of an order's status may race, and the later one may rest   *)
(* on a status that is no longer there.  But it rests on one that the      *)
(* order has had, and the statuses that an order has had only grow.        *)

ChangesAreGrounded ==
    \A w \in Workers :
        pc[w] = "write" =>
            /\ order[req[w].order] # None
            /\ \E st \in passed[req[w].order] : req[w].target \in AllowedNext(st)

StatusIsPassed ==
    \A o \in OrderIds : order[o] # None => order[o] \in passed[o]

BookInv ==
    ControlInv /\ ChangesAreGrounded /\ StatusIsPassed /\ DeliveryPassesEveryStage

\* Which statuses come before the last three.
LEMMA Stages ==
    ASSUME NEW st
    PROVE  /\ "DELIVERED" \in AllowedNext(st) => st = "OUT_FOR_DELIVERY"
           /\ "OUT_FOR_DELIVERY" \in AllowedNext(st) => st = "SHIPPED"
           /\ "SHIPPED" \in AllowedNext(st) => st = "PROCESSING"
BY DEF AllowedNext

\* A step that leaves the orders alone and brings nobody to "write".
LEMMA BookFrame ==
    ASSUME BookInv, ControlInv', UNCHANGED <<order, passed>>,
           \A w \in Workers : pc'[w] = "write" => pc[w] = "write" /\ req'[w] = req[w]
    PROVE  BookInv'
BY DEF BookInv, ChangesAreGrounded, StatusIsPassed, DeliveryPassesEveryStage

LEMMA EndLeavesOthers ==
    ASSUME ControlInv, NEW w \in Workers, End(w)
    PROVE  \A v \in Workers :
              pc'[v] = "write" => v # w /\ pc[v] = "write" /\ req'[v] = req[v]
BY DEF ControlInv, ThreadsOK, End, GoTo

LEMMA CommitOrderBook ==
    ASSUME BookInv, ControlInv', NEW w \in Workers, CommitOrder(w)
    PROVE  BookInv'
<1>1. PICK o \in OrderIds :
         /\ order[o] = None
         /\ order' = [order EXCEPT ![o] = "CONFIRMED"]
         /\ passed' = [passed EXCEPT ![o] = {"CONFIRMED"}]
  BY FulfilmentAssumption DEF CommitOrder, NewOrder, FulfilmentAssumption
<1>2. \A q \in OrderIds :
         \/ q = o /\ order'[q] = "CONFIRMED" /\ passed'[q] = {"CONFIRMED"}
         \/ q # o /\ order'[q] = order[q] /\ passed'[q] = passed[q]
  BY <1>1 DEF BookInv, ControlInv, BookOK
<1>3. StatusIsPassed'
  BY <1>2 DEF BookInv, StatusIsPassed
<1>4. DeliveryPassesEveryStage'
  BY <1>2 DEF BookInv, DeliveryPassesEveryStage
<1>5. ChangesAreGrounded'
  <2> SUFFICES ASSUME NEW v \in Workers, pc'[v] = "write"
               PROVE  /\ order'[req'[v].order] # None
                      /\ \E st \in passed'[req'[v].order] :
                            req'[v].target \in AllowedNext(st)
    BY DEF ChangesAreGrounded
  <2>1. pc[v] = "write" /\ req'[v] = req[v]
    BY EndLeavesOthers DEF BookInv, CommitOrder
  <2>2. req[v].order \in OrderIds
    BY <2>1, RequestFields DEF BookInv, ControlInv, ThreadsOK, Control
  <2>3. order[req[v].order] # None
    BY <2>1 DEF BookInv, ChangesAreGrounded
  <2> QED
    BY <1>1, <1>2, <2>1, <2>2, <2>3 DEF BookInv, ChangesAreGrounded
<1> QED
  BY <1>3, <1>4, <1>5 DEF BookInv

LEMMA ReadOrderBook ==
    ASSUME BookInv, ControlInv', NEW w \in Workers, ReadOrder(w)
    PROVE  BookInv'
<1>1. UNCHANGED <<order, passed>>
  BY DEF ReadOrder, book
<1>2. CASE End(w)
  BY <1>1, <1>2, EndLeavesOthers, BookFrame DEF BookInv
<1>3. CASE ~End(w)
  <2>1. /\ order[req[w].order] # None
        /\ req[w].target \in AllowedNext(order[req[w].order])
        /\ pc' = [pc EXCEPT ![w] = "write"]
        /\ UNCHANGED req
        /\ pc[w] = "begin" /\ req[w].op = "status"
    BY <1>3 DEF ReadOrder, GoTo
  <2>2. req[w].order \in OrderIds
    BY <2>1, RequestFields DEF BookInv, ControlInv, ThreadsOK, Control
  <2>3. order[req[w].order] \in passed[req[w].order]
    BY <2>1, <2>2 DEF BookInv, StatusIsPassed
  <2>4. ChangesAreGrounded'
    BY <1>1, <2>1, <2>3 DEF BookInv, ChangesAreGrounded, ControlInv, ThreadsOK
  <2> QED
    BY <1>1, <2>4 DEF BookInv, StatusIsPassed, DeliveryPassesEveryStage
<1> QED
  BY <1>2, <1>3

LEMMA WriteOrderBook ==
    ASSUME BookInv, ControlInv', NEW w \in Workers, WriteOrder(w)
    PROVE  BookInv'
<1> DEFINE o == req[w].order
           target == req[w].target
<1>1. o \in OrderIds /\ target \in OrderStatuses
  BY RequestFields DEF BookInv, ControlInv, ThreadsOK, Control, WriteOrder
<1>2. PICK st \in passed[o] : target \in AllowedNext(st)
  BY DEF BookInv, ChangesAreGrounded, WriteOrder
<1>3. \A q \in OrderIds :
         \/ q = o /\ order'[q] = target /\ passed'[q] = passed[q] \union {target}
         \/ q # o /\ order'[q] = order[q] /\ passed'[q] = passed[q]
  BY <1>1 DEF BookInv, ControlInv, BookOK, WriteOrder
<1> HIDE DEF o, target
<1>4. StatusIsPassed'
  BY <1>3 DEF BookInv, StatusIsPassed
<1>5. DeliveryPassesEveryStage'
  BY <1>1, <1>2, <1>3, Stages DEF BookInv, DeliveryPassesEveryStage
<1>6. target # None
  BY <1>1, FulfilmentAssumption DEF FulfilmentAssumption
<1>7. ChangesAreGrounded'
  <2> SUFFICES ASSUME NEW v \in Workers, pc'[v] = "write"
               PROVE  /\ order'[req'[v].order] # None
                      /\ \E s \in passed'[req'[v].order] :
                            req'[v].target \in AllowedNext(s)
    BY DEF ChangesAreGrounded
  <2>1. pc[v] = "write" /\ req'[v] = req[v]
    BY EndLeavesOthers DEF BookInv, WriteOrder
  <2>2. req[v].order \in OrderIds
    BY <2>1, RequestFields DEF BookInv, ControlInv, ThreadsOK, Control
  <2> QED
    BY <1>3, <1>6, <2>1, <2>2 DEF BookInv, ChangesAreGrounded
<1> QED
  BY <1>4, <1>5, <1>7 DEF BookInv

LEMMA BookInit == Init => BookInv
<1> SUFFICES ASSUME Init PROVE BookInv
  OBVIOUS
<1>1. ChangesAreGrounded /\ StatusIsPassed /\ DeliveryPassesEveryStage
  BY DEF Init, ChangesAreGrounded, StatusIsPassed, DeliveryPassesEveryStage
<1> QED
  BY <1>1, TypeInit DEF BookInv

LEMMA BookStep == BookInv /\ [Next]_vars => BookInv'
<1> SUFFICES ASSUME BookInv, [Next]_vars PROVE BookInv'
  OBVIOUS
<1>1. ControlInv'
  BY TypeStep DEF BookInv
<1>2. ASSUME NEW w \in Workers, Submit(w) PROVE BookInv'
  <2>1. \A v \in Workers : pc'[v] = "write" => pc[v] = "write" /\ req'[v] = req[v]
    BY <1>2 DEF BookInv, ControlInv, ThreadsOK, Submit, GoTo
  <2> QED
    BY <1>1, <1>2, <2>1, BookFrame DEF Submit, book
<1>3. ASSUME NEW w \in Workers, CheckSession(w) \/ SellItem(w) PROVE BookInv'
  <2>1. UNCHANGED <<order, passed>>
    BY <1>3 DEF CheckSession, SellItem, book
  <2>2. CASE End(w)
    BY <1>1, <2>1, <2>2, EndLeavesOthers, BookFrame DEF BookInv
  <2>3. CASE ~End(w)
    <3>1. \A v \in Workers :
             pc'[v] = "write" => pc[v] = "write" /\ req'[v] = req[v]
      BY <1>3, <2>3
      DEF BookInv, ControlInv, ThreadsOK, CheckSession, SellItem, GoTo
    <3> QED
      BY <1>1, <2>1, <3>1, BookFrame
  <2> QED
    BY <2>2, <2>3
<1>4. ASSUME NEW w \in Workers,
             ExpireSession(w) \/ AbortDeadlock(w) \/ Crash(w)
      PROVE BookInv'
  <2>1. End(w) /\ UNCHANGED <<order, passed>>
    BY <1>4 DEF ExpireSession, AbortDeadlock, Crash, book
  <2> QED
    BY <1>1, <2>1, EndLeavesOthers, BookFrame DEF BookInv
<1>5. ASSUME NEW w \in Workers, Handle(w) PROVE BookInv'
  BY <1>1, <1>3, <1>4, <1>5, CommitOrderBook, ReadOrderBook, WriteOrderBook
  DEF Handle
<1>6. ASSUME NEW p \in Products, NEW n \in Quantities,
             ReserveStock(p, n) \/ ReleaseStock(p, n)
      PROVE BookInv'
  BY <1>1, <1>6, BookFrame DEF ReserveStock, ReleaseStock, book, local
<1>7. ASSUME NEW s \in Sessions, Elapse(s) PROVE BookInv'
  BY <1>1, <1>7, BookFrame DEF Elapse, book, local
<1>8. CASE UNCHANGED vars
  BY <1>1, <1>8, BookFrame DEF vars
<1> QED
  BY <1>2, <1>4, <1>5, <1>6, <1>7, <1>8 DEF Next

\* A delivered order was out for delivery, shipped and in processing before,
\* although changes of its status race with each other
\* (order_service.py:26-34, 185-205).
THEOREM DeliveryIsComplete == Spec => []DeliveryPassesEveryStage
<1>1. Spec => []BookInv
  BY BookInit, BookStep, PTL DEF Spec
<1>2. BookInv => DeliveryPassesEveryStage
  BY DEF BookInv
<1> QED
  BY <1>1, <1>2, PTL

-----------------------------------------------------------------------------
(* Nothing is sold without an order                                        *)

(* A transaction sells item after item in its own copies of the rows, and  *)
(* the order that explains the sales exists only when it commits.  So what *)
(* a copy has more than its row is explained by the items before the one   *)
(* the transaction is at.                                                  *)

\* The units of p that each item of the quote s is about.
UnitsOf(s, p) ==
    [i \in DOMAIN ItemsOf[s] |->
        IF ItemsOf[s][i].product = p THEN ItemsOf[s][i].quantity ELSE 0]

\* Those of the items before the one that w is at.
UpTo(w, p) == WeightOf(UnitsOf(req[w].session, p), 1..(item[w] - 1))

SalesOK(w) ==
    IF pc[w] = "items"
    THEN /\ item[w] - 1 <= Len(Items(w))
         /\ \A p \in Products : RowOf(w, p).sold <= sold[p] + UpTo(w, p)
    ELSE loaded[w] = {}

QuotesKnown == \A o \in OrderIds : order[o] # None => quoteOf[o] \in Sessions

SalesInv ==
    /\ StockInv /\ BookInv /\ QuotesKnown /\ SoldWasOrdered
    /\ \A w \in Workers : SalesOK(w)

LEMMA UnitsType ==
    ASSUME NEW s \in Sessions, NEW p
    PROVE  /\ DOMAIN ItemsOf[s] = 1..Len(ItemsOf[s]) /\ Len(ItemsOf[s]) \in Nat
           /\ IsFiniteSet(DOMAIN ItemsOf[s])
           /\ \A i \in DOMAIN ItemsOf[s] : ItemsOf[s][i].quantity \in Nat
           /\ \A i \in DOMAIN ItemsOf[s] : UnitsOf(s, p)[i] \in Nat
<1>1. ItemsOf[s] \in Seq([product : Catalogue, quantity : Nat])
  BY FulfilmentAssumption DEF FulfilmentAssumption
<1>2. DOMAIN ItemsOf[s] = 1..Len(ItemsOf[s]) /\ Len(ItemsOf[s]) \in Nat
  BY <1>1
<1>3. \A i \in DOMAIN ItemsOf[s] : ItemsOf[s][i] \in [product : Catalogue, quantity : Nat]
  BY <1>1, <1>2, ElementOfSeq
<1>4. \A i \in DOMAIN ItemsOf[s] : ItemsOf[s][i].quantity \in Nat
  BY <1>3
<1>5. IsFiniteSet(DOMAIN ItemsOf[s])
  BY <1>2, FS_Interval
<1> QED
  BY <1>2, <1>4, <1>5 DEF UnitsOf

\* The units of an order are a sum over the items of its quote.
LEMMA OrderedIsSum ==
    ASSUME NEW o \in OrderIds, NEW p, order[o] # None, quoteOf[o] \in Sessions
    PROVE  OrderedUnits(o, p) = WeightOf(UnitsOf(quoteOf[o], p), DOMAIN ItemsOf[quoteOf[o]])
<1> DEFINE items == ItemsOf[quoteOf[o]]
           D == DOMAIN items
           w == UnitsOf(quoteOf[o], p)
           R(g) == g = [t \in SUBSET D |-> IF t = {} THEN 0 ELSE
                           (IF items[Chosen(t)].product = p THEN items[Chosen(t)].quantity ELSE 0)
                              + g[t \ {Chosen(t)}]]
<1>1. IsFiniteSet(D) /\ \A i \in D : w[i] \in Nat
  BY UnitsType
<1>2. OrderedUnits(o, p) = (CHOOSE g : R(g))[D]
  BY DEF OrderedUnits, MapThenSumSet, MapThenFoldSet, Chosen
<1>3. \A t \in SUBSET D : t # {} => Chosen(t) \in D
  BY DEF Chosen
<1>4. \A g : R(g) <=> SumRule(g, w, D)
  BY <1>3 DEF SumRule, UnitsOf
<1> HIDE DEF w, D
<1>5. PICK g : g \in [SUBSET D -> Nat] /\ SumRule(g, w, D) /\ WeightOf(w, D) = g[D]
  BY <1>1, SumTableOK DEF WeightOf
<1> DEFINE f == CHOOSE h : R(h)
<1>6. R(f)
  <2> HIDE DEF R
  <2> QED
    BY <1>4, <1>5
<1>7. OrderedUnits(o, p) = f[D]
  BY <1>2
<1> HIDE DEF f
<1>8. f = g
  BY <1>1, <1>4, <1>5, <1>6, SumsAreOne
<1> QED
  BY <1>5, <1>7, <1>8 DEF w, D

\* What each order is about, as a table; its sum is what is ordered.
UnitsOfQuote(s, p) == WeightOf(UnitsOf(s, p), DOMAIN ItemsOf[s])

OrderedTable(p) ==
    [o \in OrderIds |-> IF order[o] = None THEN 0 ELSE UnitsOfQuote(quoteOf[o], p)]

LEMMA OrderedTableOK ==
    ASSUME QuotesKnown, NEW p, NEW o \in OrderIds
    PROVE  OrderedTable(p)[o] \in Nat /\ OrderedTable(p)[o] = OrderedUnits(o, p)
<1>1. CASE order[o] = None
  BY <1>1 DEF OrderedTable, OrderedUnits
<1>2. CASE order[o] # None
  <2>1. quoteOf[o] \in Sessions
    BY <1>2 DEF QuotesKnown
  <2>2. OrderedUnits(o, p) = UnitsOfQuote(quoteOf[o], p) /\ UnitsOfQuote(quoteOf[o], p) \in Nat
    BY <1>2, <2>1, OrderedIsSum, UnitsType, SumType DEF UnitsOfQuote
  <2> QED
    BY <1>2, <2>2 DEF OrderedTable
<1> QED
  BY <1>1, <1>2

LEMMA AllOrderedIsSum ==
    ASSUME QuotesKnown, NEW p
    PROVE  Ordered(p) = WeightOf(OrderedTable(p), OrderIds)
<1> DEFINE D == OrderIds
           w == OrderedTable(p)
           R(g) == g = [t \in SUBSET D |-> IF t = {} THEN 0 ELSE
                           OrderedUnits(Chosen(t), p) + g[t \ {Chosen(t)}]]
<1>1. IsFiniteSet(D) /\ \A o \in D : w[o] \in Nat
  BY OrderedTableOK, FulfilmentAssumption DEF FulfilmentAssumption
<1>2. Ordered(p) = (CHOOSE g : R(g))[D]
  BY DEF Ordered, MapThenSumSet, MapThenFoldSet, Chosen
<1>3. \A t \in SUBSET D : t # {} => Chosen(t) \in D
  BY DEF Chosen
<1>4. \A g : R(g) <=> SumRule(g, w, D)
  BY <1>3, OrderedTableOK DEF SumRule
<1> HIDE DEF w, D
<1>5. PICK g : g \in [SUBSET D -> Nat] /\ SumRule(g, w, D) /\ WeightOf(w, D) = g[D]
  BY <1>1, SumTableOK DEF WeightOf
<1> DEFINE f == CHOOSE h : R(h)
<1>6. R(f)
  <2> HIDE DEF R
  <2> QED
    BY <1>4, <1>5
<1>7. Ordered(p) = f[D]
  BY <1>2
<1> HIDE DEF f
<1>8. f = g
  BY <1>1, <1>4, <1>5, <1>6, SumsAreOne
<1> QED
  BY <1>5, <1>7, <1>8 DEF w, D

\* Both hold after a step as well.
LEMMA OrderedNow ==
    QuotesKnown =>
        \A p : /\ Ordered(p) = WeightOf(OrderedTable(p), OrderIds)
              /\ \A o \in OrderIds : OrderedTable(p)[o] \in Nat
BY AllOrderedIsSum, OrderedTableOK

LEMMA OrderedNext ==
    (QuotesKnown =>
        \A p : /\ Ordered(p) = WeightOf(OrderedTable(p), OrderIds)
              /\ \A o \in OrderIds : OrderedTable(p)[o] \in Nat)'
BY OrderedNow, PTL

\* Orders that stay what they were, whatever their status.
LEMMA OrdersStay ==
    ASSUME QuotesKnown, SoldWasOrdered, UNCHANGED <<sold, quoteOf>>,
           \A o \in OrderIds : order'[o] = None <=> order[o] = None
    PROVE  QuotesKnown' /\ SoldWasOrdered'
<1>1. QuotesKnown'
  BY DEF QuotesKnown
<1>2. ASSUME NEW p PROVE Ordered(p)' = Ordered(p)
  <2>1. OrderedTable(p)' = OrderedTable(p)
    BY DEF OrderedTable
  <2>2. Ordered(p)' = WeightOf(OrderedTable(p)', OrderIds)
    BY <1>1, OrderedNext
  <2> QED
    BY <2>1, <2>2, AllOrderedIsSum
<1> QED
  BY <1>1, <1>2 DEF SoldWasOrdered

\* A worker whose request and rows stay as they are.
LEMMA SalesStay ==
    ASSUME NEW w \in Workers, SalesOK(w), UNCHANGED sold,
           pc'[w] = pc[w] \/ (pc[w] # "items" /\ pc'[w] # "items"), req'[w] = req[w] \/ pc[w] # "items",
           item'[w] = item[w], loaded'[w] = loaded[w], copy'[w] = copy[w]
    PROVE  SalesOK(w)'
BY DEF SalesOK, RowOf, UpTo, Items, UnitsOf

\* A worker whose request ends.
LEMMA EndSales ==
    ASSUME SalesInv, NEW w \in Workers, End(w), UNCHANGED sold
    PROVE  \A v \in Workers : SalesOK(v)'
<1>1. pc'[w] = "idle" /\ loaded'[w] = {}
  BY DEF SalesInv, StockInv, ControlInv, ThreadsOK, End, GoTo
<1>2. ASSUME NEW v \in Workers \ {w} PROVE SalesOK(v)'
  <2>1. /\ pc'[v] = pc[v] /\ req'[v] = req[v] /\ item'[v] = item[v]
        /\ loaded'[v] = loaded[v] /\ copy'[v] = copy[v]
    BY DEF SalesInv, StockInv, ControlInv, ThreadsOK, End, GoTo
  <2> QED
    BY <2>1, SalesStay DEF SalesInv
<1> QED
  BY <1>1, <1>2 DEF SalesOK

\* A step that sells nothing and places no order.
LEMMA QuietSales ==
    ASSUME SalesInv, StockInv', BookInv', UNCHANGED <<sold, order, quoteOf>>,
           \A w \in Workers : SalesOK(w)'
    PROVE  SalesInv'
BY OrdersStay DEF SalesInv

LEMMA SubmitSales ==
    ASSUME SalesInv, StockInv', BookInv', NEW w \in Workers, Submit(w)
    PROVE  SalesInv'
<1>1. UNCHANGED <<sold, order, quoteOf, item, loaded, copy>>
  BY DEF Submit, stock, book
<1>2. /\ pc[w] = "idle" /\ pc'[w] = "begin"
      /\ \A v \in Workers \ {w} : pc'[v] = pc[v] /\ req'[v] = req[v]
  BY DEF Submit, GoTo, SalesInv, StockInv, ControlInv, ThreadsOK
<1>3. \A v \in Workers : SalesOK(v)'
  BY <1>1, <1>2, SalesStay DEF SalesInv
<1> QED
  BY <1>1, <1>3, QuietSales

LEMMA NothingBefore ==
    ASSUME NEW f
    PROVE  WeightOf(f, 1..(1 - 1)) = 0
<1>1. 1..(1 - 1) = {}
  OBVIOUS
<1>2. WeightOf(f, {}) = 0
  BY SumUnrolled, FS_EmptySet
<1> QED
  BY <1>1, <1>2

\* At its first item a transaction has loaded no row.
LEMMA CheckSessionSales ==
    ASSUME SalesInv, StockInv', BookInv', NEW w \in Workers, CheckSession(w)
    PROVE  SalesInv'
<1>1. UNCHANGED <<sold, order, quoteOf>> /\ pc[w] = "begin" /\ req[w].op = "place"
  BY DEF CheckSession, book
<1>2. CASE End(w)
  BY <1>1, <1>2, EndSales, QuietSales
<1>3. CASE ~End(w)
  <2>1. /\ pc' = [pc EXCEPT ![w] = IF late[req[w].session] THEN "refuse" ELSE "items"]
        /\ item' = [item EXCEPT ![w] = 1]
        /\ UNCHANGED <<req, loaded, copy>>
    BY <1>3 DEF CheckSession, GoTo
  <2>2. /\ pc'[w] \in {"refuse", "items"} /\ item'[w] = 1
        /\ \A v \in Workers \ {w} : pc'[v] = pc[v] /\ item'[v] = item[v]
    BY <2>1 DEF SalesInv, StockInv, ControlInv, ThreadsOK
  <2>3. loaded[w] = {}
    BY <1>1 DEF SalesInv, SalesOK
  <2>4. req[w].session \in Sessions
    BY <1>1, RequestFields DEF SalesInv, StockInv, ControlInv, ThreadsOK, Control
  <2>5. ASSUME NEW p \in Products PROVE RowOf(w, p)'.sold <= sold'[p] + UpTo(w, p)'
    <3>1. RowOf(w, p)'.sold = sold[p]
      BY <1>1, <2>1, <2>3 DEF RowOf
    <3>2. UpTo(w, p)' = 0
      BY <2>1, <2>2, NothingBefore DEF UpTo, UnitsOf
    <3>3. sold[p] \in Nat
      BY DEF SalesInv, StockInv, ControlInv, StockOK
    <3> QED
      BY <1>1, <3>1, <3>2, <3>3
  <2>6. 1 - 1 <= Len(Items(w)')
    BY <2>1, <2>4, UnitsType DEF Items
  <2>7. SalesOK(w)'
    BY <2>1, <2>2, <2>3, <2>5, <2>6 DEF SalesOK
  <2>8. \A v \in Workers \ {w} : SalesOK(v)'
    BY <1>1, <2>1, <2>2, SalesStay DEF SalesInv
  <2> QED
    BY <1>1, <2>7, <2>8, QuietSales
<1> QED
  BY <1>2, <1>3

\* One item more is behind w.
LEMMA OneMore ==
    ASSUME NEW s \in Sessions, NEW p, NEW i \in Nat, 1 <= i, i <= Len(ItemsOf[s])
    PROVE  /\ WeightOf(UnitsOf(s, p), 1..i) =
                  UnitsOf(s, p)[i] + WeightOf(UnitsOf(s, p), 1..(i - 1))
           /\ WeightOf(UnitsOf(s, p), 1..(i - 1)) \in Nat
           /\ UnitsOf(s, p)[i] \in Nat
<1>1. PICK f : f = UnitsOf(s, p)
  OBVIOUS
<1>2. IsFiniteSet(1..i) /\ IsFiniteSet(1..(i - 1))
  BY FS_Interval
<1>3. \A j \in 1..i : f[j] \in Nat
  BY <1>1, UnitsType
<1>4. (1..i) \ {i} = 1..(i - 1) /\ i \in 1..i
  OBVIOUS
<1>5. WeightOf(f, 1..i) = f[i] + WeightOf(f, (1..i) \ {i})
  BY <1>2, <1>3, <1>4, SumTakesOut
<1>6. WeightOf(f, 1..(i - 1)) \in Nat
  BY <1>2, <1>3, SumType
<1> QED
  BY <1>1, <1>3, <1>4, <1>5, <1>6

LEMMA SellItemSales ==
    ASSUME SalesInv, StockInv', BookInv', NEW w \in Workers, SellItem(w)
    PROVE  SalesInv'
<1> DEFINE i == item[w]
           s == req[w].session
           q == Items(w)[i].product
<1>1. /\ pc[w] = "items" /\ i <= Len(Items(w))
      /\ UNCHANGED <<sold, order, quoteOf, pc, req>>
      /\ item' = [item EXCEPT ![w] = i + 1]
  BY DEF SellItem, book
<1>2. s \in Sessions /\ i \in Nat /\ 1 <= i
  BY <1>1, RequestFields DEF SalesInv, StockInv, ControlInv, ThreadsOK, Control
<1>3. item'[w] = i + 1 /\ \A v \in Workers \ {w} : item'[v] = item[v]
  BY <1>1 DEF SalesInv, StockInv, ControlInv, ThreadsOK
<1>4. \A v \in Workers \ {w} : loaded'[v] = loaded[v] /\ copy'[v] = copy[v]
  BY DEF SellItem, SalesInv, StockInv, ControlInv, ThreadsOK
<1>5. ASSUME NEW p \in Products
      PROVE  RowOf(w, p)'.sold <= RowOf(w, p).sold + UnitsOf(s, p)[i] /\ RowOf(w, p)'.sold \in Nat
  <2>1. RowOf(w, p).sold \in Nat /\ RowOf(w, p).reserved \in Nat
    BY RowType DEF SalesInv, StockInv, ControlInv
  <2>2. UnitsOf(s, p)[i] \in Nat
    BY <1>1, <1>2, OneMore DEF Items
  <2>3. CASE RowOf(w, p)'.sold = RowOf(w, p).sold
    BY <2>1, <2>2, <2>3
  <2>4. CASE RowOf(w, p)'.sold # RowOf(w, p).sold
    <3> DEFINE n == Smaller(RowOf(w, q).reserved, Items(w)[i].quantity)
    <3>1. /\ q \in Products
          /\ loaded' = [loaded EXCEPT ![w] = @ \union {q}]
          /\ copy' = [copy EXCEPT ![w][q] = [reserved |-> RowOf(w, q).reserved - n,
                                            sold |-> RowOf(w, q).sold + n]]
      BY <1>1, <2>4, SMTT(40) DEF SellItem, RowOf
    <3>2. p = q
      BY <1>1, <2>4, <3>1, SMTT(40) DEF RowOf, SalesInv, StockInv, ControlInv, ThreadsOK
    <3>3. RowOf(w, p)'.sold = RowOf(w, q).sold + n
      BY <3>1, <3>2, SMTT(40) DEF RowOf, SalesInv, StockInv, ControlInv, ThreadsOK
    <3>4. Items(w)[i].quantity \in Nat
      BY <1>1, ItemFields DEF SalesInv, StockInv
    <3>5. n \in Nat /\ n <= Items(w)[i].quantity
      BY <2>1, <3>2, <3>4, SoldRow
    <3>6. UnitsOf(s, p)[i] = Items(w)[i].quantity
      BY <1>1, <1>2, <3>2, UnitsType DEF UnitsOf, Items
    <3> QED
      BY <2>1, <3>2, <3>3, <3>4, <3>5, <3>6, SMTT(40)
  <2> QED
    BY <2>3, <2>4
<1>6. ASSUME NEW p \in Products PROVE RowOf(w, p)'.sold <= sold'[p] + UpTo(w, p)'
  <2>1. UpTo(w, p)' = UnitsOf(s, p)[i] + UpTo(w, p)
        /\ UpTo(w, p) \in Nat /\ UnitsOf(s, p)[i] \in Nat
    <3>1. (i + 1) - 1 = i
      BY <1>2
    <3>2. UpTo(w, p)' = WeightOf(UnitsOf(s, p), 1..i)
      BY <1>1, <1>3, <3>1 DEF UpTo, UnitsOf
    <3> QED
      BY <1>1, <1>2, <3>2, OneMore DEF UpTo, Items
  <2>2. RowOf(w, p).sold <= sold[p] + UpTo(w, p)
    BY <1>1 DEF SalesInv, SalesOK
  <2>3. RowOf(w, p).sold \in Nat /\ sold[p] \in Nat
    BY RowType DEF SalesInv, StockInv, ControlInv, StockOK
  <2> QED
    BY <1>1, <1>5, <2>1, <2>2, <2>3, SMTT(40)
<1>7. (i + 1) - 1 <= Len(Items(w)')
  BY <1>1, <1>2 DEF Items
<1>8. SalesOK(w)'
  BY <1>1, <1>3, <1>6, <1>7 DEF SalesOK
<1>9. \A v \in Workers \ {w} : SalesOK(v)'
  BY <1>1, <1>3, <1>4, SalesStay DEF SalesInv
<1> QED
  BY <1>1, <1>8, <1>9, QuietSales

LEMMA UpToType ==
    ASSUME SalesInv, NEW w \in Workers, pc[w] = "items", NEW p
    PROVE  UpTo(w, p) \in Nat
<1>1. req[w].session \in Sessions /\ item[w] \in Nat /\ item[w] - 1 <= Len(Items(w))
  BY RequestFields DEF SalesInv, SalesOK, StockInv, ControlInv, ThreadsOK, Control
<1>2. PICK f, D : f = UnitsOf(req[w].session, p) /\ D = 1..(item[w] - 1)
  OBVIOUS
<1>3. D \subseteq DOMAIN ItemsOf[req[w].session]
  BY <1>1, <1>2, UnitsType DEF Items
<1>4. IsFiniteSet(D)
  <2>1. 1 \in Int /\ item[w] - 1 \in Int
    BY <1>1
  <2> QED
    BY <1>2, <2>1, FS_Interval
<1>5. \A i \in D : f[i] \in Nat
  BY <1>1, <1>2, <1>3, UnitsType
<1> QED
  BY <1>2, <1>4, <1>5, SumType DEF UpTo

\* The order explains at its commit what its transaction sold; the rows that
\* others have loaded are theirs.
LEMMA CommitOrderSales ==
    ASSUME SalesInv, StockInv', BookInv', NEW w \in Workers, CommitOrder(w)
    PROVE  SalesInv'
<1> DEFINE s == req[w].session
<1>1. PICK o \in OrderIds :
         /\ order[o] = None
         /\ order' = [order EXCEPT ![o] = "CONFIRMED"]
         /\ quoteOf' = [quoteOf EXCEPT ![o] = s]
  BY FulfilmentAssumption DEF CommitOrder, NewOrder, FulfilmentAssumption
<1>2. /\ pc[w] = "items" /\ item[w] > Len(Items(w)) /\ End(w)
      /\ sold' = [p \in Products |-> RowOf(w, p).sold]
  BY DEF CommitOrder
<1>3. s \in Sessions /\ item[w] \in Nat
  BY <1>2, RequestFields DEF SalesInv, StockInv, ControlInv, ThreadsOK, Control
<1>4. "CONFIRMED" # None
  BY FulfilmentAssumption DEF FulfilmentAssumption, OrderStatuses
<1>5. /\ order'[o] # None /\ quoteOf'[o] = s
      /\ \A q \in OrderIds \ {o} : order'[q] = order[q] /\ quoteOf'[q] = quoteOf[q]
  BY <1>1, <1>4 DEF SalesInv, BookInv, ControlInv, BookOK
<1>6. QuotesKnown'
  BY <1>3, <1>5 DEF SalesInv, QuotesKnown
<1>7. ASSUME NEW p \in Products PROVE sold'[p] <= sold[p] + UnitsOfQuote(s, p)
  <2>1. item[w] - 1 <= Len(Items(w)) /\ RowOf(w, p).sold <= sold[p] + UpTo(w, p)
    BY <1>2 DEF SalesInv, SalesOK
  <2>2. item[w] - 1 = Len(ItemsOf[s]) /\ DOMAIN ItemsOf[s] = 1..Len(ItemsOf[s])
    BY <1>2, <1>3, <2>1, UnitsType DEF Items
  <2>3. UpTo(w, p) = UnitsOfQuote(s, p)
    BY <2>2 DEF UpTo, UnitsOfQuote
  <2> QED
    BY <1>2, <2>1, <2>3
<1>8. ASSUME NEW p \in Products PROVE Ordered(p)' = Ordered(p) + UnitsOfQuote(s, p)
  <2>1. PICK f, g : f = OrderedTable(p) /\ g = OrderedTable(p)'
    OBVIOUS
  <2>2. /\ f[o] = 0 /\ g[o] = UnitsOfQuote(s, p)
        /\ \A q \in OrderIds \ {o} : g[q] = f[q]
    BY <1>1, <1>5, <2>1 DEF OrderedTable
  <2>3. UnitsOfQuote(s, p) \in Nat
    BY <1>3, UnitsType, SumType DEF UnitsOfQuote
  <2>4. \A q \in OrderIds : f[q] \in Nat
    BY <2>1, OrderedNow DEF SalesInv
  <2>5. WeightOf(g, OrderIds) = WeightOf(f, OrderIds) + UnitsOfQuote(s, p)
    BY <2>2, <2>3, <2>4, SumRaised, FulfilmentAssumption DEF FulfilmentAssumption
  <2>6. Ordered(p) = WeightOf(f, OrderIds)
    BY <2>1, OrderedNow DEF SalesInv
  <2>7. Ordered(p)' = WeightOf(g, OrderIds)
    BY <1>6, <2>1, OrderedNext
  <2> QED
    BY <2>5, <2>6, <2>7
<1>9. SoldWasOrdered'
  <2> SUFFICES ASSUME NEW p \in Products PROVE sold'[p] <= Ordered(p)'
    BY DEF SoldWasOrdered
  <2>1. sold[p] <= Ordered(p)
    BY DEF SalesInv, SoldWasOrdered
  <2>2. sold[p] \in Nat /\ sold'[p] \in Nat
    BY DEF SalesInv, StockInv, ControlInv, StockOK
  <2>3. UnitsOfQuote(s, p) \in Nat
    BY <1>3, UnitsType, SumType DEF UnitsOfQuote
  <2>4. Ordered(p) \in Nat
    <3>1. \A q \in OrderIds : OrderedTable(p)[q] \in Nat
      BY OrderedNow DEF SalesInv
    <3> QED
      BY <3>1, OrderedNow, SumType, FulfilmentAssumption DEF SalesInv, FulfilmentAssumption
  <2>5. PICK a \in Nat, b \in Nat, n \in Nat, m \in Nat :
           a = sold[p] /\ b = sold'[p] /\ n = UnitsOfQuote(s, p) /\ m = Ordered(p)
    BY <2>2, <2>3, <2>4
  <2>6. a <= m /\ b <= a + n
    BY <1>7, <2>1, <2>5
  <2>7. Ordered(p)' = m + n
    BY <1>8, <2>5
  <2> QED
    BY <2>5, <2>6, <2>7
<1>10. SalesOK(w)'
  BY <1>2 DEF SalesOK, SalesInv, StockInv, ControlInv, ThreadsOK, End, GoTo
<1>11. ASSUME NEW v \in Workers \ {w} PROVE SalesOK(v)'
  <2>1. /\ pc'[v] = pc[v] /\ req'[v] = req[v] /\ item'[v] = item[v]
        /\ loaded'[v] = loaded[v] /\ copy'[v] = copy[v]
    BY <1>2 DEF SalesInv, StockInv, ControlInv, ThreadsOK, End, GoTo
  <2>2. CASE pc[v] # "items"
    BY <2>1, <2>2 DEF SalesInv, SalesOK
  <2>3. CASE pc[v] = "items"
    <3>1. ASSUME NEW p \in Products PROVE RowOf(v, p)'.sold <= sold'[p] + UpTo(v, p)'
      <4>1. UpTo(v, p)' = UpTo(v, p) /\ UpTo(v, p) \in Nat
        BY <2>1, <2>3, UpToType DEF UpTo, UnitsOf
      <4>2. sold[p] \in Nat /\ sold'[p] \in Nat
        BY DEF SalesInv, StockInv, ControlInv, StockOK
      <4>3. CASE p \in loaded[v]
        <5>1. p \notin loaded[w]
          BY <4>3 DEF SalesInv, StockInv, FlushedFitsTheRow
        <5>2. sold'[p] = sold[p]
          BY <1>2, <5>1 DEF RowOf
        <5>3. RowOf(v, p)' = RowOf(v, p)
          BY <2>1, <4>3 DEF RowOf
        <5> QED
          BY <2>3, <4>1, <5>2, <5>3 DEF SalesInv, SalesOK
      <4>4. CASE p \notin loaded[v]
        <5>1. RowOf(v, p)'.sold = sold'[p]
          BY <2>1, <4>4 DEF RowOf
        <5> QED
          BY <4>1, <4>2, <5>1
      <4> QED
        BY <4>3, <4>4
    <3>2. item'[v] - 1 <= Len(Items(v)')
      BY <2>1, <2>3 DEF SalesInv, SalesOK, Items
    <3> QED
      BY <2>1, <2>3, <3>1, <3>2 DEF SalesOK
  <2> QED
    BY <2>2, <2>3
<1> QED
  BY <1>6, <1>9, <1>10, <1>11 DEF SalesInv

\* A change of status is of an order that exists.
LEMMA WriteOrderSales ==
    ASSUME SalesInv, StockInv', BookInv', NEW w \in Workers, WriteOrder(w)
    PROVE  SalesInv'
<1>1. /\ pc[w] = "write" /\ End(w) /\ UNCHANGED <<sold, quoteOf>>
      /\ order' = [order EXCEPT ![req[w].order] = req[w].target]
  BY DEF WriteOrder
<1>2. order[req[w].order] # None
  BY <1>1 DEF SalesInv, BookInv, ChangesAreGrounded
<1>3. req[w].order \in OrderIds /\ req[w].target \in OrderStatuses
  BY <1>1, RequestFields DEF SalesInv, StockInv, ControlInv, ThreadsOK, Control
<1>4. req[w].target # None
  BY <1>3, FulfilmentAssumption DEF FulfilmentAssumption
<1>5. \A o \in OrderIds : order'[o] = None <=> order[o] = None
  BY <1>1, <1>2, <1>3, <1>4 DEF SalesInv, BookInv, ControlInv, BookOK
<1>6. \A v \in Workers : SalesOK(v)'
  BY <1>1, EndSales
<1> QED
  BY <1>1, <1>5, <1>6, OrdersStay DEF SalesInv

\* A step that ends a request and changes no row.
LEMMA EndQuietly ==
    ASSUME SalesInv, StockInv', BookInv', NEW w \in Workers, End(w),
           UNCHANGED <<sold, order, quoteOf>>
    PROVE  SalesInv'
BY EndSales, QuietSales

LEMMA ReadOrderSales ==
    ASSUME SalesInv, StockInv', BookInv', NEW w \in Workers, ReadOrder(w)
    PROVE  SalesInv'
<1>1. UNCHANGED <<sold, order, quoteOf>> /\ pc[w] = "begin"
  BY DEF ReadOrder, book
<1>2. CASE End(w)
  BY <1>1, <1>2, EndQuietly
<1>3. CASE ~End(w)
  <2>1. pc' = [pc EXCEPT ![w] = "write"] /\ UNCHANGED <<req, item, loaded, copy>>
    BY <1>3 DEF ReadOrder, GoTo
  <2>2. pc'[w] = "write" /\ \A v \in Workers \ {w} : pc'[v] = pc[v]
    BY <2>1 DEF SalesInv, StockInv, ControlInv, ThreadsOK
  <2>3. \A v \in Workers : SalesOK(v)'
    BY <1>1, <2>1, <2>2, SalesStay DEF SalesInv
  <2> QED
    BY <1>1, <2>3, QuietSales
<1> QED
  BY <1>2, <1>3

LEMMA SalesInit == Init => SalesInv
<1> SUFFICES ASSUME Init PROVE SalesInv
  OBVIOUS
<1>1. QuotesKnown /\ \A w \in Workers : SalesOK(w)
  BY DEF Init, QuotesKnown, SalesOK
<1>2. ASSUME NEW p \in Products PROVE sold[p] <= Ordered(p)
  <2>1. Ordered(p) \in Nat
    <3>1. \A q \in OrderIds : OrderedTable(p)[q] \in Nat
      BY <1>1, OrderedNow
    <3> QED
      BY <1>1, <3>1, OrderedNow, SumType, FulfilmentAssumption DEF FulfilmentAssumption
  <2>2. sold[p] = 0
    BY DEF Init, Nothing
  <2> QED
    BY <2>1, <2>2
<1> QED
  BY <1>1, <1>2, StockInit, BookInit DEF SalesInv, SoldWasOrdered

LEMMA SalesStep == SalesInv /\ [Next]_vars => SalesInv'
<1> SUFFICES ASSUME SalesInv, [Next]_vars PROVE SalesInv'
  OBVIOUS
<1>1. StockInv' /\ BookInv'
  BY StockStep, BookStep DEF SalesInv
<1>2. ASSUME NEW w \in Workers, Submit(w) PROVE SalesInv'
  BY <1>1, <1>2, SubmitSales
<1>3. ASSUME NEW w \in Workers, Handle(w) \/ Crash(w) PROVE SalesInv'
  <2>1. CASE ExpireSession(w) \/ AbortDeadlock(w) \/ Crash(w)
    BY <1>1, <2>1, EndQuietly DEF ExpireSession, AbortDeadlock, Crash, book
  <2> QED
    BY <1>1, <1>3, <2>1, CheckSessionSales, SellItemSales, CommitOrderSales,
       ReadOrderSales, WriteOrderSales DEF Handle
<1>4. CASE UNCHANGED <<sold, order, quoteOf, local>>
  <2>1. \A w \in Workers : SalesOK(w)'
    BY <1>4, SalesStay DEF SalesInv, local
  <2> QED
    BY <1>1, <1>4, <2>1, QuietSales
<1>5. ASSUME NEW p \in Products, NEW n \in Quantities,
             ReserveStock(p, n) \/ ReleaseStock(p, n)
      PROVE SalesInv'
  BY <1>4, <1>5 DEF ReserveStock, ReleaseStock, book
<1>6. ASSUME NEW s \in Sessions, Elapse(s) PROVE SalesInv'
  BY <1>4, <1>6 DEF Elapse, stock, book
<1>7. CASE UNCHANGED vars
  BY <1>4, <1>7 DEF vars, local
<1> QED
  BY <1>2, <1>3, <1>5, <1>6, <1>7 DEF Next

\* Nothing is sold without an order for it (SoldWasOrdered), however many
\* orders of however many items sell at once, deadlock and crash
\* (order_service.py:87-151, inventory_service.py:144-169): what a transaction
\* sold is in its own copies until the order that explains it commits.
THEOREM SalesAreOrdered == Spec => []SoldWasOrdered
<1>1. Spec => []SalesInv
  BY SalesInit, SalesStep, PTL DEF Spec
<1>2. SalesInv => SoldWasOrdered
  BY DEF SalesInv
<1> QED
  BY <1>1, <1>2, PTL
=============================================================================
