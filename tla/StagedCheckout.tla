--------------------------- MODULE StagedCheckout ---------------------------
(***************************************************************************)
(* The in-memory cart and order engine and the callers that buy with it:   *)
(* the UCP router, the MCP tools, the planning agent and the stage-gated   *)
(* checkout pipeline.  A call is one step: the routers never await, the    *)
(* others are library calls.  Prices are in rupees, amounts in paise.      *)
(***************************************************************************)
EXTENDS TrustPolicy

CONSTANTS
    CartIds, SessionIds,
    Wanted,        \* the products of the catalogue that clients name
    Budgets,       \* budgets that a query states, None without one
    Quantities     \* quantities that clients send; the schemas accept any int

Listing(merchant, price, shipping) ==
    [merchant |-> merchant, category |-> "laptops", price |-> price,
     shipping |-> shipping]

PRODUCT_CATALOG ==
    [rog       |-> Listing("techhub_in", 109999, 0),
     helios    |-> Listing("electrobazaar_in", 99999, 0),
     alienware |-> Listing("prohardware_in", 117999, 0),
     legion    |-> Listing("omnistore_in", 114999, 499),
     macbook   |-> Listing("techhub_in", 189900, 0),
     tuf       |-> Listing("electrobazaar_in", 74999, 0)]

FirstProduct == "rog"   \* products[0] of an unfiltered search

ASSUME WantedAssumption == Wanted \subseteq DOMAIN PRODUCT_CATALOG
ASSUME QuantitiesAssumption == Quantities \subseteq Int

Price(p) == 100 * PRODUCT_CATALOG[p].price

EngineItems == [product : Wanted, quantity : Int, total : Int]
EngineCarts == [items : Seq(EngineItems), subtotal : Int, shipping : Nat,
                tax : Int, discount : Nat, grand_total : Int]
EngineOrders ==
    [via : {"ucp", "mcp", "pipeline"}, product : DOMAIN PRODUCT_CATALOG,
     amount : Int, block : Nat, approved : BOOLEAN,
     order_status : {"CONFIRMED", "SHIPPED", "RETURN_REQUESTED"}]
Stages == {"IDLE", "CART", "CHECKOUT", "AUTHORIZATION", "PAYMENT", "ORDER"}

VARIABLES basket, placed, stage   \* CARTS, ORDERS, SESSIONS

stagedVars == <<basket, placed, stage, policy, ledger>>

StagedTypeOK ==
    /\ DOMAIN basket = CartIds
    /\ \A c \in CartIds :
        /\ basket[c] \in EngineCarts
        /\ IsInjective([i \in DOMAIN basket[c].items |-> basket[c].items[i].product])
    /\ placed \in Seq(EngineOrders)
    /\ stage \in [SessionIds -> Stages]
    /\ policy \in Policies
    /\ ledger \in Seq(AuditBlocks)

EmptyCart == [items |-> << >>, subtotal |-> 0, shipping |-> 0, tax |-> 0,
              discount |-> 0, grand_total |-> 0]

\* get_or_create_cart: a cart that was never used is an empty one.
StagedInit ==
    /\ TrustInit
    /\ basket = [c \in CartIds |-> EmptyCart]
    /\ placed = << >>
    /\ stage = [s \in SessionIds |-> "IDLE"]

-----------------------------------------------------------------------------
(* cart_order_engine                                                       *)

SumOf(items, F(_)) == FoldSeq(LAMBDA x, sum : sum + F(x), 0, items)

\* The subtotal at which the promotion starts, in paise.
OneLakh == 10000000

Totalled(items) ==
    LET subtotal == SumOf(items, LAMBDA x : x.total)
        shipping == SumOf(items, LAMBDA x : 100 * PRODUCT_CATALOG[x.product].shipping)
        tax      == 18 * (subtotal \div 100)
        discount == IF subtotal >= OneLakh THEN 5 * (subtotal \div 100) ELSE 0
    IN  [items |-> items, subtotal |-> subtotal, shipping |-> shipping,
         tax |-> tax, discount |-> discount,
         grand_total |-> subtotal + shipping + tax - discount]

\* Mutant: the total of a line that was there is not adjusted.
AddedWithoutTotal(items, p, n) ==
    IF \E i \in DOMAIN items : items[i].product = p
    THEN [i \in DOMAIN items |->
            IF items[i].product = p
            THEN [items[i] EXCEPT !.quantity = items[i].quantity + n] ELSE items[i]]
    ELSE Append(items, [product |-> p, quantity |-> n, total |-> n * Price(p)])

Added(items, p, n) ==
    IF \E i \in DOMAIN items : items[i].product = p
    THEN [i \in DOMAIN items |->
            IF items[i].product = p
            THEN [items[i] EXCEPT !.quantity = items[i].quantity + n,
                                  !.total = (items[i].quantity + n) * Price(p)]
            ELSE items[i]]
    ELSE Append(items, [product |-> p, quantity |-> n, total |-> n * Price(p)])

add_to_cart(c, p, n) ==
    basket' = [basket EXCEPT ![c] = Totalled(Added(@.items, p, n))]

\* The items but for those of product p.
Without(items, p) ==
    LET kept[n \in 0 .. Len(items)] ==
            IF n = 0 THEN << >>
            ELSE IF items[n].product = p THEN kept[n - 1]
            ELSE Append(kept[n - 1], items[n])
    IN  kept[Len(items)]

remove_from_cart(c, p) ==
    /\ basket' = [basket EXCEPT ![c] = Totalled(Without(@.items, p))]
    /\ UNCHANGED <<placed, stage, policy, ledger>>

clear_cart(c) ==
    /\ basket' = [basket EXCEPT ![c] = Totalled(<< >>)]
    /\ UNCHANGED <<placed, stage, policy, ledger>>

\* The quote is not kept: its amount is the cart's total of that moment.
QuotedAmount(c) == basket'[c].grand_total

\* The order names the block that was logged for it.
NewOrder(via, p, amount, approved) ==
    [via |-> via, product |-> p, amount |-> amount, block |-> Len(ledger'),
     approved |-> approved, order_status |-> "CONFIRMED"]

execute_order_checkout(via, p, amount, approved) ==
    placed' = Append(placed, NewOrder(via, p, amount, approved))

\* update_order_status takes any status, whatever the order's is.
update_order_status(o) ==
    /\ placed' = [placed EXCEPT ![o].order_status = "SHIPPED"]
    /\ UNCHANGED <<basket, stage, policy, ledger>>

process_return_request(o) == placed' = [placed EXCEPT ![o].order_status = "RETURN_REQUESTED"]

-----------------------------------------------------------------------------
(* The callers.                                                            *)

generate_ucp_quote(c, p, n) ==
    /\ add_to_cart(c, p, n)
    /\ add_audit_log("QUOTE_GENERATED", p,
                     evaluate_spending_policy(PRODUCT_CATALOG[p], None).passed)
    /\ UNCHANGED <<placed, stage, policy>>

\* The quote that the request names, and its authorization, are not read.
UcpAllows == evaluate_spending_policy(PRODUCT_CATALOG[FirstProduct], None).passed

execute_ucp_checkout ==
    /\ UcpAllows
    /\ add_audit_log("CHECKOUT_EXECUTED", FirstProduct, TRUE)
    /\ execute_order_checkout("ucp", FirstProduct, Price(FirstProduct), FALSE)
    /\ UNCHANGED <<basket, stage, policy>>

return_ucp_order(o) ==
    /\ process_return_request(o)
    /\ add_audit_log("RETURN_REQUESTED", placed[o].product, TRUE)
    /\ UNCHANGED <<basket, stage, policy>>

\* handle_mcp_tool_call for execute_checkout_order: the policy is a tool of
\* its own, which this one does not ask.  No schema checks the arguments: an
\* address that is no text raises when the order is built, after the block is
\* logged, and the tool answers with the error.
ExecuteCheckoutTool(p) ==
    /\ add_audit_log("MCP_TOOL_CHECKOUT", p, TRUE)
    /\ \/ execute_order_checkout("mcp", p, Price(p), FALSE)
       \/ UNCHANGED placed
    /\ UNCHANGED <<basket, stage, policy>>

\* PlanningAgent.execute_plan buys nothing, but leaves its pick in the cart.
\* What it makes of the policy is only reported.
execute_plan(c, p) ==
    /\ add_to_cart(c, p, 1)
    /\ UNCHANGED <<placed, stage, policy, ledger>>

\* What the supervisor logs about its pick; nothing was found when it is None.
Evaluation(pick, budget) ==
    IF pick = None THEN Block("SUPERVISOR_EVALUATE", "", TRUE)
    ELSE Block("SUPERVISOR_EVALUATE", pick,
               evaluate_spending_policy(PRODUCT_CATALOG[pick], budget).passed)

\* AgentSupervisor.process_request.
process_request(s, pick, budget, suspicious) ==
    /\ ledger' = ledger \o scan_for_prompt_injection(suspicious)
                   \o <<Evaluation(pick, budget)>>
    /\ stage' = [stage EXCEPT ![s] = "IDLE"]
    /\ UNCHANGED <<basket, placed, policy>>

-----------------------------------------------------------------------------
(* CheckoutPipeline.execute_stage_gated_checkout                           *)

Check(p) == evaluate_spending_policy(PRODUCT_CATALOG[p], None)

\* Mutant: the threshold is not looked at.
GrantedUnseen(p, confirmed) == Check(p).passed

Granted(p, confirmed) ==
    /\ Check(p).passed
    /\ Check(p).requires_human_approval => confirmed

\* A refusal raises: the product stays in the cart, the stage where it was.
RefuseCheckout(s, c, p, confirmed) ==
    /\ ~Granted(p, confirmed)
    /\ add_to_cart(c, p, 1)
    /\ stage' = [stage EXCEPT ![s] = "AUTHORIZATION"]
    /\ UNCHANGED <<placed, policy, ledger>>

\* Mutant: the order is given to the carrier before the ledger is stamped.
StampLate(p) == UNCHANGED ledger

Stamp(p) == add_audit_log("EXECUTE_PURCHASE", p, TRUE)

\* The whole cart is charged for an order of the one product, and kept.
CompleteCheckout(s, c, p, confirmed) ==
    /\ Granted(p, confirmed)
    /\ add_to_cart(c, p, 1)
    /\ Stamp(p)
    /\ execute_order_checkout("pipeline", p, QuotedAmount(c), confirmed)
    /\ stage' = [stage EXCEPT ![s] = "ORDER"]
    /\ UNCHANGED policy

-----------------------------------------------------------------------------
SetPolicy ==
    \E new \in Policies : update_policy(new) /\ UNCHANGED <<basket, placed, stage>>

OtherLogging ==
    /\ \/ \E suspicious \in BOOLEAN : sanitize_merchant_content(suspicious)
       \/ \E action \in RecoveryActions : simulate_recovery(action)
    /\ UNCHANGED <<basket, placed, stage>>

StagedNext ==
    \/ SetPolicy
    \/ OtherLogging
    \/ execute_ucp_checkout
    \/ \E c \in CartIds, p \in Wanted :
        \/ \E n \in Quantities : generate_ucp_quote(c, p, n)
        \/ remove_from_cart(c, p)
        \/ execute_plan(c, p)
    \/ \E c \in CartIds : clear_cart(c)
    \/ \E p \in Wanted : ExecuteCheckoutTool(p)
    \/ \E o \in DOMAIN placed : return_ucp_order(o) \/ update_order_status(o)
    \/ \E s \in SessionIds, pick \in Wanted \union {None}, budget \in Budgets,
          suspicious \in BOOLEAN :
        process_request(s, pick, budget, suspicious)
    \/ \E s \in SessionIds, c \in CartIds, p \in Wanted, confirmed \in BOOLEAN :
        RefuseCheckout(s, c, p, confirmed) \/ CompleteCheckout(s, c, p, confirmed)

-----------------------------------------------------------------------------
(* A cart adds up after every caller, those that raised half-way included: *)
(* each line at the price of its product, and totals of exactly the lines  *)
(* that are there.                                                         *)
EngineCartsAddUp ==
    \A c \in CartIds :
        LET cart == basket[c]
            sum  == SumOf(cart.items, LAMBDA x : x.quantity * Price(x.product))
        IN  /\ \A i \in DOMAIN cart.items :
                cart.items[i].total = cart.items[i].quantity * Price(cart.items[i].product)
            /\ cart.subtotal = sum
            /\ cart.grand_total - cart.shipping =
                 (sum \div 100) * (IF sum >= OneLakh THEN 113 ELSE 118)

\* The block that each route logs for an order.
PurchaseAction ==
    [ucp |-> "CHECKOUT_EXECUTED", mcp |-> "MCP_TOOL_CHECKOUT",
     pipeline |-> "EXECUTE_PURCHASE"]

\* Where nothing can raise between the block and the order.
SettledActions == {PurchaseAction["ucp"], PurchaseAction["pipeline"]}

OrdersAreStamped ==
    \A o \in DOMAIN placed :
        /\ placed[o].block \in DOMAIN ledger
        /\ ledger[placed[o].block].action_type = PurchaseAction[placed[o].via]
        /\ ledger[placed[o].block].about = placed[o].product
        /\ \A later \in DOMAIN placed :
              o < later => placed[o].block < placed[later].block

StampsAreOfOrders ==
    \A b \in DOMAIN ledger :
        ledger[b].action_type \in SettledActions
            => \E o \in DOMAIN placed : placed[o].block = b

(* The ledger and the orders tell one story: every order is stamped by a   *)
(* purchase block of its own, of its route and about its product, in the   *)
(* order of the orders; and every purchase block of the UCP router and of  *)
(* the pipeline is the stamp of an order.  A block of the MCP tool need    *)
(* not be: the tool logs first, and may then fail to make the order.       *)
OrdersAndLedgerAgree == OrdersAreStamped /\ StampsAreOfOrders

(* Whatever the UCP router and the pipeline order is allowed by the policy *)
(* in force at that moment, and what the pipeline orders from the approval *)
(* threshold on was confirmed.  (MCP does not ask the policy, and UCP does *)
(* not ask for approval.)                                                  *)
PolicyBeforePurchase ==
    [][\A o \in DOMAIN placed' \ DOMAIN placed :
        LET order   == placed'[o]
            product == PRODUCT_CATALOG[order.product]
        IN  /\ order.via \in {"ucp", "pipeline"} =>
                 /\ product.price <= policy.ceiling
                 /\ product.merchant \notin policy.blocked
            /\ order.via = "pipeline" /\ product.price >= policy.threshold
                 => order.approved]_stagedVars
=============================================================================
