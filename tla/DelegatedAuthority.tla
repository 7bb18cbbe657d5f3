------------------------- MODULE DelegatedAuthority -------------------------
(***************************************************************************)
(* What an agent may do with the user's money: the delegated authorization *)
(* rules, the mandates (tokens) of the sandbox wallet, and the permission  *)
(* matrix of the agents' tools.  Amounts are in rupees.                    *)
(***************************************************************************)
EXTENDS TrustPolicy

CONSTANTS
    Amounts,       \* amounts that are evaluated and charged
    Categories,    \* categories that requests name, in lower case
    NewRules,      \* CategoryRule values that are set
    Tools,         \* the tools that agents call
    WordsOf        \* the words in the name of an unregistered tool

Rule(auto, block) == [auto_approve_max |-> auto, hard_block_above |-> block]

HARD_SINGLE_TRANSACTION_CEILING == 150000

\* The rules that the policy starts with.
CategoryRules ==
    [groceries |-> Rule(3000, 25000), electronics |-> Rule(10000, 150000),
     accessories |-> Rule(5000, 25000), laptop |-> Rule(10000, 150000)]

GeneralGoods == Rule(5000, 50000)

Decisions == {"BLOCK", "AUTO_APPROVE", "ASK_USER"}
CategoryRule == [auto_approve_max : Int, hard_block_above : Int]
Mandates  == [category : Categories, amount : Amounts, used : BOOLEAN,
              confirmed : BOOLEAN]

ASSUME AmountsAssumption == Amounts \subseteq Int
ASSUME NewRulesAssumption == NewRules \subseteq CategoryRule

VARIABLES rules, tokens   \* category_rules, ACTIVE_DELEGATED_TOKENS

authVars == <<rules, tokens, policy, ledger>>

AuthorityTypeOK ==
    /\ \A k \in DOMAIN rules : rules[k] \in CategoryRule
    /\ tokens \in Seq(Mandates)

AuthorityInit == rules = CategoryRules /\ tokens = << >>

-----------------------------------------------------------------------------
RuleFor(category) ==
    IF category \in DOMAIN rules THEN rules[category] ELSE GeneralGoods

\* Mutant: a confirmation is taken before the ceilings are looked at.
ConfirmedFirst(category, amount, confirmed) ==
    LET rule == RuleFor(category)
    IN  IF amount <= rule.auto_approve_max \/ confirmed THEN "AUTO_APPROVE"
        ELSE IF \/ amount > HARD_SINGLE_TRANSACTION_CEILING
                \/ amount > rule.hard_block_above THEN "BLOCK" ELSE "ASK_USER"

\* Both ceilings come first: neither a generous rule nor the user lifts them.
Decision(category, amount, confirmed) ==
    LET rule == RuleFor(category)
    IN  IF \/ amount > HARD_SINGLE_TRANSACTION_CEILING
           \/ amount > rule.hard_block_above THEN "BLOCK"
        ELSE IF amount <= rule.auto_approve_max \/ confirmed THEN "AUTO_APPROVE"
        ELSE "ASK_USER"

issue_delegated_auth_token(category, amount, confirmed) ==
    tokens' = Append(tokens, [category |-> category, amount |-> amount,
                              used |-> FALSE, confirmed |-> confirmed])

\* Only an approval changes state.
evaluate_transaction(category, amount, confirmed) ==
    /\ Decision(category, amount, confirmed) = "AUTO_APPROVE"
    /\ issue_delegated_auth_token(category, amount, confirmed)
    /\ UNCHANGED <<rules, policy, ledger>>

update_category_rule(category, rule) ==
    /\ rules' = [k \in DOMAIN rules \union {category} |->
                    IF k = category THEN rule ELSE rules[k]]
    /\ UNCHANGED <<tokens, policy, ledger>>

Used(token) == [token EXCEPT !.used = TRUE]

\* Any merchant and amount, and a used token too, are settled.
execute_sandbox_charge(t) ==
    /\ tokens' = [tokens EXCEPT ![t] = Used(@)]
    /\ UNCHANGED <<rules, policy, ledger>>

-----------------------------------------------------------------------------
ToolCategories == {"Search", "Cart", "Checkout", "Payment"}

TOOL_PERMISSION_MATRIX ==
    "Discovery Agent" :> {"Search"} @@ "Ranking Agent" :> {"Search"} @@
    "Cart Agent" :> {"Search", "Cart"} @@
    "Checkout Agent" :> {"Search", "Cart", "Checkout"} @@
    "Payment Agent" :> {"Checkout", "Payment"} @@ "Order Agent" :> {}

REGISTERED_TOOLS ==
    [search_products |-> "Search", get_product_specs |-> "Search",
     compare_products |-> "Search", create_cart |-> "Cart",
     add_to_cart |-> "Cart", update_cart_quantity |-> "Cart",
     clear_cart |-> "Cart", create_checkout_quote |-> "Checkout",
     apply_discount_coupon |-> "Checkout", evaluate_spending_policy |-> "Checkout",
     issue_delegated_token |-> "Payment", authorize_payment |-> "Payment",
     execute_sandbox_charge |-> "Payment"]

\* An unregistered tool is classed by the first of these words in its name.
DynamicCategory(words) ==
    IF "cart" \in words THEN "Cart"
    ELSE IF words \intersect {"checkout", "quote"} # {} THEN "Checkout"
    ELSE IF words \intersect {"pay", "charge", "token"} # {} THEN "Payment"
    ELSE "Search"

Refuse(role, category) ==
    /\ category \notin TOOL_PERMISSION_MATRIX[role]
    /\ add_audit_log("UNAUTHORIZED_TOOL_BLOCKED", category, TRUE)

\* A permitted call changes nothing.
check_permission(role, tool) ==
    /\ Refuse(role, IF tool \in DOMAIN REGISTERED_TOOLS THEN REGISTERED_TOOLS[tool]
                    ELSE DynamicCategory(WordsOf[tool]))
    /\ UNCHANGED <<rules, tokens, policy>>

-----------------------------------------------------------------------------
AuthorityNext ==
    \/ \E category \in Categories, amount \in Amounts, confirmed \in BOOLEAN :
        evaluate_transaction(category, amount, confirmed)
    \/ \E category \in Categories, rule \in NewRules : update_category_rule(category, rule)
    \/ \E t \in DOMAIN tokens : execute_sandbox_charge(t)
    \/ \E role \in DOMAIN TOOL_PERMISSION_MATRIX, tool \in Tools : check_permission(role, tool)

-----------------------------------------------------------------------------
(* A new mandate is within both ceilings of its moment, whatever the rules *)
(* were changed to and whether or not the user confirmed it, and above the *)
(* automatic limit only if the user did; later rules and charges leave     *)
(* what was mandated alone, and a used mandate is never unused again.      *)
MandatesKeepToTheRules ==
    [][/\ \A t \in DOMAIN tokens' \ DOMAIN tokens :
            LET token == tokens'[t]
                rule  == RuleFor(token.category)
            IN  /\ token.amount <= HARD_SINGLE_TRANSACTION_CEILING
                /\ token.amount <= rule.hard_block_above
                /\ token.confirmed \/ token.amount <= rule.auto_approve_max
                /\ ~token.used
       /\ \A t \in DOMAIN tokens \intersect DOMAIN tokens' :
            /\ tokens'[t].amount = tokens[t].amount
            /\ tokens[t].used => tokens'[t].used]_authVars
=============================================================================
