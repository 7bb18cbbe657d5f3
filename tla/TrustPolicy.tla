---------------------------- MODULE TrustPolicy -----------------------------
(***************************************************************************)
(* The policy engine of the trust and safety layer: the spending policy in *)
(* force, the checks against it, and the process's audit ledger, seen here *)
(* as a list that one event-loop step extends.  (AuditLedger has the steps *)
(* inside add_audit_log and the hashes.)  Prices and limits are in rupees. *)
(***************************************************************************)
EXTENDS Integers, Sequences, FiniteSets, SequencesExt

CONSTANTS
    Policies,      \* the SpendingPolicy values that are set
    DefaultPolicy, \* the one the module starts with
    None

VARIABLES policy, ledger   \* CURRENT_POLICY, AUDIT_LEDGER

trustVars == <<policy, ledger>>

AuditBlocks == [action_type : STRING, about : STRING, policy_verified : BOOLEAN]

Block(action, about, verified) ==
    [action_type |-> action, about |-> about, policy_verified |-> verified]

add_audit_log(action, about, verified) ==
    ledger' = Append(ledger, Block(action, about, verified))

TrustInit ==
    /\ policy = DefaultPolicy
    /\ ledger = <<Block("SYSTEM_INIT", "", TRUE)>>

update_policy(new) ==
    /\ policy' = new
    /\ add_audit_log("POLICY_UPDATE", "", TRUE)

\* A budget of None or zero leaves the policy's ceiling in force.
evaluate_spending_policy(product, budget) ==
    [passed |-> /\ product.price <= IF budget \in {None, 0} THEN policy.ceiling
                                    ELSE budget
                /\ product.category \in policy.categories
                /\ product.merchant \notin policy.blocked,
     requires_human_approval |-> product.price >= policy.threshold]

\* A text that carries a signature is logged, unless the defense is off.
scan_for_prompt_injection(suspicious) ==
    IF suspicious /\ policy.defense
    THEN <<Block("INJECTION_BLOCKED", "", FALSE)>> ELSE << >>

\* Merchant content is scanned whatever the policy says.
sanitize_merchant_content(suspicious) ==
    /\ suspicious
    /\ add_audit_log("INJECTION_BLOCKED", "", TRUE)
    /\ UNCHANGED policy

\* Each scenario returns a prepared trace and logs one block.
RecoveryActions ==
    {"AUTONOMOUS_REPLAN_PRICE_DRIFT", "INVENTORY_RECOVERY_SWAP",
     "PAYMENT_FAILOVER_SETTLED", "MERCHANT_RETRY_BACKOFF_SUCCESS",
     "AGENT_STATE_CHECKPOINT_RESTORED", "WEBHOOK_RECONCILIATION_SYNC"}

simulate_recovery(action) ==
    /\ add_audit_log(action, "", TRUE)
    /\ UNCHANGED policy
=============================================================================
