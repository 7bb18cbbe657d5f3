-------------------------- MODULE TransitionTable --------------------------
(***************************************************************************)
(* The constant part of the checkout state machine: the statuses a        *)
(* checkout session can have, the actions a client can ask for, and the    *)
(* table that says which action is permitted in which status and where it  *)
(* leads (CheckoutStateMachine.TRANSITION_TABLE).                          *)
(***************************************************************************)

\* The statuses of CheckoutSessionStatus.  PENDING is what prepare_checkout
\* writes; QUOTE_CREATED is its alias and is written by no code.
Statuses ==
    {"QUOTE_CREATED", "PENDING", "QUOTE_VALID", "AUTHORIZATION_REQUIRED",
     "AUTHORIZED", "PAYMENT_PENDING", "PAID", "ORDER_PENDING",
     "COMPLETED", "CANCELLED", "EXPIRED", "FAILED", "INVALID"}

TERMINAL_STATES == {"COMPLETED", "CANCELLED", "EXPIRED", "FAILED", "INVALID"}

Actions ==
    {"VALIDATE_QUOTE", "REQUEST_AUTHORIZATION", "AUTHORIZE",
     "INITIATE_PAYMENT", "CONFIRM_PAYMENT", "SUBMIT_ORDER", "COMPLETE",
     "CANCEL", "FAIL", "INVALIDATE"}

\* Every action leads to one status, from whichever status it is permitted in.
TargetOf(a) ==
    CASE a = "VALIDATE_QUOTE"        -> "QUOTE_VALID"
      [] a = "REQUEST_AUTHORIZATION" -> "AUTHORIZATION_REQUIRED"
      [] a = "AUTHORIZE"             -> "AUTHORIZED"
      [] a = "INITIATE_PAYMENT"      -> "PAYMENT_PENDING"
      [] a = "CONFIRM_PAYMENT"       -> "PAID"
      [] a = "SUBMIT_ORDER"          -> "ORDER_PENDING"
      [] a = "COMPLETE"              -> "COMPLETED"
      [] a = "CANCEL"                -> "CANCELLED"
      [] a = "FAIL"                  -> "FAILED"
      [] a = "INVALIDATE"            -> "INVALID"

\* A faulty table: only terminal statuses refuse anything.
AllowedFromAnywhere(st) == IF st \in TERMINAL_STATES THEN {} ELSE Actions

\* The actions TRANSITION_TABLE permits in a status; none in a terminal one.
AllowedActions(st) ==
    CASE st \in {"QUOTE_CREATED", "PENDING", "QUOTE_VALID"} ->
           {"VALIDATE_QUOTE", "REQUEST_AUTHORIZATION",
            "CANCEL", "INVALIDATE", "FAIL"}
      [] st = "AUTHORIZATION_REQUIRED" ->
           {"AUTHORIZE", "CANCEL", "INVALIDATE", "FAIL"}
      [] st = "AUTHORIZED" ->
           {"INITIATE_PAYMENT", "CANCEL", "INVALIDATE", "FAIL"}
      [] st = "PAYMENT_PENDING" -> {"CONFIRM_PAYMENT", "CANCEL", "FAIL"}
      [] st = "PAID"            -> {"SUBMIT_ORDER", "FAIL"}
      [] st = "ORDER_PENDING"   -> {"COMPLETE", "FAIL"}
      [] OTHER                  -> {}

\* The forward actions, which transition() lets through only after
\* _validate_preconditions has accepted the live cart and catalogue.
ForwardActions ==
    {"VALIDATE_QUOTE", "REQUEST_AUTHORIZATION", "AUTHORIZE",
     "INITIATE_PAYMENT", "CONFIRM_PAYMENT", "SUBMIT_ORDER"}

=============================================================================
