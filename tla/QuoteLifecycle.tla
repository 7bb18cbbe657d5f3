-------------------------- MODULE QuoteLifecycle --------------------------
(***************************************************************************)
(* What the checkout code promises about the row of a checkout session,    *)
(* seen as a whole and without the requests, the row locks and the reads   *)
(* that produce it.  A step of a session is one of                         *)
(*   Advance     an action of TRANSITION_TABLE, counted by the version;    *)
(*   Invalidate  a failed revalidation: INVALID, from a live status only;  *)
(*   Lapse       the quote's deadline has passed: EXPIRED;                 *)
(*   Sell        an order was placed: COMPLETED.                           *)
(* Lapse and Sell have no guard on the status they leave: neither          *)
(* get_checkout_session nor create_order locks the row or looks at it      *)
(* again before writing, so a promise that excluded terminal statuses      *)
(* would not be kept by the code (see TerminalStatesAreFinal in            *)
(* CheckoutStateMachine).  CheckoutStateMachine is shown to implement this *)
(* specification.                                                          *)
(***************************************************************************)
EXTENDS Naturals, TransitionTable

CONSTANT Sessions      \* the checkout sessions (quotes)

VARIABLES status,      \* status[s]: CheckoutSessionModel.status
          version,     \* version[s]: CheckoutSessionModel.version
          late,        \* late[s]: the clock has passed expires_at
          orders       \* orders[s]: how many orders were placed from s

rowvars == <<status, version, late, orders>>

LifecycleInit ==
    /\ status  = [s \in Sessions |-> "PENDING"]
    /\ version = [s \in Sessions |-> 1]
    /\ late    = [s \in Sessions |-> FALSE]
    /\ orders  = [s \in Sessions |-> 0]

\* An action of the table moves the session along one edge, and the version
\* counts it.
Advance(s) ==
    \E a \in Actions :
        /\ a \in AllowedActions(status[s])
        /\ TargetOf(a) # status[s]
        /\ status'  = [status EXCEPT ![s] = TargetOf(a)]
        /\ version' = [version EXCEPT ![s] = @ + 1]
        /\ UNCHANGED <<late, orders>>

Invalidate(s) ==
    /\ status[s] \notin TERMINAL_STATES
    /\ status' = [status EXCEPT ![s] = "INVALID"]
    /\ UNCHANGED <<version, late, orders>>

Lapse(s) ==
    /\ late[s]
    /\ status' = [status EXCEPT ![s] = "EXPIRED"]
    /\ UNCHANGED <<version, late, orders>>

Sell(s) ==
    /\ status' = [status EXCEPT ![s] = "COMPLETED"]
    /\ orders' = [orders EXCEPT ![s] = @ + 1]
    /\ UNCHANGED <<version, late>>

Deadline(s) ==
    /\ late' = [late EXCEPT ![s] = TRUE]
    /\ UNCHANGED <<status, version, orders>>

LifecycleNext ==
    \E s \in Sessions :
        Advance(s) \/ Invalidate(s) \/ Lapse(s) \/ Sell(s) \/ Deadline(s)

LifecycleSpec == LifecycleInit /\ [][LifecycleNext]_rowvars
=============================================================================
