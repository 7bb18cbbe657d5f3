-------------------------- MODULE InMemoryCommerce --------------------------
(***************************************************************************)
(* The commerce that one process keeps in its memory: the merchants behind *)
(* the simulator and the gateway, the cart and order engine with its       *)
(* callers, and the delegated authority.  Engine and authority share the   *)
(* policy and the ledger of the trust layer; the merchants share nothing   *)
(* but the process with them, so a behaviour serves the clients of one     *)
(* side only.                                                              *)
(***************************************************************************)
EXTENDS CommerceGateway, StagedCheckout, DelegatedAuthority

CONSTANT MaxRequests    \* bound: requests in a behaviour, for each side

ASSUME MaxRequestsAssumption == MaxRequests \in [{"merchants", "trust"} -> Nat]

VARIABLES side, requests

commerceVars == <<carts, quotes, orders, basket, placed, stage, policy, ledger,
                  rules, tokens, side, requests>>

CommerceInit ==
    /\ SimulatorInit
    /\ StagedInit
    /\ AuthorityInit
    /\ side \in DOMAIN MaxRequests
    /\ requests = 0

Shopping ==
    /\ side = "merchants"
    /\ SimulatorRoutes \/ GatewayRoutes
    /\ UNCHANGED <<basket, placed, stage, policy, ledger, rules, tokens>>

Engine ==
    /\ side = "trust"
    /\ StagedNext
    /\ UNCHANGED <<carts, quotes, orders, rules, tokens>>

Authority ==
    /\ side = "trust"
    /\ AuthorityNext
    /\ UNCHANGED <<carts, quotes, orders, basket, placed, stage>>

\* Nothing of this outlives the process.
Restart ==
    /\ carts' = [m \in Shops |-> << >>]
    /\ quotes' = [m \in Shops |-> << >>]
    /\ orders' = [m \in Shops |-> << >>]
    /\ basket' = [c \in CartIds |-> EmptyCart]
    /\ placed' = << >>
    /\ stage' = [s \in SessionIds |-> "IDLE"]
    /\ policy' = DefaultPolicy
    /\ ledger' = <<Block("SYSTEM_INIT", "", TRUE)>>
    /\ rules' = CategoryRules
    /\ tokens' = << >>

CommerceNext ==
    /\ requests < MaxRequests[side]
    /\ requests' = requests + 1
    /\ UNCHANGED side
    /\ Shopping \/ Engine \/ Authority \/ Restart

CommerceSpec == CommerceInit /\ [][CommerceNext]_commerceVars

-----------------------------------------------------------------------------
(* Every cart adds up, the merchants' and the engine's, after any sequence *)
(* of calls on any route: totals are those of the lines that are there.    *)
EveryCartAddsUp == CartsAddUp /\ EngineCartsAddUp
=============================================================================
