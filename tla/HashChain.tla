----------------------------- MODULE HashChain ------------------------------
(***************************************************************************)
(* What an audit ledger promises.  `chain` is the part of the ledger that  *)
(* its verification accepts.  As long as no two writers meet, it is the    *)
(* whole ledger: every event that is recorded extends it.  When they have  *)
(* met, what was recorded before still verifies, and nothing is promised   *)
(* of the rest.                                                            *)
(***************************************************************************)
EXTENDS Naturals, Sequences

CONSTANTS
    First,      \* the chain of a new ledger
    Durable,    \* whether the ledger outlives its process
    None

VARIABLES
    chain,
    size,       \* how many events the ledger has
    met         \* how many events there were when two writers first met

Keeps(n) == Len(chain') >= n /\ SubSeq(chain', 1, n) = SubSeq(chain, 1, n)

Init == Len(chain) = First /\ size = First /\ met = None

Record ==
    /\ met = None /\ met' = None
    /\ size' = size + 1 /\ Len(chain') = size'
    /\ Keeps(Len(chain))

Meet ==
    /\ met = None /\ met' = size
    /\ UNCHANGED <<chain, size>>

Disturb ==
    /\ met # None /\ met' = met
    /\ size' \in {size, size + 1} /\ Len(chain') <= size'
    /\ Keeps(met)

Restart ==
    /\ ~Durable
    /\ Len(chain') = First /\ size' = First /\ met' = None

Next == Record \/ Meet \/ Disturb \/ Restart

Spec == Init /\ [][Next]_<<chain, size, met>>
=============================================================================
