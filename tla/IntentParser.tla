---------------------------- MODULE IntentParser ----------------------------
(***************************************************************************)
(* IntentParser.parse_intent: from a message, and the intent of the turn   *)
(* before, to a ShoppingIntent.  A message is a record of what its words   *)
(* name; the regular expressions that find it are left out.  The category  *)
(* is always the same one, and what no later step reads is left out: the   *)
(* purpose, the delivery preference, min_rating and what the soft          *)
(* specifications ask for.  Money is in thousands of rupees.               *)
(***************************************************************************)
EXTENDS Integers

CONSTANTS
    None,
    Messages       \* what users may write

Objectives ==
    {"BALANCED", "BEST_VALUE", "LOWEST_PRICE", "MAX_PERFORMANCE", "FASTEST_DELIVERY",
     "HIGHEST_RATED"}

\* The hard constraints that _extract_specifications makes: a minimum of memory
\* or storage, any "RTX" or one model of it, and an Apple chip.
Demands(specs) ==
    \A key \in DOMAIN specs :
        /\ specs[key].hard
        /\ \/ key \in {"ram_gb", "ssd_gb"} /\ specs[key].target \in Nat
           \/ key = "gpu" /\ specs[key].target.family \in {"any", "rtx"}
                          /\ specs[key].target.number \in Nat
           \/ key = "chip" /\ specs[key].operator = "CONTAINS"

ASSUME MessagesAssumption ==
    \A m \in Messages :
        /\ {m.greeting, m.negative, m.anyAvailability, m.soft} \subseteq BOOLEAN
        /\ m.quantity \in (Nat \ {0}) \union {None}
        /\ {m.budgetMax, m.budgetMin} \subseteq Int \union {None}
        /\ m.objective \in Objectives
        /\ Demands(m.specs)

\* The defaults of ShoppingIntent.
NoWishes ==
    [quantity |-> 1, budgetMax |-> None, budgetMin |-> None, specs |-> <<>>,
     keywords |-> {}, exclusions |-> {}, brands |-> {}, merchants |-> {},
     requireStock |-> TRUE, objective |-> "BEST_VALUE", ambiguous |-> FALSE]

\* The intent of a greeting, whatever was said before.
Unclear == [NoWishes EXCEPT !.ambiguous = TRUE]

Either(said, before) == IF said # None THEN said ELSE before
EitherSet(said, before) == IF said # {} THEN said ELSE before

\* The previous turn's bound, which the code tests for truth: one of 0 is dropped.
Kept(bound) == IF bound = 0 THEN None ELSE bound

\* ShoppingIntent.validate_budget_bounds: a pair that raises.
Impossible(min, max) == min # None /\ max # None /\ min > max

\* A mutant of Exclusions: the new exclusions replace the old ones.
LastExclusions(m, previous) == EitherSet(m.exclusions, previous.exclusions)
Exclusions(m, previous) == m.exclusions \union previous.exclusions

\* A message that names both bounds names a range; any specification in it, a
\* soft one too, replaces all of the previous ones.
Refined(m, previous) ==
    [quantity     |-> Either(m.quantity, previous.quantity),
     budgetMax    |-> Either(m.budgetMax, Kept(previous.budgetMax)),
     budgetMin    |-> Either(m.budgetMin, Kept(previous.budgetMin)),
     specs        |-> IF DOMAIN m.specs # {} \/ m.soft THEN m.specs ELSE previous.specs,
     keywords     |-> EitherSet(m.keywords, previous.keywords),
     exclusions   |-> Exclusions(m, previous),
     brands       |-> EitherSet(m.brands, previous.brands),
     merchants    |-> EitherSet(m.merchants, previous.merchants),
     requireStock |-> ~m.anyAvailability,
     objective    |-> IF m.objective = "BEST_VALUE" THEN previous.objective ELSE m.objective,
     ambiguous    |-> FALSE]

\* None when the code raises.
parse_intent(m, previous) ==
    LET i == Refined(m, previous) IN
    CASE m.negative -> None
      [] ~m.negative /\ m.greeting -> Unclear
      [] OTHER -> IF Impossible(i.budgetMin, i.budgetMax) THEN None ELSE i
=============================================================================
