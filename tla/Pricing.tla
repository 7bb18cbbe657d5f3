------------------------------ MODULE Pricing ------------------------------
(***************************************************************************)
(* PricingService and ShippingService: pure functions of the rows they     *)
(* read.  Money is counted in paise, so an amount with two decimals is a   *)
(* natural number and quantize_money is what rounds a fraction of one.     *)
(***************************************************************************)
EXTENDS Naturals, Functions

CONSTANTS Merchants, Codes, None

PromoRows ==
    [merchant : Merchants, code : Codes, kind : {"PERCENTAGE", "FLAT"},
     value : Nat, floor : Nat, cap : Nat \union {None}, active : BOOLEAN]

ShippingRows ==
    [id : Codes, merchant : Merchants, code : Codes, cost : Nat,
     active : BOOLEAN]

-----------------------------------------------------------------------------
\* quantize_money of n/d: half a paisa is rounded up.
QuantizeMoney(n, d) == (2 * n + d) \div (2 * d)

CalculateLineItemTotal(price, quantity) == price * quantity

\* Lines carry a price and a quantity.
CalculateSubtotal(lines) ==
    FoldFunction(LAMBDA x, sum : sum + CalculateLineItemTotal(x.price, x.quantity),
                 0, lines)

Lower(a, b) == IF a <= b THEN a ELSE b

\* The promotions that a code names for an order of the merchant.
Applicable(promos, merchant, code, subtotal) ==
    {d \in promos : /\ d.merchant = merchant
                    /\ d.code = code
                    /\ d.active
                    /\ d.floor <= subtotal}

\* A mutant of DiscountOf: a flat discount is not held to the subtotal.
Uncapped(d, subtotal) == d.value

\* evaluate_discount for a promotion that applies.  The cap on a percentage
\* is compared in hundredths of a paisa, before the rounding.
DiscountOf(d, subtotal) ==
    IF d.kind = "FLAT" THEN Lower(d.value, subtotal)
    ELSE LET raw    == subtotal * d.value
             capped == IF d.cap = None THEN raw ELSE Lower(raw, 100 * d.cap)
         IN  QuantizeMoney(Lower(capped, 100 * subtotal), 100)

\* 18% GST.
CalculateTax(taxable) == QuantizeMoney(18 * taxable, 100)

\* Subtraction stops at zero.
Less(a, b) == IF a <= b THEN 0 ELSE a - b

ComputeGrandTotal(subtotal, discount, shipping, tax) ==
    Less(subtotal, discount) + shipping + tax

-----------------------------------------------------------------------------
GetShippingOptions(options, merchant) ==
    {o \in options : o.merchant = merchant /\ o.active}

\* A mutant of ValidOptions: an option found by its id is not checked for
\* its merchant.
AnyMerchant(options, merchant, wanted) ==
    LET named == {o \in options : o.id = wanted}
    IN  IF named # {} THEN {o \in named : o.active}
        ELSE {o \in GetShippingOptions(options, merchant) : o.code = wanted}

\* validate_shipping_option_for_merchant: the options it can return, none
\* when it raises.  An id is looked up first, then a code of the merchant.
ValidOptions(options, merchant, wanted) ==
    LET named == {o \in options : o.id = wanted}
    IN  IF named # {} THEN {o \in named : o.merchant = merchant /\ o.active}
        ELSE {o \in GetShippingOptions(options, merchant) : o.code = wanted}

\* The default of a quote: an active option of the least listed cost.
CheapestOptions(options, merchant) ==
    {o \in GetShippingOptions(options, merchant) :
        \A p \in GetShippingOptions(options, merchant) : o.cost <= p.cost}

\* Standard delivery is free from 2000 rupees.
ShippingCost(option, subtotal) ==
    IF option.code = "STANDARD" /\ subtotal >= 200000 THEN 0 ELSE option.cost
=============================================================================
