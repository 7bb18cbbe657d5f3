-------------------------- MODULE MCShoppingAgent --------------------------
(***************************************************************************)
(* An instance of ShoppingAgent for TLC: three products of one merchant    *)
(* with pages of two, one of the second, two of the third.                 *)
(***************************************************************************)
EXTENDS ShoppingAgent

Rtx(n) == [family |-> "rtx", number |-> n]

\* The second product's storage is given in quotes, the fifth's memory is no
\* number and nobody rated it, the last's base price is negative.
SixListings ==
    << [merchant |-> "AMAZON", base |-> 120, rating |-> 45, reviews |-> 600, brand |-> "ASUS",
        specs |-> [ram_gb |-> 32, ssd_gb |-> 1024, gpu |-> Rtx(4070)], words |-> {"RTX"}],
       [merchant |-> "AMAZON", base |-> 80, rating |-> 42, reviews |-> 40, brand |-> "Lenovo",
        specs |-> [ram_gb |-> 16, ssd_gb |-> 512, ssd_quoted |-> TRUE],
        words |-> {"refurbished"}],
       [merchant |-> "AMAZON", base |-> 80, rating |-> 42, reviews |-> 40, brand |-> "Apple",
        specs |-> [ram_gb |-> 24, chip |-> {"M3", "PRO"}], words |-> {}],
       [merchant |-> "FLIPKART", base |-> 120, rating |-> 45, reviews |-> 600, brand |-> "ASUS",
        specs |-> [ram_gb |-> 32, ssd_gb |-> 1024, gpu |-> Rtx(4070)], words |-> {"RTX"}],
       [merchant |-> "CROMA", base |-> 60, rating |-> 0, reviews |-> 0, brand |-> "HP",
        specs |-> [ram_gb |-> Garbled], words |-> {}],
       [merchant |-> "CROMA", base |-> -80, rating |-> 40, reviews |-> 5, brand |-> "Apple",
        specs |-> [ram_gb |-> 24, chip |-> {"M3"}], words |-> {}] >>

OrderOfMerchants == <<"AMAZON", "FLIPKART", "CROMA">>
OptionDays == [AMAZON |-> {1, 3}, FLIPKART |-> {}, CROMA |-> {0, 2}]

Stock(n) == [state |-> compute_state(n), quantity |-> n]
At(p, n) == [price |-> p, stock |-> Stock(n), active |-> TRUE]
Uncounted(p) == [price |-> p, stock |-> None, active |-> TRUE]

FirstRows == <<At(110, 12), At(70, 2), At(70, 5), At(100, 3), Uncounted(60), At(75, 4)>>
AllRows ==
    << {At(110, 12), At(95, 12), At(110, 0)}, {At(70, 2), At(70, 1), At(-1, 2)},
       {At(70, 5), [At(70, 5) EXCEPT !.active = FALSE]}, {At(100, 3), At(125, 3), At(119, 8)},
       {Uncounted(60), At(60, 4)}, {At(75, 4)} >>

FewNamed == {<<>>, <<"CROMA", "FLIPKART">>}

Hello ==
    [greeting |-> TRUE, negative |-> FALSE, quantity |-> None, budgetMax |-> None,
     budgetMin |-> None, specs |-> <<>>, keywords |-> {}, exclusions |-> {}, brands |-> {},
     merchants |-> {}, anyAvailability |-> FALSE, soft |-> FALSE, objective |-> "BEST_VALUE"]
Goal == [Hello EXCEPT !.greeting = FALSE]
Least32 == [target |-> 32, hard |-> TRUE]

\* "hi"; "under -5"; "under 0k"; "cheapest one under 110, nothing refurbished"; "gaming, an
\* RTX 4070 and 32 GB"; "two, from 60 to 80"; "Apple, 120 Hz, whatever
\* availability"; "an M3".
SomeMessages ==
    {Hello, [Goal EXCEPT !.negative = TRUE], [Goal EXCEPT !.budgetMax = 0],
     [Goal EXCEPT !.budgetMax = 110, !.exclusions = {"refurbished"}, !.objective = "LOWEST_PRICE"],
     [Goal EXCEPT !.specs = [ram_gb |-> Least32,
                             gpu |-> [target |-> [family |-> "any", number |-> 4070], hard |-> TRUE]],
                  !.keywords = {"RTX"}, !.objective = "MAX_PERFORMANCE"],
     [Goal EXCEPT !.quantity = 2, !.budgetMin = 60, !.budgetMax = 80],
     [Goal EXCEPT !.brands = {"Apple"}, !.exclusions = {"intel"}, !.anyAvailability = TRUE,
                  !.merchants = {"AMAZON"}, !.soft = TRUE],
     [Goal EXCEPT !.specs = [chip |-> [target |-> "M3", operator |-> "CONTAINS", hard |-> TRUE]]]}
=============================================================================
