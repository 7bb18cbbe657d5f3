\* One request on each route of the agent, over six products of three
\* merchants that change once while it reads.
CONSTANTS
    None = None
    Garbled = Garbled
    Products = {1, 2, 3, 4, 5, 6}
    Merchants = {"AMAZON", "FLIPKART", "CROMA"}
    MerchantOrder <- OrderOfMerchants
    Listing <- SixListings
    Options <- OptionDays
    PageSize = 2
    Messages <- SomeMessages
    Named <- FewNamed
    Shelves <- AllRows
    FirstShelf <- FirstRows
    MaxTurns = 2
    MaxChanges = 1
CHECK_DEADLOCK FALSE
SPECIFICATION Spec
INVARIANTS RecommendedIsEligible NoMatchMeansNone ReportsTellTheTruth RankingRespectsDominance ConversationRemembers
PROPERTIES EveryRequestIsAnswered
