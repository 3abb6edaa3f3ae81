CONSTANTS
    Prices = {1, 2, 3}
    Sizes = {1, 2}
    Lot = 2
    Open = 1
    Close = 3
    LastMsecs = 3
    MaxOrders = 4
SPECIFICATION Spec
INVARIANTS UncrossedInTrading ReplayMatches QuoteFollowsBook AuctionOptimal DiffApplies
