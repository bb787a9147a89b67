SPECIFICATION Spec
CONSTANTS
    None = None
    Offers <- MCOffers
    Executed <- MCExecuted
    Splits <- MCSplits
    Quotes <- MCQuotes
    RateWindow = 1
    TransferWindow = 1
    Close = 10
    DaysOfYear = 2
    MaxDay = 4
    MaxSources = 5
CHECK_DEADLOCK FALSE
ACTION_CONSTRAINT Apart
INVARIANTS
    ChatsAreTwo
    OrdersApart
    FeesOnce
    LotsInOrder
    SoldWhatWasThere
