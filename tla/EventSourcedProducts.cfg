SPECIFICATION FairSpec
CONSTANTS
    p1 = p1
    Products <- OneProduct
    Forms <- OneForm
    Amounts <- One
    IntLimit = 2
    PriceLimit = 2
    MaxEvents = 4
    MaxRequests = 2
    MaxRestarts = 2
CHECK_DEADLOCK FALSE
INVARIANTS TypeOK ReplaysAddUp AvailabilityRecovers UnracedChangeStands
PROPERTY EveryEventIsHandled
