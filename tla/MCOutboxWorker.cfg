SPECIFICATION FairSpec
CONSTANTS
    NumEvents = 2
    Workers = {w1, w2}
    BatchSize = 2
    MaxFaults = 2
INVARIANTS DuplicateNeedsExpiry OneWorkerPerLease
PROPERTIES DeliverySafe DeliveryLive
