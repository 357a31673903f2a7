CONSTANTS
    Producers = {p1, p2}
    Consumers = {c1, c2}
    PushCount = 3
    PopCount = 3
    Nobody = Nobody
SPECIFICATION FairSpec
INVARIANTS
    TypeOK
    FrontHasValue
    LengthHonest
    SoleConsumerNeverWaits
    ProducerOrder
    NoLostWakeup
PROPERTY EveryPopReturns
