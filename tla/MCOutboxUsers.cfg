\* One uvicorn process, its three kinds of event, a batch of two rows out of three; the
\* four faults can give two rows up, one more than the limit leaves room for.
SPECIFICATION FairSpec
CONSTANTS
    created = created
    blocked = blocked
    unblocked = unblocked
    Events <- MCEvents
    CreatedAt <- MCCreatedAt
    Kind <- MCKind
    Handlers <- UsersHandlers
    Processors = {api}
    BatchSize = 2
    MaxRetries = 3
    ProducerFirst = TRUE
    AwaitLoop = FALSE
    MaxFaults = 4
INVARIANT
    RetriesNeedFaults
PROPERTIES
    DeliverySpec
    EventuallySettled
