\* The API process and one worker on the two tied rows of one request, both in a batch: the
\* smallest row-lock deadlock.
SPECIFICATION FairSpec
CONSTANTS
    created1 = created1
    balance1 = balance1
    Events <- MCEvents
    CreatedAt <- MCCreatedAt
    Kind <- MCKind
    Handlers <- TransactionsHandlers
    Processors = {api, worker}
    BatchSize = 2
    MaxRetries = 2
    ProducerFirst = FALSE
    AwaitLoop = TRUE
    MaxFaults = 2
INVARIANTS
    TypeOK
    NothingLost
    RetryBound
    DuplicateBound
PROPERTIES
    EventuallySettled
    ShutdownCompletes
