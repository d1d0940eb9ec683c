\* Every topic of up to three messages, batches of two, two stops, crashes or failures.
SPECIFICATION FairSpec
CONSTANTS
    alice = alice
    rowless = rowless
    Accounts <- MCAccounts
    WithRow <- MCWithRow
    Opening <- MCOpening
    Messages <- MCMessages
    BatchSize = 2
    MaxMessages = 3
    MaxFaults = 2
INVARIANTS
    TypeOK
    UncontendedExact
    NothingSkipped
    AppliedBound
    OneBatchInFlight
PROPERTY
    EventuallyHandled
