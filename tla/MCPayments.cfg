\* Each event published up to twice; room in the topic for all copies.
SPECIFICATION FairSpec
CONSTANTS
    alice = alice
    bob = bob
    usd = usd
    Ids = {t1, t2}
    Users = {alice, bob}
    Currencies = {usd}
    WithRow <- MCWithRow
    Opening <- MCOpening
    Amounts <- MCAmounts
    BatchSize = 2
    MaxMessages = 3
    MaxFaults = 1
    MaxCopies = 2
INVARIANTS
    TypeOK
    BalanceTraced
    AcceptedTraced
    RepeatedPaymentBound
    BalanceOverdraftBound
PROPERTIES
    StepsAsTransactions
    EventuallyPaid
