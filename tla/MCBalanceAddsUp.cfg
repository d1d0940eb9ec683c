\* Deposits to one account, no faults at all.
SPECIFICATION Spec
CONSTANTS
    alice = alice
    rowless = rowless
    Accounts <- MCAccounts
    WithRow <- MCWithRow
    Opening <- MCOpening
    Messages <- MCMessagesOne
    BatchSize = 2
    MaxMessages = 3
    MaxFaults = 0
INVARIANT AppliedAddsUp
