\* One deposit into a real account, rolled back by its user, as the first of the tests does.
SPECIFICATION Spec
CONSTANTS
    alice = alice
    bob = bob
    usd = usd
    Ids = {t1}
    Users = {alice, bob}
    Currencies = {usd}
    WithRow <- MCWithRow
    Opening <- MCOpening
    Amounts <- MCDeposits
INVARIANT RollbacksAnswered
