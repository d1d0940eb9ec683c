\* Two withdrawals of one user, each covered by the opening balance alone.
SPECIFICATION Spec
CONSTANTS
    alice = alice
    bob = bob
    usd = usd
    Ids = {t1, t2}
    Users = {alice, bob}
    Currencies = {usd}
    WithRow <- MCWithRow
    Opening <- MCOpening
    Amounts <- MCWithdrawals
INVARIANT BalanceNotNegative
