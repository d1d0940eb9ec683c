\* Three creations at once, every choice of account and amount.
SPECIFICATION Spec
CONSTANTS
    alice = alice
    bob = bob
    usd = usd
    Ids = {t1, t2, t3}
    Users = {alice, bob}
    Currencies = {usd}
    WithRow <- MCWithRow
    Opening <- MCOpening
    Amounts <- MCAmounts
SYMMETRY MCSymmetry
INVARIANTS
    TypeOK
    NothingForgotten
    OverdraftBound
    RoundingDrift
