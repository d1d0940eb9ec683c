\* Two weeks, rows of one user across the pages' boundary, rows that arrive at any time.
SPECIFICATION FairSpec
CONSTANTS
    Rows <- MCRows
    UserOf <- MCUserOf
    Day <- MCDay
    Limit = 2
    Days = 6
    Weeks = 2
    Today = 20
INVARIANTS
    TypeOK
    CountBetween
    NoUserMissed
    QuietUserRowsExact
    WeeksAddUp
PROPERTY
    TaskEnds
