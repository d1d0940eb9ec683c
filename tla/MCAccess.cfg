\* Lifetimes of two and three minutes, time for both to pass, three tokens.
SPECIFICATION Spec
CONSTANTS
    alice = alice
    bob = bob
    alice_at = alice_at
    spelling = spelling
    empty = empty
    Users <- MCUsers
    Emails <- MCEmails
    NoEmail <- empty
    EmailOf <- MCEmailOf
    Services <- MCServices
    UserMinutes = 2
    ServiceMinutes = 3
    MaxTime = 8
    MaxTokens = 3
INVARIANTS
    TypeOK
    AdmittedAfterLogin
