\* One blocked user with a valid service token is enough.
SPECIFICATION Spec
CONSTANTS
    alice = alice
    bob = bob
    alice_at = alice_at
    spelling = spelling
    empty = empty
    Users <- MCUsers
    Emails <- MCEmails
    NoEmail <- empty
    EmailOf <- MCEmailOf
    Services <- MCServices
    UserMinutes = 2
    ServiceMinutes = 3
    MaxTime = 5
    MaxTokens = 3
PROPERTY
    BlockedUsersRefused
