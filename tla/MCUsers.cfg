\* Two registrations of one e-mail and three changes, every choice of what they ask for.
SPECIFICATION MCSpec
CONSTANTS
    ann = ann
    bea = bea
    r1 = r1
    r2 = r2
    r3 = r3
    Creations <- MCCreations
    Changes <- MCChanges
    Emails = {mail}
INVARIANTS
    TypeOK
    OneUserPerEmail
    UnannouncedExplained
    ChangesAsAnnounced
    LatestEventTellsStatus
PROPERTIES
    EventuallyAnswered
