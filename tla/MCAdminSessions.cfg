SPECIFICATION Spec
CONSTANTS
    t1 = t1
    t2 = t2
    Tabs <- MCTabs
    Browser <- MCBrowser
    Users = {"ann", "bob"}
    Directory <- MCDirectory
    Buckets <- MCBuckets
    ReservedTopics <- MCReservedTopics
    TypedSuffixes <- MCTypedSuffixes
    MaxEntries = 2
    TTL = 1
    MaxTime = 2
    MaxLogins = 3
SYMMETRY MCSymmetry
INVARIANTS
    PagesWithinRights
PROPERTIES
    SessionBounded
    EvictsLeastRecent
CHECK_DEADLOCK FALSE
