SPECIFICATION Spec
CONSTANTS
    Names <- AllSelectors
    MaxParams = 2
    Environments <- MCEnvironments
    LifecycleDocs <- MCLifecycleDocs
    DeleteDocs <- MCDeleteDocs
    StoredRules <- MCStoredRules
    Listings <- MCListings
    QueueHeads <- MCQueueHeads
    Objects <- MCObjects
    MaxRules = 2
    MaxTransitions = 2
    MaxTags = 2
    MaxRunes = 3
    MaxObjects = 2
INVARIANTS
    AuditNamesOperation
    SuccessMeansDone
    IntentPreserved
    PermissionExact
    ClaimsHonoured
    ScopeKept
    ReadBackStable
    ListsOwnBuckets
