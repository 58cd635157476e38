SPECIFICATION Spec
CONSTANTS
    Names <- FewSelectors
    MaxParams = 1
    Environments <- FewEnvironments
    LifecycleDocs <- FewLifecycleDocs
    DeleteDocs <- FewDeleteDocs
    StoredRules <- MCStoredRules
    Listings <- FewListings
    QueueHeads <- FewQueueHeads
    Objects <- MCObjects
    MaxRules = 2
    MaxTransitions = 2
    MaxTags = 2
    MaxRunes = 3
    MaxObjects = 2
INVARIANTS
    AuditNamesRoute
