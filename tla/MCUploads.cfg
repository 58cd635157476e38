SPECIFICATION Spec
CONSTANTS
    r1 = r1
    r2 = r2
    alice = alice
    bob = bob
    data = data
    archive = archive
    Global = Global
    Nobody = Nobody
    Requests = {r1, r2}
    Users = {alice, bob}
    Buckets = {data, archive}
    Contents = {"empty", "text"}
    Empty = "empty"
    Perm <- MCPerm
    ReadAll = {bob}
    Preloaded = {archive}
    Used <- MCUsed
    Versioned = {data}
    BucketTopic = TRUE
    GlobalTopic = TRUE
    MaxStarts = 2
    MaxRetries = 1
SYMMETRY Symmetry
INVARIANTS
    Announced
    MetadataTruthful
    PopExact
    AdminCleansUp
CHECK_DEADLOCK FALSE
