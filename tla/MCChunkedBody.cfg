SPECIFICATION Spec
CONSTANTS
    Modes <- AllModes
    MaxLength = 3
    MaxBuffer = 3
    MaxFaults = 1
    maxTrailerLines = 3
    maxSignedChunkBytes = 2
INVARIANTS
    OnlySignedBytes
    CompleteIsIntact
PROPERTIES
    HonestBodyDelivered
