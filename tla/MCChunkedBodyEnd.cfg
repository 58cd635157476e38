SPECIFICATION Spec
CONSTANTS
    Modes <- AllModes
    MaxLength = 1
    MaxBuffer = 2
    MaxFaults = 1
    maxTrailerLines = 3
    maxSignedChunkBytes = 1
INVARIANT
    CompleteIsValidated
