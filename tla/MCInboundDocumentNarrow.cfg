SPECIFICATION Spec

CONSTANTS
    Headers <- NarrowHeaders
    MimeParts <- MCParts
    MaxWalk = 2
    MaxBodySize = 5
    MaxAttachmentSize = 4
    MaxAttachmentsTotalSize = 5
    MaxAttachments = 2
    MaxHeaderTextRunes = 4
    MaxMessageIDBytes = 4
    MaxReferencesBytes = 7
    Limits <- NarrowLimits
    Caps <- MCCaps
    ChunkSize = 2

INVARIANT
    NeverRejected

CHECK_DEADLOCK FALSE
