SPECIFICATION Spec

CONSTANTS
    Headers <- MCHeaders
    MimeParts <- MCParts
    MaxWalk = 3
    MaxBodySize = 5
    MaxAttachmentSize = 4
    MaxAttachmentsTotalSize = 5
    MaxAttachments = 2
    MaxHeaderTextRunes = 4
    MaxMessageIDBytes = 4
    MaxReferencesBytes = 7
    Limits <- MCLimits
    Caps <- MCCaps
    ChunkSize = 2

INVARIANT
    CutsFlagged

CHECK_DEADLOCK FALSE
