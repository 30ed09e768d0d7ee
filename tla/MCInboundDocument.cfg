SPECIFICATION Spec

CONSTANTS
    Headers <- MCHeaders
    MimeParts <- MCParts
    MaxWalk = 3
    MaxBodySize = 5
    MaxAttachmentSize = 4
    MaxAttachmentsTotalSize = 5
    MaxAttachments = 2
    MaxHeaderTextRunes = 4
    MaxMessageIDBytes = 4
    MaxReferencesBytes = 7
    Limits <- MCLimits
    Caps <- MCCaps
    ChunkSize = 2

INVARIANTS
    LimitsExact
    BodiesCut
    StoredWhole
    NeverRejected
    FlagsExact
    AttachmentsListed
    StrongestLast

CHECK_DEADLOCK FALSE
