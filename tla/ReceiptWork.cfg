CONSTANTS
    Templates <- AllTemplates
    MaxRecorded = 3
    MaxTurns = 6
    MaxPath = 3
    MaxGn = 3
    Policies = {0, 2}
    Fields = {0, 1, 2}
    NoReceipt = NoReceipt
    NoTurns = NoTurns
    Rejected = Rejected
SPECIFICATION ChannelSpec
CHECK_DEADLOCK FALSE
INVARIANTS
    WorkIsCountedOnce
    PinnedPolicyHolds
    HonestIsAccepted
    RootBindsTurns
    TranscriptIsExact
