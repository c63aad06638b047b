\* The two programs echo each other and stop after Rounds packets; nothing times out.
SPECIFICATION FairSpec
CONSTANTS
    AmigaSizes = {1, 2}
    PcSizes = {1, 2}
    BufferSize = 2
    SizeAt = 6
    Starter = "amiga"
    Turns = TRUE
    Prompt = TRUE
    Rounds = 3
    MaxTimeouts = 0
INVARIANTS ByteLockstep AtRest AmigaSentTaken PcSentReceived
PROPERTIES WireLink
CHECK_DEADLOCK FALSE
