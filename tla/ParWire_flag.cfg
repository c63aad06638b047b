\* Both sides send when they like, and the Amiga times out once while it sends.
SPECIFICATION FairSpec
CONSTANTS
    AmigaSizes = {1}
    PcSizes = {2}
    BufferSize = 2
    SizeAt = 6
    Starter = "pc"
    Turns = FALSE
    Prompt = TRUE
    Rounds = 1
    MaxTimeouts = 1
PROPERTY NoSendWhileRx
CHECK_DEADLOCK FALSE
