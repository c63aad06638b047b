\* The Amiga times out while it sends.
SPECIFICATION Spec
CONSTANTS
    AmigaSizes = {2}
    PcSizes = {2}
    BufferSize = 2
    SizeAt = 6
    Starter = "amiga"
    Turns = TRUE
    Prompt = TRUE
    Rounds = 1
    MaxTimeouts = 1
INVARIANTS PcReceives
CHECK_DEADLOCK FALSE
