\* Packets of one to four bytes, the last too big for the server, and two timeouts.
SPECIFICATION EchoSpec
CONSTANTS
    AmigaSizes = {}
    PcSizes = {1, 2, 4}
    BufferSize = 2
    SizeAt = 4
    Starter = "pc"
    Turns = TRUE
    Prompt = TRUE
    Rounds = 3
    MaxTimeouts = 2
INVARIANT EchoIsPacket
PROPERTY EchoReturns
CHECK_DEADLOCK FALSE
