\* Up to two timeouts, packets too big for the Amiga, and a PC of any speed.  The PC stops
\* after a failure.
SPECIFICATION Spec
CONSTANTS
    AmigaSizes = {1, 2}
    PcSizes = {1, 3}
    BufferSize = 2
    SizeAt = 6
    Starter = "pc"
    Turns = TRUE
    Prompt = FALSE
    Rounds = 2
    MaxTimeouts = 2
INVARIANTS TypeOK RxSignalled NoMoreThanSent
CHECK_DEADLOCK FALSE
