------------------------------ MODULE ParWire ------------------------------
(***************************************************************************)
(* The wire under parblk: par_send and par_recv with the assembler         *)
(* routines hwsend, hwrecv and interrupt on the Amiga, class ParBlk of      *)
(* parblk.py on the PC, and the emulated parallel port between them.       *)
(*                                                                         *)
(* BUSY is driven by the PC, POUT and SEL by the Amiga, the data lines by   *)
(* whoever wrote last.  The Amiga reads the lines themselves.  The PC sees *)
(* them as a queue of updates, each with the state of all lines, which the *)
(* emulator sends whenever the state differs from the last update it sent; *)
(* what the PC commands takes effect at once.                              *)
(*                                                                         *)
(* A byte is handed over by toggling a line: the sender puts the byte on   *)
(* the lines and toggles its own (POUT or BUSY), the receiver answers with *)
(* its own.  Routines and lines keep the names of the code; a definition   *)
(* named Fault... is the form a plausible bug would give to the definition *)
(* after it.                                                               *)
(***************************************************************************)
EXTENDS Integers, SequencesExt

CONSTANTS
    AmigaSizes, PcSizes,  \* sizes of the packets each side sends
    BufferSize,           \* p_BufferSize of the Amiga's receive packet
    SizeAt,               \* bytes read when hwrecv looks at the size: the header here
    Starter,              \* who sends first when the sides take turns
    Turns,                \* the sides echo each other, like the test programs
    Prompt,               \* the Amiga is never overtaken while it starts a transfer
    Rounds,               \* bound: packets per side
    MaxTimeouts           \* bound: timeouts of either side

Sides == {"amiga", "pc"}
Other(s) == IF s = "amiga" THEN "pc" ELSE "amiga"

MaxSize == 65535  \* that p_Size holds

ASSUME WireAssumption ==
    /\ AmigaSizes \cup PcSizes \subseteq 1..MaxSize
    /\ BufferSize \in 1..MaxSize
    /\ SizeAt \in {4, 6}
    /\ Starter \in Sides
    /\ Turns \in BOOLEAN /\ Prompt \in BOOLEAN
    /\ Rounds \in Nat /\ MaxTimeouts \in Nat

VARIABLES
    busy,       \* BUSY
    lines,      \* POUT, SEL and the data lines
    toPC,       \* updates on their way to the PC
    view,       \* the update the PC read last (ctl and dat of vpar.py)
    inten,      \* the FLAG interrupt is enabled in the ICR
    flg,        \* it is pending there
    s_Flags,    \* bits set in the UWORD
    sig,        \* the receive signal is pending at the server task
    a_pc, a_bytes, d7,   \* the server task: place, bytes in or out, sampled BUSY
    p_pc, p_bytes, toggle,  \* the PC: place, bytes in or out, expected POUT
    timeouts,            \* timeouts so far
    offered, sent, rcvd  \* per side: packets passed to send, reported ok, received

flagVars  == <<s_Flags, sig>>
amigaVars == <<inten, flagVars, a_pc, a_bytes, d7>>
pcVars    == <<view, p_pc, p_bytes, toggle>>
logs      == <<offered, sent, rcvd>>
vars      == <<busy, lines, toPC, flg, amigaVars, pcVars, timeouts, logs>>

-----------------------------------------------------------------------------
(* The packet on the wire.                                                 *)

SYNCBYTE_HEAD  == 66
SYNCBYTE_CRC   == 1
SYNCBYTE_NOCRC == 2

Word(s, i) == s[i] * 256 + s[i + 1]

\* p_Sync, p_Size and p_CRC in the byte order of the 68000, then the data.
Wire(data) == <<SYNCBYTE_HEAD, SYNCBYTE_NOCRC, Len(data) \div 256, Len(data) % 256,
                0, 0>> \o data

HeaderSize == 6
SizeOf(bytes)   == Word(bytes, 3)
Data(bytes)     == SubSeq(bytes, HeaderSize + 1, Len(bytes))
Complete(bytes, size) == Len(bytes) >= HeaderSize /\ Len(bytes) = HeaderSize + size

\* Payloads tell the two sides, the packets of a side and their bytes apart.
Payload(s, n) == LET serial == Len(offered[s])
                 IN [i \in 1..n |-> ((IF s = "amiga" THEN 100 ELSE 200) + 10 * serial + i) % 256]

-----------------------------------------------------------------------------
(* The emulated port.                                                      *)

LastSent == IF toPC = <<>> THEN view ELSE Last(toPC)
Update(queue, old, new) == IF new = old THEN queue ELSE Append(queue, new)

\* The Amiga changes the lines, or changes them twice.
Drive(new) == lines' = new /\ toPC' = Update(toPC, LastSent, new)
DriveTwo(first, second) ==
    lines' = second /\ toPC' = Update(Update(toPC, LastSent, first), first, second)

\* A byte is put on the lines before it is announced by the toggle.
Put(byte) == DriveTwo([lines EXCEPT !.dat = byte],
                      [lines EXCEPT !.pout = ~@, !.dat = byte])
TogglePOUT == Drive([lines EXCEPT !.pout = ~@])

\* CLEARREQUEST of par.c keeps the POUT bit of ciapra and clears the others.
CLEARREQUEST == Drive([lines EXCEPT !.sel = FALSE])

\* How hwsend and hwrecv leave the port: POUT, then SEL.
FaultRelease == Drive([lines EXCEPT !.sel = FALSE])
Release == DriveTwo([lines EXCEPT !.pout = FALSE], [lines EXCEPT !.pout = FALSE, !.sel = FALSE])

-----------------------------------------------------------------------------
Init ==
    /\ busy = FALSE
    /\ lines = [pout |-> FALSE, sel |-> FALSE, dat |-> 0]
    /\ toPC = <<>> /\ view = lines
    /\ inten = TRUE /\ flg = FALSE
    /\ s_Flags = {} /\ sig = FALSE
    /\ a_pc = "idle" /\ a_bytes = <<>> /\ d7 = FALSE
    /\ p_pc = "idle" /\ p_bytes = <<>> /\ toggle = FALSE
    /\ timeouts = 0
    /\ offered = [s \in Sides |-> <<>>]
    /\ sent = offered /\ rcvd = offered

\* The test programs send when they start, or for what they received.
MaySend(s) ==
    /\ Len(offered[s]) < Rounds
    /\ Turns => Len(offered[s]) = Len(rcvd[s]) - (IF s = Starter THEN 0 ELSE 1)

-----------------------------------------------------------------------------
(* The interrupt.  The assembler addresses bit 1 of the byte at s_Flags,    *)
(* the high byte of the word; par.c tests the word with a mask.             *)

FLAGS_BIT_RX  == 1
FLAGS_BIT_ACK == 2
AsmBit(b) == b + 8

Announce(flags) == s_Flags' = flags \cup {AsmBit(FLAGS_BIT_RX)} /\ sig' = TRUE

interrupt ==
    /\ flg /\ inten
    /\ flg' = FALSE
    /\ IF AsmBit(FLAGS_BIT_RX) \in s_Flags
       THEN s_Flags' = s_Flags \cup {AsmBit(FLAGS_BIT_ACK)} /\ UNCHANGED sig
       ELSE IF busy THEN Announce(s_Flags) ELSE UNCHANGED <<s_Flags, sig>>
    /\ UNCHANGED <<busy, lines, toPC, inten, a_pc, a_bytes, d7, pcVars, timeouts, logs>>

-----------------------------------------------------------------------------
(* par_send and hwsend.                                                    *)

\* WAITINPUTTOGGLE waits until BUSY differs from d7, and then follows it.
FaultFollow == UNCHANGED d7
Follow == d7' = busy

\* what was offered last is not sent yet
FaultPending == offered["amiga"] # <<>>
Pending == Len(sent["amiga"]) < Len(offered["amiga"])

\* The line is free: request it, for the packet of an earlier attempt or for
\* a new one.  If it is not, par_send returns PAR_ERR_NO_LINE at once.
LineFree == ~busy

SendRequest ==
    /\ a_pc = "idle" /\ LineFree
    /\ \/ Pending /\ UNCHANGED offered
       \/ /\ ~Pending /\ MaySend("amiga")
          /\ \E n \in AmigaSizes :
                offered' = [offered EXCEPT !["amiga"] = Append(@, Payload("amiga", n))]
    /\ Drive([lines EXCEPT !.pout = TRUE])
    /\ a_bytes' = Wire(Last(offered'["amiga"]))
    /\ a_pc' = "requested"
    /\ UNCHANGED <<busy, flg, inten, flagVars, d7, pcVars, timeouts, sent, rcvd>>

\* The line is taken in between: PAR_ERR_NO_LINE.
SendNoLine ==
    /\ a_pc = "requested" /\ busy
    /\ IF FLAGS_BIT_RX \in s_Flags THEN UNCHANGED <<lines, toPC>> ELSE CLEARREQUEST
    /\ a_pc' = "idle"
    /\ UNCHANGED <<busy, flg, inten, flagVars, a_bytes, d7, pcVars, timeouts, logs>>

\* It is still free, and the RX flag that par.c sees is not set.
SendLine ==
    /\ a_pc = "requested" /\ ~busy
    /\ FLAGS_BIT_RX \notin s_Flags
    /\ a_pc' = "have_line"
    /\ UNCHANGED <<busy, lines, toPC, flg, inten, flagVars, a_bytes, d7, pcVars,
                   timeouts, logs>>

\* hwsend selects the PC, then samples BUSY and writes the first byte, which
\* no toggle announces.
SendStart ==
    /\ a_pc = "have_line"
    /\ inten' = FALSE
    /\ Drive([lines EXCEPT !.sel = TRUE])
    /\ a_pc' = "send_sample"
    /\ UNCHANGED <<busy, flg, flagVars, a_bytes, d7, pcVars, timeouts, logs>>

SendSample ==
    /\ a_pc = "send_sample"
    /\ d7' = busy
    /\ Drive([lines EXCEPT !.dat = Head(a_bytes)])
    /\ a_bytes' = Tail(a_bytes)
    /\ a_pc' = "send"
    /\ UNCHANGED <<busy, flg, inten, flagVars, pcVars, timeouts, logs>>

\* BUSY has toggled: the PC took the byte.
SendByte ==
    /\ a_pc = "send" /\ busy # d7 /\ a_bytes # <<>>
    /\ Follow
    /\ Put(Head(a_bytes))
    /\ a_bytes' = Tail(a_bytes)
    /\ UNCHANGED <<busy, flg, inten, flagVars, a_pc, pcVars, timeouts, logs>>

\* The end of hwsend; an interrupt that came meanwhile is dropped.
SendEnd(ok) ==
    /\ Release
    /\ flg' = FALSE /\ inten' = TRUE
    /\ sent' = IF ok THEN [sent EXCEPT !["amiga"] = Append(@, Last(offered["amiga"]))]
               ELSE sent
    /\ a_pc' = "idle" /\ a_bytes' = <<>>
    /\ UNCHANGED <<busy, flagVars, pcVars, offered, rcvd>>

FaultLastTaken == TRUE
LastTaken == busy # d7

SendDone ==
    /\ a_pc = "send" /\ LastTaken /\ a_bytes = <<>>
    /\ d7' = busy
    /\ SendEnd(TRUE)
    /\ UNCHANGED timeouts

SendTimeout ==
    /\ a_pc = "send" /\ busy = d7 /\ timeouts < MaxTimeouts
    /\ timeouts' = timeouts + 1
    /\ SendEnd(FALSE)
    /\ UNCHANGED d7

-----------------------------------------------------------------------------
(* par_recv and hwrecv, for the receive signal.                            *)

RecvStart ==
    /\ a_pc = "idle" /\ sig
    /\ sig' = FALSE /\ inten' = FALSE
    /\ Drive([lines EXCEPT !.sel = TRUE])
    /\ a_pc' = "recv_sample" /\ a_bytes' = <<>>
    /\ UNCHANGED <<busy, flg, s_Flags, d7, pcVars, timeouts, logs>>

RecvSample ==
    /\ a_pc = "recv_sample" /\ lines.dat = SYNCBYTE_HEAD
    /\ d7' = busy
    /\ a_bytes' = <<lines.dat>>
    /\ TogglePOUT
    /\ a_pc' = "recv"
    /\ UNCHANGED <<busy, flg, inten, flagVars, pcVars, timeouts, logs>>

\* Not announced as a packet, or not one that fits: given up like a timeout.
FaultRefused(bytes) == Len(bytes) = 2 /\ bytes[2] \notin {SYNCBYTE_CRC, SYNCBYTE_NOCRC}
Refused(bytes) ==
    \/ Len(bytes) = 2 /\ bytes[2] \notin {SYNCBYTE_CRC, SYNCBYTE_NOCRC}
    \/ Len(bytes) = SizeAt /\ SizeOf(bytes) > BufferSize

\* The dbra loop over the data runs 65536 times for a size of zero, unless it
\* reads the CRC too, as where the size is looked at before that.
Taken(bytes) == Complete(bytes, IF SizeOf(bytes) = 0 /\ SizeAt = HeaderSize
                                THEN MaxSize + 1 ELSE SizeOf(bytes))

RecvByte ==
    /\ a_pc = "recv" /\ busy # d7
    /\ ~Taken(a_bytes) /\ ~Refused(a_bytes)
    /\ Follow
    /\ a_bytes' = Append(a_bytes, lines.dat)
    /\ TogglePOUT
    /\ UNCHANGED <<busy, flg, inten, flagVars, a_pc, pcVars, timeouts, logs>>

FaultEndRX(flags) == flags
EndRX(flags) == flags \ {AsmBit(FLAGS_BIT_RX)}

\* The end of hwrecv.
RecvEnd(ok) ==
    /\ s_Flags' = EndRX(s_Flags)
    /\ Release
    /\ flg' = FALSE /\ inten' = TRUE
    /\ rcvd' = IF ok THEN [rcvd EXCEPT !["amiga"] = Append(@, Data(a_bytes))] ELSE rcvd
    /\ a_pc' = "idle" /\ a_bytes' = <<>>
    /\ UNCHANGED <<busy, sig, d7, pcVars, offered, sent>>

RecvDone ==
    /\ a_pc = "recv" /\ Taken(a_bytes)
    /\ RecvEnd(TRUE)
    /\ UNCHANGED timeouts

RecvRefuse ==
    /\ \/ a_pc = "recv" /\ Refused(a_bytes)
       \/ a_pc = "recv_sample" /\ lines.dat # SYNCBYTE_HEAD
    /\ RecvEnd(FALSE)
    /\ UNCHANGED timeouts

RecvTimeout ==
    /\ a_pc = "recv" /\ busy = d7 /\ ~Taken(a_bytes) /\ ~Refused(a_bytes)
    /\ timeouts < MaxTimeouts
    /\ timeouts' = timeouts + 1
    /\ RecvEnd(FALSE)

-----------------------------------------------------------------------------
(* The PC.                                                                 *)

\* Prompt: the few instructions between SEL and the sample of BUSY take the
\* Amiga less time than the PC needs to react to SEL.
PcRuns == Prompt => a_pc \notin {"send_sample", "recv_sample"}

\* What the PC does after a failure: the test program leaves its loop.
Failed == IF Turns THEN "stopped" ELSE "idle"

\* The loops of wait_select and wait_line_toggle that still wait.
Waiting ==
    \/ p_pc = "idle" /\ ~view.sel /\ ~(Turns /\ MaySend("pc"))
    \/ p_pc = "tx_select" /\ ~view.sel
    \/ p_pc \in {"tx_unselect", "recv_unselect"} /\ view.sel
    \/ p_pc \in {"tx", "recv"} /\ view.pout # toggle /\ view.sel

PcRead ==
    /\ PcRuns /\ Waiting /\ toPC # <<>>
    /\ view' = Head(toPC) /\ toPC' = Tail(toPC)
    /\ UNCHANGED <<busy, lines, flg, amigaVars, p_pc, p_bytes, toggle, timeouts, logs>>

\* wait_line_toggle looks at POUT first and then for the loss of SEL.
PcToggled == view.pout = toggle
PcLost    == ~PcToggled /\ ~view.sel

PcFail ==
    /\ p_pc' = Failed /\ p_bytes' = <<>>
    /\ UNCHANGED <<busy, lines, toPC, flg, amigaVars, view, toggle, logs>>

-----------------------------------------------------------------------------
(* ParBlk.send.                                                            *)

PcSend ==
    /\ PcRuns /\ p_pc = "idle" /\ MaySend("pc")
    /\ \E n \in PcSizes : offered' = [offered EXCEPT !["pc"] = Append(@, Payload("pc", n))]
    /\ p_bytes' = Tail(Wire(Last(offered'["pc"])))
    /\ busy' = TRUE
    /\ p_pc' = "tx_magic"
    /\ UNCHANGED <<lines, toPC, flg, amigaVars, view, toggle, timeouts, sent, rcvd>>

PcMagic ==
    /\ PcRuns /\ p_pc = "tx_magic"
    /\ lines' = [lines EXCEPT !.dat = SYNCBYTE_HEAD]
    /\ p_pc' = "tx_ack"
    /\ UNCHANGED <<busy, toPC, flg, amigaVars, view, p_bytes, toggle, timeouts, logs>>

PcAck ==
    /\ PcRuns /\ p_pc = "tx_ack"
    /\ flg' = TRUE
    /\ p_pc' = "tx_select"
    /\ UNCHANGED <<busy, lines, toPC, amigaVars, view, p_bytes, toggle, timeouts, logs>>

PcSelected ==
    /\ PcRuns /\ p_pc = "tx_select" /\ view.sel
    /\ toggle' = TRUE
    /\ p_pc' = "tx"
    /\ UNCHANGED <<busy, lines, toPC, flg, amigaVars, view, p_bytes, timeouts, logs>>

\* No select within a second.  The other waits of the PC end before: the
\* Amiga allows half a second for the whole transfer and then drops SEL.
PcNoSelect ==
    /\ p_pc = "tx_select" /\ ~view.sel /\ toPC = <<>>
    /\ timeouts < MaxTimeouts
    /\ timeouts' = timeouts + 1
    /\ PcFail

\* set_next_byte: the data, then BUSY.
PcPutByte ==
    /\ PcRuns /\ p_pc = "tx" /\ p_bytes # <<>> /\ PcToggled
    /\ lines' = [lines EXCEPT !.dat = Head(p_bytes)]
    /\ p_bytes' = Tail(p_bytes)
    /\ p_pc' = "tx_busy"
    /\ UNCHANGED <<busy, toPC, flg, amigaVars, view, toggle, timeouts, logs>>

PcPutBusy ==
    /\ PcRuns /\ p_pc = "tx_busy"
    /\ busy' = ~toggle /\ toggle' = ~toggle
    /\ p_pc' = "tx"
    /\ UNCHANGED <<lines, toPC, flg, amigaVars, view, p_bytes, timeouts, logs>>

\* SEL is lost before all bytes are sent: BUSY stays as it is.
PcSendLost ==
    /\ PcRuns /\ p_pc = "tx" /\ p_bytes # <<>> /\ PcLost
    /\ PcFail /\ UNCHANGED timeouts

\* The toggle for the last byte; when it does not come, send only says so.
PcFinal ==
    /\ PcRuns /\ p_pc = "tx" /\ p_bytes = <<>> /\ (PcToggled \/ PcLost)
    /\ p_pc' = "tx_unselect"
    /\ UNCHANGED <<busy, lines, toPC, flg, amigaVars, view, p_bytes, toggle, timeouts,
                   logs>>

FaultUnselected == TRUE
Unselected == ~view.sel

PcSent ==
    /\ PcRuns /\ p_pc = "tx_unselect" /\ Unselected
    /\ busy' = FALSE
    /\ sent' = [sent EXCEPT !["pc"] = Append(@, Last(offered["pc"]))]
    /\ p_pc' = "idle"
    /\ UNCHANGED <<lines, toPC, flg, amigaVars, view, p_bytes, toggle, timeouts,
                   offered, rcvd>>

-----------------------------------------------------------------------------
(* ParBlk.recv, after can_recv has seen SEL.                               *)

PcRecv ==
    /\ PcRuns /\ p_pc = "idle" /\ view.sel /\ ~(Turns /\ MaySend("pc"))
    /\ toggle' = TRUE
    /\ p_bytes' = <<>>
    /\ p_pc' = "recv"
    /\ UNCHANGED <<busy, lines, toPC, flg, amigaVars, view, timeouts, logs>>

Rejected(bytes) ==
    \/ Len(bytes) = 1 /\ bytes[1] = 0
    \/ Len(bytes) = 2 /\ bytes[2] \notin {SYNCBYTE_CRC, SYNCBYTE_NOCRC}

\* get_next_byte: get_data reads one more update if there is one.
PcGetByte ==
    /\ PcRuns /\ p_pc = "recv" /\ ~Rejected(p_bytes) /\ PcToggled
    /\ IF toPC = <<>> THEN UNCHANGED <<view, toPC>>
       ELSE view' = Head(toPC) /\ toPC' = Tail(toPC)
    /\ p_bytes' = Append(p_bytes, view'.dat)
    /\ p_pc' = "recv_busy"
    /\ UNCHANGED <<busy, lines, flg, amigaVars, toggle, timeouts, logs>>

PcGetBusy ==
    /\ PcRuns /\ p_pc = "recv_busy"
    /\ busy' = toggle /\ toggle' = ~toggle
    /\ p_pc' = IF Complete(p_bytes, SizeOf(p_bytes)) THEN "recv_unselect" ELSE "recv"
    /\ UNCHANGED <<lines, toPC, flg, amigaVars, view, p_bytes, timeouts, logs>>

PcRecvFail ==
    /\ PcRuns /\ p_pc = "recv" /\ (Rejected(p_bytes) \/ PcLost)
    /\ PcFail /\ UNCHANGED timeouts

PcReceived ==
    /\ PcRuns /\ p_pc = "recv_unselect" /\ Unselected
    /\ busy' = FALSE
    /\ rcvd' = [rcvd EXCEPT !["pc"] = Append(@, Data(p_bytes))]
    /\ p_pc' = "idle" /\ p_bytes' = <<>>
    /\ UNCHANGED <<lines, toPC, flg, amigaVars, view, toggle, timeouts, offered, sent>>

-----------------------------------------------------------------------------
hwsend == SendStart \/ SendSample \/ SendByte \/ SendDone
hwrecv == RecvSample \/ RecvByte \/ RecvDone \/ RecvRefuse
Amiga  == SendRequest \/ SendNoLine \/ SendLine \/ hwsend \/ RecvStart \/ hwrecv
PC     == \/ PcRead \/ PcSend \/ PcMagic \/ PcAck \/ PcSelected \/ PcPutByte
          \/ PcPutBusy \/ PcSendLost \/ PcFinal \/ PcSent
          \/ PcRecv \/ PcGetByte \/ PcGetBusy \/ PcRecvFail \/ PcReceived
Timeout == SendTimeout \/ RecvTimeout \/ PcNoSelect

Next == interrupt \/ Amiga \/ PC \/ Timeout

Spec == Init /\ [][Next]_vars

\* Both programs run, and a pending interrupt is taken.
FairSpec == Spec /\ WF_vars(interrupt) /\ WF_vars(Amiga) /\ WF_vars(PC)

-----------------------------------------------------------------------------
Bytes == 0..255
Lines == [pout : BOOLEAN, sel : BOOLEAN, dat : Bytes]
Logs  == [Sides -> Seq(Seq(Bytes))]

Types ==
    /\ busy \in BOOLEAN /\ inten \in BOOLEAN /\ flg \in BOOLEAN
    /\ lines \in Lines /\ view \in Lines /\ toPC \in Seq(Lines)
    /\ s_Flags \subseteq {AsmBit(FLAGS_BIT_RX), AsmBit(FLAGS_BIT_ACK)}
    /\ sig \in BOOLEAN /\ d7 \in BOOLEAN /\ toggle \in BOOLEAN
    /\ a_pc \in {"idle", "requested", "have_line", "send_sample", "send",
                 "recv_sample", "recv"}
    /\ p_pc \in {"idle", "tx_magic", "tx_ack", "tx_select", "tx", "tx_busy",
                 "tx_unselect", "recv", "recv_busy", "recv_unselect", "stopped"}
    /\ a_bytes \in Seq(Bytes) /\ p_bytes \in Seq(Bytes)
    /\ timeouts \in 0..MaxTimeouts
    /\ offered \in Logs /\ sent \in Logs /\ rcvd \in Logs
BufferKept ==
    a_pc = "recv" /\ Len(a_bytes) > HeaderSize =>
        SizeOf(a_bytes) = 0 \/ Len(a_bytes) <= HeaderSize + BufferSize

\* What every variable holds; hwrecv stores no more than its buffer holds
\* of a packet that has data at all.
TypeOK == Types /\ BufferKept

\* While the RX bit is set the interrupt does not signal, and only the end of
\* hwrecv clears it: it is set exactly while the signal is pending or the
\* routine is running, or no packet would ever be announced again.
RxSignalled == AsmBit(FLAGS_BIT_RX) \in s_Flags
               <=> sig \/ a_pc \in {"recv_sample", "recv"}

\* During a transfer the receiver is never more than the byte on the lines
\* behind the sender, never ahead of it, and has read what was written; the
\* first byte too, which no toggle of POUT announces to the PC ("get magic
\* byte", parblk.py:160).
Behind(r, w) == r \in {w - 1, w}
ByteLockstep ==
    /\ a_pc = "send" /\ p_pc \in {"recv", "recv_busy"} =>
          LET out == Wire(Last(offered["amiga"]))
          IN Behind(Len(p_bytes), Len(out) - Len(a_bytes)) /\ IsPrefix(p_bytes, out)
    /\ a_pc = "recv" /\ p_pc \in {"tx", "tx_busy"} =>
          LET out == Wire(Last(offered["pc"]))
          IN Behind(Len(a_bytes), Len(out) - Len(p_bytes)) /\ IsPrefix(a_bytes, out)

\* Between the transfers the port is as parblk expects it before the next
\* one: no line raised, the interrupt enabled and not pending, whatever the
\* parity of the sizes was that went over it.
AtRest ==
    a_pc = "idle" /\ p_pc = "idle" =>
        ~busy /\ ~lines.pout /\ ~lines.sel /\ inten /\ ~flg

\* What par_send reports as sent, the PC has taken to the last byte.
AmigaSentTaken ==
    LET finishing == IF p_pc \in {"recv_busy", "recv_unselect"} THEN {Data(p_bytes)} ELSE {}
    IN ToSet(sent["amiga"]) \subseteq ToSet(rcvd["pc"]) \cup finishing

\* What send of parblk.py reports as sent, the Amiga has received.
PcSentReceived == ToSet(sent["pc"]) \subseteq ToSet(rcvd["amiga"])

\* A packet is received at most once for each attempt to send it: the Amiga's par_send
\* repeats what has timed out, the PC's send does not.
NoMoreThanSent == /\ Len(rcvd["amiga"]) <= Len(offered["pc"])
                  /\ Len(rcvd["pc"]) <= Len(offered["amiga"]) + timeouts

\* "setting the FLAGS_BIT_RX bit in the flags field" (pario.asm:102-103): when par_send
\* goes on to use the line, no reception is announced in the flags it has just tested.
NoSendWhileRx == [][SendLine => AsmBit(FLAGS_BIT_RX) \notin s_Flags]_vars

\* "check for SELECT -> arbitration loss?" (parblk.py:47): a transfer that
\* the Amiga gave up is not taken for a packet.
PcReceives == ToSet(rcvd["pc"]) \subseteq ToSet(offered["amiga"])

Payloads == {[i \in 1..n |-> (base + 10 * k + i) % 256] :
                n \in AmigaSizes \cup PcSizes, base \in {100, 200}, k \in 0..Rounds}
L == INSTANCE Link WITH Packets <- Payloads

\* The wire implements the abstract link: every packet that a side passes to
\* send is received by the other side, unchanged and once, and confirmed.
WireLink == L!Spec
=============================================================================
