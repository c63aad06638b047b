------------------------------ MODULE EchoWire ------------------------------
(***************************************************************************)
(* The driver of the server and its partner: socksrv echoes every packet   *)
(* it receives (srv/pardrv.c over srv/par.c and srv/pario.asm), pysockbox  *)
(* sends packets and waits for the echo of each (pybox/pkt.py).  The wire  *)
(* is that of ParWire, and where a routine of srv or pybox does what its   *)
(* model there does, it is named here and taken from there; BufferSize is  *)
(* s_MaxPacketSize, and hwrecv looks at the size before it reads the CRC.  *)
(* The server sends an echo once, at once, and forgets it when that fails. *)
(* The PC does not clear BUSY after a packet, and between two bytes it     *)
(* toggles BUSY from the state it reads off one more update.  A definition *)
(* named Fault... is the form a plausible bug would give to the definition *)
(* after it.                                                               *)
(***************************************************************************)
EXTENDS ParWire

\* The size is looked at after sync and size; drv_init asks for 256 - sizeof(struct packet_s).
ASSUME EchoAssumption == SizeAt = 4 /\ BufferSize <= 250

VARIABLES
    ctl,     \* BUSY in the update read last and in those on their way
    status   \* what toggle_busy read of it: "unread", "busy" or "clear"

evars == <<vars, ctl, status>>

\* An update has the state of all lines, BUSY with them.
Carry == ctl' = IF Len(toPC') < Len(toPC) THEN Tail(ctl)
                ELSE ctl \o [i \in 1..(Len(toPC') - Len(toPC)) |-> busy]

-----------------------------------------------------------------------------
(* The server: drv_handle_rx calls par_recv, and par_send with the same    *)
(* packet when it got one.                                                 *)

EchoDue == Len(offered["amiga"]) < Len(rcvd["amiga"])
EchoOffered == offered' = [offered EXCEPT !["amiga"] = Append(@, Last(rcvd["amiga"]))]

\* par_send requests the line, if it is free
FaultEchoPacket(data) == Wire(Tail(data))
EchoPacket(data) == Wire(data)
EchoRequest == /\ a_pc = "idle" /\ EchoDue /\ LineFree
               /\ EchoOffered /\ a_bytes' = EchoPacket(Last(rcvd["amiga"]))
               /\ Drive([lines EXCEPT !.pout = TRUE])
               /\ a_pc' = "requested"
               /\ UNCHANGED <<busy, flg, inten, s_Flags, sig, d7, pcVars, timeouts, sent, rcvd>>
\* or answers -3: drv_handle_rx counts a TX error
EchoDropped == /\ a_pc = "idle" /\ EchoDue /\ ~LineFree
               /\ EchoOffered
               /\ UNCHANGED <<busy, lines, toPC, flg, amigaVars, pcVars, timeouts, sent, rcvd>>

srv_interrupt == interrupt
srv_hwsend == hwsend
srv_hwrecv == hwrecv
srv_par_send == EchoRequest \/ EchoDropped \/ SendNoLine \/ SendLine \/ srv_hwsend
srv_par_recv == RecvStart \/ srv_hwrecv
drv_handle_rx == srv_par_send \/ (~EchoDue /\ srv_par_recv)

-----------------------------------------------------------------------------
(* The PC. *)

\* toggle_busy: get_status reads an update, if there is one, and the PC sets or clears
\* BUSY by that.
get_status == /\ PcRuns /\ p_pc \in {"tx_busy", "recv_busy"} /\ status = "unread"
              /\ IF toPC = <<>> THEN UNCHANGED <<view, toPC>>
                 ELSE view' = Head(toPC) /\ toPC' = Tail(toPC)
              /\ status' = IF ctl[IF toPC = <<>> THEN 1 ELSE 2] THEN "busy" ELSE "clear"
              /\ UNCHANGED <<busy, lines, flg, amigaVars, p_pc, p_bytes, toggle, timeouts, logs>>

toggle_busy == status # "unread" /\ busy' = (status = "clear")
BoxPutByte == /\ PcRuns /\ p_pc = "tx_busy" /\ toggle_busy
              /\ toggle' = ~toggle /\ p_pc' = "tx"
              /\ UNCHANGED <<lines, toPC, flg, amigaVars, view, p_bytes, timeouts, logs>>
BoxGetByte == /\ PcRuns /\ p_pc = "recv_busy" /\ toggle_busy
              /\ toggle' = ~toggle
              /\ p_pc' = IF Complete(p_bytes, SizeOf(p_bytes)) THEN "recv_unselect" ELSE "recv"
              /\ UNCHANGED <<lines, toPC, flg, amigaVars, view, p_bytes, timeouts, logs>>

\* the ends of send and recv: clearing BUSY is commented out
BoxSent == /\ PcRuns /\ p_pc = "tx_unselect" /\ Unselected
           /\ sent' = [sent EXCEPT !["pc"] = Append(@, Last(offered["pc"]))]
           /\ p_pc' = "idle"
           /\ UNCHANGED <<busy, lines, toPC, flg, amigaVars, view, p_bytes, toggle, timeouts,
                          offered, rcvd>>
BoxReceived == /\ PcRuns /\ p_pc = "recv_unselect" /\ Unselected
               /\ rcvd' = [rcvd EXCEPT !["pc"] = Append(@, Data(p_bytes))]
               /\ p_pc' = "idle" /\ p_bytes' = <<>>
               /\ UNCHANGED <<busy, lines, toPC, flg, amigaVars, view, toggle, timeouts,
                              offered, sent>>

\* pysockbox: can_recv sees no select for a second, and the program ends
BoxNoReply == /\ p_pc = "idle" /\ ~MaySend("pc") /\ ~view.sel /\ toPC = <<>>
              /\ Len(rcvd["pc"]) < Len(offered["pc"])
              /\ p_pc' = "stopped"
              /\ timeouts' = timeouts + (IF a_pc = "idle" /\ ~EchoDue /\ ~sig THEN 0 ELSE 1)
              /\ timeouts' <= MaxTimeouts
              /\ UNCHANGED <<busy, lines, toPC, flg, amigaVars, view, p_bytes, toggle, logs>>

box_send == \/ PcSend \/ PcMagic \/ PcAck \/ PcSelected \/ PcPutByte \/ BoxPutByte
            \/ PcSendLost \/ PcFinal \/ BoxSent
box_recv == PcRecv \/ PcGetByte \/ BoxGetByte \/ PcRecvFail \/ BoxReceived
pysockbox == PcRead \/ box_send \/ box_recv \/ BoxNoReply

-----------------------------------------------------------------------------
\* what toggle_busy read is gone when it returns
Rides == Carry /\ status' = IF p_pc' = p_pc THEN status ELSE "unread"
Steps == srv_interrupt \/ drv_handle_rx \/ pysockbox \/ Timeout

EchoInit == Init /\ ctl = <<busy>> /\ status = "unread"
EchoNext == (Steps /\ Rides) \/ (get_status /\ Carry)
EchoSpec == /\ EchoInit /\ [][EchoNext]_evars
            /\ WF_evars(srv_interrupt /\ Rides) /\ WF_evars(drv_handle_rx /\ Rides)
            /\ WF_evars((pysockbox /\ Rides) \/ (get_status /\ Carry))

\* The echo of a packet is that packet, and the echoes come in order, while nothing
\* times out; a packet that is refused or dropped on the way back has none.
EchoIsPacket == timeouts = 0 => IsPrefix(rcvd["pc"], offered["pc"])

\* Every packet comes back if nothing times out and all were of an even size, up to
\* the one the server refuses for its size.  An odd one leaves BUSY set behind it, and
\* par_send of the server takes that for a busy line.
Impeded == timeouts > 0 \/ \E i \in DOMAIN offered["pc"] :
                              LET n == Len(offered["pc"][i]) IN n % 2 = 1 \/ n > BufferSize
EchoReturns == \A k \in 1..Rounds :
                   Len(offered["pc"]) = k ~> Len(rcvd["pc"]) >= k \/ Impeded
=============================================================================
