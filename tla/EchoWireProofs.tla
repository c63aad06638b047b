--------------------------- MODULE EchoWireProofs ---------------------------
(***************************************************************************)
(* What comes back over EchoWire, for packets of any size and every        *)
(* receive buffer of up to the 250 bytes of the driver.  As long as        *)
(* nothing times out, the server and pysockbox go through the phases of    *)
(* ParWireProofs.  They leave them when a packet of an odd size leaves     *)
(* BUSY set behind it, and then nothing more is sent.                      *)
(***************************************************************************)
EXTENDS EchoWire, ParWireProofs

\* The server has offered an echo for every packet of the PC, or for all but the last.
Echoed == offered["pc"] = offered["amiga"] \/ Grown(offered["pc"], offered["amiga"])

\* Only an even number of bytes leaves BUSY clear: those of a packet whose echo goes
\* back, and those of one that waits for its echo at a port at rest.
Even ==
    /\ Arriving("amiga") => ~Odd(Len(Out("amiga")))
    /\ Rest /\ Due("amiga") => ~Odd(Len(Out("pc")))

\* BUSY is set, and the server will not echo the last packet.
Jammed ==
    /\ a_pc = "idle" /\ Calm /\ busy /\ p_bytes = <<>>
    /\ \/ p_pc \in {"tx", "tx_unselect"} /\ \E f \in 0..Ahead : Begun(f) /\ StillSelected(f)
       \/ p_pc \in {"idle", "stopped"} /\ Ahead = 0 /\ Down(view)
    /\ Delivered("pc") /\ Grown(offered["pc"], rcvd["pc"])

\* The updates by which the PC knows that the Amiga has seen BUSY: with such a one, and
\* all after it, comes the present state of BUSY.  toggle_busy reads no other.
Answers(i) ==
    \/ p_pc \in {"idle", "tx_busy", "recv_busy"}
    \/ p_pc \in {"tx_magic", "tx_ack", "tx_select"} /\ (Seen[i].sel \/ Seen[i].pout)
    \/ p_pc \in {"tx", "recv"} /\ Seen[i].pout = toggle
    \/ p_pc \in {"tx_unselect", "recv_unselect"} /\ ~Seen[i].sel
StatusRead == \/ status = "unread"
              \/ p_pc \in {"tx_busy", "recv_busy"} /\ status = IF busy THEN "busy" ELSE "clear"
BusyKnown ==
    /\ ctl \in Seq(BOOLEAN) /\ Len(ctl) = Ahead + 1 /\ StatusRead
    /\ \A i, j \in 0..Ahead : i <= j /\ Answers(i) => ctl[j + 1] = busy

EchoPhase == Phase /\ Echoed /\ Even /\ BusyKnown

-----------------------------------------------------------------------------
(* Whose turn it is.                                                       *)

LEMMA BoxFirst ==
    ASSUME WireInv, Starter = "pc"
    PROVE  /\ Due("amiga") <=> Len(offered["pc"]) = Len(offered["amiga"]) + 1
           /\ Due("pc") <=> Len(offered["pc"]) = Len(offered["amiga"])
           /\ Echoed /\ Due("amiga") => Grown(offered["pc"], offered["amiga"])
           /\ Echoed /\ Due("pc") => offered["pc"] = offered["amiga"]
<1>1. /\ offered["pc"] \in Seq(Seq(Bytes)) /\ offered["amiga"] \in Seq(Seq(Bytes))
      /\ Len(offered["pc"]) \in Nat /\ Len(offered["amiga"]) \in Nat
  BY LogLens, OtherSide DEF WireInv
<1>2. Second("pc") = 0 /\ Second("amiga") = 1
  BY DEF Second
<1>3. /\ Due("amiga") <=> Len(offered["pc"]) = Len(offered["amiga"]) + 1
      /\ Due("pc") <=> Len(offered["pc"]) = Len(offered["amiga"])
  <2>1. /\ Due("amiga") <=> Len(offered["amiga"]) = Len(offered["pc"]) - Second("amiga")
        /\ Due("pc") <=> Len(offered["pc"]) = Len(offered["amiga"]) - Second("pc")
    BY OtherSide DEF Due
  <2>2. Len(offered["pc"]) \in Nat /\ Len(offered["amiga"]) \in Nat
    BY <1>1
  <2> QED  BY <1>2, <2>1, <2>2
<1>4. Grown(offered["pc"], offered["amiga"])
         => Len(offered["pc"]) = Len(offered["amiga"]) + 1
  BY <1>1, GrownFacts
<1> QED  BY <1>1, <1>3, <1>4 DEF Echoed

\* What a phase says of the packets.
LEMMA PhasePackets ==
    ASSUME Phase
    PROVE  /\ Arriving("amiga") \/ Delivered("amiga")
           /\ ~Delivered("amiga") => Arriving("amiga") /\ Due("pc")
           /\ a_pc = "idle" /\ ~PcSentAll =>
                 (Rest /\ Delivered("pc") /\ Delivered("amiga") /\ (Due("amiga") \/ Due("pc")))
                 \/ PcOpen \/ AmigaTaken
<1>1. Quiet \/ PcOpen \/ PcTaken \/ AmigaAnswers \/ AmigaOpen \/ AmigaTaken
  BY DEF Phase, Rest, Calling, Selecting, PcAll, ToAmiga, Refusal, Stopped, PcSentAll, Waking,
         ToPC, AmigaSentAll
<1>2. Quiet => /\ Delivered("pc") /\ Delivered("amiga") /\ (Due("amiga") \/ Due("pc"))
  BY OtherSide DEF Quiet
<1>3. /\ Arriving("amiga") \/ Delivered("amiga")
      /\ ~Delivered("amiga") => Arriving("amiga") /\ Due("pc")
  BY <1>1, <1>2 DEF PcOpen, PcTaken, AmigaAnswers, AmigaOpen, AmigaTaken
<1>4. a_pc = "idle" /\ ~PcSentAll => Rest \/ PcOpen \/ AmigaTaken
  BY DEF Phase, Calling, Selecting, PcAll, ToAmiga, Refusal, Stopped, Waking, ToPC, AmigaSentAll
<1>5. Rest => Quiet
  BY DEF Rest
<1> QED  BY <1>2, <1>3, <1>4, <1>5

\* An echo is due while the PC waits for the end of the select, or at rest.
LEMMA EchoDueWhen ==
    ASSUME WireInv, Phase, Echoed, Starter = "pc", EchoDue, a_pc = "idle"
    PROVE  /\ PcSentAll \/ Rest
           /\ Confirmed("amiga") /\ Delivered("amiga") /\ Delivered("pc") /\ Due("amiga")
           /\ Grown(offered["pc"], offered["amiga"])
<1>1. /\ offered["pc"] \in Seq(Seq(Bytes)) /\ offered["amiga"] \in Seq(Seq(Bytes))
      /\ rcvd["amiga"] \in Seq(Seq(Bytes)) /\ Len(rcvd["amiga"]) \in Nat
      /\ Len(offered["pc"]) \in Nat /\ Len(offered["amiga"]) \in Nat
      /\ Other("pc") = "amiga"
  BY LogLens, OtherSide DEF WireInv
<1>2. ~(Delivered("pc") /\ Due("pc"))
  BY <1>1, BoxFirst DEF Delivered, EchoDue
<1>3. ~(Arriving("pc") /\ Due("amiga"))
  <2> SUFFICES ASSUME Arriving("pc"), Due("amiga") PROVE FALSE
    OBVIOUS
  <2>1. Len(offered["pc"]) = Len(rcvd["amiga"]) + 1
    BY <1>1, GrownFacts DEF Arriving
  <2>2. Len(offered["pc"]) = Len(offered["amiga"]) + 1
    BY BoxFirst
  <2> QED  BY <1>1, <2>1, <2>2 DEF EchoDue
<1>4. ~PcOpen /\ ~AmigaTaken
  BY <1>2, <1>3 DEF PcOpen, AmigaTaken
<1>5. PcSentAll => Delivered("amiga") /\ Delivered("pc") /\ Due("amiga")
  BY DEF PcSentAll, PcTaken
<1>6. /\ PcSentAll \/ Rest
      /\ Delivered("amiga") /\ Delivered("pc") /\ Due("amiga")
  BY <1>2, <1>4, <1>5, PhasePackets
<1>7. Confirmed("amiga")
  BY PhaseDelivers
<1> QED  BY <1>6, <1>7, BoxFirst

\* The echo is the last packet of the PC, and sent like any other.
LEMMA EchoRequestIs ==
    ASSUME WireInv, Phase, Echoed, Starter = "pc", EchoRequest
    PROVE  /\ Request /\ offered'["amiga"] = offered["pc"] /\ offered'["pc"] = offered["pc"]
           /\ ~busy /\ Due("amiga") /\ (PcSentAll \/ Rest)
<1>1. /\ EchoDue /\ a_pc = "idle" /\ LineFree
      /\ offered' = [offered EXCEPT !["amiga"] = Append(@, Last(rcvd["amiga"]))]
      /\ a_bytes' = Wire(Last(rcvd["amiga"])) /\ Drive([lines EXCEPT !.pout = TRUE])
      /\ a_pc' = "requested"
      /\ UNCHANGED <<busy, flg, inten, flagVars, d7, pcVars, timeouts, sent, rcvd>>
  BY DEF EchoRequest, EchoOffered, EchoPacket, flagVars
<1>2. /\ PcSentAll \/ Rest
      /\ Delivered("pc") /\ Due("amiga") /\ Grown(offered["pc"], offered["amiga"])
  BY <1>1, EchoDueWhen
<1>3. Types /\ Sendable /\ "amiga" \in Sides /\ "pc" \in Sides /\ Other("pc") = "amiga"
  BY OtherSide DEF WireInv
<1>4. rcvd["amiga"] = offered["pc"] /\ offered["pc"] # <<>>
  BY <1>2, <1>3 DEF Delivered, Grown
<1>5. Last(rcvd["amiga"]) \in Packets
  BY <1>3, <1>4, LastOffered
<1>6. /\ Last(offered'["amiga"]) = Last(rcvd["amiga"]) /\ offered'["pc"] = offered["pc"]
  BY <1>1, <1>3, <1>5, OfferTypes
<1>7. offered'["amiga"] = Append(offered["amiga"], Last(offered["pc"]))
  BY <1>1, <1>3, <1>4 DEF Types, Logs
<1>8. offered'["amiga"] = offered["pc"]
  BY <1>2, <1>7 DEF Grown
<1>9. Request
  BY <1>1, <1>2, <1>5, <1>6 DEF Request, Out
<1> QED  BY <1>1, <1>2, <1>6, <1>8, <1>9 DEF LineFree

-----------------------------------------------------------------------------
(* The types over the steps that the test programs do not have.            *)

LEMMA RequestedWireInv == ASSUME WireInv, Request PROVE WireInv'
<1>1. "amiga" \in Sides /\ "pc" \in Sides /\ "amiga" # "pc"
  BY DEF Sides
<1>2. PICK p \in Packets : offered' = [offered EXCEPT !["amiga"] = Append(@, p)]
  BY DEF Request
<1>3. /\ offered' \in Logs /\ Sendable'
      /\ offered'["amiga"] # <<>> /\ Last(offered'["amiga"]) \in Packets
      /\ offered'["pc"] = offered["pc"]
  BY <1>1, <1>2, OfferTypes DEF WireInv
<1>4. a_bytes' \in Seq(Bytes) /\ a_bytes' # <<>>
  <2>1. /\ Wire(Last(offered'["amiga"])) \in Seq(Bytes)
        /\ Len(Wire(Last(offered'["amiga"]))) = HeaderSize + Len(Last(offered'["amiga"]))
        /\ Len(Last(offered'["amiga"])) \in Nat
    BY <1>3, WireBytes, PacketLen
  <2>2. a_bytes' = Wire(Last(offered'["amiga"]))
    BY DEF Request, Out
  <2>3. Len(a_bytes') # 0
    BY <2>1, <2>2 DEF HeaderSize
  <2> QED  BY <2>1, <2>2, <2>3
<1>5. lines' \in Lines /\ toPC' \in Seq(Lines)
  BY LinesTypes DEF Request, WireInv
<1>6. Types'
  BY <1>3, <1>4, <1>5 DEF Request, WireInv, Types, flagVars, pcVars
<1>7. ToSend' /\ SizeChecked'
  BY <1>3, <1>4 DEF Request, WireInv, ToSend, SizeChecked, pcVars
<1>8. Signals'
  BY DEF Request, WireInv, Signals, RxSignalled, flagVars
<1> QED  BY <1>3, <1>6, <1>7, <1>8 DEF WireInv

LEMMA GoingWireInv == ASSUME WireInv, Going PROVE WireInv'
BY RequestedWireInv, StepWireInv DEF Going, AmigaGoes, Next, Amiga

\* An echo that is not sent is still the packet of the PC.
LEMMA DroppedWireInv ==
    ASSUME WireInv, Delivered("pc"), offered["pc"] # <<>>, EchoDropped
    PROVE  WireInv' /\ offered'["pc"] = offered["pc"]
<1>1. "amiga" \in Sides /\ "pc" \in Sides /\ Other("pc") = "amiga" /\ "amiga" # "pc"
  BY OtherSide
<1>2. Last(rcvd["amiga"]) \in Packets
  BY <1>1, LastOffered DEF WireInv, Delivered
<1>3. offered' = [offered EXCEPT !["amiga"] = Append(@, Last(rcvd["amiga"]))]
  BY DEF EchoDropped, EchoOffered
<1>4. /\ offered' \in Logs /\ Sendable' /\ offered'["amiga"] # <<>>
      /\ offered'["pc"] = offered["pc"]
  BY <1>1, <1>2, <1>3, OfferTypes DEF WireInv
<1>5. UNCHANGED <<busy, lines, toPC, flg, amigaVars, pcVars, timeouts, sent, rcvd>>
  BY DEF EchoDropped
<1>6. Types'
  BY <1>4, <1>5 DEF WireInv, Types, amigaVars, flagVars, pcVars
<1>7. ToSend' /\ SizeChecked' /\ Signals'
  BY <1>4, <1>5 DEF WireInv, ToSend, SizeChecked, Signals, RxSignalled, amigaVars, flagVars,
                    pcVars
<1> QED  BY <1>4, <1>6, <1>7 DEF WireInv

LEMMA BoxSentWireInv == ASSUME WireInv, BoxSent PROVE WireInv'
<1>1. /\ p_pc = "tx_unselect" /\ p_pc' = "idle"
      /\ UNCHANGED <<busy, lines, toPC, flg, inten, s_Flags, sig, a_pc, a_bytes, d7, view,
                     p_bytes, toggle, timeouts, offered, rcvd>>
  BY DEF BoxSent, amigaVars, flagVars
<1>2. "pc" \in Sides
  BY OtherSide
<1>3. sent' \in Logs
  <2>1. offered["pc"] # <<>>
    BY <1>1 DEF WireInv, ToSend
  <2>2. Last(offered["pc"]) \in Seq(Bytes) /\ sent \in Logs
    BY <1>2, <2>1, LastOffered DEF WireInv, Types
  <2> QED  BY <1>2, <2>2, LogTypes DEF BoxSent
<1>4. Types'
  BY <1>1, <1>3 DEF WireInv, Types
<1>5. Sendable' /\ ToSend' /\ SizeChecked' /\ Signals'
  BY <1>1 DEF WireInv, Sendable, ToSend, SizeChecked, Signals, RxSignalled
<1> QED  BY <1>4, <1>5 DEF WireInv

LEMMA NoReplyWireInv == ASSUME WireInv, BoxNoReply, timeouts' = timeouts PROVE WireInv'
<1>1. /\ p_pc' = "stopped"
      /\ UNCHANGED <<busy, lines, toPC, flg, inten, s_Flags, sig, a_pc, a_bytes, d7, view,
                     p_bytes, toggle, timeouts, offered, sent, rcvd>>
  BY DEF BoxNoReply, amigaVars, flagVars, logs
<1>2. Types'
  BY <1>1 DEF WireInv, Types
<1>3. Sendable' /\ ToSend' /\ SizeChecked' /\ Signals'
  BY <1>1 DEF WireInv, Sendable, ToSend, SizeChecked, Signals, RxSignalled
<1> QED  BY <1>2, <1>3 DEF WireInv

-----------------------------------------------------------------------------
(* The steps.                                                              *)

LEMMA BoxTimeouts ==
    ASSUME EchoNext, timeouts \in Nat
    PROVE  timeouts' = timeouts \/ timeouts' = timeouts + 1
<1>1. interrupt \/ SendNoLine \/ SendLine \/ hwsend \/ RecvStart \/ hwrecv => timeouts' = timeouts
  BY DEF interrupt, hwsend, hwrecv, SendNoLine, SendLine, SendStart, SendSample, SendByte,
         SendDone, RecvStart, RecvSample, RecvByte, RecvDone, RecvRefuse
<1>2. EchoRequest \/ EchoDropped => timeouts' = timeouts
  BY DEF EchoRequest, EchoDropped
<1>3. drv_handle_rx \/ srv_interrupt => timeouts' = timeouts
  BY <1>1, <1>2 DEF drv_handle_rx, srv_par_send, srv_par_recv, srv_hwsend, srv_hwrecv,
                    srv_interrupt
<1>4. PcRead \/ box_send \/ box_recv => timeouts' = timeouts
  BY DEF box_send, box_recv, PcRead, PcSend, PcMagic, PcAck, PcSelected, PcPutByte, BoxPutByte,
         PcSendLost, PcFinal, BoxSent, PcRecv, PcGetByte, BoxGetByte, PcRecvFail, BoxReceived
<1>5. BoxNoReply => timeouts' = timeouts \/ timeouts' = timeouts + 1
  BY DEF BoxNoReply
<1>6. Timeout => timeouts' = timeouts + 1
  BY DEF Timeout, SendTimeout, RecvTimeout, PcNoSelect
<1>7. get_status => timeouts' = timeouts
  BY DEF get_status
<1> QED  BY <1>3, <1>4, <1>5, <1>6, <1>7 DEF EchoNext, Steps, pysockbox

\* What pysockbox does otherwise than parblk.py amounts to the same as long as BUSY is
\* clear at the end.
LEMMA BoxMoves ==
    ASSUME Peaceful, Starter = "pc", WireInv, EchoPhase, pysockbox, timeouts' = 0, timeouts = 0
    PROVE  PC \/ (BoxSent /\ busy /\ PcSentAll)
<1>1. /\ Types /\ Phase /\ busy \in BOOLEAN /\ toggle \in BOOLEAN
      /\ Ahead \in Nat /\ Seen[0] = view
  BY SeenFacts DEF WireInv, Types, EchoPhase
<1>2. CASE BoxPutByte
  <2>1. p_pc = "tx_busy"
    BY <1>2 DEF BoxPutByte
  <2>2. busy = toggle /\ (status = "clear" <=> ~busy)
    BY <1>1, <1>2, <2>1 DEF EchoPhase, BusyKnown, StatusRead, BoxPutByte, toggle_busy, Phase, Rest, Calling, Selecting, ToAmiga, Selected, Answered, Offering,
                      Offered, AllPut, Refusal, Stopped, PcSentAll, Waking, ToPC, BytePut,
                      ByteRead, ByteTaken, AmigaSentAll
  <2>3. busy' = ~toggle
    BY <1>2, <2>2 DEF BoxPutByte, toggle_busy
  <2>4. PcPutBusy
    BY <1>2, <2>3 DEF BoxPutByte, PcPutBusy
  <2> QED  BY <2>4 DEF PC
<1>3. CASE BoxGetByte
  <2>1. p_pc = "recv_busy"
    BY <1>3 DEF BoxGetByte
  <2>2. toggle # busy /\ (status = "clear" <=> ~busy)
    BY <1>1, <1>3, <2>1 DEF EchoPhase, BusyKnown, StatusRead, BoxGetByte, toggle_busy, Phase, Rest, Calling, Selecting, ToAmiga, Selected, Answered, Offering,
                      Offered, AllPut, Refusal, Stopped, PcSentAll, Waking, ToPC, AmigaSentAll
  <2>3. busy' = toggle
    BY <1>1, <1>3, <2>2 DEF BoxGetByte, toggle_busy
  <2>4. PcGetBusy
    BY <1>3, <2>3 DEF BoxGetByte, PcGetBusy
  <2> QED  BY <2>4 DEF PC
<1>4. CASE BoxSent
  <2>1. p_pc = "tx_unselect" /\ ~view.sel
    BY <1>4 DEF BoxSent, Unselected
  <2>2. ~AllPut /\ ~ToPC
    BY <1>1, <2>1 DEF AllPut, ToPC, AllSelected
  <2>3. PcSentAll
    BY <1>1, <2>1, <2>2 DEF Phase, Rest, Calling, Selecting, ToAmiga, Selected, Answered,
                            Offering, Offered, Refusal, Stopped, Waking, AmigaSentAll
  <2>4. ~busy => PcSent
    BY <1>1, <1>4 DEF BoxSent, PcSent
  <2> QED  BY <1>4, <2>3, <2>4 DEF PC
<1>5. CASE BoxReceived
  <2>1. p_pc = "recv_unselect" /\ ~view.sel
    BY <1>5 DEF BoxReceived, Unselected
  <2>2. ~ToPC
    BY <1>1, <2>1 DEF ToPC, AllSelected
  <2>3. AmigaSentAll
    BY <1>1, <2>1, <2>2 DEF Phase, Rest, Calling, Selecting, ToAmiga, Selected, Answered,
                            Offering, Offered, AllPut, Refusal, Stopped, PcSentAll, Waking
  <2>4. ~busy
    BY <2>3 DEF AmigaSentAll, AmigaTaken, EchoPhase, Even
  <2>5. PcReceived
    BY <1>1, <1>5, <2>4 DEF BoxReceived, PcReceived
  <2> QED  BY <2>5 DEF PC
<1>6. ~BoxNoReply
  <2> SUFFICES ASSUME BoxNoReply PROVE FALSE
    OBVIOUS
  <2>1. p_pc = "idle" /\ Len(rcvd["pc"]) < Len(offered["pc"])
    BY DEF BoxNoReply
  <2>2. a_pc = "idle" /\ ~EchoDue
    BY DEF BoxNoReply
  <2>3. Rest
    BY <1>1, <2>1, <2>2 DEF Phase, Calling, Selecting, ToAmiga, Selected, Answered, Offering,
                            Offered, AllPut, Refusal, Stopped, PcSentAll, Waking, ToPC,
                            AmigaSentAll
  <2>4. rcvd["amiga"] = offered["pc"] /\ rcvd["pc"] = offered["amiga"]
    BY <2>3, OtherSide DEF Rest, Quiet, Delivered
  <2>5. Len(offered["pc"]) \in Nat /\ Len(offered["amiga"]) \in Nat
    BY <1>1, LogLens, OtherSide
  <2> QED  BY <2>1, <2>2, <2>4, <2>5 DEF EchoDue
<1> QED  BY <1>2, <1>3, <1>4, <1>5, <1>6 DEF pysockbox, box_send, box_recv, PC

\* Who offers packets, whom the PC receives from, and how its calls end.
LEMMA EchoFrame ==
    ASSUME Types, Steps
    PROVE  /\ EchoRequest \/ EchoDropped \/ PcSend \/ offered' = offered
           /\ rcvd'["pc"] = rcvd["pc"] \/ BoxReceived
           /\ Peaceful /\ p_pc' = "idle" /\ p_pc # "idle" => BoxSent \/ BoxReceived
<1>1. rcvd \in [{"amiga", "pc"} -> Seq(Seq(Bytes))]
  BY OtherSide DEF Types, Logs
<1>2. SendNoLine \/ SendLine \/ hwsend \/ RecvStart \/ interrupt
         => UNCHANGED <<p_pc, offered, rcvd>>
  BY DEF SendNoLine, SendLine, hwsend, SendStart, SendSample, SendByte, SendDone, SendEnd,
         RecvStart, interrupt, pcVars, logs
<1>3. hwrecv \/ RecvTimeout => UNCHANGED <<p_pc, offered>> /\ rcvd'["pc"] = rcvd["pc"]
  BY <1>1 DEF hwrecv, RecvSample, RecvByte, RecvDone, RecvRefuse, RecvTimeout, RecvEnd, pcVars,
              logs
<1>4. EchoRequest \/ EchoDropped => UNCHANGED <<p_pc, rcvd>>
  BY DEF EchoRequest, EchoDropped, pcVars
<1>5. SendTimeout => UNCHANGED <<p_pc, offered, rcvd>>
  BY DEF SendTimeout, SendEnd, pcVars
<1>6. PcNoSelect \/ PcSendLost \/ PcRecvFail
         => UNCHANGED <<offered, rcvd>> /\ (Peaceful => p_pc' = "stopped")
  BY DEF PcNoSelect, PcSendLost, PcRecvFail, PcFail, Failed, Peaceful, logs
<1>7. PcRead \/ PcMagic \/ PcAck \/ PcSelected \/ PcPutByte \/ BoxPutByte \/ PcFinal \/ PcRecv
      \/ PcGetByte \/ BoxGetByte \/ BoxNoReply
         => UNCHANGED <<offered, rcvd>> /\ (p_pc' # "idle" \/ p_pc = "idle")
  BY DEF PcRead, PcMagic, PcAck, PcSelected, PcPutByte, BoxPutByte, PcFinal, PcRecv, PcGetByte,
         BoxGetByte, BoxNoReply, logs
<1>8. PcSend => UNCHANGED rcvd /\ p_pc' # "idle"
  BY DEF PcSend
<1>9. (BoxSent => UNCHANGED <<offered, rcvd>>) /\ (BoxReceived => UNCHANGED offered)
  BY DEF BoxSent, BoxReceived
<1>10. CASE srv_interrupt \/ drv_handle_rx
  BY <1>2, <1>3, <1>4, <1>10 DEF srv_interrupt, drv_handle_rx, srv_par_send, srv_par_recv,
                                 srv_hwsend, srv_hwrecv
<1>11. CASE pysockbox
  BY <1>6, <1>7, <1>8, <1>9, <1>11 DEF pysockbox, box_send, box_recv
<1>12. CASE Timeout
  BY <1>3, <1>5, <1>6, <1>12 DEF Timeout
<1> QED  BY <1>10, <1>11, <1>12 DEF Steps

\* From the end of a packet of an odd size on, BUSY stays set.
LEMMA JamStep ==
    ASSUME WireInv, Phase, Echoed, Starter = "pc", busy, PcSentAll, EchoDropped \/ BoxSent
    PROVE  WireInv' /\ Jammed'
<1>1. Types /\ p_pc \in {"tx", "tx_unselect"} /\ Calm /\ p_bytes = <<>>
  BY DEF WireInv, PcSentAll
<1>2. PICK f \in 0..Ahead : Begun(f) /\ StillSelected(f)
  BY DEF PcSentAll
<1>3. Ahead \in Nat /\ Seen[0] = view /\ f \in Nat /\ Other("pc") = "amiga"
  BY <1>1, SeenFacts, OtherSide
<1>4. a_pc = "idle" /\ Ahead = f /\ Down(lines) /\ Down(Seen[f])
  BY <1>2, <1>3 DEF Begun, Started
<1>5. Delivered("pc") /\ Delivered("amiga") /\ Due("amiga")
  BY <1>4 DEF PcSentAll, PcTaken
<1>6. rcvd["amiga"] = offered["pc"] /\ Grown(offered["pc"], rcvd["pc"])
  BY <1>3, <1>5, BoxFirst, OtherSide DEF Delivered
<1>7. CASE EchoDropped
  <2>1. UNCHANGED <<busy, lines, toPC, flg, sig, a_pc, view, p_pc, p_bytes, rcvd>>
    BY <1>7 DEF EchoDropped, amigaVars, flagVars, pcVars
  <2>2. WireInv' /\ offered'["pc"] = offered["pc"]
    BY <1>5, <1>6, <1>7, DroppedWireInv DEF Grown
  <2>3. Ahead' = Ahead /\ Seen' = Seen
    BY <2>1, KeepSeen
  <2>4. Begun(f)' /\ StillSelected(f)' /\ f \in 0..Ahead'
    BY <1>2, <1>4, <2>1, <2>3 DEF Begun, StillSelected
  <2>5. Delivered("pc")' /\ Grown(offered'["pc"], rcvd'["pc"])
    BY <1>3, <1>6, <2>1, <2>2 DEF Delivered
  <2>6. Jammed'
    BY <1>1, <1>4, <2>1, <2>4, <2>5 DEF Jammed, Calm
  <2> QED  BY <2>2, <2>6
<1>8. CASE BoxSent
  <2>1. /\ ~view.sel /\ p_pc' = "idle"
        /\ UNCHANGED <<busy, lines, toPC, flg, sig, a_pc, view, p_bytes, offered, rcvd>>
    BY <1>8 DEF BoxSent, Unselected, amigaVars, flagVars
  <2>2. f = 0
    <3> SUFFICES ASSUME f # 0 PROVE FALSE
      OBVIOUS
    <3>1. 0 \in 0..(f - 1)
      BY <1>3
    <3> QED  BY <1>2, <1>3, <2>1, <3>1 DEF StillSelected
  <2>3. Ahead' = 0 /\ Down(view')
    BY <1>3, <1>4, <2>1, <2>2, KeepSeen
  <2>4. Delivered("pc")' /\ Grown(offered'["pc"], rcvd'["pc"])
    BY <1>3, <1>6, <2>1 DEF Delivered
  <2>5. Jammed'
    BY <1>1, <1>4, <2>1, <2>3, <2>4 DEF Jammed, Calm
  <2> QED  BY <1>8, <2>5, BoxSentWireInv
<1> QED  BY <1>7, <1>8

\* Then the server drops the echo, and the PC waits for it in vain.
LEMMA JammedMoves ==
    ASSUME Peaceful, Starter = "pc", WireInv, Jammed, Steps, timeouts' = timeouts
    PROVE  \/ p_pc \in {"tx", "tx_unselect"} /\ (PcRead \/ PcFinal \/ BoxSent)
           \/ p_pc = "idle" /\ BoxNoReply
           \/ EchoDropped
<1>1. /\ Types /\ a_pc = "idle" /\ Calm /\ busy /\ p_bytes = <<>>
      /\ \/ p_pc \in {"tx", "tx_unselect"}
         \/ p_pc \in {"idle", "stopped"} /\ Ahead = 0 /\ Down(view)
      /\ Grown(offered["pc"], rcvd["pc"])
  BY DEF WireInv, Jammed
<1>2. ~Timeout
  <2>1. timeouts \in Nat
    BY <1>1, WireAssumption DEF Types
  <2>2. Timeout => timeouts' = timeouts + 1
    BY DEF Timeout, SendTimeout, RecvTimeout, PcNoSelect
  <2> QED  BY <2>1, <2>2
<1>3. srv_interrupt \/ drv_handle_rx => EchoDropped
  BY <1>1, AmigaGuards
     DEF srv_interrupt, drv_handle_rx, srv_par_send, srv_par_recv, srv_hwsend, srv_hwrecv, hwsend,
         hwrecv, EchoRequest, LineFree, Calm
<1>4. ~PcSend
  <2> SUFFICES ASSUME MaySend("pc") PROVE FALSE
    BY DEF PcSend
  <2>1. /\ offered["pc"] \in Seq(Seq(Bytes)) /\ rcvd["pc"] \in Seq(Seq(Bytes))
    BY <1>1, LogLens, OtherSide
  <2>2. Len(offered["pc"]) = Len(rcvd["pc"]) + 1 /\ Len(rcvd["pc"]) \in Nat
    BY <1>1, <2>1, GrownFacts
  <2>3. Len(offered["pc"]) = Len(rcvd["pc"]) - 0
    BY DEF MaySend, Peaceful
  <2> QED  BY <2>2, <2>3
<1>5. CASE p_pc \in {"tx", "tx_unselect"}
  <2>1. ~box_recv /\ ~BoxNoReply
    BY <1>5, PcGuards DEF box_recv, BoxGetByte, BoxReceived, BoxNoReply
  <2>2. box_send => PcFinal \/ BoxSent
    BY <1>1, <1>4, <1>5, PcGuards DEF box_send, BoxPutByte
  <2> QED  BY <1>2, <1>3, <1>5, <2>1, <2>2 DEF Steps, pysockbox
<1>6. CASE p_pc \in {"idle", "stopped"} /\ Ahead = 0 /\ Down(view)
  <2>1. toPC = <<>> /\ ~view.sel
    BY <1>1, <1>6, SeenFacts DEF Down
  <2>2. ~PcRead /\ ~box_send
    BY <1>4, <1>6, <2>1, PcGuards DEF box_send, BoxPutByte, BoxSent
  <2>3. ~box_recv
    BY <1>6, <2>1, PcGuards DEF box_recv, BoxGetByte, BoxReceived
  <2>4. BoxNoReply => p_pc = "idle"
    BY DEF BoxNoReply
  <2> QED  BY <1>2, <1>3, <2>2, <2>3, <2>4 DEF Steps, pysockbox
<1> QED  BY <1>1, <1>5, <1>6

LEMMA JammedStep ==
    ASSUME Peaceful, Starter = "pc", WireInv, Jammed, Steps, timeouts' = timeouts
    PROVE  WireInv' /\ Jammed'
<1>1. /\ Types /\ a_pc = "idle" /\ Calm /\ busy /\ p_bytes = <<>>
      /\ Delivered("pc") /\ Grown(offered["pc"], rcvd["pc"]) /\ Other("pc") = "amiga"
  BY OtherSide DEF WireInv, Jammed
<1>2. Ahead \in Nat /\ Seen[0] = view /\ (toPC = <<>> <=> Ahead = 0)
  BY <1>1, SeenFacts
<1>3. CASE EchoDropped
  <2>1. UNCHANGED <<busy, lines, toPC, flg, sig, a_pc, view, p_pc, p_bytes, rcvd>>
    BY <1>3 DEF EchoDropped, amigaVars, flagVars, pcVars
  <2>2. WireInv' /\ offered'["pc"] = offered["pc"]
    BY <1>1, <1>3, DroppedWireInv DEF Grown
  <2>3. Ahead' = Ahead /\ Seen' = Seen
    BY <2>1, KeepSeen
  <2>4. \A f \in 0..Ahead : Begun(f) /\ StillSelected(f) => Begun(f)' /\ StillSelected(f)'
    BY <1>1, <2>1, <2>3 DEF Begun, StillSelected
  <2>5. Delivered("pc")' /\ Grown(offered'["pc"], rcvd'["pc"])
    BY <1>1, <2>1, <2>2 DEF Delivered
  <2>6. Jammed'
    BY <2>1, <2>3, <2>4, <2>5 DEF Jammed, Calm
  <2> QED  BY <2>2, <2>6
<1>4. CASE p_pc = "idle" /\ BoxNoReply
  <2>1. /\ p_pc' = "stopped" /\ Ahead = 0 /\ Down(view)
        /\ UNCHANGED <<busy, lines, toPC, flg, sig, a_pc, view, p_bytes, offered, rcvd>>
    BY <1>4 DEF BoxNoReply, Jammed, amigaVars, flagVars, logs
  <2>2. Ahead' = Ahead
    BY <2>1, KeepSeen
  <2>3. Jammed'
    BY <1>1, <2>1, <2>2 DEF Jammed, Calm, Delivered
  <2> QED  BY <1>4, <2>3, NoReplyWireInv
<1>5. CASE p_pc \in {"tx", "tx_unselect"} /\ (PcRead \/ PcFinal \/ BoxSent)
  <2>1. PICK f \in 0..Ahead : Begun(f) /\ StillSelected(f)
    BY <1>5 DEF Jammed
  <2>2. f \in Nat /\ f \in Int /\ f <= Ahead /\ Ahead = f /\ Down(lines) /\ Down(Seen[f])
    BY <1>1, <1>2, <2>1 DEF Begun
  <2>3. view.sel => f # 0
    BY <1>2, <2>2 DEF Down
  <2>4. ~view.sel => f = 0
    <3> SUFFICES ASSUME ~view.sel, f # 0 PROVE FALSE
      OBVIOUS
    <3>1. 0 \in 0..(f - 1)
      BY <2>2
    <3> QED  BY <1>2, <2>1, <3>1 DEF StillSelected
  <2>5. CASE PcRead
    <3>1. /\ view' = Head(toPC) /\ toPC' = Tail(toPC) /\ toPC # <<>>
          /\ UNCHANGED <<busy, lines, a_pc, a_bytes, d7, p_pc, p_bytes, offered, rcvd>>
          /\ Calm'
      BY <1>1, <2>5, ReadFrame
    <3>2. /\ Ahead > 0 /\ Ahead' = Ahead - 1 /\ \A i \in 0..Ahead' : Seen'[i] = Seen[i + 1]
      BY <1>1, <3>1, ReadSeen
    <3>3. view.sel
      BY <1>5, <2>5, PcGuards DEF Waiting
    <3>4. Begun(f - 1)'
      BY <1>1, <2>1, <2>2, <3>1, BegunRead
    <3>5. f - 1 \in 0..Ahead'
      BY <1>2, <2>2, <2>3, <3>2, <3>3
    <3>6. StillSelected(f - 1)'
      <4>1. \A i \in 0..((f - 1) - 1) : i + 1 \in 0..(f - 1) /\ i \in 0..Ahead'
        BY <1>2, <2>2, <3>2
      <4>2. \A i \in 0..((f - 1) - 1) : Seen'[i].sel
        BY <2>1, <3>2, <4>1 DEF StillSelected
      <4> QED  BY <4>2 DEF StillSelected
    <3>7. Jammed'
      BY <1>1, <1>5, <3>1, <3>4, <3>5, <3>6 DEF Jammed, Delivered
    <3> QED  BY <2>5, <3>7, PcWireInv
  <2>6. CASE PcFinal
    <3>1. /\ p_pc' = "tx_unselect"
          /\ UNCHANGED <<busy, lines, toPC, flg, sig, a_pc, view, p_bytes, offered, rcvd>>
      BY <2>6 DEF PcFinal, amigaVars, flagVars, logs
    <3>2. Ahead' = Ahead /\ Seen' = Seen
      BY <3>1, KeepSeen
    <3>3. Begun(f)' /\ StillSelected(f)'
      BY <1>1, <2>1, <3>1, <3>2 DEF Begun, StillSelected
    <3>4. Jammed'
      BY <1>1, <3>1, <3>2, <3>3 DEF Jammed, Calm, Delivered
    <3> QED  BY <2>6, <3>4, PcWireInv
  <2>7. CASE BoxSent
    <3>1. /\ ~view.sel /\ p_pc' = "idle"
          /\ UNCHANGED <<busy, lines, toPC, flg, sig, a_pc, view, p_bytes, offered, rcvd>>
      BY <2>7 DEF BoxSent, Unselected, amigaVars, flagVars
    <3>2. Ahead' = 0 /\ Down(view')
      BY <1>2, <2>2, <2>4, <3>1, KeepSeen
    <3>3. Jammed'
      BY <1>1, <3>1, <3>2 DEF Jammed, Calm, Delivered
    <3> QED  BY <2>7, <3>3, BoxSentWireInv
  <2> QED  BY <1>5, <2>5, <2>6, <2>7
<1> QED  BY <1>3, <1>4, <1>5, JammedMoves

LEMMA WireStutter ==
    ASSUME WireInv, Phase, Echoed, Even, UNCHANGED vars
    PROVE  WireInv' /\ Phase' /\ Echoed' /\ Even'
<1>1. /\ UNCHANGED <<busy, lines, toPC, view, flg, sig, a_pc, a_bytes, d7, p_pc, p_bytes>>
      /\ UNCHANGED <<offered, sent, rcvd>>
  BY DEF vars, amigaVars, flagVars, pcVars, logs
<1>2. Ahead' = Ahead /\ Seen' = Seen /\ LastSent' = LastSent
  BY <1>1, KeepSeen
<1>3. UNCHANGED <<Echoed, Arriving("amiga"), Due("amiga"), Out("amiga"), Out("pc"), Quiet>>
  BY <1>1, SameOpen DEF Echoed, Arriving, Due, Out, logs
<1>4. Rest' <=> Rest
  BY <1>1, <1>2, <1>3 DEF Rest, Calm
<1> QED  BY <1>3, <1>4, PhaseStutter, StepWireInv DEF Even

-----------------------------------------------------------------------------
(* What the PC knows of BUSY.                                              *)

Extends == /\ toPC' \in Seq(Lines) /\ Len(toPC') >= Len(toPC)
           /\ \A i \in 1..Len(toPC) : toPC'[i] = toPC[i]

LEMMA UpdateKeeps ==
    ASSUME NEW q \in Seq(Lines), NEW old \in Lines, NEW new \in Lines
    PROVE  /\ Update(q, old, new) \in Seq(Lines)
           /\ Len(Update(q, old, new)) \in Nat /\ Len(Update(q, old, new)) >= Len(q)
           /\ \A i \in 1..Len(q) : Update(q, old, new)[i] = q[i]
<1>1. CASE new = old
  BY <1>1 DEF Update
<1>2. CASE new # old
  <2>1. Update(q, old, new) = Append(q, new)
    BY <1>2 DEF Update
  <2>2. /\ Append(q, new) \in Seq(Lines) /\ Len(Append(q, new)) = Len(q) + 1
        /\ \A i \in 1..Len(q) : Append(q, new)[i] = q[i]
    BY AppendProperties
  <2> QED  BY <2>1, <2>2
<1> QED  BY <1>1, <1>2

LEMMA DriveExtends == ASSUME Types, NEW new \in Lines, Drive(new) PROVE Extends
BY LastSentType, UpdateKeeps DEF Drive, Types, Extends

LEMMA DriveTwoExtends ==
    ASSUME Types, NEW first \in Lines, NEW second \in Lines, DriveTwo(first, second)
    PROVE  Extends
<1> DEFINE q == Update(toPC, LastSent, first)
<1>1. toPC \in Seq(Lines) /\ LastSent \in Lines
  BY LastSentType DEF Types
<1>2. q \in Seq(Lines) /\ Len(q) \in Nat /\ Len(q) >= Len(toPC)
      /\ \A i \in 1..Len(toPC) : q[i] = toPC[i]
  BY <1>1, UpdateKeeps
<1>3. toPC' = Update(q, first, second)
  BY DEF DriveTwo
<1> HIDE DEF q
<1>4. toPC' \in Seq(Lines) /\ Len(toPC') \in Nat /\ Len(toPC') >= Len(q)
      /\ \A i \in 1..Len(q) : toPC'[i] = q[i]
  BY <1>2, <1>3, UpdateKeeps
<1>5. Len(toPC) \in Nat
  BY <1>1
<1> QED  BY <1>2, <1>4, <1>5 DEF Extends

\* The Amiga's updates come after those on their way.
LEMMA ServerExtends ==
    ASSUME WireInv, srv_interrupt \/ drv_handle_rx
    PROVE  Extends /\ UNCHANGED <<busy, view, p_pc, toggle>>
<1>1. lines \in Lines /\ Types
  BY DEF WireInv, Types
<1>2. UNCHANGED toPC => Extends
  BY <1>1 DEF Types, Extends
<1>3. /\ Drive([lines EXCEPT !.pout = TRUE]) => Extends
      /\ Drive([lines EXCEPT !.sel = TRUE]) => Extends
      /\ \A b \in Bytes : Drive([lines EXCEPT !.dat = b]) => Extends
  BY <1>1, LinesFacts, DriveExtends
<1>4. \A b \in Bytes : Put(b) => Extends
  BY <1>1, LinesFacts, DriveTwoExtends DEF Put
<1>5. Release => Extends
  BY <1>1, LinesFacts, DriveTwoExtends DEF Release
<1>6. (TogglePOUT => Extends) /\ (CLEARREQUEST => Extends)
  BY <1>1, LinesFacts, DriveExtends DEF TogglePOUT, CLEARREQUEST
<1>7. SendSample \/ SendByte => Head(a_bytes) \in Bytes
  <2>1. SendSample \/ SendByte => a_bytes # <<>>
    BY DEF SendSample, SendByte, WireInv, ToSend
  <2> QED  BY <1>1, <2>1 DEF Types
<1>8. interrupt \/ EchoDropped \/ SendLine => Extends /\ UNCHANGED <<busy, view, p_pc, toggle>>
  BY <1>2 DEF interrupt, EchoDropped, SendLine, pcVars
<1>9. EchoRequest \/ SendNoLine => Extends /\ UNCHANGED <<busy, view, p_pc, toggle>>
  BY <1>2, <1>3, <1>6 DEF EchoRequest, SendNoLine, pcVars
<1>10. hwsend => Extends /\ UNCHANGED <<busy, view, p_pc, toggle>>
  <2>1. SendStart => Extends
    BY <1>3 DEF SendStart
  <2>2. SendSample => Extends
    BY <1>3, <1>7 DEF SendSample
  <2>3. SendByte => Extends
    BY <1>4, <1>7 DEF SendByte
  <2>4. SendDone => Extends
    BY <1>5 DEF SendDone, SendEnd
  <2>5. hwsend => UNCHANGED <<busy, view, p_pc, toggle>>
    BY DEF hwsend, SendStart, SendSample, SendByte, SendDone, SendEnd, pcVars
  <2> QED  BY <2>1, <2>2, <2>3, <2>4, <2>5 DEF hwsend
<1>11. RecvStart \/ hwrecv => Extends /\ UNCHANGED <<busy, view, p_pc, toggle>>
  <2>1. RecvStart => Extends
    BY <1>3 DEF RecvStart
  <2>2. RecvSample \/ RecvByte => Extends
    BY <1>6 DEF RecvSample, RecvByte
  <2>3. RecvDone \/ RecvRefuse => Extends
    BY <1>5 DEF RecvDone, RecvRefuse, RecvEnd
  <2>4. RecvStart \/ hwrecv => UNCHANGED <<busy, view, p_pc, toggle>>
    BY DEF hwrecv, RecvStart, RecvSample, RecvByte, RecvDone, RecvRefuse, RecvEnd, pcVars
  <2> QED  BY <2>1, <2>2, <2>3, <2>4 DEF hwrecv
<1> QED  BY <1>8, <1>9, <1>10, <1>11
         DEF srv_interrupt, drv_handle_rx, srv_par_send, srv_par_recv, srv_hwsend, srv_hwrecv

LEMMA KnownExtends ==
    ASSUME Types, BusyKnown, Carry, Extends, UNCHANGED <<busy, view, p_pc, toggle, status>>
    PROVE  BusyKnown'
<1> DEFINE m == Len(toPC') - Len(toPC)
           more == [i \in 1..m |-> busy]
<1>1. /\ toPC \in Seq(Lines) /\ toPC' \in Seq(Lines) /\ view \in Lines /\ busy \in BOOLEAN
      /\ Len(toPC) \in Nat /\ Len(toPC') \in Nat /\ Len(toPC') >= Len(toPC)
  BY DEF Types, Extends
<1>2. m \in Nat /\ Len(toPC') = Len(toPC) + m
  BY <1>1
<1>3. ctl' = ctl \o more
  BY <1>1 DEF Carry
<1>4. ctl \in Seq(BOOLEAN) /\ Len(ctl) = Len(toPC) + 1
  BY DEF BusyKnown, Ahead
<1>5. more \in Seq(BOOLEAN) /\ Len(more) = m /\ \A i \in 1..m : more[i] = busy
  BY <1>1, <1>2
<1> HIDE DEF m, more
<1>6. /\ ctl' \in Seq(BOOLEAN) /\ Len(ctl') = Len(ctl) + m
      /\ \A i \in 1..Len(ctl) : ctl'[i] = ctl[i]
      /\ \A i \in 1..m : ctl'[Len(ctl) + i] = busy
  <2>1. Len(ctl) \in Nat
    BY <1>4
  <2>2. ctl' \in Seq(BOOLEAN) /\ Len(ctl') = Len(ctl) + m
        /\ \A i \in 1..(Len(ctl) + m) :
              ctl'[i] = IF i <= Len(ctl) THEN ctl[i] ELSE more[i - Len(ctl)]
    BY <1>3, <1>4, <1>5, ConcatProperties
  <2>3. \A i \in 1..Len(ctl) : ctl'[i] = ctl[i]
    BY <1>2, <2>1, <2>2
  <2>4. \A i \in 1..m : ctl'[Len(ctl) + i] = busy
    <3> SUFFICES ASSUME NEW i \in 1..m PROVE ctl'[Len(ctl) + i] = busy
      OBVIOUS
    <3>1. /\ Len(ctl) + i \in 1..(Len(ctl) + m) /\ ~(Len(ctl) + i <= Len(ctl))
          /\ (Len(ctl) + i) - Len(ctl) = i
      BY <1>2, <2>1
    <3> QED  BY <1>5, <2>2, <3>1
  <2> QED  BY <2>2, <2>3, <2>4
<1>7. Ahead = Len(toPC) /\ Ahead' = Len(toPC) + m /\ Ahead \in Nat
  BY <1>1, <1>2 DEF Ahead
<1>8. \A i \in 0..Ahead : Seen'[i] = Seen[i]
  <2>1. /\ SeenOf(toPC, view)[0] = view /\ \A i \in 1..Len(toPC) : SeenOf(toPC, view)[i] = toPC[i]
        /\ SeenOf(toPC', view)[0] = view
        /\ \A i \in 1..Len(toPC') : SeenOf(toPC', view)[i] = toPC'[i]
    BY <1>1, SeenOfFacts
  <2>2. \A i \in 1..Len(toPC) : toPC'[i] = toPC[i]
    BY DEF Extends
  <2>3. \A i \in 0..Ahead : SeenOf(toPC', view)[i] = SeenOf(toPC, view)[i]
    BY <1>1, <1>7, <2>1, <2>2
  <2>4. view' = view
    OBVIOUS
  <2> QED  BY <2>3, <2>4 DEF Seen
<1>9. ASSUME NEW i \in 0..Ahead', NEW j \in 0..Ahead', i <= j, Answers(i)' PROVE ctl'[j + 1] = busy
  <2>1. CASE j <= Ahead
    <3>1. i \in 0..Ahead /\ j \in 0..Ahead /\ j + 1 \in 1..Len(ctl)
      BY <1>2, <1>4, <1>7, <1>9, <2>1
    <3>2. Answers(i)
      BY <1>8, <1>9, <3>1 DEF Answers
    <3> QED  BY <1>6, <1>9, <3>1, <3>2 DEF BusyKnown
  <2>2. CASE ~(j <= Ahead)
    <3>1. j - Ahead \in 1..m /\ Len(ctl) + (j - Ahead) = j + 1
      BY <1>2, <1>4, <1>7, <2>2
    <3> QED  BY <1>6, <3>1
  <2> QED  BY <2>1, <2>2
<1>10. Len(ctl') = Ahead' + 1
  BY <1>2, <1>4, <1>6, <1>7
<1>11. StatusRead'
  BY DEF BusyKnown, StatusRead
<1> QED  BY <1>6, <1>9, <1>10, <1>11 DEF BusyKnown

\* The PC reads one update.
LEMMA CarryRead ==
    ASSUME Types, BusyKnown, Carry, toPC # <<>>, view' = Head(toPC), toPC' = Tail(toPC)
    PROVE  /\ Ahead \in Nat /\ Ahead > 0 /\ Ahead' = Ahead - 1
           /\ \A i \in 0..Ahead' : Seen'[i] = Seen[i + 1]
           /\ ctl' \in Seq(BOOLEAN) /\ Len(ctl') = Ahead' + 1
           /\ \A i \in 0..Ahead' : i + 1 \in 0..Ahead /\ ctl'[i + 1] = ctl[i + 2]
<1>1. /\ Ahead \in Nat /\ Ahead > 0 /\ Ahead' = Ahead - 1
      /\ \A i \in 0..Ahead' : Seen'[i] = Seen[i + 1]
  BY ReadSeen
<1>2. ctl' = Tail(ctl)
  BY <1>1 DEF Carry, Ahead
<1>3. ctl \in Seq(BOOLEAN) /\ Len(ctl) = Ahead + 1
  BY DEF BusyKnown
<1>4. /\ ctl' \in Seq(BOOLEAN) /\ Len(ctl') = Len(ctl) - 1
      /\ \A k \in 1..Len(ctl') : ctl'[k] = ctl[k + 1]
  <2>1. ctl # <<>>
    BY <1>1, <1>3
  <2> QED  BY <1>2, <1>3, <2>1, HeadTailProperties
<1>5. \A i \in 0..Ahead' : i + 1 \in 0..Ahead /\ ctl'[i + 1] = ctl[i + 2]
  <2> SUFFICES ASSUME NEW i \in 0..Ahead'
               PROVE  i + 1 \in 0..Ahead /\ ctl'[i + 1] = ctl[i + 2]
    OBVIOUS
  <2>1. i + 1 \in 0..Ahead /\ i + 1 \in 1..Len(ctl') /\ (i + 1) + 1 = i + 2
    BY <1>1, <1>3, <1>4
  <2> QED  BY <1>4, <2>1
<1>6. Len(ctl') = Ahead' + 1
  BY <1>1, <1>3, <1>4
<1> QED  BY <1>1, <1>4, <1>5, <1>6

LEMMA KnownRead ==
    ASSUME Types, BusyKnown, Carry, toPC # <<>>, view' = Head(toPC), toPC' = Tail(toPC),
           UNCHANGED <<busy, p_pc, toggle>>, StatusRead'
    PROVE  BusyKnown'
<1>1. /\ Ahead \in Nat /\ Ahead > 0 /\ Ahead' = Ahead - 1
      /\ \A i \in 0..Ahead' : Seen'[i] = Seen[i + 1]
      /\ ctl' \in Seq(BOOLEAN) /\ Len(ctl') = Ahead' + 1
      /\ \A i \in 0..Ahead' : i + 1 \in 0..Ahead /\ ctl'[i + 1] = ctl[i + 2]
  BY CarryRead
<1>2. ASSUME NEW i \in 0..Ahead', NEW j \in 0..Ahead', i <= j, Answers(i)'
      PROVE  ctl'[j + 1] = busy
  <2>1. i + 1 \in 0..Ahead /\ j + 1 \in 0..Ahead /\ i + 1 <= j + 1 /\ (j + 1) + 1 = j + 2
    BY <1>1, <1>2
  <2>2. Answers(i + 1)
    BY <1>1, <1>2 DEF Answers
  <2>3. ctl[(j + 1) + 1] = busy
    BY <2>1, <2>2 DEF BusyKnown
  <2> QED  BY <1>1, <2>1, <2>3
<1> QED  BY <1>1, <1>2 DEF BusyKnown

\* It looks at what it has, and goes on.
LEMMA KnownStays ==
    ASSUME Types, BusyKnown, Rides, UNCHANGED <<view, toPC>>, p_pc' # p_pc,
           \A i, j \in 0..Ahead : i <= j /\ Answers(i)' => ctl[j + 1] = busy'
    PROVE  BusyKnown'
<1>1. Ahead' = Ahead /\ Ahead \in Nat /\ Len(toPC') = Len(toPC) /\ Len(toPC) \in Nat
  BY SeenFacts, KeepSeen DEF Types
<1>2. ctl' = ctl
  <2>1. ctl' = ctl \o [i \in 1..(Len(toPC') - Len(toPC)) |-> busy]
    BY <1>1 DEF Rides, Carry
  <2>2. [i \in 1..(Len(toPC') - Len(toPC)) |-> busy] = <<>>
    BY <1>1
  <2>3. ctl \in Seq(BOOLEAN)
    BY DEF BusyKnown
  <2> QED  BY <2>1, <2>2, <2>3, ConcatEmptySeq
<1>3. StatusRead'
  BY DEF Rides, StatusRead
<1> QED  BY <1>1, <1>2, <1>3 DEF BusyKnown

\* When the PC sees that it has its answer, all it can read has the state of BUSY.
LEMMA KnownAll ==
    ASSUME Types, BusyKnown, Answers(0)
    PROVE  \A j \in 0..Ahead : ctl[j + 1] = busy
<1>1. Ahead \in Nat
  BY SeenFacts
<1>2. \A j \in 0..Ahead : 0 \in 0..Ahead /\ 0 <= j
  BY <1>1
<1> QED  BY <1>2 DEF BusyKnown

LEMMA KnownStep ==
    ASSUME Peaceful, Starter = "pc", WireInv, WireInv', EchoPhase, Steps, Rides,
           timeouts = 0, timeouts' = 0
    PROVE  BusyKnown'
<1>1. /\ Types /\ Types' /\ Phase /\ BusyKnown /\ Carry /\ Ahead \in Nat /\ Seen[0] = view
      /\ busy \in BOOLEAN /\ toggle \in BOOLEAN /\ 0 \in 0..Ahead
      /\ \A i \in 0..Ahead : Seen[i].pout \in BOOLEAN
  <2>1. Types /\ Types' /\ Phase /\ BusyKnown /\ Carry
    BY DEF EchoPhase, WireInv, Rides
  <2>2. Ahead \in Nat /\ Seen[0] = view /\ \A i \in 0..Ahead : Seen[i] \in Lines
    BY <2>1, SeenFacts
  <2>3. \A i \in 0..Ahead : Seen[i].pout \in BOOLEAN
    BY <2>2, LinesFacts
  <2>4. busy \in BOOLEAN /\ toggle \in BOOLEAN
    BY <2>1 DEF Types
  <2>5. 0 \in 0..Ahead
    BY <2>2
  <2> QED  BY <2>1, <2>2, <2>3, <2>4, <2>5
<1>2. CASE srv_interrupt \/ drv_handle_rx
  <2>1. Extends /\ UNCHANGED <<busy, view, p_pc, toggle>>
    BY <1>2, ServerExtends
  <2>2. status' = status
    BY <2>1 DEF Rides
  <2> QED  BY <1>1, <2>1, <2>2, KnownExtends
<1>3. CASE PcRead
  <2>1. /\ view' = Head(toPC) /\ toPC' = Tail(toPC) /\ toPC # <<>>
        /\ UNCHANGED <<busy, p_pc, toggle>>
    BY <1>3 DEF PcRead, logs
  <2>2. StatusRead'
    BY <1>1, <2>1 DEF Rides, StatusRead, BusyKnown
  <2> QED  BY <1>1, <2>1, <2>2, KnownRead
<1>4. CASE PcSend \/ PcMagic \/ PcAck
  <2>1. /\ UNCHANGED <<view, toPC, toggle>> /\ p_pc' # p_pc
        /\ p_pc' \in {"tx_magic", "tx_ack", "tx_select"}
        /\ p_pc \in {"idle", "tx_magic", "tx_ack"}
        /\ PcMagic \/ PcAck => busy' = busy /\ p_pc \in {"tx_magic", "tx_ack"}
    BY <1>4 DEF PcSend, PcMagic, PcAck
  <2>2. Ahead' = Ahead /\ Seen' = Seen
    BY <2>1, KeepSeen
  <2>3. CASE PcSend
    <3>1. p_pc = "idle" /\ ~AmigaOpen
      BY <2>3, NoTurn, PcGuards
    <3>2. Rest
      BY <1>1, <3>1 DEF Phase, Calling, Selecting, ToAmiga, Selected, Answered, Offering, Offered,
                        AllPut, Refusal, Stopped, PcSentAll, Waking, ToPC, BytePut, ByteRead,
                        ByteTaken, AmigaSentAll
    <3>3. \A i \in 0..Ahead : i = 0
      BY <3>2 DEF Rest
    <3>4. \A i \in 0..Ahead : ~Answers(i)'
      BY <1>1, <2>1, <2>2, <3>2, <3>3 DEF Answers, Rest, Down
    <3> QED  BY <1>1, <2>1, <3>4, KnownStays
  <2>4. CASE PcMagic \/ PcAck
    <3>1. \A i \in 0..Ahead : Answers(i)' => Answers(i)
      BY <2>1, <2>2, <2>4 DEF Answers
    <3>2. \A i, j \in 0..Ahead : i <= j /\ Answers(i)' => ctl[j + 1] = busy'
      BY <1>1, <2>1, <2>4, <3>1 DEF BusyKnown
    <3> QED  BY <1>1, <2>1, <3>2, KnownStays
  <2> QED  BY <1>4, <2>3, <2>4
<1>5. ASSUME Answers(0), UNCHANGED <<busy, view, toPC>>, p_pc' # p_pc PROVE BusyKnown'
  <2>1. \A i, j \in 0..Ahead : i <= j /\ Answers(i)' => ctl[j + 1] = busy'
    BY <1>1, <1>5, KnownAll
  <2> QED  BY <1>1, <1>5, <2>1, KnownStays
<1>6. CASE PcSelected
  <2>1. p_pc = "tx_select" /\ view.sel /\ p_pc' # p_pc /\ UNCHANGED <<busy, view, toPC>>
    BY <1>6 DEF PcSelected
  <2>2. Answers(0)
    BY <1>1, <2>1 DEF Answers
  <2> QED  BY <1>5, <2>1, <2>2
<1>7. CASE PcPutByte
  <2>1. p_pc = "tx" /\ view.pout = toggle /\ p_pc' # p_pc /\ UNCHANGED <<busy, view, toPC>>
    BY <1>7 DEF PcPutByte, PcToggled
  <2>2. Answers(0)
    BY <1>1, <2>1 DEF Answers
  <2> QED  BY <1>5, <2>1, <2>2
<1>8. CASE BoxPutByte
  <2>1. p_pc = "tx_busy" /\ p_pc' = "tx" /\ toggle' = ~toggle /\ UNCHANGED <<view, toPC>>
    BY <1>8 DEF BoxPutByte
  <2>2. \A i \in 0..Ahead : Seen[i].pout = toggle
    <3>1. (Ahead = 0 /\ view.pout = toggle) \/ (~toggle /\ Silent)
      BY <1>1, <2>1 DEF Phase, Rest, Calling, Selecting, ToAmiga, Selected, Answered, Offering,
                        Offered, AllPut, Refusal, Stopped, PcSentAll, Waking, ToPC, BytePut,
                        ByteRead, ByteTaken, AmigaSentAll
    <3>2. Ahead = 0 => \A i \in 0..Ahead : i = 0
      OBVIOUS
    <3> QED  BY <1>1, <3>1, <3>2 DEF Silent
  <2>3. \A i \in 0..Ahead : ~Answers(i)'
    BY <1>1, <2>1, <2>2, KeepSeen DEF Answers
  <2> QED  BY <1>1, <2>1, <2>3, KnownStays
<1>9. CASE PcSendLost \/ PcRecvFail
  <2>1. p_pc' = "stopped" /\ p_pc # "stopped" /\ UNCHANGED <<view, toPC>>
    BY <1>9 DEF PcSendLost, PcRecvFail, PcFail, Failed, Peaceful
  <2>2. \A i \in 0..Ahead : ~Answers(i)'
    BY <2>1 DEF Answers
  <2> QED  BY <1>1, <2>1, <2>2, KnownStays
<1>10. CASE PcFinal
  <2>1. /\ p_pc = "tx" /\ p_bytes = <<>> /\ p_pc' # p_pc /\ UNCHANGED <<busy, view, toPC>>
        /\ PcToggled \/ PcLost
    BY <1>10 DEF PcFinal
  <2>2. ~PcLost
    <3> SUFFICES ASSUME PcLost PROVE FALSE
      OBVIOUS
    <3>1. view.pout # toggle /\ ~view.sel
      BY DEF PcLost, PcToggled
    <3>2. Len(p_bytes) = 0
      BY <2>1
    <3>3. ~Refusal
      BY <2>1, <3>2 DEF Refusal
    <3>4. ~Answered /\ ~Offered
      BY <1>1, <3>1 DEF Answered, AllSelected, Offered
    <3>5. PcSentAll
      BY <1>1, <2>1, <3>3, <3>4
         DEF Phase, Rest, Calling, Selecting, ToAmiga, Selected, Offering, AllPut, Stopped, Waking,
             ToPC, BytePut, ByteRead, ByteTaken, AmigaSentAll
    <3>6. PICK f \in 0..Ahead : /\ StillSelected(f)
                                /\ \E g \in 0..(f - 1) : Seen[g].pout = toggle
      BY <2>1, <3>5 DEF PcSentAll
    <3>7. f \in Nat /\ 0 \in 0..(f - 1)
      BY <1>1, <3>6
    <3> QED  BY <1>1, <3>1, <3>6, <3>7 DEF StillSelected
  <2>3. Answers(0)
    BY <1>1, <2>1, <2>2 DEF Answers, PcToggled
  <2> QED  BY <1>5, <2>1, <2>3
<1>11. CASE BoxSent \/ BoxReceived
  <2>1. /\ p_pc \in {"tx_unselect", "recv_unselect"} /\ ~view.sel /\ p_pc' # p_pc
        /\ UNCHANGED <<busy, view, toPC>>
    BY <1>11 DEF BoxSent, BoxReceived, Unselected
  <2>2. Answers(0)
    BY <1>1, <2>1 DEF Answers
  <2> QED  BY <1>5, <2>1, <2>2
<1>12. CASE PcRecv
  <2>1. p_pc = "idle" /\ p_pc' # p_pc /\ UNCHANGED <<busy, view, toPC>>
    BY <1>12 DEF PcRecv
  <2>2. Answers(0)
    BY <2>1 DEF Answers
  <2> QED  BY <1>5, <2>1, <2>2
<1>13. CASE PcGetByte
  <2>1. /\ p_pc = "recv" /\ view.pout = toggle /\ p_pc' = "recv_busy" /\ busy' = busy
        /\ IF toPC = <<>> THEN UNCHANGED <<view, toPC>>
           ELSE view' = Head(toPC) /\ toPC' = Tail(toPC)
    BY <1>13 DEF PcGetByte, PcToggled
  <2>2. Answers(0)
    BY <1>1, <2>1 DEF Answers
  <2>3. \A j \in 0..Ahead : ctl[j + 1] = busy
    BY <1>1, <2>2, KnownAll
  <2>4. CASE toPC # <<>>
    <3>1. /\ Ahead' = Ahead - 1
          /\ ctl' \in Seq(BOOLEAN) /\ Len(ctl') = Ahead' + 1
          /\ \A i \in 0..Ahead' : i + 1 \in 0..Ahead /\ ctl'[i + 1] = ctl[i + 2]
      BY <1>1, <2>1, <2>4, CarryRead
    <3>2. ASSUME NEW j \in 0..Ahead' PROVE ctl'[j + 1] = busy'
      <4>1. j + 1 \in 0..Ahead /\ ctl'[j + 1] = ctl[j + 2] /\ (j + 1) + 1 = j + 2
        BY <1>1, <3>1
      <4> QED  BY <2>1, <2>3, <4>1
    <3>3. StatusRead'
      BY <2>1 DEF Rides, StatusRead
    <3> QED  BY <3>1, <3>2, <3>3 DEF BusyKnown
  <2>5. CASE toPC = <<>>
    BY <1>5, <2>1, <2>2, <2>5
  <2> QED  BY <2>4, <2>5
<1>14. CASE BoxGetByte
  <2>1. /\ p_pc = "recv_busy" /\ p_pc' \in {"recv", "recv_unselect"} /\ toggle' = ~toggle
        /\ UNCHANGED <<view, toPC>>
    BY <1>14 DEF BoxGetByte
  <2>2. ToPC /\ ByteRead
    BY <1>1, <2>1 DEF Phase, Rest, Calling, Selecting, ToAmiga, Selected, Answered, Offering,
                      Offered, AllPut, Refusal, Stopped, PcSentAll, Waking, ToPC, BytePut,
                      ByteTaken, AmigaSentAll
  <2>3. Ahead = 0 /\ view.pout = toggle /\ view.sel
    BY <1>1, <2>2 DEF ByteRead, ToPC, AllSelected
  <2>4. \A i \in 0..Ahead : i = 0
    BY <2>3
  <2>5. \A i \in 0..Ahead : ~Answers(i)'
    BY <1>1, <2>1, <2>3, <2>4, KeepSeen DEF Answers
  <2> QED  BY <1>1, <2>1, <2>5, KnownStays
<1>15. CASE BoxNoReply
  <2>1. p_pc' = "stopped" /\ p_pc = "idle" /\ UNCHANGED <<view, toPC>>
    BY <1>15 DEF BoxNoReply
  <2>2. \A i \in 0..Ahead : ~Answers(i)'
    BY <2>1 DEF Answers
  <2> QED  BY <1>1, <2>1, <2>2, KnownStays
<1>16. ~Timeout
  <2>1. Timeout => timeouts' = timeouts + 1
    BY DEF Timeout, SendTimeout, RecvTimeout, PcNoSelect
  <2> QED  BY <2>1
<1> QED  BY <1>2, <1>3, <1>4, <1>6, <1>7, <1>8, <1>9, <1>10, <1>11, <1>12, <1>13, <1>14, <1>15,
            <1>16 DEF Steps, pysockbox, box_send, box_recv

\* What toggle_busy reads is the state of BUSY, whether there was an update or not.
LEMMA StatusStep ==
    ASSUME Peaceful, WireInv, EchoPhase, get_status, Carry
    PROVE  WireInv' /\ EchoPhase'
<1>1. /\ Types /\ Phase /\ BusyKnown /\ Echoed /\ Even /\ Ahead \in Nat /\ Seen[0] = view
      /\ busy \in BOOLEAN /\ (toPC = <<>> <=> Ahead = 0) /\ \A i \in 0..Ahead : Seen[i] \in Lines
  BY SeenFacts DEF EchoPhase, WireInv, Types
<1>2. /\ p_pc \in {"tx_busy", "recv_busy"}
      /\ UNCHANGED <<busy, lines, flg, inten, s_Flags, sig, a_pc, a_bytes, d7, p_pc, p_bytes,
                     toggle, timeouts, offered, sent, rcvd>>
      /\ UNCHANGED logs
      /\ IF toPC = <<>> THEN UNCHANGED <<view, toPC>>
         ELSE view' = Head(toPC) /\ toPC' = Tail(toPC)
      /\ status' = IF ctl[IF toPC = <<>> THEN 1 ELSE 2] THEN "busy" ELSE "clear"
  BY DEF get_status, amigaVars, flagVars, logs
<1>3. Answers(0)
  BY <1>2 DEF Answers
<1>4. ctl[IF toPC = <<>> THEN 1 ELSE 2] = busy
  <2>1. \A j \in 0..Ahead : ctl[j + 1] = busy
    BY <1>1, <1>3, KnownAll
  <2>2. CASE toPC = <<>>
    <3>1. 0 \in 0..Ahead /\ 0 + 1 = 1
      BY <1>1
    <3> QED  BY <2>1, <2>2, <3>1
  <2>3. CASE toPC # <<>>
    <3>1. 1 \in 0..Ahead /\ 1 + 1 = 2
      BY <1>1, <2>3
    <3> QED  BY <2>1, <2>3, <3>1
  <2> QED  BY <2>2, <2>3
<1>5. StatusRead'
  BY <1>1, <1>2, <1>4 DEF StatusRead
<1>6. CASE toPC = <<>>
  <2>1. UNCHANGED <<vars>>
    BY <1>2, <1>6 DEF vars, amigaVars, flagVars, pcVars, logs
  <2>2. WireInv' /\ Phase' /\ Echoed' /\ Even'
    BY <1>1, <2>1, WireStutter
  <2>3. Ahead' = Ahead /\ Seen' = Seen
    BY <1>2, <1>6, KeepSeen
  <2>4. ctl' = ctl
    <3>1. Len(toPC') = Len(toPC) /\ Len(toPC) \in Nat
      BY <1>2, <1>6
    <3>2. ctl' = ctl \o [i \in 1..(Len(toPC') - Len(toPC)) |-> busy]
      BY <3>1 DEF Carry
    <3>3. [i \in 1..(Len(toPC') - Len(toPC)) |-> busy] = <<>>
      BY <3>1
    <3> QED  BY <1>1, <3>2, <3>3, ConcatEmptySeq DEF BusyKnown
  <2>5. \A i : Answers(i)' <=> Answers(i)
    BY <1>2, <2>3 DEF Answers
  <2>6. BusyKnown'
    BY <1>1, <1>2, <1>5, <2>3, <2>4, <2>5 DEF BusyKnown
  <2> QED  BY <2>2, <2>6 DEF EchoPhase
<1>7. CASE toPC # <<>>
  <2>1. /\ view' = Head(toPC) /\ toPC' = Tail(toPC)
        /\ Ahead > 0 /\ Ahead' = Ahead - 1 /\ \A i \in 0..Ahead' : Seen'[i] = Seen[i + 1]
    BY <1>1, <1>2, <1>7, ReadSeen
  <2>2. /\ a_pc = "idle" /\ Calm /\ PcOpen /\ busy = toggle
        /\ p_pc = "tx_busy" /\ ~toggle /\ Len(p_bytes) >= 1 /\ Silent
    BY <1>1, <1>2, <2>1
       DEF Phase, Rest, Calling, Selecting, ToAmiga, Selected, Answered, Offering, Offered, AllPut,
           Refusal, Stopped, PcSentAll, Waking, ToPC, BytePut, ByteRead, ByteTaken, AmigaSentAll
  <2>3. Silent'
    <3>1. \A i \in 0..Ahead' : i + 1 \in 0..Ahead
      BY <1>1, <2>1
    <3> QED  BY <2>1, <2>2, <3>1 DEF Silent
  <2>4. PcOpen'
    BY <1>2, <2>2, SameOpen
  <2>5. Refusal'
    BY <1>2, <2>2, <2>3, <2>4 DEF Refusal, Calm
  <2>6. Echoed' /\ Even'
    <3>1. Echoed' /\ (Arriving("amiga")' <=> Arriving("amiga")) /\ Out("amiga")' = Out("amiga")
      BY <1>1, <1>2 DEF Echoed, Arriving, Out
    <3>2. ~Rest'
      BY <1>2 DEF Rest
    <3> QED  BY <1>1, <3>1, <3>2 DEF Even
  <2>7. WireInv'
    <3>1. toPC \in Seq(Lines)
      BY <1>1 DEF Types
    <3>2. view' \in Lines /\ toPC' \in Seq(Lines)
      BY <1>7, <2>1, <3>1
    <3>3. Types'
      BY <1>1, <1>2, <3>2 DEF Types
    <3>4. Sendable' /\ ToSend' /\ SizeChecked' /\ Signals'
      BY <1>2 DEF WireInv, Sendable, ToSend, SizeChecked, Signals, RxSignalled
    <3> QED  BY <3>3, <3>4 DEF WireInv
  <2>8. BusyKnown'
    BY <1>1, <1>2, <1>5, <1>7, <2>1, KnownRead
  <2> QED  BY <2>5, <2>6, <2>7, <2>8 DEF EchoPhase, Phase
<1> QED  BY <1>6, <1>7

-----------------------------------------------------------------------------
(* The invariant.                                                          *)

LEMMA EchoMoves ==
    ASSUME Peaceful, Starter = "pc", WireInv, EchoPhase, Steps, timeouts = 0, timeouts' = 0
    PROVE  \/ Going /\ ~EchoDropped
           \/ busy /\ PcSentAll /\ (EchoDropped \/ BoxSent)
<1>1. Phase /\ Echoed
  BY DEF EchoPhase
<1>2. ~Timeout
  <2>1. Timeout => timeouts' = timeouts + 1
    BY DEF Timeout, SendTimeout, RecvTimeout, PcNoSelect
  <2> QED  BY <2>1
<1>3. EchoRequest => Going
  BY <1>1, EchoRequestIs DEF Going
<1>4. EchoDropped => busy /\ PcSentAll
  <2> SUFFICES ASSUME EchoDropped PROVE busy /\ PcSentAll
    OBVIOUS
  <2>1. a_pc = "idle" /\ EchoDue /\ busy
    BY DEF EchoDropped, LineFree
  <2>2. PcSentAll \/ Rest
    BY <1>1, <2>1, EchoDueWhen
  <2> QED  BY <2>1, <2>2 DEF Rest
<1>5. drv_handle_rx => Going \/ EchoDropped
  BY <1>3 DEF drv_handle_rx, srv_par_send, srv_par_recv, srv_hwsend, srv_hwrecv, Going, AmigaGoes
<1>6. pysockbox => Going \/ (BoxSent /\ busy /\ PcSentAll)
  BY BoxMoves DEF Going
<1> QED  BY <1>2, <1>4, <1>5, <1>6 DEF Steps, srv_interrupt, Going

\* Every echo is offered, or due.
LEMMA EchoedStep ==
    ASSUME Peaceful, Starter = "pc", WireInv, WireInv', EchoPhase, Steps, ~EchoDropped
    PROVE  Echoed'
<1>1. Types /\ Types' /\ Phase /\ Echoed
  BY DEF EchoPhase, WireInv
<1>2. CASE EchoRequest
  BY <1>1, <1>2, EchoRequestIs DEF Echoed
<1>3. CASE PcSend
  <2>1. p_pc = "idle" /\ MaySend("pc")
    BY <1>3, PcGuards
  <2>2. Rest \/ Waking
    BY <1>1, <2>1 DEF Phase, Calling, Selecting, ToAmiga, Selected, Answered, Offering, Offered,
                      AllPut, Refusal, Stopped, PcSentAll, ToPC, BytePut, ByteRead, ByteTaken,
                      AmigaSentAll
  <2>3. Quiet
    BY <1>3, <2>2, NoTurn DEF Rest, Waking
  <2>4. Due("pc")
    BY <1>1, <2>1, <2>3, MaySendFacts, OtherSide DEF Quiet, Peaceful
  <2>5. offered["pc"] = offered["amiga"]
    BY <1>1, <2>4, BoxFirst
  <2>6. /\ offered'["amiga"] = offered["amiga"]
        /\ \E p : offered'["pc"] = Append(offered["pc"], p) /\ p \in Seq(Bytes)
    <3>1. PICK n \in PcSizes : offered' = [offered EXCEPT !["pc"] = Append(@, Payload("pc", n))]
      BY <1>3 DEF PcSend
    <3>2. n \in 1..MaxSize /\ "pc" \in Sides
      BY WireAssumption, OtherSide
    <3>3. Payload("pc", n) \in Seq(Bytes)
      BY <1>1, <3>2, PayloadType, PacketLen
    <3>4. offered \in [{"amiga", "pc"} -> Seq(Seq(Bytes))]
      BY <1>1, OtherSide DEF Types, Logs
    <3> QED  BY <3>1, <3>3, <3>4
  <2>7. Grown(offered'["pc"], offered["pc"])
    BY <1>1, <2>6, LogLens, GrownAppend, OtherSide
  <2> QED  BY <2>5, <2>6, <2>7 DEF Echoed
<1>4. CASE offered' = offered
  BY <1>1, <1>4 DEF Echoed
<1> QED  BY <1>1, <1>2, <1>3, <1>4, EchoFrame

LEMMA EvenStep ==
    ASSUME Peaceful, Starter = "pc", WireInv, WireInv', EchoPhase, Steps, ~EchoDropped
    PROVE  Even'
<1>1. Types /\ Types' /\ Phase /\ Echoed /\ Even
  BY DEF EchoPhase, WireInv
<1>2. /\ "amiga" \in Sides /\ "pc" \in Sides /\ Other("amiga") = "pc"
      /\ offered'["amiga"] \in Seq(Seq(Bytes)) /\ rcvd'["pc"] \in Seq(Seq(Bytes))
      /\ Ahead \in Nat /\ Seen[0] = view
  BY <1>1, OtherSide, SeenFacts DEF Types, Logs
<1>3. ASSUME Arriving("amiga")' PROVE ~Odd(Len(Out("amiga")'))
  <2>1. CASE EchoRequest
    <3>1. offered'["amiga"] = offered["pc"] /\ ~busy /\ Due("amiga") /\ (PcSentAll \/ Rest)
      BY <1>1, <2>1, EchoRequestIs
    <3>2. ~Odd(Len(Out("pc")))
      BY <1>1, <3>1 DEF PcSentAll, Even
    <3> QED  BY <3>1, <3>2 DEF Out
  <2>2. CASE ~EchoRequest
    <3>1. offered'["amiga"] = offered["amiga"]
      <4>1. PcSend => offered'["amiga"] = offered["amiga"]
        BY <1>1, OtherSide DEF PcSend, Types, Logs
      <4> QED  BY <1>1, <2>2, <4>1, EchoFrame
    <3>2. Arriving("amiga")
      <4> SUFFICES ASSUME ~Arriving("amiga") PROVE FALSE
        OBVIOUS
      <4>1. rcvd["pc"] = offered["amiga"]
        BY <1>1, <1>2, PhasePackets DEF Delivered
      <4>2. ~BoxReceived
        <5>1. BoxReceived => p_pc = "recv_unselect"
          BY DEF BoxReceived
        <5>2. p_pc = "recv_unselect" => ToPC \/ AmigaSentAll
          BY <1>1 DEF Phase, Rest, Calling, Selecting, ToAmiga, Selected, Answered, Offering,
                      Offered, AllPut, Refusal, Stopped, PcSentAll, Waking
        <5> QED  BY <5>1, <5>2 DEF ToPC, AmigaSentAll, AmigaOpen, AmigaTaken
      <4>3. rcvd'["pc"] = offered'["amiga"]
        BY <1>1, <3>1, <4>1, <4>2, EchoFrame
      <4>4. Len(offered'["amiga"]) = Len(rcvd'["pc"]) + 1
        BY <1>2, <1>3, GrownFacts DEF Arriving
      <4>5. Len(rcvd'["pc"]) \in Nat
        BY <1>2
      <4> QED  BY <4>3, <4>4, <4>5
    <3> QED  BY <1>1, <3>1, <3>2 DEF Even, Out
  <2> QED  BY <2>1, <2>2
<1>4. ASSUME Rest', Due("amiga")' PROVE ~Odd(Len(Out("pc")'))
  <2>1. a_pc' = "idle" /\ p_pc' = "idle" /\ ~busy'
    BY <1>4 DEF Rest
  <2>2. offered' = offered
    <3>1. ~EchoRequest /\ ~PcSend
      BY <2>1 DEF EchoRequest, PcSend
    <3> QED  BY <1>1, <3>1, EchoFrame
  <2>3. Due("amiga") /\ ~Due("pc")
    <3>1. Due("amiga")
      BY <1>4, <2>2 DEF Due
    <3> QED  BY <1>1, <3>1, DueFacts
  <2>4. Rest \/ (PcSentAll /\ ~busy)
    <3>1. CASE p_pc = "idle"
      <4>1. ~Waking
        BY <2>3 DEF Waking, AmigaOpen
      <4> QED  BY <1>1, <3>1, <4>1
               DEF Phase, Calling, Selecting, ToAmiga, Selected, Answered, Offering, Offered,
                   AllPut, Refusal, Stopped, PcSentAll, ToPC, BytePut, ByteRead, ByteTaken,
                   AmigaSentAll
    <3>2. CASE BoxSent
      <4>1. p_pc = "tx_unselect" /\ ~view.sel /\ busy' = busy
        BY <3>2 DEF BoxSent, Unselected
      <4>2. ~AllPut
        BY <1>2, <4>1 DEF AllPut, AllSelected
      <4>3. PcSentAll
        BY <1>1, <4>1, <4>2
           DEF Phase, Rest, Calling, Selecting, ToAmiga, Selected, Answered, Offering, Offered,
               Refusal, Stopped, Waking, ToPC, BytePut, ByteRead, ByteTaken, AmigaSentAll
      <4> QED  BY <2>1, <4>1, <4>3
    <3>3. CASE BoxReceived
      <4>1. p_pc = "recv_unselect"
        BY <3>3 DEF BoxReceived
      <4>2. ToPC \/ AmigaSentAll
        BY <1>1, <4>1 DEF Phase, Rest, Calling, Selecting, ToAmiga, Selected, Answered, Offering,
                          Offered, AllPut, Refusal, Stopped, PcSentAll, Waking
      <4> QED  BY <2>3, <4>2 DEF ToPC, AmigaSentAll, AmigaOpen, AmigaTaken
    <3> QED  BY <1>1, <2>1, <3>1, <3>2, <3>3, EchoFrame
  <2> QED  BY <1>1, <2>2, <2>3, <2>4 DEF Even, PcSentAll, Out
<1> QED  BY <1>3, <1>4 DEF Even

LEMMA EchoStep ==
    ASSUME Peaceful, Starter = "pc", WireInv, EchoPhase \/ Jammed, EchoNext,
           timeouts = 0, timeouts' = 0
    PROVE  WireInv' /\ (EchoPhase' \/ Jammed')
<1>1. CASE Jammed
  <2>1. ~get_status
    BY <1>1 DEF get_status, Jammed
  <2> QED  BY <1>1, <2>1, JammedStep DEF EchoNext
<1>2. CASE EchoPhase /\ Steps /\ Rides /\ Going /\ ~EchoDropped
  <2>1. WireInv'
    BY <1>2, GoingWireInv
  <2>2. Phase'
    BY <1>2, <2>1, PhaseStep DEF EchoPhase
  <2>3. Echoed' /\ Even' /\ BusyKnown'
    BY <1>2, <2>1, EchoedStep, EvenStep, KnownStep
  <2> QED  BY <2>1, <2>2, <2>3 DEF EchoPhase
<1>3. CASE EchoPhase /\ busy /\ PcSentAll /\ (EchoDropped \/ BoxSent)
  BY <1>3, JamStep DEF EchoPhase
<1>4. CASE EchoPhase /\ get_status /\ Carry
  BY <1>4, StatusStep
<1> QED  BY <1>1, <1>2, <1>3, <1>4, EchoMoves DEF EchoNext

LEMMA EchoStutter ==
    ASSUME WireInv, EchoPhase \/ Jammed, UNCHANGED evars
    PROVE  WireInv' /\ (EchoPhase' \/ Jammed')
<1>1. /\ UNCHANGED <<busy, lines, toPC, view, flg, sig, a_pc, a_bytes, d7, p_pc, p_bytes, toggle>>
      /\ UNCHANGED <<offered, sent, rcvd, ctl, status>> /\ UNCHANGED vars
  BY DEF evars, vars, amigaVars, flagVars, pcVars, logs
<1>2. Ahead' = Ahead /\ Seen' = Seen /\ LastSent' = LastSent
  BY <1>1, KeepSeen
<1>3. BusyKnown => BusyKnown'
  <2>1. (\A i : Answers(i)' <=> Answers(i)) /\ (StatusRead' <=> StatusRead)
    BY <1>1, <1>2 DEF Answers, StatusRead
  <2> QED  BY <1>1, <1>2, <2>1 DEF BusyKnown
<1>4. EchoPhase => EchoPhase'
  BY <1>1, <1>3, WireStutter DEF EchoPhase
<1>5. \A f : Begun(f) /\ StillSelected(f) => Begun(f)' /\ StillSelected(f)'
  <2>1. Out("amiga")' = Out("amiga")
    BY <1>1 DEF Out
  <2> QED  BY <1>1, <1>2, <2>1 DEF Begun, Started, StillSelected
<1>6. Jammed => Jammed'
  BY <1>1, <1>2, <1>5 DEF Jammed, Calm, Delivered
<1> QED  BY <1>1, <1>4, <1>6, StepWireInv

EchoInv == timeouts \in Nat /\ (timeouts = 0 => WireInv /\ (EchoPhase \/ Jammed))

LEMMA InitEcho == ASSUME Starter = "pc", EchoInit PROVE EchoInv
<1>1. WireInv /\ Phase /\ timeouts = 0
  BY InitWireInv, InitPhase DEF EchoInit, Init
<1>2. offered["pc"] = <<>> /\ offered["amiga"] = <<>>
  BY OtherSide DEF EchoInit, Init
<1>3. ~Arriving("amiga")
  BY <1>2 DEF Arriving, Grown
<1>4. ~Due("amiga")
  <2>1. Due("amiga") <=> Len(offered["pc"]) = Len(offered["amiga"]) + 1
    BY <1>1, BoxFirst
  <2> QED  BY <1>2, <2>1
<1>5. BusyKnown
  <2>1. /\ toPC = <<>> /\ busy = FALSE /\ ctl = <<FALSE>> /\ status = "unread"
    BY DEF EchoInit, Init
  <2>2. ctl \in Seq(BOOLEAN) /\ Len(ctl) = 1 /\ ctl[1] = FALSE
    BY <2>1
  <2>3. Ahead = 0
    BY <2>1 DEF Ahead
  <2>4. \A j \in 0..Ahead : j + 1 = 1
    BY <2>3
  <2>5. \A j \in 0..Ahead : ctl[j + 1] = busy
    BY <2>1, <2>2, <2>4
  <2>6. Len(ctl) = Ahead + 1
    BY <2>2, <2>3
  <2>7. StatusRead
    BY <2>1 DEF StatusRead
  <2> QED  BY <2>2, <2>5, <2>6, <2>7 DEF BusyKnown
<1> QED  BY <1>1, <1>2, <1>3, <1>4, <1>5 DEF EchoInv, EchoPhase, Echoed, Even

\* What the PC receives is a prefix of what it sent.
LEMMA EchoesArePackets ==
    ASSUME Starter = "pc", WireInv, EchoPhase \/ Jammed
    PROVE  IsPrefix(rcvd["pc"], offered["pc"])
<1>1. /\ offered["pc"] \in Seq(Seq(Bytes)) /\ offered["amiga"] \in Seq(Seq(Bytes))
      /\ rcvd["pc"] \in Seq(Seq(Bytes)) /\ Other("amiga") = "pc"
  BY LogLens, OtherSide DEF WireInv
<1>2. offered["pc"] = rcvd["pc"] \/ Grown(offered["pc"], rcvd["pc"])
  <2>1. CASE Jammed
    BY <2>1 DEF Jammed
  <2>2. CASE EchoPhase /\ Delivered("amiga")
    BY <1>1, <2>2 DEF EchoPhase, Echoed, Delivered
  <2>3. CASE EchoPhase /\ ~Delivered("amiga")
    <3>1. Arriving("amiga") /\ Due("pc")
      BY <2>3, PhasePackets DEF EchoPhase
    <3>2. offered["pc"] = offered["amiga"]
      BY <2>3, <3>1, BoxFirst DEF EchoPhase
    <3> QED  BY <1>1, <3>1, <3>2 DEF Arriving
  <2> QED  BY <2>1, <2>2, <2>3
<1> QED  BY <1>1, <1>2, GrownPrefix

\* As long as nothing times out, what comes back to pysockbox are its packets, unchanged and
\* in order, whatever their sizes are: an echo that is refused or dropped is the last.
THEOREM EchoesInOrder == Peaceful /\ Starter = "pc" => (EchoSpec => []EchoIsPacket)
<1> SUFFICES ASSUME Peaceful, Starter = "pc" PROVE EchoSpec => []EchoIsPacket
  OBVIOUS
<1>1. EchoInit => EchoInv
  BY InitEcho
<1>2. EchoInv /\ [EchoNext]_evars => EchoInv'
  <2> SUFFICES ASSUME EchoInv, [EchoNext]_evars PROVE EchoInv'
    OBVIOUS
  <2>1. CASE UNCHANGED evars
    BY <2>1, EchoStutter DEF EchoInv, evars, vars
  <2>2. CASE EchoNext
    <3>1. timeouts \in Nat /\ (timeouts' = timeouts \/ timeouts' = timeouts + 1)
      BY <2>2, BoxTimeouts DEF EchoInv
    <3>2. timeouts' \in Nat /\ (timeouts' = 0 => timeouts = 0)
      BY <3>1
    <3> QED  BY <2>2, <3>2, EchoStep DEF EchoInv
  <2> QED  BY <2>1, <2>2
<1>3. EchoInv => EchoIsPacket
  BY EchoesArePackets DEF EchoInv, EchoIsPacket
<1> QED  BY <1>1, <1>2, <1>3, PTL DEF EchoSpec
=============================================================================
