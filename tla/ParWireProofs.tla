--------------------------- MODULE ParWireProofs ---------------------------
(***************************************************************************)
(* Theorems about ParWire: types, the receive signal and how many packets  *)
(* arrive for every constant and whatever times out, and for programs that *)
(* take turns and are not timed out that the wire is a link, whatever      *)
(* sizes the packets have.                                                 *)
(***************************************************************************)
EXTENDS ParWire, FiniteSetTheorems, SequenceTheorems, TLAPS

Packets == {p \in Seq(Bytes) : Len(p) \in 1..MaxSize}

-----------------------------------------------------------------------------
(* The packet on the wire.                                                 *)

LEMMA MaxSizeNat == MaxSize \in Nat
BY DEF MaxSize

LEMMA BytesNat == \A x \in Bytes : x \in Nat
BY DEF Bytes

LEMMA HighBound ==
    ASSUME NEW n \in Nat, NEW h \in Nat, NEW l \in 0..255, n = 256 * h + l, n <= MaxSize
    PROVE  h <= 255
BY DEF MaxSize

LEMMA HighLow == ASSUME NEW n \in 0..MaxSize
                 PROVE  /\ n \div 256 \in Bytes /\ n % 256 \in Bytes
                        /\ (n \div 256) * 256 + (n % 256) = n
<1> DEFINE h == n \div 256
           l == n % 256
<1>1. n \in Nat /\ n <= MaxSize
  BY MaxSizeNat
<1>2. h \in Nat /\ l \in 0..255 /\ n = 256 * h + l
  BY <1>1
<1> HIDE DEF h, l
<1>3. h <= 255
  BY <1>1, <1>2, HighBound
<1>4. h \in 0..255 /\ h * 256 + l = n
  BY <1>1, <1>2, <1>3
<1> QED  BY <1>2, <1>4 DEF h, l, Bytes

LEMMA PacketLen == ASSUME NEW data \in Packets
                   PROVE  data \in Seq(Bytes) /\ Len(data) \in Nat /\ Len(data) \in 1..MaxSize
BY MaxSizeNat DEF Packets

LEMMA ConcatFacts ==
    ASSUME NEW s \in Seq(Bytes), NEW t \in Seq(Bytes)
    PROVE  /\ s \o t \in Seq(Bytes) /\ Len(s \o t) = Len(s) + Len(t)
           /\ \A i \in 1..Len(s) : (s \o t)[i] = s[i]
           /\ \A i \in 1..Len(t) : (s \o t)[Len(s) + i] = t[i]
<1>1. Len(s) \in Nat /\ Len(t) \in Nat
  OBVIOUS
<1> QED  BY <1>1, ConcatProperties

LEMMA WireBytes ==
    ASSUME NEW data \in Packets
    PROVE  /\ Wire(data) \in Seq(Bytes)
           /\ Len(Wire(data)) = HeaderSize + Len(data)
           /\ Wire(data)[1] = SYNCBYTE_HEAD /\ Wire(data)[2] = SYNCBYTE_NOCRC
           /\ Wire(data)[3] * 256 + Wire(data)[4] = Len(data)
           /\ \A i \in 1..Len(data) : Wire(data)[HeaderSize + i] = data[i]
<1> DEFINE n == Len(data)
           h == <<SYNCBYTE_HEAD, SYNCBYTE_NOCRC, n \div 256, n % 256, 0, 0>>
           w == h \o data
<1>1. data \in Seq(Bytes) /\ n \in Nat /\ n \in 0..MaxSize
  BY PacketLen, MaxSizeNat
<1>2. Wire(data) = w
  BY DEF Wire
<1> HIDE DEF n
<1>3. n \div 256 \in Bytes /\ n % 256 \in Bytes /\ (n \div 256) * 256 + (n % 256) = n
  BY <1>1, HighLow
<1>4. SYNCBYTE_HEAD \in Bytes /\ SYNCBYTE_NOCRC \in Bytes /\ 0 \in Bytes
  BY DEF SYNCBYTE_HEAD, SYNCBYTE_NOCRC, Bytes
<1>5. /\ h \in Seq(Bytes) /\ Len(h) = 6
      /\ h[1] = SYNCBYTE_HEAD /\ h[2] = SYNCBYTE_NOCRC
      /\ h[3] = n \div 256 /\ h[4] = n % 256
  BY <1>3, <1>4
<1> HIDE DEF h
<1>6. /\ w \in Seq(Bytes) /\ Len(w) = Len(h) + Len(data)
      /\ \A i \in 1..Len(h) : w[i] = h[i]
      /\ \A i \in 1..Len(data) : w[Len(h) + i] = data[i]
  <2>1. h \in Seq(Bytes) /\ data \in Seq(Bytes)
    BY <1>1, <1>5
  <2> QED  BY <2>1, ConcatFacts
<1> HIDE DEF w
<1>7. w[1] = h[1] /\ w[2] = h[2] /\ w[3] = h[3] /\ w[4] = h[4]
  BY <1>1, <1>5, <1>6 DEF n
<1>8. Len(w) = 6 + n /\ \A i \in 1..n : w[6 + i] = data[i]
  BY <1>1, <1>5, <1>6 DEF n
<1> QED  BY <1>2, <1>3, <1>5, <1>6, <1>7, <1>8 DEF HeaderSize, n

LEMMA DataBytes == ASSUME NEW bytes \in Seq(Bytes) PROVE Data(bytes) \in Seq(Bytes)
BY DEF Data, HeaderSize

LEMMA SizeOfFacts ==
    ASSUME NEW bytes \in Seq(Bytes), Len(bytes) >= 4
    PROVE  SizeOf(bytes) = bytes[3] * 256 + bytes[4] /\ SizeOf(bytes) \in Nat
<1>1. bytes[3] \in Bytes /\ bytes[4] \in Bytes
  OBVIOUS
<1>2. bytes[3] \in Nat /\ bytes[4] \in Nat
  BY <1>1, BytesNat
<1>3. SizeOf(bytes) = bytes[3] * 256 + bytes[4]
  BY DEF SizeOf, Word
<1> QED  BY <1>2, <1>3

\* What follows the header of a packet is the packet.
LEMMA DataOfWire == ASSUME NEW data \in Packets PROVE Data(Wire(data)) = data
<1> DEFINE w == Wire(data)
<1>1. data \in Seq(Bytes) /\ Len(data) \in Nat
  BY PacketLen
<1>2. w \in Seq(Bytes) /\ Len(w) = 6 + Len(data) /\ \A i \in 1..Len(data) : w[6 + i] = data[i]
  BY WireBytes DEF HeaderSize
<1> HIDE DEF w
<1>3. /\ SubSeq(w, 7, Len(w)) \in Seq(Bytes) /\ Len(SubSeq(w, 7, Len(w))) = Len(data)
      /\ \A i \in 1..Len(data) : SubSeq(w, 7, Len(w))[i] = data[i]
  BY <1>1, <1>2
<1>4. SubSeq(w, 7, Len(w)) = data
  BY <1>1, <1>3
<1> QED  BY <1>4 DEF Data, HeaderSize, w
-----------------------------------------------------------------------------
(* Types.                                                                  *)

LEMMA LinesFacts ==
    ASSUME NEW l \in Lines
    PROVE  /\ l.pout \in BOOLEAN /\ l.sel \in BOOLEAN /\ l.dat \in Bytes
           /\ [l EXCEPT !.pout = TRUE] \in Lines /\ [l EXCEPT !.pout = FALSE] \in Lines
           /\ [l EXCEPT !.pout = ~@] \in Lines
           /\ [l EXCEPT !.sel = TRUE] \in Lines /\ [l EXCEPT !.sel = FALSE] \in Lines
           /\ [l EXCEPT !.pout = FALSE, !.sel = FALSE] \in Lines
           /\ \A b \in Bytes : [l EXCEPT !.dat = b] \in Lines
           /\ \A b \in Bytes : [l EXCEPT !.pout = ~@, !.dat = b] \in Lines
BY DEF Lines

LEMMA UpdateFacts ==
    ASSUME NEW q \in Seq(Lines), NEW old \in Lines, NEW new \in Lines
    PROVE  Update(q, old, new) \in Seq(Lines)
BY DEF Update

LEMMA LastSentType == Types => LastSent \in Lines
<1> SUFFICES ASSUME Types PROVE LastSent \in Lines
  OBVIOUS
<1>1. view \in Lines /\ toPC \in Seq(Lines)
  BY DEF Types
<1>2. CASE toPC = <<>>
  BY <1>1, <1>2 DEF LastSent
<1>3. CASE toPC # <<>>
  <2>1. Len(toPC) \in 1..Len(toPC)
    BY <1>1, <1>3
  <2> QED  BY <1>1, <1>3, <2>1 DEF LastSent, Last
<1> QED  BY <1>2, <1>3

LEMMA DriveTypes ==
    ASSUME Types, NEW new \in Lines, Drive(new)
    PROVE  lines' \in Lines /\ toPC' \in Seq(Lines)
BY LastSentType, UpdateFacts DEF Drive, Types

LEMMA DriveTwoTypes ==
    ASSUME Types, NEW first \in Lines, NEW second \in Lines, DriveTwo(first, second)
    PROVE  lines' \in Lines /\ toPC' \in Seq(Lines)
BY LastSentType, UpdateFacts DEF DriveTwo, Types

LEMMA LinesTypes ==
    ASSUME Types
    PROVE  /\ \/ Drive([lines EXCEPT !.pout = TRUE]) \/ Drive([lines EXCEPT !.sel = TRUE])
              \/ \E b \in Bytes : Drive([lines EXCEPT !.dat = b]) \/ Put(b)
              \/ Release \/ TogglePOUT \/ CLEARREQUEST
           => lines' \in Lines /\ toPC' \in Seq(Lines)
<1>1. lines \in Lines
  BY DEF Types
<1>2. \A b \in Bytes : Put(b) => lines' \in Lines /\ toPC' \in Seq(Lines)
  BY <1>1, LinesFacts, DriveTwoTypes DEF Put
<1>3. Release => lines' \in Lines /\ toPC' \in Seq(Lines)
  BY <1>1, LinesFacts, DriveTwoTypes DEF Release
<1>4. \A b \in Bytes : Drive([lines EXCEPT !.dat = b]) => lines' \in Lines /\ toPC' \in Seq(Lines)
  BY <1>1, LinesFacts, DriveTypes
<1>5. TogglePOUT => lines' \in Lines /\ toPC' \in Seq(Lines)
  BY <1>1, LinesFacts, DriveTypes DEF TogglePOUT
<1>6. CLEARREQUEST => lines' \in Lines /\ toPC' \in Seq(Lines)
  BY <1>1, LinesFacts, DriveTypes DEF CLEARREQUEST
<1>7. Drive([lines EXCEPT !.pout = TRUE]) \/ Drive([lines EXCEPT !.sel = TRUE])
         => lines' \in Lines /\ toPC' \in Seq(Lines)
  BY <1>1, LinesFacts, DriveTypes
<1> QED  BY <1>2, <1>3, <1>4, <1>5, <1>6, <1>7

\* The packets that are offered can be sent, and what sends one has one.
Sendable == \A s \in Sides : \A i \in 1..Len(offered[s]) : offered[s][i] \in Packets
ToSend ==
    /\ a_pc \in {"requested", "have_line", "send_sample", "send"} => offered["amiga"] # <<>>
    /\ a_pc \in {"requested", "have_line", "send_sample"} => a_bytes # <<>>
    /\ p_pc \in {"tx_magic", "tx_ack", "tx_select", "tx", "tx_busy", "tx_unselect"}
          => offered["pc"] # <<>>

\* The size was checked before the bytes after it were stored.
SizeChecked ==
    a_pc = "recv" /\ Len(a_bytes) > SizeAt /\ SizeOf(a_bytes) # 0 =>
        SizeOf(a_bytes) <= BufferSize /\ Len(a_bytes) <= HeaderSize + SizeOf(a_bytes)

\* The signal is not pending any more while the packet is received.
Signals == RxSignalled /\ ~(sig /\ a_pc \in {"recv_sample", "recv"})

WireInv == Types /\ Sendable /\ ToSend /\ SizeChecked /\ Signals

LEMMA PayloadType ==
    ASSUME Types, NEW s \in Sides, NEW n \in 1..MaxSize
    PROVE  Payload(s, n) \in Packets
<1> DEFINE base == (IF s = "amiga" THEN 100 ELSE 200) + 10 * Len(offered[s])
           e(i) == (base + i) % 256
           p == [i \in 1..n |-> e(i)]
<1>1. n \in Nat /\ base \in Nat
  <2>1. Len(offered[s]) \in Nat
    BY DEF Types, Logs
  <2>2. n \in Nat
    BY MaxSizeNat
  <2>3. \A k \in Nat : 100 + 10 * k \in Nat /\ 200 + 10 * k \in Nat
    OBVIOUS
  <2>4. 100 + 10 * Len(offered[s]) \in Nat /\ 200 + 10 * Len(offered[s]) \in Nat
    BY <2>1, <2>3
  <2> QED  BY <2>2, <2>4
<1>2. Payload(s, n) = p
  BY DEF Payload
<1> HIDE DEF base
<1>3. \A i \in 1..n : e(i) \in Bytes
  BY <1>1 DEF Bytes
<1> HIDE DEF e
<1>4. p \in Seq(Bytes) /\ Len(p) = n
  BY <1>1, <1>3
<1> QED  BY <1>2, <1>4 DEF Packets

\* A side offers a packet.
LEMMA OfferTypes ==
    ASSUME Types, Sendable, NEW s \in Sides, NEW p \in Packets,
           offered' = [offered EXCEPT ![s] = Append(@, p)]
    PROVE  /\ offered' \in Logs /\ Sendable'
           /\ offered'[s] # <<>> /\ Last(offered'[s]) = p
           /\ \A t \in Sides : t # s => offered'[t] = offered[t]
<1>1. p \in Seq(Bytes)
  BY PacketLen
<1>2. offered \in [Sides -> Seq(Seq(Bytes))]
  BY DEF Types, Logs
<1>3. offered'[s] = Append(offered[s], p) /\ \A t \in Sides : t # s => offered'[t] = offered[t]
  BY <1>2
<1>4. /\ Append(offered[s], p) \in Seq(Seq(Bytes))
      /\ Len(Append(offered[s], p)) = Len(offered[s]) + 1 /\ Len(offered[s]) \in Nat
      /\ \A i \in 1..Len(offered[s]) : Append(offered[s], p)[i] = offered[s][i]
      /\ Append(offered[s], p)[Len(offered[s]) + 1] = p
      /\ Append(offered[s], p) # <<>>
  BY <1>1, <1>2
<1>5. Last(offered'[s]) = p
  BY <1>3, <1>4 DEF Last
<1>6. offered' \in Logs
  BY <1>2, <1>4 DEF Logs
<1>7. Sendable'
  <2> SUFFICES ASSUME NEW t \in Sides, NEW i \in 1..Len(offered'[t])
               PROVE  offered'[t][i] \in Packets
    BY DEF Sendable
  <2>1. CASE t # s
    BY <1>3, <2>1 DEF Sendable
  <2>2. CASE t = s /\ i \in 1..Len(offered[s])
    BY <1>3, <1>4, <2>2 DEF Sendable
  <2>3. CASE t = s /\ i = Len(offered[s]) + 1
    BY <1>3, <1>4, <2>3
  <2>4. t = s => i \in 1..Len(offered[s]) \/ i = Len(offered[s]) + 1
    BY <1>3, <1>4
  <2> QED  BY <2>1, <2>2, <2>3, <2>4
<1> QED  BY <1>3, <1>4, <1>5, <1>6, <1>7

\* The packet of a side that has offered one.
LEMMA LastOffered ==
    ASSUME Types, Sendable, NEW s \in Sides, offered[s] # <<>>
    PROVE  Last(offered[s]) \in Packets /\ Last(offered[s]) \in Seq(Bytes)
<1>1. offered[s] \in Seq(Seq(Bytes))
  BY DEF Types, Logs
<1>2. Len(offered[s]) \in 1..Len(offered[s])
  BY <1>1
<1> QED  BY <1>2, PacketLen DEF Last, Sendable

\* A log of packets grows.
LEMMA LogTypes ==
    ASSUME NEW log \in Logs, NEW s \in Sides, NEW p \in Seq(Bytes)
    PROVE  [log EXCEPT ![s] = Append(@, p)] \in Logs
BY DEF Logs

LEMMA InitWireInv == Init => WireInv
<1> SUFFICES ASSUME Init PROVE WireInv
  OBVIOUS
<1>1. Types
  <2>1. lines \in Lines /\ view \in Lines /\ toPC \in Seq(Lines)
    BY DEF Init, Lines, Bytes
  <2>2. offered \in Logs /\ sent \in Logs /\ rcvd \in Logs
    BY DEF Init, Logs
  <2>3. timeouts \in 0..MaxTimeouts
    BY WireAssumption DEF Init
  <2>4. a_bytes \in Seq(Bytes) /\ p_bytes \in Seq(Bytes)
    BY DEF Init
  <2> QED  BY <2>1, <2>2, <2>3, <2>4 DEF Init, Types
<1>2. Sendable
  BY DEF Init, Sendable
<1>3. ToSend /\ SizeChecked
  BY DEF Init, ToSend, SizeChecked
<1>4. Signals
  BY DEF Init, Signals, RxSignalled
<1> QED  BY <1>1, <1>2, <1>3, <1>4 DEF WireInv

\* Steps of either side that leave the packets of both alone.
LEMMA SameLogs ==
    ASSUME WireInv, UNCHANGED logs
    PROVE  /\ Sendable' /\ offered' \in Logs /\ sent' \in Logs /\ rcvd' \in Logs
           /\ (ToSend' <=> /\ a_pc' \in {"requested", "have_line", "send_sample", "send"}
                                => offered["amiga"] # <<>>
                           /\ a_pc' \in {"requested", "have_line", "send_sample"}
                                => a_bytes' # <<>>
                           /\ p_pc' \in {"tx_magic", "tx_ack", "tx_select", "tx", "tx_busy",
                                         "tx_unselect"} => offered["pc"] # <<>>)
BY DEF WireInv, Types, Sendable, ToSend, logs

LEMMA InterruptWireInv == WireInv /\ interrupt => WireInv'
<1> SUFFICES ASSUME WireInv, interrupt PROVE WireInv'
  OBVIOUS
<1>1. UNCHANGED logs /\ UNCHANGED <<a_pc, a_bytes, p_pc, p_bytes>>
  BY DEF interrupt, pcVars
<1>2. Types'
  <2>1. s_Flags' \subseteq {AsmBit(FLAGS_BIT_RX), AsmBit(FLAGS_BIT_ACK)} /\ sig' \in BOOLEAN
    BY DEF interrupt, Announce, WireInv, Types
  <2>2. flg' \in BOOLEAN /\ UNCHANGED <<busy, lines, toPC, inten, d7, view, toggle, timeouts>>
    BY DEF interrupt, pcVars
  <2>3. offered' \in Logs /\ sent' \in Logs /\ rcvd' \in Logs
    BY <1>1, SameLogs
  <2>4. /\ busy' \in BOOLEAN /\ inten' \in BOOLEAN /\ flg' \in BOOLEAN
        /\ d7' \in BOOLEAN /\ toggle' \in BOOLEAN
    BY <2>2 DEF WireInv, Types
  <2>5. lines' \in Lines /\ view' \in Lines /\ toPC' \in Seq(Lines) /\ timeouts' \in 0..MaxTimeouts
    BY <2>2 DEF WireInv, Types
  <2>6. a_pc' = a_pc /\ p_pc' = p_pc /\ a_bytes' = a_bytes /\ p_bytes' = p_bytes
    BY <1>1
  <2>7. Types
    BY DEF WireInv
  <2> QED  BY <2>1, <2>3, <2>4, <2>5, <2>6, <2>7 DEF Types
<1>3. ToSend' /\ Sendable' /\ SizeChecked'
  BY <1>1, SameLogs DEF WireInv, ToSend, SizeChecked
<1>4. Signals'
  BY DEF interrupt, Announce, WireInv, Signals, RxSignalled, AsmBit, FLAGS_BIT_RX, FLAGS_BIT_ACK
<1> QED  BY <1>2, <1>3, <1>4 DEF WireInv

LEMMA RequestWireInv == WireInv /\ SendRequest => WireInv'
<1> SUFFICES ASSUME WireInv, SendRequest PROVE WireInv'
  OBVIOUS
<1>1. "amiga" \in Sides /\ "pc" \in Sides /\ "amiga" # "pc"
  BY DEF Sides
<1>2. /\ offered' \in Logs /\ Sendable'
      /\ offered'["amiga"] # <<>> /\ Last(offered'["amiga"]) \in Packets
      /\ offered'["pc"] = offered["pc"]
  <2>1. CASE Pending /\ UNCHANGED offered
    <3>1. offered["amiga"] # <<>>
      BY <1>1, <2>1 DEF WireInv, Types, Logs, Pending
    <3>2. offered' \in Logs /\ Sendable'
      BY <2>1 DEF WireInv, Types, Sendable
    <3> QED  BY <1>1, <2>1, <3>1, <3>2, LastOffered DEF WireInv
  <2>2. ASSUME NEW n \in AmigaSizes,
               offered' = [offered EXCEPT !["amiga"] = Append(@, Payload("amiga", n))]
        PROVE  /\ offered' \in Logs /\ Sendable'
               /\ offered'["amiga"] # <<>> /\ Last(offered'["amiga"]) \in Packets
               /\ offered'["pc"] = offered["pc"]
    <3>1. Payload("amiga", n) \in Packets
      <4>1. n \in 1..MaxSize
        BY WireAssumption
      <4> QED  BY <1>1, <4>1, PayloadType DEF WireInv
    <3> QED  BY <1>1, <2>2, <3>1, OfferTypes DEF WireInv
  <2> QED  BY <2>1, <2>2 DEF SendRequest
<1>3. a_bytes' \in Seq(Bytes) /\ a_bytes' # <<>>
  <2>1. /\ Wire(Last(offered'["amiga"])) \in Seq(Bytes)
        /\ Len(Wire(Last(offered'["amiga"]))) = HeaderSize + Len(Last(offered'["amiga"]))
        /\ Len(Last(offered'["amiga"])) \in Nat
    BY <1>2, WireBytes, PacketLen
  <2>2. a_bytes' = Wire(Last(offered'["amiga"]))
    BY DEF SendRequest
  <2>3. Len(a_bytes') # 0
    BY <2>1, <2>2 DEF HeaderSize
  <2> QED  BY <2>1, <2>2, <2>3
<1>4. lines' \in Lines /\ toPC' \in Seq(Lines)
  BY LinesTypes DEF SendRequest, WireInv
<1>5. Types'
  BY <1>2, <1>3, <1>4 DEF SendRequest, WireInv, Types, flagVars, pcVars
<1>6. ToSend' /\ SizeChecked'
  BY <1>2, <1>3 DEF SendRequest, WireInv, ToSend, SizeChecked, pcVars
<1>7. Signals'
  BY DEF SendRequest, WireInv, Signals, RxSignalled, flagVars
<1> QED  BY <1>2, <1>5, <1>6, <1>7 DEF WireInv

\* hwsend to the last byte, and what par_send does before it.
LEMMA SendWireInv ==
    WireInv /\ (SendNoLine \/ SendLine \/ SendStart \/ SendSample \/ SendByte) => WireInv'
<1> SUFFICES ASSUME WireInv, SendNoLine \/ SendLine \/ SendStart \/ SendSample \/ SendByte
             PROVE  WireInv'
  OBVIOUS
<1>1. UNCHANGED logs /\ UNCHANGED <<p_pc, p_bytes, view, toggle, timeouts, busy, s_Flags, sig, flg>>
  BY DEF SendNoLine, SendLine, SendStart, SendSample, SendByte, flagVars, pcVars
<1>2. /\ a_bytes' \in Seq(Bytes)
      /\ SendSample \/ SendByte => Head(a_bytes) \in Bytes
  <2>1. /\ a_bytes \in Seq(Bytes)
        /\ a_bytes # <<>> => Head(a_bytes) \in Bytes /\ Tail(a_bytes) \in Seq(Bytes)
    BY DEF WireInv, Types
  <2>2. SendSample \/ SendByte => a_bytes # <<>> /\ a_bytes' = Tail(a_bytes)
    BY DEF SendSample, SendByte, WireInv, ToSend
  <2>3. SendNoLine \/ SendLine \/ SendStart => a_bytes' = a_bytes
    BY DEF SendNoLine, SendLine, SendStart
  <2> QED  BY <2>1, <2>2, <2>3
<1>3. lines' \in Lines /\ toPC' \in Seq(Lines)
  <2>1. CASE SendNoLine \/ SendLine
    BY <2>1, LinesTypes DEF SendNoLine, SendLine, WireInv, Types
  <2>2. CASE SendStart
    BY <2>2, LinesTypes DEF SendStart, WireInv
  <2>3. CASE SendSample
    BY <1>2, <2>3, LinesTypes DEF SendSample, WireInv
  <2>4. CASE SendByte
    BY <1>2, <2>4, LinesTypes DEF SendByte, WireInv
  <2> QED  BY <2>1, <2>2, <2>3, <2>4
<1>4. Types'
  <2>1. inten' \in BOOLEAN /\ d7' \in BOOLEAN
    BY DEF SendNoLine, SendLine, SendStart, SendSample, SendByte, Follow, WireInv, Types
  <2>2. a_pc' \in {"idle", "have_line", "send_sample", "send"}
    BY DEF SendNoLine, SendLine, SendStart, SendSample, SendByte
  <2> QED  BY <1>1, <1>2, <1>3, <2>1, <2>2, SameLogs DEF WireInv, Types
<1>5. ToSend'
  BY <1>1, SameLogs DEF SendNoLine, SendLine, SendStart, SendSample, SendByte, WireInv, ToSend
<1>6. SizeChecked' /\ Signals'
  BY <1>1 DEF SendNoLine, SendLine, SendStart, SendSample, SendByte, WireInv, SizeChecked,
              Signals, RxSignalled
<1> QED  BY <1>1, <1>4, <1>5, <1>6, SameLogs DEF WireInv

LEMMA SendEndWireInv == WireInv /\ (SendDone \/ SendTimeout) => WireInv'
<1> SUFFICES ASSUME WireInv, SendDone \/ SendTimeout PROVE WireInv'
  OBVIOUS
<1>1. PICK ok \in BOOLEAN : SendEnd(ok)
  BY DEF SendDone, SendTimeout
<1>2. /\ UNCHANGED <<busy, s_Flags, sig, view, p_pc, p_bytes, toggle, offered, rcvd>>
      /\ flg' = FALSE /\ inten' = TRUE /\ a_pc' = "idle" /\ a_bytes' = <<>> /\ a_pc = "send"
  BY <1>1 DEF SendEnd, SendDone, SendTimeout, flagVars, pcVars
<1>3. lines' \in Lines /\ toPC' \in Seq(Lines)
  BY <1>1, LinesTypes DEF SendEnd, WireInv
<1>4. sent' \in Logs
  <2>1. "amiga" \in Sides /\ Last(offered["amiga"]) \in Seq(Bytes)
    BY <1>2, LastOffered DEF Sides, WireInv, ToSend
  <2> QED  BY <1>1, <2>1, LogTypes DEF SendEnd, WireInv, Types
<1>5. timeouts' \in 0..MaxTimeouts /\ d7' \in BOOLEAN
  <2>1. timeouts \in 0..MaxTimeouts /\ MaxTimeouts \in Nat /\ busy \in BOOLEAN /\ d7 \in BOOLEAN
    BY WireAssumption DEF WireInv, Types
  <2>2. timeouts' = timeouts \/ (timeouts < MaxTimeouts /\ timeouts' = timeouts + 1)
    BY DEF SendDone, SendTimeout
  <2>3. d7' = busy \/ d7' = d7
    BY DEF SendDone, SendTimeout
  <2> QED  BY <2>1, <2>2, <2>3
<1>6. Types'
  <2>1. inten' \in BOOLEAN /\ flg' \in BOOLEAN
    BY <1>2
  <2>2. a_bytes' \in Seq(Bytes)
    BY <1>2
  <2> QED  BY <1>2, <1>3, <1>4, <1>5, <2>1, <2>2 DEF WireInv, Types
<1>7. Sendable' /\ ToSend' /\ SizeChecked' /\ Signals'
  BY <1>2 DEF WireInv, Sendable, ToSend, SizeChecked, Signals, RxSignalled
<1> QED  BY <1>6, <1>7 DEF WireInv

\* The start of a reception and its bytes.
LEMMA RecvWireInv == WireInv /\ (RecvStart \/ RecvSample \/ RecvByte) => WireInv'
<1> SUFFICES ASSUME WireInv, RecvStart \/ RecvSample \/ RecvByte PROVE WireInv'
  OBVIOUS
<1>1. UNCHANGED logs /\ UNCHANGED <<p_pc, p_bytes, view, toggle, timeouts, busy, s_Flags, flg>>
  BY DEF RecvStart, RecvSample, RecvByte, flagVars, pcVars
<1>2. lines.dat \in Bytes /\ a_bytes \in Seq(Bytes)
  BY LinesFacts DEF WireInv, Types
<1>3. a_bytes' \in Seq(Bytes)
  <2>1. a_bytes' = <<>> \/ a_bytes' = <<lines.dat>> \/ a_bytes' = Append(a_bytes, lines.dat)
    BY DEF RecvStart, RecvSample, RecvByte
  <2>2. <<>> \in Seq(Bytes) /\ <<lines.dat>> \in Seq(Bytes)
    BY <1>2
  <2>3. Append(a_bytes, lines.dat) \in Seq(Bytes)
    BY <1>2, AppendProperties
  <2> QED  BY <2>1, <2>2, <2>3
<1>4. lines' \in Lines /\ toPC' \in Seq(Lines)
  BY LinesTypes DEF RecvStart, RecvSample, RecvByte, WireInv
<1>5. Types'
  <2>1. inten' \in BOOLEAN /\ d7' \in BOOLEAN /\ sig' \in BOOLEAN
    BY DEF RecvStart, RecvSample, RecvByte, flagVars, Follow, WireInv, Types
  <2>2. a_pc' \in {"recv_sample", "recv"}
    BY DEF RecvStart, RecvSample, RecvByte
  <2> QED  BY <1>1, <1>3, <1>4, <2>1, <2>2, SameLogs DEF WireInv, Types
<1>6. Sendable' /\ ToSend'
  <2>1. a_pc' \in {"recv_sample", "recv"}
    BY DEF RecvStart, RecvSample, RecvByte
  <2> QED  BY <1>1, <2>1, SameLogs DEF WireInv, ToSend
<1>7. SizeChecked'
  <2>1. CASE RecvStart
    BY <2>1 DEF RecvStart, SizeChecked
  <2>2. CASE RecvSample
    <3>1. a_bytes' = <<lines.dat>>
      BY <2>2 DEF RecvSample
    <3>2. Len(a_bytes') = 1
      BY <3>1
    <3> QED  BY <3>2, WireAssumption DEF SizeChecked
  <2>3. CASE RecvByte
    <3>1. /\ a_pc = "recv" /\ ~Taken(a_bytes) /\ ~Refused(a_bytes)
          /\ a_bytes' = Append(a_bytes, lines.dat)
      BY <2>3 DEF RecvByte
    <3>2. /\ Len(a_bytes') = Len(a_bytes) + 1 /\ Len(a_bytes) \in Nat
          /\ \A i \in 1..Len(a_bytes) : a_bytes'[i] = a_bytes[i] /\ a_bytes[i] \in Nat
      <4>1. /\ Len(a_bytes') = Len(a_bytes) + 1
            /\ \A i \in 1..Len(a_bytes) : a_bytes'[i] = a_bytes[i]
        BY <1>2, <3>1, AppendProperties
      <4>2. Len(a_bytes) \in Nat /\ \A i \in 1..Len(a_bytes) : a_bytes[i] \in Bytes
        BY <1>2
      <4> QED  BY <4>1, <4>2, BytesNat
    <3>3. SizeAt \in {4, 6} /\ BufferSize \in Nat
      BY WireAssumption, MaxSizeNat
    <3>4. CASE Len(a_bytes) < SizeAt
      BY <3>2, <3>3, <3>4 DEF SizeChecked
    <3>5. CASE Len(a_bytes) >= SizeAt
      <4>1. SizeOf(a_bytes') = SizeOf(a_bytes) /\ SizeOf(a_bytes) \in Nat
        <5>1. a_bytes'[3] = a_bytes[3] /\ a_bytes'[4] = a_bytes[4]
          BY <3>2, <3>3, <3>5
        <5>2. a_bytes[3] \in Nat /\ a_bytes[4] \in Nat
          BY <3>2, <3>3, <3>5
        <5> QED  BY <5>1, <5>2 DEF SizeOf, Word
      <4> DEFINE n == Len(a_bytes)
                 z == SizeOf(a_bytes)
      <4>2. n \in Nat /\ z \in Nat /\ n >= SizeAt
        BY <3>2, <3>5, <4>1
      <4>3. z # 0 => ~(n >= 6 /\ n = 6 + z)
        BY <3>1 DEF Taken, Complete, HeaderSize
      <4>4. n = SizeAt => ~(z > BufferSize)
        BY <3>1 DEF Refused
      <4>5. n > SizeAt /\ z # 0 => z <= BufferSize /\ n <= 6 + z
        BY <3>1 DEF WireInv, SizeChecked, HeaderSize
      <4> HIDE DEF n, z
      <4>6. z # 0 => z <= BufferSize /\ n + 1 <= 6 + z
        BY <3>3, <4>2, <4>3, <4>4, <4>5
      <4> QED  BY <3>2, <4>1, <4>6 DEF SizeChecked, HeaderSize, n, z
    <3> QED  BY <3>2, <3>3, <3>4, <3>5
  <2> QED  BY <2>1, <2>2, <2>3
<1>8. Signals'
  BY <1>1 DEF RecvStart, RecvSample, RecvByte, flagVars, WireInv, Signals, RxSignalled
<1> QED  BY <1>5, <1>6, <1>7, <1>8 DEF WireInv

LEMMA RecvEndWireInv == WireInv /\ (RecvDone \/ RecvRefuse \/ RecvTimeout) => WireInv'
<1> SUFFICES ASSUME WireInv, RecvDone \/ RecvRefuse \/ RecvTimeout PROVE WireInv'
  OBVIOUS
<1>1. PICK ok \in BOOLEAN : RecvEnd(ok)
  BY DEF RecvDone, RecvRefuse, RecvTimeout
<1>2. /\ UNCHANGED <<busy, sig, d7, view, p_pc, p_bytes, toggle, offered, sent>>
      /\ flg' = FALSE /\ inten' = TRUE /\ a_pc' = "idle" /\ s_Flags' = EndRX(s_Flags)
  BY <1>1 DEF RecvEnd, pcVars
<1>3. a_bytes' \in Seq(Bytes)
  <2>1. a_bytes' = <<>>
    BY <1>1 DEF RecvEnd
  <2> QED  BY <2>1
<1>4. a_pc \in {"recv_sample", "recv"}
  BY DEF RecvDone, RecvRefuse, RecvTimeout
<1>5. lines' \in Lines /\ toPC' \in Seq(Lines)
  BY <1>1, LinesTypes DEF RecvEnd, WireInv
<1>6. rcvd' \in Logs
  <2>1. "amiga" \in Sides /\ Data(a_bytes) \in Seq(Bytes)
    BY DataBytes DEF Sides, WireInv, Types
  <2> QED  BY <1>1, <2>1, LogTypes DEF RecvEnd, WireInv, Types
<1>7. timeouts' \in 0..MaxTimeouts
  <2>1. timeouts \in 0..MaxTimeouts /\ MaxTimeouts \in Nat
    BY WireAssumption DEF WireInv, Types
  <2>2. timeouts' = timeouts \/ (timeouts < MaxTimeouts /\ timeouts' = timeouts + 1)
    BY DEF RecvDone, RecvRefuse, RecvTimeout
  <2> QED  BY <2>1, <2>2
<1>8. Types'
  <2>1. s_Flags' \subseteq {AsmBit(FLAGS_BIT_RX), AsmBit(FLAGS_BIT_ACK)}
    BY <1>2 DEF EndRX, WireInv, Types
  <2>2. inten' \in BOOLEAN /\ flg' \in BOOLEAN
    BY <1>2
  <2> QED  BY <1>2, <1>3, <1>5, <1>6, <1>7, <2>1, <2>2 DEF WireInv, Types
<1>9. Sendable' /\ ToSend' /\ SizeChecked'
  BY <1>2 DEF WireInv, Sendable, ToSend, SizeChecked
<1>10. Signals'
  BY <1>2, <1>4 DEF EndRX, WireInv, Signals, RxSignalled
<1> QED  BY <1>8, <1>9, <1>10 DEF WireInv

\* The PC.
LEMMA PcStartWireInv == WireInv /\ PcSend => WireInv'
<1> SUFFICES ASSUME WireInv, PcSend PROVE WireInv'
  OBVIOUS
<1>1. PICK n \in PcSizes : offered' = [offered EXCEPT !["pc"] = Append(@, Payload("pc", n))]
  BY DEF PcSend
<1>2. "amiga" \in Sides /\ "pc" \in Sides /\ "amiga" # "pc"
  BY DEF Sides
<1>3. /\ offered' \in Logs /\ Sendable' /\ offered'["pc"] # <<>>
      /\ Last(offered'["pc"]) \in Packets /\ offered'["amiga"] = offered["amiga"]
  <2>1. Payload("pc", n) \in Packets
    <3>1. n \in 1..MaxSize
      BY WireAssumption
    <3> QED  BY <1>2, <3>1, PayloadType DEF WireInv
  <2> QED  BY <1>1, <1>2, <2>1, OfferTypes DEF WireInv
<1>4. /\ UNCHANGED <<lines, toPC, flg, inten, s_Flags, sig, a_pc, a_bytes, d7, view, toggle,
                     timeouts, sent, rcvd>>
      /\ busy' = TRUE /\ p_pc' = "tx_magic" /\ p_bytes' = Tail(Wire(Last(offered'["pc"])))
  BY DEF PcSend, amigaVars, flagVars
<1>5. p_bytes' \in Seq(Bytes)
  <2>1. Wire(Last(offered'["pc"])) \in Seq(Bytes) /\ Wire(Last(offered'["pc"])) # <<>>
    <3>1. /\ Wire(Last(offered'["pc"])) \in Seq(Bytes)
          /\ Len(Wire(Last(offered'["pc"]))) = HeaderSize + Len(Last(offered'["pc"]))
          /\ Len(Last(offered'["pc"])) \in Nat
      BY <1>3, WireBytes, PacketLen
    <3>2. Len(Wire(Last(offered'["pc"]))) # 0
      BY <3>1 DEF HeaderSize
    <3> QED  BY <3>1, <3>2
  <2> QED  BY <1>4, <2>1, HeadTailProperties
<1>6. Types'
  <2>1. busy' \in BOOLEAN
    BY <1>4
  <2>2. p_pc' = "tx_magic"
    BY <1>4
  <2> QED  BY <1>3, <1>4, <1>5, <2>1, <2>2 DEF WireInv, Types
<1>7. ToSend' /\ SizeChecked' /\ Signals'
  BY <1>3, <1>4 DEF WireInv, ToSend, SizeChecked, Signals, RxSignalled
<1> QED  BY <1>3, <1>6, <1>7 DEF WireInv

\* What the PC does without a change to the packets of either side.
LEMMA PcStepWireInv ==
    ASSUME WireInv, UNCHANGED logs, UNCHANGED amigaVars,
           busy' \in BOOLEAN, flg' \in BOOLEAN, toggle' \in BOOLEAN, lines' \in Lines,
           view' \in Lines, toPC' \in Seq(Lines), p_bytes' \in Seq(Bytes),
           timeouts' \in 0..MaxTimeouts,
           \/ p_pc' \in {"idle", "recv", "recv_busy", "recv_unselect", "stopped"}
           \/ /\ p_pc' \in {"tx_magic", "tx_ack", "tx_select", "tx", "tx_busy", "tx_unselect"}
              /\ p_pc \in {"tx_magic", "tx_ack", "tx_select", "tx", "tx_busy", "tx_unselect"}
    PROVE  WireInv'
<1>1. UNCHANGED <<inten, s_Flags, sig, a_pc, a_bytes, d7>>
  BY DEF amigaVars, flagVars
<1>2. offered' \in Logs /\ sent' \in Logs /\ rcvd' \in Logs /\ Sendable'
  BY SameLogs
<1>3. Types'
  <2>1. Types
    BY DEF WireInv
  <2>2. p_pc' \in {"idle", "tx_magic", "tx_ack", "tx_select", "tx", "tx_busy",
                   "tx_unselect", "recv", "recv_busy", "recv_unselect", "stopped"}
    OBVIOUS
  <2> QED  BY <1>1, <1>2, <2>1, <2>2 DEF Types
<1>4. ToSend'
  BY <1>1, SameLogs DEF WireInv, ToSend
<1>5. SizeChecked' /\ Signals'
  BY <1>1 DEF WireInv, SizeChecked, Signals, RxSignalled
<1> QED  BY <1>2, <1>3, <1>4, <1>5 DEF WireInv

LEMMA PcWireInv ==
    /\ WireInv
    /\ \/ PcRead \/ PcMagic \/ PcAck \/ PcSelected \/ PcNoSelect \/ PcPutByte \/ PcPutBusy
       \/ PcSendLost \/ PcFinal \/ PcRecv \/ PcGetByte \/ PcGetBusy \/ PcRecvFail
    => WireInv'
<1> SUFFICES ASSUME WireInv,
                    \/ PcRead \/ PcMagic \/ PcAck \/ PcSelected \/ PcNoSelect \/ PcPutByte
                    \/ PcPutBusy \/ PcSendLost \/ PcFinal \/ PcRecv \/ PcGetByte \/ PcGetBusy
                    \/ PcRecvFail
             PROVE  WireInv'
  OBVIOUS
<1>1. UNCHANGED logs /\ UNCHANGED amigaVars
  BY DEF PcRead, PcMagic, PcAck, PcSelected, PcNoSelect, PcPutByte, PcPutBusy, PcSendLost,
         PcFinal, PcRecv, PcGetByte, PcGetBusy, PcRecvFail, PcFail
<1>2. /\ busy \in BOOLEAN /\ flg \in BOOLEAN /\ toggle \in BOOLEAN
      /\ lines \in Lines /\ view \in Lines /\ toPC \in Seq(Lines) /\ p_bytes \in Seq(Bytes)
      /\ timeouts \in 0..MaxTimeouts /\ MaxTimeouts \in Nat
  BY WireAssumption DEF WireInv, Types
<1>3. busy' \in BOOLEAN /\ flg' \in BOOLEAN /\ toggle' \in BOOLEAN
  BY <1>2 DEF PcRead, PcMagic, PcAck, PcSelected, PcNoSelect, PcPutByte, PcPutBusy, PcSendLost,
              PcFinal, PcRecv, PcGetByte, PcGetBusy, PcRecvFail, PcFail
<1>4. view' \in Lines /\ toPC' \in Seq(Lines)
  <2>1. \/ view' = view /\ toPC' = toPC
        \/ toPC # <<>> /\ view' = Head(toPC) /\ toPC' = Tail(toPC)
    BY DEF PcRead, PcMagic, PcAck, PcSelected, PcNoSelect, PcPutByte, PcPutBusy, PcSendLost,
           PcFinal, PcRecv, PcGetByte, PcGetBusy, PcRecvFail, PcFail
  <2> QED  BY <1>2, <2>1, HeadTailProperties
<1>5. lines' \in Lines
  <2>1. \/ lines' = lines
        \/ lines' = [lines EXCEPT !.dat = SYNCBYTE_HEAD]
        \/ p_bytes # <<>> /\ lines' = [lines EXCEPT !.dat = Head(p_bytes)]
    BY DEF PcRead, PcMagic, PcAck, PcSelected, PcNoSelect, PcPutByte, PcPutBusy, PcSendLost,
           PcFinal, PcRecv, PcGetByte, PcGetBusy, PcRecvFail, PcFail
  <2>2. SYNCBYTE_HEAD \in Bytes
    BY DEF SYNCBYTE_HEAD, Bytes
  <2>3. p_bytes # <<>> => Head(p_bytes) \in Bytes
    BY <1>2
  <2>4. \A b \in Bytes : [lines EXCEPT !.dat = b] \in Lines
    BY <1>2, LinesFacts
  <2> QED  BY <1>2, <2>1, <2>2, <2>3, <2>4
<1>6. p_bytes' \in Seq(Bytes)
  <2>1. \/ p_bytes' = p_bytes
        \/ p_bytes' = <<>>
        \/ p_bytes # <<>> /\ p_bytes' = Tail(p_bytes)
        \/ p_bytes' = Append(p_bytes, view'.dat)
    BY DEF PcRead, PcMagic, PcAck, PcSelected, PcNoSelect, PcPutByte, PcPutBusy, PcSendLost,
           PcFinal, PcRecv, PcGetByte, PcGetBusy, PcRecvFail, PcFail
  <2>2. view'.dat \in Bytes
    BY <1>4, LinesFacts
  <2>3. <<>> \in Seq(Bytes) /\ Append(p_bytes, view'.dat) \in Seq(Bytes)
    BY <1>2, <2>2
  <2> QED  BY <1>2, <2>1, <2>3, HeadTailProperties
<1>7. timeouts' \in 0..MaxTimeouts
  <2>1. timeouts' = timeouts \/ (timeouts < MaxTimeouts /\ timeouts' = timeouts + 1)
    BY DEF PcRead, PcMagic, PcAck, PcSelected, PcNoSelect, PcPutByte, PcPutBusy, PcSendLost,
           PcFinal, PcRecv, PcGetByte, PcGetBusy, PcRecvFail, PcFail
  <2> QED  BY <1>2, <2>1
<1>8. \/ p_pc' \in {"idle", "recv", "recv_busy", "recv_unselect", "stopped"}
      \/ /\ p_pc' \in {"tx_magic", "tx_ack", "tx_select", "tx", "tx_busy", "tx_unselect"}
         /\ p_pc \in {"tx_magic", "tx_ack", "tx_select", "tx", "tx_busy", "tx_unselect"}
  <2>1. CASE PcRead
    BY <2>1 DEF PcRead, WireInv, Types
  <2>2. CASE PcMagic \/ PcAck \/ PcSelected \/ PcPutByte \/ PcPutBusy \/ PcFinal
    BY <2>2 DEF PcMagic, PcAck, PcSelected, PcPutByte, PcPutBusy, PcFinal
  <2>3. CASE PcNoSelect \/ PcSendLost \/ PcRecvFail
    BY <2>3 DEF PcNoSelect, PcSendLost, PcRecvFail, PcFail, Failed
  <2>4. CASE PcRecv \/ PcGetByte \/ PcGetBusy
    BY <2>4 DEF PcRecv, PcGetByte, PcGetBusy
  <2> QED  BY <2>1, <2>2, <2>3, <2>4
<1> QED  BY <1>1, <1>3, <1>4, <1>5, <1>6, <1>7, <1>8, PcStepWireInv

LEMMA PcEndWireInv == WireInv /\ (PcSent \/ PcReceived) => WireInv'
<1> SUFFICES ASSUME WireInv, PcSent \/ PcReceived PROVE WireInv'
  OBVIOUS
<1>1. /\ UNCHANGED <<lines, toPC, flg, inten, s_Flags, sig, a_pc, a_bytes, d7, view, toggle,
                     timeouts, offered>>
      /\ busy' = FALSE /\ p_pc' = "idle"
  BY DEF PcSent, PcReceived, amigaVars, flagVars
<1>2. "pc" \in Sides /\ Data(p_bytes) \in Seq(Bytes)
  BY DataBytes DEF Sides, WireInv, Types
<1>3. p_bytes' \in Seq(Bytes)
  <2>1. p_bytes \in Seq(Bytes) /\ <<>> \in Seq(Bytes)
    BY DEF WireInv, Types
  <2> QED  BY <2>1 DEF PcSent, PcReceived
<1>4. sent' \in Logs /\ rcvd' \in Logs
  <2>1. sent \in Logs /\ rcvd \in Logs
    BY DEF WireInv, Types
  <2>2. CASE PcSent
    <3>1. offered["pc"] # <<>>
      BY <2>2 DEF PcSent, WireInv, ToSend
    <3>2. Last(offered["pc"]) \in Seq(Bytes)
      BY <1>2, <3>1, LastOffered DEF WireInv
    <3> QED  BY <1>2, <2>1, <2>2, <3>2, LogTypes DEF PcSent
  <2>3. CASE PcReceived
    BY <1>2, <2>1, <2>3, LogTypes DEF PcReceived
  <2> QED  BY <2>2, <2>3
<1>5. Types'
  <2>1. busy' \in BOOLEAN
    BY <1>1
  <2>2. p_pc' = "idle" /\ Types
    BY <1>1 DEF WireInv
  <2> QED  BY <1>1, <1>3, <1>4, <2>1, <2>2 DEF Types
<1>6. Sendable' /\ ToSend' /\ SizeChecked' /\ Signals'
  BY <1>1 DEF WireInv, Sendable, ToSend, SizeChecked, Signals, RxSignalled
<1> QED  BY <1>5, <1>6 DEF WireInv

LEMMA StepWireInv == WireInv /\ [Next]_vars => WireInv'
<1> SUFFICES ASSUME WireInv, [Next]_vars PROVE WireInv'
  OBVIOUS
<1>1. CASE UNCHANGED vars
  BY <1>1 DEF vars, amigaVars, flagVars, pcVars, logs, WireInv, Types, Sendable, ToSend,
              SizeChecked, Signals, RxSignalled
<1>2. CASE Amiga
  BY <1>2, RequestWireInv, SendWireInv, SendEndWireInv, RecvWireInv, RecvEndWireInv
     DEF Amiga, hwsend, hwrecv
<1>3. CASE PC
  BY <1>3, PcStartWireInv, PcWireInv, PcEndWireInv DEF PC
<1>4. CASE Timeout
  BY <1>4, SendEndWireInv, RecvEndWireInv, PcWireInv DEF Timeout
<1> QED  BY <1>1, <1>2, <1>3, <1>4, InterruptWireInv DEF Next

LEMMA WireInvariant == Spec => []WireInv
BY InitWireInv, StepWireInv, PTL DEF Spec

\* Every variable holds what the code stores in it, and the buffer of hwrecv is kept
\* for every packet that has data (par.c, pario.asm, parblk.py), whatever times out.
THEOREM WireTypes == Spec => []TypeOK
<1>1. WireInv => TypeOK
  <2> SUFFICES ASSUME WireInv PROVE TypeOK
    OBVIOUS
  <2>1. BufferKept
    <3> SUFFICES ASSUME a_pc = "recv", Len(a_bytes) > HeaderSize, SizeOf(a_bytes) # 0
                 PROVE  Len(a_bytes) <= HeaderSize + BufferSize
      BY DEF BufferKept
    <3> DEFINE z == SizeOf(a_bytes)
               n == Len(a_bytes)
    <3>1. z <= BufferSize /\ n <= 6 + z
      BY WireAssumption DEF WireInv, Types, SizeChecked, HeaderSize
    <3>2. n \in Nat /\ BufferSize \in Nat
      BY WireAssumption, MaxSizeNat DEF WireInv, Types
    <3>3. z \in Nat
      <4>1. a_bytes \in Seq(Bytes) /\ Len(a_bytes) >= 4
        BY DEF WireInv, Types, HeaderSize
      <4> QED  BY <4>1, SizeOfFacts
    <3> HIDE DEF z, n
    <3>4. n <= 6 + BufferSize
      BY <3>1, <3>2, <3>3
    <3> QED  BY <3>4 DEF n, HeaderSize
  <2> QED  BY <2>1 DEF WireInv, TypeOK
<1> QED  BY <1>1, WireInvariant, PTL

\* The RX bit is set exactly while the receive signal is pending or hwrecv runs
\* (interrupt and hwrecv of pario.asm), so every packet is announced.
THEOREM SignalKept == Spec => []RxSignalled
<1>1. WireInv => RxSignalled
  BY DEF WireInv, Signals
<1> QED  BY <1>1, WireInvariant, PTL

-----------------------------------------------------------------------------
(* What the PC has yet to look at: the update it read last, then those on   *)
(* their way to it.  The Amiga adds at the end, the PC drops the first.     *)

SeenOf(q, v) == [i \in 0..Len(q) |-> IF i = 0 THEN v ELSE q[i]]
LastOf(q, v) == IF q = <<>> THEN v ELSE Last(q)
After(q, v, new) == Update(q, LastOf(q, v), new)

Seen  == SeenOf(toPC, view)
Ahead == Len(toPC)

LEMMA SeenOfFacts ==
    ASSUME NEW q \in Seq(Lines), NEW v \in Lines
    PROVE  /\ Len(q) \in Nat /\ (q = <<>> <=> Len(q) = 0)
           /\ \A i \in 0..Len(q) : SeenOf(q, v)[i] \in Lines
           /\ SeenOf(q, v)[0] = v /\ \A i \in 1..Len(q) : SeenOf(q, v)[i] = q[i]
           /\ LastOf(q, v) = SeenOf(q, v)[Len(q)] /\ LastOf(q, v) \in Lines
<1>1. Len(q) \in Nat /\ (q = <<>> <=> Len(q) = 0) /\ \A i \in 1..Len(q) : q[i] \in Lines
  OBVIOUS
<1>2. \A i \in 0..Len(q) : SeenOf(q, v)[i] = IF i = 0 THEN v ELSE q[i]
  BY DEF SeenOf
<1>3. SeenOf(q, v)[0] = v
  BY <1>1, <1>2
<1>4. \A i \in 1..Len(q) : SeenOf(q, v)[i] = q[i]
  BY <1>1, <1>2
<1>5. \A i \in 0..Len(q) : SeenOf(q, v)[i] \in Lines
  BY <1>1, <1>2
<1>6. LastOf(q, v) = SeenOf(q, v)[Len(q)]
  BY <1>1, <1>3, <1>4 DEF LastOf, Last
<1> QED  BY <1>1, <1>3, <1>4, <1>5, <1>6

LEMMA AfterSeenOf ==
    ASSUME NEW q \in Seq(Lines), NEW v \in Lines, NEW new \in Lines
    PROVE  /\ After(q, v, new) \in Seq(Lines)
           /\ Len(After(q, v, new)) \in {Len(q), Len(q) + 1}
           /\ new # LastOf(q, v) => Len(After(q, v, new)) = Len(q) + 1
           /\ \A i \in 0..Len(q) : SeenOf(After(q, v, new), v)[i] = SeenOf(q, v)[i]
           /\ SeenOf(After(q, v, new), v)[Len(After(q, v, new))] = new
           /\ LastOf(After(q, v, new), v) = new
<1> DEFINE n == After(q, v, new)
<1>0. n = Update(q, LastOf(q, v), new)
  BY DEF After
<1> HIDE DEF n
<1>3. /\ n \in Seq(Lines) /\ Len(n) \in {Len(q), Len(q) + 1}
      /\ new # LastOf(q, v) => Len(n) = Len(q) + 1
      /\ \A i \in 0..Len(q) : SeenOf(n, v)[i] = SeenOf(q, v)[i]
      /\ SeenOf(n, v)[Len(n)] = new /\ LastOf(n, v) = new
  <2>1. CASE new = LastOf(q, v)
    BY <1>0, <2>1, SeenOfFacts DEF Update
  <2>2. CASE new # LastOf(q, v)
    <3>1. n = Append(q, new)
      BY <1>0, <2>2 DEF Update
    <3>2. n \in Seq(Lines) /\ Len(n) = Len(q) + 1 /\ \A i \in 1..Len(q) : n[i] = q[i]
      BY <3>1, AppendProperties
    <3>3. n[Len(n)] = new
      BY <3>1, AppendProperties
    <3>4. Len(q) \in Nat /\ SeenOf(n, v)[0] = v /\ SeenOf(q, v)[0] = v
      BY <3>2, SeenOfFacts
    <3>5. /\ \A i \in 1..Len(n) : SeenOf(n, v)[i] = n[i]
          /\ LastOf(n, v) = SeenOf(n, v)[Len(n)]
      BY <3>2, SeenOfFacts
    <3>6. \A i \in 1..Len(q) : SeenOf(q, v)[i] = q[i]
      BY SeenOfFacts
    <3>7. \A i \in 0..Len(q) : SeenOf(n, v)[i] = SeenOf(q, v)[i]
      BY <3>2, <3>4, <3>5, <3>6
    <3>8. SeenOf(n, v)[Len(n)] = new
      BY <3>2, <3>3, <3>4, <3>5
    <3> QED  BY <3>2, <3>5, <3>7, <3>8
  <2> QED  BY <2>1, <2>2
<1> QED  BY <1>3 DEF n

LEMMA SeenFacts ==
    Types => /\ Ahead \in Nat /\ (toPC = <<>> <=> Ahead = 0)
             /\ \A i \in 0..Ahead : Seen[i] \in Lines
             /\ Seen[0] = view /\ LastSent = Seen[Ahead] /\ LastSent \in Lines
BY SeenOfFacts DEF Types, Seen, Ahead, LastSent, LastOf

LEMMA DriveSeen ==
    ASSUME Types, NEW new \in Lines, Drive(new), view' = view
    PROVE  /\ lines' = new /\ Ahead' \in {Ahead, Ahead + 1}
           /\ new # LastSent => Ahead' = Ahead + 1
           /\ \A i \in 0..Ahead : Seen'[i] = Seen[i]
           /\ Seen'[Ahead'] = new /\ LastSent' = new
<1>1. toPC \in Seq(Lines) /\ view \in Lines
  BY DEF Types
<1>2. lines' = new /\ toPC' = After(toPC, view, new)
  BY DEF Drive, LastSent, LastOf, After
<1>3. LastSent = LastOf(toPC, view) /\ LastSent' = LastOf(toPC', view)
  BY DEF LastSent, LastOf
<1>4. Seen' = SeenOf(toPC', view) /\ Ahead' = Len(toPC')
  BY DEF Seen, Ahead
<1> DEFINE n == After(toPC, view, new)
<1>5. /\ n \in Seq(Lines)
      /\ Len(n) \in {Len(toPC), Len(toPC) + 1}
      /\ new # LastOf(toPC, view) => Len(n) = Len(toPC) + 1
      /\ \A i \in 0..Len(toPC) : SeenOf(n, view)[i] = SeenOf(toPC, view)[i]
      /\ SeenOf(n, view)[Len(n)] = new
      /\ LastOf(n, view) = new
  BY <1>1, AfterSeenOf, Zenon
<1> HIDE DEF n
<1>6. toPC' = n
  BY <1>2 DEF n
<1> QED  BY <1>2, <1>3, <1>4, <1>5, <1>6 DEF Seen, Ahead

LEMMA DriveTwoSeen ==
    ASSUME Types, NEW first \in Lines, NEW second \in Lines, first # second,
           DriveTwo(first, second), view' = view
    PROVE  /\ lines' = second /\ Ahead' \in {Ahead + 1, Ahead + 2}
           /\ \A i \in 0..Ahead : Seen'[i] = Seen[i]
           /\ Ahead' = Ahead + 2 => Seen'[Ahead + 1] = first
           /\ Seen'[Ahead'] = second /\ LastSent' = second
<1> DEFINE q == After(toPC, view, first)
<1>1. toPC \in Seq(Lines) /\ view \in Lines
  BY DEF Types
<1>2. /\ q \in Seq(Lines) /\ Len(q) \in {Len(toPC), Len(toPC) + 1}
      /\ \A i \in 0..Len(toPC) : SeenOf(q, view)[i] = SeenOf(toPC, view)[i]
      /\ SeenOf(q, view)[Len(q)] = first /\ LastOf(q, view) = first
  BY <1>1, AfterSeenOf
<1>3. lines' = second /\ toPC' = Update(q, first, second)
  BY DEF DriveTwo, LastSent, LastOf, After
<1> HIDE DEF q
<1>4. toPC' = After(q, view, second)
  BY <1>2, <1>3 DEF After
<1> DEFINE n == After(q, view, second)
<1>5. /\ Len(toPC') = Len(q) + 1
      /\ \A i \in 0..Len(q) : SeenOf(toPC', view)[i] = SeenOf(q, view)[i]
      /\ SeenOf(toPC', view)[Len(toPC')] = second /\ LastOf(toPC', view) = second
  <2>1. second # LastOf(q, view)
    BY <1>2
  <2>2. /\ n \in Seq(Lines)
        /\ Len(n) \in {Len(q), Len(q) + 1}
        /\ second # LastOf(q, view) => Len(n) = Len(q) + 1
        /\ \A i \in 0..Len(q) : SeenOf(n, view)[i] = SeenOf(q, view)[i]
        /\ SeenOf(n, view)[Len(n)] = second
        /\ LastOf(n, view) = second
    BY <1>1, <1>2, AfterSeenOf, Zenon
  <2> HIDE DEF n
  <2>3. toPC' = n
    BY <1>4 DEF n
  <2> QED  BY <2>1, <2>2, <2>3
<1>6. LastSent' = LastOf(toPC', view)
  BY DEF LastSent, LastOf
<1>7. Seen' = SeenOf(toPC', view) /\ Ahead' = Len(toPC')
  BY DEF Seen, Ahead
<1>8. Len(toPC) \in Nat
  BY <1>1
<1>9. \A i \in 0..Len(toPC) : Seen'[i] = SeenOf(toPC, view)[i]
  BY <1>2, <1>5, <1>7, <1>8
<1>10. Ahead' = Len(toPC) + 2 => Seen'[Len(toPC) + 1] = first
  BY <1>2, <1>5, <1>7, <1>8
<1> QED  BY <1>2, <1>3, <1>5, <1>6, <1>7, <1>9, <1>10 DEF Seen, Ahead

LEMMA ReadSeen ==
    ASSUME Types, toPC # <<>>, view' = Head(toPC), toPC' = Tail(toPC)
    PROVE  /\ Ahead \in Nat /\ Ahead > 0 /\ Ahead' = Ahead - 1
           /\ \A i \in 0..Ahead' : Seen'[i] = Seen[i + 1]
           /\ view' = Seen[1] /\ LastSent' = LastSent
<1>1. toPC \in Seq(Lines) /\ Len(toPC) \in Nat /\ Len(toPC) > 0 /\ view \in Lines
  BY DEF Types
<1>2. /\ toPC' \in Seq(Lines) /\ Len(toPC') = Len(toPC) - 1 /\ view' = toPC[1]
      /\ \A i \in 1..Len(toPC') : toPC'[i] = toPC[i + 1]
  BY <1>1, HeadTailProperties
<1>3. view' \in Lines
  BY <1>1, <1>2
<1>4. \A i \in 1..Len(toPC) : SeenOf(toPC, view)[i] = toPC[i]
  BY <1>1, SeenOfFacts
<1>5. /\ SeenOf(toPC', view')[0] = view'
      /\ \A i \in 1..Len(toPC') : SeenOf(toPC', view')[i] = toPC'[i]
      /\ LastOf(toPC', view') = SeenOf(toPC', view')[Len(toPC')]
  BY <1>2, <1>3, SeenOfFacts
<1>6. \A i \in 0..Len(toPC') : SeenOf(toPC', view')[i] = SeenOf(toPC, view)[i + 1]
  BY <1>1, <1>2, <1>4, <1>5
<1>7. LastOf(toPC, view) = SeenOf(toPC, view)[Len(toPC)]
  BY <1>1, SeenOfFacts
<1>8. LastOf(toPC', view') = LastOf(toPC, view)
  BY <1>1, <1>2, <1>5, <1>6, <1>7
<1>9. LastSent = LastOf(toPC, view) /\ LastSent' = LastOf(toPC', view')
  BY DEF LastSent, LastOf
<1>10. view' = SeenOf(toPC, view)[1]
  BY <1>1, <1>2, <1>4
<1> QED  BY <1>1, <1>2, <1>6, <1>8, <1>9, <1>10 DEF Seen, Ahead

LEMMA KeepSeen ==
    ASSUME UNCHANGED <<view, toPC>>
    PROVE  Ahead' = Ahead /\ Seen' = Seen /\ LastSent' = LastSent
BY DEF Seen, Ahead, LastSent

-----------------------------------------------------------------------------
(* The bytes received so far, and those still to send.                     *)

IsFirst(b, out) == Len(b) <= Len(out) /\ \A k \in 1..Len(b) : b[k] = out[k]
IsRest(b, out) ==
    Len(b) <= Len(out) /\ \A k \in 1..Len(b) : b[k] = out[Len(out) - Len(b) + k]

LEMMA FirstAppend ==
    ASSUME NEW b \in Seq(Bytes), NEW out \in Seq(Bytes), NEW x \in Bytes,
           IsFirst(b, out), Len(b) < Len(out), x = out[Len(b) + 1]
    PROVE  /\ Append(b, x) \in Seq(Bytes) /\ Len(Append(b, x)) = Len(b) + 1
           /\ IsFirst(Append(b, x), out)
<1> DEFINE a == Append(b, x)
<1>1. Len(b) \in Nat /\ Len(out) \in Nat
  OBVIOUS
<1>2. /\ a \in Seq(Bytes) /\ Len(a) = Len(b) + 1 /\ a[Len(b) + 1] = x
      /\ \A k \in 1..Len(b) : a[k] = b[k]
  BY AppendProperties
<1> HIDE DEF a
<1>3. \A k \in 1..Len(a) : a[k] = out[k]
  BY <1>1, <1>2 DEF IsFirst
<1>4. IsFirst(a, out)
  BY <1>1, <1>2, <1>3 DEF IsFirst
<1> QED  BY <1>2, <1>4 DEF a

LEMMA FirstByte == ASSUME NEW out \in Seq(Bytes), NEW x \in Bytes, out # <<>>, x = out[1]
                   PROVE  IsFirst(<<x>>, out) /\ Len(<<x>>) = 1
BY DEF IsFirst

LEMMA FirstNone == ASSUME NEW out \in Seq(Bytes) PROVE IsFirst(<<>>, out)
BY DEF IsFirst

LEMMA RestTail ==
    ASSUME NEW b \in Seq(Bytes), NEW out \in Seq(Bytes), IsRest(b, out), b # <<>>
    PROVE  /\ Head(b) \in Bytes /\ Head(b) = out[Len(out) - Len(b) + 1]
           /\ Tail(b) \in Seq(Bytes) /\ Len(Tail(b)) = Len(b) - 1
           /\ IsRest(Tail(b), out) /\ Len(b) \in Nat /\ Len(b) > 0
<1> DEFINE t == Tail(b)
<1>1. Len(b) \in Nat /\ Len(b) > 0 /\ Len(out) \in Nat
  OBVIOUS
<1>2. Head(b) = b[1] /\ Head(b) \in Bytes
  OBVIOUS
<1>3. t \in Seq(Bytes) /\ Len(t) = Len(b) - 1 /\ \A k \in 1..Len(t) : t[k] = b[k + 1]
  BY HeadTailProperties
<1> HIDE DEF t
<1>4. b[1] = out[Len(out) - Len(b) + 1]
  BY <1>1 DEF IsRest
<1>5. \A k \in 1..Len(t) : t[k] = out[Len(out) - Len(t) + k]
  <2>1. SUFFICES ASSUME NEW k \in 1..Len(t) PROVE t[k] = out[Len(out) - Len(t) + k]
    OBVIOUS
  <2>2. k + 1 \in 1..Len(b) /\ Len(out) - Len(b) + (k + 1) = Len(out) - Len(t) + k
    BY <1>1, <1>3
  <2>3. b[k + 1] = out[Len(out) - Len(b) + (k + 1)]
    BY <2>2 DEF IsRest
  <2> QED  BY <1>3, <2>2, <2>3
<1>6. IsRest(t, out)
  BY <1>1, <1>3, <1>5 DEF IsRest
<1> QED  BY <1>1, <1>2, <1>3, <1>4, <1>6 DEF t

LEMMA RestWhole == ASSUME NEW out \in Seq(Bytes) PROVE IsRest(out, out)
BY DEF IsRest

LEMMA FirstWhole ==
    ASSUME NEW b \in Seq(Bytes), NEW out \in Seq(Bytes), IsFirst(b, out), Len(b) = Len(out)
    PROVE  b = out
BY DEF IsFirst

LEMMA FirstFacts ==
    ASSUME NEW data \in Packets, NEW b \in Seq(Bytes), IsFirst(b, Wire(data))
    PROVE  /\ Len(b) \in Nat /\ Len(b) <= HeaderSize + Len(data)
           /\ Len(b) >= 1 => b[1] = SYNCBYTE_HEAD
           /\ Len(b) >= 2 => b[2] = SYNCBYTE_NOCRC
           /\ Len(b) >= 4 => SizeOf(b) = Len(data)
           /\ Len(b) = HeaderSize + Len(data) => Data(b) = data
<1> DEFINE out == Wire(data)
<1>1. /\ out \in Seq(Bytes) /\ Len(out) = HeaderSize + Len(data)
      /\ out[1] = SYNCBYTE_HEAD /\ out[2] = SYNCBYTE_NOCRC
      /\ out[3] * 256 + out[4] = Len(data)
  BY WireBytes
<1>2. Len(b) \in Nat /\ IsFirst(b, out)
  OBVIOUS
<1>3. Data(out) = data
  BY DataOfWire
<1>4. Len(data) \in Nat
  BY PacketLen
<1> HIDE DEF out
<1>5. Len(b) <= Len(out) /\ \A k \in 1..Len(b) : b[k] = out[k]
  BY <1>2 DEF IsFirst
<1>6. Len(b) >= 4 => SizeOf(b) = Len(data)
  <2> SUFFICES ASSUME Len(b) >= 4 PROVE SizeOf(b) = Len(data)
    OBVIOUS
  <2>1. SizeOf(b) = b[3] * 256 + b[4]
    BY SizeOfFacts
  <2>2. b[3] = out[3] /\ b[4] = out[4]
    BY <1>2, <1>5
  <2> QED  BY <1>1, <2>1, <2>2
<1>7. Len(b) = HeaderSize + Len(data) => b = out
  BY <1>1, <1>2, FirstWhole
<1> QED  BY <1>1, <1>2, <1>3, <1>4, <1>5, <1>6, <1>7

\* Only the whole packet ends a reception, and nothing of it is refused but its size.
LEMMA ReceptionFacts ==
    ASSUME NEW data \in Packets, NEW b \in Seq(Bytes), IsFirst(b, Wire(data))
    PROVE  /\ Taken(b) <=> Len(b) = Len(Wire(data))
           /\ Complete(b, SizeOf(b)) <=> Len(b) = Len(Wire(data))
           /\ Refused(b) => Len(b) = SizeAt /\ Len(data) >= 2
           /\ ~Rejected(b)
           /\ Len(b) = Len(Wire(data)) => Data(b) = data
<1>1. /\ Len(b) \in Nat /\ Len(b) <= HeaderSize + Len(data)
      /\ Len(b) >= 1 => b[1] = SYNCBYTE_HEAD
      /\ Len(b) >= 2 => b[2] = SYNCBYTE_NOCRC
      /\ Len(b) >= 4 => SizeOf(b) = Len(data)
      /\ Len(b) = HeaderSize + Len(data) => Data(b) = data
  BY FirstFacts
<1>2. Len(Wire(data)) = HeaderSize + Len(data)
  BY WireBytes
<1>3. Len(data) \in Nat /\ Len(data) >= 1
  BY PacketLen, MaxSizeNat
<1>4. Complete(b, SizeOf(b)) <=> Len(b) = HeaderSize + Len(data)
  BY <1>1, <1>3 DEF Complete, HeaderSize
<1>5. Taken(b) <=> Complete(b, SizeOf(b))
  <2>1. CASE Len(b) >= HeaderSize
    BY <1>1, <1>3, <2>1 DEF Taken, HeaderSize
  <2>2. CASE ~(Len(b) >= HeaderSize)
    BY <2>2 DEF Taken, Complete
  <2> QED  BY <2>1, <2>2
<1>6. Refused(b) => Len(b) = SizeAt /\ Len(data) >= 2
  <2> SUFFICES ASSUME Refused(b) PROVE Len(b) = SizeAt /\ Len(data) >= 2
    OBVIOUS
  <2>1. ~(Len(b) = 2 /\ b[2] \notin {SYNCBYTE_CRC, SYNCBYTE_NOCRC})
    BY <1>1
  <2>2. Len(b) = SizeAt /\ SizeOf(b) > BufferSize
    BY <2>1 DEF Refused
  <2>3. SizeOf(b) = Len(data)
    BY <1>1, <2>2, WireAssumption
  <2>4. BufferSize \in Nat /\ BufferSize >= 1
    BY WireAssumption, MaxSizeNat
  <2> QED  BY <1>3, <2>2, <2>3, <2>4
<1>7. ~Rejected(b)
  BY <1>1 DEF Rejected, SYNCBYTE_HEAD
<1> QED  BY <1>1, <1>2, <1>4, <1>5, <1>6, <1>7

-----------------------------------------------------------------------------
(* The packets of the two programs that take turns.                        *)

\* What the theorems below assume of the programs: they take turns, as the test programs
\* do, and the Amiga is not overtaken while it starts a transfer.
Peaceful == Turns /\ Prompt

Odd(n) == n % 2 = 1
LEMMA OddNext == /\ ~Odd(0) /\ Odd(1) /\ ~Odd(SizeAt)
                 /\ \A n \in Nat : Odd(n + 1) <=> ~Odd(n)
BY WireAssumption DEF Odd

\* It is the turn of s: the one who starts has offered as many packets as the other, the
\* other one less.
Second(s) == IF s = Starter THEN 0 ELSE 1
Due(s) == Len(offered[s]) = Len(offered[Other(s)]) - Second(s)

\* A log is one packet longer than another; of what s offered, one packet is not
\* confirmed, or not delivered, or all are.
Grown(longer, shorter) == longer # <<>> /\ longer = Append(shorter, Last(longer))
Sending(s)   == Grown(offered[s], sent[s])
Arriving(s)  == Grown(offered[s], rcvd[Other(s)])
Confirmed(s) == sent[s] = offered[s]
Delivered(s) == rcvd[Other(s)] = offered[s]

Out(s) == Wire(Last(offered[s]))

\* Where the two packets on the wire are: none is; that of the PC is; the Amiga
\* has it; the Amiga has it and sends the next one; that one is on the wire;
\* the Amiga has sent it.
Quiet       == (\A s \in Sides : Confirmed(s) /\ Delivered(s)) /\ \E s \in Sides : Due(s)
PcOpen      == /\ Sending("pc") /\ Arriving("pc")
               /\ Confirmed("amiga") /\ Delivered("amiga") /\ Due("amiga")
PcTaken     == /\ Sending("pc") /\ Delivered("pc")
               /\ Confirmed("amiga") /\ Delivered("amiga") /\ Due("amiga")
AmigaAnswers == /\ Sending("pc") /\ Delivered("pc")
                /\ Sending("amiga") /\ Arriving("amiga") /\ Due("pc")
AmigaOpen   == /\ Confirmed("pc") /\ Delivered("pc")
               /\ Sending("amiga") /\ Arriving("amiga") /\ Due("pc")
AmigaTaken  == /\ Confirmed("pc") /\ Delivered("pc")
               /\ Confirmed("amiga") /\ Arriving("amiga") /\ Due("pc")

\* A step in which nothing times out.  Of the packets that the Amiga may send, only that
\* it is its turn and that they have a size matters.
Request ==
    /\ a_pc = "idle" /\ LineFree /\ Delivered("pc") /\ Due("amiga")
    /\ \E p \in Packets : offered' = [offered EXCEPT !["amiga"] = Append(@, p)]
    /\ Drive([lines EXCEPT !.pout = TRUE])
    /\ a_bytes' = Out("amiga")' /\ a_pc' = "requested"
    /\ UNCHANGED <<busy, flg, inten, flagVars, d7, pcVars, timeouts, sent, rcvd>>
AmigaGoes == SendNoLine \/ SendLine \/ hwsend \/ RecvStart \/ hwrecv
Going == interrupt \/ Request \/ AmigaGoes \/ PC

LEMMA OtherSide == Other("amiga") = "pc" /\ Other("pc") = "amiga" /\ Sides = {"amiga", "pc"}
BY DEF Other, Sides

LEMMA LogLens ==
    Types => \A s \in Sides :
        /\ offered[s] \in Seq(Seq(Bytes)) /\ sent[s] \in Seq(Seq(Bytes))
        /\ rcvd[s] \in Seq(Seq(Bytes))
        /\ Len(offered[s]) \in Nat /\ Len(sent[s]) \in Nat /\ Len(rcvd[s]) \in Nat
BY DEF Types, Logs

LEMMA GrownAppend ==
    ASSUME NEW s \in Seq(Seq(Bytes)), NEW p \in Seq(Bytes)
    PROVE  /\ Append(s, p) \in Seq(Seq(Bytes)) /\ Grown(Append(s, p), s)
           /\ Last(Append(s, p)) = p /\ Len(Append(s, p)) = Len(s) + 1
<1>1. /\ Append(s, p) \in Seq(Seq(Bytes)) /\ Append(s, p) # <<>>
      /\ Len(Append(s, p)) = Len(s) + 1 /\ Append(s, p)[Len(s) + 1] = p
  BY AppendProperties
<1>2. Last(Append(s, p)) = p
  BY <1>1 DEF Last
<1> QED  BY <1>1, <1>2 DEF Grown

LEMMA GrownLast == ASSUME NEW l \in Seq(Seq(Bytes)), l # <<>> PROVE Last(l) \in Seq(Bytes)
BY DEF Last

LEMMA GrownFacts ==
    ASSUME NEW l \in Seq(Seq(Bytes)), NEW s \in Seq(Seq(Bytes)), Grown(l, s)
    PROVE  l # <<>> /\ Last(l) \in Seq(Bytes) /\ l = Append(s, Last(l)) /\ Len(l) = Len(s) + 1
<1>1. l # <<>> /\ l = Append(s, Last(l))
  BY DEF Grown
<1>2. Last(l) \in Seq(Bytes)
  BY <1>1, GrownLast
<1>3. Len(l) = Len(s) + 1
  BY <1>1, <1>2, GrownAppend
<1> QED  BY <1>1, <1>2, <1>3

LEMMA GrownBoth ==
    ASSUME NEW l \in Seq(Seq(Bytes)), NEW s \in Seq(Seq(Bytes)), NEW t \in Seq(Seq(Bytes)),
           Grown(l, s), Grown(l, t)
    PROVE  s = t
<1>1. l = Append(s, Last(l)) /\ l = Append(t, Last(l)) /\ Last(l) \in Seq(Bytes)
  BY GrownFacts
<1> DEFINE e == Last(l)
<1> HIDE DEF e
<1>2. Append(s, e) = Append(t, e) /\ e \in Seq(Bytes)
  BY <1>1 DEF e
<1>3. Append(s, e) = Append(t, e) <=> s = t /\ e = e
  BY <1>2, AppendInjective
<1> QED  BY <1>2, <1>3

LEMMA OfferLogs ==
    ASSUME Types, NEW s \in Sides, NEW p \in Seq(Bytes), Confirmed(s), Delivered(s),
           offered' = [offered EXCEPT ![s] = Append(@, p)], UNCHANGED <<sent, rcvd>>
    PROVE  /\ Sending(s)' /\ Arriving(s)' /\ Last(offered'[s]) = p
           /\ Len(offered'[s]) = Len(offered[s]) + 1
           /\ offered'[Other(s)] = offered[Other(s)]
<1>1. /\ offered[s] \in Seq(Seq(Bytes))
      /\ sent[s] = offered[s] /\ rcvd[Other(s)] = offered[s]
  BY LogLens DEF Confirmed, Delivered
<1>2. offered'[s] = Append(offered[s], p) /\ offered'[Other(s)] = offered[Other(s)]
  BY DEF Types, Logs, Other, Sides
<1>3. Grown(offered'[s], offered[s]) /\ Last(offered'[s]) = p
      /\ Len(offered'[s]) = Len(offered[s]) + 1
  BY <1>1, <1>2, GrownAppend
<1> QED  BY <1>1, <1>2, <1>3 DEF Sending, Arriving

LEMMA DeliverLogs ==
    ASSUME Types, NEW s \in Sides, Arriving(s),
           rcvd' = [rcvd EXCEPT ![Other(s)] = Append(@, Last(offered[s]))], UNCHANGED offered
    PROVE  Delivered(s)' /\ rcvd'[s] = rcvd[s]
<1>1. offered[s] = Append(rcvd[Other(s)], Last(offered[s]))
  BY DEF Arriving, Grown
<1>2. rcvd'[Other(s)] = Append(rcvd[Other(s)], Last(offered[s])) /\ rcvd'[s] = rcvd[s]
  BY DEF Types, Logs, Other, Sides
<1> QED  BY <1>1, <1>2 DEF Delivered

LEMMA ConfirmLogs ==
    ASSUME Types, NEW s \in Sides, Sending(s),
           sent' = [sent EXCEPT ![s] = Append(@, Last(offered[s]))], UNCHANGED offered
    PROVE  Confirmed(s)' /\ sent'[Other(s)] = sent[Other(s)]
<1>1. offered[s] = Append(sent[s], Last(offered[s]))
  BY DEF Sending, Grown
<1>2. sent'[s] = Append(sent[s], Last(offered[s])) /\ sent'[Other(s)] = sent[Other(s)]
  BY DEF Types, Logs, Other, Sides
<1> QED  BY <1>1, <1>2 DEF Confirmed

LEMMA DueFacts ==
    ASSUME Types, Types'
    PROVE  /\ ~(Due("amiga") /\ Due("pc"))
           /\ Due("amiga") /\ Len(offered'["amiga"]) = Len(offered["amiga"]) + 1
              /\ offered'["pc"] = offered["pc"] => Due("pc")'
           /\ Due("pc") /\ Len(offered'["pc"]) = Len(offered["pc"]) + 1
              /\ offered'["amiga"] = offered["amiga"] => Due("amiga")'
<1>1. Len(offered["amiga"]) \in Nat /\ Len(offered["pc"]) \in Nat
  BY LogLens, OtherSide
<1>2. Len(offered'["amiga"]) \in Nat /\ Len(offered'["pc"]) \in Nat
  <2>1. offered' \in [Sides -> Seq(Seq(Bytes))]
    BY DEF Types, Logs
  <2> QED  BY <2>1, OtherSide
<1>3. Second("amiga") \in Int /\ Second("pc") \in Int /\ Second("amiga") + Second("pc") = 1
  <2>1. Starter = "amiga" \/ Starter = "pc"
    BY WireAssumption, OtherSide
  <2> QED  BY <2>1 DEF Second
<1>4. /\ Due("amiga") <=> Len(offered["amiga"]) = Len(offered["pc"]) - Second("amiga")
      /\ Due("pc") <=> Len(offered["pc"]) = Len(offered["amiga"]) - Second("pc")
  BY OtherSide DEF Due
<1>5. /\ Due("amiga")' <=> Len(offered'["amiga"]) = Len(offered'["pc"]) - Second("amiga")
      /\ Due("pc")' <=> Len(offered'["pc"]) = Len(offered'["amiga"]) - Second("pc")
  BY OtherSide DEF Due
<1>6. ~(Due("amiga") /\ Due("pc"))
  BY <1>1, <1>3, <1>4
<1>7. Due("amiga") /\ Len(offered'["amiga"]) = Len(offered["amiga"]) + 1
      /\ offered'["pc"] = offered["pc"] => Due("pc")'
  BY <1>1, <1>2, <1>3, <1>4, <1>5
<1>8. Due("pc") /\ Len(offered'["pc"]) = Len(offered["pc"]) + 1
      /\ offered'["amiga"] = offered["amiga"] => Due("amiga")'
  BY <1>1, <1>2, <1>3, <1>4, <1>5
<1> QED  BY <1>6, <1>7, <1>8

\* A side sends when it is its turn.
LEMMA MaySendFacts ==
    ASSUME Types, Turns, NEW s \in Sides, MaySend(s)
    PROVE  /\ Delivered(Other(s)) => Due(s)
           /\ ~(Arriving(Other(s)) /\ Due(s))
<1>1. Len(offered[s]) \in Nat /\ Len(offered[Other(s)]) \in Nat /\ Len(rcvd[s]) \in Nat
  BY LogLens, OtherSide
<1>2. Other(Other(s)) = s
  BY OtherSide
<1>3. Len(offered[s]) = Len(rcvd[s]) - Second(s) /\ Second(s) \in Int
  <2>1. CASE s = Starter
    BY <1>1, <2>1 DEF MaySend, Second
  <2>2. CASE s # Starter
    BY <1>1, <2>2 DEF MaySend, Second
  <2> QED  BY <2>1, <2>2
<1>4. Delivered(Other(s)) => Due(s)
  BY <1>2, <1>3 DEF Delivered, Due
<1>5. Arriving(Other(s)) => Len(offered[Other(s)]) = Len(rcvd[s]) + 1
  BY <1>2, LogLens, OtherSide, GrownFacts DEF Arriving
<1>6. ~(Arriving(Other(s)) /\ Due(s))
  BY <1>1, <1>3, <1>5 DEF Due
<1> QED  BY <1>4, <1>6

-----------------------------------------------------------------------------
(* The Amiga leaves the port and begins to send, with the PC behind it.    *)
(* Update f is the one with both lines down: those before it belong to the *)
(* last transfer, those after it to the next one, and -1 or -2 says that   *)
(* the PC has read that many of these.                                     *)

Calm == ~flg /\ ~sig
Down(update) == ~update.pout /\ ~update.sel

Started(f) ==
    /\ ~busy /\ LastSent = lines /\ lines.pout
    /\ a_bytes \in Seq(Bytes) /\ IsRest(a_bytes, Out("amiga"))
    /\ a_pc \in {"requested", "have_line", "send_sample", "send"}
    /\ a_pc \in {"requested", "have_line"} =>
          Ahead = f + 1 /\ ~lines.sel /\ a_bytes = Out("amiga")
    /\ a_pc = "send_sample" => Ahead = f + 2 /\ lines.sel /\ a_bytes = Out("amiga")
    /\ a_pc = "send" => /\ Ahead \in {f + 2, f + 3} /\ lines.sel /\ ~d7
                        /\ lines.dat = SYNCBYTE_HEAD
                        /\ Len(a_bytes) = Len(Out("amiga")) - 1
Begun(f) ==
    /\ f >= 0 => f <= Ahead /\ Down(Seen[f])
    /\ \A i \in 0..Ahead : i > f => Seen[i].pout /\ (Seen[i].sel <=> i > f + 1)
    /\ IF a_pc = "idle" THEN Ahead = f /\ Down(lines) ELSE Started(f)

\* The updates of the last transfer.
StillSelected(f) == \A i \in 0..(f - 1) : Seen[i].sel

LEMMA BegunRead ==
    ASSUME Types, NEW f \in Int, Begun(f), toPC # <<>>, view' = Head(toPC), toPC' = Tail(toPC),
           UNCHANGED <<busy, lines, a_pc, a_bytes, d7, offered>>
    PROVE  Begun(f - 1)'
<1>1. /\ Ahead \in Nat /\ Ahead > 0 /\ Ahead' = Ahead - 1
      /\ \A i \in 0..Ahead' : Seen'[i] = Seen[i + 1]
      /\ LastSent' = LastSent
  BY ReadSeen
<1>2. f - 1 >= 0 => f - 1 <= Ahead' /\ Down(Seen'[f - 1])
  <2> SUFFICES ASSUME f - 1 >= 0 PROVE f - 1 <= Ahead' /\ Down(Seen'[f - 1])
    OBVIOUS
  <2>1. f <= Ahead /\ Down(Seen[f])
    BY DEF Begun
  <2>2. f - 1 \in 0..Ahead' /\ (f - 1) + 1 = f
    BY <1>1, <2>1
  <2>3. Seen'[f - 1] = Seen[f]
    BY <1>1, <2>2
  <2> QED  BY <2>1, <2>2, <2>3
<1>3. \A i \in 0..Ahead' : i > f - 1 => Seen'[i].pout /\ (Seen'[i].sel <=> i > (f - 1) + 1)
  <2> SUFFICES ASSUME NEW i \in 0..Ahead', i > f - 1
               PROVE  Seen'[i].pout /\ (Seen'[i].sel <=> i > (f - 1) + 1)
    OBVIOUS
  <2>1. i + 1 \in 0..Ahead /\ i + 1 > f /\ (i + 1 > f + 1 <=> i > (f - 1) + 1)
    BY <1>1
  <2>2. Seen[i + 1].pout /\ (Seen[i + 1].sel <=> i + 1 > f + 1)
    BY <2>1 DEF Begun
  <2> QED  BY <1>1, <2>1, <2>2
<1>4. a_pc = "idle" => Ahead' = f - 1 /\ Down(lines)
  BY <1>1 DEF Begun
<1>5. a_pc # "idle" => Started(f - 1)'
  <2> SUFFICES ASSUME a_pc # "idle" PROVE Started(f - 1)'
    OBVIOUS
  <2>1. Started(f)
    BY DEF Begun
  <2>2. Out("amiga")' = Out("amiga")
    BY DEF Out
  <2>3. /\ Ahead = f + 1 => Ahead' = (f - 1) + 1
        /\ Ahead = f + 2 => Ahead' = (f - 1) + 2
        /\ Ahead \in {f + 2, f + 3} => Ahead' \in {(f - 1) + 2, (f - 1) + 3}
    BY <1>1
  <2> QED  BY <1>1, <2>1, <2>2, <2>3 DEF Started
<1> QED  BY <1>2, <1>3, <1>4, <1>5 DEF Begun

\* The packet that was offered is on its way.
LEMMA BegunRequest ==
    ASSUME WireInv, WireInv', NEW f \in Nat, Begun(f), Request
    PROVE  Begun(f)' /\ UNCHANGED <<view, sent, rcvd>> /\ a_pc' = "requested"
           /\ Ahead' = Ahead + 1 /\ \A i \in 0..Ahead : Seen'[i] = Seen[i]
<1> DEFINE new == [lines EXCEPT !.pout = TRUE]
<1>1. /\ a_pc = "idle" /\ ~busy /\ busy' = busy /\ view' = view /\ a_pc' = "requested"
      /\ Drive(new) /\ a_bytes' = Out("amiga")' /\ UNCHANGED <<sent, rcvd>>
  BY DEF Request, LineFree, pcVars
<1>2. Types /\ Ahead = f /\ Down(lines) /\ Down(Seen[f])
  BY <1>1 DEF Begun, WireInv
<1>3. new \in Lines /\ new.pout /\ ~new.sel
  BY <1>2 DEF Types, Lines, Down
<1>4. Ahead \in Nat /\ LastSent = Seen[Ahead]
  BY <1>2, SeenFacts
<1>5. new # LastSent
  BY <1>2, <1>3, <1>4 DEF Down
<1> HIDE DEF new
<1>6. /\ lines' = new /\ Ahead' = Ahead + 1 /\ LastSent' = new
      /\ \A i \in 0..Ahead : Seen'[i] = Seen[i]
      /\ Seen'[Ahead'] = new
  BY <1>1, <1>2, <1>3, <1>5, DriveSeen
<1>7. f <= Ahead' /\ Down(Seen'[f])
  BY <1>2, <1>4, <1>6
<1>8. \A i \in 0..Ahead' : i > f => Seen'[i].pout /\ (Seen'[i].sel <=> i > f + 1)
  <2> SUFFICES ASSUME NEW i \in 0..Ahead', i > f
               PROVE  Seen'[i].pout /\ (Seen'[i].sel <=> i > f + 1)
    OBVIOUS
  <2>1. i = Ahead' /\ ~(i > f + 1)
    BY <1>2, <1>4, <1>6
  <2> QED  BY <1>3, <1>6, <2>1
<1>9. a_bytes' \in Seq(Bytes) /\ IsRest(a_bytes', Out("amiga")')
  <2>1. a_bytes' \in Seq(Bytes)
    BY DEF WireInv, Types
  <2> QED  BY <1>1, <2>1, RestWhole
<1>10. Started(f)'
  BY <1>1, <1>2, <1>3, <1>6, <1>9 DEF Started
<1> QED  BY <1>1, <1>6, <1>7, <1>8, <1>10 DEF Begun

\* A step of the Amiga before the PC sees it: it appends at most one update.
LEMMA BegunAppend ==
    ASSUME Types, NEW f \in Int, Begun(f), a_pc # "idle", NEW new \in Lines, Drive(new),
           view' = view, new.pout, new.sel, Ahead >= f + 1
    PROVE  /\ f >= 0 => f <= Ahead' /\ Down(Seen'[f])
           /\ \A i \in 0..Ahead' : i > f => Seen'[i].pout /\ (Seen'[i].sel <=> i > f + 1)
           /\ Ahead' \in {Ahead, Ahead + 1} /\ (new # LastSent => Ahead' = Ahead + 1)
           /\ lines' = new /\ LastSent' = new
           /\ \A i \in 0..Ahead : Seen'[i] = Seen[i]
<1>1. /\ lines' = new /\ Ahead' \in {Ahead, Ahead + 1} /\ LastSent' = new
      /\ new # LastSent => Ahead' = Ahead + 1
      /\ \A i \in 0..Ahead : Seen'[i] = Seen[i]
      /\ Seen'[Ahead'] = new
  BY DriveSeen
<1>2. Ahead \in Nat /\ Ahead' \in Nat
  BY <1>1, SeenFacts
<1>3. f >= 0 => f <= Ahead' /\ Down(Seen'[f])
  BY <1>1, <1>2 DEF Begun
<1>4. \A i \in 0..Ahead : i > f => Seen'[i].pout /\ (Seen'[i].sel <=> i > f + 1)
  BY <1>1 DEF Begun
<1>5. Ahead' = Ahead + 1 =>
        Seen'[Ahead'].pout /\ (Seen'[Ahead'].sel <=> Ahead' > f + 1)
  BY <1>1, <1>2
<1>6. \A i \in 0..Ahead' : i \in 0..Ahead \/ (i = Ahead' /\ Ahead' = Ahead + 1)
  BY <1>1, <1>2
<1>7. \A i \in 0..Ahead' : i > f => Seen'[i].pout /\ (Seen'[i].sel <=> i > f + 1)
  BY <1>4, <1>5, <1>6
<1> QED  BY <1>1, <1>3, <1>7

LEMMA BegunStart ==
    ASSUME WireInv, NEW f \in Int, Begun(f), SendStart
    PROVE  Begun(f)' /\ a_pc' = "send_sample" /\ \A i \in 0..Ahead : Seen'[i] = Seen[i]
<1> DEFINE new == [lines EXCEPT !.sel = TRUE]
<1>1. /\ a_pc = "have_line" /\ a_pc' = "send_sample" /\ Drive(new) /\ view' = view
      /\ UNCHANGED <<busy, a_bytes, offered>>
  BY DEF SendStart, pcVars, logs
<1>2. Types /\ Started(f)
  BY <1>1 DEF WireInv, Begun
<1>3. /\ new \in Lines /\ new.pout /\ new.sel
      /\ ~lines.sel /\ lines.pout /\ LastSent = lines /\ Ahead = f + 1
  BY <1>1, <1>2 DEF Types, Lines, Started
<1>4. new # LastSent
  BY <1>3
<1> HIDE DEF new
<1>5. Ahead \in Nat /\ Ahead >= f + 1
  BY <1>2, <1>3, SeenFacts
<1>6. /\ f >= 0 => f <= Ahead' /\ Down(Seen'[f])
      /\ \A i \in 0..Ahead' : i > f => Seen'[i].pout /\ (Seen'[i].sel <=> i > f + 1)
      /\ Ahead' = Ahead + 1 /\ lines' = new /\ LastSent' = new
      /\ \A i \in 0..Ahead : Seen'[i] = Seen[i]
  BY <1>1, <1>2, <1>3, <1>4, <1>5, BegunAppend
<1>7. Out("amiga")' = Out("amiga")
  BY <1>1 DEF Out
<1>8. Ahead' = f + 2 /\ lines'.pout /\ lines'.sel /\ LastSent' = lines'
  BY <1>3, <1>5, <1>6
<1>9. Started(f)'
  BY <1>1, <1>2, <1>7, <1>8 DEF Started
<1> QED  BY <1>1, <1>6, <1>9 DEF Begun

LEMMA BegunSample ==
    ASSUME WireInv, NEW f \in Int, Begun(f), SendSample
    PROVE  Begun(f)' /\ a_pc' = "send" /\ \A i \in 0..Ahead : Seen'[i] = Seen[i]
<1> DEFINE new == [lines EXCEPT !.dat = Head(a_bytes)]
           out == Out("amiga")
<1>1. /\ a_pc = "send_sample" /\ a_pc' = "send" /\ Drive(new) /\ view' = view
      /\ d7' = busy /\ a_bytes' = Tail(a_bytes) /\ UNCHANGED <<busy, offered>>
  BY DEF SendSample, pcVars, logs
<1>2. Types /\ Sendable /\ Started(f)
  BY <1>1 DEF WireInv, Begun
<1>3. /\ lines.pout /\ lines.sel /\ LastSent = lines /\ Ahead = f + 2 /\ ~busy
      /\ a_bytes = out
  BY <1>1, <1>2 DEF Started
<1>4. offered["amiga"] # <<>>
  BY <1>1 DEF WireInv, ToSend
<1>5. out \in Seq(Bytes) /\ Len(out) >= 1 /\ out[1] = SYNCBYTE_HEAD
  <2>1. Last(offered["amiga"]) \in Packets
    BY <1>2, <1>4, LastOffered, OtherSide
  <2>2. Len(Last(offered["amiga"])) \in Nat
    BY <2>1, PacketLen
  <2> QED  BY <2>1, <2>2, WireBytes DEF Out, HeaderSize
<1>6. a_bytes \in Seq(Bytes) /\ a_bytes # <<>> /\ IsRest(a_bytes, out)
  BY <1>3, <1>5, RestWhole
<1>7. /\ Head(a_bytes) \in Bytes /\ Head(a_bytes) = SYNCBYTE_HEAD
      /\ Tail(a_bytes) \in Seq(Bytes) /\ Len(Tail(a_bytes)) = Len(out) - 1
      /\ IsRest(Tail(a_bytes), out)
  <2>1. Head(a_bytes) = out[1]
    BY <1>3, <1>5
  <2> QED  BY <1>3, <1>5, <1>6, <2>1, RestTail
<1>8. new \in Lines /\ new.pout /\ new.sel /\ new.dat = SYNCBYTE_HEAD
  BY <1>2, <1>3, <1>7 DEF Types, Lines
<1> HIDE DEF new
<1>9. Ahead \in Nat /\ Ahead >= f + 1
  BY <1>2, <1>3, SeenFacts
<1>10. /\ f >= 0 => f <= Ahead' /\ Down(Seen'[f])
       /\ \A i \in 0..Ahead' : i > f => Seen'[i].pout /\ (Seen'[i].sel <=> i > f + 1)
       /\ Ahead' \in {Ahead, Ahead + 1} /\ lines' = new /\ LastSent' = new
       /\ \A i \in 0..Ahead : Seen'[i] = Seen[i]
  BY <1>1, <1>2, <1>8, <1>9, BegunAppend
<1>11. Out("amiga")' = out
  BY <1>1 DEF Out
<1>12. Ahead' \in {f + 2, f + 3}
  BY <1>3, <1>10
<1> HIDE DEF out
<1>13. Started(f)'
  BY <1>1, <1>3, <1>7, <1>8, <1>10, <1>11, <1>12 DEF Started
<1> QED  BY <1>1, <1>10, <1>13 DEF Begun

LEMMA BegunLine ==
    ASSUME WireInv, NEW f \in Int, Begun(f), SendLine
    PROVE  Begun(f)' /\ a_pc' = "have_line" /\ UNCHANGED <<Ahead, Seen>>
<1>1. /\ a_pc = "requested" /\ a_pc' = "have_line"
      /\ UNCHANGED <<busy, lines, toPC, view, a_bytes, offered, d7>>
  BY DEF SendLine, pcVars, logs
<1>2. Ahead' = Ahead /\ Seen' = Seen /\ LastSent' = LastSent
  BY <1>1, KeepSeen
<1>3. Out("amiga")' = Out("amiga")
  BY <1>1 DEF Out
<1>4. Started(f)'
  BY <1>1, <1>2, <1>3 DEF Begun, Started
<1> QED  BY <1>1, <1>2, <1>4 DEF Begun

\* The end of a transfer: POUT falls, then SEL.
LEMMA ReleaseBegun ==
    ASSUME Types, Release, view' = view, lines.sel, a_pc' = "idle"
    PROVE  /\ Ahead' \in Nat /\ Ahead' > Ahead
           /\ \A i \in 0..Ahead : Seen'[i] = Seen[i]
           /\ \A i \in 0..Ahead' : i > Ahead /\ i < Ahead' => Seen'[i].sel
           /\ \A i \in 0..Ahead' : i > Ahead => ~Seen'[i].pout
           /\ \E f \in Nat : f = Ahead' /\ Begun(f)'
<1> DEFINE first  == [lines EXCEPT !.pout = FALSE]
           second == [lines EXCEPT !.pout = FALSE, !.sel = FALSE]
<1>1. /\ first \in Lines /\ second \in Lines /\ first # second
      /\ first.sel /\ ~first.pout /\ Down(second)
  BY DEF Types, Lines, Down
<1>2. DriveTwo(first, second)
  BY DEF Release
<1> HIDE DEF first, second
<1>3. /\ lines' = second /\ Ahead' \in {Ahead + 1, Ahead + 2}
      /\ \A i \in 0..Ahead : Seen'[i] = Seen[i]
      /\ Ahead' = Ahead + 2 => Seen'[Ahead + 1] = first
      /\ Seen'[Ahead'] = second
  BY <1>1, <1>2, DriveTwoSeen
<1>4. Ahead \in Nat /\ Ahead' \in Nat /\ Ahead' > Ahead
  BY <1>3, SeenFacts
<1>5. \A i \in 0..Ahead' : i > Ahead /\ i < Ahead' => Seen'[i].sel
  <2> SUFFICES ASSUME NEW i \in 0..Ahead', i > Ahead, i < Ahead' PROVE Seen'[i].sel
    OBVIOUS
  <2>1. i = Ahead + 1 /\ Ahead' = Ahead + 2
    BY <1>3, <1>4
  <2> QED  BY <1>1, <1>3, <2>1
<1>6. PICK f \in Nat : f = Ahead'
  BY <1>4
<1>7. \A i \in 0..Ahead' : ~(i > f)
  BY <1>4, <1>6
<1>8. f <= Ahead' /\ Ahead' = f /\ Down(Seen'[f]) /\ Down(lines')
  BY <1>1, <1>3, <1>4, <1>6
<1>9. Begun(f)'
  BY <1>7, <1>8 DEF Begun
<1>10. \A i \in 0..Ahead' : i > Ahead => ~Seen'[i].pout
  <2> SUFFICES ASSUME NEW i \in 0..Ahead', i > Ahead PROVE ~Seen'[i].pout
    OBVIOUS
  <2>1. i = Ahead' \/ (i = Ahead + 1 /\ Ahead' = Ahead + 2)
    BY <1>3, <1>4
  <2> QED  BY <1>1, <1>3, <2>1 DEF Down
<1> QED  BY <1>3, <1>4, <1>5, <1>6, <1>9, <1>10

-----------------------------------------------------------------------------
(* The phases of two transfers, one either way.                            *)

\* Nothing happens, or the program of the PC is about to send.
Rest ==
    /\ a_pc = "idle" /\ p_pc = "idle" /\ Calm /\ ~busy
    /\ Ahead = 0 /\ Down(view) /\ Down(lines)
    /\ Quiet

PcAll == /\ PcOpen
         /\ Len(p_bytes) = Len(Out("pc")) - 1 /\ IsRest(p_bytes, Out("pc"))

\* The PC asks for attention,
Calling ==
    /\ a_pc = "idle" /\ p_pc \in {"tx_magic", "tx_ack", "tx_select"}
    /\ p_pc = "tx_select" <=> flg \/ sig
    /\ ~(flg /\ sig)
    /\ busy /\ Ahead = 0 /\ Down(view) /\ Down(lines)
    /\ p_pc # "tx_magic" => lines.dat = SYNCBYTE_HEAD
    /\ PcAll
\* and gets it.
Selecting ==
    /\ a_pc = "recv_sample" /\ p_pc = "tx_select" /\ Calm /\ busy
    /\ Ahead = 1 /\ Down(view) /\ LastSent = lines
    /\ ~lines.pout /\ lines.sel /\ lines.dat = SYNCBYTE_HEAD
    /\ PcAll

AllSelected == \A i \in 0..Ahead : Seen[i].sel

\* The bytes go to the Amiga: it took the first one,
Selected ==
    /\ p_pc = "tx_select" /\ busy /\ d7 /\ lines.pout
    /\ Len(a_bytes) = 1 /\ Len(p_bytes) = Len(Out("pc")) - 1
    /\ Ahead \in {1, 2} /\ (Ahead = 2 => ~view.sel)
    /\ Seen[Ahead].pout /\ Seen[Ahead].sel
    /\ ~Seen[Ahead - 1].pout /\ Seen[Ahead - 1].sel
\* took all that were put,
Answered ==
    /\ p_pc = "tx" /\ busy = toggle /\ d7 = toggle /\ lines.pout = toggle
    /\ Len(a_bytes) + Len(p_bytes) = Len(Out("pc"))
    /\ AllSelected /\ Seen[Ahead].pout = toggle
    /\ \A i \in 0..Ahead : i < Ahead => Seen[i].pout # toggle
\* the next is put
Offering ==
    /\ p_pc = "tx_busy" /\ busy = toggle /\ d7 = toggle /\ lines.pout = toggle
    /\ Len(a_bytes) + Len(p_bytes) = Len(Out("pc")) - 1
    /\ lines.dat = Out("pc")[Len(a_bytes) + 1]
    /\ Ahead = 0 /\ view.sel /\ view.pout = toggle
\* and announced,
Offered ==
    /\ p_pc = "tx" /\ busy = toggle /\ d7 # toggle /\ lines.pout # toggle
    /\ Len(a_bytes) + Len(p_bytes) = Len(Out("pc")) - 1
    /\ lines.dat = Out("pc")[Len(a_bytes) + 1]
    /\ Ahead = 0 /\ view.sel /\ view.pout # toggle
\* or all are through.
AllPut ==
    /\ p_pc = "tx_unselect" /\ AllSelected
    /\ Len(a_bytes) = Len(Out("pc")) /\ p_bytes = <<>> /\ busy = lines.pout

ToAmiga ==
    /\ a_pc = "recv" /\ Calm /\ lines.sel /\ PcOpen
    /\ lines.pout <=> Odd(Len(a_bytes))
    /\ IsFirst(a_bytes, Out("pc")) /\ IsRest(p_bytes, Out("pc"))
    /\ Selected \/ Answered \/ Offering \/ Offered \/ AllPut

\* The packet does not fit: the Amiga gave it up after the header, and the PC, which
\* has bytes left, stops when it notices.
Silent == \A i \in 0..Ahead : ~Seen[i].pout
Fallen == \A i, j \in 0..Ahead : i <= j /\ ~Seen[i].pout => ~Seen[j].pout
Refusal ==
    /\ a_pc = "idle" /\ Calm /\ PcOpen /\ busy = toggle
    /\ \/ p_pc = "tx" /\ ~toggle /\ Len(p_bytes) >= 2 /\ Fallen
       \/ p_pc = "tx_busy" /\ ~toggle /\ Len(p_bytes) >= 1 /\ Silent
       \/ p_pc = "tx" /\ toggle /\ Len(p_bytes) >= 1 /\ Silent
Stopped == p_pc = "stopped" /\ a_pc = "idle" /\ Calm /\ PcOpen

\* The Amiga is through, the PC is not; the Amiga may begin to send.
PcSentAll ==
    /\ p_pc \in {"tx", "tx_unselect"} /\ Calm /\ p_bytes = <<>>
    /\ busy <=> Odd(Len(Out("pc")))
    /\ \E f \in 0..Ahead :
          /\ Begun(f) /\ StillSelected(f)
          /\ p_pc = "tx" => \E g \in 0..(f - 1) : Seen[g].pout = toggle
    /\ a_pc = "idle" => PcTaken
    /\ a_pc # "idle" => AmigaAnswers

\* The Amiga begins to send, and the PC has not noticed.
Waking ==
    /\ p_pc = "idle" /\ a_pc # "idle" /\ Calm
    /\ \E f \in -2..0 : Begun(f)
    /\ AmigaOpen

\* The bytes go to the PC: the next is put,
BytePut ==
    /\ p_pc = "recv" /\ busy = d7 /\ lines.pout = toggle /\ (busy <=> Odd(Len(p_bytes)))
    /\ Len(p_bytes) + Len(a_bytes) = Len(Out("amiga")) - 1
    /\ Seen[Ahead].pout = toggle /\ Seen[Ahead].dat = Out("amiga")[Len(p_bytes) + 1]
    /\ \A i \in 0..Ahead : i < Ahead - 1 => Seen[i].pout # toggle
\* the PC reads it
ByteRead ==
    /\ p_pc = "recv_busy" /\ busy = d7 /\ lines.pout = toggle /\ (busy <=> ~Odd(Len(p_bytes)))
    /\ Len(p_bytes) + Len(a_bytes) = Len(Out("amiga"))
    /\ Ahead = 0 /\ view.pout = toggle
\* and says so.
ByteTaken ==
    /\ p_pc \in {"recv", "recv_unselect"} /\ busy # d7 /\ lines.pout # toggle
    /\ busy <=> Odd(Len(p_bytes))
    /\ Len(p_bytes) + Len(a_bytes) = Len(Out("amiga"))
    /\ p_pc = "recv" <=> a_bytes # <<>>
    /\ Ahead = 0 /\ view.pout # toggle

ToPC ==
    /\ a_pc = "send" /\ Calm /\ lines.sel /\ AllSelected /\ toggle # busy
    /\ AmigaOpen
    /\ IsFirst(p_bytes, Out("amiga")) /\ IsRest(a_bytes, Out("amiga"))
    /\ BytePut \/ ByteRead \/ ByteTaken

\* The Amiga is through, the PC is not.
AmigaSentAll ==
    /\ p_pc = "recv_unselect" /\ a_pc = "idle" /\ Calm /\ (busy <=> Odd(Len(p_bytes)))
    /\ \E f \in 0..Ahead : Begun(f) /\ StillSelected(f)
    /\ IsFirst(p_bytes, Out("amiga")) /\ Len(p_bytes) = Len(Out("amiga"))
    /\ AmigaTaken

Phase == \/ Rest \/ Calling \/ Selecting \/ ToAmiga \/ Refusal \/ Stopped \/ PcSentAll
         \/ Waking \/ ToPC \/ AmigaSentAll

-----------------------------------------------------------------------------
(* Who can move.                                                           *)

LEMMA AmigaGuards ==
    /\ Request => a_pc = "idle" /\ ~busy /\ Delivered("pc") /\ Due("amiga")
    /\ SendNoLine => a_pc = "requested" /\ busy
    /\ SendLine => a_pc = "requested"
    /\ SendStart => a_pc = "have_line"
    /\ SendSample => a_pc = "send_sample"
    /\ SendByte => a_pc = "send" /\ busy # d7 /\ a_bytes # <<>>
    /\ SendDone => a_pc = "send" /\ busy # d7 /\ a_bytes = <<>>
    /\ RecvStart => a_pc = "idle" /\ sig
    /\ RecvSample => a_pc = "recv_sample"
    /\ RecvByte => a_pc = "recv" /\ busy # d7 /\ ~Taken(a_bytes)
    /\ RecvDone => a_pc = "recv" /\ Taken(a_bytes)
    /\ RecvRefuse => \/ a_pc = "recv" /\ Refused(a_bytes)
                     \/ a_pc = "recv_sample" /\ lines.dat # SYNCBYTE_HEAD
    /\ interrupt => flg
<1>1. /\ Request => a_pc = "idle" /\ ~busy /\ Delivered("pc") /\ Due("amiga")
      /\ SendNoLine => a_pc = "requested" /\ busy
      /\ SendLine => a_pc = "requested"
      /\ SendStart => a_pc = "have_line"
      /\ SendSample => a_pc = "send_sample"
  BY DEF Request, LineFree, SendNoLine, SendLine, SendStart, SendSample
<1>2. /\ SendByte => a_pc = "send" /\ busy # d7 /\ a_bytes # <<>>
      /\ SendDone => a_pc = "send" /\ busy # d7 /\ a_bytes = <<>>
      /\ interrupt => flg
  BY DEF SendByte, SendDone, LastTaken, interrupt
<1>3. /\ RecvStart => a_pc = "idle" /\ sig
      /\ RecvSample => a_pc = "recv_sample"
      /\ RecvByte => a_pc = "recv" /\ busy # d7 /\ ~Taken(a_bytes)
      /\ RecvDone => a_pc = "recv" /\ Taken(a_bytes)
      /\ RecvRefuse => \/ a_pc = "recv" /\ Refused(a_bytes)
                       \/ a_pc = "recv_sample" /\ lines.dat # SYNCBYTE_HEAD
  BY DEF RecvStart, RecvSample, RecvByte, RecvDone, RecvRefuse
<1> QED  BY <1>1, <1>2, <1>3

LEMMA PcGuards ==
    /\ PC => PcRuns
    /\ PcRead => Waiting /\ toPC # <<>>
    /\ PcSend => p_pc = "idle" /\ MaySend("pc")
    /\ PcMagic => p_pc = "tx_magic"
    /\ PcAck => p_pc = "tx_ack"
    /\ PcSelected => p_pc = "tx_select" /\ view.sel
    /\ PcPutByte => p_pc = "tx" /\ p_bytes # <<>> /\ PcToggled
    /\ PcPutBusy => p_pc = "tx_busy"
    /\ PcSendLost => p_pc = "tx" /\ p_bytes # <<>> /\ PcLost
    /\ PcFinal => p_pc = "tx" /\ p_bytes = <<>> /\ (PcToggled \/ PcLost)
    /\ PcSent => p_pc = "tx_unselect" /\ ~view.sel
    /\ PcRecv => p_pc = "idle" /\ view.sel
    /\ PcGetByte => p_pc = "recv" /\ PcToggled
    /\ PcGetBusy => p_pc = "recv_busy"
    /\ PcRecvFail => p_pc = "recv" /\ (Rejected(p_bytes) \/ PcLost)
    /\ PcReceived => p_pc = "recv_unselect" /\ ~view.sel
<1>1. /\ PcRead => PcRuns /\ Waiting /\ toPC # <<>>
      /\ PcSend => PcRuns /\ p_pc = "idle" /\ MaySend("pc")
      /\ PcMagic => PcRuns /\ p_pc = "tx_magic"
      /\ PcAck => PcRuns /\ p_pc = "tx_ack"
      /\ PcSelected => PcRuns /\ p_pc = "tx_select" /\ view.sel
  BY DEF PcRead, PcSend, PcMagic, PcAck, PcSelected
<1>2. /\ PcPutByte => PcRuns /\ p_pc = "tx" /\ p_bytes # <<>> /\ PcToggled
      /\ PcPutBusy => PcRuns /\ p_pc = "tx_busy"
      /\ PcSendLost => PcRuns /\ p_pc = "tx" /\ p_bytes # <<>> /\ PcLost
      /\ PcFinal => PcRuns /\ p_pc = "tx" /\ p_bytes = <<>> /\ (PcToggled \/ PcLost)
      /\ PcSent => PcRuns /\ p_pc = "tx_unselect" /\ ~view.sel
  BY DEF PcPutByte, PcPutBusy, PcSendLost, PcFinal, PcSent, Unselected
<1>3. /\ PcRecv => PcRuns /\ p_pc = "idle" /\ view.sel
      /\ PcGetByte => PcRuns /\ p_pc = "recv" /\ PcToggled
      /\ PcGetBusy => PcRuns /\ p_pc = "recv_busy"
      /\ PcRecvFail => PcRuns /\ p_pc = "recv" /\ (Rejected(p_bytes) \/ PcLost)
      /\ PcReceived => PcRuns /\ p_pc = "recv_unselect" /\ ~view.sel
  BY DEF PcRecv, PcGetByte, PcGetBusy, PcRecvFail, PcReceived, Unselected
<1> QED  BY <1>1, <1>2, <1>3 DEF PC

\* The Amiga is idle, and no reception is announced.
LEMMA IdleMoves ==
    ASSUME Peaceful, Types, Going, a_pc = "idle", Calm
    PROVE  Request \/ PC
BY AmigaGuards DEF Going, AmigaGoes, hwsend, hwrecv, Calm

\* The Amiga requests the line and has it.
LEMMA StartMoves ==
    ASSUME Peaceful, Types, Going, a_pc \in {"requested", "have_line", "send_sample"},
           ~busy, Calm
    PROVE  SendLine \/ SendStart \/ SendSample \/ (PC /\ a_pc # "send_sample")
<1>1. PC => PcRuns
  BY PcGuards
<1>2. PcRuns => a_pc # "send_sample"
  BY DEF PcRuns, Peaceful
<1> QED  BY <1>1, <1>2, AmigaGuards DEF Going, AmigaGoes, hwsend, hwrecv, Calm

\* It sends.
LEMMA SendMoves ==
    ASSUME Peaceful, Types, Going, a_pc = "send", Calm
    PROVE  \/ busy # d7 /\ (SendByte \/ SendDone)
           \/ PC
BY AmigaGuards DEF Going, AmigaGoes, hwsend, hwrecv, Calm

\* It receives.
LEMMA RecvMoves ==
    ASSUME Peaceful, Types, Going, a_pc = "recv", Calm
    PROVE  RecvByte \/ RecvDone \/ (RecvRefuse /\ Refused(a_bytes)) \/ PC
BY AmigaGuards DEF Going, AmigaGoes, hwsend, hwrecv, Calm

LEMMA PcIdleMoves ==
    ASSUME PC, p_pc = "idle" PROVE PcRead \/ PcSend \/ PcRecv
BY PcGuards DEF PC

LEMMA PcCallMoves ==
    ASSUME PC, p_pc \in {"tx_magic", "tx_ack", "tx_select"}
    PROVE  PcRead \/ PcMagic \/ PcAck \/ PcSelected
BY PcGuards DEF PC

LEMMA PcTxMoves ==
    ASSUME PC, p_pc \in {"tx", "tx_busy", "tx_unselect"}
    PROVE  PcRead \/ PcPutByte \/ PcPutBusy \/ PcSendLost \/ PcFinal \/ PcSent
BY PcGuards DEF PC

LEMMA PcRxMoves ==
    ASSUME PC, p_pc \in {"recv", "recv_busy", "recv_unselect"}
    PROVE  PcRead \/ PcGetByte \/ PcGetBusy \/ PcRecvFail \/ PcReceived
BY PcGuards DEF PC

-----------------------------------------------------------------------------
(* What a step of either side leaves alone.                                *)

LEMMA SameOpen ==
    ASSUME UNCHANGED logs
    PROVE  /\ UNCHANGED <<Quiet, PcOpen, PcTaken, AmigaAnswers, AmigaOpen, AmigaTaken>>
           /\ UNCHANGED <<Out("pc"), Out("amiga")>>
<1>1. offered' = offered /\ sent' = sent /\ rcvd' = rcvd
  BY DEF logs
<1> QED  BY <1>1 DEF Quiet, PcOpen, PcTaken, AmigaAnswers, AmigaOpen, AmigaTaken, Out,
                     Sending, Arriving, Confirmed, Delivered, Due

LEMMA ReadFrame ==
    ASSUME Types, PcRead
    PROVE  /\ view' = Head(toPC) /\ toPC' = Tail(toPC) /\ toPC # <<>>
           /\ UNCHANGED <<busy, lines, flg, sig, inten, a_pc, a_bytes, d7, p_pc, p_bytes, toggle,
                          offered, sent, rcvd>>
           /\ (Calm' <=> Calm) /\ UNCHANGED logs
BY DEF PcRead, amigaVars, flagVars, logs, Calm

-----------------------------------------------------------------------------
(* The steps of each phase.                                                *)

LEMMA OutFacts ==
    ASSUME WireInv, NEW s \in Sides, offered[s] # <<>>
    PROVE  /\ Last(offered[s]) \in Packets /\ Last(offered[s]) \in Seq(Bytes)
           /\ Out(s) \in Seq(Bytes) /\ Len(Out(s)) \in Nat /\ Len(Out(s)) >= 7
           /\ Out(s)[1] = SYNCBYTE_HEAD
<1>1. Last(offered[s]) \in Packets
  BY LastOffered DEF WireInv
<1>2. /\ Last(offered[s]) \in Seq(Bytes)
      /\ Len(Last(offered[s])) \in Nat /\ Len(Last(offered[s])) >= 1
  BY <1>1, PacketLen, MaxSizeNat
<1> QED  BY <1>1, <1>2, WireBytes DEF Out, HeaderSize

LEMMA OpenPacket ==
    Types => /\ PcOpen => offered["pc"] # <<>>
             /\ AmigaOpen \/ AmigaTaken => offered["amiga"] # <<>>
BY DEF PcOpen, AmigaOpen, AmigaTaken, Sending, Arriving, Grown

LEMMA RequestLogs ==
    ASSUME Types, Types', Request, Confirmed("amiga"), Delivered("amiga")
    PROVE  /\ Sending("amiga")' /\ Arriving("amiga")' /\ Due("pc")'
           /\ offered'["pc"] = offered["pc"] /\ UNCHANGED <<sent, rcvd>>
<1>1. "amiga" \in Sides /\ Other("amiga") = "pc"
  BY OtherSide
<1>2. PICK p \in Packets : offered' = [offered EXCEPT !["amiga"] = Append(@, p)]
  BY DEF Request
<1>3. p \in Seq(Bytes) /\ UNCHANGED <<sent, rcvd>> /\ Due("amiga")
  BY PacketLen DEF Request
<1>4. /\ Sending("amiga")' /\ Arriving("amiga")'
      /\ Len(offered'["amiga"]) = Len(offered["amiga"]) + 1
      /\ offered'["pc"] = offered["pc"]
  BY <1>1, <1>2, <1>3, OfferLogs
<1> QED  BY <1>3, <1>4, DueFacts

LEMMA PcSendLogs ==
    ASSUME Peaceful, Types, Types', PcSend, Quiet
    PROVE  PcOpen' /\ p_bytes' = Tail(Out("pc")')
<1>1. "pc" \in Sides /\ Other("pc") = "amiga" /\ Other("amiga") = "pc" /\ "amiga" \in Sides
  BY OtherSide
<1>2. MaySend("pc") /\ UNCHANGED <<sent, rcvd>> /\ p_bytes' = Tail(Out("pc")')
  BY DEF PcSend, Out
<1>3. PICK n \in PcSizes : offered' = [offered EXCEPT !["pc"] = Append(@, Payload("pc", n))]
  BY DEF PcSend
<1>4. Payload("pc", n) \in Seq(Bytes)
  <2>1. n \in 1..MaxSize
    BY WireAssumption
  <2> QED  BY <1>1, <2>1, PayloadType, PacketLen
<1>5. Due("pc") /\ Confirmed("amiga") /\ Delivered("amiga")
      /\ Confirmed("pc") /\ Delivered("pc")
  <2>1. \A s \in Sides : Confirmed(s) /\ Delivered(s)
    BY DEF Quiet
  <2>2. Due("pc")
    BY <1>1, <1>2, <2>1, MaySendFacts DEF Peaceful
  <2> QED  BY <1>1, <2>1, <2>2
<1>6. /\ Sending("pc")' /\ Arriving("pc")' /\ Last(offered'["pc"]) = Payload("pc", n)
      /\ Len(offered'["pc"]) = Len(offered["pc"]) + 1
      /\ offered'["amiga"] = offered["amiga"]
  BY <1>1, <1>2, <1>3, <1>4, <1>5, OfferLogs
<1>7. Due("amiga")'
  BY <1>5, <1>6, DueFacts
<1>8. Confirmed("amiga")' /\ Delivered("amiga")'
  BY <1>2, <1>5, <1>6 DEF Confirmed, Delivered
<1> QED  BY <1>2, <1>6, <1>7, <1>8 DEF PcOpen

LEMMA RestStep ==
    ASSUME Peaceful, WireInv, WireInv', Rest, Going
    PROVE  Phase'
<1>1. /\ Types /\ Types' /\ a_pc = "idle" /\ p_pc = "idle" /\ Calm /\ ~busy
      /\ Ahead = 0 /\ Down(view) /\ Down(lines) /\ Quiet
  BY DEF WireInv, Rest
<1>2. toPC = <<>> /\ Seen[0] = view
  BY <1>1, SeenFacts
<1>3. /\ Confirmed("pc") /\ Delivered("pc") /\ Confirmed("amiga") /\ Delivered("amiga")
  BY <1>1, OtherSide DEF Quiet
<1>4. CASE Request
  <2>1. Begun(0)
    BY <1>1, <1>2 DEF Begun
  <2>2. Begun(0)' /\ a_pc' = "requested"
    BY <1>4, <2>1, BegunRequest
  <2>3. /\ Sending("amiga")' /\ Arriving("amiga")' /\ Due("pc")'
        /\ offered'["pc"] = offered["pc"] /\ UNCHANGED <<sent, rcvd>>
    BY <1>1, <1>3, <1>4, RequestLogs
  <2>4. AmigaOpen'
    BY <1>3, <2>3 DEF AmigaOpen, Confirmed, Delivered
  <2>5. p_pc' = "idle" /\ Calm'
    BY <1>1, <1>4 DEF Request, pcVars, flagVars, Calm
  <2>6. Waking'
    BY <2>2, <2>4, <2>5 DEF Waking
  <2> QED  BY <2>6 DEF Phase
<1>5. CASE PcSend
  <2>1. PcOpen' /\ p_bytes' = Tail(Out("pc")')
    BY <1>1, <1>5, PcSendLogs
  <2>2. /\ busy' = TRUE /\ p_pc' = "tx_magic"
        /\ UNCHANGED <<lines, toPC, flg, sig, a_pc, view>>
    BY <1>5 DEF PcSend, amigaVars, flagVars
  <2>3. Ahead' = 0
    BY <1>1, <2>2 DEF Ahead
  <2>4. Len(p_bytes') = Len(Out("pc")') - 1 /\ IsRest(p_bytes', Out("pc")')
    <3>1. offered'["pc"] # <<>>
      BY <2>1 DEF PcOpen, Sending, Grown
    <3>2. Out("pc")' \in Seq(Bytes) /\ Len(Out("pc")') >= 7 /\ Len(Out("pc")') \in Nat
      <4>1. Sendable' /\ offered' \in Logs
        BY DEF WireInv, Types
      <4>2. Last(offered'["pc"]) \in Packets
        <5>1. offered'["pc"] \in Seq(Seq(Bytes))
          BY <4>1, OtherSide DEF Logs
        <5>2. Len(offered'["pc"]) \in 1..Len(offered'["pc"])
          BY <3>1, <5>1
        <5> QED  BY <4>1, <5>2, OtherSide DEF Sendable, Last
      <4>3. Len(Last(offered'["pc"])) \in Nat /\ Len(Last(offered'["pc"])) >= 1
        BY <4>2, PacketLen, MaxSizeNat
      <4> QED  BY <4>2, <4>3, WireBytes DEF Out, HeaderSize
    <3> DEFINE out == Out("pc")'
    <3> HIDE DEF out
    <3>3. out \in Seq(Bytes) /\ out # <<>> /\ IsRest(out, out) /\ p_bytes' = Tail(out)
      BY <2>1, <3>2, RestWhole DEF out
    <3>4. Len(Tail(out)) = Len(out) - 1 /\ IsRest(Tail(out), out)
      BY <3>3, RestTail
    <3> QED  BY <3>3, <3>4 DEF out
  <2>5. Calling'
    BY <1>1, <2>1, <2>2, <2>3, <2>4 DEF Calling, PcAll, Calm
  <2> QED  BY <2>5 DEF Phase
<1>6. ~PcRead /\ ~PcRecv
  BY <1>1, <1>2, PcGuards DEF Down
<1> QED  BY <1>1, <1>4, <1>5, <1>6, IdleMoves, PcIdleMoves

LEMMA CallingStep ==
    ASSUME Peaceful, WireInv, WireInv', Calling, Going
    PROVE  Phase'
<1>1. /\ Types /\ Types' /\ a_pc = "idle" /\ p_pc \in {"tx_magic", "tx_ack", "tx_select"}
      /\ (p_pc = "tx_select" <=> flg \/ sig) /\ ~(flg /\ sig)
      /\ busy /\ Ahead = 0 /\ Down(view) /\ Down(lines)
      /\ (p_pc # "tx_magic" => lines.dat = SYNCBYTE_HEAD)
      /\ PcAll
  BY DEF WireInv, Calling
<1>2. toPC = <<>> /\ LastSent = view
  BY <1>1, SeenFacts
<1>3. interrupt \/ RecvStart \/ PcMagic \/ PcAck
  <2>1. interrupt \/ RecvStart \/ PC
    BY <1>1, AmigaGuards DEF Going, AmigaGoes, hwsend, hwrecv
  <2>2. ~PcRead /\ ~PcSelected
    BY <1>1, <1>2, PcGuards DEF Down
  <2> QED  BY <1>1, <2>1, <2>2, PcCallMoves
<1>4. UNCHANGED logs /\ UNCHANGED p_bytes
  BY <1>3 DEF interrupt, RecvStart, PcMagic, PcAck, pcVars
<1>5. PcAll'
  BY <1>1, <1>4, SameOpen DEF PcAll
<1>6. CASE interrupt
  <2>1. AsmBit(FLAGS_BIT_RX) \notin s_Flags
    <3>1. ~sig
      BY <1>1, <1>6, AmigaGuards
    <3> QED  BY <1>1, <3>1 DEF WireInv, Signals, RxSignalled
  <2>2. flg' = FALSE /\ sig' = TRUE /\ UNCHANGED <<busy, lines, toPC, a_pc, view, p_pc>>
    BY <1>1, <1>6, <2>1 DEF interrupt, Announce, pcVars
  <2>3. p_pc = "tx_select"
    BY <1>1, <1>6, AmigaGuards
  <2>4. Ahead' = 0
    BY <1>1, <2>2 DEF Ahead
  <2>5. Calling'
    BY <1>1, <1>5, <2>2, <2>3, <2>4 DEF Calling
  <2> QED  BY <2>5 DEF Phase
<1>7. CASE RecvStart
  <2> DEFINE new == [lines EXCEPT !.sel = TRUE]
  <2>1. /\ sig /\ sig' = FALSE /\ Drive(new) /\ a_pc' = "recv_sample"
        /\ UNCHANGED <<busy, flg, view, p_pc>>
    BY <1>7 DEF RecvStart, pcVars
  <2>2. ~flg /\ p_pc = "tx_select" /\ lines.dat = SYNCBYTE_HEAD
    BY <1>1, <2>1
  <2>3. new \in Lines /\ ~new.pout /\ new.sel /\ new.dat = SYNCBYTE_HEAD
    BY <1>1, <2>2 DEF Types, Lines, Down
  <2>4. new # LastSent
    BY <1>1, <1>2, <2>3 DEF Down
  <2> HIDE DEF new
  <2>5. lines' = new /\ Ahead' = 1 /\ LastSent' = new
    BY <1>1, <2>1, <2>3, <2>4, DriveSeen
  <2>6. Selecting'
    BY <1>1, <1>5, <2>1, <2>2, <2>3, <2>5 DEF Selecting, Calm
  <2> QED  BY <2>6 DEF Phase
<1>8. CASE PcMagic
  <2>1. /\ p_pc = "tx_magic" /\ lines' = [lines EXCEPT !.dat = SYNCBYTE_HEAD]
        /\ p_pc' = "tx_ack" /\ UNCHANGED <<busy, toPC, flg, sig, a_pc, view>>
    BY <1>8 DEF PcMagic, amigaVars, flagVars
  <2>2. lines'.dat = SYNCBYTE_HEAD /\ Down(lines')
    BY <1>1, <2>1 DEF Types, Lines, Down
  <2>3. Ahead' = 0
    BY <1>1, <2>1 DEF Ahead
  <2>4. Calling'
    BY <1>1, <1>5, <2>1, <2>2, <2>3 DEF Calling
  <2> QED  BY <2>4 DEF Phase
<1>9. CASE PcAck
  <2>1. /\ p_pc = "tx_ack" /\ flg' = TRUE
        /\ p_pc' = "tx_select" /\ UNCHANGED <<busy, lines, toPC, sig, a_pc, view>>
    BY <1>9 DEF PcAck, amigaVars, flagVars
  <2>2. Ahead' = 0
    BY <1>1, <2>1 DEF Ahead
  <2>3. Calling'
    BY <1>1, <1>5, <2>1, <2>2 DEF Calling
  <2> QED  BY <2>3 DEF Phase
<1> QED  BY <1>3, <1>6, <1>7, <1>8, <1>9

LEMMA SelectingStep ==
    ASSUME Peaceful, WireInv, WireInv', Selecting, Going
    PROVE  Phase'
<1>1. /\ Types /\ a_pc = "recv_sample" /\ p_pc = "tx_select" /\ Calm /\ busy
      /\ Ahead = 1 /\ Down(view) /\ LastSent = lines
      /\ ~lines.pout /\ lines.sel /\ lines.dat = SYNCBYTE_HEAD /\ PcAll
  BY DEF WireInv, Selecting
<1>2. RecvSample
  <2>1. ~PC
    BY <1>1, PcGuards DEF PcRuns, Peaceful
  <2> QED  BY <1>1, <2>1, AmigaGuards DEF Going, AmigaGoes, hwsend, hwrecv, Calm
<1> DEFINE new == [lines EXCEPT !.pout = ~@]
<1>3. /\ d7' = busy /\ a_bytes' = <<SYNCBYTE_HEAD>> /\ Drive(new) /\ a_pc' = "recv"
      /\ UNCHANGED <<busy, flg, sig, p_pc, p_bytes, view>> /\ UNCHANGED logs
  BY <1>1, <1>2 DEF RecvSample, TogglePOUT, flagVars, pcVars
<1>4. new \in Lines /\ new.pout /\ new.sel
  BY <1>1 DEF Types, Lines
<1>5. new # LastSent
  BY <1>1, <1>4
<1> HIDE DEF new
<1>6. /\ lines' = new /\ Ahead' = 2 /\ Seen'[2] = new
      /\ Seen'[0] = Seen[0] /\ Seen'[1] = Seen[1]
  BY <1>1, <1>3, <1>4, <1>5, DriveSeen
<1>7. Seen[0] = view /\ Seen[1] = lines
  BY <1>1, SeenFacts
<1>8. PcOpen' /\ Out("pc")' = Out("pc") /\ PcAll
  BY <1>1, <1>3, SameOpen DEF PcAll
<1>9. IsFirst(a_bytes', Out("pc")) /\ Len(a_bytes') = 1
  <2>1. offered["pc"] # <<>>
    BY <1>1, <1>8, OpenPacket DEF PcAll
  <2>2. Out("pc") \in Seq(Bytes) /\ Len(Out("pc")) >= 7 /\ Out("pc")[1] = SYNCBYTE_HEAD
    BY <2>1, OutFacts, OtherSide
  <2>3. SYNCBYTE_HEAD \in Bytes /\ Out("pc") # <<>>
    BY <2>2 DEF SYNCBYTE_HEAD, Bytes
  <2> QED  BY <1>3, <2>2, <2>3, FirstByte
<1>10. Selected'
  BY <1>1, <1>3, <1>4, <1>6, <1>7, <1>8, <1>9 DEF Selected, PcAll, Down
<1>11. ToAmiga'
  BY <1>1, <1>3, <1>4, <1>6, <1>8, <1>9, <1>10, OddNext DEF ToAmiga, PcAll, Calm
<1> QED  BY <1>11 DEF Phase

LEMMA ToAmigaFacts ==
    ASSUME WireInv, ToAmiga
    PROVE  /\ Types /\ a_pc = "recv" /\ Calm /\ lines.sel /\ PcOpen
           /\ Last(offered["pc"]) \in Packets
           /\ Out("pc") \in Seq(Bytes) /\ Len(Out("pc")) \in Nat
           /\ a_bytes \in Seq(Bytes) /\ Len(a_bytes) \in Nat /\ IsFirst(a_bytes, Out("pc"))
           /\ p_bytes \in Seq(Bytes) /\ Len(p_bytes) \in Nat /\ IsRest(p_bytes, Out("pc"))
           /\ lines.pout <=> Odd(Len(a_bytes))
           /\ Refused(a_bytes) => Len(a_bytes) = SizeAt /\ Len(a_bytes) + 2 <= Len(Out("pc"))
           /\ Taken(a_bytes) <=> Len(a_bytes) = Len(Out("pc"))
           /\ Len(a_bytes) = Len(Out("pc")) => Data(a_bytes) = Last(offered["pc"])
<1>1. /\ Types /\ a_pc = "recv" /\ Calm /\ lines.sel /\ PcOpen
      /\ IsFirst(a_bytes, Out("pc")) /\ IsRest(p_bytes, Out("pc"))
      /\ lines.pout <=> Odd(Len(a_bytes))
  BY DEF WireInv, ToAmiga
<1>2. /\ Last(offered["pc"]) \in Packets
      /\ Out("pc") \in Seq(Bytes) /\ Len(Out("pc")) \in Nat
  BY <1>1, OpenPacket, OutFacts, OtherSide
<1>3. a_bytes \in Seq(Bytes) /\ p_bytes \in Seq(Bytes)
  BY <1>1 DEF Types
<1>4. Len(Last(offered["pc"])) \in Nat /\ Len(Out("pc")) = HeaderSize + Len(Last(offered["pc"]))
  BY <1>2, PacketLen, WireBytes DEF Out
<1>5. /\ Refused(a_bytes) => Len(a_bytes) = SizeAt /\ Len(Last(offered["pc"])) >= 2
      /\ (Taken(a_bytes) <=> Len(a_bytes) = Len(Out("pc")))
      /\ Len(a_bytes) = Len(Out("pc")) => Data(a_bytes) = Last(offered["pc"])
  <2>1. IsFirst(a_bytes, Wire(Last(offered["pc"])))
    BY <1>1 DEF Out
  <2> QED  BY <1>2, <1>3, <2>1, ReceptionFacts DEF Out
<1>6. Refused(a_bytes) => Len(a_bytes) = SizeAt /\ Len(a_bytes) + 2 <= Len(Out("pc"))
  <2> SUFFICES ASSUME Refused(a_bytes)
               PROVE  Len(a_bytes) = SizeAt /\ Len(a_bytes) + 2 <= Len(Out("pc"))
    OBVIOUS
  <2> DEFINE d == Len(Last(offered["pc"]))
             n == Len(a_bytes)
             o == Len(Out("pc"))
  <2>1. d \in Nat /\ o = 6 + d /\ n = SizeAt /\ d >= 2
    BY <1>4, <1>5 DEF HeaderSize
  <2> HIDE DEF d, n, o
  <2>2. n = SizeAt /\ n + 2 <= o
    BY <2>1, WireAssumption
  <2> QED  BY <2>2 DEF n, o
<1> QED  BY <1>1, <1>2, <1>3, <1>5, <1>6

\* The Amiga has the whole packet.
LEMMA RecvDoneStep ==
    ASSUME WireInv, ToAmiga, RecvDone, p_bytes = <<>>,
           AllSelected, p_pc \in {"tx", "tx_unselect"}, busy = lines.pout,
           p_pc = "tx" => Seen[Ahead].pout = toggle
    PROVE  PcSentAll'
<1>1. /\ Types /\ Calm /\ lines.sel /\ PcOpen
      /\ Data(a_bytes) = Last(offered["pc"]) /\ (lines.pout <=> Odd(Len(Out("pc"))))
  BY ToAmigaFacts, AmigaGuards
<1>2. /\ Release /\ a_pc' = "idle"
      /\ rcvd' = [rcvd EXCEPT !["amiga"] = Append(@, Last(offered["pc"]))]
      /\ flg' = FALSE
      /\ UNCHANGED <<busy, sig, view, p_pc, p_bytes, toggle, offered, sent>>
  BY <1>1 DEF RecvDone, RecvEnd, pcVars
<1>3. /\ Ahead' \in Nat /\ Ahead' > Ahead
      /\ \A i \in 0..Ahead : Seen'[i] = Seen[i]
      /\ \A i \in 0..Ahead' : i > Ahead /\ i < Ahead' => Seen'[i].sel
      /\ \E f \in Nat : f = Ahead' /\ Begun(f)'
  BY <1>1, <1>2, ReleaseBegun
<1>4. PICK f \in Nat : f = Ahead' /\ Begun(f)'
  BY <1>3
<1>5. PICK n \in Nat : n = Ahead
  BY <1>1, SeenFacts
<1>6. n < f
  BY <1>3, <1>4, <1>5
<1>7. f = Ahead'
  BY <1>4
<1>8. StillSelected(f)'
  <2>1. \A i \in 0..(f - 1) : i \in 0..n \/ (i \in 0..f /\ i > n /\ i < f)
    BY <1>6
  <2>2. \A i \in 0..(f - 1) : Seen'[i].sel
    BY <1>3, <1>5, <1>7, <2>1 DEF AllSelected
  <2> QED  BY <2>2 DEF StillSelected
<1>9. p_pc' = "tx" => \E g \in 0..(f - 1) : Seen'[g].pout = toggle'
  <2>1. n \in 0..(f - 1) /\ n \in 0..n
    BY <1>6
  <2>2. p_pc' = "tx" => Seen'[n].pout = toggle'
    BY <1>2, <1>3, <1>5, <2>1
  <2> QED  BY <2>1, <2>2
<1>10. f \in 0..Ahead'
  BY <1>7
<1>11. PcTaken'
  <2>1. "pc" \in Sides /\ Other("pc") = "amiga" /\ Other("amiga") = "pc"
    BY OtherSide
  <2>2. /\ Sending("pc") /\ Arriving("pc")
        /\ Confirmed("amiga") /\ Delivered("amiga") /\ Due("amiga")
    BY <1>1 DEF PcOpen
  <2>3. Delivered("pc")' /\ rcvd'["pc"] = rcvd["pc"]
    BY <1>1, <1>2, <2>1, <2>2, DeliverLogs
  <2>4. Sending("pc")' /\ Confirmed("amiga")' /\ Due("amiga")'
    BY <1>2, <2>2 DEF Sending, Confirmed, Due
  <2>5. Delivered("amiga")'
    BY <1>2, <2>1, <2>2, <2>3 DEF Delivered
  <2> QED  BY <2>3, <2>4, <2>5 DEF PcTaken
<1>12. Calm'
  BY <1>1, <1>2 DEF Calm
<1>13. busy' <=> Odd(Len(Out("pc")'))
  BY <1>1, <1>2 DEF Out
<1> QED  BY <1>2, <1>4, <1>8, <1>11, <1>12, <1>9, <1>10, <1>13 DEF PcSentAll

\* The Amiga does not take the packet.
LEMMA RefuseStep ==
    ASSUME WireInv, ToAmiga, RecvRefuse, Refused(a_bytes), Answered \/ Offering \/ Offered
    PROVE  Phase'
<1>1. /\ Types /\ Calm /\ lines.sel /\ PcOpen
      /\ Len(a_bytes) \in Nat /\ Len(p_bytes) \in Nat /\ Len(Out("pc")) \in Nat
      /\ Len(a_bytes) + 2 <= Len(Out("pc")) /\ ~lines.pout
  BY ToAmigaFacts, OddNext
<1>2. /\ Release /\ a_pc' = "idle" /\ flg' = FALSE
      /\ UNCHANGED <<busy, sig, view, p_pc, p_bytes, toggle>> /\ UNCHANGED logs
  BY DEF RecvRefuse, RecvEnd, pcVars, logs
<1>3. /\ Ahead' \in Nat /\ Ahead' > Ahead
      /\ \A i \in 0..Ahead : Seen'[i] = Seen[i]
      /\ \A i \in 0..Ahead' : i > Ahead => ~Seen'[i].pout
  BY <1>1, <1>2, ReleaseBegun
<1>4. /\ Ahead \in Nat /\ Seen[0] = view /\ toggle \in BOOLEAN /\ lines.pout \in BOOLEAN
      /\ \A i \in 0..Ahead : Seen[i].pout \in BOOLEAN
  BY <1>1, SeenFacts DEF Types, Lines
<1>5. PcOpen' /\ Calm' /\ busy' = toggle'
  BY <1>1, <1>2, SameOpen DEF Calm, Answered, Offering, Offered
<1>6. CASE Answered
  <2>1. /\ p_pc = "tx" /\ toggle = FALSE /\ Len(p_bytes) >= 2
        /\ \A i \in 0..Ahead : i < Ahead => Seen[i].pout # toggle
        /\ Seen[Ahead].pout = toggle
    BY <1>1, <1>4, <1>6 DEF Answered
  <2>2. \A i \in 0..Ahead' : i < Ahead => Seen'[i].pout
    BY <1>3, <1>4, <2>1
  <2>3. \A i \in 0..Ahead' : i >= Ahead => ~Seen'[i].pout
    BY <1>3, <1>4, <2>1
  <2>4. Fallen'
    <3> SUFFICES ASSUME NEW i \in 0..Ahead', NEW j \in 0..Ahead', i <= j, ~Seen'[i].pout
                 PROVE  ~Seen'[j].pout
      BY DEF Fallen
    <3>1. i >= Ahead
      BY <1>4, <2>2
    <3>2. j >= Ahead
      BY <1>4, <3>1
    <3> QED  BY <2>3, <3>2
  <2> QED  BY <1>2, <1>5, <2>1, <2>4 DEF Refusal, Phase
<1>7. ASSUME Ahead = 0, ~view.pout PROVE Silent'
  BY <1>3, <1>4, <1>7 DEF Silent
<1>8. CASE Offering
  <2>1. /\ p_pc = "tx_busy" /\ ~toggle /\ Len(p_bytes) >= 1 /\ Ahead = 0 /\ ~view.pout
    BY <1>1, <1>4, <1>8 DEF Offering
  <2> QED  BY <1>2, <1>5, <1>7, <2>1 DEF Refusal, Phase
<1>9. CASE Offered
  <2>1. /\ p_pc = "tx" /\ toggle /\ Len(p_bytes) >= 1 /\ Ahead = 0 /\ view.pout # toggle
        /\ view.pout \in BOOLEAN
    BY <1>1, <1>4, <1>9 DEF Offered, Types, Lines
  <2>2. ~view.pout
    BY <1>4, <2>1
  <2> QED  BY <1>2, <1>5, <1>7, <2>1, <2>2 DEF Refusal, Phase
<1> QED  BY <1>6, <1>8, <1>9

LEMMA SelectedStep ==
    ASSUME Peaceful, WireInv, WireInv', ToAmiga, Selected, Going
    PROVE  Phase'
<1>1. /\ Types /\ a_pc = "recv" /\ Calm /\ lines.sel /\ PcOpen
      /\ IsFirst(a_bytes, Out("pc")) /\ IsRest(p_bytes, Out("pc"))
      /\ (lines.pout <=> Odd(Len(a_bytes)))
      /\ Refused(a_bytes) => Len(a_bytes) = SizeAt /\ Len(a_bytes) + 2 <= Len(Out("pc"))
      /\ (Taken(a_bytes) <=> Len(a_bytes) = Len(Out("pc")))
      /\ Len(Out("pc")) \in Nat /\ Len(p_bytes) \in Nat
  BY ToAmigaFacts
<1>2. /\ p_pc = "tx_select" /\ busy /\ d7 /\ lines.pout
      /\ Len(a_bytes) = 1 /\ Len(p_bytes) = Len(Out("pc")) - 1
      /\ Ahead \in {1, 2} /\ (Ahead = 2 => ~view.sel)
      /\ Seen[Ahead].pout /\ Seen[Ahead].sel
      /\ ~Seen[Ahead - 1].pout /\ Seen[Ahead - 1].sel
  BY DEF Selected
<1>3. Seen[0] = view
  BY <1>1, SeenFacts
<1>4. Len(Out("pc")) # 1
  <2>1. Len(Out("pc")) >= 7 /\ Len(Out("pc")) \in Nat
    BY <1>1, OpenPacket, OutFacts, OtherSide
  <2>2. PICK n \in Nat : n = Len(Out("pc"))
    BY <2>1
  <2>3. n >= 7
    BY <2>1, <2>2
  <2>4. n # 1
    BY <2>3
  <2> QED  BY <2>2, <2>4
<1>5. PcRead \/ PcSelected
  <2>1. ~RecvByte /\ ~RecvDone /\ ~Refused(a_bytes)
    BY <1>1, <1>2, <1>4, AmigaGuards, WireAssumption
  <2>2. PC
    BY <1>1, <2>1, RecvMoves
  <2> QED  BY <1>2, <2>2, PcCallMoves, PcGuards
<1>6. CASE PcRead
  <2>1. /\ view' = Head(toPC) /\ toPC' = Tail(toPC) /\ toPC # <<>>
        /\ UNCHANGED <<busy, lines, a_pc, a_bytes, d7, p_pc, p_bytes>>
        /\ Calm' /\ UNCHANGED logs
    BY <1>1, <1>6, ReadFrame
  <2>2. Ahead = 2
    <3>1. Waiting
      BY <1>6, PcGuards
    <3>2. ~view.sel
      BY <1>2, <3>1 DEF Waiting
    <3> QED  BY <1>2, <1>3, <3>2
  <2>3. Ahead' = 1 /\ Seen'[0] = Seen[1] /\ Seen'[1] = Seen[2]
    BY <1>1, <2>1, <2>2, ReadSeen
  <2>4. PcOpen' /\ Out("pc")' = Out("pc")
    BY <1>1, <2>1, SameOpen
  <2>5. Selected'
    BY <1>2, <2>1, <2>2, <2>3, <2>4 DEF Selected
  <2>6. ToAmiga'
    BY <1>1, <2>1, <2>4, <2>5 DEF ToAmiga
  <2> QED  BY <2>6 DEF Phase
<1>7. CASE PcSelected
  <2>1. /\ view.sel /\ toggle' = TRUE /\ p_pc' = "tx"
        /\ UNCHANGED <<busy, lines, toPC, flg, sig, a_pc, a_bytes, d7, view, p_bytes>>
        /\ UNCHANGED logs
    BY <1>7 DEF PcSelected, amigaVars, flagVars
  <2>2. Ahead = 1 /\ Ahead' = Ahead /\ Seen' = Seen
    BY <1>2, <2>1, KeepSeen
  <2>3. PcOpen' /\ Out("pc")' = Out("pc") /\ Calm'
    BY <1>1, <2>1, SameOpen DEF Calm
  <2>4. Seen[1].pout = TRUE /\ Seen[0].pout = FALSE /\ Seen[0].sel /\ Seen[1].sel
    <3>1. Seen[0] \in Lines /\ Seen[1] \in Lines
      BY <1>1, <2>2, SeenFacts
    <3>2. Seen[1].pout /\ ~Seen[0].pout /\ Seen[0].sel /\ Seen[1].sel
      BY <1>2, <2>2
    <3> QED  BY <3>1, <3>2 DEF Lines
  <2>5. \A i \in 0..1 : Seen[i].sel
    BY <2>4
  <2>6. \A i \in 0..1 : i < 1 => Seen[i].pout # TRUE
    <3>1. \A i \in 0..1 : i < 1 => i = 0
      OBVIOUS
    <3>2. Seen[0].pout # TRUE
      BY <2>4
    <3> QED  BY <3>1, <3>2
  <2>7. busy = TRUE /\ d7 = TRUE /\ lines.pout = TRUE
    BY <1>1, <1>2 DEF Types, Lines
  <2>8. Len(a_bytes) + Len(p_bytes) = Len(Out("pc"))
    BY <1>1, <1>2
  <2>9. Answered'
    BY <2>1, <2>2, <2>3, <2>4, <2>5, <2>6, <2>7, <2>8 DEF Answered, AllSelected
  <2>10. ToAmiga'
    BY <1>1, <2>1, <2>3, <2>9 DEF ToAmiga
  <2> QED  BY <2>10 DEF Phase
<1> QED  BY <1>5, <1>6, <1>7

LEMMA AnsweredStep ==
    ASSUME Peaceful, WireInv, WireInv', ToAmiga, Answered, Going
    PROVE  Phase'
<1>1. /\ Types /\ a_pc = "recv" /\ Calm /\ lines.sel /\ PcOpen
      /\ Out("pc") \in Seq(Bytes) /\ Len(Out("pc")) \in Nat
      /\ IsFirst(a_bytes, Out("pc")) /\ Len(a_bytes) \in Nat
      /\ p_bytes \in Seq(Bytes) /\ IsRest(p_bytes, Out("pc")) /\ Len(p_bytes) \in Nat
      /\ (lines.pout <=> Odd(Len(a_bytes)))
      /\ Refused(a_bytes) => Len(a_bytes) = SizeAt /\ Len(a_bytes) + 2 <= Len(Out("pc"))
      /\ (Taken(a_bytes) <=> Len(a_bytes) = Len(Out("pc")))
  BY ToAmigaFacts
<1>2. /\ p_pc = "tx" /\ busy = toggle /\ d7 = toggle /\ lines.pout = toggle
      /\ Len(a_bytes) + Len(p_bytes) = Len(Out("pc"))
      /\ AllSelected /\ Seen[Ahead].pout = toggle
      /\ \A i \in 0..Ahead : i < Ahead => Seen[i].pout # toggle
  BY DEF Answered
<1>3. /\ Ahead \in Nat /\ Seen[0] = view /\ view.sel /\ (toPC = <<>> <=> Ahead = 0)
      /\ (view.pout = toggle => Ahead = 0)
  <2>1. Ahead \in Nat /\ Seen[0] = view /\ (toPC = <<>> <=> Ahead = 0)
    BY <1>1, SeenFacts
  <2>2. Seen[0].sel
    BY <1>2, <2>1 DEF AllSelected
  <2>3. Ahead > 0 => Seen[0].pout # toggle
    BY <1>2, <2>1
  <2> QED  BY <2>1, <2>2, <2>3
<1>4. RecvDone \/ (RecvRefuse /\ Refused(a_bytes)) \/ PcRead \/ PcPutByte \/ PcFinal
  <2>1. ~RecvByte
    BY <1>2, AmigaGuards
  <2>2. RecvDone \/ (RecvRefuse /\ Refused(a_bytes)) \/ PC
    BY <1>1, <2>1, RecvMoves
  <2>3. PC => PcRead \/ PcPutByte \/ PcPutBusy \/ PcSendLost \/ PcFinal \/ PcSent
    BY <1>2, PcTxMoves
  <2>4. ~PcPutBusy /\ ~PcSent /\ ~PcSendLost
    BY <1>2, <1>3, PcGuards DEF PcLost
  <2> QED  BY <2>2, <2>3, <2>4
<1>5. CASE RecvDone
  <2>1. Len(p_bytes) = 0
    BY <1>1, <1>2, <1>5, AmigaGuards
  <2>2. p_bytes = <<>>
    BY <1>1, <2>1
  <2> QED  BY <1>2, <1>5, <2>2, RecvDoneStep DEF Phase
<1>6. CASE PcRead
  <2>1. /\ view' = Head(toPC) /\ toPC' = Tail(toPC) /\ toPC # <<>>
        /\ UNCHANGED <<busy, lines, a_pc, a_bytes, d7, p_pc, p_bytes, toggle>>
        /\ Calm' /\ UNCHANGED logs
    BY <1>1, <1>6, ReadFrame
  <2>2. /\ Ahead > 0 /\ Ahead' = Ahead - 1 /\ \A i \in 0..Ahead' : Seen'[i] = Seen[i + 1]
    BY <1>1, <2>1, ReadSeen
  <2>3. PcOpen' /\ Out("pc")' = Out("pc")
    BY <1>1, <2>1, SameOpen
  <2>4. \A i \in 0..Ahead' : i + 1 \in 0..Ahead /\ (i < Ahead' <=> i + 1 < Ahead)
    BY <1>3, <2>2
  <2>5. \A i \in 0..Ahead' : Seen'[i].sel /\ (i < Ahead' => Seen'[i].pout # toggle)
    BY <1>2, <2>2, <2>4 DEF AllSelected
  <2>6. Seen'[Ahead'] = Seen[Ahead]
    BY <1>3, <2>2
  <2>7. Answered'
    BY <1>2, <2>1, <2>3, <2>5, <2>6 DEF Answered, AllSelected
  <2>8. ToAmiga'
    BY <1>1, <2>1, <2>3, <2>7 DEF ToAmiga
  <2> QED  BY <2>8 DEF Phase
<1>7. CASE PcPutByte
  <2>1. /\ p_bytes # <<>> /\ view.pout = toggle
        /\ lines' = [lines EXCEPT !.dat = Head(p_bytes)]
        /\ p_bytes' = Tail(p_bytes) /\ p_pc' = "tx_busy"
        /\ UNCHANGED <<busy, toPC, flg, sig, a_pc, a_bytes, d7, view, toggle>>
        /\ UNCHANGED logs
    BY <1>7 DEF PcPutByte, PcToggled, amigaVars, flagVars
  <2>2. Ahead' = 0
    BY <1>3, <2>1, KeepSeen
  <2>3. PcOpen' /\ Out("pc")' = Out("pc") /\ Calm'
    BY <1>1, <2>1, SameOpen DEF Calm
  <2>4. /\ Head(p_bytes) = Out("pc")[Len(Out("pc")) - Len(p_bytes) + 1]
        /\ Len(Tail(p_bytes)) = Len(p_bytes) - 1 /\ IsRest(Tail(p_bytes), Out("pc"))
        /\ Head(p_bytes) \in Bytes
    BY <1>1, <2>1, RestTail
  <2>5. lines'.dat = Head(p_bytes) /\ lines'.pout = lines.pout /\ lines'.sel = lines.sel
    BY <1>1, <2>1 DEF Types, Lines
  <2>6. Len(Out("pc")) - Len(p_bytes) + 1 = Len(a_bytes) + 1
    BY <1>1, <1>2
  <2>7. Len(a_bytes) + Len(Tail(p_bytes)) = Len(Out("pc")) - 1
    BY <1>1, <1>2, <2>4
  <2>8. Offering'
    BY <1>2, <1>3, <2>1, <2>2, <2>3, <2>4, <2>5, <2>6, <2>7 DEF Offering
  <2>9. ToAmiga'
    BY <1>1, <2>1, <2>3, <2>4, <2>5, <2>8 DEF ToAmiga
  <2> QED  BY <2>9 DEF Phase
<1>8. CASE PcFinal
  <2>1. /\ p_bytes = <<>> /\ p_pc' = "tx_unselect"
        /\ UNCHANGED <<busy, lines, toPC, flg, sig, a_pc, a_bytes, d7, view, p_bytes, toggle>>
        /\ UNCHANGED logs
    BY <1>8 DEF PcFinal, amigaVars, flagVars
  <2>2. Ahead' = Ahead /\ Seen' = Seen
    BY <2>1, KeepSeen
  <2>3. PcOpen' /\ Out("pc")' = Out("pc") /\ Calm'
    BY <1>1, <2>1, SameOpen DEF Calm
  <2>4. Len(a_bytes) = Len(Out("pc"))
    BY <1>1, <1>2, <2>1
  <2>5. AllPut'
    BY <1>2, <2>1, <2>2, <2>3, <2>4 DEF AllPut, AllSelected
  <2>6. ToAmiga'
    BY <1>1, <2>1, <2>3, <2>5 DEF ToAmiga
  <2> QED  BY <2>6 DEF Phase
<1>9. CASE RecvRefuse /\ Refused(a_bytes)
  BY <1>9, RefuseStep
<1> QED  BY <1>4, <1>5, <1>6, <1>7, <1>8, <1>9

LEMMA OfferingStep ==
    ASSUME Peaceful, WireInv, WireInv', ToAmiga, Offering, Going
    PROVE  Phase'
<1>1. /\ Types /\ a_pc = "recv" /\ Calm /\ lines.sel /\ PcOpen
      /\ Len(Out("pc")) \in Nat /\ Len(a_bytes) \in Nat /\ Len(p_bytes) \in Nat
      /\ IsFirst(a_bytes, Out("pc")) /\ IsRest(p_bytes, Out("pc"))
      /\ (lines.pout <=> Odd(Len(a_bytes)))
      /\ Refused(a_bytes) => Len(a_bytes) = SizeAt /\ Len(a_bytes) + 2 <= Len(Out("pc"))
      /\ (Taken(a_bytes) <=> Len(a_bytes) = Len(Out("pc")))
  BY ToAmigaFacts
<1>2. /\ p_pc = "tx_busy" /\ busy = toggle /\ d7 = toggle /\ lines.pout = toggle
      /\ Len(a_bytes) + Len(p_bytes) = Len(Out("pc")) - 1
      /\ lines.dat = Out("pc")[Len(a_bytes) + 1]
      /\ Ahead = 0 /\ view.sel /\ view.pout = toggle
  BY DEF Offering
<1>3. PcPutBusy \/ (RecvRefuse /\ Refused(a_bytes))
  <2>1. Len(a_bytes) # Len(Out("pc"))
    BY <1>1, <1>2
  <2>2. ~RecvByte /\ ~RecvDone
    BY <1>1, <1>2, <2>1, AmigaGuards
  <2>3. ~PcRead
    BY <1>2, PcGuards DEF Waiting
  <2> QED  BY <1>1, <1>2, <2>2, <2>3, RecvMoves, PcTxMoves, PcGuards
<1>4. CASE RecvRefuse /\ Refused(a_bytes)
  BY <1>4, RefuseStep
<1>5. CASE PcPutBusy
  <2>1. /\ busy' = ~toggle /\ toggle' = ~toggle /\ p_pc' = "tx"
        /\ UNCHANGED <<lines, toPC, flg, sig, a_pc, a_bytes, d7, view, p_bytes>>
        /\ UNCHANGED logs
    BY <1>5 DEF PcPutBusy, amigaVars, flagVars
  <2>2. PcOpen' /\ Out("pc")' = Out("pc") /\ Calm' /\ Ahead' = 0
    BY <1>1, <1>2, <2>1, SameOpen DEF Calm, Ahead
  <2>3. toggle' # toggle /\ busy' = toggle'
    BY <1>1, <2>1 DEF Types
  <2>4. Offered'
    BY <1>2, <2>1, <2>2, <2>3 DEF Offered
  <2>5. ToAmiga'
    BY <1>1, <2>1, <2>2, <2>4 DEF ToAmiga
  <2> QED  BY <2>5 DEF Phase
<1> QED  BY <1>3, <1>4, <1>5

LEMMA OfferedStep ==
    ASSUME Peaceful, WireInv, WireInv', ToAmiga, Offered, Going
    PROVE  Phase'
<1>1. /\ Types /\ a_pc = "recv" /\ Calm /\ lines.sel /\ PcOpen
      /\ Out("pc") \in Seq(Bytes) /\ Len(Out("pc")) \in Nat
      /\ a_bytes \in Seq(Bytes) /\ Len(a_bytes) \in Nat /\ Len(p_bytes) \in Nat
      /\ IsFirst(a_bytes, Out("pc")) /\ IsRest(p_bytes, Out("pc"))
      /\ (lines.pout <=> Odd(Len(a_bytes)))
      /\ Refused(a_bytes) => Len(a_bytes) = SizeAt /\ Len(a_bytes) + 2 <= Len(Out("pc"))
      /\ (Taken(a_bytes) <=> Len(a_bytes) = Len(Out("pc")))
  BY ToAmigaFacts
<1>2. /\ p_pc = "tx" /\ busy = toggle /\ d7 # toggle /\ lines.pout # toggle
      /\ Len(a_bytes) + Len(p_bytes) = Len(Out("pc")) - 1
      /\ lines.dat = Out("pc")[Len(a_bytes) + 1]
      /\ Ahead = 0 /\ view.sel /\ view.pout # toggle
  BY DEF Offered
<1>3. Len(a_bytes) < Len(Out("pc"))
  BY <1>1, <1>2
<1>4. toPC = <<>> /\ Seen[0] = view /\ LastSent = view
  BY <1>1, <1>2, SeenFacts
<1>5. RecvByte \/ (RecvRefuse /\ Refused(a_bytes))
  <2>1. ~RecvDone
    BY <1>1, <1>3, AmigaGuards
  <2>2. ~PcToggled /\ ~PcLost
    BY <1>2 DEF PcToggled, PcLost
  <2>3. ~PC
    BY <1>2, <1>4, <2>2, PcTxMoves, PcGuards
  <2> QED  BY <1>1, <2>1, <2>3, RecvMoves
<1>6. CASE RecvByte
  <2> DEFINE new == [lines EXCEPT !.pout = ~@]
  <2>1. /\ d7' = busy /\ a_bytes' = Append(a_bytes, lines.dat) /\ Drive(new)
        /\ UNCHANGED <<busy, flg, sig, a_pc, view, p_pc, p_bytes, toggle>> /\ UNCHANGED logs
    BY <1>6 DEF RecvByte, Follow, TogglePOUT, flagVars, pcVars
  <2>2. new \in Lines /\ new.pout = toggle /\ new.sel /\ new # LastSent
    <3>1. new \in Lines /\ new.pout = ~lines.pout /\ new.sel
      BY <1>1 DEF Types, Lines
    <3>2. new.pout = toggle
      BY <1>1, <1>2, <3>1 DEF Types, Lines
    <3> QED  BY <1>2, <1>4, <3>1, <3>2
  <2> HIDE DEF new
  <2>3. lines' = new /\ Ahead' = 1 /\ Seen'[1] = new /\ Seen'[0] = view
    BY <1>1, <1>2, <1>4, <2>1, <2>2, DriveSeen
  <2>4. PcOpen' /\ Out("pc")' = Out("pc") /\ Calm'
    BY <1>1, <2>1, SameOpen DEF Calm
  <2>5. lines.dat \in Bytes
    BY <1>1 DEF Types, Lines
  <2>6. IsFirst(a_bytes', Out("pc")) /\ Len(a_bytes') = Len(a_bytes) + 1
    BY <1>1, <1>2, <1>3, <2>1, <2>5, FirstAppend
  <2>7. \A i \in 0..1 : Seen'[i].sel /\ (i < 1 => Seen'[i].pout # toggle)
    <3>1. \A i \in 0..1 : i = 0 \/ i = 1
      OBVIOUS
    <3> QED  BY <1>2, <2>2, <2>3, <3>1
  <2>8. Len(a_bytes') + Len(p_bytes) = Len(Out("pc"))
    BY <1>1, <1>2, <2>6
  <2>9. Answered'
    BY <1>2, <2>1, <2>2, <2>3, <2>4, <2>7, <2>8 DEF Answered, AllSelected
  <2>10. lines'.pout <=> Odd(Len(a_bytes'))
    <3>1. lines'.pout <=> ~lines.pout
      BY <1>1, <1>2, <2>2, <2>3 DEF Types, Lines
    <3> QED  BY <1>1, <2>6, <3>1, OddNext
  <2>11. ToAmiga'
    BY <1>1, <2>1, <2>2, <2>3, <2>4, <2>6, <2>9, <2>10 DEF ToAmiga
  <2> QED  BY <2>11 DEF Phase
<1>7. CASE RecvRefuse /\ Refused(a_bytes)
  BY <1>7, RefuseStep
<1> QED  BY <1>5, <1>6, <1>7

LEMMA AllPutStep ==
    ASSUME Peaceful, WireInv, WireInv', ToAmiga, AllPut, Going
    PROVE  Phase'
<1>1. /\ Types /\ a_pc = "recv" /\ Calm /\ lines.sel /\ PcOpen
      /\ IsFirst(a_bytes, Out("pc")) /\ IsRest(p_bytes, Out("pc"))
      /\ Len(a_bytes) \in Nat /\ Len(Out("pc")) \in Nat /\ (lines.pout <=> Odd(Len(a_bytes)))
      /\ Refused(a_bytes) => Len(a_bytes) = SizeAt /\ Len(a_bytes) + 2 <= Len(Out("pc"))
      /\ (Taken(a_bytes) <=> Len(a_bytes) = Len(Out("pc")))
  BY ToAmigaFacts
<1>2. /\ p_pc = "tx_unselect" /\ AllSelected
      /\ Len(a_bytes) = Len(Out("pc")) /\ p_bytes = <<>> /\ busy = lines.pout
  BY DEF AllPut
<1>3. Ahead \in Nat /\ Seen[0] = view
  BY <1>1, SeenFacts
<1>4. view.sel
  BY <1>2, <1>3 DEF AllSelected
<1>5. RecvDone \/ PcRead
  <2>1. ~RecvByte /\ ~Refused(a_bytes)
    BY <1>1, <1>2, AmigaGuards
  <2>2. ~PcSent
    BY <1>4, PcGuards
  <2>3. PC => PcRead
    BY <1>2, <2>2, PcTxMoves, PcGuards
  <2> QED  BY <1>1, <2>1, <2>3, RecvMoves
<1>6. CASE RecvDone
  BY <1>2, <1>6, RecvDoneStep DEF Phase
<1>7. CASE PcRead
  <2>1. /\ view' = Head(toPC) /\ toPC' = Tail(toPC) /\ toPC # <<>>
        /\ UNCHANGED <<busy, lines, a_pc, a_bytes, p_pc, p_bytes>>
        /\ Calm' /\ UNCHANGED logs
    BY <1>1, <1>7, ReadFrame
  <2>2. /\ Ahead > 0 /\ Ahead' = Ahead - 1 /\ \A i \in 0..Ahead' : Seen'[i] = Seen[i + 1]
    BY <1>1, <2>1, ReadSeen
  <2>3. PcOpen' /\ Out("pc")' = Out("pc")
    BY <1>1, <2>1, SameOpen
  <2>4. \A i \in 0..Ahead' : i + 1 \in 0..Ahead
    BY <1>3, <2>2
  <2>5. \A i \in 0..Ahead' : Seen'[i].sel
    BY <1>2, <2>2, <2>4 DEF AllSelected
  <2>6. AllPut'
    BY <1>2, <2>1, <2>3, <2>5 DEF AllPut, AllSelected
  <2>7. ToAmiga'
    BY <1>1, <2>1, <2>3, <2>6 DEF ToAmiga
  <2> QED  BY <2>7 DEF Phase
<1> QED  BY <1>5, <1>6, <1>7

LEMMA ToAmigaStep ==
    ASSUME Peaceful, WireInv, WireInv', ToAmiga, Going
    PROVE  Phase'
<1>1. Selected \/ Answered \/ Offering \/ Offered \/ AllPut
  BY DEF ToAmiga
<1> QED  BY <1>1, SelectedStep, AnsweredStep, OfferingStep, OfferedStep, AllPutStep

\* The Amiga does not send while a packet is on the way, nor the PC while that of the
\* Amiga is.
LEMMA NoTurn ==
    ASSUME Peaceful, WireInv, WireInv'
    PROVE  /\ AmigaOpen => ~PcSend
           /\ AmigaTaken \/ PcOpen => ~Request
<1>1. Types /\ Types' /\ "amiga" \in Sides /\ "pc" \in Sides
      /\ Other("amiga") = "pc" /\ Other("pc") = "amiga"
  BY OtherSide DEF WireInv
<1>2. AmigaOpen => ~PcSend
  <2> SUFFICES ASSUME AmigaOpen PROVE ~PcSend
    OBVIOUS
  <2>1. ~MaySend("pc")
    BY <1>1, MaySendFacts DEF AmigaOpen, Peaceful
  <2> QED  BY <2>1, PcGuards
<1>3. AmigaTaken => ~Request
  BY <1>1, AmigaGuards, DueFacts DEF AmigaTaken
<1>4. PcOpen => ~Request
  <2> SUFFICES ASSUME PcOpen, Request PROVE FALSE
    OBVIOUS
  <2>1. rcvd["amiga"] = offered["pc"] /\ Grown(offered["pc"], rcvd["amiga"])
    BY <1>1, AmigaGuards DEF PcOpen, Arriving, Delivered
  <2>2. Len(offered["pc"]) = Len(rcvd["amiga"]) + 1 /\ Len(rcvd["amiga"]) \in Nat
    BY <1>1, <2>1, LogLens, GrownFacts
  <2> QED  BY <2>1, <2>2
<1> QED  BY <1>2, <1>3, <1>4

LEMMA RefusalStep ==
    ASSUME Peaceful, WireInv, WireInv', Refusal, Going
    PROVE  Phase'
<1>1. /\ Types /\ a_pc = "idle" /\ Calm /\ PcOpen /\ busy = toggle /\ p_bytes \in Seq(Bytes)
      /\ Len(p_bytes) \in Nat
  BY DEF Refusal, WireInv, Types
<1>2. \/ p_pc = "tx" /\ ~toggle /\ Len(p_bytes) >= 2 /\ Fallen
      \/ p_pc = "tx_busy" /\ ~toggle /\ Len(p_bytes) >= 1 /\ Silent
      \/ p_pc = "tx" /\ toggle /\ Len(p_bytes) >= 1 /\ Silent
  BY DEF Refusal
<1>3. Ahead \in Nat /\ Seen[0] = view
  BY <1>1, SeenFacts
<1>4. PcRead \/ PcPutByte \/ PcPutBusy \/ PcSendLost
  <2>1. PC
    BY <1>1, NoTurn, IdleMoves
  <2>2. p_bytes # <<>>
    BY <1>1, <1>2
  <2> QED  BY <1>2, <2>1, <2>2, PcTxMoves, PcGuards
<1>5. CASE PcRead
  <2>1. /\ view' = Head(toPC) /\ toPC' = Tail(toPC) /\ toPC # <<>>
        /\ UNCHANGED <<busy, a_pc, p_pc, p_bytes, toggle>> /\ Calm' /\ UNCHANGED logs
    BY <1>1, <1>5, ReadFrame
  <2>2. /\ Ahead > 0 /\ Ahead' = Ahead - 1 /\ \A i \in 0..Ahead' : Seen'[i] = Seen[i + 1]
    BY <1>1, <2>1, ReadSeen
  <2>3. \A i \in 0..Ahead' : i + 1 \in 0..Ahead
    BY <1>3, <2>2
  <2>4. Silent => Silent'
    BY <2>2, <2>3 DEF Silent
  <2>5. Fallen => Fallen'
    <3> SUFFICES ASSUME Fallen, NEW i \in 0..Ahead', NEW j \in 0..Ahead', i <= j, ~Seen'[i].pout
                 PROVE  ~Seen'[j].pout
      BY DEF Fallen
    <3>1. i + 1 <= j + 1 /\ ~Seen[i + 1].pout /\ i + 1 \in 0..Ahead /\ j + 1 \in 0..Ahead
      BY <1>3, <2>2, <2>3
    <3>2. ~Seen[j + 1].pout
      BY <3>1 DEF Fallen
    <3> QED  BY <2>2, <3>2
  <2>6. PcOpen'
    BY <1>1, <2>1, SameOpen
  <2> QED  BY <1>1, <1>2, <2>1, <2>4, <2>5, <2>6 DEF Refusal, Phase
<1>6. CASE PcPutByte
  <2>1. /\ p_pc = "tx" /\ view.pout = toggle /\ p_bytes # <<>>
        /\ p_bytes' = Tail(p_bytes) /\ p_pc' = "tx_busy"
        /\ UNCHANGED <<busy, toPC, flg, sig, a_pc, view, toggle>> /\ UNCHANGED logs
    BY <1>6 DEF PcPutByte, PcToggled, amigaVars, flagVars
  <2>2. 0 \in 0..Ahead /\ \A i \in 0..Ahead : 0 <= i
    BY <1>3
  <2>3. ~toggle /\ Len(p_bytes) >= 2 /\ Fallen
    BY <1>2, <1>3, <2>1, <2>2 DEF Silent
  <2>4. Silent
    BY <1>3, <2>1, <2>2, <2>3 DEF Fallen, Silent
  <2>5. Silent' /\ PcOpen' /\ Calm'
    BY <1>1, <2>1, <2>4, KeepSeen, SameOpen DEF Silent, Calm
  <2>6. Len(p_bytes') >= 1
    BY <1>1, <2>1, <2>3
  <2> QED  BY <1>1, <2>1, <2>3, <2>5, <2>6 DEF Refusal, Phase
<1>7. CASE PcPutBusy
  <2>1. /\ p_pc = "tx_busy" /\ toggle' = ~toggle /\ busy' = ~toggle /\ p_pc' = "tx"
        /\ UNCHANGED <<toPC, flg, sig, a_pc, view, p_bytes>> /\ UNCHANGED logs
    BY <1>7 DEF PcPutBusy, amigaVars, flagVars
  <2>2. ~toggle /\ Len(p_bytes) >= 1 /\ Silent
    BY <1>2, <2>1
  <2>3. Silent' /\ PcOpen' /\ Calm'
    BY <1>1, <2>1, <2>2, KeepSeen, SameOpen DEF Silent, Calm
  <2> QED  BY <1>1, <2>1, <2>2, <2>3 DEF Refusal, Phase
<1>8. CASE PcSendLost
  <2>1. p_pc' = "stopped" /\ UNCHANGED <<flg, sig, a_pc>> /\ UNCHANGED logs
    BY <1>8 DEF PcSendLost, PcFail, Failed, Peaceful, amigaVars, flagVars
  <2>2. PcOpen' /\ Calm'
    BY <1>1, <2>1, SameOpen DEF Calm
  <2> QED  BY <1>1, <2>1, <2>2 DEF Stopped, Phase
<1> QED  BY <1>4, <1>5, <1>6, <1>7, <1>8

LEMMA StoppedStep ==
    ASSUME Peaceful, WireInv, WireInv', Stopped, Going
    PROVE  FALSE
<1>1. Types /\ p_pc = "stopped" /\ a_pc = "idle" /\ Calm /\ PcOpen
  BY DEF WireInv, Stopped
<1>2. PC
  BY <1>1, NoTurn, IdleMoves
<1> QED  BY <1>1, <1>2, PcGuards DEF PC, Waiting

LEMMA PcSentAllStep ==
    ASSUME Peaceful, WireInv, WireInv', PcSentAll, Going
    PROVE  Phase'
<1>1. /\ Types /\ Types' /\ p_pc \in {"tx", "tx_unselect"} /\ Calm /\ p_bytes = <<>>
      /\ busy <=> Odd(Len(Out("pc")))
      /\ a_pc = "idle" => PcTaken
      /\ a_pc # "idle" => AmigaAnswers
  BY DEF WireInv, PcSentAll
<1>2. PICK f \in 0..Ahead :
        /\ Begun(f) /\ StillSelected(f)
        /\ p_pc = "tx" => \E g \in 0..(f - 1) : Seen[g].pout = toggle
  BY DEF PcSentAll
<1>3. Ahead \in Nat /\ Seen[0] = view /\ (toPC = <<>> <=> Ahead = 0)
  BY <1>1, SeenFacts
<1>4. f \in Nat /\ f \in Int /\ f <= Ahead
  BY <1>3
<1>5. a_pc # "idle" => /\ ~busy /\ a_pc \in {"requested", "have_line", "send_sample", "send"}
                       /\ a_pc = "send" => ~d7
  BY <1>2 DEF Begun, Started
<1>6. busy \in BOOLEAN /\ d7 \in BOOLEAN
  BY <1>1 DEF Types
\* Whatever the Amiga does, the PC has the updates of the last transfer before it.
<1>7. ASSUME Begun(f)', \A i \in 0..Ahead : Seen'[i] = Seen[i], f \in 0..Ahead',
             busy' = busy, offered'["pc"] = offered["pc"], p_pc' = p_pc,
             toggle' = toggle, p_bytes' = p_bytes, Calm', a_pc' # "idle",
             AmigaAnswers'
      PROVE  Phase'
  <2>1. \A i \in 0..(f - 1) : i \in 0..Ahead
    BY <1>3, <1>4
  <2>2. StillSelected(f)'
    BY <1>2, <1>7, <2>1 DEF StillSelected
  <2>3. p_pc' = "tx" => \E g \in 0..(f - 1) : Seen'[g].pout = toggle'
    BY <1>2, <1>7, <2>1
  <2>4. PcSentAll'
    BY <1>1, <1>7, <2>2, <2>3 DEF PcSentAll, Out
  <2> QED  BY <2>4 DEF Phase
<1>8. CASE Request
  <2>1. a_pc = "idle" /\ UNCHANGED <<busy, flg, sig, p_pc, p_bytes, toggle>>
    BY <1>8 DEF Request, pcVars, flagVars
  <2>2. /\ Begun(f)' /\ a_pc' = "requested" /\ Ahead' = Ahead + 1
        /\ \A i \in 0..Ahead : Seen'[i] = Seen[i]
    BY <1>2, <1>4, <1>8, BegunRequest
  <2>3. /\ Sending("pc") /\ Delivered("pc") /\ Confirmed("amiga") /\ Delivered("amiga")
    BY <1>1, <2>1 DEF PcTaken
  <2>4. /\ Sending("amiga")' /\ Arriving("amiga")' /\ Due("pc")'
        /\ offered'["pc"] = offered["pc"] /\ UNCHANGED <<sent, rcvd>>
    BY <1>1, <1>8, <2>3, RequestLogs
  <2>5. AmigaAnswers'
    BY <2>3, <2>4 DEF AmigaAnswers, Sending, Delivered
  <2>6. Calm' /\ f \in 0..Ahead'
    BY <1>1, <1>3, <1>4, <2>1, <2>2 DEF Calm
  <2> QED  BY <1>7, <2>1, <2>2, <2>4, <2>5, <2>6
<1>9. CASE SendLine \/ SendStart \/ SendSample
  <2>1. /\ a_pc # "idle" /\ UNCHANGED <<busy, flg, sig, p_pc, p_bytes, toggle>> /\ UNCHANGED logs
    BY <1>9 DEF SendLine, SendStart, SendSample, pcVars, flagVars
  <2>2. /\ Begun(f)' /\ a_pc' # "idle" /\ \A i \in 0..Ahead : Seen'[i] = Seen[i]
    BY <1>2, <1>4, <1>9, BegunLine, BegunStart, BegunSample
  <2>3. f \in 0..Ahead'
    BY <1>4, <2>2 DEF Begun
  <2>4. Calm' /\ AmigaAnswers' /\ offered' = offered
    BY <1>1, <2>1, SameOpen DEF Calm, logs
  <2> QED  BY <1>7, <2>1, <2>2, <2>3, <2>4
<1>10. CASE PcRead
  <2>1. /\ view' = Head(toPC) /\ toPC' = Tail(toPC) /\ toPC # <<>>
        /\ UNCHANGED <<busy, lines, a_pc, a_bytes, d7, p_pc, p_bytes, toggle, offered>>
        /\ Calm' /\ UNCHANGED logs
    BY <1>1, <1>10, ReadFrame
  <2>2. /\ Ahead > 0 /\ Ahead' = Ahead - 1 /\ \A i \in 0..Ahead' : Seen'[i] = Seen[i + 1]
    BY <1>1, <2>1, ReadSeen
  <2>3. view.sel /\ (p_pc = "tx" => view.pout # toggle)
    <3>1. Waiting
      BY <1>10, PcGuards
    <3> QED  BY <1>1, <3>1 DEF Waiting
  <2>4. f # 0
    <3> SUFFICES ASSUME f = 0 PROVE FALSE
      OBVIOUS
    <3>1. Down(view)
      BY <1>2, <1>3 DEF Begun
    <3> QED  BY <2>3, <3>1 DEF Down
  <2>5. Begun(f - 1)'
    BY <1>1, <1>2, <1>4, <2>1, BegunRead
  <2>6. f - 1 \in 0..Ahead'
    BY <1>3, <1>4, <2>2, <2>4
  <2>7. \A i \in 0..(f - 1) : (i # 0 => i - 1 \in 0..((f - 1) - 1) /\ i - 1 \in 0..Ahead')
    BY <1>3, <1>4, <2>2
  <2>8. StillSelected(f - 1)'
    <3>1. \A i \in 0..((f - 1) - 1) : i + 1 \in 0..(f - 1) /\ i \in 0..Ahead'
      BY <1>3, <1>4, <2>2
    <3>2. \A i \in 0..((f - 1) - 1) : Seen'[i].sel
      BY <1>2, <2>2, <3>1 DEF StillSelected
    <3> QED  BY <3>2 DEF StillSelected
  <2>9. p_pc' = "tx" => \E g \in 0..((f - 1) - 1) : Seen'[g].pout = toggle'
    <3> SUFFICES ASSUME p_pc' = "tx"
                 PROVE  \E g \in 0..((f - 1) - 1) : Seen'[g].pout = toggle'
      OBVIOUS
    <3>1. PICK g \in 0..(f - 1) : Seen[g].pout = toggle
      BY <1>2, <2>1
    <3>2. g # 0
      BY <1>3, <2>1, <2>3, <3>1
    <3>3. g - 1 \in 0..((f - 1) - 1) /\ g - 1 \in 0..Ahead'
      BY <2>7, <3>2
    <3>4. (g - 1) + 1 = g
      BY <1>4
    <3>5. Seen'[g - 1].pout = toggle'
      BY <2>1, <2>2, <3>1, <3>3, <3>4
    <3> QED  BY <3>3, <3>5
  <2>10. (a_pc' = "idle" => PcTaken') /\ (a_pc' # "idle" => AmigaAnswers')
    BY <1>1, <2>1, SameOpen
  <2>11. PcSentAll'
    BY <1>1, <2>1, <2>5, <2>6, <2>8, <2>9, <2>10 DEF PcSentAll, Out
  <2> QED  BY <2>11 DEF Phase
<1>11. CASE PcFinal
  <2>1. /\ p_pc' = "tx_unselect"
        /\ UNCHANGED <<busy, lines, toPC, flg, sig, a_pc, a_bytes, d7, view, p_bytes, offered>>
        /\ UNCHANGED logs
    BY <1>11 DEF PcFinal, amigaVars, flagVars, logs
  <2>2. Ahead' = Ahead /\ Seen' = Seen /\ LastSent' = LastSent
    BY <2>1, KeepSeen
  <2>3. Out("amiga")' = Out("amiga")
    BY <2>1 DEF Out
  <2>4. Begun(f)' /\ StillSelected(f)'
    BY <1>2, <2>1, <2>2, <2>3 DEF Begun, Started, StillSelected
  <2>5. (a_pc' = "idle" => PcTaken') /\ (a_pc' # "idle" => AmigaAnswers') /\ Calm'
    BY <1>1, <2>1, SameOpen DEF Calm
  <2>6. f \in 0..Ahead'
    BY <2>2
  <2>7. PcSentAll'
    BY <1>1, <2>1, <2>4, <2>5, <2>6 DEF PcSentAll, Out
  <2> QED  BY <2>7 DEF Phase
<1>12. CASE PcSent
  <2>1. /\ ~view.sel /\ busy' = FALSE /\ p_pc' = "idle"
        /\ sent' = [sent EXCEPT !["pc"] = Append(@, Last(offered["pc"]))]
        /\ UNCHANGED <<lines, toPC, flg, sig, a_pc, a_bytes, d7, view, offered, rcvd>>
    BY <1>12 DEF PcSent, Unselected, amigaVars, flagVars
  <2>2. f = 0
    <3> SUFFICES ASSUME f # 0 PROVE FALSE
      OBVIOUS
    <3>1. 0 \in 0..(f - 1)
      BY <1>4
    <3> QED  BY <1>2, <1>3, <2>1, <3>1 DEF StillSelected
  <2>3. Ahead' = Ahead /\ Seen' = Seen /\ LastSent' = LastSent /\ Calm'
    BY <1>1, <2>1, KeepSeen DEF Calm
  <2>4. "pc" \in Sides /\ Other("pc") = "amiga" /\ Other("amiga") = "pc" /\ "amiga" \in Sides
    BY OtherSide
  <2>5. Sending("pc") /\ Delivered("pc")
    BY <1>1 DEF PcTaken, AmigaAnswers
  <2>6. Confirmed("pc")' /\ sent'["amiga"] = sent["amiga"] /\ Delivered("pc")'
    BY <1>1, <2>1, <2>4, <2>5, ConfirmLogs DEF Delivered
  <2>7. CASE a_pc = "idle"
    <3>1. Ahead = 0 /\ Down(lines) /\ Down(view)
      BY <1>2, <1>3, <2>2, <2>7 DEF Begun
    <3>2. Confirmed("amiga") /\ Delivered("amiga") /\ Due("amiga")
      BY <1>1, <2>7 DEF PcTaken
    <3>3. Confirmed("amiga")' /\ Delivered("amiga")' /\ Due("amiga")'
      BY <2>1, <2>6, <3>2 DEF Confirmed, Delivered, Due
    <3>4. Quiet'
      BY <2>4, <2>6, <3>3, OtherSide DEF Quiet
    <3>5. Rest'
      BY <2>1, <2>3, <2>7, <3>1, <3>4 DEF Rest
    <3> QED  BY <3>5 DEF Phase
  <2>8. CASE a_pc # "idle"
    <3>1. Sending("amiga") /\ Arriving("amiga") /\ Due("pc")
      BY <1>1, <2>8 DEF AmigaAnswers
    <3>2. Sending("amiga")' /\ Arriving("amiga")' /\ Due("pc")'
      BY <2>1, <2>6, <3>1 DEF Sending, Arriving, Due
    <3>3. AmigaOpen'
      BY <2>6, <3>2 DEF AmigaOpen
    <3>4. Out("amiga")' = Out("amiga")
      BY <2>1 DEF Out
    <3>5. Begun(f)'
      BY <1>2, <1>5, <2>1, <2>3, <2>8, <3>4 DEF Begun, Started
    <3>6. f \in -2..0
      BY <2>2
    <3>7. Waking'
      BY <2>1, <2>3, <2>8, <3>3, <3>5, <3>6 DEF Waking
    <3> QED  BY <3>7 DEF Phase
  <2> QED  BY <2>7, <2>8
<1>13. \/ Request \/ SendLine \/ SendStart \/ SendSample
       \/ PcRead \/ PcFinal \/ PcSent
  <2>1. PC => PcRead \/ PcFinal \/ PcSent
    BY <1>1, PcTxMoves, PcGuards
  <2>2. CASE a_pc = "idle"
    BY <1>1, <2>1, <2>2, IdleMoves
  <2>3. CASE a_pc \in {"requested", "have_line", "send_sample"}
    BY <1>1, <1>5, <2>1, <2>3, StartMoves
  <2>4. CASE a_pc = "send"
    <3>1. ~busy /\ ~d7
      BY <1>5, <2>4
    <3>2. busy = d7
      BY <1>6, <3>1
    <3> QED  BY <1>1, <2>1, <2>4, <3>2, SendMoves
  <2> QED  BY <1>5, <2>2, <2>3, <2>4
<1> QED  BY <1>8, <1>9, <1>10, <1>11, <1>12, <1>13

LEMMA AmigaOpenFacts ==
    ASSUME WireInv, AmigaOpen
    PROVE  /\ Last(offered["amiga"]) \in Packets
           /\ Out("amiga") \in Seq(Bytes) /\ Len(Out("amiga")) \in Nat
           /\ Len(Out("amiga")) >= 7 /\ Out("amiga")[1] = SYNCBYTE_HEAD
<1>1. offered["amiga"] # <<>>
  BY OpenPacket DEF WireInv
<1> QED  BY <1>1, OutFacts, OtherSide

LEMMA WakingStep ==
    ASSUME Peaceful, WireInv, WireInv', Waking, Going
    PROVE  Phase'
<1>1. /\ Types /\ p_pc = "idle" /\ a_pc # "idle" /\ Calm /\ AmigaOpen
  BY DEF WireInv, Waking
<1>2. PICK f \in -2..0 : Begun(f)
  BY DEF Waking
<1>3. /\ Ahead \in Nat /\ Seen[0] = view /\ (toPC = <<>> <=> Ahead = 0)
      /\ LastSent = Seen[Ahead]
  BY <1>1, SeenFacts
<1>4. f \in Int /\ (f = 0 \/ f = -1 \/ f = -2)
  OBVIOUS
<1>5. Started(f)
  BY <1>1, <1>2 DEF Begun
<1>6. ~busy /\ a_pc \in {"requested", "have_line", "send_sample", "send"}
      /\ (a_pc = "send" => ~d7)
  BY <1>5 DEF Started
<1>7. busy \in BOOLEAN /\ d7 \in BOOLEAN
  BY <1>1 DEF Types
<1>8. CASE SendLine \/ SendStart \/ SendSample
  <2>1. UNCHANGED <<flg, sig, p_pc>> /\ UNCHANGED logs
    BY <1>8 DEF SendLine, SendStart, SendSample, pcVars, flagVars
  <2>2. Begun(f)' /\ a_pc' # "idle"
    BY <1>2, <1>4, <1>8, BegunLine, BegunStart, BegunSample
  <2>3. Calm' /\ AmigaOpen'
    BY <1>1, <2>1, SameOpen DEF Calm
  <2>4. Waking'
    BY <1>1, <2>1, <2>2, <2>3 DEF Waking
  <2> QED  BY <2>4 DEF Phase
<1>9. CASE PcRead
  <2>1. /\ view' = Head(toPC) /\ toPC' = Tail(toPC) /\ toPC # <<>>
        /\ UNCHANGED <<busy, lines, a_pc, a_bytes, d7, p_pc, offered>>
        /\ Calm' /\ UNCHANGED logs
    BY <1>1, <1>9, ReadFrame
  <2>2. ~view.sel
    <3>1. Waiting
      BY <1>9, PcGuards
    <3> QED  BY <1>1, <3>1 DEF Waiting
  <2>3. f # -2
    <3> SUFFICES ASSUME f = -2 PROVE FALSE
      OBVIOUS
    <3>1. 0 \in 0..Ahead /\ 0 > f /\ 0 > f + 1
      BY <1>3
    <3>2. Seen[0].sel
      BY <1>2, <3>1 DEF Begun
    <3> QED  BY <1>3, <2>2, <3>2
  <2>4. f - 1 \in -2..0
    BY <1>4, <2>3
  <2>5. Begun(f - 1)'
    BY <1>1, <1>2, <1>4, <2>1, BegunRead
  <2>6. AmigaOpen'
    BY <1>1, <2>1, SameOpen
  <2>7. Waking'
    BY <1>1, <2>1, <2>4, <2>5, <2>6 DEF Waking
  <2> QED  BY <2>7 DEF Phase
<1>10. CASE PcRecv
  <2>1. /\ view.sel /\ toggle' = TRUE /\ p_bytes' = <<>> /\ p_pc' = "recv"
        /\ UNCHANGED <<busy, lines, toPC, flg, sig, a_pc, a_bytes, d7, view>>
        /\ UNCHANGED logs
    BY <1>10 DEF PcRecv, amigaVars, flagVars
  <2>2. a_pc # "send_sample"
    BY <1>10, PcGuards DEF PC, PcRuns, Peaceful
  <2>3. f = -2
    <3>1. f # 0
      <4> SUFFICES ASSUME f = 0 PROVE FALSE
        OBVIOUS
      <4> QED  BY <1>2, <1>3, <2>1 DEF Begun, Down
    <3>2. f # -1
      <4> SUFFICES ASSUME f = -1 PROVE FALSE
        OBVIOUS
      <4>1. 0 \in 0..Ahead /\ 0 > f /\ ~(0 > f + 1)
        BY <1>3
      <4> QED  BY <1>2, <1>3, <2>1, <4>1 DEF Begun
    <3> QED  BY <1>4, <3>1, <3>2
  <2>4. a_pc = "send" /\ Ahead \in {0, 1}
    <3>1. a_pc \in {"requested", "have_line"} => Ahead = -1
      BY <1>5, <2>3 DEF Started
    <3>2. a_pc = "send" => Ahead \in {0, 1}
      BY <1>5, <2>3 DEF Started
    <3> QED  BY <1>3, <1>6, <2>2, <3>1, <3>2
  <2>5. /\ ~d7 /\ lines.sel /\ lines.pout /\ lines.dat = SYNCBYTE_HEAD /\ LastSent = lines
        /\ Len(a_bytes) = Len(Out("amiga")) - 1 /\ IsRest(a_bytes, Out("amiga"))
    BY <1>5, <2>4 DEF Started
  <2>6. /\ Out("amiga") \in Seq(Bytes) /\ Len(Out("amiga")) \in Nat
        /\ Out("amiga")[1] = SYNCBYTE_HEAD
    BY <1>1, AmigaOpenFacts
  <2>7. AllSelected
    <3>1. \A i \in 0..Ahead : i > f /\ i > f + 1
      BY <2>3
    <3> QED  BY <1>2, <3>1 DEF AllSelected, Begun
  <2>8. Ahead' = Ahead /\ Seen' = Seen
    BY <2>1, KeepSeen
  <2>9. AmigaOpen' /\ Out("amiga")' = Out("amiga") /\ Calm'
    BY <1>1, <2>1, SameOpen DEF Calm
  <2>10. lines.pout = TRUE /\ busy = d7 /\ busy # TRUE
    BY <1>1, <1>6, <1>7, <2>5 DEF Types, Lines
  <2>11. \A i \in 0..Ahead : ~(i < Ahead - 1)
    BY <2>4
  <2>12. Len(p_bytes') = 0
    BY <2>1
  <2>13. Len(p_bytes') + Len(a_bytes) = Len(Out("amiga")) - 1
         /\ Out("amiga")[Len(p_bytes') + 1] = SYNCBYTE_HEAD
    BY <2>5, <2>6, <2>12
  <2>14. BytePut'
    BY OddNext, <1>1, <1>6, <1>3, <2>1, <2>5, <2>8, <2>9, <2>10, <2>11, <2>12, <2>13 DEF BytePut
  <2>15. IsFirst(p_bytes', Out("amiga"))
    BY <2>1, <2>6, FirstNone
  <2>16. ToPC'
    BY <2>1, <2>4, <2>5, <2>7, <2>8, <2>9, <2>10, <2>14, <2>15 DEF ToPC, AllSelected
  <2> QED  BY <2>16 DEF Phase
<1>11. SendLine \/ SendStart \/ SendSample \/ PcRead \/ PcRecv
  <2>1. ~PcSend
    BY <1>1, NoTurn
  <2>2. PC => PcRead \/ PcRecv
    BY <1>1, <2>1, PcIdleMoves
  <2>3. CASE a_pc \in {"requested", "have_line", "send_sample"}
    BY <1>1, <1>6, <2>2, <2>3, StartMoves
  <2>4. CASE a_pc = "send"
    <3>1. busy = d7
      BY <1>6, <1>7, <2>4
    <3> QED  BY <1>1, <2>2, <2>4, <3>1, SendMoves
  <2> QED  BY <1>6, <2>3, <2>4
<1> QED  BY <1>8, <1>9, <1>10, <1>11

LEMMA ToPCFacts ==
    ASSUME WireInv, ToPC
    PROVE  /\ Types /\ a_pc = "send" /\ Calm /\ lines.sel /\ AllSelected /\ toggle # busy
           /\ AmigaOpen /\ Out("amiga") \in Seq(Bytes) /\ Len(Out("amiga")) \in Nat
           /\ p_bytes \in Seq(Bytes) /\ Len(p_bytes) \in Nat /\ IsFirst(p_bytes, Out("amiga"))
           /\ a_bytes \in Seq(Bytes) /\ Len(a_bytes) \in Nat /\ IsRest(a_bytes, Out("amiga"))
           /\ ~Rejected(p_bytes)
           /\ Complete(p_bytes, SizeOf(p_bytes)) <=> Len(p_bytes) = Len(Out("amiga"))
           /\ Ahead \in Nat /\ Seen[0] = view /\ view.sel /\ (toPC = <<>> <=> Ahead = 0)
<1>1. /\ Types /\ a_pc = "send" /\ Calm /\ lines.sel /\ AllSelected /\ toggle # busy
      /\ AmigaOpen /\ IsFirst(p_bytes, Out("amiga")) /\ IsRest(a_bytes, Out("amiga"))
  BY DEF WireInv, ToPC
<1>2. /\ Last(offered["amiga"]) \in Packets
      /\ Out("amiga") \in Seq(Bytes) /\ Len(Out("amiga")) \in Nat
  BY <1>1, AmigaOpenFacts
<1>3. a_bytes \in Seq(Bytes) /\ p_bytes \in Seq(Bytes)
  BY <1>1 DEF Types
<1>4. /\ ~Rejected(p_bytes)
      /\ Complete(p_bytes, SizeOf(p_bytes)) <=> Len(p_bytes) = Len(Out("amiga"))
  <2>1. IsFirst(p_bytes, Wire(Last(offered["amiga"])))
    BY <1>1 DEF Out
  <2> QED  BY <1>2, <1>3, <2>1, ReceptionFacts DEF Out
<1>5. Ahead \in Nat /\ Seen[0] = view /\ (toPC = <<>> <=> Ahead = 0)
  BY <1>1, SeenFacts
<1>6. view.sel
  BY <1>1, <1>5 DEF AllSelected
<1> QED  BY <1>1, <1>2, <1>3, <1>4, <1>5, <1>6

LEMMA BytePutStep ==
    ASSUME Peaceful, WireInv, WireInv', ToPC, BytePut, Going
    PROVE  Phase'
<1>1. /\ Types /\ a_pc = "send" /\ Calm /\ lines.sel /\ AllSelected /\ toggle # busy
      /\ AmigaOpen /\ Out("amiga") \in Seq(Bytes) /\ Len(Out("amiga")) \in Nat
      /\ p_bytes \in Seq(Bytes) /\ Len(p_bytes) \in Nat /\ IsFirst(p_bytes, Out("amiga"))
      /\ Len(a_bytes) \in Nat /\ IsRest(a_bytes, Out("amiga"))
      /\ ~Rejected(p_bytes)
      /\ Ahead \in Nat /\ Seen[0] = view /\ view.sel /\ (toPC = <<>> <=> Ahead = 0)
  BY ToPCFacts
<1>2. /\ p_pc = "recv" /\ busy = d7 /\ lines.pout = toggle /\ (busy <=> Odd(Len(p_bytes)))
      /\ Len(p_bytes) + Len(a_bytes) = Len(Out("amiga")) - 1
      /\ Seen[Ahead].pout = toggle /\ Seen[Ahead].dat = Out("amiga")[Len(p_bytes) + 1]
      /\ \A i \in 0..Ahead : i < Ahead - 1 => Seen[i].pout # toggle
  BY DEF BytePut
<1>3. PcRead \/ PcGetByte
  <2>1. ~PcRecvFail
    BY <1>1, PcGuards DEF PcLost
  <2> QED  BY <1>1, <1>2, <2>1, SendMoves, PcRxMoves, PcGuards
<1>4. CASE PcRead
  <2>1. /\ view' = Head(toPC) /\ toPC' = Tail(toPC) /\ toPC # <<>>
        /\ UNCHANGED <<busy, lines, a_pc, a_bytes, d7, p_pc, p_bytes, toggle>>
        /\ Calm' /\ UNCHANGED logs
    BY <1>1, <1>4, ReadFrame
  <2>2. /\ Ahead > 0 /\ Ahead' = Ahead - 1 /\ \A i \in 0..Ahead' : Seen'[i] = Seen[i + 1]
    BY <1>1, <2>1, ReadSeen
  <2>3. AmigaOpen' /\ Out("amiga")' = Out("amiga")
    BY <1>1, <2>1, SameOpen
  <2>4. \A i \in 0..Ahead' : i + 1 \in 0..Ahead /\ (i < Ahead' - 1 => i + 1 < Ahead - 1)
    BY <1>1, <2>2
  <2>5. \A i \in 0..Ahead' : Seen'[i].sel /\ (i < Ahead' - 1 => Seen'[i].pout # toggle)
    BY <1>1, <1>2, <2>2, <2>4 DEF AllSelected
  <2>6. Seen'[Ahead'] = Seen[Ahead]
    BY <1>1, <2>2
  <2>7. BytePut'
    BY <1>2, <2>1, <2>3, <2>5, <2>6 DEF BytePut
  <2>8. ToPC'
    BY <1>1, <2>1, <2>3, <2>5, <2>7 DEF ToPC, AllSelected
  <2> QED  BY <2>8 DEF Phase
<1>5. CASE PcGetByte
  <2>1. /\ view.pout = toggle
        /\ IF toPC = <<>> THEN UNCHANGED <<view, toPC>>
           ELSE view' = Head(toPC) /\ toPC' = Tail(toPC)
        /\ p_bytes' = Append(p_bytes, view'.dat) /\ p_pc' = "recv_busy"
        /\ UNCHANGED <<busy, lines, flg, sig, a_pc, a_bytes, d7, toggle>>
        /\ UNCHANGED logs
    BY <1>5 DEF PcGetByte, PcToggled, amigaVars, flagVars
  <2>2. Ahead = 0 \/ Ahead = 1
    <3> SUFFICES ASSUME Ahead # 0, Ahead # 1 PROVE FALSE
      OBVIOUS
    <3>1. 0 \in 0..Ahead /\ 0 < Ahead - 1
      BY <1>1
    <3> QED  BY <1>1, <1>2, <2>1, <3>1
  <2>3. Ahead' = 0 /\ view' = Seen[Ahead]
    <3>1. CASE Ahead = 0
      BY <1>1, <2>1, <3>1, KeepSeen
    <3>2. CASE Ahead = 1
      <4>1. toPC # <<>>
        BY <1>1, <3>2
      <4>2. Ahead' = Ahead - 1 /\ view' = Seen[1]
        BY <1>1, <2>1, <4>1, ReadSeen
      <4> QED  BY <3>2, <4>2
    <3> QED  BY <2>2, <3>1, <3>2
  <2>4. view'.sel /\ view' \in Lines /\ view'.dat \in Bytes
    <3>1. Ahead \in 0..Ahead
      BY <1>1
    <3>2. Seen[Ahead] \in Lines /\ Seen[Ahead].sel
      BY <1>1, <3>1, SeenFacts DEF AllSelected
    <3> QED  BY <2>3, <3>2 DEF Lines
  <2>5. view'.pout = toggle /\ view'.dat = Out("amiga")[Len(p_bytes) + 1]
    BY <1>2, <2>3
  <2>6. Len(p_bytes) < Len(Out("amiga"))
    BY <1>1, <1>2
  <2>7. /\ IsFirst(p_bytes', Out("amiga")) /\ Len(p_bytes') = Len(p_bytes) + 1
    BY <1>1, <2>1, <2>4, <2>5, <2>6, FirstAppend
  <2>8. AmigaOpen' /\ Out("amiga")' = Out("amiga") /\ Calm'
    BY <1>1, <2>1, SameOpen DEF Calm
  <2>9. Len(p_bytes') + Len(a_bytes) = Len(Out("amiga"))
    BY <1>1, <1>2, <2>7
  <2>10. ByteRead'
    BY <1>1, <1>2, <2>1, <2>3, <2>5, <2>7, <2>8, <2>9, OddNext DEF ByteRead
  <2>11. Seen'[0].sel
    <3>1. Types'
      BY DEF WireInv
    <3>2. Seen'[0] = view'
      BY <3>1, SeenOfFacts DEF Types, Seen
    <3> QED  BY <2>4, <3>2
  <2>12. \A i \in 0..0 : Seen'[i].sel
    <3>1. \A i \in 0..0 : i = 0
      OBVIOUS
    <3> QED  BY <2>11, <3>1
  <2>13. ToPC'
    BY <1>1, <2>1, <2>3, <2>7, <2>8, <2>10, <2>12 DEF ToPC, AllSelected
  <2> QED  BY <2>13 DEF Phase
<1> QED  BY <1>3, <1>4, <1>5

LEMMA ByteReadStep ==
    ASSUME Peaceful, WireInv, WireInv', ToPC, ByteRead, Going
    PROVE  Phase'
<1>1. /\ Types /\ a_pc = "send" /\ Calm /\ lines.sel /\ AllSelected /\ toggle # busy
      /\ AmigaOpen /\ Len(Out("amiga")) \in Nat
      /\ Len(p_bytes) \in Nat /\ IsFirst(p_bytes, Out("amiga"))
      /\ a_bytes \in Seq(Bytes) /\ Len(a_bytes) \in Nat /\ IsRest(a_bytes, Out("amiga"))
      /\ Complete(p_bytes, SizeOf(p_bytes)) <=> Len(p_bytes) = Len(Out("amiga"))
  BY ToPCFacts
<1>2. /\ p_pc = "recv_busy" /\ busy = d7 /\ lines.pout = toggle /\ (busy <=> ~Odd(Len(p_bytes)))
      /\ Len(p_bytes) + Len(a_bytes) = Len(Out("amiga"))
      /\ Ahead = 0 /\ view.pout = toggle
  BY DEF ByteRead
<1>3. PcGetBusy
  <2>1. ~PcRead
    BY <1>2, PcGuards DEF Waiting
  <2> QED  BY <1>1, <1>2, <2>1, SendMoves, PcRxMoves, PcGuards
<1>4. /\ busy' = toggle /\ toggle' = ~toggle
      /\ p_pc' = IF Complete(p_bytes, SizeOf(p_bytes)) THEN "recv_unselect" ELSE "recv"
      /\ UNCHANGED <<lines, toPC, flg, sig, a_pc, a_bytes, d7, view, p_bytes>>
      /\ UNCHANGED logs
  BY <1>3 DEF PcGetBusy, amigaVars, flagVars
<1>5. toggle' # toggle /\ toggle' # busy' /\ busy' # d7 /\ (busy' <=> ~busy)
  BY <1>1, <1>2, <1>4 DEF Types
<1>6. a_bytes = <<>> <=> Len(p_bytes) = Len(Out("amiga"))
  <2>1. a_bytes = <<>> <=> Len(a_bytes) = 0
    BY <1>1
  <2> QED  BY <1>1, <1>2, <2>1
<1>7. p_pc' \in {"recv", "recv_unselect"} /\ (p_pc' = "recv" <=> a_bytes # <<>>)
  BY <1>1, <1>4, <1>6
<1>8. AmigaOpen' /\ Out("amiga")' = Out("amiga") /\ Calm' /\ Ahead' = Ahead /\ Seen' = Seen
  BY <1>1, <1>4, SameOpen, KeepSeen DEF Calm
<1>9. ByteTaken'
  BY <1>2, <1>4, <1>5, <1>7, <1>8 DEF ByteTaken
<1>10. ToPC'
  BY <1>1, <1>4, <1>5, <1>8, <1>9 DEF ToPC, AllSelected
<1> QED  BY <1>10 DEF Phase

LEMMA ByteTakenStep ==
    ASSUME Peaceful, WireInv, WireInv', ToPC, ByteTaken, Going
    PROVE  Phase'
<1>1. /\ Types /\ a_pc = "send" /\ Calm /\ lines.sel /\ AllSelected /\ toggle # busy
      /\ AmigaOpen /\ Out("amiga") \in Seq(Bytes) /\ Len(Out("amiga")) \in Nat
      /\ Len(p_bytes) \in Nat /\ IsFirst(p_bytes, Out("amiga"))
      /\ a_bytes \in Seq(Bytes) /\ Len(a_bytes) \in Nat /\ IsRest(a_bytes, Out("amiga"))
      /\ ~Rejected(p_bytes)
      /\ Ahead \in Nat /\ Seen[0] = view /\ view.sel /\ (toPC = <<>> <=> Ahead = 0)
  BY ToPCFacts
<1>2. /\ p_pc \in {"recv", "recv_unselect"} /\ busy # d7 /\ lines.pout # toggle
      /\ (busy <=> Odd(Len(p_bytes)))
      /\ Len(p_bytes) + Len(a_bytes) = Len(Out("amiga"))
      /\ (p_pc = "recv" <=> a_bytes # <<>>)
      /\ Ahead = 0 /\ view.pout # toggle
  BY DEF ByteTaken
<1>3. SendByte \/ SendDone
  <2>1. ~PcRead /\ ~PcReceived
    BY <1>1, <1>2, PcGuards
  <2>2. ~PcGetByte /\ ~PcGetBusy /\ ~PcRecvFail
    BY <1>1, <1>2, PcGuards DEF PcToggled, PcLost
  <2>3. ~PC
    BY <1>2, <2>1, <2>2, PcRxMoves
  <2> QED  BY <1>1, <2>3, SendMoves
<1>4. CASE SendByte
  <2> DEFINE byte   == Head(a_bytes)
             first  == [lines EXCEPT !.dat = byte]
             second == [lines EXCEPT !.pout = ~@, !.dat = byte]
  <2>1. /\ a_bytes # <<>> /\ d7' = busy /\ DriveTwo(first, second) /\ a_bytes' = Tail(a_bytes)
        /\ UNCHANGED <<busy, flg, sig, a_pc, view, p_pc, p_bytes, toggle>> /\ UNCHANGED logs
    BY <1>4 DEF SendByte, Follow, Put, flagVars, pcVars
  <2>2. /\ byte \in Bytes /\ byte = Out("amiga")[Len(Out("amiga")) - Len(a_bytes) + 1]
        /\ Len(a_bytes') = Len(a_bytes) - 1 /\ IsRest(a_bytes', Out("amiga"))
    BY <1>1, <2>1, RestTail
  <2>3. byte = Out("amiga")[Len(p_bytes) + 1]
    <3>1. Len(Out("amiga")) - Len(a_bytes) + 1 = Len(p_bytes) + 1
      BY <1>1, <1>2
    <3> QED  BY <2>2, <3>1
  <2>4. /\ first \in Lines /\ second \in Lines /\ first # second
        /\ first.sel /\ second.sel /\ second.dat = byte /\ second.pout = ~lines.pout
    BY <1>1, <2>2 DEF Types, Lines
  <2>5. second.pout = toggle
    BY <1>1, <1>2, <2>4 DEF Types, Lines
  <2> HIDE DEF byte, first, second
  <2>6. /\ lines' = second /\ Ahead' \in {1, 2} /\ Seen'[0] = view
        /\ Ahead' = 2 => Seen'[1] = first
        /\ Seen'[Ahead'] = second
    BY <1>1, <1>2, <2>1, <2>4, DriveTwoSeen
  <2>7. \A i \in 0..Ahead' : i = 0 \/ (i = 1 /\ Ahead' = 2) \/ i = Ahead'
    BY <2>6
  <2>8. \A i \in 0..Ahead' : Seen'[i].sel
    BY <1>1, <2>4, <2>6, <2>7
  <2>9. \A i \in 0..Ahead' : i < Ahead' - 1 => Seen'[i].pout # toggle
    <3>1. PICK n \in {1, 2} : n = Ahead'
      BY <2>6
    <3>2. \A i \in 0..n : i < n - 1 => i = 0
      OBVIOUS
    <3>3. \A i \in 0..Ahead' : i < Ahead' - 1 => i = 0
      BY <3>1, <3>2
    <3> QED  BY <1>2, <2>6, <3>3
  <2>10. AmigaOpen' /\ Out("amiga")' = Out("amiga") /\ Calm'
    BY <1>1, <2>1, SameOpen DEF Calm
  <2>11. Len(p_bytes) + Len(a_bytes') = Len(Out("amiga")) - 1
    BY <1>1, <1>2, <2>2
  <2>12. BytePut'
    BY <1>2, <2>1, <2>3, <2>4, <2>5, <2>6, <2>9, <2>10, <2>11 DEF BytePut
  <2>13. ToPC'
    BY <1>1, <2>1, <2>2, <2>4, <2>6, <2>8, <2>10, <2>12 DEF ToPC, AllSelected
  <2> QED  BY <2>13 DEF Phase
<1>5. CASE SendDone
  <2>1. /\ a_bytes = <<>> /\ Release /\ flg' = FALSE /\ a_pc' = "idle"
        /\ sent' = [sent EXCEPT !["amiga"] = Append(@, Last(offered["amiga"]))]
        /\ UNCHANGED <<busy, sig, view, p_pc, p_bytes, offered, rcvd>>
    BY <1>5 DEF SendDone, SendEnd, flagVars, pcVars
  <2>2. p_pc = "recv_unselect" /\ Len(p_bytes) = Len(Out("amiga"))
    <3>1. Len(a_bytes) = 0
      BY <2>1
    <3> QED  BY <1>1, <1>2, <2>1, <3>1
  <2>3. /\ \A i \in 0..Ahead : Seen'[i] = Seen[i]
        /\ \A i \in 0..Ahead' : i > Ahead /\ i < Ahead' => Seen'[i].sel
        /\ \E f \in Nat : f = Ahead' /\ Begun(f)'
    BY <1>1, <2>1, ReleaseBegun
  <2>4. PICK f \in Nat : f = Ahead' /\ Begun(f)'
    BY <2>3
  <2>5. f = Ahead'
    BY <2>4
  <2>6. StillSelected(f)'
    <3>1. \A i \in 0..(f - 1) : i = 0 \/ (i \in 0..f /\ i > 0 /\ i < f)
      OBVIOUS
    <3>2. Seen'[0].sel
      BY <1>1, <1>2, <2>3
    <3>3. \A i \in 0..f : i > 0 /\ i < f => Seen'[i].sel
      BY <1>2, <2>3, <2>5
    <3>4. \A i \in 0..(f - 1) : Seen'[i].sel
      BY <3>1, <3>2, <3>3
    <3> QED  BY <3>4 DEF StillSelected
  <2>7. AmigaTaken'
    <3>1. "amiga" \in Sides /\ Other("amiga") = "pc" /\ Other("pc") = "amiga"
      BY OtherSide
    <3>2. /\ Confirmed("pc") /\ Delivered("pc")
          /\ Sending("amiga") /\ Arriving("amiga") /\ Due("pc")
      BY <1>1 DEF AmigaOpen
    <3>3. Confirmed("amiga")' /\ sent'["pc"] = sent["pc"]
      BY <1>1, <2>1, <3>1, <3>2, ConfirmLogs
    <3>4. Confirmed("pc")' /\ Delivered("pc")' /\ Arriving("amiga")' /\ Due("pc")'
      BY <2>1, <3>2, <3>3 DEF Confirmed, Delivered, Arriving, Due
    <3> QED  BY <3>3, <3>4 DEF AmigaTaken
  <2>8. f \in 0..Ahead'
    BY <2>5
  <2>9. Out("amiga")' = Out("amiga") /\ Calm'
    BY <1>1, <2>1 DEF Out, Calm
  <2>10. IsFirst(p_bytes', Out("amiga")') /\ Len(p_bytes') = Len(Out("amiga")')
    BY <1>1, <2>1, <2>2, <2>9
  <2>11. AmigaSentAll'
    BY <1>2, <2>1, <2>2, <2>4, <2>6, <2>7, <2>8, <2>9, <2>10 DEF AmigaSentAll
  <2> QED  BY <2>11 DEF Phase
<1> QED  BY <1>3, <1>4, <1>5

LEMMA ToPCStep ==
    ASSUME Peaceful, WireInv, WireInv', ToPC, Going
    PROVE  Phase'
<1>1. BytePut \/ ByteRead \/ ByteTaken
  BY DEF ToPC
<1> QED  BY <1>1, BytePutStep, ByteReadStep, ByteTakenStep

\* The PC has all of the packet of the Amiga.
LEMMA SentAllData ==
    ASSUME WireInv, AmigaSentAll PROVE Data(p_bytes) = Last(offered["amiga"])
<1>1. Last(offered["amiga"]) \in Packets
  BY OpenPacket, OutFacts, OtherSide DEF WireInv, AmigaSentAll
<1>2. /\ p_bytes \in Seq(Bytes) /\ IsFirst(p_bytes, Wire(Last(offered["amiga"])))
      /\ Len(p_bytes) = Len(Wire(Last(offered["amiga"])))
  BY DEF WireInv, Types, AmigaSentAll, Out
<1> QED  BY <1>1, <1>2, ReceptionFacts

LEMMA AmigaSentAllStep ==
    ASSUME Peaceful, WireInv, WireInv', AmigaSentAll, Going
    PROVE  Phase'
<1>1. /\ Types /\ p_pc = "recv_unselect" /\ a_pc = "idle" /\ Calm /\ (busy <=> Odd(Len(p_bytes)))
      /\ IsFirst(p_bytes, Out("amiga")) /\ Len(p_bytes) = Len(Out("amiga"))
      /\ Confirmed("pc") /\ Delivered("pc")
      /\ Confirmed("amiga") /\ Arriving("amiga") /\ Due("pc") /\ AmigaTaken
  BY DEF WireInv, AmigaSentAll, AmigaTaken
<1>2. PICK f \in 0..Ahead : Begun(f) /\ StillSelected(f)
  BY DEF AmigaSentAll
<1>3. Ahead \in Nat /\ Seen[0] = view /\ (toPC = <<>> <=> Ahead = 0)
  BY <1>1, SeenFacts
<1>4. f \in Nat /\ f \in Int
  BY <1>3
<1>5. PcRead \/ PcReceived
  <2>1. ~Request
    BY <1>1, NoTurn
  <2>2. PC
    BY <1>1, <2>1, IdleMoves
  <2> QED  BY <1>1, <2>2, PcRxMoves, PcGuards
<1>6. CASE PcRead
  <2>1. /\ view' = Head(toPC) /\ toPC' = Tail(toPC) /\ toPC # <<>>
        /\ UNCHANGED <<busy, lines, a_pc, a_bytes, d7, p_pc, p_bytes, offered>>
        /\ Calm' /\ UNCHANGED logs
    BY <1>1, <1>6, ReadFrame
  <2>2. /\ Ahead > 0 /\ Ahead' = Ahead - 1 /\ \A i \in 0..Ahead' : Seen'[i] = Seen[i + 1]
    BY <1>1, <2>1, ReadSeen
  <2>3. view.sel
    <3>1. Waiting
      BY <1>6, PcGuards
    <3> QED  BY <1>1, <3>1 DEF Waiting
  <2>4. f # 0
    <3> SUFFICES ASSUME f = 0 PROVE FALSE
      OBVIOUS
    <3>1. Down(view)
      BY <1>2, <1>3 DEF Begun
    <3> QED  BY <2>3, <3>1 DEF Down
  <2>5. Begun(f - 1)'
    BY <1>1, <1>2, <1>4, <2>1, BegunRead
  <2>6. f - 1 \in 0..Ahead'
    BY <1>3, <1>4, <2>2, <2>4
  <2>7. StillSelected(f - 1)'
    <3>1. \A i \in 0..((f - 1) - 1) : i + 1 \in 0..(f - 1) /\ i \in 0..Ahead'
      BY <1>3, <1>4, <2>2
    <3>2. \A i \in 0..((f - 1) - 1) : Seen'[i].sel
      BY <1>2, <2>2, <3>1 DEF StillSelected
    <3> QED  BY <3>2 DEF StillSelected
  <2>8. AmigaTaken' /\ Out("amiga")' = Out("amiga")
    BY <1>1, <2>1, SameOpen
  <2>9. AmigaSentAll'
    BY <1>1, <2>1, <2>5, <2>6, <2>7, <2>8 DEF AmigaSentAll
  <2> QED  BY <2>9 DEF Phase
<1>7. CASE PcReceived
  <2>1. /\ ~view.sel /\ busy' = FALSE /\ p_pc' = "idle"
        /\ rcvd' = [rcvd EXCEPT !["pc"] = Append(@, Data(p_bytes))]
        /\ UNCHANGED <<lines, toPC, flg, sig, a_pc, view, offered, sent>>
    BY <1>7 DEF PcReceived, Unselected, amigaVars, flagVars
  <2>2. f = 0
    <3> SUFFICES ASSUME f # 0 PROVE FALSE
      OBVIOUS
    <3>1. 0 \in 0..(f - 1)
      BY <1>4
    <3> QED  BY <1>2, <1>3, <2>1, <3>1 DEF StillSelected
  <2>3. Ahead = 0 /\ Down(lines) /\ Down(view)
    BY <1>1, <1>2, <1>3, <2>2 DEF Begun
  <2>4. Ahead' = Ahead /\ Calm'
    BY <1>1, <2>1, KeepSeen DEF Calm
  <2>5. "amiga" \in Sides /\ Other("amiga") = "pc" /\ Other("pc") = "amiga" /\ "pc" \in Sides
    BY OtherSide
  <2>6. Data(p_bytes) = Last(offered["amiga"])
    BY SentAllData
  <2>7. Delivered("amiga")' /\ rcvd'["amiga"] = rcvd["amiga"]
    BY <1>1, <2>1, <2>5, <2>6, DeliverLogs
  <2>8. Confirmed("pc")' /\ Delivered("pc")' /\ Confirmed("amiga")' /\ Due("pc")'
    BY <1>1, <2>1, <2>5, <2>7 DEF Confirmed, Delivered, Due
  <2>9. Quiet'
    BY <2>5, <2>7, <2>8, OtherSide DEF Quiet
  <2>10. Rest'
    BY <1>1, <2>1, <2>3, <2>4, <2>9 DEF Rest
  <2> QED  BY <2>10 DEF Phase
<1> QED  BY <1>5, <1>6, <1>7

-----------------------------------------------------------------------------
(* The invariant.                                                          *)

LEMMA PhaseStep ==
    ASSUME Peaceful, WireInv, WireInv', Phase, Going
    PROVE  Phase'
BY RestStep, CallingStep, SelectingStep, ToAmigaStep, RefusalStep, StoppedStep,
   PcSentAllStep, WakingStep, ToPCStep, AmigaSentAllStep DEF Phase

LEMMA PhaseStutter ==
    ASSUME Phase, UNCHANGED vars
    PROVE  Phase'
<1>1. /\ UNCHANGED <<busy, lines, toPC, view, flg, sig, a_pc, a_bytes, d7, p_pc, p_bytes, toggle>>
      /\ UNCHANGED logs /\ offered' = offered
  BY DEF vars, amigaVars, flagVars, pcVars, logs
<1>2. UNCHANGED <<Ahead, Seen, LastSent>>
  BY <1>1, KeepSeen
<1>3. /\ UNCHANGED <<Quiet, PcOpen, PcTaken, AmigaAnswers, AmigaOpen, AmigaTaken>>
      /\ UNCHANGED <<Out("pc"), Out("amiga")>>
  BY <1>1, SameOpen
<1>4. (Rest => Rest') /\ (Calling => Calling') /\ (Selecting => Selecting')
  BY <1>1, <1>2, <1>3 DEF Rest, Calling, Selecting, PcAll, Calm
<1>5. \A f : Begun(f) /\ StillSelected(f) => Begun(f)' /\ StillSelected(f)'
  BY <1>1, <1>2, <1>3 DEF Begun, Started, StillSelected
<1>6. \A f : Begun(f) => Begun(f)'
  BY <1>1, <1>2, <1>3 DEF Begun, Started
<1>7. ToAmiga => ToAmiga'
  BY <1>1, <1>2, <1>3 DEF ToAmiga, Selected, Answered, Offering, Offered, AllPut, AllSelected,
                          Calm
<1>8. ToPC => ToPC'
  BY <1>1, <1>2, <1>3 DEF ToPC, BytePut, ByteRead, ByteTaken, AllSelected, Calm
<1>9. (PcSentAll => PcSentAll') /\ (AmigaSentAll => AmigaSentAll') /\ (Waking => Waking')
  BY <1>1, <1>2, <1>3, <1>5, <1>6 DEF PcSentAll, AmigaSentAll, Waking, Calm
<1>10. (Refusal => Refusal') /\ (Stopped => Stopped')
  BY <1>1, <1>2, <1>3 DEF Refusal, Stopped, Silent, Fallen, Calm
<1> QED  BY <1>4, <1>7, <1>8, <1>9, <1>10 DEF Phase

LEMMA InitPhase == Init => Phase
<1> SUFFICES ASSUME Init PROVE Phase
  OBVIOUS
<1>1. /\ ~busy /\ Down(lines) /\ Down(view) /\ Calm /\ a_pc = "idle" /\ p_pc = "idle"
      /\ Ahead = 0
  BY DEF Init, Down, Calm, Ahead
<1>2. \A s \in Sides : offered[s] = <<>> /\ sent[s] = <<>> /\ rcvd[s] = <<>>
  BY DEF Init
<1>3. \A s \in Sides : Confirmed(s) /\ Delivered(s)
  BY <1>2, OtherSide DEF Confirmed, Delivered
<1>4. Starter \in Sides
  BY WireAssumption
<1>5. Due(Starter)
  <2>1. Other(Starter) \in Sides
    BY <1>4, OtherSide
  <2>2. Len(offered[Starter]) = 0 /\ Len(offered[Other(Starter)]) = 0
    BY <1>2, <1>4, <2>1
  <2> QED  BY <2>2 DEF Due, Second
<1>6. Rest
  BY <1>1, <1>3, <1>4, <1>5 DEF Rest, Quiet
<1> QED  BY <1>6 DEF Phase

\* hwsend and hwrecv disable the interrupt, and no one else does.
Guarded == inten <=> a_pc \notin {"send_sample", "send", "recv_sample", "recv"}

LEMMA GuardedStep == Guarded /\ [Next]_vars => Guarded'
<1> SUFFICES ASSUME Guarded, [Next]_vars PROVE Guarded'
  OBVIOUS
<1>1. CASE UNCHANGED vars
  BY <1>1 DEF vars, amigaVars, Guarded
<1>2. CASE interrupt
  BY <1>2 DEF interrupt, Guarded
<1>3. CASE Amiga
  <2>1. (SendRequest \/ SendNoLine \/ SendLine) => Guarded'
    BY DEF SendRequest, SendNoLine, SendLine, Guarded
  <2>2. hwsend => Guarded'
    BY DEF hwsend, SendStart, SendSample, SendByte, SendDone, SendEnd, Guarded
  <2>3. (RecvStart \/ hwrecv) => Guarded'
    BY DEF RecvStart, hwrecv, RecvSample, RecvByte, RecvDone, RecvRefuse, RecvEnd, Guarded
  <2> QED  BY <1>3, <2>1, <2>2, <2>3 DEF Amiga
<1>4. CASE PC \/ PcNoSelect
  <2>1. UNCHANGED amigaVars
    BY <1>4 DEF PC, PcRead, PcSend, PcMagic, PcAck, PcSelected, PcPutByte, PcPutBusy,
                PcSendLost, PcFinal, PcSent, PcRecv, PcGetByte, PcGetBusy, PcRecvFail,
                PcReceived, PcFail, PcNoSelect
  <2> QED  BY <2>1 DEF amigaVars, Guarded
<1>5. CASE SendTimeout \/ RecvTimeout
  BY <1>5 DEF SendTimeout, RecvTimeout, SendEnd, RecvEnd, Guarded
<1> QED  BY <1>1, <1>2, <1>3, <1>4, <1>5 DEF Next, Timeout

\* In every phase, what a side has offered is delivered or on its way, and the Amiga is
\* told of what it sent.
LEMMA PhaseDelivers ==
    ASSUME Phase
    PROVE  /\ \A s \in Sides : Delivered(s) \/ Arriving(s)
           /\ Delivered("pc") \/ (Arriving("pc") /\ Due("amiga"))
           /\ a_pc = "idle" => Confirmed("amiga")
<1>1. Quiet \/ PcOpen \/ PcTaken \/ AmigaAnswers \/ AmigaOpen \/ AmigaTaken
  BY DEF Phase, Rest, Calling, Selecting, PcAll, ToAmiga, Refusal, Stopped, PcSentAll, Waking,
         ToPC, AmigaSentAll
<1>2. a_pc = "idle" => Quiet \/ PcOpen \/ PcTaken \/ AmigaTaken
  BY DEF Phase, Rest, Calling, Selecting, PcAll, ToAmiga, Refusal, Stopped, PcSentAll, Waking,
         ToPC, AmigaSentAll
<1> QED  BY <1>1, <1>2, OtherSide
         DEF Quiet, PcOpen, PcTaken, AmigaAnswers, AmigaOpen, AmigaTaken

LEMMA RequestIs ==
    ASSUME Peaceful, WireInv, Phase, SendRequest
    PROVE  Request /\ ~Pending
<1>1. Types /\ "amiga" \in Sides /\ Other("amiga") = "pc" /\ a_pc = "idle"
  BY OtherSide DEF WireInv, SendRequest
<1>2. ~Pending
  BY <1>1, PhaseDelivers, LogLens DEF Pending, Confirmed
<1>3. MaySend("amiga")
  BY <1>2 DEF SendRequest
<1>4. Delivered("pc") /\ Due("amiga")
  BY <1>1, <1>3, PhaseDelivers, MaySendFacts DEF Peaceful
<1>5. PICK n \in AmigaSizes :
         offered' = [offered EXCEPT !["amiga"] = Append(@, Payload("amiga", n))]
  BY <1>2 DEF SendRequest
<1>6. Payload("amiga", n) \in Packets
  <2>1. n \in 1..MaxSize
    BY WireAssumption
  <2> QED  BY <1>1, <2>1, PayloadType
<1>7. \E p \in Packets : offered' = [offered EXCEPT !["amiga"] = Append(@, p)]
  BY <1>5, <1>6
<1> QED  BY <1>1, <1>2, <1>4, <1>7 DEF SendRequest, Request, Out

\* Only a timeout counts as one.
LEMMA TimeoutsGrow ==
    ASSUME Next
    PROVE  timeouts' = timeouts \/ (Timeout /\ timeouts' = timeouts + 1)
<1>1. CASE interrupt
  BY <1>1 DEF interrupt
<1>2. CASE Amiga
  BY <1>2 DEF Amiga, hwsend, hwrecv, SendRequest, SendNoLine, SendLine, SendStart, SendSample,
              SendByte, SendDone, RecvStart, RecvSample, RecvByte, RecvDone, RecvRefuse
<1>3. CASE PC
  BY <1>3 DEF PC, PcRead, PcSend, PcMagic, PcAck, PcSelected, PcPutByte, PcPutBusy, PcSendLost,
              PcFinal, PcSent, PcRecv, PcGetByte, PcGetBusy, PcRecvFail, PcReceived
<1>4. CASE Timeout
  BY <1>4 DEF Timeout, SendTimeout, RecvTimeout, PcNoSelect
<1> QED  BY <1>1, <1>2, <1>3, <1>4 DEF Next

LEMMA NextIsGoing ==
    ASSUME Peaceful, WireInv, timeouts = 0 => Phase, Next, timeouts' = 0
    PROVE  Phase /\ Going
<1>1. timeouts \in Nat
  BY WireAssumption DEF WireInv, Types
<1>2. timeouts = 0 /\ (Timeout => timeouts' # timeouts)
  <2>1. timeouts' = timeouts
    BY <1>1, TimeoutsGrow
  <2>2. Timeout => timeouts' = timeouts + 1
    BY DEF Timeout, SendTimeout, RecvTimeout, PcNoSelect
  <2> QED  BY <1>1, <2>1, <2>2
<1> QED  BY <1>2, RequestIs DEF Next, Amiga, Going, AmigaGoes

Undisturbed == timeouts = 0 => Phase

LEMMA PhaseInvariant == Peaceful => (Spec => [](WireInv /\ Undisturbed /\ Guarded))
<1> SUFFICES ASSUME Peaceful PROVE Spec => [](WireInv /\ Undisturbed /\ Guarded)
  OBVIOUS
<1>1. Init => WireInv /\ Undisturbed /\ Guarded
  BY InitWireInv, InitPhase DEF Init, Guarded, Undisturbed
<1>2. WireInv /\ Undisturbed /\ Guarded /\ [Next]_vars => WireInv' /\ Undisturbed' /\ Guarded'
  <2> SUFFICES ASSUME WireInv, Undisturbed, Guarded, [Next]_vars
               PROVE  WireInv' /\ Undisturbed' /\ Guarded'
    OBVIOUS
  <2>1. WireInv' /\ Guarded'
    BY StepWireInv, GuardedStep
  <2>2. ASSUME timeouts' = 0 PROVE Phase'
    <3>1. CASE UNCHANGED vars
      BY <2>2, <3>1, PhaseStutter DEF Undisturbed, vars
    <3>2. CASE Next
      BY <2>1, <2>2, <3>2, NextIsGoing, PhaseStep DEF Undisturbed
    <3> QED  BY <3>1, <3>2
  <2> QED  BY <2>1, <2>2 DEF Undisturbed
<1> QED  BY <1>1, <1>2, PTL DEF Spec

-----------------------------------------------------------------------------
(* The theorems.                                                           *)

LEMMA FirstIsPrefix ==
    ASSUME NEW b \in Seq(Bytes), NEW out \in Seq(Bytes), IsFirst(b, out)
    PROVE  IsPrefix(b, out)
<1>1. Len(b) \in Nat /\ Len(out) \in Nat /\ Len(b) <= Len(out)
  BY DEF IsFirst
<1>2. \A k \in 1..Len(b) : b[k] = out[k]
  BY DEF IsFirst
<1>3. SubSeq(b, 1, Len(b)) = SubSeq(out, 1, Len(b))
  BY <1>1, <1>2
<1> QED  BY <1>1, <1>3 DEF IsPrefix

\* During a transfer the receiver has every byte but perhaps the one on the lines
\* (hwsend and hwrecv of pario.asm, send and recv of parblk.py), for packets of every
\* size, also one that does not fit, when the programs take turns and as long as nothing
\* times out.
THEOREM BytesInStep == Peaceful => (Spec => [](timeouts = 0 => ByteLockstep))
<1> SUFFICES ASSUME Peaceful PROVE Spec => [](timeouts = 0 => ByteLockstep)
  OBVIOUS
<1>1. WireInv /\ Phase => ByteLockstep
  <2> SUFFICES ASSUME WireInv, Phase PROVE ByteLockstep
    OBVIOUS
  <2>1. ASSUME a_pc = "send", p_pc \in {"recv", "recv_busy"}
        PROVE  /\ Behind(Len(p_bytes), Len(Out("amiga")) - Len(a_bytes))
               /\ IsPrefix(p_bytes, Out("amiga"))
    <3>1. ToPC
      BY <2>1 DEF Phase, Rest, Calling, Selecting, ToAmiga, Refusal, Stopped, PcSentAll, Waking,
             AmigaSentAll
    <3>2. /\ Len(p_bytes) \in Nat /\ Len(a_bytes) \in Nat /\ Len(Out("amiga")) \in Nat
          /\ IsPrefix(p_bytes, Out("amiga"))
      BY <3>1, ToPCFacts, FirstIsPrefix
    <3>3. Len(p_bytes) + Len(a_bytes) \in {Len(Out("amiga")) - 1, Len(Out("amiga"))}
      BY <3>1 DEF ToPC, BytePut, ByteRead, ByteTaken
    <3> DEFINE r == Len(p_bytes)
               n == Len(a_bytes)
               w == Len(Out("amiga"))
    <3> HIDE DEF r, n, w
    <3>4. r \in Nat /\ n \in Nat /\ w \in Nat /\ r + n \in {w - 1, w}
      BY <3>2, <3>3 DEF r, n, w
    <3>5. r \in {w - n - 1, w - n}
      BY <3>4
    <3> QED  BY <3>2, <3>5 DEF r, n, w, Behind
  <2>2. ASSUME a_pc = "recv", p_pc \in {"tx", "tx_busy"}
        PROVE  /\ Behind(Len(a_bytes), Len(Out("pc")) - Len(p_bytes))
               /\ IsPrefix(a_bytes, Out("pc"))
    <3>1. ToAmiga
      <4>1. ~PcSentAll
        BY <2>2 DEF PcSentAll, Begun, Started
      <4> QED  BY <2>2, <4>1 DEF Phase, Rest, Calling, Selecting, Refusal, Stopped, Waking, ToPC,
                                    AmigaSentAll
    <3>2. /\ Len(p_bytes) \in Nat /\ Len(a_bytes) \in Nat /\ Len(Out("pc")) \in Nat
          /\ IsPrefix(a_bytes, Out("pc"))
      BY <3>1, ToAmigaFacts, FirstIsPrefix
    <3>3. Len(a_bytes) + Len(p_bytes) \in {Len(Out("pc")) - 1, Len(Out("pc"))}
      BY <2>2, <3>1 DEF ToAmiga, Selected, Answered, Offering, Offered, AllPut
    <3> DEFINE r == Len(a_bytes)
               n == Len(p_bytes)
               w == Len(Out("pc"))
    <3> HIDE DEF r, n, w
    <3>4. r \in Nat /\ n \in Nat /\ w \in Nat /\ r + n \in {w - 1, w}
      BY <3>2, <3>3 DEF r, n, w
    <3>5. r \in {w - n - 1, w - n}
      BY <3>4
    <3> QED  BY <3>2, <3>5 DEF r, n, w, Behind
  <2> QED  BY <2>1, <2>2 DEF ByteLockstep, Out
<1>2. WireInv /\ Undisturbed /\ Guarded => (timeouts = 0 => ByteLockstep)
  BY <1>1 DEF Undisturbed
<1> QED  BY <1>2, PhaseInvariant, PTL

\* When both routines are through the port is as the next transfer needs it (the ends
\* of hwsend and hwrecv in pario.asm, of send and recv in parblk.py), whatever the
\* parity of the sizes was; as long as nothing times out.
THEOREM PortAtRest == Peaceful => (Spec => [](timeouts = 0 => AtRest))
<1> SUFFICES ASSUME Peaceful PROVE Spec => [](timeouts = 0 => AtRest)
  OBVIOUS
<1>1. WireInv /\ Phase /\ Guarded => AtRest
  <2> SUFFICES ASSUME Phase, Guarded, a_pc = "idle", p_pc = "idle"
               PROVE  ~busy /\ ~lines.pout /\ ~lines.sel /\ inten /\ ~flg
    BY DEF AtRest
  <2>1. Rest
    BY DEF Phase, Calling, Selecting, ToAmiga, Refusal, Stopped, PcSentAll, Waking, ToPC,
           AmigaSentAll
  <2> QED  BY <2>1 DEF Rest, Down, Calm, Guarded
<1>2. WireInv /\ Undisturbed /\ Guarded => (timeouts = 0 => AtRest)
  BY <1>1 DEF Undisturbed
<1> QED  BY <1>2, PhaseInvariant, PTL

\* What the logs say of each other in every phase.
LEMMA PhaseLogs ==
    ASSUME WireInv, Phase
    PROVE  /\ \/ sent["amiga"] = rcvd["pc"]
              \/ /\ p_pc = "recv_unselect"
                 /\ sent["amiga"] = Append(rcvd["pc"], Data(p_bytes))
           /\ sent["pc"] = rcvd["amiga"] \/ Grown(rcvd["amiga"], sent["pc"])
<1>1. /\ Types /\ "amiga" \in Sides /\ "pc" \in Sides
      /\ Other("amiga") = "pc" /\ Other("pc") = "amiga"
  BY OtherSide DEF WireInv
<1>2. \A s \in Sides : Sending(s) /\ Arriving(s) => sent[s] = rcvd[Other(s)]
  <2> SUFFICES ASSUME NEW s \in Sides, Sending(s), Arriving(s) PROVE sent[s] = rcvd[Other(s)]
    OBVIOUS
  <2>1. /\ offered[s] \in Seq(Seq(Bytes)) /\ sent[s] \in Seq(Seq(Bytes))
        /\ rcvd[Other(s)] \in Seq(Seq(Bytes))
    BY <1>1, LogLens, OtherSide
  <2> QED  BY <2>1, GrownBoth DEF Sending, Arriving
<1>3. \A s \in Sides : Confirmed(s) /\ Delivered(s) => sent[s] = rcvd[Other(s)]
  BY DEF Confirmed, Delivered
<1>4. Sending("pc") /\ Delivered("pc") => Grown(rcvd["amiga"], sent["pc"])
  BY <1>1 DEF Sending, Delivered
<1>5. CASE Rest
  BY <1>1, <1>3, <1>5 DEF Rest, Quiet
<1>6. CASE Calling \/ Selecting \/ ToAmiga \/ Refusal \/ Stopped
  <2>1. PcOpen
    BY <1>6 DEF Calling, Selecting, PcAll, ToAmiga, Refusal, Stopped
  <2> QED  BY <1>1, <1>2, <1>3, <2>1 DEF PcOpen
<1>7. CASE PcSentAll
  <2>1. PcTaken \/ AmigaAnswers
    BY <1>7 DEF PcSentAll
  <2> QED  BY <1>1, <1>2, <1>3, <1>4, <2>1 DEF PcTaken, AmigaAnswers
<1>8. CASE Waking \/ ToPC
  <2>1. AmigaOpen
    BY <1>8 DEF Waking, ToPC
  <2> QED  BY <1>1, <1>2, <1>3, <2>1 DEF AmigaOpen
<1>9. CASE AmigaSentAll
  <2>1. AmigaTaken /\ p_pc = "recv_unselect"
    BY <1>9 DEF AmigaSentAll
  <2>2. sent["amiga"] = Append(rcvd["pc"], Last(offered["amiga"])) /\ sent["pc"] = rcvd["amiga"]
    BY <1>1, <1>3, <2>1 DEF AmigaTaken, Confirmed, Arriving, Grown
  <2>3. Data(p_bytes) = Last(offered["amiga"])
    BY <1>9, SentAllData
  <2> QED  BY <2>1, <2>2, <2>3
<1> QED  BY <1>5, <1>6, <1>7, <1>8, <1>9 DEF Phase

LEMMA ToSetAppend ==
    ASSUME NEW s \in Seq(Seq(Bytes)), NEW p \in Seq(Bytes)
    PROVE  /\ ToSet(Append(s, p)) \subseteq ToSet(s) \cup {p}
           /\ ToSet(s) \subseteq ToSet(Append(s, p))
<1> DEFINE a == Append(s, p)
<1>1. /\ a \in Seq(Seq(Bytes)) /\ Len(a) = Len(s) + 1 /\ a[Len(s) + 1] = p /\ Len(s) \in Nat
      /\ \A i \in 1..Len(s) : a[i] = s[i]
  BY AppendProperties
<1>2. DOMAIN s = 1..Len(s) /\ DOMAIN a = 1..Len(a)
  BY <1>1
<1> HIDE DEF a
<1>3. \A i \in 1..Len(a) : i \in 1..Len(s) \/ i = Len(s) + 1
  BY <1>1
<1>4. ToSet(a) \subseteq ToSet(s) \cup {p}
  BY <1>1, <1>2, <1>3 DEF ToSet
<1>5. \A i \in 1..Len(s) : i \in 1..Len(a)
  BY <1>1
<1>6. ToSet(s) \subseteq ToSet(a)
  BY <1>1, <1>2, <1>5 DEF ToSet
<1> QED  BY <1>4, <1>6 DEF a

\* par_send reports as sent only what the PC has taken to the last byte (hwsend and
\* recv of parblk.py), as long as nothing times out.
THEOREM SentIsTaken == Peaceful => (Spec => [](timeouts = 0 => AmigaSentTaken))
<1> SUFFICES ASSUME Peaceful PROVE Spec => [](timeouts = 0 => AmigaSentTaken)
  OBVIOUS
<1>1. WireInv /\ Phase => AmigaSentTaken
  <2> SUFFICES ASSUME WireInv, Phase PROVE AmigaSentTaken
    OBVIOUS
  <2>1. rcvd["pc"] \in Seq(Seq(Bytes)) /\ Data(p_bytes) \in Seq(Bytes)
    BY LogLens, OtherSide, DataBytes DEF WireInv, Types
  <2>2. CASE sent["amiga"] = rcvd["pc"]
    BY <2>2 DEF AmigaSentTaken
  <2>3. CASE p_pc = "recv_unselect" /\ sent["amiga"] = Append(rcvd["pc"], Data(p_bytes))
    BY <2>1, <2>3, ToSetAppend DEF AmigaSentTaken
  <2> QED  BY <2>2, <2>3, PhaseLogs
<1>2. WireInv /\ Undisturbed /\ Guarded => (timeouts = 0 => AmigaSentTaken)
  BY <1>1 DEF Undisturbed
<1> QED  BY <1>2, PhaseInvariant, PTL

\* send of parblk.py reports as sent only what the Amiga has received (hwrecv), as long as
\* nothing times out.
THEOREM SentIsReceived == Peaceful => (Spec => [](timeouts = 0 => PcSentReceived))
<1> SUFFICES ASSUME Peaceful PROVE Spec => [](timeouts = 0 => PcSentReceived)
  OBVIOUS
<1>1. WireInv /\ Phase => PcSentReceived
  <2> SUFFICES ASSUME WireInv, Phase PROVE PcSentReceived
    OBVIOUS
  <2>1. sent["pc"] \in Seq(Seq(Bytes)) /\ rcvd["amiga"] \in Seq(Seq(Bytes))
    BY LogLens, OtherSide DEF WireInv
  <2>2. CASE sent["pc"] = rcvd["amiga"]
    BY <2>2 DEF PcSentReceived
  <2>3. CASE Grown(rcvd["amiga"], sent["pc"])
    <3>1. /\ rcvd["amiga"] = Append(sent["pc"], Last(rcvd["amiga"]))
          /\ Last(rcvd["amiga"]) \in Seq(Bytes)
      BY <2>1, <2>3, GrownFacts
    <3> DEFINE p == Last(rcvd["amiga"])
    <3> HIDE DEF p
    <3>2. rcvd["amiga"] = Append(sent["pc"], p) /\ p \in Seq(Bytes)
      BY <3>1 DEF p
    <3>3. ToSet(sent["pc"]) \subseteq ToSet(Append(sent["pc"], p))
      BY <2>1, <3>2, ToSetAppend
    <3> QED  BY <3>2, <3>3 DEF PcSentReceived
  <2> QED  BY <2>2, <2>3, PhaseLogs
<1>2. WireInv /\ Undisturbed /\ Guarded => (timeouts = 0 => PcSentReceived)
  BY <1>1 DEF Undisturbed
<1> QED  BY <1>2, PhaseInvariant, PTL

\* A log is a prefix of the one that is a packet longer.
LEMMA GrownPrefix ==
    ASSUME NEW l \in Seq(Seq(Bytes)), NEW s \in Seq(Seq(Bytes)), l = s \/ Grown(l, s)
    PROVE  IsPrefix(s, l) /\ Len(s) <= Len(l)
<1>1. CASE l = s
  BY <1>1 DEF IsPrefix
<1>2. CASE Grown(l, s)
  <2>1. l = Append(s, Last(l)) /\ Last(l) \in Seq(Bytes)
    BY <1>2, GrownLast DEF Grown
  <2>2. Len(l) = Len(s) + 1 /\ \A i \in 1..Len(s) : l[i] = s[i]
    <3> DEFINE p == Last(l)
    <3> HIDE DEF p
    <3>1. l = Append(s, p) /\ p \in Seq(Bytes)
      BY <2>1 DEF p
    <3> QED  BY <3>1, AppendProperties
  <2>3. Len(s) \in Nat /\ Len(s) <= Len(l)
    BY <2>2
  <2>4. SubSeq(s, 1, Len(s)) = SubSeq(l, 1, Len(s))
    BY <2>2, <2>3
  <2> QED  BY <2>3, <2>4 DEF IsPrefix
<1> QED  BY <1>1, <1>2

\* Each side receives the packets of the other unchanged, once and in order (par_recv, recv
\* of parblk.py), when the programs take turns and as long as nothing times out.  After a
\* timeout it depends on the bytes of the packets, since what is left of one may look like
\* the head of another; how many arrive does not (ReceivedIsPaid).
THEOREM ReceivedInOrder ==
    Peaceful => (Spec => [](timeouts = 0 => \A s \in Sides : IsPrefix(rcvd[Other(s)], offered[s])))
<1> DEFINE InOrder == \A s \in Sides : IsPrefix(rcvd[Other(s)], offered[s])
<1> SUFFICES ASSUME Peaceful PROVE Spec => [](timeouts = 0 => InOrder)
  OBVIOUS
<1>1. WireInv /\ Phase => InOrder
  <2> SUFFICES ASSUME WireInv, Phase, NEW s \in Sides PROVE IsPrefix(rcvd[Other(s)], offered[s])
    OBVIOUS
  <2>1. offered[s] \in Seq(Seq(Bytes)) /\ rcvd[Other(s)] \in Seq(Seq(Bytes))
    BY LogLens, OtherSide DEF WireInv
  <2>2. offered[s] = rcvd[Other(s)] \/ Grown(offered[s], rcvd[Other(s)])
    BY PhaseDelivers DEF Delivered, Arriving
  <2> QED  BY <2>1, <2>2, GrownPrefix
<1>2. WireInv /\ Undisturbed /\ Guarded => (timeouts = 0 => InOrder)
  BY <1>1 DEF Undisturbed
<1> QED  BY <1>2, PhaseInvariant, PTL

-----------------------------------------------------------------------------
(* The wire is the abstract link, step by step.                            *)

LEMMA PayloadOfLink ==
    ASSUME Types, NEW s \in Sides, MaySend(s), NEW n \in AmigaSizes \cup PcSizes
    PROVE  Payload(s, n) \in Payloads
<1> DEFINE k == Len(offered[s])
           base == IF s = "amiga" THEN 100 ELSE 200
           p(m, b, j) == [i \in 1..m |-> (b + 10 * j + i) % 256]
<1>1. k \in 0..Rounds
  <2>1. k \in Nat /\ Rounds \in Nat /\ k < Rounds
    BY LogLens, WireAssumption DEF MaySend
  <2> QED  BY <2>1
<1>2. Payload(s, n) = p(n, base, k)
  BY DEF Payload
<1>3. base \in {100, 200}
  OBVIOUS
<1>4. Payloads = {p(m, b, j) : m \in AmigaSizes \cup PcSizes, b \in {100, 200}, j \in 0..Rounds}
  BY DEF Payloads
<1> HIDE DEF k, base, p
<1> QED  BY <1>1, <1>2, <1>3, <1>4

LEMMA LinkOffer ==
    ASSUME Types, NEW s \in Sides, Confirmed(s), Delivered(s), NEW p \in Payloads,
           offered' = [offered EXCEPT ![s] = Append(@, p)], UNCHANGED <<sent, rcvd>>
    PROVE  L!Next
<1>1. L!Confirmed(s) /\ L!Delivered(s)
  BY DEF Confirmed, Delivered, L!Confirmed, L!Delivered
<1>2. L!Offer(s)
  BY <1>1 DEF L!Offer
<1> QED  BY <1>2 DEF L!Next

LEMMA LinkDeliver ==
    ASSUME Types, NEW s \in Sides, Arriving(s),
           rcvd' = [rcvd EXCEPT ![Other(s)] = Append(@, Last(offered[s]))],
           UNCHANGED <<offered, sent>>
    PROVE  L!Next
<1>1. /\ Len(offered[s]) = Len(rcvd[Other(s)]) + 1
      /\ Len(rcvd[Other(s)]) \in Nat
  <2>1. Other(s) \in Sides
    BY OtherSide
  <2> QED  BY <2>1, LogLens, GrownFacts DEF Arriving
<1>2. ~L!Delivered(s)
  BY <1>1 DEF L!Delivered
<1>3. L!Deliver(s)
  BY <1>2 DEF L!Deliver, L!Current, Last
<1> QED  BY <1>3 DEF L!Next

LEMMA LinkConfirm ==
    ASSUME Types, NEW s \in Sides, Sending(s),
           sent' = [sent EXCEPT ![s] = Append(@, Last(offered[s]))],
           UNCHANGED <<offered, rcvd>>
    PROVE  L!Next
<1>1. Len(offered[s]) = Len(sent[s]) + 1 /\ Len(sent[s]) \in Nat
  BY LogLens, GrownFacts DEF Sending
<1>2. ~L!Confirmed(s)
  BY <1>1 DEF L!Confirmed
<1>3. L!Confirm(s)
  BY <1>2 DEF L!Confirm, L!Current, Last
<1> QED  BY <1>3 DEF L!Next

\* The steps that deliver, confirm or offer a packet; all others leave the logs alone.
LEMMA LogSteps ==
    ASSUME Next
    PROVE  \/ SendRequest \/ PcSend \/ RecvDone \/ SendDone \/ PcSent \/ PcReceived
           \/ UNCHANGED logs
<1>1. CASE interrupt
  BY <1>1 DEF interrupt
<1>2. CASE SendNoLine \/ SendLine \/ SendStart \/ SendSample \/ SendByte
  BY <1>2 DEF SendNoLine, SendLine, SendStart, SendSample, SendByte
<1>3. CASE RecvStart \/ RecvSample \/ RecvByte
  BY <1>3 DEF RecvStart, RecvSample, RecvByte
<1>4. CASE RecvRefuse
  BY <1>4 DEF RecvRefuse, RecvEnd, logs
<1>5. CASE Timeout
  BY <1>5 DEF Timeout, SendTimeout, RecvTimeout, PcNoSelect, SendEnd, RecvEnd, PcFail, logs
<1>6. CASE PcRead \/ PcMagic \/ PcAck \/ PcSelected \/ PcPutByte \/ PcPutBusy
  BY <1>6 DEF PcRead, PcMagic, PcAck, PcSelected, PcPutByte, PcPutBusy
<1>7. CASE PcSendLost \/ PcFinal \/ PcRecv \/ PcGetByte \/ PcGetBusy \/ PcRecvFail
  BY <1>7 DEF PcSendLost, PcFinal, PcRecv, PcGetByte, PcGetBusy, PcRecvFail, PcFail
<1> QED
  BY <1>1, <1>2, <1>3, <1>4, <1>5, <1>6, <1>7 DEF Next, Amiga, hwsend, hwrecv, PC

\* What each of them finds.
LEMMA OpenOf ==
    ASSUME Peaceful, WireInv, WireInv', Phase
    PROVE  /\ SendRequest => Confirmed("amiga") /\ Delivered("amiga")
           /\ PcSend => Confirmed("pc") /\ Delivered("pc")
           /\ RecvDone => Arriving("pc") /\ Data(a_bytes) = Last(offered["pc"])
           /\ SendDone => Sending("amiga")
           /\ PcSent => Sending("pc")
           /\ PcReceived => Arriving("amiga") /\ Data(p_bytes) = Last(offered["amiga"])
<1>1. "amiga" \in Sides /\ "pc" \in Sides /\ Types
  BY OtherSide DEF WireInv
<1>2. ASSUME SendRequest PROVE Confirmed("amiga") /\ Delivered("amiga")
  <2>1. Request /\ a_pc = "idle" /\ ~busy
    BY <1>2, RequestIs, AmigaGuards
  <2>2. ~AmigaSentAll /\ ~Refusal /\ ~Stopped
    BY <2>1, NoTurn DEF AmigaSentAll, Refusal, Stopped
  <2>3. Rest \/ PcSentAll
    BY <2>1, <2>2 DEF Phase, Calling, Selecting, ToAmiga, Waking, ToPC
  <2> QED  BY <1>1, <2>1, <2>3 DEF Rest, Quiet, PcSentAll, PcTaken
<1>3. ASSUME PcSend PROVE Confirmed("pc") /\ Delivered("pc")
  <2>1. p_pc = "idle"
    BY <1>3, PcGuards
  <2>2. ~Waking
    BY <1>3, NoTurn DEF Waking
  <2>3. Rest
    BY <2>1, <2>2 DEF Phase, Calling, Selecting, ToAmiga, Selected, Answered, Offering, Offered,
                      AllPut, Refusal, Stopped, PcSentAll, ToPC, BytePut, ByteRead, ByteTaken, AmigaSentAll
  <2> QED  BY <1>1, <2>3 DEF Rest, Quiet
<1>4. ASSUME RecvDone PROVE Arriving("pc") /\ Data(a_bytes) = Last(offered["pc"])
  <2>1. a_pc = "recv" /\ Taken(a_bytes)
    BY <1>4, AmigaGuards
  <2>2. ToAmiga
    BY <2>1 DEF Phase, Rest, Calling, Selecting, Refusal, Stopped, PcSentAll, Waking, Begun,
                Started, ToPC, AmigaSentAll
  <2> QED  BY <2>1, <2>2, ToAmigaFacts DEF PcOpen
<1>5. ASSUME SendDone PROVE Sending("amiga")
  <2>1. a_pc = "send"
    BY <1>5, AmigaGuards
  <2>2. PcSentAll \/ Waking \/ ToPC
    BY <2>1 DEF Phase, Rest, Calling, Selecting, ToAmiga, Refusal, Stopped, AmigaSentAll
  <2>3. AmigaAnswers \/ AmigaOpen
    BY <2>1, <2>2 DEF PcSentAll, Waking, ToPC
  <2> QED  BY <2>3 DEF AmigaAnswers, AmigaOpen
<1>6. ASSUME PcSent PROVE Sending("pc")
  <2>1. p_pc = "tx_unselect"
    BY <1>6, PcGuards
  <2>2. ToAmiga \/ PcSentAll
    BY <2>1 DEF Phase, Rest, Calling, Selecting, Refusal, Stopped, Waking, ToPC, BytePut,
                ByteRead, ByteTaken, AmigaSentAll
  <2>3. PcOpen \/ PcTaken \/ AmigaAnswers
    BY <2>2 DEF ToAmiga, PcSentAll
  <2> QED  BY <2>3 DEF PcOpen, PcTaken, AmigaAnswers
<1>7. ASSUME PcReceived PROVE Arriving("amiga") /\ Data(p_bytes) = Last(offered["amiga"])
  <2>1. p_pc = "recv_unselect" /\ ~view.sel
    BY <1>7, PcGuards
  <2>2. ~ToPC
    BY <2>1, ToPCFacts
  <2>3. AmigaSentAll
    BY <2>1, <2>2 DEF Phase, Rest, Calling, Selecting, ToAmiga, Selected, Answered, Offering,
                      Offered, AllPut, Refusal, Stopped, PcSentAll, Waking
  <2> QED  BY <2>3, SentAllData DEF AmigaSentAll, AmigaTaken
<1> QED  BY <1>2, <1>3, <1>4, <1>5, <1>6, <1>7

LEMMA LinkStep ==
    ASSUME Peaceful, WireInv, WireInv', Phase, Next
    PROVE  [L!Next]_(L!vars)
<1>1. /\ "amiga" \in Sides /\ "pc" \in Sides /\ Types
      /\ Other("amiga") = "pc" /\ Other("pc") = "amiga"
  BY OtherSide DEF WireInv
<1>2. CASE UNCHANGED logs
  BY <1>2 DEF logs, L!vars
<1>3. CASE SendRequest
  <2>1. Confirmed("amiga") /\ Delivered("amiga") /\ UNCHANGED <<sent, rcvd>>
    BY <1>3, OpenOf DEF SendRequest
  <2>2. ~Pending
    BY <1>3, RequestIs
  <2>3. PICK n \in AmigaSizes :
           offered' = [offered EXCEPT !["amiga"] = Append(@, Payload("amiga", n))]
    BY <1>3, <2>2 DEF SendRequest
  <2>4. MaySend("amiga")
    BY <1>3, <2>2 DEF SendRequest
  <2>5. Payload("amiga", n) \in Payloads
    BY <1>1, <2>4, PayloadOfLink
  <2> QED  BY <1>1, <2>1, <2>3, <2>5, LinkOffer
<1>4. CASE PcSend
  <2>1. Confirmed("pc") /\ Delivered("pc") /\ MaySend("pc") /\ UNCHANGED <<sent, rcvd>>
    BY <1>4, OpenOf DEF PcSend
  <2>2. PICK n \in PcSizes : offered' = [offered EXCEPT !["pc"] = Append(@, Payload("pc", n))]
    BY <1>4 DEF PcSend
  <2>3. Payload("pc", n) \in Payloads
    BY <1>1, <2>1, PayloadOfLink
  <2> QED  BY <1>1, <2>1, <2>2, <2>3, LinkOffer
<1>5. CASE RecvDone
  <2>1. /\ Arriving("pc") /\ UNCHANGED <<offered, sent>>
        /\ rcvd' = [rcvd EXCEPT !["amiga"] = Append(@, Last(offered["pc"]))]
    BY <1>5, OpenOf DEF RecvDone, RecvEnd
  <2> QED  BY <1>1, <2>1, LinkDeliver
<1>6. CASE SendDone
  <2>1. /\ Sending("amiga") /\ UNCHANGED <<offered, rcvd>>
        /\ sent' = [sent EXCEPT !["amiga"] = Append(@, Last(offered["amiga"]))]
    BY <1>6, OpenOf DEF SendDone, SendEnd
  <2> QED  BY <1>1, <2>1, LinkConfirm
<1>7. CASE PcSent
  <2>1. /\ Sending("pc") /\ UNCHANGED <<offered, rcvd>>
        /\ sent' = [sent EXCEPT !["pc"] = Append(@, Last(offered["pc"]))]
    BY <1>7, OpenOf DEF PcSent
  <2> QED  BY <1>1, <2>1, LinkConfirm
<1>8. CASE PcReceived
  <2>1. /\ Arriving("amiga") /\ UNCHANGED <<offered, sent>>
        /\ rcvd' = [rcvd EXCEPT !["pc"] = Append(@, Last(offered["amiga"]))]
    BY <1>8, OpenOf DEF PcReceived
  <2> QED  BY <1>1, <2>1, LinkDeliver
<1> QED  BY <1>2, <1>3, <1>4, <1>5, <1>6, <1>7, <1>8, LogSteps

\* Every packet that one side passes to send the other side receives unchanged, once and
\* before the next one, and the sender is told so once: the handshake of pario.asm and
\* parblk.py implements the abstract link, for programs that take turns and packets of
\* any size, in every run in which nothing times out.
THEOREM WireIsLink == Peaceful => (Spec /\ [](timeouts = 0) => L!Safety)
<1> SUFFICES ASSUME Peaceful PROVE Spec /\ [](timeouts = 0) => L!Safety
  OBVIOUS
<1>1. Init => L!Init
  BY DEF Init, L!Init
<1>2. WireInv /\ WireInv' /\ Undisturbed /\ timeouts = 0 /\ [Next]_vars
      => [L!Next]_(L!vars)
  <2> SUFFICES ASSUME WireInv, WireInv', Phase, [Next]_vars PROVE [L!Next]_(L!vars)
    BY DEF Undisturbed
  <2>1. CASE UNCHANGED vars
    BY <2>1 DEF vars, logs, L!vars
  <2> QED  BY <2>1, LinkStep
<1> QED  BY <1>1, <1>2, PhaseInvariant, PTL DEF Spec, L!Safety

-----------------------------------------------------------------------------
(* How many packets arrive, whatever times out.                            *)

\* The selects that the PC has not used: where SEL rises in what it has yet to look
\* at.  fresh: it has not used the one it looks at.
Selects(q, v, fresh) == {i \in 0..Len(q) : /\ SeenOf(q, v)[i].sel
                                           /\ IF i = 0 THEN fresh ELSE ~SeenOf(q, v)[i - 1].sel}
Count(q, v, fresh) == Cardinality(Selects(q, v, fresh))

LEMMA SelectsFinite ==
    ASSUME NEW q \in Seq(Lines), NEW v \in Lines, NEW fresh \in BOOLEAN
    PROVE  IsFiniteSet(Selects(q, v, fresh)) /\ Count(q, v, fresh) \in Nat
<1>1. Len(q) \in Nat
  OBVIOUS
<1>2. IsFiniteSet(0..Len(q))
  BY <1>1, FS_Interval
<1>3. Selects(q, v, fresh) \in SUBSET (0..Len(q))
  BY DEF Selects
<1>4. IsFiniteSet(Selects(q, v, fresh))
  BY <1>2, <1>3, FS_Subset
<1> QED  BY <1>4, FS_CardinalityType DEF Count

\* An update adds at most one, and none if it does not raise SEL.
LEMMA AfterCount ==
    ASSUME NEW q \in Seq(Lines), NEW v \in Lines, NEW fresh \in BOOLEAN, NEW new \in Lines
    PROVE  /\ Count(After(q, v, new), v, fresh) <= Count(q, v, fresh) + 1
           /\ (new.sel => LastOf(q, v).sel)
                 => Count(After(q, v, new), v, fresh) <= Count(q, v, fresh)
<1> DEFINE n == After(q, v, new)
           S == Selects(q, v, fresh)
           T == Selects(n, v, fresh)
<1>1. /\ n \in Seq(Lines) /\ Len(n) \in {Len(q), Len(q) + 1}
      /\ \A i \in 0..Len(q) : SeenOf(n, v)[i] = SeenOf(q, v)[i]
      /\ SeenOf(n, v)[Len(n)] = new
      /\ Len(q) \in Nat /\ LastOf(q, v) = SeenOf(q, v)[Len(q)]
  BY AfterSeenOf, SeenOfFacts
<1> HIDE DEF n
<1>2. \A i \in 0..Len(q) : i \in T => i \in S
  BY <1>1 DEF Selects
<1>3. T \subseteq S \cup {Len(q) + 1}
  BY <1>1, <1>2 DEF Selects
<1>4. (new.sel => LastOf(q, v).sel) => T \subseteq S
  <2> SUFFICES ASSUME new.sel => LastOf(q, v).sel, Len(q) + 1 \in T PROVE FALSE
    BY <1>3
  <2>1. Len(n) = Len(q) + 1 /\ Len(q) + 1 # 0 /\ (Len(q) + 1) - 1 = Len(q)
    BY <1>1 DEF Selects
  <2>2. SeenOf(n, v)[Len(q) + 1].sel /\ ~SeenOf(n, v)[Len(q)].sel
    BY <2>1 DEF Selects
  <2>3. SeenOf(n, v)[Len(q)] = LastOf(q, v)
    BY <1>1
  <2> QED  BY <1>1, <2>1, <2>2, <2>3
<1>5. IsFiniteSet(S) /\ Cardinality(S) \in Nat /\ IsFiniteSet(T) /\ Cardinality(T) \in Nat
  BY <1>1, SelectsFinite DEF Count
<1> HIDE DEF S, T
<1>6. /\ IsFiniteSet(S \cup {Len(q) + 1})
      /\ Cardinality(S \cup {Len(q) + 1}) \in {Cardinality(S), Cardinality(S) + 1}
  BY <1>5, FS_AddElement
<1>7. Cardinality(T) <= Cardinality(S \cup {Len(q) + 1})
  BY <1>3, <1>6, FS_Subset
<1>8. (new.sel => LastOf(q, v).sel) => Cardinality(T) <= Cardinality(S)
  BY <1>4, <1>5, FS_Subset
<1>9. Cardinality(T) <= Cardinality(S) + 1
  BY <1>5, <1>6, <1>7
<1> QED  BY <1>8, <1>9 DEF Count, S, T, n

\* Reading on uses none, and loses none but one that was used.
LEMMA ReadCount ==
    ASSUME NEW q \in Seq(Lines), NEW v \in Lines, NEW fresh \in BOOLEAN, q # <<>>
    PROVE  Count(Tail(q), Head(q), fresh) <= Count(q, v, fresh)
<1> DEFINE S == Selects(q, v, fresh)
           T == Selects(Tail(q), Head(q), fresh)
           f == [j \in T |-> IF j = 0 /\ v.sel THEN 0 ELSE j + 1]
<1>1. /\ Len(q) \in Nat /\ Len(q) > 0 /\ Tail(q) \in Seq(Lines) /\ Len(Tail(q)) = Len(q) - 1
      /\ Head(q) \in Lines /\ Head(q) = q[1] /\ \A i \in 1..Len(Tail(q)) : Tail(q)[i] = q[i + 1]
  BY HeadTailProperties
<1>2. /\ SeenOf(q, v)[0] = v /\ \A i \in 1..Len(q) : SeenOf(q, v)[i] = q[i]
      /\ SeenOf(Tail(q), Head(q))[0] = Head(q)
      /\ \A i \in 1..Len(Tail(q)) : SeenOf(Tail(q), Head(q))[i] = Tail(q)[i]
  BY <1>1, SeenOfFacts
<1>3. \A i \in 0..Len(Tail(q)) : SeenOf(Tail(q), Head(q))[i] = SeenOf(q, v)[i + 1]
  BY <1>1, <1>2
<1>4. \A j \in T : /\ j \in 0..(Len(q) - 1) /\ SeenOf(q, v)[j + 1].sel
                   /\ IF j = 0 THEN fresh ELSE ~SeenOf(q, v)[j].sel
  <2> SUFFICES ASSUME NEW j \in T
               PROVE  /\ j \in 0..(Len(q) - 1) /\ SeenOf(q, v)[j + 1].sel
                      /\ IF j = 0 THEN fresh ELSE ~SeenOf(q, v)[j].sel
    OBVIOUS
  <2>1. /\ j \in 0..Len(Tail(q)) /\ SeenOf(Tail(q), Head(q))[j].sel
        /\ IF j = 0 THEN fresh ELSE ~SeenOf(Tail(q), Head(q))[j - 1].sel
    BY DEF Selects
  <2>2. j # 0 => j - 1 \in 0..Len(Tail(q)) /\ (j - 1) + 1 = j
    BY <1>1, <2>1
  <2>3. j # 0 => SeenOf(Tail(q), Head(q))[j - 1] = SeenOf(q, v)[j]
    BY <1>3, <2>2
  <2> QED  BY <1>1, <1>3, <2>1, <2>3
<1>5. \A j \in T : f[j] \in S
  <2> SUFFICES ASSUME NEW j \in T PROVE f[j] \in S
    OBVIOUS
  <2>0. /\ j \in 0..(Len(q) - 1) /\ SeenOf(q, v)[j + 1].sel
        /\ IF j = 0 THEN fresh ELSE ~SeenOf(q, v)[j].sel
    BY <1>4
  <2>1. CASE j = 0 /\ v.sel
    <3>1. f[j] = 0 /\ 0 \in 0..Len(q)
      BY <1>1, <2>1
    <3> QED  BY <1>2, <2>0, <2>1, <3>1 DEF Selects
  <2>2. CASE ~(j = 0 /\ v.sel)
    <3>1. f[j] = j + 1 /\ j + 1 \in 0..Len(q) /\ j + 1 # 0 /\ (j + 1) - 1 = j
      BY <1>1, <2>0, <2>2
    <3>2. ~SeenOf(q, v)[j].sel
      BY <1>2, <2>0, <2>2
    <3>3. j + 1 \in S
      BY <2>0, <3>1, <3>2 DEF Selects
    <3> QED  BY <3>1, <3>3
  <2> QED  BY <2>1, <2>2
<1>6. f \in Injection(T, S)
  <2>1. f \in [T -> S]
    BY <1>5
  <2>2. \A a, b \in T : f[a] = f[b] => a = b
    BY <1>4
  <2> QED  BY <2>1, <2>2 DEF Injection, IsInjective
<1>7. IsFiniteSet(S)
  BY SelectsFinite
<1> HIDE DEF S, T, f
<1> QED  BY <1>6, <1>7, FS_Injection DEF Count, S, T

\* The PC uses the select it looks at.
LEMMA UseCount ==
    ASSUME NEW q \in Seq(Lines), NEW v \in Lines
    PROVE  /\ v.sel => Count(q, v, TRUE) = Count(q, v, FALSE) + 1
           /\ ~v.sel => Count(q, v, TRUE) = Count(q, v, FALSE)
<1> DEFINE S == Selects(q, v, FALSE)
<1>1. Len(q) \in Nat /\ SeenOf(q, v)[0] = v
  BY SeenOfFacts
<1>2. v.sel => Selects(q, v, TRUE) = S \cup {0}
  BY <1>1 DEF Selects
<1>3. ~v.sel => Selects(q, v, TRUE) = S
  BY <1>1 DEF Selects
<1>4. 0 \notin S
  BY DEF Selects
<1>5. IsFiniteSet(S)
  BY SelectsFinite
<1> HIDE DEF S
<1>6. Cardinality(S \cup {0}) = Cardinality(S) + 1
  BY <1>4, <1>5, FS_AddElement
<1> QED  BY <1>2, <1>3, <1>6 DEF Count, S

\* What the two sides do to the selects and to the lines.
InTransfer == p_pc \in {"tx", "tx_busy", "tx_unselect", "recv", "recv_busy", "recv_unselect"}
Unused == Count(toPC, view, ~InTransfer)
SelSent == lines.sel = LastSent.sel

LEMMA DriveCount ==
    ASSUME Types, SelSent, NEW new \in Lines, Drive(new), view' = view, p_pc' = p_pc
    PROVE  /\ SelSent' /\ Unused' <= Unused + 1
           /\ (new.sel => lines.sel) => Unused' <= Unused
<1> DEFINE b == ~InTransfer
<1>1. /\ toPC \in Seq(Lines) /\ view \in Lines /\ b \in BOOLEAN
  BY DEF Types
<1>2. lines' = new /\ toPC' = After(toPC, view, new) /\ LastSent = LastOf(toPC, view)
  BY DEF Drive, LastSent, LastOf, After
<1>3. Unused = Count(toPC, view, b) /\ Unused' = Count(After(toPC, view, new), view, b)
  BY <1>2 DEF Unused, InTransfer
<1> HIDE DEF b
<1>4. /\ Unused' <= Unused + 1
      /\ (new.sel => LastOf(toPC, view).sel) => Unused' <= Unused
  BY <1>1, <1>3, AfterCount
<1>5. LastSent' = new
  BY DriveSeen
<1> QED  BY <1>2, <1>4, <1>5 DEF SelSent

LEMMA DriveTwoCount ==
    ASSUME Types, SelSent, NEW first \in Lines, NEW second \in Lines, DriveTwo(first, second),
           view' = view, p_pc' = p_pc, first.sel => lines.sel, second.sel => first.sel
    PROVE  Unused' <= Unused /\ SelSent'
<1> DEFINE b == ~InTransfer
           q == After(toPC, view, first)
           r == After(q, view, second)
<1>1. /\ toPC \in Seq(Lines) /\ view \in Lines /\ b \in BOOLEAN
  BY DEF Types
<1>2. q \in Seq(Lines) /\ LastOf(q, view) = first
  BY <1>1, AfterSeenOf
<1>3. LastSent = LastOf(toPC, view) /\ q = Update(toPC, LastSent, first)
  BY DEF LastSent, LastOf, After
<1>4. lines' = second /\ toPC' = Update(q, first, second)
  BY <1>3 DEF DriveTwo
<1>5. toPC' = r
  <2> HIDE DEF q
  <2> QED  BY <1>2, <1>4 DEF After
<1>6. Count(q, view, b) <= Count(toPC, view, b)
  <2> HIDE DEF b
  <2> QED  BY <1>1, <1>3, AfterCount DEF SelSent
<1> HIDE DEF q
<1>7. Count(r, view, b) <= Count(q, view, b) /\ r \in Seq(Lines) /\ LastOf(r, view) = second
  <2> HIDE DEF b
  <2> QED  BY <1>1, <1>2, AfterCount, AfterSeenOf
<1>8. Unused = Count(toPC, view, b) /\ Unused' = Count(r, view, b)
  BY <1>5 DEF Unused, InTransfer
<1>9. LastSent' = second
  <2> HIDE DEF r
  <2> QED  BY <1>5, <1>7 DEF LastSent, LastOf
<1>10. /\ Count(r, view, b) \in Nat /\ Count(q, view, b) \in Nat
       /\ Count(toPC, view, b) \in Nat
  <2> HIDE DEF b, r
  <2> QED  BY <1>1, <1>2, <1>7, SelectsFinite
<1> HIDE DEF r, b
<1> QED  BY <1>4, <1>6, <1>7, <1>8, <1>9, <1>10 DEF SelSent

LEMMA UnusedType == Types => Unused \in Nat
<1> SUFFICES ASSUME Types PROVE Unused \in Nat
  OBVIOUS
<1>1. toPC \in Seq(Lines) /\ view \in Lines /\ (~InTransfer) \in BOOLEAN
  BY DEF Types
<1> QED  BY <1>1, SelectsFinite DEF Unused

\* Only the start of hwsend and of hwrecv raises SEL.
LEMMA AmigaCount ==
    ASSUME Types, SelSent, view' = view, p_pc' = p_pc
    PROVE  /\ Drive([lines EXCEPT !.sel = TRUE]) => Unused' <= Unused + 1 /\ SelSent'
           /\ \/ Drive([lines EXCEPT !.pout = TRUE]) \/ TogglePOUT \/ CLEARREQUEST \/ Release
              \/ \E b \in Bytes : Drive([lines EXCEPT !.dat = b]) \/ Put(b)
              \/ UNCHANGED <<lines, toPC>>
              => Unused' <= Unused /\ SelSent'
<1>1. lines \in Lines
  BY DEF Types
<1>2. Drive([lines EXCEPT !.sel = TRUE]) => Unused' <= Unused + 1 /\ SelSent'
  <2>1. [lines EXCEPT !.sel = TRUE] \in Lines
    BY <1>1, LinesFacts
  <2> QED  BY <2>1, DriveCount
<1>3. /\ [lines EXCEPT !.pout = TRUE].sel = lines.sel /\ [lines EXCEPT !.pout = ~@].sel = lines.sel
      /\ [lines EXCEPT !.sel = FALSE].sel = FALSE /\ [lines EXCEPT !.pout = FALSE].sel = lines.sel
      /\ [lines EXCEPT !.pout = FALSE, !.sel = FALSE].sel = FALSE
      /\ \A b \in Bytes : /\ [lines EXCEPT !.dat = b].sel = lines.sel
                          /\ [lines EXCEPT !.pout = ~@, !.dat = b].sel = lines.sel
  BY <1>1 DEF Lines
<1>4. Drive([lines EXCEPT !.pout = TRUE]) => Unused' <= Unused /\ SelSent'
  BY <1>1, <1>3, LinesFacts, DriveCount
<1>5. TogglePOUT => Unused' <= Unused /\ SelSent'
  BY <1>1, <1>3, LinesFacts, DriveCount DEF TogglePOUT
<1>6. CLEARREQUEST => Unused' <= Unused /\ SelSent'
  BY <1>1, <1>3, LinesFacts, DriveCount DEF CLEARREQUEST
<1>7. Release => Unused' <= Unused /\ SelSent'
  BY <1>1, <1>3, LinesFacts, DriveTwoCount DEF Release
<1>8. \A b \in Bytes : Drive([lines EXCEPT !.dat = b]) => Unused' <= Unused /\ SelSent'
  BY <1>1, <1>3, LinesFacts, DriveCount
<1>9. \A b \in Bytes : Put(b) => Unused' <= Unused /\ SelSent'
  BY <1>1, <1>3, LinesFacts, DriveTwoCount DEF Put
<1>10. UNCHANGED <<lines, toPC>> => Unused' <= Unused /\ SelSent'
  <2>1. UNCHANGED <<lines, toPC>> => Unused' = Unused /\ SelSent'
    BY KeepSeen DEF Unused, InTransfer, SelSent
  <2> QED  BY <2>1, UnusedType
<1> QED  BY <1>2, <1>4, <1>5, <1>6, <1>7, <1>8, <1>9, <1>10, Zenon

\* What the PC does to them: it reads on, and begins or ends a transfer.
LEMMA PcCount ==
    ASSUME Types, Types', SelSent, lines'.sel = lines.sel,
           \/ UNCHANGED <<view, toPC>>
           \/ toPC # <<>> /\ view' = Head(toPC) /\ toPC' = Tail(toPC)
    PROVE  /\ SelSent'
           /\ (InTransfer' <=> InTransfer) => Unused' <= Unused
           /\ UNCHANGED <<view, toPC>> /\ InTransfer' /\ ~InTransfer /\ view.sel
                 => Unused' = Unused - 1
           /\ UNCHANGED <<view, toPC>> /\ ~InTransfer' /\ InTransfer => Unused' <= Unused + 1
           /\ UNCHANGED <<view, toPC>> /\ ~InTransfer' /\ InTransfer /\ ~view.sel
                 => Unused' = Unused
<1>1. toPC \in Seq(Lines) /\ view \in Lines /\ Unused \in Nat
  BY UnusedType DEF Types
<1>2. LastSent' = LastSent
  BY ReadSeen, KeepSeen
<1>3. CASE UNCHANGED <<view, toPC>>
  <2>1. Unused' = Count(toPC, view, ~InTransfer') /\ Unused = Count(toPC, view, ~InTransfer)
    BY <1>3 DEF Unused
  <2>2. Count(toPC, view, TRUE) \in Nat /\ Count(toPC, view, FALSE) \in Nat
    BY <1>1, SelectsFinite
  <2>3. /\ (~InTransfer) \in BOOLEAN /\ (~InTransfer') \in BOOLEAN
        /\ InTransfer \in BOOLEAN /\ InTransfer' \in BOOLEAN
    BY DEF InTransfer
  <2>4. /\ view.sel => Count(toPC, view, TRUE) = Count(toPC, view, FALSE) + 1
        /\ ~view.sel => Count(toPC, view, TRUE) = Count(toPC, view, FALSE)
    BY <1>1, UseCount
  <2>5. /\ InTransfer => Unused = Count(toPC, view, FALSE)
        /\ ~InTransfer => Unused = Count(toPC, view, TRUE)
        /\ InTransfer' => Unused' = Count(toPC, view, FALSE)
        /\ ~InTransfer' => Unused' = Count(toPC, view, TRUE)
    <3>1. /\ InTransfer => (~InTransfer) = FALSE
          /\ ~InTransfer => (~InTransfer) = TRUE
          /\ InTransfer' => (~InTransfer') = FALSE
          /\ ~InTransfer' => (~InTransfer') = TRUE
      OBVIOUS
    <3> QED  BY <2>1, <3>1
  <2>6. /\ (InTransfer' <=> InTransfer) => Unused' <= Unused
        /\ InTransfer' /\ ~InTransfer /\ view.sel => Unused' = Unused - 1
        /\ ~InTransfer' /\ InTransfer => Unused' <= Unused + 1
        /\ ~InTransfer' /\ InTransfer /\ ~view.sel => Unused' = Unused
    <3> DEFINE c == Count(toPC, view, TRUE)
               d == Count(toPC, view, FALSE)
    <3>1. c \in Nat /\ d \in Nat /\ (c = d + 1 \/ c = d)
      BY <2>2, <2>4
    <3> HIDE DEF c, d
    <3>2. c <= c /\ d <= d /\ d <= c + 1 /\ c <= d + 1 /\ (c = d + 1 => d = c - 1)
      BY <3>1
    <3>3. CASE InTransfer /\ InTransfer'
      BY <2>5, <3>2, <3>3 DEF c, d
    <3>4. CASE ~InTransfer /\ ~InTransfer'
      BY <2>5, <3>2, <3>4 DEF c, d
    <3>5. CASE InTransfer /\ ~InTransfer'
      BY <2>4, <2>5, <3>2, <3>5 DEF c, d
    <3>6. CASE ~InTransfer /\ InTransfer'
      BY <2>4, <2>5, <3>2, <3>6 DEF c, d
    <3> QED  BY <3>3, <3>4, <3>5, <3>6
  <2>7. SelSent'
    BY <1>2 DEF SelSent
  <2> QED  BY <2>6, <2>7
<1>4. CASE toPC # <<>> /\ view' = Head(toPC) /\ toPC' = Tail(toPC)
  <2>1. ~UNCHANGED <<view, toPC>>
    <3>1. Ahead' = Ahead - 1 /\ Ahead \in Nat
      BY <1>4, ReadSeen
    <3> QED  BY <3>1 DEF Ahead
  <2>2. (InTransfer' <=> InTransfer) => Unused' <= Unused
    <3> SUFFICES ASSUME InTransfer' <=> InTransfer PROVE Unused' <= Unused
      OBVIOUS
    <3> DEFINE b == ~InTransfer
    <3>1. b \in BOOLEAN /\ (~InTransfer') = b
      OBVIOUS
    <3>2. Unused' = Count(Tail(toPC), Head(toPC), b) /\ Unused = Count(toPC, view, b)
      BY <1>4, <3>1 DEF Unused
    <3> HIDE DEF b
    <3> QED  BY <1>1, <1>4, <3>1, <3>2, ReadCount
  <2>3. SelSent'
    BY <1>2 DEF SelSent
  <2> QED  BY <2>1, <2>2, <2>3
<1> QED  BY <1>3, <1>4

\* Whoever sends has a packet, and the Amiga has one at a time.
SendLog ==
    /\ Len(sent["amiga"]) <= Len(offered["amiga"])
    /\ Len(offered["amiga"]) <= Len(sent["amiga"]) + 1
    /\ a_pc \in {"requested", "have_line", "send_sample", "send"} => Pending

LEMMA CountTypes ==
    /\ Types => Unused \in Nat /\ timeouts \in Nat
    /\ Types' => Unused' \in Nat /\ timeouts' \in Nat
<1>1. ASSUME Types PROVE Unused \in Nat /\ timeouts \in Nat
  BY <1>1, UnusedType, WireAssumption DEF Types
<1>2. ASSUME Types' PROVE Unused' \in Nat /\ timeouts' \in Nat
  <2>1. toPC' \in Seq(Lines) /\ view' \in Lines /\ (~InTransfer') \in BOOLEAN
    BY <1>2 DEF Types
  <2>2. timeouts' \in 0..MaxTimeouts /\ MaxTimeouts \in Nat
    BY <1>2, WireAssumption DEF Types
  <2>3. timeouts' \in Nat
    BY <2>2
  <2> QED  BY <2>1, <2>3, SelectsFinite DEF Unused
<1> QED  BY <1>1, <1>2

LEMMA SamePort ==
    ASSUME UNCHANGED <<toPC, view, lines, p_pc>>
    PROVE  Unused' = Unused /\ SelSent' = SelSent
BY KeepSeen DEF Unused, InTransfer, SelSent

LEMMA LogGrows ==
    ASSUME NEW log \in Logs, NEW s \in Sides, NEW p
    PROVE  /\ Len([log EXCEPT ![s] = Append(@, p)][s]) = Len(log[s]) + 1
           /\ \A t \in Sides : t # s => [log EXCEPT ![s] = Append(@, p)][t] = log[t]
<1>1. log[s] \in Seq(Seq(Bytes)) /\ log \in [Sides -> Seq(Seq(Bytes))]
  BY DEF Logs
<1>2. [log EXCEPT ![s] = Append(@, p)][s] = Append(log[s], p)
  BY <1>1
<1>3. Len(Append(log[s], p)) = Len(log[s]) + 1
  BY <1>1
<1> QED  BY <1>1, <1>2, <1>3

\* The chances of a packet: the PC receives one, or has yet to use a select; the Amiga
\* receives one; an announcement is pending, as event or as signal; the Amiga has a packet
\* it has yet to begin with; the PC has one that it has yet to announce.
Number(b) == IF b THEN 1 ELSE 0
PcInRecv    == p_pc \in {"recv", "recv_busy", "recv_unselect"}
AmigaInRecv == a_pc \in {"recv_sample", "recv"}
Unbegun     == Pending /\ a_pc \notin {"send_sample", "send"}
Unannounced == p_pc \in {"tx_magic", "tx_ack"}

\* Each packet received and each chance of one comes from an attempt of the other side.
\* The PC uses one of the selects itself, the one it waits for before it sends.
Counted ==
    /\ SelSent /\ SendLog
    /\ Len(rcvd["pc"]) + Number(PcInRecv) + Unused + Number(flg) + Number(sig) + Number(Unbegun)
          <= Len(offered["amiga"]) + timeouts + Number(p_pc = "tx_select")
    /\ Len(rcvd["amiga"]) + Number(AmigaInRecv) + Number(flg) + Number(sig)
          + Number(Unannounced) <= Len(offered["pc"])
    /\ Len(rcvd["pc"]) <= Len(offered["amiga"]) + timeouts

\* The numbers a state has: logs and timeouts, then selects, flags and places.
Logged(l, k, o, q, t) ==
    /\ Len(rcvd["pc"]) = l /\ Len(rcvd["amiga"]) = k
    /\ Len(offered["amiga"]) = o /\ Len(offered["pc"]) = q /\ timeouts = t
Flags(u, e, s) == Unused = u /\ Number(flg) = e /\ Number(sig) = s
Places(r, b, m, c, w) ==
    /\ Number(PcInRecv) = r /\ Number(Unbegun) = b /\ Number(AmigaInRecv) = m
    /\ Number(Unannounced) = c /\ Number(p_pc = "tx_select") = w
Balance(l, k, o, q, t, u, e, s, r, b, m, c, w) ==
    /\ l + r + u + e + s + b <= o + t + w
    /\ k + m + e + s + c <= q
    /\ l <= o + t

LEMMA Numbers ==
    ASSUME Types
    PROVE  \E l, k, o, q, t, u, e, s, r, b, m, c, w \in Nat :
              Logged(l, k, o, q, t) /\ Flags(u, e, s) /\ Places(r, b, m, c, w)
<1>1. /\ Len(rcvd["pc"]) \in Nat /\ Len(rcvd["amiga"]) \in Nat /\ timeouts \in Nat
      /\ Len(offered["amiga"]) \in Nat /\ Len(offered["pc"]) \in Nat /\ Unused \in Nat
  BY LogLens, OtherSide, CountTypes
<1>2. /\ Number(flg) \in Nat /\ Number(sig) \in Nat /\ Number(PcInRecv) \in Nat
      /\ Number(Unbegun) \in Nat /\ Number(AmigaInRecv) \in Nat /\ Number(Unannounced) \in Nat
      /\ Number(p_pc = "tx_select") \in Nat
  BY DEF Number
<1> HIDE DEF Number
<1> QED  BY <1>1, <1>2, Zenon DEF Logged, Flags, Places

LEMMA CountedNumbers ==
    ASSUME NEW l \in Nat, NEW k \in Nat, NEW o \in Nat, NEW q \in Nat, NEW t \in Nat,
           NEW u \in Nat, NEW e \in Nat, NEW s \in Nat, NEW r \in Nat, NEW b \in Nat,
           NEW m \in Nat, NEW c \in Nat, NEW w \in Nat
    PROVE  /\ Logged(l, k, o, q, t) /\ Flags(u, e, s) /\ Places(r, b, m, c, w)
                 => (Counted <=> SelSent /\ SendLog
                                 /\ Balance(l, k, o, q, t, u, e, s, r, b, m, c, w))
           /\ Logged(l, k, o, q, t)' /\ Flags(u, e, s)' /\ Places(r, b, m, c, w)'
                 => (Counted' <=> SelSent' /\ SendLog'
                                  /\ Balance(l, k, o, q, t, u, e, s, r, b, m, c, w))
<1>1. ASSUME Logged(l, k, o, q, t), Flags(u, e, s), Places(r, b, m, c, w)
      PROVE  Counted <=> SelSent /\ SendLog
                         /\ Balance(l, k, o, q, t, u, e, s, r, b, m, c, w)
  <2>1. Counted <=> /\ SelSent /\ SendLog
                    /\ l + r + u + e + s + b <= o + t + w
                    /\ k + m + e + s + c <= q
                    /\ l <= o + t
    BY <1>1 DEF Counted, Logged, Flags, Places
  <2> QED  BY <2>1 DEF Balance
<1>2. ASSUME Logged(l, k, o, q, t)', Flags(u, e, s)', Places(r, b, m, c, w)'
      PROVE  Counted' <=> SelSent' /\ SendLog'
                          /\ Balance(l, k, o, q, t, u, e, s, r, b, m, c, w)
  <2>1. Counted' <=> /\ SelSent' /\ SendLog'
                     /\ l + r + u + e + s + b <= o + t + w
                     /\ k + m + e + s + c <= q
                     /\ l <= o + t
    BY <1>2 DEF Counted, Logged, Flags, Places
  <2> QED  BY <2>1 DEF Balance
<1> QED  BY <1>1, <1>2

LEMMA SameLogged ==
    ASSUME UNCHANGED <<offered, rcvd, timeouts>>, NEW l, NEW k, NEW o, NEW q, NEW t,
           Logged(l, k, o, q, t)
    PROVE  Logged(l, k, o, q, t)'
BY DEF Logged

\* The interrupt turns the event on the line into a signal, if none is pending.
LEMMA CountInterrupt == ASSUME WireInv, Types', Counted, interrupt PROVE Counted'
<1>1. /\ UNCHANGED <<lines, toPC, view, p_pc, a_pc, timeouts, offered, sent, rcvd>>
      /\ flg /\ ~flg' /\ (sig' = sig \/ (sig' /\ AsmBit(FLAGS_BIT_RX) \notin s_Flags))
  BY DEF interrupt, pcVars, logs, Announce
<1>2. sig' = sig \/ (sig' /\ ~sig)
  BY <1>1 DEF WireInv, Signals, RxSignalled
<1>3. SelSent' /\ SendLog' /\ Unused' = Unused
  BY <1>1, SamePort DEF Counted, SendLog, Pending
<1>4. PICK l, k, o, q, t, u, e, s, r, b, m, c, w \in Nat :
         Logged(l, k, o, q, t) /\ Flags(u, e, s) /\ Places(r, b, m, c, w)
  BY Numbers DEF WireInv
<1>5. Logged(l, k, o, q, t)'
  BY <1>1, <1>4, SameLogged
<1>6. e = 1 /\ \E f \in {s, s + 1} : Flags(u, 0, f)'
  BY <1>1, <1>2, <1>3, <1>4 DEF Flags, Number
<1>7. Places(r, b, m, c, w)'
  BY <1>1, <1>4 DEF Places, PcInRecv, Unbegun, AmigaInRecv, Unannounced, Pending
<1>8. PICK f \in {s, s + 1} : Flags(u, 0, f)'
  BY <1>6
<1>9. Balance(l, k, o, q, t, u, e, s, r, b, m, c, w)
  BY <1>4, CountedNumbers
<1>10. Balance(l, k, o, q, t, u, 0, f, r, b, m, c, w) /\ f \in Nat
  BY <1>6, <1>8, <1>9 DEF Balance
<1> QED  BY <1>3, <1>5, <1>7, <1>8, <1>10, CountedNumbers

\* Steps of the Amiga that begin and end nothing.
LEMMA CountAmiga ==
    ASSUME WireInv, Types', Counted,
           SendNoLine \/ SendLine \/ SendSample \/ SendByte \/ RecvSample \/ RecvByte
    PROVE  Counted'
<1>1. /\ UNCHANGED <<view, p_pc, flg, sig, timeouts, offered, sent, rcvd>>
      /\ a_pc \in {"send_sample", "send"} <=> a_pc' \in {"send_sample", "send"}
      /\ a_pc \in {"recv_sample", "recv"} <=> a_pc' \in {"recv_sample", "recv"}
      /\ a_pc' \in {"requested", "have_line", "send_sample", "send"}
            => a_pc \in {"requested", "have_line", "send_sample", "send"}
  BY DEF SendNoLine, SendLine, SendSample, SendByte, RecvSample, RecvByte, pcVars, flagVars, logs
<1>2. Types /\ SelSent /\ Unused \in Nat /\ Unused' \in Nat
  BY CountTypes DEF WireInv, Counted
<1>3. Unused' <= Unused /\ SelSent'
  <2>1. SendNoLine \/ SendLine \/ RecvSample \/ RecvByte => Unused' <= Unused /\ SelSent'
    BY <1>1, <1>2, AmigaCount DEF SendNoLine, SendLine, RecvSample, RecvByte
  <2>2. SendSample \/ SendByte => Unused' <= Unused /\ SelSent'
    <3>1. SendSample \/ SendByte => a_bytes # <<>> /\ a_bytes \in Seq(Bytes)
      BY DEF WireInv, ToSend, Types, SendSample, SendByte
    <3>2. a_bytes # <<>> /\ a_bytes \in Seq(Bytes) => Head(a_bytes) \in Bytes
      OBVIOUS
    <3> QED  BY <1>1, <1>2, <3>1, <3>2, AmigaCount DEF SendSample, SendByte
  <2> QED  BY <2>1, <2>2
<1>4. PICK l, k, o, q, t, u, e, s, r, b, m, c, w \in Nat :
         Logged(l, k, o, q, t) /\ Flags(u, e, s) /\ Places(r, b, m, c, w)
  BY Numbers DEF WireInv
<1>5. Logged(l, k, o, q, t)'
  BY <1>1, <1>4, SameLogged
<1>6. PICK v \in Nat : Unused' = v /\ v <= u
  BY <1>2, <1>3, <1>4 DEF Flags
<1>7. Flags(v, e, s)' /\ Places(r, b, m, c, w)'
  BY <1>1, <1>4, <1>6 DEF Flags, Places, PcInRecv, Unbegun, AmigaInRecv, Unannounced, Pending
<1>8. Balance(l, k, o, q, t, u, e, s, r, b, m, c, w)
  BY <1>4, CountedNumbers
<1>9. Balance(l, k, o, q, t, v, e, s, r, b, m, c, w)
  BY <1>6, <1>8 DEF Balance
<1>10. SendLog'
  BY <1>1 DEF Counted, SendLog, Pending
<1> QED  BY <1>3, <1>5, <1>7, <1>9, <1>10, CountedNumbers

\* A packet is requested for: a new one, or the one of an attempt that failed.
LEMMA CountRequest == ASSUME WireInv, Types', Counted, SendRequest PROVE Counted'
<1>1. /\ UNCHANGED <<view, p_pc, flg, sig, timeouts, sent, rcvd>>
      /\ a_pc = "idle" /\ a_pc' = "requested" /\ Drive([lines EXCEPT !.pout = TRUE])
  BY DEF SendRequest, pcVars, flagVars
<1>2. Types /\ SelSent /\ Unused \in Nat /\ Unused' \in Nat
  BY CountTypes DEF WireInv, Counted
<1>3. Unused' <= Unused /\ SelSent'
  BY <1>1, <1>2, AmigaCount
<1>4. PICK l, k, o, q, t, u, e, s, r, b, m, c, w \in Nat :
         Logged(l, k, o, q, t) /\ Flags(u, e, s) /\ Places(r, b, m, c, w)
  BY Numbers DEF WireInv
<1>5. PICK v \in Nat : Unused' = v /\ v <= u
  BY <1>2, <1>3, <1>4 DEF Flags
<1>6. Flags(v, e, s)' /\ Number(PcInRecv)' = r /\ Number(AmigaInRecv)' = m
      /\ Number(Unannounced)' = c /\ Number(p_pc' = "tx_select") = w
  BY <1>1, <1>4, <1>5 DEF Flags, Places, PcInRecv, AmigaInRecv, Unannounced
<1>7. Balance(l, k, o, q, t, u, e, s, r, b, m, c, w)
  BY <1>4, CountedNumbers
<1>8. CASE Pending /\ offered' = offered
  <2>1. SendLog' /\ Unbegun' = Unbegun
    BY <1>1, <1>8 DEF Counted, SendLog, Unbegun, Pending
  <2>2. Logged(l, k, o, q, t)' /\ Places(r, b, m, c, w)'
    BY <1>1, <1>4, <1>6, <1>8, <2>1, SameLogged DEF Places
  <2>3. Balance(l, k, o, q, t, v, e, s, r, b, m, c, w)
    BY <1>5, <1>7 DEF Balance
  <2> QED  BY <1>3, <1>6, <2>1, <2>2, <2>3, CountedNumbers
<1>9. CASE ~Pending /\ \E n \in AmigaSizes :
              offered' = [offered EXCEPT !["amiga"] = Append(@, Payload("amiga", n))]
  <2>1. Len(offered'["amiga"]) = Len(offered["amiga"]) + 1 /\ offered'["pc"] = offered["pc"]
    <3>1. offered \in Logs /\ "amiga" \in Sides /\ "pc" \in Sides
      BY OtherSide DEF WireInv, Types
    <3> QED  BY <1>9, <3>1, LogGrows
  <2>2. Len(offered["amiga"]) \in Nat /\ Len(sent["amiga"]) \in Nat
    BY <1>2, LogLens, OtherSide
  <2>3. Pending' /\ SendLog'
    <3>1. PICK x, y \in Nat : x = Len(sent["amiga"]) /\ y = Len(offered["amiga"])
      BY <2>2
    <3>2. Len(sent'["amiga"]) = x /\ Len(offered'["amiga"]) = y + 1
      BY <1>1, <2>1, <3>1
    <3>3. ~(x < y) /\ x <= y
      BY <1>9, <3>1 DEF Pending, Counted, SendLog
    <3>4. x < y + 1 /\ x <= y + 1 /\ y + 1 <= x + 1
      BY <3>3
    <3> QED  BY <3>2, <3>4 DEF SendLog, Pending
  <2>4. b = 0 /\ Number(Unbegun)' = 1
    BY <1>1, <1>4, <1>9, <2>3 DEF Places, Unbegun, Number
  <2>5. PICK n \in Nat : n = o + 1
    OBVIOUS
  <2>6. Logged(l, k, n, q, t)' /\ Places(r, 1, m, c, w)'
    BY <1>1, <1>4, <1>6, <2>1, <2>4, <2>5 DEF Logged, Places
  <2>7. Balance(l, k, n, q, t, v, e, s, r, 1, m, c, w)
    BY <1>5, <1>7, <2>4, <2>5 DEF Balance
  <2> QED  BY <1>3, <1>6, <2>3, <2>6, <2>7, CountedNumbers
<1> QED  BY <1>8, <1>9 DEF SendRequest

\* hwsend begins: the select is one for the packet.
LEMMA CountStart == ASSUME WireInv, Types', Counted, SendStart PROVE Counted'
<1>1. /\ UNCHANGED <<view, p_pc, flg, sig, timeouts, offered, sent, rcvd>>
      /\ a_pc = "have_line" /\ a_pc' = "send_sample" /\ Drive([lines EXCEPT !.sel = TRUE])
  BY DEF SendStart, pcVars, flagVars, logs
<1>2. Types /\ SelSent /\ Unused \in Nat /\ Unused' \in Nat
  BY CountTypes DEF WireInv, Counted
<1>3. Unused' <= Unused + 1 /\ SelSent'
  BY <1>1, <1>2, AmigaCount
<1>4. PICK l, k, o, q, t, u, e, s, r, b, m, c, w \in Nat :
         Logged(l, k, o, q, t) /\ Flags(u, e, s) /\ Places(r, b, m, c, w)
  BY Numbers DEF WireInv
<1>5. PICK v \in Nat : Unused' = v /\ v <= u + 1
  BY <1>2, <1>3, <1>4 DEF Flags
<1>6. SendLog' /\ Pending
  BY <1>1 DEF Counted, SendLog, Pending
<1>7. /\ Logged(l, k, o, q, t)' /\ Flags(v, e, s)' /\ b = 1 /\ Places(r, 0, m, c, w)'
  BY <1>1, <1>4, <1>5, <1>6, SameLogged
     DEF Flags, Places, PcInRecv, Unbegun, AmigaInRecv, Unannounced, Number
<1>8. Balance(l, k, o, q, t, u, e, s, r, b, m, c, w)
  BY <1>4, CountedNumbers
<1>9. Balance(l, k, o, q, t, v, e, s, r, 0, m, c, w)
  BY <1>5, <1>7, <1>8 DEF Balance
<1> QED  BY <1>3, <1>6, <1>7, <1>9, CountedNumbers

\* hwsend ends: the packet is sent, or there will be another select for it, which the
\* timeout pays.
LEMMA CountSent == ASSUME WireInv, Types', Counted, SendDone \/ SendTimeout PROVE Counted'
<1>1. /\ UNCHANGED <<view, p_pc, sig, offered, rcvd>> /\ ~flg'
      /\ a_pc = "send" /\ a_pc' = "idle" /\ Release
  BY DEF SendDone, SendTimeout, SendEnd, pcVars, flagVars
<1>2. Types /\ SelSent /\ Unused \in Nat /\ Unused' \in Nat
  BY CountTypes DEF WireInv, Counted
<1>3. Unused' <= Unused /\ SelSent'
  BY <1>1, <1>2, AmigaCount
<1>4. PICK l, k, o, q, t, u, e, s, r, b, m, c, w \in Nat :
         Logged(l, k, o, q, t) /\ Flags(u, e, s) /\ Places(r, b, m, c, w)
  BY Numbers DEF WireInv
<1>5. PICK v \in Nat : Unused' = v /\ v <= u
  BY <1>2, <1>3, <1>4 DEF Flags
<1>6. /\ Flags(v, 0, s)' /\ Number(PcInRecv)' = r /\ m = 0 /\ Number(AmigaInRecv)' = 0
      /\ Number(Unannounced)' = c /\ Number(p_pc' = "tx_select") = w
  BY <1>1, <1>4, <1>5 DEF Flags, Places, PcInRecv, AmigaInRecv, Unannounced, Number
<1>7. Balance(l, k, o, q, t, u, e, s, r, b, m, c, w)
  BY <1>4, CountedNumbers
<1>8. PICK x, y \in Nat : x = Len(sent["amiga"]) /\ y = Len(offered["amiga"])
  BY <1>2, LogLens, OtherSide
<1>9. x < y /\ x <= y /\ y <= x + 1
  BY <1>1, <1>8 DEF Counted, SendLog, Pending
<1>10. CASE SendDone
  <2>1. timeouts' = timeouts /\ sent' = [sent EXCEPT !["amiga"] = Append(@, Last(offered["amiga"]))]
    BY <1>10 DEF SendDone, SendEnd
  <2>2. Len(sent'["amiga"]) = x + 1
    <3>1. sent \in Logs /\ "amiga" \in Sides
      BY <1>2, OtherSide DEF Types
    <3> QED  BY <1>8, <2>1, <3>1, LogGrows
  <2>3. ~(x + 1 < y) /\ x + 1 <= y /\ y <= (x + 1) + 1
    BY <1>9
  <2>4. ~Pending' /\ SendLog'
    BY <1>1, <1>8, <2>2, <2>3 DEF SendLog, Pending
  <2>5. Logged(l, k, o, q, t)' /\ Places(r, 0, 0, c, w)'
    BY <1>1, <1>4, <1>6, <2>1, <2>4, SameLogged DEF Places, Unbegun, Number
  <2>6. Balance(l, k, o, q, t, v, 0, s, r, 0, 0, c, w)
    BY <1>5, <1>6, <1>7 DEF Balance
  <2> QED  BY <1>3, <1>6, <2>4, <2>5, <2>6, CountedNumbers
<1>11. CASE SendTimeout
  <2>1. timeouts' = timeouts + 1 /\ sent' = sent
    BY <1>11 DEF SendTimeout, SendEnd
  <2>2. Pending' /\ SendLog'
    BY <1>1, <1>8, <1>9, <2>1 DEF SendLog, Pending
  <2>3. PICK n \in Nat : n = t + 1
    OBVIOUS
  <2>4. Logged(l, k, o, q, n)' /\ Places(r, 1, 0, c, w)'
    BY <1>1, <1>4, <1>6, <2>1, <2>2, <2>3 DEF Logged, Places, Unbegun, Number
  <2>5. Balance(l, k, o, q, n, v, 0, s, r, 1, 0, c, w)
    BY <1>5, <1>6, <1>7, <2>3 DEF Balance
  <2> QED  BY <1>3, <1>6, <2>2, <2>4, <2>5, CountedNumbers
<1> QED  BY <1>10, <1>11

\* hwrecv begins: the signal becomes a select.
LEMMA CountRecv == ASSUME WireInv, Types', Counted, RecvStart PROVE Counted'
<1>1. /\ UNCHANGED <<view, p_pc, flg, timeouts, offered, sent, rcvd>> /\ sig /\ ~sig'
      /\ a_pc = "idle" /\ a_pc' = "recv_sample" /\ Drive([lines EXCEPT !.sel = TRUE])
  BY DEF RecvStart, pcVars, logs
<1>2. Types /\ SelSent /\ Unused \in Nat /\ Unused' \in Nat
  BY CountTypes DEF WireInv, Counted
<1>3. Unused' <= Unused + 1 /\ SelSent'
  BY <1>1, <1>2, AmigaCount
<1>4. PICK l, k, o, q, t, u, e, s, r, b, m, c, w \in Nat :
         Logged(l, k, o, q, t) /\ Flags(u, e, s) /\ Places(r, b, m, c, w)
  BY Numbers DEF WireInv
<1>5. PICK v \in Nat : Unused' = v /\ v <= u + 1
  BY <1>2, <1>3, <1>4 DEF Flags
<1>6. SendLog' /\ Unbegun' = Unbegun
  BY <1>1 DEF Counted, SendLog, Unbegun, Pending
<1>7. s = 1 /\ m = 0 /\ Flags(v, e, 0)'
  BY <1>1, <1>4, <1>5 DEF Flags, Places, AmigaInRecv, Number
<1>8. Logged(l, k, o, q, t)' /\ Places(r, b, 1, c, w)'
  <2>1. Number(Unbegun)' = b
    BY <1>4, <1>6 DEF Places
  <2>2. Number(AmigaInRecv)' = 1
    BY <1>1 DEF AmigaInRecv, Number
  <2> QED  BY <1>1, <1>4, <2>1, <2>2, SameLogged DEF Places, PcInRecv, Unannounced
<1>9. Balance(l, k, o, q, t, u, e, s, r, b, m, c, w)
  BY <1>4, CountedNumbers
<1>10. Balance(l, k, o, q, t, v, e, 0, r, b, 1, c, w)
  BY <1>5, <1>7, <1>9 DEF Balance
<1> QED  BY <1>3, <1>6, <1>7, <1>8, <1>10, CountedNumbers

\* hwrecv ends, with a packet or without.
LEMMA CountTaken ==
    ASSUME WireInv, Types', Counted, RecvDone \/ RecvRefuse \/ RecvTimeout PROVE Counted'
<1>1. /\ UNCHANGED <<view, p_pc, sig, offered, sent>> /\ ~flg' /\ rcvd'["pc"] = rcvd["pc"]
      /\ a_pc \in {"recv_sample", "recv"} /\ a_pc' = "idle" /\ Release
      /\ \/ Len(rcvd'["amiga"]) = Len(rcvd["amiga"])
         \/ Len(rcvd'["amiga"]) = Len(rcvd["amiga"]) + 1
  <2>1. rcvd \in Logs /\ "amiga" \in Sides /\ "pc" \in Sides
    BY OtherSide DEF WireInv, Types
  <2>2. rcvd' = rcvd \/ rcvd' = [rcvd EXCEPT !["amiga"] = Append(@, Data(a_bytes))]
    BY DEF RecvDone, RecvRefuse, RecvTimeout, RecvEnd
  <2>3. /\ rcvd'["pc"] = rcvd["pc"]
        /\ \/ Len(rcvd'["amiga"]) = Len(rcvd["amiga"])
           \/ Len(rcvd'["amiga"]) = Len(rcvd["amiga"]) + 1
    BY <2>1, <2>2, LogGrows
  <2> QED  BY <2>3 DEF RecvDone, RecvRefuse, RecvTimeout, RecvEnd, pcVars
<1>2. Types /\ SelSent /\ Unused \in Nat /\ Unused' \in Nat
  BY CountTypes DEF WireInv, Counted
<1>3. Unused' <= Unused /\ SelSent'
  BY <1>1, <1>2, AmigaCount
<1>4. PICK l, k, o, q, t, u, e, s, r, b, m, c, w \in Nat :
         Logged(l, k, o, q, t) /\ Flags(u, e, s) /\ Places(r, b, m, c, w)
  BY Numbers DEF WireInv
<1>5. PICK v \in Nat : Unused' = v /\ v <= u
  BY <1>2, <1>3, <1>4 DEF Flags
<1>6. SendLog' /\ Unbegun' = Unbegun
  BY <1>1 DEF Counted, SendLog, Unbegun, Pending
<1>7. m = 1 /\ Flags(v, 0, s)' /\ Places(r, b, 0, c, w)'
  <2>1. Number(Unbegun)' = b
    BY <1>4, <1>6 DEF Places
  <2>2. m = 1 /\ Number(AmigaInRecv)' = 0 /\ Number(flg)' = 0
    BY <1>1, <1>4 DEF AmigaInRecv, Number, Places
  <2> QED  BY <1>1, <1>4, <1>5, <2>1, <2>2 DEF Flags, Places, PcInRecv, Unannounced
<1>8. PICK n \in {k, k + 1}, p \in {t, t + 1} : Logged(l, n, o, q, p)'
  <2>1. timeouts' = timeouts \/ timeouts' = timeouts + 1
    BY DEF RecvDone, RecvRefuse, RecvTimeout
  <2> QED  BY <1>1, <1>4, <2>1 DEF Logged
<1>9. Balance(l, k, o, q, t, u, e, s, r, b, m, c, w)
  BY <1>4, CountedNumbers
<1>10. Balance(l, n, o, q, p, v, 0, s, r, b, 0, c, w) /\ n \in Nat /\ p \in Nat
  BY <1>5, <1>7, <1>8, <1>9 DEF Balance
<1> QED  BY <1>3, <1>6, <1>7, <1>8, <1>10, CountedNumbers
\* A step of the PC leaves what the Amiga has to send.
LEMMA PcLeaves ==
    ASSUME Counted, UNCHANGED <<a_pc, sent>>, offered'["amiga"] = offered["amiga"]
    PROVE  SendLog' /\ Unbegun' = Unbegun /\ AmigaInRecv' = AmigaInRecv
BY DEF Counted, SendLog, Unbegun, AmigaInRecv, Pending

LEMMA PcCountFacts ==
    ASSUME WireInv, Types', Counted
    PROVE  Types /\ Types' /\ SelSent /\ Unused \in Nat /\ Unused' \in Nat
BY CountTypes DEF WireInv, Counted

LEMMA SelKept == ASSUME Types, NEW b \in Bytes
                 PROVE  [lines EXCEPT !.dat = b].sel = lines.sel
BY DEF Types, Lines

\* Steps of the PC that begin and end nothing.
LEMMA CountPcStays ==
    ASSUME WireInv, Types', Counted,
           \/ PcRead \/ PcMagic \/ PcPutByte \/ PcPutBusy \/ PcFinal \/ PcGetByte \/ PcGetBusy
    PROVE  Counted'
<1>1. /\ UNCHANGED <<a_pc, flg, sig, timeouts, offered, sent, rcvd>>
      /\ (InTransfer' <=> InTransfer) /\ (PcInRecv' <=> PcInRecv)
      /\ (Unannounced' <=> Unannounced) /\ (p_pc' = "tx_select" <=> p_pc = "tx_select")
  <2>1. CASE PcRead
    BY <2>1 DEF PcRead, amigaVars, flagVars, logs, InTransfer, PcInRecv, Unannounced
  <2>2. CASE PcMagic \/ PcPutByte \/ PcPutBusy \/ PcFinal
    BY <2>2 DEF PcMagic, PcPutByte, PcPutBusy, PcFinal, amigaVars, flagVars, logs, InTransfer,
                PcInRecv, Unannounced
  <2>3. CASE PcGetByte \/ PcGetBusy
    BY <2>3 DEF PcGetByte, PcGetBusy, amigaVars, flagVars, logs, InTransfer, PcInRecv,
                Unannounced
  <2> QED  BY <2>1, <2>2, <2>3
<1>2. Types /\ Types' /\ SelSent /\ Unused \in Nat /\ Unused' \in Nat
  BY PcCountFacts
<1>3. /\ lines'.sel = lines.sel
      /\ \/ UNCHANGED <<view, toPC>>
         \/ toPC # <<>> /\ view' = Head(toPC) /\ toPC' = Tail(toPC)
  <2>1. CASE PcRead \/ PcFinal \/ PcPutBusy \/ PcGetByte \/ PcGetBusy
    BY <2>1 DEF PcRead, PcFinal, PcPutBusy, PcGetByte, PcGetBusy
  <2>2. CASE PcMagic
    <3>1. SYNCBYTE_HEAD \in Bytes
      BY DEF SYNCBYTE_HEAD, Bytes
    <3> QED  BY <1>2, <2>2, <3>1, SelKept DEF PcMagic
  <2>3. CASE PcPutByte
    <3>1. p_bytes \in Seq(Bytes) /\ p_bytes # <<>>
      BY <1>2, <2>3 DEF Types, PcPutByte
    <3>2. Head(p_bytes) \in Bytes
      BY <3>1
    <3> QED  BY <1>2, <2>3, <3>2, SelKept DEF PcPutByte
  <2> QED  BY <2>1, <2>2, <2>3
<1>4. Unused' <= Unused /\ SelSent'
  BY <1>1, <1>2, <1>3, PcCount
<1>5. PICK l, k, o, q, t, u, e, s, r, b, m, c, w \in Nat :
         Logged(l, k, o, q, t) /\ Flags(u, e, s) /\ Places(r, b, m, c, w)
  BY Numbers DEF WireInv
<1>6. PICK v \in Nat : Unused' = v /\ v <= u
  BY <1>2, <1>4, <1>5 DEF Flags
<1>7. SendLog' /\ Unbegun' = Unbegun /\ AmigaInRecv' = AmigaInRecv
  BY <1>1, PcLeaves
<1>8. Logged(l, k, o, q, t)' /\ Flags(v, e, s)' /\ Places(r, b, m, c, w)'
  <2>1. Logged(l, k, o, q, t)' /\ Flags(v, e, s)'
    BY <1>1, <1>5, <1>6, SameLogged DEF Flags
  <2>2. Number(PcInRecv)' = r /\ Number(Unannounced)' = c /\ Number(p_pc = "tx_select")' = w
    BY <1>1, <1>5 DEF Places, Number
  <2>3. Number(Unbegun)' = b /\ Number(AmigaInRecv)' = m
    BY <1>5, <1>7 DEF Places
  <2> QED  BY <2>1, <2>2, <2>3 DEF Places
<1>9. Balance(l, k, o, q, t, u, e, s, r, b, m, c, w)
  BY <1>5, CountedNumbers
<1>10. Balance(l, k, o, q, t, v, e, s, r, b, m, c, w)
  BY <1>6, <1>9 DEF Balance
<1> QED  BY <1>4, <1>7, <1>8, <1>10, CountedNumbers

\* send: the packet is one more that may be announced.
LEMMA CountPcSend == ASSUME WireInv, Types', Counted, PcSend PROVE Counted'
<1>1. /\ UNCHANGED <<a_pc, flg, sig, timeouts, sent, rcvd, lines, toPC, view>>
      /\ p_pc = "idle" /\ p_pc' = "tx_magic"
      /\ \E n \in PcSizes : offered' = [offered EXCEPT !["pc"] = Append(@, Payload("pc", n))]
  BY DEF PcSend, amigaVars, flagVars
<1>2. Types /\ Types' /\ SelSent /\ Unused \in Nat /\ Unused' \in Nat
  BY PcCountFacts
<1>3. Len(offered'["pc"]) = Len(offered["pc"]) + 1 /\ offered'["amiga"] = offered["amiga"]
  <2>1. offered \in Logs /\ "amiga" \in Sides /\ "pc" \in Sides
    BY <1>2, OtherSide DEF Types
  <2> QED  BY <1>1, <2>1, LogGrows
<1>4. Unused' <= Unused /\ SelSent'
  <2>1. (InTransfer' <=> InTransfer) /\ lines'.sel = lines.sel
    BY <1>1 DEF InTransfer
  <2> QED  BY <1>1, <1>2, <2>1, PcCount
<1>5. PICK l, k, o, q, t, u, e, s, r, b, m, c, w \in Nat :
         Logged(l, k, o, q, t) /\ Flags(u, e, s) /\ Places(r, b, m, c, w)
  BY Numbers DEF WireInv
<1>6. PICK v \in Nat : Unused' = v /\ v <= u
  BY <1>2, <1>4, <1>5 DEF Flags
<1>7. SendLog' /\ Unbegun' = Unbegun /\ AmigaInRecv' = AmigaInRecv
  BY <1>1, <1>3, PcLeaves
<1>8. PICK n \in Nat : n = q + 1
  OBVIOUS
<1>9. Logged(l, k, o, n, t)' /\ Flags(v, e, s)' /\ c = 0 /\ Places(r, b, m, 1, w)'
  <2>1. Logged(l, k, o, n, t)' /\ Flags(v, e, s)'
    BY <1>1, <1>3, <1>5, <1>6, <1>8 DEF Flags, Logged
  <2>2. /\ Number(PcInRecv)' = r /\ c = 0 /\ Number(Unannounced)' = 1
        /\ Number(p_pc = "tx_select")' = w
    BY <1>1, <1>5 DEF Places, Number, PcInRecv, Unannounced
  <2>3. Number(Unbegun)' = b /\ Number(AmigaInRecv)' = m
    BY <1>5, <1>7 DEF Places
  <2> QED  BY <2>1, <2>2, <2>3 DEF Places
<1>10. Balance(l, k, o, q, t, u, e, s, r, b, m, c, w)
  BY <1>5, CountedNumbers
<1>11. Balance(l, k, o, n, t, v, e, s, r, b, m, 1, w)
  BY <1>6, <1>8, <1>9, <1>10 DEF Balance
<1> QED  BY <1>4, <1>7, <1>9, <1>11, CountedNumbers

\* The pulse of ACK announces it, and the PC waits for the select that answers it.
LEMMA CountPcAck == ASSUME WireInv, Types', Counted, PcAck PROVE Counted'
<1>1. /\ UNCHANGED <<a_pc, sig, timeouts, offered, sent, rcvd, lines, toPC, view>> /\ flg'
      /\ p_pc = "tx_ack" /\ p_pc' = "tx_select"
  BY DEF PcAck, amigaVars, flagVars, logs
<1>2. Types /\ Types' /\ SelSent /\ Unused \in Nat /\ Unused' \in Nat
  BY PcCountFacts
<1>3. Unused' <= Unused /\ SelSent'
  <2>1. (InTransfer' <=> InTransfer) /\ lines'.sel = lines.sel
    BY <1>1 DEF InTransfer
  <2> QED  BY <1>1, <1>2, <2>1, PcCount
<1>4. PICK l, k, o, q, t, u, e, s, r, b, m, c, w \in Nat :
         Logged(l, k, o, q, t) /\ Flags(u, e, s) /\ Places(r, b, m, c, w)
  BY Numbers DEF WireInv
<1>5. PICK v \in Nat : Unused' = v /\ v <= u
  BY <1>2, <1>3, <1>4 DEF Flags
<1>6. SendLog' /\ Unbegun' = Unbegun /\ AmigaInRecv' = AmigaInRecv
  BY <1>1, PcLeaves
<1>7. Logged(l, k, o, q, t)' /\ Flags(v, 1, s)' /\ c = 1 /\ w = 0 /\ Places(r, b, m, 0, 1)'
  <2>1. Logged(l, k, o, q, t)' /\ Flags(v, 1, s)'
    BY <1>1, <1>4, <1>5, SameLogged DEF Flags, Number
  <2>2. /\ Number(PcInRecv)' = r /\ c = 1 /\ Number(Unannounced)' = 0
        /\ w = 0 /\ Number(p_pc = "tx_select")' = 1
    BY <1>1, <1>4 DEF Places, Number, PcInRecv, Unannounced
  <2>3. Number(Unbegun)' = b /\ Number(AmigaInRecv)' = m
    BY <1>4, <1>6 DEF Places
  <2> QED  BY <2>1, <2>2, <2>3 DEF Places
<1>8. Balance(l, k, o, q, t, u, e, s, r, b, m, c, w)
  BY <1>4, CountedNumbers
<1>9. Balance(l, k, o, q, t, v, 1, s, r, b, m, 0, 1)
  BY <1>5, <1>7, <1>8 DEF Balance
<1> QED  BY <1>3, <1>6, <1>7, <1>9, CountedNumbers

\* It came: the PC has used a select, to send.
LEMMA CountPcSelected == ASSUME WireInv, Types', Counted, PcSelected PROVE Counted'
<1>1. /\ UNCHANGED <<a_pc, flg, sig, timeouts, offered, sent, rcvd, lines, toPC, view>>
      /\ p_pc = "tx_select" /\ p_pc' = "tx" /\ view.sel
  BY DEF PcSelected, amigaVars, flagVars, logs
<1>2. Types /\ Types' /\ SelSent /\ Unused \in Nat /\ Unused' \in Nat
  BY PcCountFacts
<1>3. Unused' = Unused - 1 /\ SelSent'
  <2>1. ~InTransfer /\ InTransfer' /\ lines'.sel = lines.sel
    BY <1>1 DEF InTransfer
  <2> QED  BY <1>1, <1>2, <2>1, PcCount
<1>4. PICK l, k, o, q, t, u, e, s, r, b, m, c, w \in Nat :
         Logged(l, k, o, q, t) /\ Flags(u, e, s) /\ Places(r, b, m, c, w)
  BY Numbers DEF WireInv
<1>5. PICK v \in Nat : Unused' = v /\ v = u - 1
  BY <1>2, <1>3, <1>4 DEF Flags
<1>6. SendLog' /\ Unbegun' = Unbegun /\ AmigaInRecv' = AmigaInRecv
  BY <1>1, PcLeaves
<1>7. Logged(l, k, o, q, t)' /\ Flags(v, e, s)' /\ w = 1 /\ Places(r, b, m, c, 0)'
  <2>1. Logged(l, k, o, q, t)' /\ Flags(v, e, s)'
    BY <1>1, <1>4, <1>5, SameLogged DEF Flags
  <2>2. /\ Number(PcInRecv)' = r /\ Number(Unannounced)' = c
        /\ w = 1 /\ Number(p_pc = "tx_select")' = 0
    BY <1>1, <1>4 DEF Places, Number, PcInRecv, Unannounced
  <2>3. Number(Unbegun)' = b /\ Number(AmigaInRecv)' = m
    BY <1>4, <1>6 DEF Places
  <2> QED  BY <2>1, <2>2, <2>3 DEF Places
<1>8. Balance(l, k, o, q, t, u, e, s, r, b, m, c, w)
  BY <1>4, CountedNumbers
<1>9. Balance(l, k, o, q, t, v, e, s, r, b, m, c, 0)
  BY <1>5, <1>7, <1>8 DEF Balance
<1> QED  BY <1>3, <1>6, <1>7, <1>9, CountedNumbers

\* It did not: the timeout pays for the select that may still come.
LEMMA CountPcNoSelect == ASSUME WireInv, Types', Counted, PcNoSelect PROVE Counted'
<1>1. /\ UNCHANGED <<a_pc, flg, sig, offered, sent, rcvd, lines, toPC, view>>
      /\ timeouts' = timeouts + 1 /\ p_pc = "tx_select" /\ p_pc' \in {"idle", "stopped"}
  BY DEF PcNoSelect, PcFail, Failed, amigaVars, flagVars, logs
<1>2. Types /\ Types' /\ SelSent /\ Unused \in Nat /\ Unused' \in Nat
  BY PcCountFacts
<1>3. Unused' <= Unused /\ SelSent'
  <2>1. (InTransfer' <=> InTransfer) /\ lines'.sel = lines.sel
    BY <1>1 DEF InTransfer
  <2> QED  BY <1>1, <1>2, <2>1, PcCount
<1>4. PICK l, k, o, q, t, u, e, s, r, b, m, c, w \in Nat :
         Logged(l, k, o, q, t) /\ Flags(u, e, s) /\ Places(r, b, m, c, w)
  BY Numbers DEF WireInv
<1>5. PICK v \in Nat : Unused' = v /\ v <= u
  BY <1>2, <1>3, <1>4 DEF Flags
<1>6. SendLog' /\ Unbegun' = Unbegun /\ AmigaInRecv' = AmigaInRecv
  BY <1>1, PcLeaves
<1>7. PICK n \in Nat : n = t + 1
  OBVIOUS
<1>8. Logged(l, k, o, q, n)' /\ Flags(v, e, s)' /\ w = 1 /\ Places(r, b, m, c, 0)'
  <2>1. Logged(l, k, o, q, n)' /\ Flags(v, e, s)'
    BY <1>1, <1>4, <1>5, <1>7 DEF Flags, Logged
  <2>2. /\ Number(PcInRecv)' = r /\ Number(Unannounced)' = c
        /\ w = 1 /\ Number(p_pc = "tx_select")' = 0
    BY <1>1, <1>4 DEF Places, Number, PcInRecv, Unannounced
  <2>3. Number(Unbegun)' = b /\ Number(AmigaInRecv)' = m
    BY <1>4, <1>6 DEF Places
  <2> QED  BY <2>1, <2>2, <2>3 DEF Places
<1>9. Balance(l, k, o, q, t, u, e, s, r, b, m, c, w)
  BY <1>4, CountedNumbers
<1>10. Balance(l, k, o, q, n, v, e, s, r, b, m, c, 0)
  BY <1>5, <1>7, <1>8, <1>9 DEF Balance
<1> QED  BY <1>3, <1>6, <1>8, <1>10, CountedNumbers

\* send ends: SEL is low where the PC looks.
LEMMA CountPcSent == ASSUME WireInv, Types', Counted, PcSendLost \/ PcSent PROVE Counted'
<1>1. /\ UNCHANGED <<a_pc, flg, sig, timeouts, offered, rcvd, lines, toPC, view>> /\ ~view.sel
      /\ p_pc \in {"tx", "tx_unselect"} /\ p_pc' \in {"idle", "stopped"}
      /\ sent'["amiga"] = sent["amiga"]
  <2>1. CASE PcSendLost
    BY <2>1 DEF PcSendLost, PcLost, PcFail, Failed, amigaVars, flagVars, logs
  <2>2. CASE PcSent
    <3>1. sent \in Logs /\ "amiga" \in Sides /\ "pc" \in Sides
      BY OtherSide DEF WireInv, Types
    <3>2. sent'["amiga"] = sent["amiga"]
      BY <2>2, <3>1, LogGrows DEF PcSent
    <3> QED  BY <2>2, <3>2 DEF PcSent, Unselected, amigaVars, flagVars
  <2> QED  BY <2>1, <2>2
<1>2. Types /\ Types' /\ SelSent /\ Unused \in Nat /\ Unused' \in Nat
  BY PcCountFacts
<1>3. Unused' = Unused /\ SelSent'
  <2>1. InTransfer /\ ~InTransfer' /\ lines'.sel = lines.sel
    BY <1>1 DEF InTransfer
  <2> QED  BY <1>1, <1>2, <2>1, PcCount
<1>4. PICK l, k, o, q, t, u, e, s, r, b, m, c, w \in Nat :
         Logged(l, k, o, q, t) /\ Flags(u, e, s) /\ Places(r, b, m, c, w)
  BY Numbers DEF WireInv
<1>5. SendLog' /\ Unbegun' = Unbegun /\ AmigaInRecv' = AmigaInRecv
  BY <1>1 DEF Counted, SendLog, Unbegun, AmigaInRecv, Pending
<1>6. Logged(l, k, o, q, t)' /\ Flags(u, e, s)' /\ Places(r, b, m, c, w)'
  <2>1. Logged(l, k, o, q, t)' /\ Flags(u, e, s)'
    BY <1>1, <1>3, <1>4, SameLogged DEF Flags
  <2>2. /\ Number(PcInRecv)' = r /\ Number(Unannounced)' = c
        /\ Number(p_pc = "tx_select")' = w
    BY <1>1, <1>4 DEF Places, Number, PcInRecv, Unannounced
  <2>3. Number(Unbegun)' = b /\ Number(AmigaInRecv)' = m
    BY <1>4, <1>5 DEF Places
  <2> QED  BY <2>1, <2>2, <2>3 DEF Places
<1>7. Balance(l, k, o, q, t, u, e, s, r, b, m, c, w)
  BY <1>4, CountedNumbers
<1> QED  BY <1>3, <1>5, <1>6, <1>7, CountedNumbers

\* recv begins with a select the PC has not used, and uses it.
LEMMA CountPcRecv == ASSUME WireInv, Types', Counted, PcRecv PROVE Counted'
<1>1. /\ UNCHANGED <<a_pc, flg, sig, timeouts, offered, sent, rcvd, lines, toPC, view>>
      /\ p_pc = "idle" /\ p_pc' = "recv" /\ view.sel
  BY DEF PcRecv, amigaVars, flagVars, logs
<1>2. Types /\ Types' /\ SelSent /\ Unused \in Nat /\ Unused' \in Nat
  BY PcCountFacts
<1>3. Unused' = Unused - 1 /\ SelSent'
  <2>1. ~InTransfer /\ InTransfer' /\ lines'.sel = lines.sel
    BY <1>1 DEF InTransfer
  <2> QED  BY <1>1, <1>2, <2>1, PcCount
<1>4. PICK l, k, o, q, t, u, e, s, r, b, m, c, w \in Nat :
         Logged(l, k, o, q, t) /\ Flags(u, e, s) /\ Places(r, b, m, c, w)
  BY Numbers DEF WireInv
<1>5. PICK v \in Nat : Unused' = v /\ v = u - 1
  BY <1>2, <1>3, <1>4 DEF Flags
<1>6. SendLog' /\ Unbegun' = Unbegun /\ AmigaInRecv' = AmigaInRecv
  BY <1>1, PcLeaves
<1>7. Logged(l, k, o, q, t)' /\ Flags(v, e, s)' /\ r = 0 /\ Places(1, b, m, c, w)'
  <2>1. Logged(l, k, o, q, t)' /\ Flags(v, e, s)'
    BY <1>1, <1>4, <1>5, SameLogged DEF Flags
  <2>2. /\ r = 0 /\ Number(PcInRecv)' = 1 /\ Number(Unannounced)' = c
        /\ Number(p_pc = "tx_select")' = w
    BY <1>1, <1>4 DEF Places, Number, PcInRecv, Unannounced
  <2>3. Number(Unbegun)' = b /\ Number(AmigaInRecv)' = m
    BY <1>4, <1>6 DEF Places
  <2> QED  BY <2>1, <2>2, <2>3 DEF Places
<1>8. Balance(l, k, o, q, t, u, e, s, r, b, m, c, w)
  BY <1>4, CountedNumbers
<1>9. Balance(l, k, o, q, t, v, e, s, 1, b, m, c, w)
  BY <1>5, <1>7, <1>8 DEF Balance
<1> QED  BY <1>3, <1>6, <1>7, <1>9, CountedNumbers

\* recv gives up; if SEL is still high it may begin again with the same select.
LEMMA CountPcRecvFail == ASSUME WireInv, Types', Counted, PcRecvFail PROVE Counted'
<1>1. /\ UNCHANGED <<a_pc, flg, sig, timeouts, offered, sent, rcvd, lines, toPC, view>>
      /\ p_pc = "recv" /\ p_pc' \in {"idle", "stopped"}
  BY DEF PcRecvFail, PcFail, Failed, amigaVars, flagVars, logs
<1>2. Types /\ Types' /\ SelSent /\ Unused \in Nat /\ Unused' \in Nat
  BY PcCountFacts
<1>3. Unused' <= Unused + 1 /\ SelSent'
  <2>1. InTransfer /\ ~InTransfer' /\ lines'.sel = lines.sel
    BY <1>1 DEF InTransfer
  <2> QED  BY <1>1, <1>2, <2>1, PcCount
<1>4. PICK l, k, o, q, t, u, e, s, r, b, m, c, w \in Nat :
         Logged(l, k, o, q, t) /\ Flags(u, e, s) /\ Places(r, b, m, c, w)
  BY Numbers DEF WireInv
<1>5. PICK v \in Nat : Unused' = v /\ v <= u + 1
  BY <1>2, <1>3, <1>4 DEF Flags
<1>6. SendLog' /\ Unbegun' = Unbegun /\ AmigaInRecv' = AmigaInRecv
  BY <1>1, PcLeaves
<1>7. Logged(l, k, o, q, t)' /\ Flags(v, e, s)' /\ r = 1 /\ Places(0, b, m, c, w)'
  <2>1. Logged(l, k, o, q, t)' /\ Flags(v, e, s)'
    BY <1>1, <1>4, <1>5, SameLogged DEF Flags
  <2>2. /\ r = 1 /\ Number(PcInRecv)' = 0 /\ Number(Unannounced)' = c
        /\ Number(p_pc = "tx_select")' = w
    BY <1>1, <1>4 DEF Places, Number, PcInRecv, Unannounced
  <2>3. Number(Unbegun)' = b /\ Number(AmigaInRecv)' = m
    BY <1>4, <1>6 DEF Places
  <2> QED  BY <2>1, <2>2, <2>3 DEF Places
<1>8. Balance(l, k, o, q, t, u, e, s, r, b, m, c, w)
  BY <1>4, CountedNumbers
<1>9. Balance(l, k, o, q, t, v, e, s, 0, b, m, c, w)
  BY <1>5, <1>7, <1>8 DEF Balance
<1> QED  BY <1>3, <1>6, <1>7, <1>9, CountedNumbers

\* recv has a packet, for the select it used.
LEMMA CountPcReceived == ASSUME WireInv, Types', Counted, PcReceived PROVE Counted'
<1>1. /\ UNCHANGED <<a_pc, flg, sig, timeouts, offered, sent, lines, toPC, view>> /\ ~view.sel
      /\ p_pc = "recv_unselect" /\ p_pc' = "idle"
      /\ rcvd' = [rcvd EXCEPT !["pc"] = Append(@, Data(p_bytes))]
  BY DEF PcReceived, Unselected, amigaVars, flagVars
<1>2. Types /\ Types' /\ SelSent /\ Unused \in Nat /\ Unused' \in Nat
  BY PcCountFacts
<1>3. Len(rcvd'["pc"]) = Len(rcvd["pc"]) + 1 /\ rcvd'["amiga"] = rcvd["amiga"]
  <2>1. rcvd \in Logs /\ "amiga" \in Sides /\ "pc" \in Sides
    BY <1>2, OtherSide DEF Types
  <2> QED  BY <1>1, <2>1, LogGrows
<1>4. Unused' = Unused /\ SelSent'
  <2>1. InTransfer /\ ~InTransfer' /\ lines'.sel = lines.sel
    BY <1>1 DEF InTransfer
  <2> QED  BY <1>1, <1>2, <2>1, PcCount
<1>5. PICK l, k, o, q, t, u, e, s, r, b, m, c, w \in Nat :
         Logged(l, k, o, q, t) /\ Flags(u, e, s) /\ Places(r, b, m, c, w)
  BY Numbers DEF WireInv
<1>6. SendLog' /\ Unbegun' = Unbegun /\ AmigaInRecv' = AmigaInRecv
  BY <1>1, PcLeaves
<1>7. PICK n \in Nat : n = l + 1
  OBVIOUS
<1>8. /\ Logged(n, k, o, q, t)' /\ Flags(u, e, s)'
      /\ r = 1 /\ w = 0 /\ Places(0, b, m, c, w)'
  <2>1. Logged(n, k, o, q, t)' /\ Flags(u, e, s)'
    BY <1>1, <1>3, <1>4, <1>5, <1>7 DEF Flags, Logged
  <2>2. /\ r = 1 /\ Number(PcInRecv)' = 0 /\ Number(Unannounced)' = c
        /\ w = 0 /\ Number(p_pc = "tx_select")' = w
    BY <1>1, <1>5 DEF Places, Number, PcInRecv, Unannounced
  <2>3. Number(Unbegun)' = b /\ Number(AmigaInRecv)' = m
    BY <1>5, <1>6 DEF Places
  <2> QED  BY <2>1, <2>2, <2>3 DEF Places
<1>9. Balance(l, k, o, q, t, u, e, s, r, b, m, c, w)
  BY <1>5, CountedNumbers
<1>10. Balance(n, k, o, q, t, u, e, s, 0, b, m, c, w)
  BY <1>7, <1>8, <1>9 DEF Balance
<1> QED  BY <1>4, <1>6, <1>8, <1>10, CountedNumbers

LEMMA CountStep == ASSUME WireInv, Types', Counted, [Next]_vars PROVE Counted'
<1>1. CASE interrupt
  BY <1>1, CountInterrupt
<1>2. CASE Amiga \/ SendTimeout \/ RecvTimeout
  <2>1. CASE SendRequest
    BY <2>1, CountRequest
  <2>2. CASE SendNoLine \/ SendLine \/ SendSample \/ SendByte \/ RecvSample \/ RecvByte
    BY <2>2, CountAmiga
  <2>3. CASE SendStart
    BY <2>3, CountStart
  <2>4. CASE SendDone \/ SendTimeout
    BY <2>4, CountSent
  <2>5. CASE RecvStart
    BY <2>5, CountRecv
  <2>6. CASE RecvDone \/ RecvRefuse \/ RecvTimeout
    BY <2>6, CountTaken
  <2> QED  BY <1>2, <2>1, <2>2, <2>3, <2>4, <2>5, <2>6 DEF Amiga, hwsend, hwrecv
<1>3. CASE PC \/ PcNoSelect
  BY <1>3, CountPcStays, CountPcSend, CountPcAck, CountPcSelected, CountPcNoSelect,
     CountPcSent, CountPcRecv, CountPcRecvFail, CountPcReceived DEF PC
<1>4. CASE UNCHANGED vars
  <2>1. UNCHANGED <<lines, toPC, view, p_pc, a_pc, flg, sig, timeouts, offered, sent, rcvd>>
    BY <1>4 DEF vars, amigaVars, flagVars, pcVars, logs
  <2>2. SelSent' = SelSent /\ Unused' = Unused
    BY <2>1, SamePort
  <2> QED  BY <2>1, <2>2 DEF Counted, SendLog, Pending, PcInRecv, Unbegun, AmigaInRecv,
                             Unannounced
<1> QED  BY <1>1, <1>2, <1>3, <1>4 DEF Next, Timeout

LEMMA CountInit == Init => Counted
<1> SUFFICES ASSUME Init PROVE Counted
  OBVIOUS
<1>1. /\ toPC = <<>> /\ view = lines /\ view.sel = FALSE /\ p_pc = "idle" /\ a_pc = "idle"
      /\ ~flg /\ ~sig /\ timeouts = 0
  BY DEF Init
<1>2. \A s \in Sides : offered[s] = <<>> /\ sent[s] = <<>> /\ rcvd[s] = <<>>
  BY DEF Init
<1>3. /\ Len(offered["amiga"]) = 0 /\ Len(sent["amiga"]) = 0 /\ Len(rcvd["amiga"]) = 0
      /\ Len(offered["pc"]) = 0 /\ Len(rcvd["pc"]) = 0
  BY <1>2, OtherSide
<1>4. Unused = 0
  <2>1. Selects(toPC, view, ~InTransfer) = {}
    BY <1>1 DEF Selects, SeenOf
  <2> QED  BY <2>1, FS_EmptySet DEF Unused, Count
<1>5. SelSent /\ SendLog
  BY <1>1, <1>3 DEF SelSent, LastSent, SendLog
<1>6. /\ Number(PcInRecv) = 0 /\ Number(flg) = 0 /\ Number(sig) = 0 /\ Number(Unbegun) = 0
      /\ Number(AmigaInRecv) = 0 /\ Number(Unannounced) = 0 /\ Number(p_pc = "tx_select") = 0
  BY <1>1, <1>3 DEF Number, PcInRecv, Unbegun, AmigaInRecv, Unannounced, Pending
<1> QED  BY <1>1, <1>3, <1>4, <1>5, <1>6 DEF Counted

\* Whatever times out, and whatever the constants are, each packet that a side receives is
\* paid by an attempt of the other to send one (par_send and par_recv of par.c, send and
\* recv of parblk.py): no packet is received twice for one select or one pulse of ACK.
THEOREM ReceivedIsPaid == Spec => []NoMoreThanSent
<1>1. WireInv /\ WireInv' /\ Counted /\ [Next]_vars => Counted'
  BY CountStep DEF WireInv
<1>2. WireInv /\ Counted => NoMoreThanSent
  <2> SUFFICES ASSUME WireInv, Counted PROVE NoMoreThanSent
    OBVIOUS
  <2>1. PICK l, k, o, q, t, u, e, s, r, b, m, c, w \in Nat :
           Logged(l, k, o, q, t) /\ Flags(u, e, s) /\ Places(r, b, m, c, w)
    BY Numbers DEF WireInv
  <2>2. Balance(l, k, o, q, t, u, e, s, r, b, m, c, w)
    BY <2>1, CountedNumbers
  <2>3. k <= q /\ l <= o + t
    BY <2>2 DEF Balance
  <2> QED  BY <2>1, <2>3 DEF Logged, NoMoreThanSent
<1> QED  BY <1>1, <1>2, WireInvariant, CountInit, PTL DEF Spec
=============================================================================
