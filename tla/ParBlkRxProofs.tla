--------------------------- MODULE ParBlkRxProofs ---------------------------
(***************************************************************************)
(* The signals of the server, the tick and the order of the packets read.  *)
(***************************************************************************)
EXTENDS ParBlkProofs

-----------------------------------------------------------------------------
(* What the server is doing follows from the signals and the RX flag, for  *)
(* any number of tasks and any value of the uninitialised p.               *)

\* parblk_handle_sig is at the reception.
Receiving == pc[server] \in {"rx", "rx_alloc", "recv"}

\* parblk_handle_sig is at the tick: the queue is flushed for no write.
Flushing == arg[server] = NULL /\ pc[server] \in {"flush", "loop", "queue_send", "tick"}

SigControl ==
    /\ Receiving => rx_flag /\ "rx" \notin sig
    /\ "rx" \in sig => rx_flag
    /\ Flushing => "tick" \in got
    /\ ~Receiving /\ ~Flushing => got = {}
    /\ pc[server] = "rx_alloc" => ~from_empty

\* A call of a task leaves the server where it was, with respect to signals.
LEMMA CallsLeaveSignals ==
    ASSUME TypeInv, NEW t \in Tasks,
           Call(t) \/ Obtain(t) \/ SendQueue(t) \/ SendNew(t) \/ Reading(t)
    PROVE  /\ UNCHANGED <<got, sig, ticking, rx_flag, arrivals, from_empty>>
           /\ UNCHANGED <<Receiving, Flushing>>
           /\ Receiving => UNCHANGED pc[server]
<1>1. UNCHANGED sigVars /\ UNCHANGED from_empty
  BY DEF rxVars, Call, Write, ReadFilled, ReadNone, Obtain, SendQueue, SendNew, Reading, ReadQueue,
         ReadFail, ObtainTx, WriteQueue, QueueNext, QueueEmpty, QueueSendOk, QueueSendFail,
         WriteSendOk, WriteSendFail
<1>2. /\ pc \in [Tasks -> Locations] /\ arg \in [Tasks -> TxPackets \cup {NULL}]
      /\ server \in Tasks
  BY TasksAssumption DEF TypeInv, TypeOK
<1> DEFINE F == {"flush", "loop", "queue_send", "tick"}
<1>3. /\ \A u \in Tasks \ {t} : pc'[u] = pc[u] /\ arg'[u] = arg[u]
      /\ \/ UNCHANGED <<pc, arg>>
         \/ /\ pc[t] \notin {"rx", "rx_alloc", "recv"}
            /\ pc'[t] \notin {"rx", "rx_alloc", "recv"}
            /\ (arg'[t] = NULL /\ pc'[t] \in F) <=> (arg[t] = NULL /\ pc[t] \in F)
  <2>1. CASE Write(t)
    <3>1. /\ tx_free # <<>> /\ arg' = [arg EXCEPT ![t] = Head(tx_free)]
          /\ pc[t] = "idle" /\ pc' = [pc EXCEPT ![t] = "flush"]
      BY <2>1 DEF Write, AllocTx
    <3>2. tx_free \in Seq(TxPackets)
      BY DEF TypeInv, TypeOK
    <3>3. Head(tx_free) # NULL
      BY <3>1, <3>2, PacketFacts
    <3> QED  BY <1>2, <3>1, <3>3
  <2>2. CASE ReadFilled(t)
    BY <2>2 DEF ReadFilled, txVars
  <2>3. CASE ReadNone(t) \/ ReadQueue(t) \/ ReadFail(t)
    BY <1>2, <2>3 DEF ReadNone, ReadQueue, ReadFail, txVars
  <2>4. CASE WriteSendOk(t) \/ WriteQueue(t)
    BY <1>2, <2>4 DEF WriteSendOk, WriteQueue
  <2>5. CASE WriteSendFail(t) \/ ObtainTx(t) \/ QueueNext(t)
    BY <1>2, <2>5 DEF WriteSendFail, ObtainTx, QueueNext
  <2>6. CASE QueueEmpty(t) \/ QueueSendOk(t) \/ QueueSendFail(t)
    <3>1. /\ pc[t] \in {"loop", "queue_send"} /\ UNCHANGED arg
          /\ \/ pc' = [pc EXCEPT ![t] = "loop"]
             \/ \E ok \in BOOLEAN : pc' = [pc EXCEPT ![t] = After(t, ok)]
      BY <2>6 DEF QueueEmpty, QueueSendOk, QueueSendFail
    <3>2. \A ok \in BOOLEAN : IF arg[t] = NULL THEN After(t, ok) = "tick"
                              ELSE After(t, ok) \in {"write_send", "write_queue"}
      BY DEF After
    <3> QED  BY <1>2, <3>1, <3>2
  <2> QED  BY <2>1, <2>2, <2>3, <2>4, <2>5, <2>6 DEF Call, Obtain, SendQueue, SendNew, Reading
<1>4. UNCHANGED <<Receiving, Flushing>> /\ (Receiving => UNCHANGED pc[server])
  <2>1. CASE t # server
    <3>1. UNCHANGED <<pc[server], arg[server]>>
      BY <1>2, <1>3, <2>1
    <3> QED  BY <3>1 DEF Receiving, Flushing
  <2>2. CASE t = server
    BY <1>2, <1>3, <2>2 DEF Receiving, Flushing
  <2> QED  BY <2>1, <2>2
<1> QED  BY <1>1, <1>4 DEF sigVars

LEMMA SigControlNext == TypeInv /\ SigControl /\ [Next]_vars => SigControl'
<1> SUFFICES ASSUME TypeInv, SigControl, [Next]_vars PROVE SigControl'
  OBVIOUS
<1>1. ASSUME NEW t \in Tasks, Call(t) \/ Obtain(t) \/ SendQueue(t) \/ SendNew(t) \/ Reading(t)
      PROVE  SigControl'
  <2>1. /\ UNCHANGED <<got, sig, rx_flag, from_empty, Receiving, Flushing>>
        /\ Receiving => UNCHANGED pc[server]
    BY <1>1, CallsLeaveSignals
  <2>2. pc'[server] = "rx_alloc" => pc[server] = "rx_alloc"
    BY <2>1 DEF Receiving
  <2> QED  BY <2>1, <2>2 DEF SigControl
<1>2. /\ pc \in [Tasks -> Locations] /\ server \in Tasks
      /\ got \subseteq {"rx", "tick"} /\ sig \subseteq {"rx", "tick"}
      /\ pc[server] \in {"idle", "rx", "rx_alloc", "recv", "tick"} => arg[server] = NULL
  BY TasksAssumption DEF TypeInv, TypeOK, TxInv, TxControl
<1>3. ASSUME Interrupt \/ Tick PROVE SigControl'
  <2>1. /\ UNCHANGED <<pc, arg, got, from_empty>>
        /\ rx_flag => rx_flag' /\ ("rx" \in sig' => "rx" \in sig)
        /\ "rx" \in sig' => rx_flag'
    <3>1. CASE Interrupt
      BY <3>1 DEF Interrupt, txVars, rxVars
    <3>2. CASE Tick
      BY <3>2 DEF Tick, txVars, rxVars, SigControl
    <3> QED  BY <1>3, <3>1, <3>2
  <2> QED  BY <2>1 DEF SigControl, Receiving, Flushing
<1>4. ASSUME HandleSig PROVE SigControl'
  BY <1>2, <1>4 DEF HandleSig, txVars, rxVars, SigControl, Receiving, Flushing
<1>5. ASSUME RxPrepared \/ RxUnprepared \/ RxAlloc PROVE SigControl'
  <2>1. /\ Receiving /\ Receiving' /\ ~Flushing'
        /\ UNCHANGED <<got, sig, rx_flag>>
        /\ pc'[server] = "rx_alloc" => ~from_empty'
    BY <1>2, <1>5 DEF RxPrepared, RxUnprepared, RxAlloc, sigVars, Receiving, Flushing
  <2> QED  BY <2>1 DEF SigControl
<1>6. ASSUME RxExhausted \/ TickStart PROVE SigControl'
  BY <1>2, <1>6 DEF RxExhausted, TickStart, txVars, rxVars, SigControl, Receiving, Flushing
<1>7. ASSUME Recv PROVE SigControl'
  BY <1>2, <1>7 DEF Recv, txVars, rxVars, SigControl, Receiving, Flushing
<1>8. CASE UNCHANGED vars
  BY <1>8 DEF vars, txVars, rxVars, sigVars, SigControl, Receiving, Flushing
<1> QED  BY <1>1, <1>3, <1>4, <1>5, <1>6, <1>7, <1>8 DEF Next, Serve

LEMMA SigInvariant == Spec => [](TypeInv /\ SigControl)
<1>1. Init => SigControl
  BY TasksAssumption DEF Init, SigControl, Receiving, Flushing
<1>2. Init => TypeInv
  BY TypeInvInit
<1>3. TypeInv /\ SigControl /\ [Next]_vars => TypeInv' /\ SigControl'
  BY TypeInvNext, SigControlNext
<1> QED  BY <1>1, <1>2, <1>3, PTL DEF Spec

-----------------------------------------------------------------------------
(* The tick.                                                               *)

\* TickAlive without a count: somewhere, and in one place only.
TickOnce ==
    /\ ticking \/ "tick" \in sig \/ "tick" \in got
    /\ ~(ticking /\ "tick" \in sig)
    /\ ~(ticking /\ "tick" \in got)
    /\ ~("tick" \in sig /\ "tick" \in got)

LEMMA TickCounted == TickOnce <=> TickAlive
<1> DEFINE P(x) == \/ x = "running"   /\ ticking
                   \/ x = "signalled" /\ "tick" \in sig
                   \/ x = "handled"   /\ "tick" \in got
<1> DEFINE S == {x \in {"running", "signalled", "handled"} : P(x)}
<1>1. TickAlive <=> Cardinality(S) = 1
  BY Zenon DEF TickAlive
<1>2. ASSUME TickOnce PROVE Cardinality(S) = 1
  <2>1. S = {"running"} \/ S = {"signalled"} \/ S = {"handled"}
    BY <1>2 DEF TickOnce
  <2> HIDE DEF S
  <2> QED  BY <2>1, FS_Singleton
<1>3. ASSUME Cardinality(S) = 1 PROVE TickOnce
  <2>1. IsFiniteSet(S)
    <3>1. IsFiniteSet({"running", "signalled", "handled"})
      <4>1. /\ IsFiniteSet({}) /\ IsFiniteSet({} \cup {"running"})
        BY FS_EmptySet, FS_AddElement
      <4>2. IsFiniteSet(({} \cup {"running"}) \cup {"signalled"})
        BY <4>1, FS_AddElement
      <4>3. IsFiniteSet((({} \cup {"running"}) \cup {"signalled"}) \cup {"handled"})
        BY <4>2, FS_AddElement
      <4>4. (({} \cup {"running"}) \cup {"signalled"}) \cup {"handled"}
               = {"running", "signalled", "handled"}
        OBVIOUS
      <4> QED  BY <4>3, <4>4
    <3> QED  BY <3>1, FS_Subset
  <2>2. PICK y : S = {y}
    <3> HIDE DEF S
    <3> QED  BY <1>3, <2>1, FS_Singleton
  <2>3. \A x \in {"running", "signalled", "handled"} : P(x) <=> x = y
    BY <2>2
  <2>4. y \in {"running", "signalled", "handled"}
    BY <2>2
  <2>5. /\ ticking <=> y = "running"
        /\ "tick" \in sig <=> y = "signalled"
        /\ "tick" \in got <=> y = "handled"
    BY <2>3
  <2> QED  BY <2>4, <2>5 DEF TickOnce
<1> HIDE DEF S
<1> QED  BY <1>1, <1>2, <1>3

\* The tick is dropped by no step but RxExhausted.
LEMMA TickNext ==
    TypeInv /\ SigControl /\ TickOnce /\ [Next]_vars /\ [~RxExhausted]_vars => TickOnce'
<1> SUFFICES ASSUME TypeInv, SigControl, TickOnce, [Next]_vars, [~RxExhausted]_vars
             PROVE  TickOnce'
  OBVIOUS
<1>1. ASSUME NEW t \in Tasks, Call(t) \/ Obtain(t) \/ SendQueue(t) \/ SendNew(t) \/ Reading(t)
      PROVE  TickOnce'
  <2>1. UNCHANGED <<got, sig, ticking>>
    BY <1>1, CallsLeaveSignals
  <2> QED  BY <2>1 DEF TickOnce
<1>2. /\ pc \in [Tasks -> Locations] /\ server \in Tasks
      /\ pc[server] \in {"idle", "tick"} => arg[server] = NULL
  BY TasksAssumption DEF TypeInv, TypeOK, TxInv, TxControl
<1>3. ASSUME Interrupt PROVE TickOnce'
  BY <1>3 DEF Interrupt, TickOnce
<1>4. ASSUME Tick PROVE TickOnce'
  BY <1>4 DEF Tick, TickOnce
<1>5. ASSUME HandleSig PROVE TickOnce'
  <2>1. got = {}
    BY <1>2, <1>5 DEF HandleSig, SigControl, Receiving, Flushing
  <2> QED  BY <1>5, <2>1 DEF HandleSig, TickOnce
<1>6. ASSUME RxPrepared \/ RxUnprepared \/ RxAlloc PROVE TickOnce'
  BY <1>6 DEF RxPrepared, RxUnprepared, RxAlloc, sigVars, TickOnce
<1>7. ASSUME Recv PROVE TickOnce'
  BY <1>7 DEF Recv, TickOnce
<1>8. ASSUME TickStart PROVE TickOnce'
  <2>1. "tick" \in got
    BY <1>2, <1>8 DEF TickStart, SigControl, Flushing
  <2> QED  BY <1>8, <2>1 DEF TickStart, Restarted, TickOnce
<1>9. CASE UNCHANGED vars
  BY <1>9 DEF vars, sigVars, TickOnce
<1>10. ASSUME RxExhausted PROVE UNCHANGED vars
  BY <1>10
<1> QED  BY <1>1, <1>3, <1>4, <1>5, <1>6, <1>7, <1>8, <1>9, <1>10 DEF Next, Serve

\* As long as parblk_handle_sig always finds an rx packet to fill, the tick is
\* in exactly one of its three places: it is never lost, and its timer request
\* is never sent while it is in use.  This holds for any number of tasks and
\* whatever the uninitialised p holds.
THEOREM TickLives == Spec /\ [][~RxExhausted]_vars => []TickAlive
<1>1. Init => TickOnce
  BY DEF Init, TickOnce
<1>2. TypeInv /\ SigControl /\ TickOnce /\ [Next]_vars /\ [~RxExhausted]_vars => TickOnce'
  BY TickNext
<1>3. TickOnce => TickAlive
  BY TickCounted
<1> QED  BY <1>1, <1>2, <1>3, SigInvariant, PTL DEF Spec

-----------------------------------------------------------------------------
(* The rx pool: as many packets as were announced and reads queued.        *)

Filling == IF rxp = NULL THEN 0 ELSE 1

\* An announced packet for which the pool has not given a packet yet.
Due == IF rx_flag /\ ~(pc[server] = "recv" /\ ~from_empty) THEN 1 ELSE 0

PoolCount ==
    /\ Len(rx_free) + Len(rx_empty_list) + Len(rx_filled_list) + Filling = rx_pkt_size
    /\ Len(rx_empty_list) + Len(rx_filled_list) + Filling + Due <= reads + arrivals

LEMMA PoolTypes ==
    ASSUME TypeInv
    PROVE  /\ rx_free \in Seq(RxPackets) /\ rx_empty_list \in Seq(RxPackets)
           /\ rx_filled_list \in Seq(RxPackets)
           /\ Len(rx_free) \in Nat /\ Len(rx_empty_list) \in Nat
           /\ Len(rx_filled_list) \in Nat
           /\ reads \in Nat /\ arrivals \in Nat /\ Filling \in 0..1 /\ Due \in 0..1
           /\ pc \in [Tasks -> Locations] /\ server \in Tasks /\ rx_pkt_size \in Nat
           /\ rxp \in RxPackets \cup {NULL} /\ (rxp # NULL <=> pc[server] = "recv")
BY TasksAssumption, SizeAssumption, NumberFacts
   DEF TypeInv, TypeOK, Filling, Due, RxControl

\* What the list operations do to the lengths.
LEMMA ListLengths ==
    ASSUME NEW S, NEW s \in Seq(S)
    PROVE  /\ \A p \in S : Len(Append(s, p)) = Len(s) + 1
           /\ s # <<>> => Head(s) \in S /\ Len(Tail(s)) = Len(s) - 1 /\ Len(s) > 0
           /\ s = <<>> => Len(s) = 0
OBVIOUS

LEMMA PoolCountNext ==
    /\ Garbage = {NULL} /\ TypeInv /\ SigControl /\ PoolCount /\ [Next]_vars
    => PoolCount'
<1> SUFFICES ASSUME Garbage = {NULL}, TypeInv, SigControl, PoolCount, [Next]_vars
             PROVE  PoolCount'
  OBVIOUS
<1>0. /\ Len(rx_free) \in Nat /\ Len(rx_empty_list) \in Nat /\ Len(rx_filled_list) \in Nat
      /\ reads \in Nat /\ arrivals \in Nat /\ rx_pkt_size \in Nat
      /\ Filling \in 0..1 /\ Due \in 0..1
  BY PoolTypes
<1>1. ASSUME UNCHANGED <<rx_free, rx_empty_list, rx_filled_list, rxp, reads, arrivals,
                         from_empty, rx_flag>>,
             pc[server] = "recv" <=> pc'[server] = "recv"
      PROVE  PoolCount'
  <2>1. UNCHANGED <<Filling, Due>>
    BY <1>1, PoolTypes DEF Filling, Due
  <2> QED  BY <1>0, <1>1, <2>1 DEF PoolCount
<1>2. ASSUME NEW t \in Tasks, Write(t) \/ ReadNone(t) \/ Obtain(t) \/ SendQueue(t)
                               \/ SendNew(t) \/ ReadFail(t)
      PROVE  PoolCount'
  <2>1. UNCHANGED <<Receiving, rxVars, rx_flag, arrivals>>
    <3>1. UNCHANGED rxVars
      BY <1>2, PoolTypes DEF Write, ReadNone, Obtain, SendQueue, SendNew, ReadFail, ObtainTx, WriteQueue,
                  QueueNext, QueueEmpty, QueueSendOk, QueueSendFail, WriteSendOk,
                  WriteSendFail
    <3> QED  BY <1>2, <3>1, CallsLeaveSignals DEF Call, Reading
  <2>2. RxControl'
    BY <1>2, TypeInvNext, PoolTypes DEF TypeInv, Next, Call, Reading
  <2> QED  BY <1>1, <2>1, <2>2, PoolTypes DEF rxVars, RxControl
<1>3. ASSUME NEW t \in Tasks, ReadFilled(t) PROVE PoolCount'
  <2> DEFINE p == Head(rx_filled_list)
  <2>1. /\ rx_filled_list # <<>> /\ rx_filled_list' = Tail(rx_filled_list)
        /\ rx_free' = Append(rx_free, p) /\ reads' = reads + 1
        /\ UNCHANGED <<rx_empty_list, rxp, from_empty, rx_flag, arrivals, pc>>
    BY <1>3, PoolTypes DEF ReadFilled, DoneRx, Release, AddTail, sigVars
  <2>2. /\ Len(rx_filled_list') = Len(rx_filled_list) - 1
        /\ Len(rx_free') = Len(rx_free) + 1
    BY <2>1, ListLengths, PoolTypes
  <2>3. UNCHANGED <<Filling, Due>>
    BY <2>1, PoolTypes DEF Filling, Due
  <2>4. UNCHANGED <<rx_empty_list, arrivals>> /\ reads' = reads + 1
    BY <2>1
  <2> QED  BY <1>0, <2>2, <2>3, <2>4 DEF PoolCount
<1>4. ASSUME NEW t \in Tasks, ReadQueue(t) PROVE PoolCount'
  <2> DEFINE p == Head(rx_free)
  <2>1. /\ rx_free # <<>> /\ rx_free' = Tail(rx_free)
        /\ rx_empty_list' = Append(rx_empty_list, p) /\ reads' = reads + 1
        /\ UNCHANGED <<rx_filled_list, rxp, from_empty, rx_flag, arrivals>>
        /\ pc[t] = "read_queue" /\ pc' = [pc EXCEPT ![t] = "idle"]
    BY <1>4, PoolTypes DEF ReadQueue, AllocRx, AddTail, sigVars
  <2>2. /\ Len(rx_empty_list') = Len(rx_empty_list) + 1
        /\ Len(rx_free') = Len(rx_free) - 1
    BY <2>1, ListLengths, PoolTypes
  <2>3. UNCHANGED <<Filling, Due>>
    BY <2>1, PoolTypes DEF Filling, Due
  <2>4. UNCHANGED <<rx_filled_list, arrivals>> /\ reads' = reads + 1
    BY <2>1
  <2> QED  BY <1>0, <2>2, <2>3, <2>4 DEF PoolCount
<1>5. ASSUME Interrupt PROVE PoolCount'
  <2>1. /\ ~rx_flag /\ rx_flag' = TRUE /\ arrivals' = arrivals + 1
        /\ UNCHANGED <<rx_free, rx_empty_list, rx_filled_list, rxp, from_empty, reads, pc>>
    BY <1>5, PoolTypes DEF Interrupt, rxVars
  <2>2. UNCHANGED Filling /\ Due = 0 /\ Due' \in 0..1
    BY <2>1, PoolTypes DEF Filling, Due
  <2>3. /\ UNCHANGED <<rx_free, rx_empty_list, rx_filled_list, reads>>
        /\ arrivals' = arrivals + 1
    BY <2>1
  <2> QED  BY <1>0, <2>2, <2>3 DEF PoolCount
<1>6. ASSUME Tick \/ HandleSig \/ RxUnprepared \/ RxExhausted \/ TickStart PROVE PoolCount'
  <2>1. /\ UNCHANGED <<rx_free, rx_empty_list, rx_filled_list, reads, arrivals, rx_flag>>
        /\ UNCHANGED rxp /\ (pc[server] = "recv" <=> pc'[server] = "recv")
        /\ pc[server] = "recv" => UNCHANGED from_empty
    <3>1. CASE Tick
      BY <3>1, PoolTypes DEF Tick, rxVars
    <3>2. CASE HandleSig
      BY <3>2, PoolTypes DEF HandleSig, rxVars
    <3>3. CASE RxUnprepared
      BY <3>3, PoolTypes DEF RxUnprepared, sigVars
    <3>4. CASE RxExhausted \/ TickStart
      BY <3>4, PoolTypes DEF RxExhausted, TickStart, rxVars
    <3> QED  BY <1>6, <3>1, <3>2, <3>3, <3>4
  <2>2. UNCHANGED <<Filling, Due>>
    BY <2>1, PoolTypes DEF Filling, Due
  <2> QED  BY <1>0, <2>1, <2>2 DEF PoolCount
<1>7. ASSUME RxPrepared PROVE PoolCount'
  <2>1. /\ rx_empty_list # <<>> /\ rx_empty_list' = Tail(rx_empty_list)
        /\ rxp' = Head(rx_empty_list) /\ from_empty' = TRUE
        /\ pc[server] = "rx"
        /\ UNCHANGED <<rx_free, rx_filled_list, reads, arrivals, rx_flag>>
    BY <1>7, PoolTypes DEF RxPrepared, FromRead, sigVars
  <2>2. Len(rx_empty_list') = Len(rx_empty_list) - 1 /\ rxp' # NULL
    BY <2>1, ListLengths, PacketFacts, PoolTypes
  <2>3. Filling = 0 /\ Filling' = 1 /\ UNCHANGED Due
    BY <2>1, <2>2, PoolTypes DEF Filling, Due
  <2>4. UNCHANGED <<rx_free, rx_filled_list, reads, arrivals>>
    BY <2>1
  <2> QED  BY <1>0, <2>2, <2>3, <2>4 DEF PoolCount
<1>8. ASSUME RxAlloc PROVE PoolCount'
  <2>1. /\ rx_free # <<>> /\ rx_free' = Tail(rx_free)
        /\ rxp' = Head(rx_free) /\ pc[server] = "rx_alloc"
        /\ pc' = [pc EXCEPT ![server] = "recv"]
        /\ UNCHANGED <<rx_empty_list, rx_filled_list, reads, arrivals, rx_flag, from_empty>>
    BY <1>8, PoolTypes DEF RxAlloc, AllocRx, sigVars
  <2>2. Len(rx_free') = Len(rx_free) - 1 /\ rxp' # NULL
    BY <2>1, ListLengths, PacketFacts, PoolTypes
  <2>3. Filling = 0 /\ Filling' = 1
    BY <2>1, <2>2, PoolTypes DEF Filling
  <2>4. Due = 1 /\ Due' = 0
    BY <2>1, PoolTypes DEF Due, SigControl, Receiving
  <2>5. UNCHANGED <<rx_empty_list, rx_filled_list, reads, arrivals>>
    BY <2>1
  <2> QED  BY <1>0, <2>2, <2>3, <2>4, <2>5 DEF PoolCount
<1>9. ASSUME Recv PROVE PoolCount'
  <2>1. /\ pc[server] = "recv" /\ rxp' = NULL /\ rx_flag' = FALSE
        /\ UNCHANGED <<rx_empty_list, reads, arrivals>>
    BY <1>9, PoolTypes DEF Recv
  <2>2. /\ Len(Append(rx_free, rxp)) = Len(rx_free) + 1
        /\ Len(Append(rx_filled_list, rxp)) = Len(rx_filled_list) + 1
    BY <2>1, ListLengths, PoolTypes
  <2>3. Filling = 1 /\ Filling' = 0 /\ Due' = 0
    BY <2>1, PoolTypes DEF Filling, Due
  <2>4. \/ /\ Due = 1 /\ UNCHANGED rx_filled_list
           /\ rx_free' = Append(rx_free, rxp)
        \/ /\ rx_filled_list' = Append(rx_filled_list, rxp)
           /\ UNCHANGED rx_free
    <3>1. from_empty => Due = 1
      BY <2>1, PoolTypes DEF Due, SigControl, Receiving
    <3> QED  BY <1>9, <3>1 DEF Recv, DoneRx, Release, AddTail
  <2>5. \/ /\ Due = 1 /\ Len(rx_free') = Len(rx_free) + 1
           /\ Len(rx_filled_list') = Len(rx_filled_list)
        \/ /\ Len(rx_filled_list') = Len(rx_filled_list) + 1
           /\ Len(rx_free') = Len(rx_free)
    BY <2>2, <2>4, PoolTypes
  <2>6. UNCHANGED <<rx_empty_list, reads, arrivals>>
    BY <2>1, PoolTypes
  <2>7. CASE Due = 1 /\ Len(rx_free') = Len(rx_free) + 1
                      /\ Len(rx_filled_list') = Len(rx_filled_list)
    BY <1>0, <2>3, <2>6, <2>7 DEF PoolCount
  <2>8. CASE Len(rx_filled_list') = Len(rx_filled_list) + 1 /\ Len(rx_free') = Len(rx_free)
    BY <1>0, <2>3, <2>6, <2>8 DEF PoolCount
  <2> QED  BY <2>5, <2>7, <2>8
<1>10. CASE UNCHANGED vars
  BY <1>1, <1>10, PoolTypes DEF vars, rxVars, sigVars
<1> QED  BY <1>2, <1>3, <1>4, <1>5, <1>6, <1>7, <1>8, <1>9, <1>10
         DEF Next, Call, Reading, Serve

\* With an rx packet for every read and every announced packet, the pool is
\* never exhausted, and so the tick is never lost: the peer and the readers
\* together can stop the retries only by using up the pool.
THEOREM TickLivesInPool ==
    Garbage = {NULL} /\ MaxReads + MaxArrivals <= rx_pkt_size => (Spec => []TickAlive)
<1> SUFFICES ASSUME Garbage = {NULL}, MaxReads + MaxArrivals <= rx_pkt_size
             PROVE  Spec => []TickAlive
  OBVIOUS
<1>1. Init => PoolCount
  <2> SUFFICES ASSUME Init PROVE PoolCount
    OBVIOUS
  <2>1. /\ Len(rx_free) = rx_pkt_size /\ rx_empty_list = <<>> /\ rx_filled_list = <<>>
        /\ rxp = NULL /\ rx_flag = FALSE /\ reads = 0 /\ arrivals = 0
    BY SizeAssumption DEF Init, PoolsInit
  <2>2. Filling = 0 /\ Due = 0
    BY <2>1 DEF Filling, Due
  <2>3. pc[server] # "rx_alloc"
    BY TasksAssumption DEF Init
  <2> QED  BY <2>1, <2>2, <2>3, SizeAssumption DEF PoolCount
<1>2. TypeInv /\ SigControl /\ PoolCount /\ [Next]_vars => PoolCount'
  BY PoolCountNext
<1>3. TypeInv /\ SigControl /\ PoolCount => ~RxExhausted
  <2> SUFFICES ASSUME TypeInv, SigControl, PoolCount, RxExhausted PROVE FALSE
    OBVIOUS
  <2>1. pc[server] = "rx_alloc" /\ Len(rx_free) = 0 /\ rxp = NULL /\ rx_flag
    BY PoolTypes DEF RxExhausted, SigControl, Receiving
  <2>2. Filling = 0 /\ Due = 1
    BY <2>1 DEF Filling, Due
  <2>3. reads <= MaxReads /\ arrivals <= MaxArrivals
    BY NumberFacts DEF TypeInv, TypeOK
  <2> QED  BY <2>1, <2>2, <2>3, PoolTypes, NumberFacts DEF PoolCount
<1> QED  BY <1>1, <1>2, <1>3, SigInvariant, TickLives, PTL DEF Spec

-----------------------------------------------------------------------------
(* The order of the packets read, with one task.                           *)

Coming == IF rx_flag THEN 1 ELSE 0

\* The packets read and then the packets waiting are numbered without a gap.
RxNumbered ==
    /\ \A i \in DOMAIN rx_log : rx_log[i].data = i
    /\ \A i \in DOMAIN rx_filled_list :
          p_Buffer[rx_filled_list[i]].data = Len(rx_log) + i
    /\ Len(rx_log) + Len(rx_filled_list) + Coming = arrivals

\* The two lists are never both in use, and the server knows which one is not.
RxSides ==
    /\ rx_empty_list = <<>> \/ rx_filled_list = <<>>
    /\ pc[server] = "read_queue" => rx_filled_list = <<>>
    /\ pc[server] = "rx_alloc" => rx_empty_list = <<>>
    /\ pc[server] = "recv" /\ from_empty => rx_filled_list = <<>>
    /\ pc[server] = "recv" /\ ~from_empty => rx_empty_list = <<>>

\* A packet for a read is added to rx_log.
LEMMA RxLogged ==
    ASSUME rx_log \in Seq([func : Nat, data : Nat, result : Results]), NEW e,
           rx_log' = Append(rx_log, e)
    PROVE  /\ DOMAIN rx_log' = DOMAIN rx_log \cup {Len(rx_log) + 1}
           /\ \A i \in DOMAIN rx_log : rx_log'[i] = rx_log[i]
           /\ rx_log'[Len(rx_log) + 1] = e /\ Len(rx_log') = Len(rx_log) + 1
           /\ DOMAIN rx_log = 1..Len(rx_log) /\ Len(rx_log) \in Nat
<1> DEFINE Log == [func : Nat, data : Nat, result : Results]
<1>1. rx_log \in Seq(Log)
  OBVIOUS
<1> HIDE DEF Log
<1>2. /\ DOMAIN Append(rx_log, e) = DOMAIN rx_log \cup {Len(rx_log) + 1}
      /\ \A i \in DOMAIN rx_log : Append(rx_log, e)[i] = rx_log[i]
      /\ Append(rx_log, e)[Len(rx_log) + 1] = e
      /\ Len(Append(rx_log, e)) = Len(rx_log) + 1
  BY <1>1, AppendFacts
<1>3. DOMAIN rx_log = 1..Len(rx_log) /\ Len(rx_log) \in Nat
  BY <1>1
<1> QED  BY <1>2, <1>3

\* par_recv leaves the announced packet in the buffer.
LEMMA ReceivedData ==
    ASSUME NEW old \in Buffers, NEW d
    PROVE  \A new \in Received(old, d) : new.data = d
<1> DEFINE Filled(size, result) == [old EXCEPT !.size = size, !.data = d, !.result = result]
<1>1. \A size, result : Filled(size, result).data = d
  BY DEF Buffers
<1>2. Received(old, d) = {Filled(size, result) : size \in 1..old.cap,
                                                 result \in {"OK", "TIMEOUT"}}
  BY DEF Received
<1> HIDE DEF Filled
<1> QED  BY <1>1, <1>2

LEMMA RxSidesNext ==
    /\ Tasks = {server} /\ Garbage = {NULL} /\ TypeInv /\ SigControl /\ RxSides
    /\ [Next]_vars
    => RxSides'
<1> SUFFICES ASSUME Tasks = {server}, Garbage = {NULL}, TypeInv, SigControl, RxSides,
                    [Next]_vars
             PROVE  RxSides'
  OBVIOUS
<1>1. /\ pc \in [{server} -> Locations]
      /\ rx_empty_list \in Seq(RxPackets) /\ rx_filled_list \in Seq(RxPackets)
  BY DEF TypeInv, TypeOK
<1>2. ASSUME UNCHANGED <<rx_empty_list, rx_filled_list>>,
             pc'[server] \notin {"read_queue", "rx_alloc", "recv"}
      PROVE  RxSides'
  BY <1>2 DEF RxSides
<1>3. ASSUME Write(server) \/ Obtain(server) \/ SendQueue(server) \/ SendNew(server)
             \/ ReadFail(server)
      PROVE  RxSides'
  <2>1. UNCHANGED <<rx_empty_list, rx_filled_list>>
    BY <1>3 DEF Write, Obtain, SendQueue, SendNew, ReadFail, ObtainTx, WriteQueue,
                QueueNext, QueueEmpty, QueueSendOk, QueueSendFail, WriteSendOk,
                WriteSendFail, rxVars
  <2>2. \A ok \in BOOLEAN : After(server, ok) \in {"tick", "write_send", "write_queue"}
    BY DEF After
  <2>3. pc'[server] \notin {"read_queue", "rx_alloc", "recv"}
    BY <1>1, <1>3, <2>2 DEF Write, Obtain, SendQueue, SendNew, ReadFail, ObtainTx,
                WriteQueue, QueueNext, QueueEmpty, QueueSendOk, QueueSendFail, WriteSendOk,
                WriteSendFail
  <2> QED  BY <1>2, <2>1, <2>3
<1>4. ASSUME ReadFilled(server) PROVE RxSides'
  <2>1. /\ rx_filled_list # <<>> /\ UNCHANGED <<rx_empty_list, pc>>
        /\ pc[server] = "idle"
    BY <1>4 DEF ReadFilled
  <2> QED  BY <2>1 DEF RxSides
<1>5. ASSUME ReadNone(server) PROVE RxSides'
  BY <1>1, <1>5 DEF ReadNone, rxVars, RxSides
<1>6. ASSUME ReadQueue(server) PROVE RxSides'
  BY <1>1, <1>6 DEF ReadQueue, RxSides
<1>7. ASSUME Interrupt \/ Tick PROVE RxSides'
  BY <1>7 DEF Interrupt, Tick, rxVars, RxSides
<1>8. ASSUME HandleSig \/ RxExhausted \/ TickStart PROVE RxSides'
  BY <1>1, <1>2, <1>8 DEF HandleSig, RxExhausted, TickStart, rxVars
<1>9. ASSUME RxPrepared PROVE RxSides'
  <2>1. /\ rx_empty_list # <<>> /\ UNCHANGED rx_filled_list /\ from_empty'
        /\ pc'[server] = "recv"
    BY <1>1, <1>9 DEF RxPrepared, FromRead
  <2> QED  BY <2>1 DEF RxSides
<1>10. ASSUME RxUnprepared PROVE RxSides'
  BY <1>1, <1>10 DEF RxUnprepared, RxSides
<1>11. ASSUME RxAlloc PROVE RxSides'
  <2>1. /\ pc[server] = "rx_alloc" /\ pc'[server] = "recv"
        /\ UNCHANGED <<rx_empty_list, rx_filled_list, from_empty>>
    BY <1>1, <1>11 DEF RxAlloc
  <2>2. rx_empty_list = <<>> /\ ~from_empty
    BY <2>1 DEF RxSides, SigControl
  <2> QED  BY <2>1, <2>2 DEF RxSides
<1>12. ASSUME Recv PROVE RxSides'
  <2>1. /\ pc[server] = "recv" /\ pc'[server] \in {"flush", "idle"}
        /\ UNCHANGED rx_empty_list /\ (from_empty => UNCHANGED rx_filled_list)
    BY <1>1, <1>12 DEF Recv
  <2> QED  BY <2>1 DEF RxSides
<1>13. CASE UNCHANGED vars
  BY <1>13 DEF vars, rxVars, RxSides
<1> QED  BY <1>3, <1>4, <1>5, <1>6, <1>7, <1>8, <1>9, <1>10, <1>11, <1>12, <1>13
         DEF Next, Call, Reading, Serve

LEMMA RxNumberedNext ==
    /\ Tasks = {server} /\ Garbage = {NULL} /\ TypeInv /\ RxInv /\ SigControl
    /\ RxSides /\ RxNumbered /\ [Next]_vars
    => RxNumbered'
<1> SUFFICES ASSUME Tasks = {server}, Garbage = {NULL}, TypeInv, RxInv, SigControl,
                    RxSides, RxNumbered, [Next]_vars
             PROVE  RxNumbered'
  OBVIOUS
<1>1. /\ pc \in [{server} -> Locations]
      /\ rx_filled_list \in Seq(RxPackets) /\ rx_free \in Seq(RxPackets)
      /\ rx_log \in Seq([func : Nat, data : Nat, result : Results])
      /\ p_Buffer \in [RxPackets -> Buffers] /\ arrivals \in Nat
      /\ rxp \in RxPackets \cup {NULL} /\ Coming \in 0..1
      /\ p_DoneFunc \in [TxPackets \cup RxPackets -> Nat]
  BY NumberFacts DEF TypeInv, TypeOK, Buffers, Coming
<1>2. ASSUME UNCHANGED <<rx_log, rx_filled_list, arrivals, rx_flag>>,
             \A i \in DOMAIN rx_filled_list :
                p_Buffer'[rx_filled_list[i]].data = p_Buffer[rx_filled_list[i]].data
      PROVE  RxNumbered'
  BY <1>2 DEF RxNumbered, Coming
\* Preparing a free packet leaves the contents of the filled ones alone.
<1>3. ASSUME rx_free # <<>>, NEW size,
             p_Buffer' = [p_Buffer EXCEPT ![Head(rx_free)].cap = size],
             UNCHANGED <<rx_log, rx_filled_list, arrivals, rx_flag>>
      PROVE  RxNumbered'
  <2>1. Head(rx_free) \in ToSet(rx_free)
    BY <1>3, RemHeadList DEF RxInv, RxTypeOK, RxConservation
  <2>2. ASSUME NEW i \in DOMAIN rx_filled_list
        PROVE  p_Buffer'[rx_filled_list[i]] = p_Buffer[rx_filled_list[i]]
    <3>1. rx_filled_list[i] \in ToSet(rx_filled_list) /\ rx_filled_list[i] \in RxPackets
      BY <1>1 DEF ToSet
    <3>2. rx_filled_list[i] # Head(rx_free)
      BY <2>1, <3>1 DEF RxInv, RxConservation
    <3> QED  BY <1>1, <1>3, <3>1, <3>2
  <2> QED  BY <1>2, <1>3, <2>2
<1>4. ASSUME Write(server) \/ Obtain(server) \/ SendQueue(server) \/ SendNew(server)
             \/ ReadNone(server) \/ ReadFail(server)
      PROVE  RxNumbered'
  BY <1>2, <1>4 DEF Write, Obtain, SendQueue, SendNew, ReadNone, ReadFail, ObtainTx,
     WriteQueue, QueueNext, QueueEmpty, QueueSendOk, QueueSendFail, WriteSendOk,
     WriteSendFail, rxVars, sigVars
<1>5. ASSUME ReadFilled(server) PROVE RxNumbered'
  <2> DEFINE p == Head(rx_filled_list)
  <2>1. PICK b : /\ b.data = p_Buffer[p].data
                 /\ p_Buffer' = [p_Buffer EXCEPT ![p] = b]
                 /\ rx_log' = Append(rx_log, [func |-> p_DoneFunc[p], data |-> b.data,
                                              result |-> b.result])
    <3>1. p \in RxPackets /\ p_Buffer[p] \in Buffers
      BY <1>1, <1>5 DEF ReadFilled
    <3>2. PICK size \in Sizes :
             LET c == IF p_Buffer[p].size > size
                      THEN [p_Buffer[p] EXCEPT !.result = "BUFFER_TOO_SMALL"]
                      ELSE p_Buffer[p]
             IN p_Buffer' = [p_Buffer EXCEPT ![p] = c] /\ DoneRx(p, c)
      BY <1>5 DEF ReadFilled
    <3> DEFINE c == IF p_Buffer[p].size > size
                    THEN [p_Buffer[p] EXCEPT !.result = "BUFFER_TOO_SMALL"]
                    ELSE p_Buffer[p]
    <3>3. c.data = p_Buffer[p].data
      BY <3>1 DEF Buffers
    <3>4. p_Buffer' = [p_Buffer EXCEPT ![p] = c] /\ DoneRx(p, c)
      BY <3>2
    <3> HIDE DEF c
    <3> QED  BY <3>3, <3>4 DEF DoneRx
  <2>2. /\ rx_filled_list # <<>> /\ rx_filled_list' = Tail(rx_filled_list)
        /\ UNCHANGED <<rx_flag, arrivals>>
    BY <1>5 DEF ReadFilled, sigVars
  <2>3. /\ Len(rx_filled_list') = Len(rx_filled_list) - 1
        /\ p = rx_filled_list[1] /\ 1 \in DOMAIN rx_filled_list
        /\ \A i \in DOMAIN rx_filled_list' :
              i + 1 \in DOMAIN rx_filled_list /\ rx_filled_list'[i] = rx_filled_list[i + 1]
    BY <1>1, <2>2
  <2>4. /\ DOMAIN rx_log' = DOMAIN rx_log \cup {Len(rx_log) + 1}
        /\ \A i \in DOMAIN rx_log : rx_log'[i] = rx_log[i]
        /\ rx_log'[Len(rx_log) + 1].data = b.data /\ Len(rx_log') = Len(rx_log) + 1
    <3> DEFINE e == [func |-> p_DoneFunc[p], data |-> b.data, result |-> b.result]
    <3>1. rx_log' = Append(rx_log, e) /\ e.data = b.data
      BY <2>1
    <3> HIDE DEF e
    <3> QED  BY <1>1, <3>1, RxLogged
  <2>5. b.data = Len(rx_log) + 1
    BY <2>1, <2>3 DEF RxNumbered
  <2>6. ASSUME NEW i \in DOMAIN rx_filled_list'
        PROVE  p_Buffer'[rx_filled_list'[i]].data = Len(rx_log') + i
    <3>1. /\ i + 1 \in DOMAIN rx_filled_list /\ i + 1 # 1 /\ i \in Nat
          /\ rx_filled_list'[i] = rx_filled_list[i + 1]
      BY <1>1, <2>2, <2>3
    <3>2. rx_filled_list[i + 1] # p /\ rx_filled_list[i + 1] \in RxPackets
      <4>1. rx_filled_list[i + 1] # rx_filled_list[1]
        BY <2>3, <3>1 DEF RxInv, RxConservation, IsInjective
      <4> QED  BY <1>1, <2>3, <3>1, <4>1
    <3>3. p_Buffer'[rx_filled_list'[i]].data = Len(rx_log) + (i + 1)
      BY <1>1, <2>1, <3>1, <3>2 DEF RxNumbered
    <3> QED  BY <1>1, <2>4, <3>1, <3>3
  <2>7. \A i \in DOMAIN rx_log' : rx_log'[i].data = i
    BY <2>4, <2>5 DEF RxNumbered
  <2>8. Len(rx_log') + Len(rx_filled_list') + Coming' = arrivals'
    <3>1. Len(rx_log) \in Nat /\ Len(rx_filled_list) \in Nat
          /\ Coming' = Coming /\ Coming \in 0..1
      BY <1>1, <2>2 DEF Coming
    <3>2. Len(rx_log) + Len(rx_filled_list) + Coming = arrivals /\ arrivals' = arrivals
      BY <2>2 DEF RxNumbered
    <3>3. Len(rx_filled_list') = Len(rx_filled_list) - 1 /\ Len(rx_log') = Len(rx_log) + 1
      BY <2>3, <2>4
    <3> QED  BY <3>1, <3>2, <3>3
  <2> QED  BY <2>6, <2>7, <2>8 DEF RxNumbered
<1>6. ASSUME ReadQueue(server) PROVE RxNumbered'
  BY <1>3, <1>6 DEF ReadQueue, AllocRx, sigVars
<1>7. ASSUME RxAlloc PROVE RxNumbered'
  BY <1>3, <1>7 DEF RxAlloc, AllocRx, sigVars
<1>8. ASSUME Interrupt PROVE RxNumbered'
  <2>1. /\ ~rx_flag /\ rx_flag' /\ arrivals' = arrivals + 1
        /\ UNCHANGED <<rx_log, rx_filled_list, p_Buffer>>
    BY <1>8 DEF Interrupt, rxVars
  <2>2. Coming = 0 /\ Coming' = 1
    BY <2>1 DEF Coming
  <2> QED  BY <1>1, <2>1, <2>2 DEF RxNumbered
<1>9. ASSUME Tick \/ HandleSig \/ RxPrepared \/ RxUnprepared \/ RxExhausted \/ TickStart
      PROVE  RxNumbered'
  BY <1>2, <1>9 DEF Tick, HandleSig, RxPrepared, RxUnprepared, RxExhausted, TickStart,
                    rxVars, sigVars
<1>10. ASSUME Recv PROVE RxNumbered'
  <2>1. PICK b \in Received(p_Buffer[rxp], arrivals) :
           /\ p_Buffer' = [p_Buffer EXCEPT ![rxp] = b]
           /\ \/ /\ from_empty
                 /\ DoneRx(rxp, b)
                 /\ UNCHANGED rx_filled_list
              \/ /\ ~from_empty
                 /\ rx_filled_list' = AddTail(rx_filled_list, rxp)
                 /\ UNCHANGED <<rx_free, rx_log>>
    BY <1>10 DEF Recv
  <2>2. pc[server] = "recv" /\ ~rx_flag' /\ UNCHANGED arrivals
    BY <1>10 DEF Recv
  <2>3. rxp \in RxPackets /\ rx_flag
    BY <1>1, <2>2 DEF RxInv, RxControl, SigControl, Receiving
  <2>4. b.data = arrivals
    <3>1. p_Buffer[rxp] \in Buffers
      BY <1>1, <2>3
    <3> QED  BY <2>1, <3>1, ReceivedData
  <2>5. Coming = 1 /\ Coming' = 0
    BY <2>2, <2>3 DEF Coming
  <2>6. Len(rx_log) + Len(rx_filled_list) + 1 = arrivals
    BY <2>5 DEF RxNumbered
  <2>7. CASE from_empty
    <3>1. rx_filled_list = <<>> /\ UNCHANGED rx_filled_list
      BY <2>1, <2>2, <2>7 DEF RxSides
    <3>2. Len(rx_filled_list) = 0 /\ DOMAIN rx_filled_list' = {}
      BY <3>1
    <3>3. rx_log' = Append(rx_log, [func |-> p_DoneFunc[rxp], data |-> b.data,
                                    result |-> b.result])
      BY <2>1, <2>7 DEF DoneRx
    <3> DEFINE e == [func |-> p_DoneFunc[rxp], data |-> b.data, result |-> b.result]
    <3>4. /\ DOMAIN rx_log' = DOMAIN rx_log \cup {Len(rx_log) + 1}
          /\ \A i \in DOMAIN rx_log : rx_log'[i] = rx_log[i]
          /\ rx_log'[Len(rx_log) + 1].data = b.data /\ Len(rx_log') = Len(rx_log) + 1
      <4>1. rx_log' = Append(rx_log, e) /\ e.data = b.data
        BY <3>3
      <4> HIDE DEF e
      <4> QED  BY <1>1, <4>1, RxLogged
    <3>5. b.data = Len(rx_log) + 1
      BY <1>1, <2>4, <2>6, <3>2
    <3>6. \A i \in DOMAIN rx_log' : rx_log'[i].data = i
      BY <3>4, <3>5 DEF RxNumbered
    <3>7. Len(rx_log') + Len(rx_filled_list') + Coming' = arrivals'
      BY <1>1, <2>2, <2>5, <2>6, <3>1, <3>4
    <3> QED  BY <3>2, <3>6, <3>7 DEF RxNumbered
  <2>8. CASE ~from_empty
    <3>1. rx_filled_list' = Append(rx_filled_list, rxp) /\ UNCHANGED rx_log
      BY <2>1, <2>8 DEF AddTail
    <3>2. /\ DOMAIN rx_filled_list' = DOMAIN rx_filled_list \cup {Len(rx_filled_list) + 1}
          /\ \A i \in DOMAIN rx_filled_list :
                rx_filled_list'[i] = rx_filled_list[i] /\ rx_filled_list[i] \in RxPackets
          /\ rx_filled_list'[Len(rx_filled_list) + 1] = rxp
          /\ Len(rx_filled_list') = Len(rx_filled_list) + 1
      BY <1>1, <2>3, <3>1
    <3>3. \A i \in DOMAIN rx_filled_list : rx_filled_list[i] # rxp
      BY DEF RxInv, RxConservation, ToSet
    <3>4. /\ p_Buffer'[rxp].data = arrivals
          /\ \A i \in DOMAIN rx_filled_list :
                p_Buffer'[rx_filled_list[i]] = p_Buffer[rx_filled_list[i]]
      BY <1>1, <2>1, <2>3, <2>4, <3>2, <3>3
    <3>5. arrivals = Len(rx_log) + (Len(rx_filled_list) + 1)
      BY <1>1, <2>6
    <3>6. \A i \in DOMAIN rx_filled_list' :
             p_Buffer'[rx_filled_list'[i]].data = Len(rx_log') + i
      BY <3>1, <3>2, <3>4, <3>5 DEF RxNumbered
    <3>7. Len(rx_log') + Len(rx_filled_list') + Coming' = arrivals'
      BY <1>1, <2>2, <2>5, <2>6, <3>1, <3>2
    <3> QED  BY <3>1, <3>6, <3>7 DEF RxNumbered
  <2> QED  BY <2>7, <2>8
<1>11. CASE UNCHANGED vars
  BY <1>2, <1>11 DEF vars, rxVars, sigVars
<1> QED  BY <1>4, <1>5, <1>6, <1>7, <1>8, <1>9, <1>10, <1>11
         DEF Next, Call, Reading, Serve

LEMMA RxOrderInvariant ==
    Tasks = {server} /\ Garbage = {NULL} => (Spec => [](TypeInv /\ RxSides /\ RxNumbered))
<1> SUFFICES ASSUME Tasks = {server}, Garbage = {NULL}
             PROVE  Spec => [](TypeInv /\ RxSides /\ RxNumbered)
  OBVIOUS
<1>1. Init => RxSides /\ RxNumbered
  <2> SUFFICES ASSUME Init PROVE RxSides /\ RxNumbered
    OBVIOUS
  <2>1. /\ rx_log = <<>> /\ rx_filled_list = <<>> /\ rx_empty_list = <<>>
        /\ ~rx_flag /\ arrivals = 0 /\ pc[server] = "idle"
    BY TasksAssumption DEF Init
  <2> QED  BY <2>1 DEF RxSides, RxNumbered, Coming
<1>2. Init => RxInv
  BY RxInit
<1>3. RxInv /\ [Next]_vars => RxInv'
  BY RxNext
<1>4. TypeInv /\ SigControl /\ RxSides /\ [Next]_vars => RxSides'
  BY RxSidesNext
<1>5. TypeInv /\ RxInv /\ SigControl /\ RxSides /\ RxNumbered /\ [Next]_vars => RxNumbered'
  BY RxNumberedNext
<1> QED  BY <1>1, <1>2, <1>3, <1>4, <1>5, SigInvariant, PTL DEF Spec

\* With one task that reads and receives, what par_recv left in a packet
\* reaches one read, in the order of arrival, whatever the sizes of the pools
\* and of the buffers and however the calls and the interrupts interleave.
THEOREM RxOrdered == Tasks = {server} /\ Garbage = {NULL} => (Spec => []RxInOrder)
<1> SUFFICES ASSUME Tasks = {server}, Garbage = {NULL} PROVE Spec => []RxInOrder
  OBVIOUS
<1>1. TypeInv /\ RxNumbered => RxInOrder
  <2> SUFFICES ASSUME TypeInv, RxNumbered PROVE RxInOrder
    OBVIOUS
  <2> DEFINE read == [i \in DOMAIN rx_log |-> rx_log[i].data]
             waiting == [i \in DOMAIN rx_filled_list |-> p_Buffer[rx_filled_list[i]].data]
             data == read \o waiting
  <2>1. /\ rx_filled_list \in Seq(RxPackets)
        /\ rx_log \in Seq([func : Nat, data : Nat, result : Results])
        /\ arrivals \in Nat
    BY NumberFacts DEF TypeInv, TypeOK
  <2>2. DOMAIN rx_log = 1..Len(rx_log) /\ DOMAIN rx_filled_list = 1..Len(rx_filled_list)
    BY <2>1
  <2>3. /\ read = [i \in 1..Len(rx_log) |-> i]
        /\ waiting = [i \in 1..Len(rx_filled_list) |-> Len(rx_log) + i]
    BY <2>2 DEF RxNumbered
  <2>4. /\ Len(rx_log) \in Nat /\ Len(rx_filled_list) \in Nat
        /\ read \in Seq(Nat) /\ Len(read) = Len(rx_log)
        /\ waiting \in Seq(Nat) /\ Len(waiting) = Len(rx_filled_list)
    BY <2>1, <2>3
  <2>5. /\ Len(data) = Len(rx_log) + Len(rx_filled_list)
        /\ data = [i \in 1..Len(data) |-> i]
    <3> HIDE DEF read, waiting
    <3>1. /\ data \in Seq(Nat) /\ Len(data) = Len(rx_log) + Len(rx_filled_list)
      BY <2>4
    <3>2. \A i \in 1..Len(data) : data[i] = i
      BY <2>3, <2>4
    <3> HIDE DEF data
    <3> QED  BY <3>1, <3>2
  <2>6. Len(data) + Coming = arrivals
    BY <2>5 DEF RxNumbered
  <2>7. RxInOrder <=> /\ data = [i \in 1..Len(data) |-> i]
                      /\ Len(data) + Coming = arrivals
    BY Zenon DEF RxInOrder, Coming
  <2> QED  BY <2>5, <2>6, <2>7
<1> QED  BY <1>1, RxOrderInvariant, PTL

\* With one task, no read waits beside the packet it waits for: parblk_read
\* queues a read only when no packet is there, and parblk_handle_sig keeps a
\* packet only when no read is.
THEOREM ReadsWaitOnlyIfNone ==
    Tasks = {server} /\ Garbage = {NULL} => (Spec => []ReadWaitsOnlyIfNone)
<1> SUFFICES ASSUME Tasks = {server}, Garbage = {NULL}
             PROVE  Spec => []ReadWaitsOnlyIfNone
  OBVIOUS
<1>1. RxSides => ReadWaitsOnlyIfNone
  BY DEF RxSides, ReadWaitsOnlyIfNone
<1> QED  BY <1>1, RxOrderInvariant, PTL

-----------------------------------------------------------------------------
(* The reads, with any number of tasks.                                    *)

\* The packet being filled belongs to a read.
FillingRead == rxp # NULL /\ from_empty

\* Reads are numbered in the order in which they were accepted: those called
\* back, the one whose packet is being filled and those that wait follow each
\* other, and a packet that belongs to no read has no done function.
ReadNumbers ==
    /\ \A i \in DOMAIN rx_log : rx_log[i].func \in 0..reads
    /\ \A i, j \in DOMAIN rx_log :
          i < j /\ rx_log[j].func # NULL => rx_log[i].func < rx_log[j].func
    /\ \A j \in DOMAIN rx_empty_list :
          /\ p_DoneFunc[rx_empty_list[j]] \in 1..reads
          /\ \A i \in DOMAIN rx_log : rx_log[i].func < p_DoneFunc[rx_empty_list[j]]
          /\ FillingRead => p_DoneFunc[rxp] < p_DoneFunc[rx_empty_list[j]]
    /\ \A i, j \in DOMAIN rx_empty_list :
          i < j => p_DoneFunc[rx_empty_list[i]] < p_DoneFunc[rx_empty_list[j]]
    /\ FillingRead => /\ p_DoneFunc[rxp] \in 1..reads
                      /\ \A i \in DOMAIN rx_log : rx_log[i].func < p_DoneFunc[rxp]
    /\ \A i \in DOMAIN rx_filled_list : p_DoneFunc[rx_filled_list[i]] = NULL
    /\ rxp # NULL /\ ~from_empty => p_DoneFunc[rxp] = NULL

ReadCount ==
    Len(rx_log) + Len(rx_empty_list) + (IF FillingRead THEN 1 ELSE 0) = reads

LEMMA PacketSides == TxPackets \cap RxPackets = {}
BY SizeAssumption DEF TxPackets, RxPackets

\* What the proofs below need to know of the values.
LEMMA ReadTypes ==
    ASSUME TypeInv
    PROVE  /\ rx_free \in Seq(RxPackets) /\ rx_empty_list \in Seq(RxPackets)
           /\ rx_filled_list \in Seq(RxPackets)
           /\ rx_log \in Seq([func : Nat, data : Nat, result : Results])
           /\ p_DoneFunc \in [TxPackets \cup RxPackets -> Nat]
           /\ rxp \in RxPackets \cup {NULL} /\ reads \in Nat
           /\ pc \in [Tasks -> Locations] /\ server \in Tasks
BY TasksAssumption, NumberFacts DEF TypeInv, TypeOK

\* A done function may be set in a packet that is free.
LEMMA ReadsKept ==
    ASSUME TypeInv, RxInv, ReadNumbers, ReadCount,
           UNCHANGED <<rx_log, rx_empty_list, rx_filled_list, rxp, from_empty, reads>>,
           \A p \in RxPackets \ ToSet(rx_free) : p_DoneFunc'[p] = p_DoneFunc[p]
    PROVE  ReadNumbers' /\ ReadCount'
<1>1. /\ \A i \in DOMAIN rx_empty_list :
            p_DoneFunc'[rx_empty_list[i]] = p_DoneFunc[rx_empty_list[i]]
      /\ \A i \in DOMAIN rx_filled_list :
            p_DoneFunc'[rx_filled_list[i]] = p_DoneFunc[rx_filled_list[i]]
      /\ rxp # NULL => p_DoneFunc'[rxp] = p_DoneFunc[rxp]
  <2>1. /\ \A i \in DOMAIN rx_empty_list : rx_empty_list[i] \in RxPackets
        /\ \A i \in DOMAIN rx_filled_list : rx_filled_list[i] \in RxPackets
    BY ReadTypes
  <2>2. /\ \A i \in DOMAIN rx_empty_list : rx_empty_list[i] \notin ToSet(rx_free)
        /\ \A i \in DOMAIN rx_filled_list : rx_filled_list[i] \notin ToSet(rx_free)
        /\ rxp \notin ToSet(rx_free)
    <3>1. /\ \A i \in DOMAIN rx_empty_list : rx_empty_list[i] \in ToSet(rx_empty_list)
          /\ \A i \in DOMAIN rx_filled_list : rx_filled_list[i] \in ToSet(rx_filled_list)
      BY DEF ToSet
    <3> QED  BY <3>1 DEF RxInv, RxConservation
  <2> QED  BY <2>1, <2>2, ReadTypes
<1>2. UNCHANGED FillingRead
  BY DEF FillingRead
<1>3. ReadNumbers'
  BY <1>1, <1>2 DEF ReadNumbers, FillingRead
<1>4. ReadCount'
  BY <1>2 DEF ReadCount
<1> QED  BY <1>3, <1>4

\* parblk_read answered at once calls back with the done function of a packet
\* that belongs to no read.
LEMMA ReadsFilled ==
    ASSUME TypeInv, RxInv, ReadNumbers, ReadCount, NEW t \in Tasks, ReadFilled(t)
    PROVE  ReadNumbers' /\ ReadCount'
<1> DEFINE p == Head(rx_filled_list)
<1>1. /\ rx_filled_list # <<>> /\ rx_filled_list' = Tail(rx_filled_list)
      /\ reads' = reads + 1
      /\ UNCHANGED <<rx_empty_list, rxp, from_empty, p_DoneFunc>>
  BY DEF ReadFilled
<1>2. PICK b : rx_log' = Append(rx_log, [func |-> p_DoneFunc[p], data |-> b.data,
                                         result |-> b.result])
  BY DEF ReadFilled, DoneRx
<1>3. p_DoneFunc[p] = NULL
  <2>1. 1 \in DOMAIN rx_filled_list /\ p = rx_filled_list[1]
    BY <1>1, ReadTypes
  <2> QED  BY <2>1 DEF ReadNumbers
<1>4. /\ DOMAIN rx_log' = DOMAIN rx_log \cup {Len(rx_log) + 1}
      /\ \A i \in DOMAIN rx_log : rx_log'[i] = rx_log[i]
      /\ rx_log'[Len(rx_log) + 1].func = NULL /\ Len(rx_log') = Len(rx_log) + 1
      /\ DOMAIN rx_log = 1..Len(rx_log) /\ Len(rx_log) \in Nat
  <2> DEFINE e == [func |-> p_DoneFunc[p], data |-> b.data, result |-> b.result]
  <2>1. rx_log' = Append(rx_log, e) /\ e.func = NULL
    BY <1>2, <1>3
  <2> HIDE DEF e
  <2> QED  BY <2>1, ReadTypes, RxLogged
<1>5. \A i \in DOMAIN rx_filled_list' : p_DoneFunc[rx_filled_list'[i]] = NULL
  <2>1. \A i \in DOMAIN rx_filled_list' :
           i + 1 \in DOMAIN rx_filled_list /\ rx_filled_list'[i] = rx_filled_list[i + 1]
    BY <1>1, ReadTypes
  <2> QED  BY <2>1 DEF ReadNumbers
<1>6. UNCHANGED FillingRead
  BY <1>1 DEF FillingRead
<1>7. ReadCount'
  BY <1>1, <1>4, <1>6, ReadTypes DEF ReadCount
<1>8. /\ \A j \in DOMAIN rx_empty_list : p_DoneFunc[rx_empty_list[j]] \in 1..reads
      /\ FillingRead => p_DoneFunc[rxp] \in 1..reads
      /\ reads \in Nat
  BY ReadTypes DEF ReadNumbers
<1>9. /\ \A i \in DOMAIN rx_log' : rx_log'[i].func \in 0..(reads + 1)
      /\ \A i, j \in DOMAIN rx_log' :
            i < j /\ rx_log'[j].func # NULL => rx_log'[i].func < rx_log'[j].func
  <2>1. \A i \in DOMAIN rx_log : i < Len(rx_log) + 1 /\ rx_log[i].func \in 0..reads
    BY <1>4 DEF ReadNumbers
  <2>2. \A i \in DOMAIN rx_log' : rx_log'[i].func \in 0..(reads + 1)
    BY <1>4, <1>8, <2>1 DEF NULL
  <2>3. ASSUME NEW i \in DOMAIN rx_log', NEW j \in DOMAIN rx_log',
               i < j, rx_log'[j].func # NULL
        PROVE  rx_log'[i].func < rx_log'[j].func
    <3>1. j \in DOMAIN rx_log
      BY <1>4, <2>3
    <3>2. i \in DOMAIN rx_log
      BY <1>4, <2>3, <3>1
    <3> QED  BY <1>4, <2>3, <3>1, <3>2 DEF ReadNumbers
  <2> QED  BY <2>2, <2>3
<1>10. ASSUME NEW i \in DOMAIN rx_log'
       PROVE  /\ \A j \in DOMAIN rx_empty_list :
                    rx_log'[i].func < p_DoneFunc[rx_empty_list[j]]
              /\ FillingRead => rx_log'[i].func < p_DoneFunc[rxp]
  <2>1. CASE i \in DOMAIN rx_log
    BY <1>4, <2>1 DEF ReadNumbers
  <2>2. CASE i = Len(rx_log) + 1
    BY <1>4, <1>8, <2>2 DEF NULL
  <2> QED  BY <1>4, <2>1, <2>2
<1>11. /\ \A j \in DOMAIN rx_empty_list : p_DoneFunc[rx_empty_list[j]] \in 1..reads'
       /\ FillingRead => p_DoneFunc[rxp] \in 1..reads'
  BY <1>1, <1>8
<1>12. ReadNumbers'
  BY <1>1, <1>5, <1>6, <1>9, <1>10, <1>11 DEF ReadNumbers, FillingRead
<1> QED  BY <1>7, <1>12

\* A read that has to wait takes the next number.
LEMMA ReadsQueue ==
    ASSUME TypeInv, RxInv, ReadNumbers, ReadCount, NEW t \in Tasks, ReadQueue(t)
    PROVE  ReadNumbers' /\ ReadCount'
<1> DEFINE p == Head(rx_free)
<1>1. /\ rx_free # <<>> /\ reads' = reads + 1
      /\ rx_empty_list' = Append(rx_empty_list, p)
      /\ p_DoneFunc' = [p_DoneFunc EXCEPT ![p] = reads + 1]
      /\ UNCHANGED <<rx_filled_list, rxp, from_empty, rx_log>>
  BY DEF ReadQueue, AllocRx, AddTail
<1>2. p \in RxPackets /\ p \in ToSet(rx_free)
  BY <1>1, RemHeadList DEF RxInv, RxTypeOK, RxConservation
<1>3. /\ \A i \in DOMAIN rx_empty_list :
            p_DoneFunc'[rx_empty_list[i]] = p_DoneFunc[rx_empty_list[i]]
      /\ \A i \in DOMAIN rx_filled_list :
            p_DoneFunc'[rx_filled_list[i]] = p_DoneFunc[rx_filled_list[i]]
      /\ rxp # NULL => p_DoneFunc'[rxp] = p_DoneFunc[rxp]
      /\ p_DoneFunc'[p] = reads + 1
  <2>1. /\ \A i \in DOMAIN rx_empty_list : rx_empty_list[i] \in RxPackets
        /\ \A i \in DOMAIN rx_filled_list : rx_filled_list[i] \in RxPackets
    BY ReadTypes
  <2>2. /\ \A i \in DOMAIN rx_empty_list : rx_empty_list[i] # p
        /\ \A i \in DOMAIN rx_filled_list : rx_filled_list[i] # p
        /\ rxp # p
    <3>1. /\ \A i \in DOMAIN rx_empty_list : rx_empty_list[i] \in ToSet(rx_empty_list)
          /\ \A i \in DOMAIN rx_filled_list : rx_filled_list[i] \in ToSet(rx_filled_list)
      BY DEF ToSet
    <3>2. p \notin ToSet(rx_empty_list) /\ p \notin ToSet(rx_filled_list) /\ p # rxp
      BY <1>2 DEF RxInv, RxConservation
    <3> HIDE DEF p
    <3> QED  BY <3>1, <3>2
  <2> HIDE DEF p
  <2> QED  BY <1>1, <1>2, <2>1, <2>2, ReadTypes
<1>4. /\ DOMAIN rx_empty_list' = DOMAIN rx_empty_list \cup {Len(rx_empty_list) + 1}
      /\ \A i \in DOMAIN rx_empty_list : rx_empty_list'[i] = rx_empty_list[i]
      /\ rx_empty_list'[Len(rx_empty_list) + 1] = p
      /\ Len(rx_empty_list') = Len(rx_empty_list) + 1
      /\ DOMAIN rx_empty_list = 1..Len(rx_empty_list) /\ Len(rx_empty_list) \in Nat
      /\ Len(rx_log) \in Nat
  <2> HIDE DEF p
  <2>1. rx_empty_list \in Seq(RxPackets) /\ rx_log \in Seq([func : Nat, data : Nat, result : Results])
    BY ReadTypes
  <2>2. /\ DOMAIN Append(rx_empty_list, p) = DOMAIN rx_empty_list \cup {Len(rx_empty_list) + 1}
        /\ \A i \in DOMAIN rx_empty_list : Append(rx_empty_list, p)[i] = rx_empty_list[i]
        /\ Append(rx_empty_list, p)[Len(rx_empty_list) + 1] = p
        /\ Len(Append(rx_empty_list, p)) = Len(rx_empty_list) + 1
    BY <2>1, AppendFacts
  <2>3. DOMAIN rx_empty_list = 1..Len(rx_empty_list) /\ Len(rx_empty_list) \in Nat
        /\ Len(rx_log) \in Nat
    BY <2>1
  <2> QED  BY <1>1, <2>2, <2>3
<1>5. UNCHANGED FillingRead /\ reads \in Nat /\ (FillingRead => rxp # NULL)
  BY <1>1, ReadTypes DEF FillingRead
<1>6. ReadCount'
  BY <1>1, <1>4, <1>5 DEF ReadCount
<1> HIDE DEF p
<1>7. /\ \A i \in DOMAIN rx_log : rx_log[i].func \in 0..reads
      /\ \A j \in DOMAIN rx_empty_list : p_DoneFunc[rx_empty_list[j]] \in 1..reads
      /\ FillingRead => p_DoneFunc[rxp] \in 1..reads
  BY DEF ReadNumbers
<1>8. ASSUME NEW j \in DOMAIN rx_empty_list'
      PROVE  /\ p_DoneFunc'[rx_empty_list'[j]] \in 1..(reads + 1)
             /\ \A i \in DOMAIN rx_log : rx_log[i].func < p_DoneFunc'[rx_empty_list'[j]]
             /\ FillingRead => p_DoneFunc[rxp] < p_DoneFunc'[rx_empty_list'[j]]
             /\ \A i \in DOMAIN rx_empty_list' :
                   i < j => p_DoneFunc'[rx_empty_list'[i]] < p_DoneFunc'[rx_empty_list'[j]]
  <2>1. CASE j \in DOMAIN rx_empty_list
    <3>1. p_DoneFunc'[rx_empty_list'[j]] = p_DoneFunc[rx_empty_list[j]]
      BY <1>3, <1>4, <2>1
    <3>2. p_DoneFunc[rx_empty_list[j]] \in 1..(reads + 1)
      BY <1>5, <1>7, <2>1
    <3>3. ASSUME NEW i \in DOMAIN rx_empty_list', i < j
          PROVE  p_DoneFunc'[rx_empty_list'[i]] < p_DoneFunc'[rx_empty_list'[j]]
      <4>1. i \in DOMAIN rx_empty_list
        BY <1>4, <2>1, <3>3
      <4> QED  BY <1>3, <1>4, <2>1, <3>1, <3>3, <4>1 DEF ReadNumbers
    <3> QED  BY <2>1, <3>1, <3>2, <3>3 DEF ReadNumbers
  <2>2. CASE j = Len(rx_empty_list) + 1
    <3>1. p_DoneFunc'[rx_empty_list'[j]] = reads + 1
      BY <1>3, <1>4, <2>2
    <3>2. ASSUME NEW i \in DOMAIN rx_empty_list', i < j
          PROVE  p_DoneFunc'[rx_empty_list'[i]] < reads + 1
      <4>1. i \in DOMAIN rx_empty_list
        BY <1>4, <2>2, <3>2
      <4>2. p_DoneFunc'[rx_empty_list'[i]] \in 1..reads
        BY <1>3, <1>4, <1>7, <4>1
      <4> QED  BY <1>5, <4>2
    <3> QED  BY <1>5, <1>7, <3>1, <3>2
  <2> QED  BY <1>4, <2>1, <2>2
<1>9. /\ \A i \in DOMAIN rx_log : rx_log[i].func \in 0..(reads + 1)
      /\ FillingRead => p_DoneFunc[rxp] \in 1..(reads + 1)
  BY <1>5, <1>7
<1>10. ReadNumbers'
  <2>1. FillingRead => p_DoneFunc'[rxp] = p_DoneFunc[rxp]
    BY <1>3, <1>5
  <2>2. /\ \A i \in DOMAIN rx_log' : rx_log'[i].func \in 0..reads'
        /\ \A i, j \in DOMAIN rx_log' :
              i < j /\ rx_log'[j].func # NULL => rx_log'[i].func < rx_log'[j].func
    BY <1>1, <1>9 DEF ReadNumbers
  <2>3. \A j \in DOMAIN rx_empty_list' :
          /\ p_DoneFunc'[rx_empty_list'[j]] \in 1..reads'
          /\ \A i \in DOMAIN rx_log' : rx_log'[i].func < p_DoneFunc'[rx_empty_list'[j]]
          /\ FillingRead' => p_DoneFunc'[rxp'] < p_DoneFunc'[rx_empty_list'[j]]
    BY <1>1, <1>5, <1>8, <2>1
  <2>4. \A i, j \in DOMAIN rx_empty_list' :
          i < j => p_DoneFunc'[rx_empty_list'[i]] < p_DoneFunc'[rx_empty_list'[j]]
    BY <1>8
  <2>5. FillingRead' => /\ p_DoneFunc'[rxp'] \in 1..reads'
                        /\ \A i \in DOMAIN rx_log' : rx_log'[i].func < p_DoneFunc'[rxp']
    BY <1>1, <1>5, <1>9, <2>1 DEF ReadNumbers
  <2>6. /\ \A i \in DOMAIN rx_filled_list' : p_DoneFunc'[rx_filled_list'[i]] = NULL
        /\ rxp' # NULL /\ ~from_empty' => p_DoneFunc'[rxp'] = NULL
    BY <1>1, <1>3 DEF ReadNumbers
  <2> QED  BY <2>2, <2>3, <2>4, <2>5, <2>6 DEF ReadNumbers
<1> QED  BY <1>6, <1>10

\* The read that waited longest gets the announced packet.
LEMMA ReadsPrepared ==
    ASSUME TypeInv, RxInv, ReadNumbers, ReadCount, RxPrepared
    PROVE  ReadNumbers' /\ ReadCount'
<1>1. /\ rx_empty_list # <<>> /\ rx_empty_list' = Tail(rx_empty_list)
      /\ rxp' = Head(rx_empty_list) /\ from_empty' /\ pc[server] = "rx"
      /\ UNCHANGED <<rx_filled_list, rx_log, reads, p_DoneFunc>>
  BY DEF RxPrepared, FromRead
<1>2. ~FillingRead
  BY <1>1 DEF RxInv, RxControl, FillingRead
<1>3. /\ 1 \in DOMAIN rx_empty_list /\ rxp' = rx_empty_list[1] /\ rxp' # NULL
      /\ Len(rx_empty_list') = Len(rx_empty_list) - 1
      /\ Len(rx_empty_list) \in Nat /\ Len(rx_log) \in Nat
      /\ \A i \in DOMAIN rx_empty_list' :
            /\ i + 1 \in DOMAIN rx_empty_list /\ i \in Nat /\ 1 < i + 1
            /\ rx_empty_list'[i] = rx_empty_list[i + 1]
  BY <1>1, ReadTypes, PacketFacts
<1>4. FillingRead'
  BY <1>1, <1>3 DEF FillingRead
<1>5. ReadCount'
  BY <1>1, <1>2, <1>3, <1>4, ReadTypes DEF ReadCount
<1>6. ASSUME NEW j \in DOMAIN rx_empty_list'
      PROVE  /\ p_DoneFunc[rx_empty_list'[j]] \in 1..reads
             /\ \A i \in DOMAIN rx_log : rx_log[i].func < p_DoneFunc[rx_empty_list'[j]]
             /\ p_DoneFunc[rxp'] < p_DoneFunc[rx_empty_list'[j]]
             /\ \A i \in DOMAIN rx_empty_list' :
                   i < j => p_DoneFunc[rx_empty_list'[i]] < p_DoneFunc[rx_empty_list'[j]]
  <2>1. /\ p_DoneFunc[rx_empty_list'[j]] \in 1..reads
        /\ \A i \in DOMAIN rx_log : rx_log[i].func < p_DoneFunc[rx_empty_list'[j]]
        /\ p_DoneFunc[rxp'] < p_DoneFunc[rx_empty_list'[j]]
    BY <1>3 DEF ReadNumbers
  <2>2. ASSUME NEW i \in DOMAIN rx_empty_list', i < j
        PROVE  p_DoneFunc[rx_empty_list'[i]] < p_DoneFunc[rx_empty_list'[j]]
    <3>1. i + 1 < j + 1
      BY <1>3, <2>2
    <3> QED  BY <1>3, <3>1 DEF ReadNumbers
  <2> QED  BY <2>1, <2>2
<1>7. /\ p_DoneFunc[rxp'] \in 1..reads
      /\ \A i \in DOMAIN rx_log : rx_log[i].func < p_DoneFunc[rxp']
  BY <1>3 DEF ReadNumbers
<1>8. ReadNumbers'
  BY <1>1, <1>6, <1>7 DEF ReadNumbers
<1> QED  BY <1>5, <1>8

\* parblk_handle_sig takes a packet of its own.
LEMMA ReadsAlloc ==
    ASSUME TypeInv, RxInv, SigControl, ReadNumbers, ReadCount, RxAlloc
    PROVE  ReadNumbers' /\ ReadCount'
<1>1. /\ pc[server] = "rx_alloc" /\ rx_free # <<>> /\ rxp' = Head(rx_free)
      /\ p_DoneFunc' = [p_DoneFunc EXCEPT ![Head(rx_free)] = NULL]
      /\ UNCHANGED <<rx_empty_list, rx_filled_list, rx_log, reads, from_empty>>
  BY DEF RxAlloc, AllocRx
<1>2. ~FillingRead /\ ~FillingRead' /\ ~from_empty
  BY <1>1 DEF SigControl, FillingRead
<1>3. ReadCount'
  BY <1>1, <1>2 DEF ReadCount
<1>4. rxp' \in RxPackets /\ rxp' \in ToSet(rx_free) /\ p_DoneFunc'[rxp'] = NULL
  BY <1>1, ReadTypes, RemHeadList DEF RxInv, RxTypeOK, RxConservation
<1>5. /\ \A i \in DOMAIN rx_empty_list :
            p_DoneFunc'[rx_empty_list[i]] = p_DoneFunc[rx_empty_list[i]]
      /\ \A i \in DOMAIN rx_filled_list :
            p_DoneFunc'[rx_filled_list[i]] = p_DoneFunc[rx_filled_list[i]]
  <2>1. /\ \A i \in DOMAIN rx_empty_list :
              rx_empty_list[i] \in RxPackets /\ rx_empty_list[i] \in ToSet(rx_empty_list)
        /\ \A i \in DOMAIN rx_filled_list :
              rx_filled_list[i] \in RxPackets /\ rx_filled_list[i] \in ToSet(rx_filled_list)
    BY ReadTypes DEF ToSet
  <2>2. rxp' \notin ToSet(rx_empty_list) /\ rxp' \notin ToSet(rx_filled_list)
    BY <1>4 DEF RxInv, RxConservation
  <2>3. p_DoneFunc' = [p_DoneFunc EXCEPT ![rxp'] = NULL]
    BY <1>1
  <2> QED  BY <1>4, <2>1, <2>2, <2>3, ReadTypes
<1>6. ReadNumbers'
  BY <1>1, <1>2, <1>4, <1>5 DEF ReadNumbers
<1> QED  BY <1>3, <1>6

\* The received packet goes to its read, or waits for one.
LEMMA ReadsRecv ==
    ASSUME TypeInv, RxInv, ReadNumbers, ReadCount, Recv
    PROVE  ReadNumbers' /\ ReadCount'
<1>1. PICK b :
        \/ /\ from_empty
           /\ rx_log' = Append(rx_log, [func |-> p_DoneFunc[rxp], data |-> b.data,
                                        result |-> b.result])
           /\ UNCHANGED rx_filled_list
        \/ /\ ~from_empty
           /\ rx_filled_list' = Append(rx_filled_list, rxp)
           /\ UNCHANGED rx_log
  BY DEF Recv, DoneRx, AddTail
<1>2. /\ pc[server] = "recv" /\ rxp' = NULL
      /\ UNCHANGED <<rx_empty_list, reads, p_DoneFunc, from_empty>>
  BY DEF Recv
<1>3. rxp \in RxPackets /\ rxp # NULL
  BY <1>2, ReadTypes DEF RxInv, RxControl
<1>4. (FillingRead <=> from_empty) /\ ~FillingRead'
  BY <1>2, <1>3 DEF FillingRead
<1>5. CASE from_empty
  <2>1. UNCHANGED rx_filled_list
    BY <1>1, <1>5
  <2>2. /\ DOMAIN rx_log' = DOMAIN rx_log \cup {Len(rx_log) + 1}
        /\ \A i \in DOMAIN rx_log : rx_log'[i] = rx_log[i]
        /\ rx_log'[Len(rx_log) + 1].func = p_DoneFunc[rxp]
        /\ Len(rx_log') = Len(rx_log) + 1
        /\ DOMAIN rx_log = 1..Len(rx_log) /\ Len(rx_log) \in Nat
    <3> DEFINE e == [func |-> p_DoneFunc[rxp], data |-> b.data, result |-> b.result]
    <3>1. rx_log' = Append(rx_log, e) /\ e.func = p_DoneFunc[rxp]
      BY <1>1, <1>5
    <3> HIDE DEF e
    <3> QED  BY <3>1, ReadTypes, RxLogged
  <2>3. ReadCount'
    <3>1. Len(rx_empty_list) \in Nat /\ reads \in Nat /\ Len(rx_empty_list') = Len(rx_empty_list)
      BY <1>2, ReadTypes
    <3>2. Len(rx_log) + Len(rx_empty_list) + 1 = reads
      BY <1>4, <1>5 DEF ReadCount
    <3> QED  BY <1>2, <1>4, <2>2, <3>1, <3>2 DEF ReadCount
  <2>4. /\ p_DoneFunc[rxp] \in 1..reads
        /\ \A i \in DOMAIN rx_log : rx_log[i].func < p_DoneFunc[rxp]
        /\ \A j \in DOMAIN rx_empty_list : p_DoneFunc[rxp] < p_DoneFunc[rx_empty_list[j]]
    BY <1>4, <1>5 DEF ReadNumbers
  <2>5. \A i \in DOMAIN rx_log' : rx_log'[i].func \in 0..reads
    <3>1. \A i \in DOMAIN rx_log : rx_log'[i].func \in 0..reads
      BY <2>2 DEF ReadNumbers
    <3>2. p_DoneFunc[rxp] \in 0..reads
      BY <2>4
    <3> QED  BY <2>2, <3>1, <3>2
  <2>6. ASSUME NEW i \in DOMAIN rx_log', NEW j \in DOMAIN rx_log',
               i < j, rx_log'[j].func # NULL
        PROVE  rx_log'[i].func < rx_log'[j].func
    <3>1. CASE j \in DOMAIN rx_log
      <4>1. i \in DOMAIN rx_log
        BY <2>2, <2>6, <3>1
      <4> QED  BY <2>2, <2>6, <3>1, <4>1 DEF ReadNumbers
    <3>2. CASE j = Len(rx_log) + 1
      <4>1. i \in DOMAIN rx_log
        BY <2>2, <2>6, <3>2
      <4> QED  BY <2>2, <2>4, <3>2, <4>1
    <3> QED  BY <2>2, <3>1, <3>2
  <2>7. ASSUME NEW j \in DOMAIN rx_empty_list
        PROVE  \A i \in DOMAIN rx_log' : rx_log'[i].func < p_DoneFunc[rx_empty_list[j]]
    BY <2>2, <2>4 DEF ReadNumbers
  <2>8. ReadNumbers'
    BY <1>2, <1>4, <2>1, <2>5, <2>6, <2>7 DEF ReadNumbers
  <2> QED  BY <2>3, <2>8
<1>6. CASE ~from_empty
  <2>1. UNCHANGED rx_log /\ rx_filled_list' = Append(rx_filled_list, rxp)
    BY <1>1, <1>6
  <2>2. ReadCount'
    BY <1>2, <1>4, <1>6, <2>1 DEF ReadCount
  <2>3. \A i \in DOMAIN rx_filled_list' : p_DoneFunc[rx_filled_list'[i]] = NULL
    <3>1. /\ DOMAIN rx_filled_list' = DOMAIN rx_filled_list \cup {Len(rx_filled_list) + 1}
          /\ \A i \in DOMAIN rx_filled_list : rx_filled_list'[i] = rx_filled_list[i]
          /\ rx_filled_list'[Len(rx_filled_list) + 1] = rxp
      BY <2>1, ReadTypes, AppendFacts
    <3> QED  BY <1>3, <1>6, <3>1 DEF ReadNumbers
  <2>4. ReadNumbers'
    BY <1>2, <1>4, <2>1, <2>3 DEF ReadNumbers
  <2> QED  BY <2>2, <2>4
<1> QED  BY <1>5, <1>6

LEMMA ReadsNext ==
    /\ Garbage = {NULL} /\ TypeInv /\ RxInv /\ SigControl /\ ReadNumbers /\ ReadCount
    /\ [Next]_vars
    => ReadNumbers' /\ ReadCount'
<1> SUFFICES ASSUME Garbage = {NULL}, TypeInv, RxInv, SigControl, ReadNumbers, ReadCount,
                    [Next]_vars
             PROVE  ReadNumbers' /\ ReadCount'
  OBVIOUS
<1>1. ASSUME UNCHANGED <<rxVars, p_DoneFunc>> PROVE ReadNumbers' /\ ReadCount'
  BY <1>1, ReadsKept DEF rxVars
<1>2. ASSUME NEW t \in Tasks, Obtain(t) \/ SendQueue(t) \/ SendNew(t) \/ ReadNone(t) \/ ReadFail(t)
      PROVE  ReadNumbers' /\ ReadCount'
  BY <1>1, <1>2 DEF Obtain, SendQueue, SendNew, ReadNone, ReadFail, ObtainTx, WriteQueue,
     QueueNext, QueueEmpty, QueueSendOk, QueueSendFail, WriteSendOk, WriteSendFail
<1>3. ASSUME NEW t \in Tasks, Write(t) PROVE ReadNumbers' /\ ReadCount'
  <2>1. /\ tx_free # <<>> /\ UNCHANGED rxVars
        /\ p_DoneFunc' = [p_DoneFunc EXCEPT ![Head(tx_free)] = writes + 1]
    BY <1>3 DEF Write, AllocTx
  <2>2. Head(tx_free) \in TxPackets
    BY <2>1 DEF TypeInv, TypeOK
  <2>3. \A p \in RxPackets : p_DoneFunc'[p] = p_DoneFunc[p]
    BY <2>1, <2>2, PacketSides, ReadTypes
  <2> QED  BY <2>1, <2>3, ReadsKept DEF rxVars
<1>4. ASSUME NEW t \in Tasks, ReadFilled(t) PROVE ReadNumbers' /\ ReadCount'
  BY <1>4, ReadsFilled
<1>5. ASSUME NEW t \in Tasks, ReadQueue(t) PROVE ReadNumbers' /\ ReadCount'
  BY <1>5, ReadsQueue
<1>6. ASSUME Interrupt \/ Tick \/ HandleSig \/ RxExhausted \/ TickStart
      PROVE  ReadNumbers' /\ ReadCount'
  BY <1>1, <1>6 DEF Interrupt, Tick, HandleSig, RxExhausted, TickStart
<1>7. ASSUME RxUnprepared PROVE ReadNumbers' /\ ReadCount'
  <2>1. /\ pc[server] = "rx" /\ rxp' = NULL
        /\ UNCHANGED <<rx_log, rx_empty_list, rx_filled_list, reads, p_DoneFunc>>
    BY <1>7 DEF RxUnprepared
  <2>2. ~FillingRead /\ ~FillingRead' /\ rxp' = NULL
    BY <2>1 DEF RxInv, RxControl, FillingRead
  <2> QED  BY <2>1, <2>2 DEF ReadNumbers, ReadCount
<1>8. CASE UNCHANGED vars
  BY <1>1, <1>8 DEF vars
<1> QED  BY <1>2, <1>3, <1>4, <1>5, <1>6, <1>7, <1>8, ReadsPrepared, ReadsAlloc, ReadsRecv
         DEF Next, Call, Reading, Serve

LEMMA ReadsInParts == TypeInv /\ ReadNumbers /\ ReadCount => ReadsAnswered
<1> SUFFICES ASSUME TypeInv, ReadNumbers, ReadCount PROVE ReadsAnswered
  OBVIOUS
<1> DEFINE called  == {i \in DOMAIN rx_log : rx_log[i].func # NULL}
           filling == IF rxp # NULL /\ from_empty THEN <<rxp>> ELSE <<>>
           waiting == filling \o rx_empty_list
<1>1. /\ Len(rx_empty_list) \in Nat /\ Len(rx_log) \in Nat
      /\ DOMAIN rx_empty_list = 1..Len(rx_empty_list)
  BY ReadTypes
<1>2. CASE FillingRead
  <2>1. filling = <<rxp>> /\ rxp \in RxPackets
    BY <1>2, ReadTypes DEF FillingRead
  <2>2. /\ Len(waiting) = Len(rx_empty_list) + 1
        /\ DOMAIN waiting = 1..(Len(rx_empty_list) + 1)
        /\ waiting[1] = rxp
        /\ \A i \in DOMAIN waiting :
              i = 1 \/ (i - 1 \in DOMAIN rx_empty_list /\ waiting[i] = rx_empty_list[i - 1])
    BY <1>1, <2>1, ReadTypes
  <2> HIDE DEF waiting
  <2>3. Len(rx_log) + Len(waiting) = reads
    BY <1>1, <1>2, <2>2, ReadTypes DEF ReadCount
  <2>4. \A i \in called, j \in DOMAIN waiting : rx_log[i].func < p_DoneFunc[waiting[j]]
    BY <1>2, <2>2 DEF ReadNumbers
  <2>5. ASSUME NEW i \in DOMAIN waiting, NEW j \in DOMAIN waiting, i < j
        PROVE  p_DoneFunc[waiting[i]] < p_DoneFunc[waiting[j]]
    <3>1. j - 1 \in DOMAIN rx_empty_list /\ waiting[j] = rx_empty_list[j - 1]
      BY <1>1, <2>2, <2>5
    <3>2. CASE i = 1
      BY <1>2, <2>2, <3>1, <3>2 DEF ReadNumbers
    <3>3. CASE i # 1
      <4>1. /\ i - 1 \in DOMAIN rx_empty_list /\ waiting[i] = rx_empty_list[i - 1]
            /\ i - 1 < j - 1
        BY <1>1, <2>2, <2>5, <3>3
      <4> QED  BY <3>1, <4>1 DEF ReadNumbers
    <3> QED  BY <3>2, <3>3
  <2>6. \A i, j \in called : i < j => rx_log[i].func < rx_log[j].func
    BY DEF ReadNumbers
  <2>7. /\ Len(rx_log) + Len(waiting) = reads
        /\ \A i, j \in called : i < j => rx_log[i].func < rx_log[j].func
        /\ \A i \in called, j \in DOMAIN waiting : rx_log[i].func < p_DoneFunc[waiting[j]]
        /\ \A i, j \in DOMAIN waiting : i < j => p_DoneFunc[waiting[i]] < p_DoneFunc[waiting[j]]
    BY <2>3, <2>4, <2>5, <2>6
  <2> USE DEF waiting
  <2> QED  BY <2>7, Zenon DEF ReadsAnswered
<1>3. CASE ~FillingRead
  <2>1. filling = <<>> /\ waiting = rx_empty_list
    BY <1>3, ReadTypes DEF FillingRead
  <2> HIDE DEF waiting
  <2>3. Len(rx_log) + Len(waiting) = reads
    BY <1>1, <1>3, <2>1, ReadTypes DEF ReadCount
  <2>7. /\ Len(rx_log) + Len(waiting) = reads
        /\ \A i, j \in called : i < j => rx_log[i].func < rx_log[j].func
        /\ \A i \in called, j \in DOMAIN waiting : rx_log[i].func < p_DoneFunc[waiting[j]]
        /\ \A i, j \in DOMAIN waiting : i < j => p_DoneFunc[waiting[i]] < p_DoneFunc[waiting[j]]
    BY <2>1, <2>3 DEF ReadNumbers
  <2> USE DEF waiting
  <2> QED  BY <2>7, Zenon DEF ReadsAnswered
<1> QED  BY <1>2, <1>3

\* Every accepted read has ended or is waiting, and the reads that had to wait
\* have their done functions called once each, in the order of the calls: for
\* any number of tasks, pools of any size and any interleaving, in a build in
\* which the uninitialised p is NULL.
THEOREM ReadsAllAnswered == Garbage = {NULL} => (Spec => []ReadsAnswered)
<1> SUFFICES ASSUME Garbage = {NULL} PROVE Spec => []ReadsAnswered
  OBVIOUS
<1>1. Init => ReadNumbers /\ ReadCount
  <2> SUFFICES ASSUME Init PROVE ReadNumbers /\ ReadCount
    OBVIOUS
  <2>1. /\ rx_log = <<>> /\ rx_filled_list = <<>> /\ rx_empty_list = <<>>
        /\ rxp = NULL /\ reads = 0
    BY DEF Init
  <2> QED  BY <2>1 DEF ReadNumbers, ReadCount, FillingRead
<1>2. Init => RxInv
  BY RxInit
<1>3. RxInv /\ [Next]_vars => RxInv'
  BY RxNext
<1>4. TypeInv /\ RxInv /\ SigControl /\ ReadNumbers /\ ReadCount /\ [Next]_vars
      => ReadNumbers' /\ ReadCount'
  BY ReadsNext
<1>5. TypeInv /\ ReadNumbers /\ ReadCount => ReadsAnswered
  BY ReadsInParts
<1> QED  BY <1>1, <1>2, <1>3, <1>4, <1>5, SigInvariant, PTL DEF Spec
=============================================================================
