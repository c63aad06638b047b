-------------------------- MODULE ParBlkFifoProofs --------------------------
(***************************************************************************)
(* The steps of the refinement of TxQueue by the engine with one task, for *)
(* any pools, any limit of retries and any value of the uninitialised p.   *)
(***************************************************************************)
EXTENDS ParBlkFifo, ParBlkRxProofs, SequenceTheorems

-----------------------------------------------------------------------------
(* The requests of a list of packets.                                      *)

Requests(s) == [i \in DOMAIN s |-> p_DoneFunc[s[i]]]

LEMMA SequenceEntries == ASSUME NEW S, NEW s \in Seq(S) PROVE s = [i \in 1..Len(s) |-> s[i]]
OBVIOUS

\* Accepting a packet appends its request, and the others are what they were.
LEMMA RequestsAppend ==
    ASSUME TypeInv, NEW s \in Seq(TxPackets), NEW p \in TxPackets, p \notin ToSet(s),
           NEW f, p_DoneFunc' = [p_DoneFunc EXCEPT ![p] = f]
    PROVE  [i \in DOMAIN Append(s, p) |-> p_DoneFunc'[Append(s, p)[i]]]
           = Append(Requests(s), f)
<1>1. /\ DOMAIN Append(s, p) = 1..(Len(s) + 1) /\ DOMAIN s = 1..Len(s) /\ Len(s) \in Nat
      /\ \A i \in 1..Len(s) : Append(s, p)[i] = s[i] /\ s[i] \in TxPackets /\ s[i] # p
      /\ Append(s, p)[Len(s) + 1] = p
  BY DEF ToSet
<1>2. /\ p_DoneFunc'[p] = f
      /\ \A i \in 1..Len(s) : p_DoneFunc'[s[i]] = p_DoneFunc[s[i]]
  BY <1>1 DEF TypeInv, TypeOK
<1>3. Requests(s) = [i \in 1..Len(s) |-> p_DoneFunc[s[i]]]
  BY <1>1 DEF Requests
<1>4. Requests(s) \in Seq(Nat) /\ Len(Requests(s)) = Len(s)
  BY <1>1, <1>3 DEF TypeInv, TypeOK
<1>5. /\ DOMAIN Append(Requests(s), f) = 1..(Len(s) + 1)
      /\ \A i \in 1..Len(s) : Append(Requests(s), f)[i] = p_DoneFunc[s[i]]
      /\ Append(Requests(s), f)[Len(s) + 1] = f
  BY <1>1, <1>3, <1>4, AppendFacts
<1>6. \A i \in 1..(Len(s) + 1) :
         p_DoneFunc'[Append(s, p)[i]] = Append(Requests(s), f)[i]
  BY <1>1, <1>2, <1>5
<1>7. Append(Requests(s), f) = [i \in 1..(Len(s) + 1) |-> Append(Requests(s), f)[i]]
  BY <1>1, <1>3, <1>5
<1> QED  BY <1>1, <1>6, <1>7

\* Completing the first packet removes its request.
LEMMA RequestsTail ==
    ASSUME TypeInv, NEW s \in Seq(TxPackets), NEW p \in TxPackets
    PROVE  /\ Requests(<<p>> \o s) # <<>> /\ Head(Requests(<<p>> \o s)) = p_DoneFunc[p]
           /\ Tail(Requests(<<p>> \o s)) = Requests(s)
<1> DEFINE t == <<p>> \o s
<1>1. /\ t \in Seq(TxPackets) /\ Len(t) = Len(s) + 1 /\ Len(s) \in Nat
      /\ DOMAIN t = 1..(Len(s) + 1) /\ DOMAIN s = 1..Len(s)
      /\ t[1] = p /\ \A i \in 1..Len(s) : t[i + 1] = s[i]
  OBVIOUS
<1> HIDE DEF t
<1>2. Requests(t) = [i \in 1..(Len(s) + 1) |-> p_DoneFunc[t[i]]]
  BY <1>1 DEF Requests
<1>3. Requests(t) \in Seq(Nat) /\ Len(Requests(t)) = Len(s) + 1
  BY <1>1, <1>2 DEF TypeInv, TypeOK
<1>4. Requests(t) # <<>> /\ Head(Requests(t)) = p_DoneFunc[p]
  BY <1>1, <1>2, <1>3
<1>5. Tail(Requests(t)) = [i \in 1..Len(s) |-> Requests(t)[i + 1]]
  <2> DEFINE u == Requests(t)
  <2>1. u \in Seq(Nat) /\ Len(u) = Len(s) + 1
    BY <1>3
  <2> HIDE DEF u
  <2>2. /\ Tail(u) \in Seq(Nat) /\ Len(Tail(u)) = Len(s)
        /\ \A i \in 1..Len(s) : Tail(u)[i] = u[i + 1]
    BY <1>1, <2>1
  <2>3. Tail(u) = [i \in 1..Len(s) |-> Tail(u)[i]]
    BY <2>2, SequenceEntries
  <2>4. Tail(u) = [i \in 1..Len(s) |-> u[i + 1]]
    BY <2>2, <2>3
  <2> QED  BY <2>4 DEF u
<1>6. Requests(s) = [i \in 1..Len(s) |-> p_DoneFunc[s[i]]]
  BY <1>1 DEF Requests
<1>7. Tail(Requests(t)) = Requests(s)
  BY <1>1, <1>2, <1>5, <1>6
<1> QED  BY <1>4, <1>7 DEF t

-----------------------------------------------------------------------------
(* The state mapped to the abstract queue.                                 *)

\* parblk_write sends its packet itself only when nothing waits before it.
TxOrder == pc[server] = "write_send" => tx_list = <<>>

\* The packets of the mapping are those the pool has given away.
LEMMA PendingTypes ==
    ASSUME TypeInv
    PROVE  /\ PendingPackets \in Seq(TxPackets)
           /\ ToSet(PendingPackets) \cap ToSet(tx_free) = {}
           /\ tx_list \in Seq(TxPackets)
           /\ InHand(cur[server]) \in Seq(TxPackets) /\ InHand(arg[server]) \in Seq(TxPackets)
<1>1. /\ tx_list \in Seq(TxPackets) /\ server \in Tasks
      /\ cur[server] \in TxPackets \cup {NULL} /\ arg[server] \in TxPackets \cup {NULL}
  BY TasksAssumption DEF TypeInv, TypeOK
<1>2. ASSUME NEW p \in TxPackets \cup {NULL}
      PROVE  /\ InHand(p) \in Seq(TxPackets) /\ ToSet(InHand(p)) = {p} \ {NULL}
  <2>1. CASE p = NULL
    BY <2>1 DEF InHand, ToSet
  <2>2. CASE p # NULL
    <3>1. InHand(p) = <<p>> /\ p \in TxPackets
      BY <2>2 DEF InHand
    <3> QED  BY <2>2, <3>1 DEF ToSet
  <2> QED  BY <2>1, <2>2
<1>3. ASSUME NEW u \in Seq(TxPackets), NEW v \in Seq(TxPackets)
      PROVE  u \o v \in Seq(TxPackets) /\ ToSet(u \o v) \subseteq ToSet(u) \cup ToSet(v)
  <2>1. /\ DOMAIN (u \o v) = 1..(Len(u) + Len(v)) /\ DOMAIN u = 1..Len(u)
        /\ DOMAIN v = 1..Len(v) /\ Len(u) \in Nat /\ Len(v) \in Nat
        /\ \A i \in 1..(Len(u) + Len(v)) :
              (u \o v)[i] = IF i <= Len(u) THEN u[i] ELSE v[i - Len(u)]
    OBVIOUS
  <2>2. ASSUME NEW i \in DOMAIN (u \o v) PROVE (u \o v)[i] \in ToSet(u) \cup ToSet(v)
    <3>1. CASE i <= Len(u)
      BY <2>1, <3>1 DEF ToSet
    <3>2. CASE ~(i <= Len(u))
      <4>1. i - Len(u) \in DOMAIN v
        BY <2>1, <3>2
      <4> QED  BY <2>1, <3>2, <4>1 DEF ToSet
    <3> QED  BY <3>1, <3>2
  <2> QED  BY <2>2 DEF ToSet
<1>4. /\ PendingPackets \in Seq(TxPackets)
      /\ ToSet(PendingPackets) \subseteq ({cur[server]} \ {NULL}) \cup ToSet(tx_list)
                                         \cup ({arg[server]} \ {NULL})
  <2> DEFINE first == InHand(cur[server])
             last == InHand(arg[server])
  <2>1. /\ first \in Seq(TxPackets) /\ ToSet(first) = {cur[server]} \ {NULL}
        /\ last \in Seq(TxPackets) /\ ToSet(last) = {arg[server]} \ {NULL}
    BY <1>1, <1>2
  <2> HIDE DEF first, last
  <2>2. /\ first \o tx_list \in Seq(TxPackets)
        /\ ToSet(first \o tx_list) \subseteq ToSet(first) \cup ToSet(tx_list)
    BY <1>1, <1>3, <2>1
  <2>3. /\ (first \o tx_list) \o last \in Seq(TxPackets)
        /\ ToSet((first \o tx_list) \o last)
              \subseteq ToSet(first \o tx_list) \cup ToSet(last)
    BY <1>3, <2>1, <2>2
  <2>4. PendingPackets = (first \o tx_list) \o last
    BY DEF PendingPackets, first, last
  <2> QED  BY <2>1, <2>2, <2>3, <2>4
<1>5. ({cur[server]} \ {NULL}) \cup ({arg[server]} \ {NULL}) \subseteq HeldTx
  BY <1>1 DEF HeldTx, Held
<1>6. ToSet(tx_free) \cap (ToSet(tx_list) \cup HeldTx) = {}
  BY DEF TypeInv, TxInv, TxConservation
<1> QED  BY <1>1, <1>2, <1>4, <1>5, <1>6

\* Moving packets between the hands and the queue leaves the requests alone.
LEMMA PendingSame ==
    ASSUME TypeInv, PendingPackets' = PendingPackets,
           \A p \in TxPackets : p_DoneFunc'[p] = p_DoneFunc[p]
    PROVE  PendingRequests' = PendingRequests
<1>1. \A i \in DOMAIN PendingPackets : PendingPackets[i] \in TxPackets
  BY PendingTypes
<1> QED  BY <1>1 DEF PendingRequests

\* Only a reception that finds no packet changes whether the tick is lost.
LEMMA TickLostStep ==
    ASSUME TypeInv, SigControl, [Next]_vars
    PROVE  (TickLost' <=> TickLost) \/ (RxExhausted /\ TickLost')
<1>1. ASSUME NEW t \in Tasks, Call(t) \/ Obtain(t) \/ SendQueue(t) \/ SendNew(t) \/ Reading(t)
      PROVE  TickLost' <=> TickLost
  <2>1. UNCHANGED <<got, sig, ticking>>
    BY <1>1, CallsLeaveSignals
  <2> QED  BY <2>1 DEF TickLost
<1>2. pc \in [Tasks -> Locations] /\ server \in Tasks
  BY TasksAssumption DEF TypeInv, TypeOK
<1>3. ASSUME Interrupt \/ Tick PROVE TickLost' <=> TickLost
  BY <1>3 DEF Interrupt, Tick, TickLost
<1>4. ASSUME HandleSig PROVE TickLost' <=> TickLost
  <2>1. arg[server] = NULL /\ got = {}
    BY <1>2, <1>4 DEF HandleSig, TypeInv, TxInv, TxControl, SigControl, Receiving, Flushing
  <2> QED  BY <1>4, <2>1 DEF HandleSig, TickLost
<1>5. ASSUME RxPrepared \/ RxUnprepared \/ RxAlloc PROVE TickLost' <=> TickLost
  BY <1>5 DEF RxPrepared, RxUnprepared, RxAlloc, sigVars, TickLost
<1>6. ASSUME RxExhausted PROVE (TickLost' <=> TickLost) \/ (RxExhausted /\ TickLost')
  BY <1>6 DEF RxExhausted, TickLost
<1>7. ASSUME Recv PROVE TickLost' <=> TickLost
  BY <1>7 DEF Recv, TickLost
<1>8. ASSUME TickStart PROVE TickLost' <=> TickLost
  <2>1. "tick" \in got
    BY <1>2, <1>8 DEF TickStart, TypeInv, TxInv, TxControl, SigControl, Flushing
  <2> QED  BY <1>8, <2>1 DEF TickStart, Restarted, TickLost
<1>9. CASE UNCHANGED vars
  BY <1>9 DEF vars, sigVars, TickLost
<1> QED  BY <1>1, <1>3, <1>4, <1>5, <1>6, <1>7, <1>8, <1>9 DEF Next, Serve

-----------------------------------------------------------------------------
(* The steps.                                                              *)

\* The sequence operations by which packets move.
LEMMA Moves ==
    ASSUME NEW S, NEW s \in Seq(S), NEW p \in S
    PROVE  /\ <<>> \o s = s /\ s \o <<>> = s /\ s \o <<p>> = Append(s, p)
           /\ s # <<>> => Head(s) \in S /\ Tail(s) \in Seq(S) /\ <<Head(s)>> \o Tail(s) = s
           /\ <<p>> \o s \in Seq(S) /\ Append(s, p) \in Seq(S)
<1>1. s # <<>> => Head(s) \in S /\ Tail(s) \in Seq(S) /\ <<Head(s)>> \o Tail(s) = s
  <2> SUFFICES ASSUME s # <<>>
               PROVE  Head(s) \in S /\ Tail(s) \in Seq(S) /\ <<Head(s)>> \o Tail(s) = s
    OBVIOUS
  <2>1. /\ Head(s) \in S /\ Head(s) = s[1] /\ Tail(s) \in Seq(S) /\ Len(Tail(s)) = Len(s) - 1
        /\ Len(s) \in Nat \ {0} /\ \A i \in 1..(Len(s) - 1) : Tail(s)[i] = s[i + 1]
    OBVIOUS
  <2> DEFINE u == <<Head(s)>> \o Tail(s)
  <2>2. /\ u \in Seq(S) /\ Len(u) = Len(s) /\ u[1] = s[1]
        /\ \A i \in 2..Len(s) : u[i] = Tail(s)[i - 1]
    BY <2>1
  <2> HIDE DEF u
  <2>3. \A i \in 1..Len(s) : u[i] = s[i]
    BY <2>1, <2>2
  <2>4. u = s
    BY <2>2, <2>3, SequenceEntries
  <2> QED  BY <2>1, <2>4 DEF u
<1>2. <<>> \o s = s /\ s \o <<>> = s
  BY SequenceEntries
<1>3. s \o <<p>> = Append(s, p)
  BY SequenceEntries
<1> QED  BY <1>1, <1>2, <1>3

LEMMA QueueStep ==
    ASSUME Tasks = {server}, TypeInv, SigControl, TxOrder, [Next]_vars
    PROVE  [Queue!Next]_(Queue!vars)
<1>1. /\ tx_list \in Seq(TxPackets) /\ tx_free \in Seq(TxPackets)
      /\ pc \in [{server} -> Locations]
      /\ cur \in [{server} -> TxPackets \cup {NULL}]
      /\ arg \in [{server} -> TxPackets \cup {NULL}]
      /\ p_DoneFunc \in [TxPackets \cup RxPackets -> Nat]
      /\ PendingPackets \in Seq(TxPackets)
      /\ PendingRequests = Requests(PendingPackets)
  BY PendingTypes DEF TypeInv, TypeOK, PendingRequests, Requests
<1>2. (TickLost' <=> TickLost) \/ (RxExhausted /\ TickLost')
  BY TickLostStep
\* Steps that neither accept nor complete a write.
<1>3. ASSUME PendingRequests' = PendingRequests, UNCHANGED <<writes, tx_log>>
      PROVE  [Queue!Next]_(Queue!vars)
  <2>1. CASE TickLost' <=> TickLost
    <3>1. TickLost' = TickLost
      BY <2>1 DEF TickLost
    <3> QED  BY <1>3, <3>1 DEF Queue!vars
  <2>2. CASE TickLost'
    <3>1. TickLost' = TRUE
      BY <2>2 DEF TickLost
    <3> QED  BY <1>3, <3>1 DEF Queue!Next, Queue!Fall
  <2> QED  BY <1>2, <2>1, <2>2
<1>4. ASSUME PendingPackets' = PendingPackets, UNCHANGED <<writes, tx_log, p_DoneFunc>>
      PROVE  [Queue!Next]_(Queue!vars)
  <2>1. PendingRequests' = PendingRequests
    BY <1>4, PendingSame
  <2> QED  BY <1>3, <1>4, <2>1
\* Steps that leave the tx side alone but for the packet a done function is set in.
<1>5. ASSUME NEW p \in RxPackets, NEW f, p_DoneFunc' = [p_DoneFunc EXCEPT ![p] = f],
             UNCHANGED txVars
      PROVE  [Queue!Next]_(Queue!vars)
  <2>1. PendingPackets' = PendingPackets /\ UNCHANGED <<writes, tx_log>>
    BY <1>5 DEF txVars, PendingPackets, InHand
  <2>2. \A q \in TxPackets : p_DoneFunc'[q] = p_DoneFunc[q]
    BY <1>1, <1>5, NumberFacts
  <2> QED  BY <1>3, <2>1, <2>2, PendingSame
<1>6. ASSUME UNCHANGED <<txVars, p_DoneFunc>> PROVE [Queue!Next]_(Queue!vars)
  <2>1. PendingPackets' = PendingPackets /\ UNCHANGED <<writes, tx_log, p_DoneFunc>>
    BY <1>6 DEF txVars, PendingPackets, InHand
  <2> QED  BY <1>4, <2>1
<1>7. ASSUME UNCHANGED <<tx_list, cur, arg, writes, tx_log, p_DoneFunc>>
      PROVE  [Queue!Next]_(Queue!vars)
  <2>1. PendingPackets' = PendingPackets
    BY <1>7 DEF PendingPackets, InHand
  <2> QED  BY <1>4, <1>7, <2>1
\* A completion: the packet was the first of those pending.
<1>8. ASSUME NEW p \in TxPackets, NEW s \in Seq(TxPackets), NEW result \in Results,
             PendingPackets = <<p>> \o s, PendingPackets' = s, DoneTx(p, result),
             UNCHANGED <<writes, p_DoneFunc>>, TickLost' <=> TickLost
      PROVE  [Queue!Next]_(Queue!vars)
  <2>1. PendingRequests' = Requests(s)
    BY <1>8 DEF PendingRequests, Requests
  <2>2. /\ PendingRequests # <<>> /\ Head(PendingRequests) = p_DoneFunc[p]
        /\ PendingRequests' = Tail(PendingRequests)
    BY <1>1, <1>8, <2>1, RequestsTail
  <2>3. tx_log' = Append(tx_log, [func |-> Head(PendingRequests), result |-> result])
    BY <1>8, <2>2 DEF DoneTx
  <2>4. TickLost' = TickLost
    BY <1>8 DEF TickLost
  <2>5. Queue!Complete
    BY <1>8, <2>2, <2>3, <2>4 DEF Queue!Complete
  <2> QED  BY <2>5 DEF Queue!Next
<1>9. ASSUME Write(server) PROVE [Queue!Next]_(Queue!vars)
  <2> DEFINE p == Head(tx_free)
  <2>1. /\ tx_free # <<>> /\ pc[server] = "idle" /\ UNCHANGED <<tx_list, cur, tx_log>>
        /\ arg' = [arg EXCEPT ![server] = p] /\ writes' = writes + 1
        /\ p_DoneFunc' = [p_DoneFunc EXCEPT ![p] = writes + 1]
    BY <1>9 DEF Write, AllocTx
  <2>2. arg[server] = NULL /\ cur[server] = NULL
    BY <2>1, TasksAssumption DEF TypeInv, TxInv, TxControl
  <2>3. p \in TxPackets /\ p \in ToSet(tx_free) /\ p # NULL
    BY <1>1, <2>1, PacketFacts, RemHeadList DEF TypeInv, TxInv, TxConservation
  <2>4. /\ InHand(cur[server]) = <<>> /\ InHand(arg[server]) = <<>>
        /\ InHand(cur'[server]) = <<>> /\ InHand(arg'[server]) = <<p>>
    BY <1>1, <2>1, <2>2, <2>3 DEF InHand
  <2>5. PendingPackets = tx_list /\ PendingPackets' = Append(tx_list, p)
    <3>1. PendingPackets = (<<>> \o tx_list) \o <<>>
      BY <2>4 DEF PendingPackets
    <3>2. PendingPackets' = (<<>> \o tx_list) \o <<p>>
      BY <2>1, <2>4 DEF PendingPackets
    <3>3. /\ <<>> \o tx_list = tx_list /\ tx_list \o <<>> = tx_list
          /\ tx_list \o <<p>> = Append(tx_list, p)
      BY <1>1, <2>3, Moves
    <3> QED  BY <3>1, <3>2, <3>3
  <2>6. p \notin ToSet(tx_list)
    BY <2>3, <2>5, PendingTypes
  <2>7. PendingRequests' = Append(PendingRequests, writes + 1)
    <3>1. PendingRequests' = [i \in DOMAIN Append(tx_list, p) |->
                                 p_DoneFunc'[Append(tx_list, p)[i]]]
      BY <2>5 DEF PendingRequests
    <3>2. PendingRequests = Requests(tx_list)
      BY <1>1, <2>5
    <3> HIDE DEF p
    <3> QED  BY <1>1, <2>1, <2>3, <2>6, <3>1, <3>2, RequestsAppend
  <2>8. TickLost' = TickLost
    BY <1>2, <1>9, <2>1 DEF RxExhausted, TickLost
  <2>9. Queue!Accept
    BY <2>1, <2>7, <2>8 DEF Queue!Accept
  <2> QED  BY <2>9 DEF Queue!Next
<1>10. ASSUME WriteSendOk(server) PROVE [Queue!Next]_(Queue!vars)
  <2> DEFINE p == arg[server]
  <2>1. /\ pc[server] = "write_send" /\ DoneTx(p, "OK") /\ arg' = [arg EXCEPT ![server] = NULL]
        /\ UNCHANGED <<tx_list, cur, writes, p_DoneFunc>>
    BY <1>10 DEF WriteSendOk
  <2>2. /\ cur[server] = NULL /\ p # NULL /\ p \in TxPackets /\ tx_list = <<>>
    BY <1>1, <2>1, TasksAssumption DEF TypeInv, TxInv, TxControl, TxOrder
  <2>3. /\ InHand(cur[server]) = <<>> /\ InHand(arg[server]) = <<p>>
        /\ InHand(cur'[server]) = <<>> /\ InHand(arg'[server]) = <<>>
    BY <1>1, <2>1, <2>2 DEF InHand
  <2>4. PendingPackets = <<p>> \o <<>> /\ PendingPackets' = <<>>
    BY <2>1, <2>2, <2>3 DEF PendingPackets
  <2>5. TickLost' <=> TickLost
    BY <1>2, <2>1 DEF RxExhausted
  <2>6. <<>> \in Seq(TxPackets) /\ "OK" \in Results
    BY DEF Results
  <2> QED  BY <1>8, <2>1, <2>2, <2>4, <2>5, <2>6
<1>11. ASSUME WriteQueue(server) PROVE [Queue!Next]_(Queue!vars)
  <2> DEFINE p == arg[server]
  <2>1. /\ pc[server] = "write_queue" /\ arg' = [arg EXCEPT ![server] = NULL]
        /\ tx_list' = Append(tx_list, p) /\ UNCHANGED <<cur, writes, tx_log, p_DoneFunc>>
    BY <1>11 DEF WriteQueue, AddTail
  <2>2. cur[server] = NULL /\ p # NULL /\ p \in TxPackets
    BY <1>1, <2>1, TasksAssumption DEF TypeInv, TxInv, TxControl
  <2>3. /\ InHand(cur[server]) = <<>> /\ InHand(arg[server]) = <<p>>
        /\ InHand(cur'[server]) = <<>> /\ InHand(arg'[server]) = <<>>
    BY <1>1, <2>1, <2>2 DEF InHand
  <2>4. PendingPackets' = PendingPackets
    BY <1>1, <2>1, <2>2, <2>3, Moves DEF PendingPackets
  <2> QED  BY <1>4, <2>1, <2>4
<1>12. ASSUME QueueNext(server) PROVE [Queue!Next]_(Queue!vars)
  <2> DEFINE p == Head(tx_list)
  <2>1. /\ pc[server] = "loop" /\ tx_list # <<>> /\ cur' = [cur EXCEPT ![server] = p]
        /\ tx_list' = Tail(tx_list) /\ UNCHANGED <<arg, writes, tx_log, p_DoneFunc>>
    BY <1>12 DEF QueueNext
  <2>2. cur[server] = NULL /\ p \in TxPackets /\ p # NULL /\ <<p>> \o Tail(tx_list) = tx_list
    BY <1>1, <2>1, TasksAssumption, PacketFacts, Moves DEF TypeInv, TxInv, TxControl
  <2>3. /\ InHand(cur[server]) = <<>> /\ InHand(cur'[server]) = <<p>>
        /\ InHand(arg'[server]) = InHand(arg[server])
    BY <1>1, <2>1, <2>2 DEF InHand
  <2>4. PendingPackets' = PendingPackets
    <3> DEFINE rest == InHand(arg[server])
    <3>1. PendingPackets = (<<>> \o tx_list) \o rest
      BY <2>3 DEF PendingPackets
    <3>2. PendingPackets' = (<<p>> \o Tail(tx_list)) \o rest
      BY <2>1, <2>3 DEF PendingPackets
    <3>3. <<>> \o tx_list = tx_list
      BY <1>1, <2>2, Moves
    <3> HIDE DEF rest
    <3> QED  BY <2>2, <3>1, <3>2, <3>3
  <2> QED  BY <1>4, <2>1, <2>4
\* handle_tx_queue has tried to send the first packet.
<1>13. ASSUME pc[server] = "queue_send", cur' = [cur EXCEPT ![server] = NULL],
              UNCHANGED <<arg, writes, p_DoneFunc>>,
              \/ /\ UNCHANGED tx_list
                 /\ \E result \in Results : DoneTx(cur[server], result)
              \/ /\ tx_list' = <<cur[server]>> \o tx_list
                 /\ UNCHANGED tx_log
       PROVE  [Queue!Next]_(Queue!vars)
  <2> DEFINE p == cur[server]
             rest == InHand(arg[server])
  <2>1. p \in TxPackets /\ p # NULL /\ rest \in Seq(TxPackets)
    BY <1>1, <1>13, TasksAssumption, PendingTypes DEF TypeInv, TxInv, TxControl
  <2>2. /\ InHand(cur[server]) = <<p>> /\ InHand(cur'[server]) = <<>>
        /\ InHand(arg'[server]) = rest
    BY <1>1, <1>13, <2>1 DEF InHand
  <2>3. TickLost' <=> TickLost
    BY <1>2, <1>13 DEF RxExhausted
  <2> HIDE DEF rest
  <2>4. /\ PendingPackets = <<p>> \o (tx_list \o rest)
        /\ PendingPackets = (<<p>> \o tx_list) \o rest
        /\ PendingPackets' = tx_list' \o rest \/ tx_list' \notin Seq(TxPackets)
        /\ tx_list \o rest \in Seq(TxPackets)
    <3>1. PendingPackets = (<<p>> \o tx_list) \o rest
      BY <2>2 DEF PendingPackets, rest
    <3>2. PendingPackets' = (<<>> \o tx_list') \o rest
      BY <2>2 DEF PendingPackets
    <3>3. (<<p>> \o tx_list) \o rest = <<p>> \o (tx_list \o rest)
      <4>1. <<p>> \in Seq(TxPackets) /\ tx_list \in Seq(TxPackets)
        BY <1>1, <2>1
      <4> HIDE DEF p
      <4> QED  BY <2>1, <4>1, ConcatAssociative
    <3> QED  BY <1>1, <2>1, <3>1, <3>2, <3>3, Moves
  <2>5. CASE UNCHANGED tx_list /\ \E result \in Results : DoneTx(cur[server], result)
    <3>1. PendingPackets' = tx_list \o rest
      BY <1>1, <2>4, <2>5
    <3> QED  BY <1>8, <1>13, <2>1, <2>3, <2>4, <2>5, <3>1
  <2>6. CASE tx_list' = <<cur[server]>> \o tx_list /\ UNCHANGED tx_log
    <3>1. tx_list' \in Seq(TxPackets)
      BY <1>1, <2>1, <2>6, Moves
    <3>2. PendingPackets' = PendingPackets
      BY <2>4, <2>6, <3>1
    <3> QED  BY <1>4, <1>13, <2>6, <3>2
  <2> QED  BY <1>13, <2>5, <2>6
<1>14. ASSUME QueueSendOk(server) PROVE [Queue!Next]_(Queue!vars)
  BY <1>13, <1>14 DEF QueueSendOk, Results
<1>15. ASSUME QueueSendFail(server) PROVE [Queue!Next]_(Queue!vars)
  BY <1>13, <1>15 DEF QueueSendFail, Requeue, Results
<1>16. ASSUME ObtainTx(server) \/ QueueEmpty(server) \/ WriteSendFail(server)
       PROVE  [Queue!Next]_(Queue!vars)
  BY <1>7, <1>16 DEF ObtainTx, QueueEmpty, WriteSendFail
<1>17. ASSUME ReadQueue(server) PROVE [Queue!Next]_(Queue!vars)
  <2>1. Head(rx_free) \in RxPackets
    BY <1>17 DEF ReadQueue, AllocRx, TypeInv, TypeOK
  <2> QED  BY <1>5, <1>17, <2>1 DEF ReadQueue
<1>18. ASSUME RxAlloc PROVE [Queue!Next]_(Queue!vars)
  <2>1. Head(rx_free) \in RxPackets
    BY <1>18 DEF RxAlloc, AllocRx, TypeInv, TypeOK
  <2> QED  BY <1>5, <1>18, <2>1 DEF RxAlloc
<1>19. ASSUME \/ ReadFilled(server) \/ ReadNone(server) \/ ReadFail(server)
              \/ Interrupt \/ Tick \/ HandleSig \/ RxPrepared \/ RxUnprepared
              \/ RxExhausted \/ Recv \/ TickStart
       PROVE  [Queue!Next]_(Queue!vars)
  BY <1>6, <1>19 DEF ReadFilled, ReadNone, ReadFail, Interrupt, Tick, HandleSig, RxPrepared,
                     RxUnprepared, RxExhausted, Recv, TickStart
<1>20. CASE UNCHANGED vars
  BY <1>6, <1>20 DEF vars
<1> QED  BY <1>9, <1>10, <1>11, <1>12, <1>14, <1>15, <1>16, <1>17, <1>18, <1>19, <1>20
         DEF Next, Call, Obtain, SendQueue, SendNew, Reading, Serve

LEMMA TxOrderNext == Tasks = {server} /\ TypeInv /\ TxOrder /\ [Next]_vars => TxOrder'
<1> SUFFICES ASSUME Tasks = {server}, TypeInv, TxOrder, [Next]_vars PROVE TxOrder'
  OBVIOUS
<1>1. pc \in [{server} -> Locations]
  BY DEF TypeInv, TypeOK
<1>2. ASSUME QueueEmpty(server) PROVE TxOrder'
  BY <1>2 DEF QueueEmpty, TxOrder
<1>3. ASSUME UNCHANGED <<pc, tx_list>> PROVE TxOrder'
  BY <1>3 DEF TxOrder
<1>4. ASSUME pc'[server] # "write_send" PROVE TxOrder'
  BY <1>4 DEF TxOrder
<1>5. ASSUME Write(server) \/ ReadNone(server) \/ Obtain(server) \/ SendNew(server)
             \/ Reading(server) \/ QueueNext(server) \/ QueueSendOk(server)
      PROVE  TxOrder'
  BY <1>1, <1>4, <1>5 DEF Write, ReadNone, Obtain, ObtainTx, WriteQueue, SendNew,
     WriteSendOk, WriteSendFail, Reading, ReadQueue, ReadFail, QueueNext, QueueSendOk
<1>6. ASSUME QueueSendFail(server) PROVE TxOrder'
  <2>1. After(server, FALSE) # "write_send"
    BY DEF After
  <2> QED  BY <1>1, <1>4, <1>6, <2>1 DEF QueueSendFail
<1>7. ASSUME HandleSig \/ Serve PROVE TxOrder'
  BY <1>1, <1>4, <1>7 DEF HandleSig, Serve, RxPrepared, RxUnprepared, RxAlloc, RxExhausted,
     Recv, TickStart
<1>8. ASSUME ReadFilled(server) \/ Interrupt \/ Tick \/ UNCHANGED vars PROVE TxOrder'
  BY <1>3, <1>8 DEF ReadFilled, Interrupt, Tick, vars, txVars
<1> QED  BY <1>2, <1>5, <1>6, <1>7, <1>8 DEF Next, Call, SendQueue

\* With one task the engine keeps the promise of TxQueue at every step:
\* writes are accepted in the order of the calls and completed in that order,
\* each once, whatever the pools, the limit of retries, the answers of
\* par_send and par_recv, the ticks and the interrupts.
THEOREM EngineIsQueue == Tasks = {server} => (Spec => Queue!Safety)
<1> SUFFICES ASSUME Tasks = {server} PROVE Spec => Queue!Safety
  OBVIOUS
<1>1. Init => Queue!Init
  <2> SUFFICES ASSUME Init PROVE Queue!Init
    OBVIOUS
  <2>1. /\ tx_list = <<>> /\ cur[server] = NULL /\ arg[server] = NULL
        /\ writes = 0 /\ tx_log = <<>> /\ ticking
    BY TasksAssumption DEF Init
  <2>2. PendingPackets = <<>>
    BY <2>1 DEF PendingPackets, InHand
  <2>3. PendingRequests = <<>>
    BY <2>2 DEF PendingRequests
  <2>4. TickLost = FALSE
    BY <2>1 DEF TickLost
  <2> QED  BY <2>1, <2>3, <2>4 DEF Queue!Init
<1>2. Init => TxOrder
  BY DEF Init, TxOrder
<1>3. TypeInv /\ SigControl /\ TxOrder /\ [Next]_vars => [Queue!Next]_(Queue!vars)
  BY QueueStep
<1>4. TypeInv /\ TxOrder /\ [Next]_vars => TxOrder'
  BY TxOrderNext
<1> QED  BY <1>1, <1>2, <1>3, <1>4, SigInvariant, PTL DEF Spec, Queue!Safety
=============================================================================
