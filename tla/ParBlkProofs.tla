---------------------------- MODULE ParBlkProofs ----------------------------
(***************************************************************************)
(* What holds of the packet engine for any number of tasks, any size of    *)
(* the pools and any limit of retries.                                     *)
(***************************************************************************)
EXTENDS ParBlk, FiniteSetTheorems, TLAPS

-----------------------------------------------------------------------------
(* The list operations on lists that hold every packet once at most.       *)

\* RemHead takes one packet out of the list and leaves the others there once.
LEMMA RemHeadList ==
    ASSUME NEW S, NEW s \in Seq(S), s # <<>>, IsInjective(s)
    PROVE  /\ Head(s) \in S /\ Head(s) \in ToSet(s)
           /\ Tail(s) \in Seq(S) /\ IsInjective(Tail(s))
           /\ ToSet(Tail(s)) = ToSet(s) \ {Head(s)}
<1>1. Head(s) = s[1] /\ 1 \in DOMAIN s /\ Head(s) \in S
  OBVIOUS
<1>2. /\ Tail(s) \in Seq(S) /\ DOMAIN Tail(s) = 1..(Len(s) - 1)
      /\ \A i \in DOMAIN Tail(s) : i + 1 \in DOMAIN s /\ Tail(s)[i] = s[i + 1]
  OBVIOUS
<1>3. IsInjective(Tail(s))
  BY <1>2 DEF IsInjective
<1>4. ToSet(Tail(s)) \subseteq ToSet(s) \ {Head(s)}
  BY <1>1, <1>2 DEF ToSet, IsInjective
<1>5. ASSUME NEW x \in ToSet(s) \ {Head(s)} PROVE x \in ToSet(Tail(s))
  <2>1. PICK i \in DOMAIN s : s[i] = x
    BY DEF ToSet
  <2>2. i - 1 \in DOMAIN Tail(s)
    BY <1>1, <1>2, <2>1
  <2> QED  BY <1>2, <2>1, <2>2 DEF ToSet
<1> QED  BY <1>1, <1>2, <1>3, <1>4, <1>5 DEF ToSet

\* AddTail of a packet that is not in the list.
LEMMA AddTailList ==
    ASSUME NEW S, NEW s \in Seq(S), NEW p \in S, p \notin ToSet(s), IsInjective(s)
    PROVE  /\ Append(s, p) \in Seq(S) /\ IsInjective(Append(s, p))
           /\ ToSet(Append(s, p)) = ToSet(s) \cup {p}
<1>1. /\ Append(s, p) \in Seq(S) /\ DOMAIN Append(s, p) = 1..(Len(s) + 1)
      /\ \A i \in DOMAIN s : Append(s, p)[i] = s[i]
      /\ Append(s, p)[Len(s) + 1] = p /\ DOMAIN s = 1..Len(s)
  OBVIOUS
<1>2. IsInjective(Append(s, p))
  BY <1>1 DEF IsInjective, ToSet
<1>3. ToSet(Append(s, p)) \subseteq ToSet(s) \cup {p}
  BY <1>1 DEF ToSet
<1>4. ToSet(s) \cup {p} \subseteq ToSet(Append(s, p))
  BY <1>1 DEF ToSet
<1> QED  BY <1>1, <1>2, <1>3, <1>4

\* AddHead of a packet that is not in the list.
LEMMA AddHeadList ==
    ASSUME NEW S, NEW s \in Seq(S), NEW p \in S, p \notin ToSet(s), IsInjective(s)
    PROVE  /\ <<p>> \o s \in Seq(S) /\ IsInjective(<<p>> \o s)
           /\ ToSet(<<p>> \o s) = ToSet(s) \cup {p}
<1>1. /\ <<p>> \o s \in Seq(S) /\ DOMAIN (<<p>> \o s) = 1..(Len(s) + 1)
      /\ \A i \in DOMAIN s : (<<p>> \o s)[i + 1] = s[i]
      /\ \A i \in 2..(Len(s) + 1) : (<<p>> \o s)[i] = s[i - 1]
      /\ (<<p>> \o s)[1] = p /\ DOMAIN s = 1..Len(s)
  OBVIOUS
<1>2. IsInjective(<<p>> \o s)
  BY <1>1 DEF IsInjective, ToSet
<1>3. ToSet(<<p>> \o s) \subseteq ToSet(s) \cup {p}
  BY <1>1 DEF ToSet
<1>4. ToSet(s) \cup {p} \subseteq ToSet(<<p>> \o s)
  <2>1. \A i \in DOMAIN s : i + 1 \in DOMAIN (<<p>> \o s)
    BY <1>1
  <2> QED  BY <1>1, <2>1 DEF ToSet
<1> QED  BY <1>1, <1>2, <1>3, <1>4

-----------------------------------------------------------------------------
(* The tx side: pool, queue and the packets in hand.                       *)

TxTypeOK ==
    /\ tx_free \in Seq(TxPackets) /\ tx_list \in Seq(TxPackets)
    /\ p_Retries \in [TxPackets -> Nat]
    /\ pc \in [Tasks -> Locations]
    /\ arg \in [Tasks -> TxPackets \cup {NULL}]
    /\ cur \in [Tasks -> TxPackets \cup {NULL}]

TxInv == TxTypeOK /\ TxControl /\ TxConservation

\* NULL is no packet, and a limit of retries leaves room for two attempts.
LEMMA PacketFacts ==
    /\ NULL \notin TxPackets /\ NULL \notin RxPackets
    /\ max_retries \in Nat /\ 1 < max_retries
BY SizeAssumption, RetryAssumption DEF TxPackets, RxPackets, NULL

\* A completion is added to a log.
LEMMA AppendFacts ==
    ASSUME NEW S, NEW s \in Seq(S), NEW e
    PROVE  /\ DOMAIN Append(s, e) = DOMAIN s \cup {Len(s) + 1}
           /\ \A i \in DOMAIN s : Append(s, e)[i] = s[i]
           /\ Append(s, e)[Len(s) + 1] = e /\ Len(Append(s, e)) = Len(s) + 1
           /\ Len(s) + 1 \notin DOMAIN s
OBVIOUS

LEMMA TxInit == Init => TxInv
<1> SUFFICES ASSUME Init PROVE TxInv
  OBVIOUS
<1>1. /\ tx_free \in Seq(TxPackets) /\ DOMAIN tx_free = TxPackets
      /\ \A i \in TxPackets : tx_free[i] = tx_pkt_size + 1 - i
  BY SizeAssumption DEF Init, PoolsInit, TxPackets
<1>2. IsInjective(tx_free)
  BY <1>1, SizeAssumption DEF IsInjective, TxPackets
<1>3. ToSet(tx_free) = TxPackets
  <2>1. ToSet(tx_free) \subseteq TxPackets
    BY <1>1 DEF ToSet
  <2>2. ASSUME NEW p \in TxPackets PROVE p \in ToSet(tx_free)
    <3>1. tx_pkt_size + 1 - p \in TxPackets
      BY SizeAssumption DEF TxPackets
    <3>2. tx_free[tx_pkt_size + 1 - p] = p
      BY <1>1, <3>1, SizeAssumption DEF TxPackets
    <3> QED  BY <1>1, <3>1, <3>2 DEF ToSet
  <2> QED  BY <2>1, <2>2
<1>4. tx_list = <<>> /\ ToSet(tx_list) = {} /\ IsInjective(tx_list)
  BY DEF Init, PoolsInit, ToSet, IsInjective
<1>5. TxTypeOK
  BY <1>1, <1>4 DEF Init, PoolsInit, TxTypeOK, Locations
<1>6. HeldTx = {}
  BY DEF Init, PoolsInit, HeldTx, Held
<1>7. TxControl
  BY <1>4 DEF Init, PoolsInit, TxControl
<1>8. TxConservation
  BY <1>2, <1>3, <1>4, <1>6 DEF Init, PoolsInit, TxConservation, Held
<1> QED  BY <1>5, <1>7, <1>8 DEF TxInv

\* Steps that leave packets and lists alone: only the place of a task changes,
\* within places where it holds the same packets.
LEMMA TxSame ==
    ASSUME TxInv, UNCHANGED <<tx_free, tx_list, p_Retries, arg, cur>>,
           pc' \in [Tasks -> Locations],
           \A t \in Tasks :
              \/ pc'[t] = pc[t]
              \/ /\ arg[t] = NULL /\ cur[t] = NULL
                 /\ pc'[t] \notin {"queue_send", "write_send", "write_queue"}
              \/ /\ arg[t] # NULL /\ cur[t] = NULL
                 /\ pc[t] # "write_queue"
                 /\ pc'[t] \in {"loop", "write_send"}
    PROVE  TxInv'
<1>1. TxTypeOK'
  BY DEF TxInv, TxTypeOK
<1>2. TxControl'
  BY DEF TxInv, TxControl, TxTypeOK
<1>3. TxConservation'
  BY DEF TxInv, TxConservation, HeldTx, Held
<1> QED  BY <1>1, <1>2, <1>3 DEF TxInv

\* parblk_write takes a packet from the pool.
LEMMA TxWrite == ASSUME TxInv, NEW t \in Tasks, Write(t) PROVE TxInv'
<1> DEFINE p == Head(tx_free)
<1>1. /\ tx_free # <<>> /\ tx_free' = Tail(tx_free)
      /\ arg' = [arg EXCEPT ![t] = p] /\ UNCHANGED <<tx_list, cur>>
      /\ p_Retries' = [p_Retries EXCEPT ![p] = 0]
      /\ pc[t] = "idle" /\ pc' = [pc EXCEPT ![t] = "flush"]
  BY DEF Write, AllocTx
<1>2. /\ p \in TxPackets /\ p \in ToSet(tx_free)
      /\ tx_free' \in Seq(TxPackets) /\ IsInjective(tx_free')
      /\ ToSet(tx_free') = ToSet(tx_free) \ {p}
  BY <1>1, RemHeadList DEF TxInv, TxTypeOK, TxConservation
<1>3. arg[t] = NULL /\ cur[t] = NULL
  BY <1>1 DEF TxInv, TxControl
<1>4. p # NULL /\ p \notin ToSet(tx_list) /\ \A u \in Tasks : p # arg[u] /\ p # cur[u]
  BY <1>2, PacketFacts DEF TxInv, TxConservation, HeldTx, Held
<1>5. TxTypeOK'
  BY <1>1, <1>2 DEF TxInv, TxTypeOK, Locations
<1>6. TxControl'
  BY <1>1, <1>2, <1>3, <1>4, PacketFacts DEF TxInv, TxControl, TxTypeOK
<1>7. TxConservation'
  <2>1. /\ \A u \in Tasks \ {t} : Held(u)' = Held(u)
        /\ Held(t) = {} /\ Held(t)' = {p} /\ HeldTx' = HeldTx \cup {p}
    BY <1>1, <1>3, <1>4 DEF TxInv, TxTypeOK, HeldTx, Held
  <2>2. p \notin HeldTx /\ HeldTx \cap ToSet(tx_free) = {}
    BY <1>2 DEF TxInv, TxConservation
  <2>3. \A u, v \in Tasks : u # v => Held(u)' \cap Held(v)' = {}
    BY <2>1, <2>2 DEF TxInv, TxConservation, HeldTx
  <2>4. \A u \in Tasks : arg'[u] = cur'[u] => arg'[u] = NULL
    BY <1>1, <1>3, <1>4 DEF TxInv, TxConservation, TxTypeOK
  <2> QED  BY <1>1, <1>2, <1>4, <2>1, <2>2, <2>3, <2>4 DEF TxInv, TxConservation
<1> QED  BY <1>5, <1>6, <1>7 DEF TxInv

\* A call gives the packet of its parblk_write back, to the pool or the queue.
LEMMA TxReturnArg ==
    ASSUME TxInv, NEW t \in Tasks, pc[t] \in {"write_send", "write_queue"},
           arg' = [arg EXCEPT ![t] = NULL], pc' = [pc EXCEPT ![t] = "idle"],
           UNCHANGED <<cur, p_Retries>>,
           \/ tx_free' = Append(tx_free, arg[t]) /\ UNCHANGED tx_list
           \/ tx_list' = Append(tx_list, arg[t]) /\ UNCHANGED tx_free
    PROVE  TxInv'
<1> DEFINE p == arg[t]
<1>1. p \in TxPackets /\ p # NULL /\ cur[t] = NULL /\ p_Retries[p] < max_retries
  BY DEF TxInv, TxControl, TxTypeOK
<1>2. p \in HeldTx /\ p \notin ToSet(tx_free) /\ p \notin ToSet(tx_list)
  BY <1>1 DEF TxInv, TxConservation, HeldTx, Held
<1>3. \/ /\ tx_free' \in Seq(TxPackets) /\ IsInjective(tx_free') /\ UNCHANGED tx_list
         /\ ToSet(tx_free') = ToSet(tx_free) \cup {p}
      \/ /\ tx_list' \in Seq(TxPackets) /\ IsInjective(tx_list') /\ UNCHANGED tx_free
         /\ ToSet(tx_list') = ToSet(tx_list) \cup {p}
  <2>1. /\ Append(tx_free, p) \in Seq(TxPackets) /\ IsInjective(Append(tx_free, p))
        /\ ToSet(Append(tx_free, p)) = ToSet(tx_free) \cup {p}
    BY <1>1, <1>2, AddTailList DEF TxInv, TxTypeOK, TxConservation
  <2>2. /\ Append(tx_list, p) \in Seq(TxPackets) /\ IsInjective(Append(tx_list, p))
        /\ ToSet(Append(tx_list, p)) = ToSet(tx_list) \cup {p}
    BY <1>1, <1>2, AddTailList DEF TxInv, TxTypeOK, TxConservation
  <2> QED  BY <2>1, <2>2
<1>4. TxTypeOK'
  BY <1>3 DEF TxInv, TxTypeOK, Locations
<1>5. TxControl'
  BY <1>1, <1>3 DEF TxInv, TxControl, TxTypeOK
<1>6. TxConservation'
  <2>1. /\ \A u \in Tasks \ {t} : Held(u)' = Held(u)
        /\ Held(t) = {p} /\ Held(t)' = {}
    BY <1>1 DEF TxInv, TxTypeOK, Held
  <2>2. HeldTx' = HeldTx \ {p}
    BY <2>1 DEF TxInv, TxConservation, HeldTx
  <2>3. \A u \in Tasks : arg'[u] = cur'[u] => arg'[u] = NULL
    BY DEF TxInv, TxConservation, TxTypeOK
  <2> QED  BY <1>2, <1>3, <2>1, <2>2, <2>3 DEF TxInv, TxConservation
<1> QED  BY <1>4, <1>5, <1>6 DEF TxInv

LEMMA TxWriteSendFail == ASSUME TxInv, NEW t \in Tasks, WriteSendFail(t) PROVE TxInv'
<1>1. /\ pc[t] = "write_send" /\ pc' = [pc EXCEPT ![t] = "write_queue"]
      /\ p_Retries' = [p_Retries EXCEPT ![arg[t]] = @ + 1]
      /\ UNCHANGED <<tx_free, tx_list, arg, cur>>
  BY DEF WriteSendFail, CountFailure
<1>2. arg[t] \in TxPackets /\ arg[t] # NULL /\ p_Retries[arg[t]] = 0
  BY <1>1 DEF TxInv, TxControl, TxTypeOK
<1>3. /\ arg[t] \notin ToSet(tx_list)
      /\ \A u \in Tasks : cur[u] # arg[t] /\ (u # t => arg[u] # arg[t])
  BY <1>2 DEF TxInv, TxConservation, HeldTx, Held
<1>4. TxTypeOK'
  BY <1>1, <1>2 DEF TxInv, TxTypeOK, Locations
<1>5. TxControl'
  <2>1. \A u \in Tasks : cur'[u] # NULL <=> pc'[u] = "queue_send"
    BY <1>1 DEF TxInv, TxControl, TxTypeOK
  <2>2. p_Retries'[arg[t]] = 1
    BY <1>1, <1>2 DEF TxInv, TxTypeOK
  <2>3. \A q \in TxPackets : q # arg[t] => p_Retries'[q] = p_Retries[q]
    BY <1>1 DEF TxInv, TxTypeOK
  <2>4. \A q \in ToSet(tx_list) : q \in TxPackets
    BY DEF TxInv, TxTypeOK, ToSet
  <2> QED  BY <1>1, <1>2, <1>3, <2>1, <2>2, <2>3, <2>4, PacketFacts
           DEF TxInv, TxControl, TxTypeOK
<1>6. TxConservation'
  BY <1>1 DEF TxInv, TxConservation, HeldTx, Held
<1> QED  BY <1>4, <1>5, <1>6 DEF TxInv

\* handle_tx_queue takes the first packet of the queue.
LEMMA TxQueueNext == ASSUME TxInv, NEW t \in Tasks, QueueNext(t) PROVE TxInv'
<1> DEFINE p == Head(tx_list)
<1>1. /\ pc[t] = "loop" /\ pc' = [pc EXCEPT ![t] = "queue_send"]
      /\ tx_list # <<>> /\ tx_list' = Tail(tx_list)
      /\ cur' = [cur EXCEPT ![t] = p]
      /\ UNCHANGED <<tx_free, p_Retries, arg>>
  BY DEF QueueNext
<1>2. /\ p \in TxPackets /\ p \in ToSet(tx_list)
      /\ tx_list' \in Seq(TxPackets) /\ IsInjective(tx_list')
      /\ ToSet(tx_list') = ToSet(tx_list) \ {p}
  BY <1>1, RemHeadList DEF TxInv, TxTypeOK, TxConservation
<1>3. cur[t] = NULL /\ p # NULL /\ p_Retries[p] < max_retries
  BY <1>1, <1>2, PacketFacts DEF TxInv, TxControl
<1>4. p \notin ToSet(tx_free) /\ \A u \in Tasks : p # arg[u] /\ p # cur[u]
  BY <1>2, <1>3 DEF TxInv, TxConservation, HeldTx, Held
<1>5. TxTypeOK'
  BY <1>1, <1>2 DEF TxInv, TxTypeOK, Locations
<1>6. TxControl'
  BY <1>1, <1>2, <1>3 DEF TxInv, TxControl, TxTypeOK
<1>7. TxConservation'
  <2>1. /\ \A u \in Tasks \ {t} : Held(u)' = Held(u)
        /\ Held(t)' = Held(t) \cup {p} /\ HeldTx' = HeldTx \cup {p}
    BY <1>1, <1>3, <1>4 DEF TxInv, TxTypeOK, HeldTx, Held
  <2>2. p \notin HeldTx
    BY <1>4 DEF HeldTx, Held
  <2>3. \A u, v \in Tasks : u # v => Held(u)' \cap Held(v)' = {}
    BY <2>1, <2>2 DEF TxInv, TxConservation, HeldTx
  <2>4. \A u \in Tasks : arg'[u] = cur'[u] => arg'[u] = NULL
    BY <1>1, <1>4 DEF TxInv, TxConservation, TxTypeOK
  <2> QED  BY <1>1, <1>2, <1>4, <2>1, <2>2, <2>3, <2>4 DEF TxInv, TxConservation
<1> QED  BY <1>5, <1>6, <1>7 DEF TxInv

\* handle_tx_queue is through with the packet it took: it goes to the pool, or
\* with one more failure to the head of the queue.
LEMMA TxReturnCur ==
    ASSUME TxInv, NEW t \in Tasks, pc[t] = "queue_send",
           cur' = [cur EXCEPT ![t] = NULL], UNCHANGED arg,
           \/ /\ pc' = [pc EXCEPT ![t] = "loop"]
              /\ UNCHANGED p_Retries
           \/ /\ pc' = [pc EXCEPT ![t] = After(t, FALSE)]
              /\ p_Retries' = [p_Retries EXCEPT ![cur[t]] = @ + 1],
           \/ tx_free' = Append(tx_free, cur[t]) /\ UNCHANGED tx_list
           \/ /\ tx_list' = <<cur[t]>> \o tx_list /\ UNCHANGED tx_free
              /\ p_Retries'[cur[t]] < max_retries
    PROVE  TxInv'
<1> DEFINE p == cur[t]
<1>1. p \in TxPackets /\ p # NULL
  BY DEF TxInv, TxControl, TxTypeOK
<1>2. /\ p \in HeldTx /\ p \notin ToSet(tx_free) /\ p \notin ToSet(tx_list)
      /\ \A u \in Tasks : arg[u] # p /\ (u # t => cur[u] # p)
  <2>1. p \in Held(t)
    BY <1>1 DEF Held
  <2>2. p \in HeldTx
    BY <2>1 DEF HeldTx
  <2>3. \A u \in Tasks : u # t => p \notin Held(u)
    BY <2>1 DEF TxInv, TxConservation
  <2>4. arg[t] # p
    BY <1>1 DEF TxInv, TxConservation
  <2>5. \A u \in Tasks : u # t => arg[u] # p /\ cur[u] # p
    BY <1>1, <2>3 DEF Held
  <2> QED  BY <2>2, <2>4, <2>5 DEF TxInv, TxConservation
<1>3. \/ /\ tx_free' \in Seq(TxPackets) /\ IsInjective(tx_free') /\ UNCHANGED tx_list
         /\ ToSet(tx_free') = ToSet(tx_free) \cup {p}
      \/ /\ tx_list' \in Seq(TxPackets) /\ IsInjective(tx_list') /\ UNCHANGED tx_free
         /\ ToSet(tx_list') = ToSet(tx_list) \cup {p}
         /\ p_Retries'[p] < max_retries
  <2>1. /\ Append(tx_free, p) \in Seq(TxPackets) /\ IsInjective(Append(tx_free, p))
        /\ ToSet(Append(tx_free, p)) = ToSet(tx_free) \cup {p}
    BY <1>1, <1>2, AddTailList DEF TxInv, TxTypeOK, TxConservation
  <2>2. /\ <<p>> \o tx_list \in Seq(TxPackets) /\ IsInjective(<<p>> \o tx_list)
        /\ ToSet(<<p>> \o tx_list) = ToSet(tx_list) \cup {p}
    BY <1>1, <1>2, AddHeadList DEF TxInv, TxTypeOK, TxConservation
  <2> QED  BY <2>1, <2>2
<1>4. \A q \in TxPackets : q # p => p_Retries'[q] = p_Retries[q]
  BY DEF TxInv, TxTypeOK
<1>5. /\ pc'[t] \in {"loop", "tick", "write_queue"}
      /\ arg[t] = NULL => pc'[t] # "write_queue"
      /\ arg[t] # NULL => pc'[t] # "tick"
  <2>1. pc'[t] = "loop" \/ pc'[t] = After(t, FALSE)
    BY DEF TxInv, TxTypeOK
  <2> QED  BY <2>1 DEF After
<1>6. TxTypeOK'
  <2>1. p_Retries' \in [TxPackets -> Nat]
    <3>1. p_Retries \in [TxPackets -> Nat] /\ p_Retries[p] + 1 \in Nat
      BY <1>1 DEF TxInv, TxTypeOK
    <3>2. p_Retries' = p_Retries \/ p_Retries' = [p_Retries EXCEPT ![p] = @ + 1]
      OBVIOUS
    <3> QED  BY <3>1, <3>2
  <2>2. After(t, FALSE) \in Locations
    BY DEF After, Locations
  <2>3. pc' \in [Tasks -> Locations]
    BY <2>2 DEF TxInv, TxTypeOK, Locations
  <2>4. arg' \in [Tasks -> TxPackets \cup {NULL}] /\ cur' \in [Tasks -> TxPackets \cup {NULL}]
    BY DEF TxInv, TxTypeOK
  <2> QED  BY <1>3, <2>1, <2>3, <2>4 DEF TxInv, TxTypeOK
<1>7. TxControl'
  <2>1. \A q \in ToSet(tx_list) : q \in TxPackets
    BY DEF TxInv, TxTypeOK, ToSet
  <2>2. \A q \in ToSet(tx_list') : p_Retries'[q] < max_retries
    BY <1>2, <1>3, <1>4, <2>1 DEF TxInv, TxControl
  <2>3. \A u \in Tasks : u # t => pc'[u] = pc[u] /\ cur'[u] = cur[u]
    BY DEF TxInv, TxTypeOK
  <2>4. cur'[t] = NULL
    BY DEF TxInv, TxTypeOK
  <2>5. \A u \in Tasks : arg[u] # NULL => p_Retries'[arg[u]] = p_Retries[arg[u]]
    BY <1>2, <1>4 DEF TxInv, TxTypeOK
  <2>6. \A u \in Tasks : cur'[u] # NULL => p_Retries'[cur'[u]] = p_Retries[cur[u]]
    BY <1>2, <1>4, <2>3, <2>4 DEF TxInv, TxTypeOK
  <2> DEFINE Control(u) ==
          /\ cur'[u] # NULL <=> pc'[u] = "queue_send"
          /\ pc'[u] \in {"write_send", "write_queue"} => arg'[u] # NULL
          /\ arg'[u] # NULL => pc'[u] \in {"flush", "loop", "queue_send",
                                           "write_send", "write_queue"}
          /\ cur'[u] # NULL => p_Retries'[cur'[u]] < max_retries
          /\ arg'[u] # NULL => /\ p_Retries'[arg'[u]] < max_retries
                               /\ pc'[u] # "write_queue" => p_Retries'[arg'[u]] = 0
  <2>7. Control(t)
    BY <1>5, <2>4, <2>5 DEF TxInv, TxControl
  <2>8. ASSUME NEW u \in Tasks, u # t PROVE Control(u)
    BY <2>3, <2>5, <2>6, <2>8 DEF TxInv, TxControl
  <2>9. \A u \in Tasks : Control(u)
    BY <2>7, <2>8
  <2> QED  BY <2>2, <2>9 DEF TxControl
<1>8. TxConservation'
  <2>1. /\ \A u \in Tasks \ {t} : Held(u)' = Held(u)
        /\ Held(t)' = Held(t) \ {p} /\ p \in Held(t)
    BY <1>1, <1>2 DEF TxInv, TxTypeOK, Held
  <2>2. HeldTx' = HeldTx \ {p}
    BY <2>1 DEF TxInv, TxConservation, HeldTx
  <2>3. \A u \in Tasks : arg'[u] = cur'[u] => arg'[u] = NULL
    BY DEF TxInv, TxConservation, TxTypeOK
  <2>4. \A u, v \in Tasks : u # v => Held(u)' \cap Held(v)' = {}
    BY <2>1 DEF TxInv, TxConservation
  <2> QED  BY <1>2, <1>3, <2>1, <2>2, <2>3, <2>4 DEF TxInv, TxConservation
<1> QED  BY <1>6, <1>7, <1>8 DEF TxInv

\* Every step of the engine keeps the tx packets together.
LEMMA TxNext == TxInv /\ [Next]_vars => TxInv'
<1> SUFFICES ASSUME TxInv, [Next]_vars PROVE TxInv'
  OBVIOUS
<1>1. ASSUME NEW t \in Tasks, ReadFilled(t) PROVE TxInv'
  BY <1>1, TxSame DEF ReadFilled, txVars, TxInv, TxTypeOK
<1>2. ASSUME NEW t \in Tasks, ReadNone(t) \/ ReadQueue(t) \/ ReadFail(t) PROVE TxInv'
  <2>1. /\ UNCHANGED <<tx_free, tx_list, p_Retries, arg, cur>>
        /\ pc[t] \in {"idle", "read_queue"}
        /\ \/ pc' = [pc EXCEPT ![t] = "read_queue"]
           \/ pc' = [pc EXCEPT ![t] = "idle"]
    BY <1>2 DEF ReadNone, ReadQueue, ReadFail, txVars
  <2>2. arg[t] = NULL /\ cur[t] = NULL
    BY <2>1 DEF TxInv, TxControl
  <2> QED  BY <2>1, <2>2, TxSame DEF TxInv, TxTypeOK, Locations
<1>3. ASSUME NEW t \in Tasks, WriteSendOk(t) \/ WriteQueue(t) PROVE TxInv'
  BY <1>3, TxReturnArg DEF WriteSendOk, WriteQueue, DoneTx, Release, AddTail
<1>4. ASSUME NEW t \in Tasks, ObtainTx(t) \/ QueueEmpty(t) PROVE TxInv'
  <2>1. /\ UNCHANGED <<tx_free, tx_list, p_Retries, arg, cur>>
        /\ pc[t] \in {"flush", "loop"}
        /\ \/ pc' = [pc EXCEPT ![t] = "loop"]
           \/ pc' = [pc EXCEPT ![t] = After(t, TRUE)]
    BY <1>4 DEF ObtainTx, QueueEmpty
  <2>2. cur[t] = NULL
    BY <2>1 DEF TxInv, TxControl
  <2>3. /\ After(t, TRUE) \in {"tick", "write_send"}
        /\ arg[t] # NULL <=> After(t, TRUE) = "write_send"
    BY DEF After
  <2>4. pc' \in [Tasks -> Locations]
    BY <2>1, <2>3 DEF TxInv, TxTypeOK, Locations
  <2>5. /\ pc'[t] \in {"loop", "tick", "write_send"}
        /\ arg[t] # NULL => pc'[t] # "tick"
        /\ arg[t] = NULL => pc'[t] # "write_send"
        /\ \A u \in Tasks : u # t => pc'[u] = pc[u]
    BY <2>1, <2>3 DEF TxInv, TxTypeOK
  <2> QED  BY <2>1, <2>2, <2>4, <2>5, TxSame
<1>5. ASSUME NEW t \in Tasks, QueueSendOk(t) PROVE TxInv'
  BY <1>5, TxReturnCur DEF QueueSendOk, DoneTx, Release, AddTail
<1>6. ASSUME NEW t \in Tasks, QueueSendFail(t) PROVE TxInv'
  <2>1. cur[t] \in TxPackets
    BY <1>6 DEF QueueSendFail, TxInv, TxControl, TxTypeOK
  <2>2. p_Retries' = [p_Retries EXCEPT ![cur[t]] = @ + 1]
    BY <1>6 DEF QueueSendFail
  <2>3. p_Retries[cur[t]] \in Nat /\ p_Retries'[cur[t]] = p_Retries[cur[t]] + 1
    BY <2>1, <2>2 DEF TxInv, TxTypeOK
  <2>4. CASE GiveUp(p_Retries[cur[t]] + 1)
    BY <1>6, <2>2, <2>4, TxReturnCur DEF QueueSendFail, DoneTx, Release, AddTail
  <2>5. CASE ~GiveUp(p_Retries[cur[t]] + 1)
    <3>1. p_Retries'[cur[t]] < max_retries
      BY <2>3, <2>5, PacketFacts DEF GiveUp
    <3> QED  BY <1>6, <2>2, <2>5, <3>1, TxReturnCur DEF QueueSendFail, Requeue
  <2> QED  BY <2>4, <2>5
<1>7. ASSUME Interrupt \/ Tick PROVE TxInv'
  BY <1>7, TxSame DEF Interrupt, Tick, txVars, TxInv, TxTypeOK
<1>8. ASSUME HandleSig \/ Serve PROVE TxInv'
  <2>1. /\ UNCHANGED <<tx_free, tx_list, p_Retries, arg, cur>>
        /\ pc[server] \in {"idle", "rx", "rx_alloc", "recv", "tick"}
        /\ \E x \in {"rx", "flush", "recv", "rx_alloc", "idle"} :
              pc' = [pc EXCEPT ![server] = x]
    BY <1>8 DEF HandleSig, Serve, RxPrepared, RxUnprepared, RxAlloc, AllocRx, RxExhausted, Recv,
                TickStart, txVars
  <2>2. arg[server] = NULL /\ cur[server] = NULL
    BY <2>1, TasksAssumption DEF TxInv, TxControl
  <2> QED  BY <2>1, <2>2, TxSame, TasksAssumption DEF TxInv, TxTypeOK, Locations
<1>9. CASE UNCHANGED vars
  BY <1>9, TxSame DEF vars, txVars, TxInv, TxTypeOK
<1> QED
  BY <1>1, <1>2, <1>3, <1>4, <1>5, <1>6, <1>7, <1>8, <1>9, TxWrite, TxWriteSendFail,
     TxQueueNext DEF Next, Call, Obtain, SendQueue, SendNew, Reading

\* In every reachable state every tx packet is in exactly one place, whatever
\* the tasks, the interrupt and the timer do and whatever par_send answers:
\* parblk_write and handle_tx_queue neither lose a packet of the pool nor
\* release one twice.
THEOREM TxConserved == Spec => []TxConservation
<1>1. Init => TxInv
  BY TxInit
<1>2. TxInv /\ [Next]_vars => TxInv'
  BY TxNext
<1>3. TxInv => TxConservation
  BY DEF TxInv
<1> QED  BY <1>1, <1>2, <1>3, PTL DEF Spec

-----------------------------------------------------------------------------
(* The rx side.  It needs that the local p of the rx path starts as NULL,  *)
(* which the code does not see to.                                         *)

RxTypeOK ==
    /\ rx_free \in Seq(RxPackets) /\ rx_empty_list \in Seq(RxPackets)
    /\ rx_filled_list \in Seq(RxPackets)
    /\ rxp \in RxPackets \cup {NULL}
    /\ pc \in [Tasks -> Locations]

RxInv == RxTypeOK /\ RxControl /\ RxConservation

LEMMA RxInit == Init => RxInv
<1> SUFFICES ASSUME Init PROVE RxInv
  OBVIOUS
<1>1. /\ rx_free \in Seq(RxPackets) /\ DOMAIN rx_free = 1..rx_pkt_size
      /\ \A i \in 1..rx_pkt_size : rx_free[i] = tx_pkt_size + rx_pkt_size + 1 - i
  BY SizeAssumption DEF Init, PoolsInit, RxPackets
<1>2. IsInjective(rx_free)
  BY <1>1, SizeAssumption DEF IsInjective
<1>3. ToSet(rx_free) = RxPackets
  <2>1. ToSet(rx_free) \subseteq RxPackets
    BY <1>1, SizeAssumption DEF ToSet, RxPackets
  <2>2. ASSUME NEW p \in RxPackets PROVE p \in ToSet(rx_free)
    <3>1. tx_pkt_size + rx_pkt_size + 1 - p \in 1..rx_pkt_size
      BY SizeAssumption DEF RxPackets
    <3>2. rx_free[tx_pkt_size + rx_pkt_size + 1 - p] = p
      BY <1>1, <3>1, SizeAssumption DEF RxPackets
    <3> QED  BY <1>1, <3>1, <3>2 DEF ToSet
  <2> QED  BY <2>1, <2>2
<1>4. /\ rx_empty_list = <<>> /\ ToSet(rx_empty_list) = {} /\ IsInjective(rx_empty_list)
      /\ rx_filled_list = <<>> /\ ToSet(rx_filled_list) = {}
      /\ IsInjective(rx_filled_list)
  BY DEF Init, PoolsInit, ToSet, IsInjective
<1>5. RxTypeOK
  BY <1>1, <1>4 DEF Init, PoolsInit, RxTypeOK, Locations
<1>6. RxControl
  BY TasksAssumption DEF Init, PoolsInit, RxControl
<1>7. RxConservation
  BY <1>2, <1>3, <1>4, PacketFacts DEF Init, PoolsInit, RxConservation
<1> QED  BY <1>5, <1>6, <1>7 DEF RxInv

\* Steps of which only the place of a task is seen, and not the reception.
LEMMA RxSame ==
    ASSUME RxInv, UNCHANGED <<rx_free, rx_empty_list, rx_filled_list, rxp>>,
           pc' \in [Tasks -> Locations],
           pc'[server] = "recv" <=> pc[server] = "recv"
    PROVE  RxInv'
BY DEF RxInv, RxTypeOK, RxControl, RxConservation

\* parblk_read answers with the first packet that waits.
LEMMA RxReadFilled == ASSUME RxInv, NEW t \in Tasks, ReadFilled(t) PROVE RxInv'
<1> DEFINE p == Head(rx_filled_list)
<1>1. /\ rx_filled_list # <<>> /\ rx_filled_list' = Tail(rx_filled_list)
      /\ rx_free' = Append(rx_free, p)
      /\ UNCHANGED <<rx_empty_list, rxp, pc>>
  BY DEF ReadFilled, DoneRx, Release, AddTail
<1>2. /\ p \in RxPackets /\ p \in ToSet(rx_filled_list)
      /\ rx_filled_list' \in Seq(RxPackets) /\ IsInjective(rx_filled_list')
      /\ ToSet(rx_filled_list') = ToSet(rx_filled_list) \ {p}
  BY <1>1, RemHeadList DEF RxInv, RxTypeOK, RxConservation
<1>3. p \notin ToSet(rx_free) /\ p \notin ToSet(rx_empty_list) /\ p # rxp
  BY <1>2 DEF RxInv, RxConservation
<1>4. /\ rx_free' \in Seq(RxPackets) /\ IsInjective(rx_free')
      /\ ToSet(rx_free') = ToSet(rx_free) \cup {p}
  BY <1>1, <1>2, <1>3, AddTailList DEF RxInv, RxTypeOK, RxConservation
<1>5. RxConservation'
  BY <1>1, <1>2, <1>3, <1>4 DEF RxInv, RxConservation
<1> QED  BY <1>1, <1>2, <1>4, <1>5 DEF RxInv, RxTypeOK, RxControl

\* parblk_read prepares a packet and queues it.
LEMMA RxReadQueue == ASSUME RxInv, NEW t \in Tasks, ReadQueue(t) PROVE RxInv'
<1> DEFINE p == Head(rx_free)
<1>1. /\ rx_free # <<>> /\ rx_free' = Tail(rx_free)
      /\ rx_empty_list' = Append(rx_empty_list, p)
      /\ UNCHANGED <<rx_filled_list, rxp>>
      /\ pc[t] = "read_queue" /\ pc' = [pc EXCEPT ![t] = "idle"]
  BY DEF ReadQueue, AllocRx, AddTail
<1>2. /\ p \in RxPackets /\ p \in ToSet(rx_free)
      /\ rx_free' \in Seq(RxPackets) /\ IsInjective(rx_free')
      /\ ToSet(rx_free') = ToSet(rx_free) \ {p}
  BY <1>1, RemHeadList DEF RxInv, RxTypeOK, RxConservation
<1>3. p \notin ToSet(rx_filled_list) /\ p \notin ToSet(rx_empty_list) /\ p # rxp
  BY <1>2 DEF RxInv, RxConservation
<1>4. /\ rx_empty_list' \in Seq(RxPackets) /\ IsInjective(rx_empty_list')
      /\ ToSet(rx_empty_list') = ToSet(rx_empty_list) \cup {p}
  BY <1>1, <1>2, <1>3, AddTailList DEF RxInv, RxTypeOK, RxConservation
<1>5. RxConservation'
  BY <1>1, <1>2, <1>3, <1>4 DEF RxInv, RxConservation
<1>6. RxTypeOK' /\ RxControl'
  BY <1>1, <1>2, <1>4 DEF RxInv, RxTypeOK, RxControl, Locations
<1> QED  BY <1>5, <1>6 DEF RxInv

\* parblk_handle_sig takes a packet to fill from the reads or from the pool.
LEMMA RxTake ==
    ASSUME RxInv, pc[server] \in {"rx", "rx_alloc"},
           pc' = [pc EXCEPT ![server] = "recv"], UNCHANGED rx_filled_list,
           \/ /\ rx_empty_list # <<>> /\ rxp' = Head(rx_empty_list)
              /\ rx_empty_list' = Tail(rx_empty_list) /\ UNCHANGED rx_free
           \/ /\ rx_free # <<>> /\ rxp' = Head(rx_free)
              /\ rx_free' = Tail(rx_free) /\ UNCHANGED rx_empty_list
    PROVE  RxInv'
<1>1. rxp = NULL
  BY DEF RxInv, RxControl
<1>2. rx_empty_list # <<>> =>
        /\ Head(rx_empty_list) \in RxPackets /\ Head(rx_empty_list) \in ToSet(rx_empty_list)
        /\ Tail(rx_empty_list) \in Seq(RxPackets) /\ IsInjective(Tail(rx_empty_list))
        /\ ToSet(Tail(rx_empty_list)) = ToSet(rx_empty_list) \ {Head(rx_empty_list)}
  BY RemHeadList DEF RxInv, RxTypeOK, RxConservation
<1>3. rx_free # <<>> =>
        /\ Head(rx_free) \in RxPackets /\ Head(rx_free) \in ToSet(rx_free)
        /\ Tail(rx_free) \in Seq(RxPackets) /\ IsInjective(Tail(rx_free))
        /\ ToSet(Tail(rx_free)) = ToSet(rx_free) \ {Head(rx_free)}
  BY RemHeadList DEF RxInv, RxTypeOK, RxConservation
<1>4. RxConservation'
  <2>1. CASE rx_empty_list # <<>> /\ rxp' = Head(rx_empty_list)
             /\ rx_empty_list' = Tail(rx_empty_list) /\ UNCHANGED rx_free
    BY <1>1, <1>2, <2>1, PacketFacts DEF RxInv, RxConservation
  <2>2. CASE rx_free # <<>> /\ rxp' = Head(rx_free)
             /\ rx_free' = Tail(rx_free) /\ UNCHANGED rx_empty_list
    BY <1>1, <1>3, <2>2, PacketFacts DEF RxInv, RxConservation
  <2> QED  BY <2>1, <2>2
<1>5. RxTypeOK'
  BY <1>2, <1>3 DEF RxInv, RxTypeOK, Locations
<1>6. rxp' # NULL /\ pc'[server] = "recv"
  BY <1>2, <1>3, PacketFacts, TasksAssumption DEF RxInv, RxTypeOK
<1> QED  BY <1>4, <1>5, <1>6 DEF RxInv, RxControl

\* The packet that was filled goes to the pool or waits for a read.
LEMMA RxRecv == ASSUME RxInv, Recv PROVE RxInv'
<1>1. /\ pc[server] = "recv" /\ rxp' = NULL /\ UNCHANGED rx_empty_list
      /\ \/ rx_free' = Append(rx_free, rxp) /\ UNCHANGED rx_filled_list
         \/ rx_filled_list' = Append(rx_filled_list, rxp) /\ UNCHANGED rx_free
      /\ \E x \in {"flush", "idle"} : pc' = [pc EXCEPT ![server] = x]
  BY DEF Recv, DoneRx, Release, AddTail
<1>2. rxp \in RxPackets
  BY <1>1 DEF RxInv, RxTypeOK, RxControl
<1>3. /\ rxp \notin ToSet(rx_free) /\ rxp \notin ToSet(rx_empty_list)
      /\ rxp \notin ToSet(rx_filled_list)
  BY DEF RxInv, RxConservation
<1>4. /\ Append(rx_free, rxp) \in Seq(RxPackets) /\ IsInjective(Append(rx_free, rxp))
      /\ ToSet(Append(rx_free, rxp)) = ToSet(rx_free) \cup {rxp}
  BY <1>2, <1>3, AddTailList DEF RxInv, RxTypeOK, RxConservation
<1>5. /\ Append(rx_filled_list, rxp) \in Seq(RxPackets)
      /\ IsInjective(Append(rx_filled_list, rxp))
      /\ ToSet(Append(rx_filled_list, rxp)) = ToSet(rx_filled_list) \cup {rxp}
  BY <1>2, <1>3, AddTailList DEF RxInv, RxTypeOK, RxConservation
<1>6. RxConservation'
  <2>1. CASE rx_free' = Append(rx_free, rxp) /\ UNCHANGED rx_filled_list
    BY <1>1, <1>2, <1>3, <1>4, <2>1, PacketFacts DEF RxInv, RxConservation
  <2>2. CASE rx_filled_list' = Append(rx_filled_list, rxp) /\ UNCHANGED rx_free
    BY <1>1, <1>2, <1>3, <1>5, <2>2, PacketFacts DEF RxInv, RxConservation
  <2> QED  BY <1>1, <2>1, <2>2
<1>7. RxTypeOK' /\ RxControl'
  BY <1>1, <1>4, <1>5, TasksAssumption DEF RxInv, RxTypeOK, RxControl, Locations
<1> QED  BY <1>6, <1>7 DEF RxInv

\* Every step of the engine keeps the rx packets together.
LEMMA RxNext == Garbage = {NULL} /\ RxInv /\ [Next]_vars => RxInv'
<1> SUFFICES ASSUME Garbage = {NULL}, RxInv, [Next]_vars PROVE RxInv'
  OBVIOUS
<1>1. ASSUME NEW t \in Tasks, Write(t) \/ Obtain(t) \/ SendQueue(t) \/ SendNew(t)
                               \/ ReadNone(t) \/ ReadFail(t)
      PROVE  RxInv'
  <2>1. UNCHANGED <<rx_free, rx_empty_list, rx_filled_list, rxp>>
    BY <1>1 DEF Write, AllocTx, Obtain, SendQueue, SendNew, ReadNone, ReadFail, ObtainTx, WriteQueue,
                QueueNext, QueueEmpty, QueueSendOk, QueueSendFail, WriteSendOk,
                WriteSendFail, rxVars
  <2>2. /\ pc[t] # "recv"
        /\ \E x \in Locations \ {"recv"} : pc' = [pc EXCEPT ![t] = x]
    <3>1. \A ok \in BOOLEAN : After(t, ok) \in Locations \ {"recv"}
      BY DEF After, Locations
    <3> QED
      BY <1>1, <3>1 DEF Write, AllocTx, Obtain, SendQueue, SendNew, ReadNone, ReadFail, ObtainTx,
                        WriteQueue, QueueNext, QueueEmpty, QueueSendOk, QueueSendFail,
                        WriteSendOk, WriteSendFail, Locations
  <2> QED  BY <2>1, <2>2, RxSame, TasksAssumption DEF RxInv, RxTypeOK
<1>2. ASSUME RxPrepared PROVE RxInv'
  BY <1>2, RxTake DEF RxPrepared
<1>3. ASSUME RxAlloc PROVE RxInv'
  BY <1>3, RxTake DEF RxAlloc, AllocRx
<1>4. ASSUME RxUnprepared PROVE RxInv'
  <2>1. /\ pc[server] = "rx" /\ rxp' = NULL
        /\ pc' = [pc EXCEPT ![server] = "rx_alloc"]
        /\ UNCHANGED <<rx_free, rx_empty_list, rx_filled_list>>
    BY <1>4 DEF RxUnprepared
  <2>2. rxp = NULL
    BY <2>1 DEF RxInv, RxControl
  <2> QED  BY <2>1, <2>2, RxSame, TasksAssumption DEF RxInv, RxTypeOK, Locations
<1>5. ASSUME Interrupt \/ Tick PROVE RxInv'
  BY <1>5, RxSame DEF Interrupt, Tick, rxVars, RxInv, RxTypeOK
<1>6. ASSUME HandleSig \/ RxExhausted \/ TickStart PROVE RxInv'
  <2>1. /\ UNCHANGED <<rx_free, rx_empty_list, rx_filled_list, rxp>>
        /\ pc[server] # "recv"
        /\ \E x \in {"rx", "flush", "idle"} : pc' = [pc EXCEPT ![server] = x]
    BY <1>6 DEF HandleSig, RxExhausted, TickStart, rxVars
  <2> QED  BY <2>1, RxSame, TasksAssumption DEF RxInv, RxTypeOK, Locations
<1>7. CASE UNCHANGED vars
  BY <1>7, RxSame DEF vars, rxVars, RxInv, RxTypeOK
<1> QED
  BY <1>1, <1>2, <1>3, <1>4, <1>5, <1>6, <1>7, RxReadFilled, RxReadQueue, RxRecv
     DEF Next, Call, Reading, Serve

\* If the compiler lets p start as NULL, every rx packet is in exactly one
\* place in every reachable state, whatever the tasks do, however many packets
\* arrive and whatever par_recv answers.
THEOREM RxConserved == Garbage = {NULL} => (Spec => []RxConservation)
<1> SUFFICES ASSUME Garbage = {NULL} PROVE Spec => []RxConservation
  OBVIOUS
<1>1. Init => RxInv
  BY RxInit
<1>2. RxInv /\ [Next]_vars => RxInv'
  BY RxNext
<1>3. RxInv => RxConservation
  BY DEF RxInv
<1> QED  BY <1>1, <1>2, <1>3, PTL DEF Spec

-----------------------------------------------------------------------------
(* Types.                                                                  *)

Buffers == [cap : Sizes, size : Sizes \cup {0}, data : 0..MaxArrivals, result : Results]

\* TypeOK in parts: what a step of the tx side, of the rx side and of the
\* signals can change.
TxTypes ==
    /\ tx_free \in Seq(TxPackets) /\ tx_list \in Seq(TxPackets)
    /\ tx_sem \in Tasks \cup {NULL}
    /\ p_Retries \in [TxPackets -> 0..max_retries]
    /\ arg \in [Tasks -> TxPackets \cup {NULL}]
    /\ cur \in [Tasks -> TxPackets \cup {NULL}]
    /\ writes \in 0..MaxWrites
    /\ tx_log \in Seq([func : Nat, result : Results])
    /\ tries \in [1..MaxWrites -> Nat]
RxTypes ==
    /\ rx_free \in Seq(RxPackets) /\ rx_empty_list \in Seq(RxPackets)
    /\ rx_filled_list \in Seq(RxPackets)
    /\ p_Buffer \in [RxPackets -> Buffers]
    /\ rxp \in RxPackets \cup {NULL} /\ from_empty \in BOOLEAN
    /\ reads \in 0..MaxReads
    /\ rx_log \in Seq([func : Nat, data : Nat, result : Results])
SigTypes ==
    /\ got \subseteq {"rx", "tick"} /\ sig \subseteq {"rx", "tick"}
    /\ ticking \in BOOLEAN /\ rx_flag \in BOOLEAN
    /\ arrivals \in 0..MaxArrivals
FuncTypes ==
    /\ p_DoneFunc \in [TxPackets \cup RxPackets -> Nat]
    /\ \A p \in TxPackets : p_DoneFunc[p] \in 0..MaxWrites

LEMMA TypeParts ==
    TypeOK <=> TxTypes /\ RxTypes /\ SigTypes /\ FuncTypes /\ pc \in [Tasks -> Locations]
BY DEF TypeOK, TxTypes, RxTypes, SigTypes, FuncTypes, Buffers

TypeInv == TypeOK /\ TxInv /\ RxControl

LEMMA NumberFacts ==
    /\ MaxWrites \in Nat /\ MaxReads \in Nat /\ MaxArrivals \in Nat
    /\ max_pkt_size \in Nat /\ 1 <= max_pkt_size
    /\ \A p \in TxPackets : p \notin RxPackets
BY BoundAssumption, SizeAssumption DEF TxPackets, RxPackets

LEMMA TypeInit == Init => TypeOK
<1> SUFFICES ASSUME Init PROVE TypeOK
  OBVIOUS
<1>1. TxTypes
  BY TxInit, NumberFacts, PacketFacts DEF Init, PoolsInit, TxInv, TxTypeOK, TxTypes
<1>2. RxTypes
  <2>1. p_Buffer \in [RxPackets -> Buffers]
    BY NumberFacts DEF Init, PoolsInit, Buffers, Sizes, Results
  <2>2. /\ rx_free \in Seq(RxPackets) /\ rx_empty_list \in Seq(RxPackets)
        /\ rx_filled_list \in Seq(RxPackets) /\ rxp \in RxPackets \cup {NULL}
    BY RxInit DEF RxInv, RxTypeOK
  <2>3. from_empty = FALSE /\ reads = 0 /\ rx_log = <<>>
    BY DEF Init, PoolsInit
  <2>4. reads \in 0..MaxReads /\ rx_log \in Seq([func : Nat, data : Nat, result : Results])
    BY <2>3, NumberFacts
  <2> QED  BY <2>1, <2>2, <2>3, <2>4 DEF RxTypes
<1>3. SigTypes /\ FuncTypes /\ pc \in [Tasks -> Locations]
  <2>1. SigTypes
    <3>1. got = {} /\ sig = {} /\ ticking = TRUE /\ rx_flag = FALSE /\ arrivals = 0
      BY DEF Init, PoolsInit
    <3>2. arrivals \in 0..MaxArrivals
      BY <3>1, NumberFacts
    <3> QED  BY <3>1, <3>2, Zenon DEF SigTypes
  <2>2. FuncTypes
    BY NumberFacts DEF Init, PoolsInit, FuncTypes, NULL
  <2>3. pc \in [Tasks -> Locations]
    BY DEF Init, PoolsInit, Locations
  <2> QED  BY <2>1, <2>2, <2>3
<1> QED  BY <1>1, <1>2, <1>3, TypeParts

\* The steps of parblk_write and handle_tx_queue.
LEMMA TxTypesNext ==
    ASSUME TypeInv, NEW t \in Tasks, Write(t) \/ Obtain(t) \/ SendQueue(t) \/ SendNew(t)
    PROVE  TypeOK'
<1>1. TxInv'
  BY TxNext DEF TypeInv, Next, Call
<1>2. /\ RxTypes' /\ SigTypes'
      /\ UNCHANGED <<rxVars, sigVars>>
  BY TypeParts DEF TypeInv, Write, Obtain, SendQueue, SendNew, ObtainTx, WriteQueue, QueueNext,
     QueueEmpty, QueueSendOk, QueueSendFail, WriteSendOk, WriteSendFail, rxVars, sigVars,
     RxTypes, SigTypes
<1>3. FuncTypes'
  <2>1. CASE Write(t)
    <3>1. Head(tx_free) \in TxPackets
      BY <2>1, TypeParts, RemHeadList DEF Write, AllocTx, TypeInv, TxInv, TxTypeOK, TxConservation
    <3>2. writes + 1 \in 0..MaxWrites
      BY <2>1, TypeParts, NumberFacts DEF Write, AllocTx, TypeInv, TxTypes
    <3> QED  BY <2>1, <3>1, <3>2, TypeParts, NumberFacts DEF Write, AllocTx, TypeInv, FuncTypes
  <2>2. CASE ~Write(t)
    BY <2>2, TypeParts DEF TypeInv, Obtain, SendQueue, SendNew, ObtainTx, WriteQueue, QueueNext,
       QueueEmpty, QueueSendOk, QueueSendFail, WriteSendOk, WriteSendFail, FuncTypes
  <2> QED  BY <2>1, <2>2
<1>4. p_Retries' \in [TxPackets -> 0..max_retries]
  <2>1. p_Retries \in [TxPackets -> 0..max_retries]
    BY TypeParts DEF TypeInv, TxTypes
  <2>2. CASE Write(t)
    <3>1. p_Retries' = [p_Retries EXCEPT ![Head(tx_free)] = 0]
      BY <2>2 DEF Write, AllocTx
    <3>2. 0 \in 0..max_retries
      BY PacketFacts
    <3> QED  BY <2>1, <3>1, <3>2
  <2>3. CASE WriteSendFail(t)
    <3>1. arg[t] \in TxPackets /\ p_Retries[arg[t]] = 0
      BY <2>3 DEF WriteSendFail, TypeInv, TxInv, TxControl, TxTypeOK
    <3> QED  BY <2>1, <2>3, <3>1, PacketFacts DEF WriteSendFail, CountFailure
  <2>4. CASE QueueSendFail(t)
    <3>1. cur[t] \in TxPackets /\ p_Retries[cur[t]] < max_retries
      BY <2>4 DEF QueueSendFail, TypeInv, TxInv, TxControl, TxTypeOK
    <3> QED  BY <2>1, <2>4, <3>1, PacketFacts DEF QueueSendFail
  <2>5. CASE Obtain(t) \/ QueueNext(t) \/ QueueEmpty(t) \/ QueueSendOk(t) \/ WriteSendOk(t)
    BY <2>1, <2>5 DEF Obtain, ObtainTx, WriteQueue, QueueNext, QueueEmpty, QueueSendOk,
                      WriteSendOk
  <2> QED  BY <2>2, <2>3, <2>4, <2>5 DEF SendQueue, SendNew
<1>5. tx_log' \in Seq([func : Nat, result : Results])
  <2>1. tx_log \in Seq([func : Nat, result : Results]) /\ FuncTypes
    BY TypeParts DEF TypeInv, TxTypes
  <2>2. ASSUME NEW p \in TxPackets, NEW r \in Results
        PROVE  Append(tx_log, [func |-> p_DoneFunc[p], result |-> r])
                  \in Seq([func : Nat, result : Results])
    BY <2>1 DEF FuncTypes
  <2>3. CASE UNCHANGED tx_log
    BY <2>1, <2>3
  <2>4. CASE QueueSendOk(t) \/ QueueSendFail(t)
    <3>1. cur[t] \in TxPackets
      BY <2>4 DEF QueueSendOk, QueueSendFail, TypeInv, TxInv, TxControl, TxTypeOK
    <3>2. UNCHANGED tx_log \/ \E r \in Results :
             tx_log' = Append(tx_log, [func |-> p_DoneFunc[cur[t]], result |-> r])
      BY <2>4 DEF QueueSendOk, QueueSendFail, DoneTx, Release, Results
    <3> QED  BY <2>2, <2>3, <3>1, <3>2
  <2>5. CASE WriteSendOk(t)
    <3>1. arg[t] \in TxPackets
      BY <2>5 DEF WriteSendOk, TypeInv, TxInv, TxControl, TxTypeOK
    <3> QED  BY <2>2, <2>5, <3>1 DEF WriteSendOk, DoneTx, Release, Results
  <2> QED
    BY <2>3, <2>4, <2>5 DEF Write, AllocTx, Obtain, SendQueue, SendNew, ObtainTx, WriteQueue, QueueNext,
       QueueEmpty, WriteSendFail
<1>6. tries' \in [1..MaxWrites -> Nat]
  <2>1. tries \in [1..MaxWrites -> Nat]
    BY TypeParts DEF TypeInv, TxTypes
  <2>2. UNCHANGED tries \/ CountTry(arg[t]) \/ CountTry(cur[t])
    BY DEF Write, AllocTx, Obtain, SendQueue, SendNew, ObtainTx, WriteQueue, QueueNext,
       QueueEmpty, QueueSendOk, QueueSendFail, WriteSendOk, WriteSendFail
  <2> QED  BY <2>1, <2>2 DEF CountTry
<1>7. tx_sem' \in Tasks \cup {NULL} /\ writes' \in 0..MaxWrites
  <2>1. tx_sem \in Tasks \cup {NULL} /\ writes \in 0..MaxWrites
    BY TypeParts DEF TypeInv, TxTypes
  <2>2. tx_sem' \in {tx_sem, t, NULL}
    BY DEF Write, AllocTx, Obtain, SendQueue, SendNew, ObtainTx, WriteQueue, QueueNext, QueueEmpty,
       QueueSendOk, QueueSendFail, WriteSendOk, WriteSendFail
  <2>3. UNCHANGED writes \/ (writes < MaxWrites /\ writes' = writes + 1)
    BY DEF Write, AllocTx, Obtain, SendQueue, SendNew, ObtainTx, WriteQueue, QueueNext, QueueEmpty,
       QueueSendOk, QueueSendFail, WriteSendOk, WriteSendFail
  <2> QED  BY <2>1, <2>2, <2>3, NumberFacts
<1>8. TxTypes'
  BY <1>1, <1>4, <1>5, <1>6, <1>7 DEF TxInv, TxTypeOK, TxTypes
<1> QED  BY <1>1, <1>2, <1>3, <1>8 DEF TxInv, TxTypeOK, TypeOK, TxTypes, RxTypes, SigTypes,
                                      FuncTypes, Buffers

\* parblk_handle_sig has a packet in hand exactly while it receives.
LEMMA RxControlNext == TypeOK /\ RxControl /\ [Next]_vars => RxControl'
<1> SUFFICES ASSUME TypeOK, RxControl, [Next]_vars PROVE RxControl'
  OBVIOUS
<1>1. pc \in [Tasks -> Locations] /\ server \in Tasks
  BY TasksAssumption DEF TypeOK
<1>2. ASSUME NEW t \in Tasks, Call(t) \/ Obtain(t) \/ SendQueue(t) \/ SendNew(t) \/ Reading(t)
      PROVE  RxControl'
  <2>1. UNCHANGED rxp
    BY <1>2 DEF Call, Write, ReadFilled, ReadNone, Obtain, SendQueue, SendNew, Reading, ReadQueue,
                ReadFail, ObtainTx, WriteQueue, QueueNext, QueueEmpty, QueueSendOk,
                QueueSendFail, WriteSendOk, WriteSendFail, rxVars
  <2>2. \A ok \in BOOLEAN : After(t, ok) # "recv"
    BY DEF After
  <2>3. /\ pc[t] # "recv"
        /\ UNCHANGED pc \/ \E x : x # "recv" /\ pc' = [pc EXCEPT ![t] = x]
    BY <1>2, <2>2 DEF Call, Write, ReadFilled, ReadNone, Obtain, SendQueue, SendNew, Reading,
                ReadQueue, ReadFail, ObtainTx, WriteQueue, QueueNext, QueueEmpty,
                QueueSendOk, QueueSendFail, WriteSendOk, WriteSendFail
  <2> QED  BY <1>1, <2>1, <2>3 DEF RxControl
<1>3. ASSUME RxPrepared PROVE RxControl'
  <2>1. Head(rx_empty_list) \in RxPackets
    BY <1>3 DEF RxPrepared, TypeOK
  <2> QED  BY <1>1, <1>3, <2>1, PacketFacts DEF RxPrepared, RxControl
<1>4. ASSUME RxAlloc PROVE RxControl'
  <2>1. Head(rx_free) \in RxPackets
    BY <1>4 DEF RxAlloc, AllocRx, TypeOK
  <2> QED  BY <1>1, <1>4, <2>1, PacketFacts DEF RxAlloc, AllocRx, RxControl
<1>5. ASSUME RxUnprepared \/ Recv PROVE RxControl'
  BY <1>1, <1>5 DEF RxUnprepared, Recv, RxControl
<1>6. ASSUME Interrupt \/ Tick \/ HandleSig \/ RxExhausted \/ TickStart PROVE RxControl'
  BY <1>1, <1>6 DEF Interrupt, Tick, HandleSig, RxExhausted, TickStart, rxVars, RxControl
<1>7. CASE UNCHANGED vars
  BY <1>7 DEF vars, rxVars, RxControl
<1> QED  BY <1>2, <1>3, <1>4, <1>5, <1>6, <1>7 DEF Next, Serve

\* The other steps.
LEMMA RxTypesNext ==
    ASSUME TypeInv,
           \/ \E t \in Tasks : ReadFilled(t) \/ ReadNone(t) \/ Reading(t)
           \/ Interrupt \/ Tick \/ HandleSig \/ Serve
    PROVE  TypeOK'
<1>1. /\ TxTypes /\ RxTypes /\ SigTypes /\ FuncTypes /\ RxControl
      /\ pc \in [Tasks -> Locations]
  BY TypeParts DEF TypeInv
<1>2. TxInv' /\ UNCHANGED txVars
  BY TxNext DEF TypeInv, Next, Call, ReadFilled, ReadNone, Reading, ReadQueue, ReadFail,
     Interrupt, Tick, HandleSig, Serve, RxPrepared, RxUnprepared, RxAlloc, AllocRx, RxExhausted, Recv,
     TickStart
<1>3. TxTypes' /\ pc' \in [Tasks -> Locations]
  BY <1>1, <1>2 DEF txVars, TxTypes, TxInv, TxTypeOK
<1>4. ASSUME NEW b \in Buffers, NEW r \in Results
      PROVE  [b EXCEPT !.result = r] \in Buffers
  BY DEF Buffers
<1>5. ASSUME NEW p \in RxPackets, NEW b \in Buffers
      PROVE  [func |-> p_DoneFunc[p], data |-> b.data, result |-> b.result]
                \in [func : Nat, data : Nat, result : Results]
  BY <1>1, NumberFacts DEF FuncTypes, Buffers
<1>6. ASSUME NEW t \in Tasks, ReadFilled(t) PROVE TypeOK'
  <2> DEFINE p == Head(rx_filled_list)
  <2>1. p \in RxPackets /\ rx_filled_list' \in Seq(RxPackets)
    BY <1>1, <1>6 DEF ReadFilled, RxTypes
  <2>2. PICK b \in Buffers : p_Buffer' = [p_Buffer EXCEPT ![p] = b] /\ DoneRx(p, b)
    BY <1>1, <1>4, <1>6, <2>1 DEF ReadFilled, RxTypes, Results
  <2>3. /\ p_Buffer' \in [RxPackets -> Buffers]
        /\ rx_free' \in Seq(RxPackets)
    BY <1>1, <2>1, <2>2 DEF RxTypes, DoneRx, Release, AddTail
  <2>4. rx_log' \in Seq([func : Nat, data : Nat, result : Results])
    BY <1>1, <1>5, <2>1, <2>2 DEF RxTypes, DoneRx, Release
  <2>5. reads' \in 0..MaxReads
    BY <1>1, <1>6, NumberFacts DEF ReadFilled, RxTypes
  <2>6. RxTypes'
    BY <1>1, <1>6, <2>1, <2>3, <2>4, <2>5 DEF ReadFilled, RxTypes
  <2> QED  BY <1>1, <1>3, <1>6, <2>6 DEF ReadFilled, sigVars, TypeOK, TxTypes, RxTypes,
                                        SigTypes, FuncTypes, Buffers
<1>7. ASSUME NEW t \in Tasks, ReadNone(t) \/ ReadFail(t) PROVE TypeOK'
  BY <1>1, <1>3, <1>7 DEF ReadNone, ReadFail, rxVars, sigVars, TypeOK, TxTypes, RxTypes,
                          SigTypes, FuncTypes, Buffers
<1>8. ASSUME NEW p \in RxPackets, NEW size \in Sizes
      PROVE  [p_Buffer EXCEPT ![p].cap = size] \in [RxPackets -> Buffers]
  BY <1>1 DEF RxTypes, Buffers
<1>9. ASSUME NEW p \in RxPackets, NEW f \in Nat
      PROVE  /\ [p_DoneFunc EXCEPT ![p] = f] \in [TxPackets \cup RxPackets -> Nat]
             /\ \A q \in TxPackets : [p_DoneFunc EXCEPT ![p] = f][q] \in 0..MaxWrites
  BY <1>1, NumberFacts DEF FuncTypes
<1>10. ASSUME NEW t \in Tasks, ReadQueue(t) PROVE TypeOK'
  <2> DEFINE p == Head(rx_free)
  <2>1. p \in RxPackets /\ rx_free' \in Seq(RxPackets)
    BY <1>1, <1>10 DEF ReadQueue, AllocRx, RxTypes
  <2>2. rx_empty_list' \in Seq(RxPackets)
    BY <1>1, <1>10, <2>1 DEF ReadQueue, AllocRx, RxTypes, AddTail
  <2>3. p_Buffer' \in [RxPackets -> Buffers]
    BY <1>8, <1>10, <2>1 DEF ReadQueue, AllocRx
  <2>4. reads' \in 0..MaxReads /\ reads + 1 \in Nat
    BY <1>1, <1>10, NumberFacts DEF ReadQueue, AllocRx, RxTypes
  <2>5. FuncTypes'
    BY <1>9, <1>10, <2>1, <2>4 DEF ReadQueue, AllocRx, FuncTypes
  <2>6. RxTypes'
    BY <1>1, <1>10, <2>1, <2>2, <2>3, <2>4 DEF ReadQueue, AllocRx, RxTypes
  <2> QED  BY <1>1, <1>3, <1>10, <2>5, <2>6 DEF ReadQueue, AllocRx, sigVars, TypeOK, TxTypes, RxTypes,
                                               SigTypes, FuncTypes, Buffers
<1>11. ASSUME Interrupt \/ Tick \/ HandleSig \/ RxExhausted \/ TickStart PROVE TypeOK'
  <2>1. got' \subseteq {"rx", "tick"} /\ sig' \subseteq {"rx", "tick"}
    BY <1>1, <1>11 DEF Interrupt, Tick, HandleSig, RxExhausted, TickStart, SigTypes
  <2>2. ticking' \in BOOLEAN /\ rx_flag' \in BOOLEAN
    BY <1>1, <1>11, Zenon DEF Interrupt, Tick, HandleSig, RxExhausted, TickStart, Restarted, SigTypes
  <2>3. UNCHANGED arrivals \/ (arrivals < MaxArrivals /\ arrivals' = arrivals + 1)
    BY <1>11 DEF Interrupt, Tick, HandleSig, RxExhausted, TickStart
  <2>4. arrivals' \in 0..MaxArrivals
    BY <1>1, <2>3, NumberFacts DEF SigTypes
  <2>5. SigTypes'
    BY <2>1, <2>2, <2>4 DEF SigTypes
  <2>6. UNCHANGED <<rxVars, p_DoneFunc>>
    BY <1>11 DEF Interrupt, Tick, HandleSig, RxExhausted, TickStart
  <2> QED  BY <1>1, <1>3, <2>5, <2>6 DEF rxVars, TypeOK, TxTypes, RxTypes, SigTypes, FuncTypes,
                                        Buffers
<1>12. ASSUME RxPrepared \/ RxUnprepared PROVE TypeOK'
  <2>1. /\ rxp' \in RxPackets \cup {NULL} /\ from_empty' \in BOOLEAN
        /\ rx_empty_list' \in Seq(RxPackets)
    <3>1. from_empty' \in BOOLEAN
      BY <1>12, Zenon DEF RxPrepared, FromRead, RxUnprepared
    <3>2. CASE RxPrepared
      BY <1>1, <3>1, <3>2 DEF RxPrepared, RxTypes
    <3>3. CASE RxUnprepared
      BY <1>1, <3>1, <3>3, SizeAssumption DEF RxUnprepared, RxTypes
    <3> QED  BY <1>12, <3>2, <3>3
  <2>2. UNCHANGED <<rx_free, rx_filled_list, p_Buffer, reads, rx_log, sigVars, p_DoneFunc>>
    BY <1>12 DEF RxPrepared, RxUnprepared
  <2> QED  BY <1>1, <1>3, <2>1, <2>2 DEF sigVars, TypeOK, TxTypes, RxTypes, SigTypes, FuncTypes,
                                        Buffers
<1>13. ASSUME RxAlloc PROVE TypeOK'
  <2> DEFINE p == Head(rx_free)
  <2>1. p \in RxPackets /\ rx_free' \in Seq(RxPackets) /\ rxp' = p
    BY <1>1, <1>13 DEF RxAlloc, AllocRx, RxTypes
  <2>2. p_Buffer' \in [RxPackets -> Buffers]
    <3>1. max_pkt_size \in Sizes
      BY NumberFacts DEF Sizes
    <3>2. [p_Buffer EXCEPT ![p].cap = max_pkt_size] \in [RxPackets -> Buffers]
      BY <1>8, <2>1, <3>1
    <3>3. p_Buffer' = [p_Buffer EXCEPT ![p].cap = max_pkt_size]
      BY <1>13 DEF RxAlloc
    <3> QED  BY <3>2, <3>3
  <2>3. FuncTypes'
    BY <1>9, <1>13, <2>1 DEF RxAlloc, AllocRx, FuncTypes, NULL
  <2>4. RxTypes'
    BY <1>1, <1>13, <2>1, <2>2 DEF RxAlloc, AllocRx, RxTypes
  <2> QED  BY <1>1, <1>3, <1>13, <2>3, <2>4 DEF RxAlloc, AllocRx, sigVars, TypeOK, TxTypes, RxTypes,
                                               SigTypes, FuncTypes, Buffers
<1>14. ASSUME Recv PROVE TypeOK'
  <2>1. rxp \in RxPackets
    BY <1>1, <1>14 DEF Recv, RxControl, RxTypes
  <2>2. Received(p_Buffer[rxp], arrivals) \subseteq Buffers
    <3>1. p_Buffer[rxp] \in Buffers /\ arrivals \in 0..MaxArrivals
      BY <1>1, <2>1 DEF RxTypes, SigTypes
    <3>2. p_Buffer[rxp].cap \in 1..max_pkt_size
      BY <3>1 DEF Buffers, Sizes
    <3> DEFINE Filled(size, result) ==
            [p_Buffer[rxp] EXCEPT !.size = size, !.data = arrivals, !.result = result]
    <3>3. ASSUME NEW size \in 1..p_Buffer[rxp].cap, NEW result \in {"OK", "TIMEOUT"}
          PROVE  Filled(size, result) \in Buffers
      <4>1. size \in Sizes /\ result \in Results
        BY <3>2, NumberFacts DEF Sizes, Results, SendErrors
      <4> QED  BY <3>1, <4>1 DEF Buffers
    <3>4. Received(p_Buffer[rxp], arrivals) =
            {Filled(size, result) : size \in 1..p_Buffer[rxp].cap,
                                    result \in {"OK", "TIMEOUT"}}
      BY DEF Received
    <3> HIDE DEF Filled
    <3> QED  BY <3>3, <3>4
  <2>3. PICK b \in Buffers :
          /\ p_Buffer' = [p_Buffer EXCEPT ![rxp] = b]
          /\ \/ DoneRx(rxp, b) /\ UNCHANGED rx_filled_list
             \/ rx_filled_list' = AddTail(rx_filled_list, rxp) /\ UNCHANGED <<rx_free, rx_log>>
    BY <1>14, <2>2 DEF Recv
  <2>4. p_Buffer' \in [RxPackets -> Buffers]
    BY <1>1, <2>1, <2>3 DEF RxTypes
  <2>5. rx_free' \in Seq(RxPackets) /\ rx_filled_list' \in Seq(RxPackets)
    <3>1. /\ Append(rx_free, rxp) \in Seq(RxPackets)
          /\ Append(rx_filled_list, rxp) \in Seq(RxPackets)
      BY <1>1, <2>1 DEF RxTypes
    <3> QED  BY <1>1, <2>3, <3>1 DEF RxTypes, DoneRx, Release, AddTail
  <2>6. rx_log' \in Seq([func : Nat, data : Nat, result : Results])
    <3>1. Append(rx_log, [func |-> p_DoneFunc[rxp], data |-> b.data, result |-> b.result])
             \in Seq([func : Nat, data : Nat, result : Results])
      BY <1>1, <1>5, <2>1 DEF RxTypes
    <3> QED  BY <1>1, <2>3, <3>1 DEF RxTypes, DoneRx, Release
  <2>7. RxTypes'
    BY <1>1, <1>14, <2>4, <2>5, <2>6 DEF Recv, RxTypes
  <2>8. SigTypes'
    BY <1>1, <1>14 DEF Recv, SigTypes
  <2> QED  BY <1>1, <1>3, <1>14, <2>7, <2>8 DEF Recv, TypeOK, TxTypes, RxTypes, SigTypes,
                                               FuncTypes, Buffers
<1> QED
  BY <1>6, <1>7, <1>10, <1>11, <1>12, <1>13, <1>14 DEF Reading, Serve

\* The inductive invariant the other proofs about the engine start from.
LEMMA TypeInvInit == Init => TypeInv
BY TypeInit, TxInit, RxInit DEF TypeInv, RxInv

LEMMA TypeInvNext == TypeInv /\ [Next]_vars => TypeInv'
<1> SUFFICES ASSUME TypeInv, [Next]_vars PROVE TypeInv'
  OBVIOUS
<1>1. TxInv'
  BY TxNext DEF TypeInv
<1>2. TypeOK'
  <2>1. CASE UNCHANGED vars
    BY <2>1 DEF TypeInv, TypeOK, vars, txVars, rxVars, sigVars
  <2>2. CASE Next
    BY <2>2, TxTypesNext, RxTypesNext DEF Next, Call
  <2> QED  BY <2>1, <2>2
<1>3. RxControl'
  BY RxControlNext DEF TypeInv
<1> QED  BY <1>1, <1>2, <1>3 DEF TypeInv

LEMMA TypeInvariant == Spec => []TypeInv
BY TypeInvInit, TypeInvNext, PTL DEF Spec

\* Every variable keeps its type, whatever the tasks, the pools, the limit of
\* retries and the value the uninitialised p holds; in particular no packet
\* counts more than max_retries failed attempts, although parblk_write counts
\* one without looking at the limit.
THEOREM TypeCorrect == Spec => []TypeOK
<1>1. TypeInv => TypeOK
  BY DEF TypeInv
<1> QED  BY <1>1, TypeInvariant, PTL

-----------------------------------------------------------------------------
(* What becomes of an accepted parblk_write: it is completed once, and it  *)
(* fails only after exactly max_retries attempts.                          *)

\* The packets that stand for a write: all that the pool has given away.
Pending == TxPackets \ ToSet(tx_free)

Logged == {tx_log[i].func : i \in DOMAIN tx_log}

\* Each pending packet stands for one accepted write of its own, and p_Retries
\* counts the attempts made for that write.
PendingOwn ==
    /\ \A p \in Pending : /\ p_DoneFunc[p] \in 1..writes
                          /\ tries[p_DoneFunc[p]] = p_Retries[p]
                          /\ p_DoneFunc[p] \notin Logged
    /\ \A p, q \in Pending : p_DoneFunc[p] = p_DoneFunc[q] => p = q

\* A completed write is an accepted one, is completed once, and failed only
\* with all its attempts made.
LoggedOnce ==
    /\ \A i \in DOMAIN tx_log :
          /\ tx_log[i].func \in 1..writes
          /\ tries[tx_log[i].func] <= max_retries
          /\ tx_log[i].result # "OK" => tries[tx_log[i].func] = max_retries
    /\ \A i, j \in DOMAIN tx_log : tx_log[i].func = tx_log[j].func => i = j

\* No accepted write is forgotten, and no other one is attempted.
NoneForgotten ==
    /\ \A r \in 1..writes : r \in Logged \/ \E p \in Pending : p_DoneFunc[p] = r
    /\ \A r \in (writes + 1)..MaxWrites : tries[r] = 0

WriteControl == PendingOwn /\ LoggedOnce /\ NoneForgotten

-----------------------------------------------------------------------------
\* The queue and the hands of the calls hold what the pool has given away.
LEMMA PendingHeld == TxConservation => ToSet(tx_list) \cup HeldTx = Pending
BY DEF TxConservation, Pending

\* A packet in hand is pending, and has an attempt left.
LEMMA HeldFacts ==
    ASSUME TypeInv, NEW t \in Tasks
    PROVE  /\ pc[t] \in {"write_send", "write_queue"} =>
                arg[t] \in Pending /\ p_Retries[arg[t]] < max_retries
           /\ pc[t] = "queue_send" => cur[t] \in Pending /\ p_Retries[cur[t]] < max_retries
<1>1. /\ pc[t] \in {"write_send", "write_queue"} =>
            arg[t] # NULL /\ p_Retries[arg[t]] < max_retries
      /\ pc[t] = "queue_send" => cur[t] # NULL /\ p_Retries[cur[t]] < max_retries
  BY DEF TypeInv, TxInv, TxControl
<1>2. /\ arg[t] # NULL => arg[t] \in HeldTx
      /\ cur[t] # NULL => cur[t] \in HeldTx
  BY DEF HeldTx, Held
<1> QED  BY <1>1, <1>2, PendingHeld DEF TypeInv, TxInv

\* The types the steps below need.
LEMMA WriteTypes ==
    ASSUME TypeInv
    PROVE  /\ tries \in [1..MaxWrites -> Nat] /\ writes \in 0..MaxWrites
           /\ MaxWrites \in Nat /\ max_retries \in Nat
           /\ p_Retries \in [TxPackets -> Nat] /\ Pending \subseteq TxPackets
           /\ p_DoneFunc \in [TxPackets \cup RxPackets -> Nat]
           /\ tx_log \in Seq([func : Nat, result : Results])
           /\ tx_free \in Seq(TxPackets)
BY PacketFacts, NumberFacts DEF TypeInv, TypeOK, TxInv, TxTypeOK, Pending

\* A step that changes no list of writes and no count keeps WriteControl.
LEMMA WriteSame ==
    ASSUME TypeInv, WriteControl,
           ToSet(tx_free') = ToSet(tx_free),
           UNCHANGED <<tx_log, tries, writes, p_Retries>>,
           \A p \in TxPackets : p_DoneFunc'[p] = p_DoneFunc[p]
    PROVE  WriteControl'
<1>1. Pending' = Pending /\ Logged' = Logged /\ Pending \subseteq TxPackets
  BY DEF Pending, Logged
<1>2. PendingOwn' /\ LoggedOnce' /\ NoneForgotten'
  BY <1>1 DEF WriteControl, PendingOwn, LoggedOnce, NoneForgotten
<1> QED  BY <1>2 DEF WriteControl

\* parblk_write: one more packet stands for one more write.
LEMMA WriteAccepts ==
    ASSUME TypeInv, WriteControl, NEW t \in Tasks, Write(t)
    PROVE  WriteControl'
<1> DEFINE p == Head(tx_free)
<1>1. /\ tx_free # <<>> /\ tx_free' = Tail(tx_free) /\ writes < MaxWrites
      /\ writes' = writes + 1 /\ UNCHANGED <<tx_log, tries>>
      /\ p_DoneFunc' = [p_DoneFunc EXCEPT ![p] = writes + 1]
      /\ p_Retries' = [p_Retries EXCEPT ![p] = 0]
  BY DEF Write, AllocTx
<1>2. /\ p \in TxPackets /\ p \in ToSet(tx_free)
      /\ ToSet(tx_free') = ToSet(tx_free) \ {p}
  BY <1>1, RemHeadList DEF TypeInv, TxInv, TxTypeOK, TxConservation
<1>3. /\ Pending' = Pending \cup {p} /\ p \notin Pending /\ Logged' = Logged
      /\ Pending \subseteq TxPackets
  BY <1>1, <1>2 DEF Pending, Logged
<1>4. /\ p_DoneFunc'[p] = writes + 1 /\ p_Retries'[p] = 0
      /\ \A q \in Pending : p_DoneFunc'[q] = p_DoneFunc[q] /\ p_Retries'[q] = p_Retries[q]
  BY <1>1, <1>2, <1>3, WriteTypes
<1>5. /\ writes + 1 \in 1..MaxWrites /\ 1..writes' = 1..writes \cup {writes + 1}
      /\ writes + 1 \notin 1..writes
      /\ (writes + 1)..MaxWrites = (writes' + 1)..MaxWrites \cup {writes + 1}
  <2>1. writes \in Nat /\ MaxWrites \in Nat /\ writes < MaxWrites
    BY <1>1, WriteTypes
  <2> QED  BY <1>1, <2>1
<1>6. writes + 1 \notin Logged
  BY <1>5 DEF WriteControl, LoggedOnce, Logged
<1>7. PendingOwn'
  BY <1>1, <1>3, <1>4, <1>5, <1>6 DEF WriteControl, PendingOwn, NoneForgotten
<1>8. LoggedOnce'
  BY <1>1, <1>5 DEF WriteControl, LoggedOnce
<1>9. NoneForgotten'
  BY <1>1, <1>3, <1>4, <1>5 DEF WriteControl, NoneForgotten
<1> QED  BY <1>7, <1>8, <1>9 DEF WriteControl

\* What an attempt for packet p changes in tries: the count of its write only.
LEMMA TryCounted ==
    ASSUME TypeInv, WriteControl, NEW p \in Pending, CountTry(p)
    PROVE  /\ tries'[p_DoneFunc[p]] = p_Retries[p] + 1
           /\ \A r \in 1..MaxWrites : r # p_DoneFunc[p] => tries'[r] = tries[r]
           /\ p_DoneFunc[p] \in 1..writes /\ 1..writes \subseteq 1..MaxWrites
           /\ p_DoneFunc[p] \notin Logged
<1>1. /\ p_DoneFunc[p] \in 1..writes /\ tries[p_DoneFunc[p]] = p_Retries[p]
      /\ p_DoneFunc[p] \notin Logged
  BY DEF WriteControl, PendingOwn
<1>2. 1..writes \subseteq 1..MaxWrites
  BY WriteTypes
<1> QED  BY <1>1, <1>2, WriteTypes DEF CountTry

\* A failed attempt after which the packet is kept: both counts go up.
LEMMA WriteFails ==
    ASSUME TypeInv, WriteControl, NEW p \in Pending, CountTry(p),
           p_Retries' = [p_Retries EXCEPT ![p] = @ + 1],
           UNCHANGED <<tx_free, tx_log, writes, p_DoneFunc>>
    PROVE  WriteControl'
<1>1. Pending' = Pending /\ Logged' = Logged
  BY DEF Pending, Logged
<1>2. /\ p_Retries'[p] = p_Retries[p] + 1
      /\ \A q \in Pending : q # p => p_Retries'[q] = p_Retries[q]
  BY WriteTypes
<1>3. PendingOwn'
  BY <1>1, <1>2, TryCounted DEF WriteControl, PendingOwn
<1>4. LoggedOnce'
  <2>1. \A i \in DOMAIN tx_log : tx_log[i].func \in Logged
    BY DEF Logged
  <2> QED  BY <2>1, TryCounted DEF WriteControl, LoggedOnce
<1>5. NoneForgotten'
  <2>1. \A r \in (writes + 1)..MaxWrites : r \in 1..MaxWrites /\ r \notin 1..writes
    BY WriteTypes
  <2> QED  BY <1>1, <2>1, TryCounted DEF WriteControl, NoneForgotten
<1> QED  BY <1>3, <1>4, <1>5 DEF WriteControl

\* done_tx_packet after an attempt: the write moves from its packet to the log.
LEMMA WriteDone ==
    ASSUME TypeInv, WriteControl, NEW p \in Pending, CountTry(p),
           NEW result \in Results, DoneTx(p, result), UNCHANGED <<writes, p_DoneFunc>>,
           \A q \in Pending : q # p => p_Retries'[q] = p_Retries[q],
           p_Retries[p] < max_retries,
           result # "OK" => p_Retries[p] + 1 = max_retries
    PROVE  WriteControl'
<1> DEFINE f == p_DoneFunc[p]
<1> DEFINE last == Len(tx_log) + 1
<1>1. /\ tx_free' = Append(tx_free, p)
      /\ tx_log' = Append(tx_log, [func |-> f, result |-> result])
  BY DEF DoneTx, Release, AddTail
<1>2. ToSet(tx_free') = ToSet(tx_free) \cup {p}
  BY <1>1, AddTailList DEF TypeInv, TxInv, TxTypeOK, TxConservation, Pending
<1>3. Pending' = Pending \ {p}
  BY <1>2 DEF Pending
<1>4. /\ DOMAIN tx_log' = DOMAIN tx_log \cup {last} /\ last \notin DOMAIN tx_log
      /\ \A i \in DOMAIN tx_log : tx_log'[i] = tx_log[i]
      /\ tx_log'[last].func = f /\ tx_log'[last].result = result
  <2> DEFINE e == [func |-> f, result |-> result]
  <2>1. tx_log' = Append(tx_log, e) /\ e.func = f /\ e.result = result
    BY <1>1
  <2>2. tx_log \in Seq([func : Nat, result : Results])
    BY WriteTypes
  <2> HIDE DEF e, f
  <2>3. /\ DOMAIN Append(tx_log, e) = DOMAIN tx_log \cup {last} /\ last \notin DOMAIN tx_log
        /\ \A i \in DOMAIN tx_log : Append(tx_log, e)[i] = tx_log[i]
        /\ Append(tx_log, e)[last] = e
    BY <2>2, AppendFacts
  <2> QED  BY <2>1, <2>3
<1>5. Logged' = Logged \cup {f} /\ \A i \in DOMAIN tx_log : tx_log[i].func \in Logged
  BY <1>4 DEF Logged
<1>6. PendingOwn'
  BY <1>3, <1>5, TryCounted DEF WriteControl, PendingOwn
<1>7. LoggedOnce'
  <2>1. tries'[f] <= max_retries /\ (result # "OK" => tries'[f] = max_retries)
    <3>1. p_Retries[p] \in Nat /\ max_retries \in Nat
      BY WriteTypes
    <3> QED  BY <3>1, TryCounted
  <2> HIDE DEF last
  <2> QED  BY <1>4, <1>5, <2>1, TryCounted DEF WriteControl, LoggedOnce
<1>8. NoneForgotten'
  <2>1. \A r \in (writes + 1)..MaxWrites : r \in 1..MaxWrites /\ r \notin 1..writes
    BY WriteTypes
  <2> QED  BY <1>3, <1>5, <2>1, TryCounted DEF WriteControl, NoneForgotten
<1> QED  BY <1>6, <1>7, <1>8 DEF WriteControl

-----------------------------------------------------------------------------
LEMMA WriteControlInit == Init => WriteControl
<1> SUFFICES ASSUME Init PROVE WriteControl
  OBVIOUS
<1>1. TxPackets \subseteq ToSet(tx_free)
  BY TxInit DEF TxInv, TxConservation, Init, HeldTx, Held, ToSet
<1>2. Pending = {} /\ Logged = {} /\ DOMAIN tx_log = {}
  BY <1>1 DEF Pending, Logged, Init
<1>3. writes = 0 /\ \A r \in 1..MaxWrites : tries[r] = 0
  BY DEF Init
<1>4. 1..writes = {} /\ (writes + 1)..MaxWrites = 1..MaxWrites
  BY <1>3
<1> QED  BY <1>2, <1>3, <1>4 DEF WriteControl, PendingOwn, LoggedOnce, NoneForgotten

LEMMA WriteControlNext == TypeInv /\ WriteControl /\ [Next]_vars => WriteControl'
<1> SUFFICES ASSUME TypeInv, WriteControl, [Next]_vars PROVE WriteControl'
  OBVIOUS
<1>1. ASSUME NEW t \in Tasks, Obtain(t) \/ QueueNext(t) \/ QueueEmpty(t) \/ ReadFilled(t)
                               \/ ReadNone(t) \/ ReadFail(t)
      PROVE  WriteControl'
  BY <1>1, WriteSame DEF Obtain, ObtainTx, WriteQueue, QueueNext, QueueEmpty, ReadFilled,
                         ReadNone, ReadFail, txVars
<1>2. ASSUME NEW t \in Tasks, WriteSendOk(t) PROVE WriteControl'
  BY <1>2, HeldFacts, WriteDone DEF WriteSendOk, Results
<1>3. ASSUME NEW t \in Tasks, WriteSendFail(t) PROVE WriteControl'
  BY <1>3, HeldFacts, WriteFails DEF WriteSendFail, CountFailure
<1>4. ASSUME NEW t \in Tasks, QueueSendOk(t) PROVE WriteControl'
  BY <1>4, HeldFacts, WriteDone DEF QueueSendOk, Results
<1>5. ASSUME NEW t \in Tasks, QueueSendFail(t) PROVE WriteControl'
  <2>1. /\ cur[t] \in Pending /\ p_Retries[cur[t]] < max_retries /\ CountTry(cur[t])
        /\ p_Retries' = [p_Retries EXCEPT ![cur[t]] = p_Retries[cur[t]] + 1]
        /\ UNCHANGED <<writes, p_DoneFunc>>
    BY <1>5, HeldFacts DEF QueueSendFail
  <2>2. CASE GiveUp(p_Retries[cur[t]] + 1)
    <3>1. PICK error \in SendErrors : DoneTx(cur[t], error)
      BY <1>5, <2>2 DEF QueueSendFail
    <3>2. error \in Results
      BY DEF Results
    <3>3. p_Retries[cur[t]] + 1 = max_retries
      BY <2>1, <2>2, WriteTypes DEF GiveUp
    <3>4. \A q \in Pending : q # cur[t] => p_Retries'[q] = p_Retries[q]
      BY <2>1, WriteTypes
    <3> QED  BY <2>1, <3>1, <3>2, <3>3, <3>4, WriteDone
  <2>3. CASE ~GiveUp(p_Retries[cur[t]] + 1)
    BY <1>5, <2>1, <2>3, WriteFails DEF QueueSendFail
  <2> QED  BY <2>2, <2>3
<1>6. ASSUME NEW p \in RxPackets, NEW f, p_DoneFunc' = [p_DoneFunc EXCEPT ![p] = f],
             UNCHANGED txVars
      PROVE  WriteControl'
  <2>1. \A q \in TxPackets : p_DoneFunc'[q] = p_DoneFunc[q]
    BY <1>6, WriteTypes, NumberFacts
  <2> QED  BY <1>6, <2>1, WriteSame DEF txVars
<1>7. ASSUME NEW t \in Tasks, ReadQueue(t) PROVE WriteControl'
  <2>1. Head(rx_free) \in RxPackets
    BY <1>7 DEF ReadQueue, AllocRx, TypeInv, TypeOK
  <2> QED  BY <1>6, <1>7, <2>1 DEF ReadQueue
<1>8. ASSUME RxAlloc PROVE WriteControl'
  <2>1. Head(rx_free) \in RxPackets
    BY <1>8 DEF RxAlloc, AllocRx, TypeInv, TypeOK
  <2> QED  BY <1>6, <1>8, <2>1 DEF RxAlloc
<1>9. ASSUME Interrupt \/ Tick \/ HandleSig \/ RxPrepared \/ RxUnprepared \/ RxExhausted
             \/ Recv \/ TickStart
      PROVE  WriteControl'
  BY <1>9, WriteSame DEF Interrupt, Tick, HandleSig, RxPrepared, RxUnprepared, RxExhausted,
                         Recv, TickStart, txVars
<1>10. CASE UNCHANGED vars
  BY <1>10, WriteSame DEF vars, txVars
<1> QED
  BY <1>1, <1>2, <1>3, <1>4, <1>5, <1>7, <1>8, <1>9, <1>10, WriteAccepts
     DEF Next, Call, SendQueue, SendNew, Reading, Serve

LEMMA WriteInvariant == Spec => [](TypeInv /\ WriteControl)
<1>1. Init => TypeInv /\ WriteControl
  BY TypeInvInit, WriteControlInit
<1>2. TypeInv /\ WriteControl /\ [Next]_vars => TypeInv' /\ WriteControl'
  BY TypeInvNext, WriteControlNext
<1> QED  BY <1>1, <1>2, PTL DEF Spec

\* Every write that parblk_write accepted is completed once at most, and until
\* then exactly one packet of the queue or in the hands of a call stands for
\* it: none is answered twice, and none is forgotten.
THEOREM WritesAnsweredOnce == Spec => []WritesOnce
<1>1. TypeInv /\ WriteControl => WritesOnce
  <2> SUFFICES ASSUME TypeInv, WriteControl, NEW r \in 1..writes
               PROVE  Cardinality({i \in DOMAIN tx_log : tx_log[i].func = r})
                      + Cardinality({p \in ToSet(tx_list) \cup HeldTx :
                                        p_DoneFunc[p] = r}) = 1
    BY DEF WritesOnce
  <2> DEFINE L == {i \in DOMAIN tx_log : tx_log[i].func = r}
  <2> DEFINE P == {p \in Pending : p_DoneFunc[p] = r}
  <2>1. ToSet(tx_list) \cup HeldTx = Pending
    BY PendingHeld DEF TypeInv, TxInv
  <2> SUFFICES Cardinality(L) + Cardinality(P) = 1
    BY <2>1, Zenon
  <2>2. CASE r \in Logged
    <3>1. PICK i \in DOMAIN tx_log : tx_log[i].func = r
      BY <2>2 DEF Logged
    <3>2. L = {i} /\ P = {}
      BY <2>2, <3>1 DEF WriteControl, LoggedOnce, PendingOwn
    <3>3. Cardinality(L) = 1 /\ Cardinality(P) = 0
      BY <3>2, FS_Singleton, FS_EmptySet
    <3> HIDE DEF L, P
    <3> QED  BY <3>3
  <2>3. CASE r \notin Logged
    <3>1. PICK p \in Pending : p_DoneFunc[p] = r
      BY <2>3 DEF WriteControl, NoneForgotten
    <3>2. L = {} /\ P = {p}
      BY <2>3, <3>1 DEF WriteControl, PendingOwn, Logged
    <3>3. Cardinality(L) = 0 /\ Cardinality(P) = 1
      BY <3>2, FS_Singleton, FS_EmptySet
    <3> HIDE DEF L, P
    <3> QED  BY <3>3
  <2> QED  BY <2>2, <2>3
<1> QED  BY <1>1, WriteInvariant, PTL

\* A write that is reported as failed was attempted exactly max_retries times,
\* whichever of parblk_write and handle_tx_queue made the attempts, and no
\* write is attempted more often.
THEOREM DroppedOnlyAfterMaxRetries == Spec => []DropOnlyAfterMaxRetries
<1>1. TypeInv /\ WriteControl => DropOnlyAfterMaxRetries
  <2> SUFFICES ASSUME TypeInv, WriteControl PROVE DropOnlyAfterMaxRetries
    OBVIOUS
  <2>1. \A r \in 1..MaxWrites : r \in 1..writes \/ r \in (writes + 1)..MaxWrites
    BY WriteTypes
  <2>2. ASSUME NEW p \in Pending PROVE tries[p_DoneFunc[p]] <= max_retries
    <3>1. p_Retries[p] \in 0..max_retries
      BY WriteTypes DEF TypeInv, TypeOK
    <3> QED  BY <3>1 DEF WriteControl, PendingOwn
  <2>3. \A r \in Logged : tries[r] <= max_retries
    BY DEF WriteControl, LoggedOnce, Logged
  <2>4. \A r \in 1..MaxWrites : tries[r] <= max_retries
    BY <2>1, <2>2, <2>3, PacketFacts DEF WriteControl, NoneForgotten
  <2> QED  BY <2>4 DEF DropOnlyAfterMaxRetries, WriteControl, LoggedOnce
<1> QED  BY <1>1, WriteInvariant, PTL
=============================================================================
