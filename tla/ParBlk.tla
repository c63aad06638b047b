------------------------------- MODULE ParBlk -------------------------------
(***************************************************************************)
(* The packet engine of parblk/amiga/lib: parblk.c on top of the packet    *)
(* pools of pkt.c.                                                         *)
(*                                                                         *)
(* Tasks call parblk_write and parblk_read.  One of them, the server, also *)
(* runs the signal loop: it waits for the receive signal of the FLAG       *)
(* interrupt and for the timer tick and passes them to parblk_handle_sig.  *)
(* A step of a task ends where another task, an interrupt or the timer can *)
(* be observed: at a semaphore and at the calls of par_send and par_recv,  *)
(* which take up to half a second.  What those two calls answer is chosen  *)
(* by the environment here.                                                *)
(*                                                                         *)
(* Packets are numbered like the array pkts of pkt_init: first the tx,     *)
(* then the rx packets.  A request is identified by its done function (in  *)
(* the code: by p_DoneFunc and what it closes over), numbered in the order *)
(* in which the calls were accepted.  A definition named Fault... is the   *)
(* form a plausible bug would give to the definition after it.             *)
(***************************************************************************)
EXTENDS Integers, SequencesExt

CONSTANTS
    Tasks,         \* the tasks that call the library
    server,        \* the task that called parblk_init and handles the signals
    tx_pkt_size,   \* packets in the tx pool
    rx_pkt_size,   \* packets in the rx pool
    max_pkt_size,  \* size of the buffers of the rx pool
    max_retries,   \* failed attempts before a packet is dropped
    Garbage,       \* values the uninitialised local p of the rx path may hold
    MaxWrites,     \* bound: accepted parblk_write calls
    MaxReads,      \* bound: accepted parblk_read calls
    MaxArrivals    \* bound: packets announced by the peer

NULL == 0

TxPackets == 1..tx_pkt_size
RxPackets == (tx_pkt_size + 1)..(tx_pkt_size + rx_pkt_size)
Sizes     == 1..max_pkt_size

SendErrors == {"TIMEOUT", "NO_LINE"}
Results    == SendErrors \cup {"OK", "BUFFER_TOO_SMALL"}

ASSUME TasksAssumption == server \in Tasks /\ NULL \notin Tasks
ASSUME SizeAssumption ==
    /\ tx_pkt_size \in Nat
    /\ rx_pkt_size \in Nat
    /\ max_pkt_size \in Nat \ {0}
    /\ Garbage # {} /\ Garbage \subseteq RxPackets \cup {NULL}
\* parblk_write queues a packet after its first failure without looking at
\* the limit, so a limit of one would not be kept.
ASSUME RetryAssumption == max_retries \in Nat \ {0, 1}
ASSUME BoundAssumption == {MaxWrites, MaxReads, MaxArrivals} \subseteq Nat

VARIABLES
    tx_free, rx_free,               \* pkt.c: the free lists
    tx_list,                        \* packets waiting for a retry
    tx_sem,                         \* owner of parblk.c's tx_sem, or NULL
    p_Retries,                      \* tx packet -> failed attempts
    rx_empty_list, rx_filled_list,  \* reads waiting, packets waiting
    p_Buffer,                       \* rx packet -> capacity, contents, result
    p_DoneFunc,                     \* packet -> request to be called, or NULL
    pc,                             \* task -> where it is
    arg,                            \* task -> packet of its parblk_write
    cur,                            \* task -> p of handle_tx_queue
    rxp, from_empty,                \* locals of parblk_handle_sig
    got,                            \* its argument sigmask
    sig,                            \* signals pending at the server
    ticking,                        \* the ticker's timer request is in use
    rx_flag,                        \* the interrupt's RX bit of s_Flags
    \* what happened so far, for the properties
    writes, reads, arrivals,        \* accepted calls, announced packets
    tx_log,                         \* completed writes, in order
    rx_log,                         \* completed reads, in order
    tries                           \* request -> par_send calls made for it

txVars  == <<tx_free, tx_list, tx_sem, p_Retries, arg, cur, writes, tx_log, tries>>
rxVars  == <<rx_free, rx_empty_list, rx_filled_list, p_Buffer, rxp, from_empty,
             reads, rx_log>>
sigVars == <<got, sig, ticking, rx_flag, arrivals>>
vars    == <<txVars, rxVars, sigVars, p_DoneFunc, pc>>

-----------------------------------------------------------------------------
(* Exec lists and the decisions of the code.                               *)

FaultAddHead(s, p) == <<p>> \o s
AddTail(s, p) == Append(s, p)

\* pkt_tx_free and pkt_rx_free; the fault is the done function releasing the
\* packet too, as the comments at its callers ask.
FaultRelease(s, p) == AddTail(AddTail(s, p), p)
Release(s, p) == AddTail(s, p)

\* A failed packet stays the next one to be sent.
FaultRequeueNot(s, p) == s
Requeue(s, p) == <<p>> \o s

FaultGiveUpLate(n) == n > max_retries
GiveUp(n) == n >= max_retries

\* The attempt of parblk_write counts as one of the packet's attempts.
FaultUncounted(n) == n
CountFailure(n) == n + 1

-----------------------------------------------------------------------------
\* pkt_init pushes the packets with AddHead.
PoolsInit ==
    /\ tx_free = [i \in TxPackets |-> tx_pkt_size + 1 - i]
    /\ rx_free = [i \in 1..rx_pkt_size |-> tx_pkt_size + rx_pkt_size + 1 - i]
    /\ p_DoneFunc = [p \in TxPackets \cup RxPackets |-> NULL]
    /\ p_Retries = [p \in TxPackets |-> 0]
    /\ p_Buffer = [p \in RxPackets |-> [cap |-> max_pkt_size, size |-> 0,
                                        data |-> 0, result |-> "OK"]]

\* The state in which parblk_init returns: the ticker runs.
Init ==
    /\ PoolsInit
    /\ tx_list = <<>> /\ rx_empty_list = <<>> /\ rx_filled_list = <<>>
    /\ tx_sem = NULL
    /\ pc = [t \in Tasks |-> "idle"]
    /\ arg = [t \in Tasks |-> NULL] /\ cur = [t \in Tasks |-> NULL]
    /\ rxp = NULL /\ from_empty = FALSE
    /\ got = {} /\ sig = {}
    /\ ticking = TRUE
    /\ rx_flag = FALSE
    /\ writes = 0 /\ reads = 0 /\ arrivals = 0
    /\ tx_log = <<>> /\ rx_log = <<>>
    /\ tries = [r \in 1..MaxWrites |-> 0]

\* pkt_tx_alloc and pkt_rx_alloc take the first free packet.
AllocTx == tx_free # <<>> /\ tx_free' = Tail(tx_free)
AllocRx == rx_free # <<>> /\ rx_free' = Tail(rx_free)

-----------------------------------------------------------------------------
(* parblk_write.  An exhausted pool makes it return NULL, which changes    *)
(* nothing.                                                                *)

Write(t) ==
    /\ pc[t] = "idle" /\ writes < MaxWrites
    /\ AllocTx
    /\ LET p == Head(tx_free)
       IN /\ arg' = [arg EXCEPT ![t] = p]
          /\ p_DoneFunc' = [p_DoneFunc EXCEPT ![p] = writes + 1]
          /\ p_Retries' = [p_Retries EXCEPT ![p] = 0]
    /\ writes' = writes + 1
    /\ pc' = [pc EXCEPT ![t] = "flush"]
    /\ UNCHANGED <<tx_list, tx_sem, cur, tx_log, tries, rxVars, sigVars>>

\* done_tx_packet calls the done function and then releases the packet.
DoneTx(p, result) ==
    /\ tx_log' = Append(tx_log, [func |-> p_DoneFunc[p], result |-> result])
    /\ tx_free' = Release(tx_free, p)

CountTry(p) == tries' = [tries EXCEPT ![p_DoneFunc[p]] = @ + 1]

\* The attempt of parblk_write itself, made outside tx_sem.
WriteSendOk(t) ==
    /\ pc[t] = "write_send"
    /\ CountTry(arg[t])
    /\ DoneTx(arg[t], "OK")
    /\ arg' = [arg EXCEPT ![t] = NULL]
    /\ pc' = [pc EXCEPT ![t] = "idle"]
    /\ UNCHANGED <<tx_list, tx_sem, p_Retries, cur, writes, rxVars, sigVars,
                   p_DoneFunc>>

WriteSendFail(t) ==
    /\ pc[t] = "write_send"
    /\ CountTry(arg[t])
    /\ p_Retries' = [p_Retries EXCEPT ![arg[t]] = CountFailure(@)]
    /\ pc' = [pc EXCEPT ![t] = "write_queue"]
    /\ UNCHANGED <<tx_free, tx_list, tx_sem, arg, cur, writes, tx_log, rxVars,
                   sigVars, p_DoneFunc>>

WriteQueue(t) ==
    /\ pc[t] = "write_queue" /\ tx_sem = NULL
    /\ tx_list' = AddTail(tx_list, arg[t])
    /\ arg' = [arg EXCEPT ![t] = NULL]
    /\ pc' = [pc EXCEPT ![t] = "idle"]
    /\ UNCHANGED <<tx_free, tx_sem, p_Retries, cur, writes, tx_log, tries,
                   rxVars, sigVars, p_DoneFunc>>

-----------------------------------------------------------------------------
(* handle_tx_queue, called by parblk_write (arg # NULL) and for the tick.  *)

\* Where the caller goes on when handle_tx_queue has answered ok.
After(t, ok) == IF arg[t] = NULL THEN "tick"
                ELSE IF ok THEN "write_send" ELSE "write_queue"

ObtainTx(t) ==
    /\ pc[t] = "flush" /\ tx_sem = NULL
    /\ tx_sem' = t
    /\ pc' = [pc EXCEPT ![t] = "loop"]
    /\ UNCHANGED <<tx_free, tx_list, p_Retries, arg, cur, writes, tx_log, tries,
                   rxVars, sigVars, p_DoneFunc>>

QueueNext(t) ==
    /\ pc[t] = "loop" /\ tx_list # <<>>
    /\ cur' = [cur EXCEPT ![t] = Head(tx_list)]
    /\ tx_list' = Tail(tx_list)
    /\ pc' = [pc EXCEPT ![t] = "queue_send"]
    /\ UNCHANGED <<tx_free, tx_sem, p_Retries, arg, writes, tx_log, tries,
                   rxVars, sigVars, p_DoneFunc>>

QueueEmpty(t) ==
    /\ pc[t] = "loop" /\ tx_list = <<>>
    /\ tx_sem' = NULL
    /\ pc' = [pc EXCEPT ![t] = After(t, TRUE)]
    /\ UNCHANGED <<tx_free, tx_list, p_Retries, arg, cur, writes, tx_log, tries,
                   rxVars, sigVars, p_DoneFunc>>

QueueSendOk(t) ==
    /\ pc[t] = "queue_send"
    /\ CountTry(cur[t])
    /\ DoneTx(cur[t], "OK")
    /\ cur' = [cur EXCEPT ![t] = NULL]
    /\ pc' = [pc EXCEPT ![t] = "loop"]
    /\ UNCHANGED <<tx_list, tx_sem, p_Retries, arg, writes, rxVars, sigVars,
                   p_DoneFunc>>

QueueSendFail(t) ==
    /\ pc[t] = "queue_send"
    /\ CountTry(cur[t])
    /\ LET p == cur[t]
           n == p_Retries[p] + 1
       IN /\ p_Retries' = [p_Retries EXCEPT ![p] = n]
          /\ \/ /\ GiveUp(n)
                /\ \E error \in SendErrors : DoneTx(p, error)
                /\ UNCHANGED tx_list
             \/ /\ ~GiveUp(n)
                /\ tx_list' = Requeue(tx_list, p)
                /\ UNCHANGED <<tx_free, tx_log>>
    /\ cur' = [cur EXCEPT ![t] = NULL]
    /\ tx_sem' = NULL
    /\ pc' = [pc EXCEPT ![t] = After(t, FALSE)]
    /\ UNCHANGED <<arg, writes, rxVars, sigVars, p_DoneFunc>>

-----------------------------------------------------------------------------
(* parblk_read.                                                            *)

\* done_rx_packet: the done function sees the contents of the packet.
DoneRx(p, buffer) ==
    /\ rx_log' = Append(rx_log, [func |-> p_DoneFunc[p], data |-> buffer.data,
                                 result |-> buffer.result])
    /\ rx_free' = Release(rx_free, p)

\* A packet is there: copy it to the caller's buffer unless it is too big.
ReadFilled(t) ==
    /\ pc[t] = "idle" /\ reads < MaxReads
    /\ rx_filled_list # <<>>
    /\ LET p == Head(rx_filled_list)
       IN \E size \in Sizes :
             LET b == IF p_Buffer[p].size > size
                      THEN [p_Buffer[p] EXCEPT !.result = "BUFFER_TOO_SMALL"]
                      ELSE p_Buffer[p]
             IN p_Buffer' = [p_Buffer EXCEPT ![p] = b] /\ DoneRx(p, b)
    /\ rx_filled_list' = Tail(rx_filled_list)
    /\ reads' = reads + 1
    /\ UNCHANGED <<txVars, rx_empty_list, rxp, from_empty, sigVars, p_DoneFunc, pc>>

\* None is there: the read will be queued.
ReadNone(t) ==
    /\ pc[t] = "idle" /\ reads < MaxReads
    /\ rx_filled_list = <<>>
    /\ pc' = [pc EXCEPT ![t] = "read_queue"]
    /\ UNCHANGED <<txVars, rxVars, sigVars, p_DoneFunc>>

ReadQueue(t) ==
    /\ pc[t] = "read_queue" /\ reads < MaxReads
    /\ AllocRx
    /\ LET p == Head(rx_free)
       IN /\ \E size \in Sizes : p_Buffer' = [p_Buffer EXCEPT ![p].cap = size]
          /\ p_DoneFunc' = [p_DoneFunc EXCEPT ![p] = reads + 1]
          /\ rx_empty_list' = AddTail(rx_empty_list, p)
    /\ reads' = reads + 1
    /\ pc' = [pc EXCEPT ![t] = "idle"]
    /\ UNCHANGED <<txVars, rx_filled_list, rxp, from_empty, rx_log, sigVars>>

\* The rx pool is exhausted: parblk_read returns NULL.
ReadFail(t) ==
    /\ pc[t] = "read_queue" /\ (rx_free = <<>> \/ reads = MaxReads)
    /\ pc' = [pc EXCEPT ![t] = "idle"]
    /\ UNCHANGED <<txVars, rxVars, sigVars, p_DoneFunc>>

-----------------------------------------------------------------------------
(* The environment of the server: the FLAG interrupt and the timer.        *)

\* The peer raises BUSY.  While RX is set the interrupt does not signal.
Interrupt ==
    /\ ~rx_flag /\ arrivals < MaxArrivals
    /\ rx_flag' = TRUE
    /\ sig' = sig \cup {"rx"}
    /\ arrivals' = arrivals + 1
    /\ UNCHANGED <<txVars, rxVars, got, ticking, p_DoneFunc, pc>>

Tick ==
    /\ ticking
    /\ ticking' = FALSE
    /\ sig' = sig \cup {"tick"}
    /\ UNCHANGED <<txVars, rxVars, got, rx_flag, arrivals, p_DoneFunc, pc>>

-----------------------------------------------------------------------------
(* parblk_handle_sig, run by the server.                                   *)

\* Wait returns all pending signals at once.
HandleSig ==
    /\ pc[server] = "idle" /\ sig # {}
    /\ got' = sig /\ sig' = {}
    /\ pc' = [pc EXCEPT ![server] = IF "rx" \in sig THEN "rx" ELSE "flush"]
    /\ UNCHANGED <<txVars, rxVars, ticking, rx_flag, arrivals, p_DoneFunc>>

\* Whether the received packet belongs to a read.
FaultFromRead == from_empty
FromRead == TRUE

\* A read has prepared a packet.
RxPrepared ==
    /\ pc[server] = "rx" /\ rx_empty_list # <<>>
    /\ rxp' = Head(rx_empty_list) /\ from_empty' = FromRead
    /\ rx_empty_list' = Tail(rx_empty_list)
    /\ pc' = [pc EXCEPT ![server] = "recv"]
    /\ UNCHANGED <<txVars, rx_free, rx_filled_list, p_Buffer, reads, rx_log,
                   sigVars, p_DoneFunc>>

\* None has: p was never assigned, and is compared with NULL.
RxUnprepared ==
    /\ pc[server] = "rx" /\ rx_empty_list = <<>>
    /\ from_empty' = FALSE
    /\ rxp' \in Garbage
    /\ pc' = [pc EXCEPT ![server] = IF rxp' = NULL THEN "rx_alloc" ELSE "recv"]
    /\ UNCHANGED <<txVars, rx_free, rx_empty_list, rx_filled_list, p_Buffer, reads,
                   rx_log, sigVars, p_DoneFunc>>

RxAlloc ==
    /\ pc[server] = "rx_alloc"
    /\ AllocRx
    /\ LET p == Head(rx_free)
       IN /\ rxp' = p
          /\ p_DoneFunc' = [p_DoneFunc EXCEPT ![p] = NULL]
          /\ p_Buffer' = [p_Buffer EXCEPT ![p].cap = max_pkt_size]
    /\ pc' = [pc EXCEPT ![server] = "recv"]
    /\ UNCHANGED <<txVars, rx_empty_list, rx_filled_list, from_empty, reads, rx_log,
                   sigVars>>

\* No packet to fill: return at once, without looking at the tick.
RxExhausted ==
    /\ pc[server] = "rx_alloc" /\ rx_free = <<>>
    /\ got' = {}
    /\ pc' = [pc EXCEPT ![server] = "idle"]
    /\ UNCHANGED <<txVars, rxVars, sig, ticking, rx_flag, arrivals, p_DoneFunc>>

\* What par_recv leaves in buffer b for the announced packet: hwrecv refuses
\* a packet that is bigger than the buffer as a timeout.
Received(b, data) ==
    {[b EXCEPT !.size = size, !.data = data, !.result = result] :
        size \in 1..b.cap, result \in {"OK", "TIMEOUT"}}

\* par_recv fills the packet and ends the reception in s_Flags; the packet
\* goes to the read that prepared it, or waits for one.
Recv ==
    /\ pc[server] = "recv"
    /\ rx_flag' = FALSE
    /\ \E b \in Received(p_Buffer[rxp], arrivals) :
          /\ p_Buffer' = [p_Buffer EXCEPT ![rxp] = b]
          /\ \/ /\ from_empty
                /\ DoneRx(rxp, b)
                /\ UNCHANGED rx_filled_list
             \/ /\ ~from_empty
                /\ rx_filled_list' = AddTail(rx_filled_list, rxp)
                /\ UNCHANGED <<rx_free, rx_log>>
    /\ rxp' = NULL
    /\ got' = got \ {"rx"}
    /\ pc' = [pc EXCEPT ![server] = IF "tick" \in got THEN "flush" ELSE "idle"]
    /\ UNCHANGED <<txVars, rx_empty_list, from_empty, reads, sig, ticking, arrivals,
                   p_DoneFunc>>

\* The tick has flushed the queue and is started again.
FaultRestarted == ticking
Restarted == TRUE

TickStart ==
    /\ pc[server] = "tick"
    /\ ticking' = Restarted
    /\ got' = {}
    /\ pc' = [pc EXCEPT ![server] = "idle"]
    /\ UNCHANGED <<txVars, rxVars, sig, rx_flag, arrivals, p_DoneFunc>>

-----------------------------------------------------------------------------
Obtain(t)    == ObtainTx(t) \/ WriteQueue(t)
SendQueue(t) == QueueNext(t) \/ QueueEmpty(t) \/ QueueSendOk(t) \/ QueueSendFail(t)
SendNew(t)   == WriteSendOk(t) \/ WriteSendFail(t)
Reading(t)   == ReadQueue(t) \/ ReadFail(t)
Call(t)      == Write(t) \/ ReadFilled(t) \/ ReadNone(t)
Serve        == RxPrepared \/ RxUnprepared \/ RxAlloc \/ RxExhausted \/ Recv
                \/ TickStart

Next == \/ \E t \in Tasks : Call(t) \/ Obtain(t) \/ SendQueue(t) \/ SendNew(t)
                            \/ Reading(t)
        \/ Interrupt \/ Tick \/ HandleSig \/ Serve

Spec == Init /\ [][Next]_vars

\* par_send and par_recv end, at the latest by their timeout; timer.device
\* replies; semaphores are granted in the order of the requests; the server
\* comes back to its Wait after every call it makes.
Fairness ==
    /\ \A t \in Tasks : /\ SF_vars(Obtain(t))
                         /\ WF_vars(SendQueue(t) \/ SendNew(t) \/ Reading(t))
    /\ WF_vars(Tick) /\ WF_vars(Serve) /\ SF_vars(HandleSig)

FairSpec == Spec /\ Fairness

-----------------------------------------------------------------------------
Locations == {"idle", "flush", "loop", "queue_send", "write_send", "write_queue",
              "read_queue", "rx", "rx_alloc", "recv", "tick"}

\* What every variable holds.  p_Retries stays within max_retries although
\* two routines count in it and only one of them looks at the limit.
TypeOK ==
    /\ tx_free \in Seq(TxPackets) /\ tx_list \in Seq(TxPackets)
    /\ rx_free \in Seq(RxPackets) /\ rx_empty_list \in Seq(RxPackets)
    /\ rx_filled_list \in Seq(RxPackets)
    /\ tx_sem \in Tasks \cup {NULL}
    /\ p_Retries \in [TxPackets -> 0..max_retries]
    /\ p_Buffer \in [RxPackets -> [cap : Sizes, size : Sizes \cup {0},
                                    data : 0..MaxArrivals, result : Results]]
    /\ p_DoneFunc \in [TxPackets \cup RxPackets -> Nat]
    /\ \A p \in TxPackets : p_DoneFunc[p] \in 0..MaxWrites
    /\ pc \in [Tasks -> Locations]
    /\ arg \in [Tasks -> TxPackets \cup {NULL}]
    /\ cur \in [Tasks -> TxPackets \cup {NULL}]
    /\ rxp \in RxPackets \cup {NULL} /\ from_empty \in BOOLEAN
    /\ got \subseteq {"rx", "tick"} /\ sig \subseteq {"rx", "tick"}
    /\ ticking \in BOOLEAN /\ rx_flag \in BOOLEAN
    /\ writes \in 0..MaxWrites /\ reads \in 0..MaxReads
    /\ arrivals \in 0..MaxArrivals
    /\ tx_log \in Seq([func : Nat, result : Results])
    /\ rx_log \in Seq([func : Nat, data : Nat, result : Results])
    /\ tries \in [1..MaxWrites -> Nat]

Held(t) == {arg[t], cur[t]} \ {NULL}
HeldTx  == UNION {Held(t) : t \in Tasks}

\* Which task has a packet in hand, and how often it has failed, follows from
\* where the task is; the packets of the queue have an attempt left.
TxControl ==
    /\ \A t \in Tasks :
          /\ cur[t] # NULL <=> pc[t] = "queue_send"
          /\ pc[t] \in {"write_send", "write_queue"} => arg[t] # NULL
          /\ arg[t] # NULL => pc[t] \in {"flush", "loop", "queue_send", "write_send",
                                        "write_queue"}
          /\ cur[t] # NULL => p_Retries[cur[t]] < max_retries
          /\ arg[t] # NULL => /\ p_Retries[arg[t]] < max_retries
                              /\ pc[t] # "write_queue" => p_Retries[arg[t]] = 0
    /\ \A p \in ToSet(tx_list) : p_Retries[p] < max_retries

\* Every tx packet is in exactly one place: once in the free list, once in
\* the queue, or in the hands of one call.  A packet that is released twice,
\* kept by two calls or forgotten would break the pool for good.
TxConservation ==
    /\ IsInjective(tx_free) /\ IsInjective(tx_list)
    /\ ToSet(tx_free) \cap ToSet(tx_list) = {}
    /\ HeldTx \cap (ToSet(tx_free) \cup ToSet(tx_list)) = {}
    /\ \A t \in Tasks : arg[t] = cur[t] => arg[t] = NULL
    /\ \A t, u \in Tasks : t # u => Held(t) \cap Held(u) = {}
    /\ TxPackets = ToSet(tx_free) \cup ToSet(tx_list) \cup HeldTx

\* Every rx packet is in exactly one place: free, prepared by a read, filled
\* and waiting for one, or being filled by parblk_handle_sig.
RxConservation ==
    /\ IsInjective(rx_free) /\ IsInjective(rx_empty_list) /\ IsInjective(rx_filled_list)
    /\ ToSet(rx_free) \cap ToSet(rx_empty_list) = {}
    /\ ToSet(rx_free) \cap ToSet(rx_filled_list) = {}
    /\ ToSet(rx_empty_list) \cap ToSet(rx_filled_list) = {}
    /\ rxp \notin ToSet(rx_free) \cup ToSet(rx_empty_list) \cup ToSet(rx_filled_list)
    /\ RxPackets = ToSet(rx_free) \cup ToSet(rx_empty_list)
                   \cup ToSet(rx_filled_list) \cup ({rxp} \ {NULL})

RxControl == rxp # NULL <=> pc[server] = "recv"

\* Every accepted write is completed once at most, and until then exactly
\* one packet that is queued or in the hands of a call stands for it.
WritesOnce ==
    \A r \in 1..writes :
        Cardinality({i \in DOMAIN tx_log : tx_log[i].func = r})
        + Cardinality({p \in ToSet(tx_list) \cup HeldTx : p_DoneFunc[p] = r}) = 1

\* A write fails only after exactly max_retries attempts, whichever of the
\* two routines made the first one, and no write is attempted more often.
DropOnlyAfterMaxRetries ==
    /\ \A r \in 1..MaxWrites : tries[r] <= max_retries
    /\ \A i \in DOMAIN tx_log :
          tx_log[i].result # "OK" => tries[tx_log[i].func] = max_retries

\* What par_recv left in a packet reaches one read, in the order of arrival:
\* the reads so far and the filled list account for every arrival but the
\* one whose reception is still due.
RxInOrder ==
    LET data == [i \in DOMAIN rx_log |-> rx_log[i].data] \o
                [i \in DOMAIN rx_filled_list |-> p_Buffer[rx_filled_list[i]].data]
    IN /\ data = [i \in 1..Len(data) |-> i]
       /\ Len(data) + (IF rx_flag THEN 1 ELSE 0) = arrivals

\* Every accepted read has ended or is waiting, and the reads that had to
\* wait have their done functions called once each, in the order of the calls.
ReadsAnswered ==
    LET called  == {i \in DOMAIN rx_log : rx_log[i].func # NULL}
        filling == IF rxp # NULL /\ from_empty THEN <<rxp>> ELSE <<>>
        waiting == filling \o rx_empty_list
    IN /\ Len(rx_log) + Len(waiting) = reads
       /\ \A i, j \in called : i < j => rx_log[i].func < rx_log[j].func
       /\ \A i \in called, j \in DOMAIN waiting : rx_log[i].func < p_DoneFunc[waiting[j]]
       /\ \A i, j \in DOMAIN waiting : i < j => p_DoneFunc[waiting[i]] < p_DoneFunc[waiting[j]]

\* The tick, which alone retries the queue, is in exactly one of three
\* places: running, signalled, or being handled.  A tick in none is lost; in
\* two, its timer request is sent while it is still in use.
TickAlive ==
    Cardinality({x \in {"running", "signalled", "handled"} :
                    \/ x = "running"   /\ ticking
                    \/ x = "signalled" /\ "tick" \in sig
                    \/ x = "handled"   /\ "tick" \in got}) = 1

\* Every write that parblk_write accepted is completed, sent or given up.
WritesComplete ==
    \A r \in 1..MaxWrites :
        r <= writes ~> \E i \in DOMAIN tx_log : tx_log[i].func = r

\* While one task reads and receives, a read waits only if no packet does: the
\* two lists are never both in use, so no read waits beside its packet.
ReadWaitsOnlyIfNone == rx_empty_list # <<>> => rx_filled_list = <<>>
=============================================================================
