----------------------------- MODULE ParBlkFifo -----------------------------
(***************************************************************************)
(* With one task the engine implements the queue of TxQueue: the packet    *)
(* handle_tx_queue has taken from the queue is its head, then comes the    *)
(* queue, and last the packet parblk_write has not queued yet.  It falls   *)
(* silent when parblk_handle_sig, out of rx packets, drops a tick.         *)
(***************************************************************************)
EXTENDS ParBlk

InHand(p) == IF p = NULL THEN <<>> ELSE <<p>>

PendingPackets == InHand(cur[server]) \o tx_list \o InHand(arg[server])

PendingRequests ==
    [i \in DOMAIN PendingPackets |-> p_DoneFunc[PendingPackets[i]]]

TickLost == ~ticking /\ "tick" \notin sig \cup got

Queue == INSTANCE TxQueue WITH queue <- PendingRequests, accepted <- writes,
                               log <- tx_log, silent <- TickLost

\* Writes are completed in the order of the calls, each exactly once and, while a
\* tick is alive, each at last, through failed attempts, retries, ticks at any moment
\* and an rx pool that runs out.
TxFifo == Queue!Spec
=============================================================================
