-------------------------------- MODULE Link --------------------------------
(***************************************************************************)
(* What the parallel link promises to the two programs that take turns on  *)
(* it: each side offers one packet at a time, the other side receives it   *)
(* unchanged and once, and the sender is told so.  Delivery and            *)
(* confirmation come in either order.                                      *)
(***************************************************************************)
EXTENDS Naturals, Sequences

CONSTANTS Sides, Other(_), Packets

VARIABLES
    offered,  \* side -> packets it has passed to send, in order
    sent,     \* side -> packets that were confirmed to it
    rcvd      \* side -> packets it has received
vars == <<offered, sent, rcvd>>

Init == /\ offered = [s \in Sides |-> <<>>]
        /\ sent = offered /\ rcvd = offered

Confirmed(s) == Len(sent[s]) = Len(offered[s])
Delivered(s) == Len(rcvd[Other(s)]) = Len(offered[s])

Offer(s) ==
    /\ Confirmed(s) /\ Delivered(s)
    /\ \E p \in Packets : offered' = [offered EXCEPT ![s] = Append(@, p)]
    /\ UNCHANGED <<sent, rcvd>>

Current(s) == offered[s][Len(offered[s])]

Deliver(s) ==
    /\ ~Delivered(s)
    /\ rcvd' = [rcvd EXCEPT ![Other(s)] = Append(@, Current(s))]
    /\ UNCHANGED <<offered, sent>>

Confirm(s) ==
    /\ ~Confirmed(s)
    /\ sent' = [sent EXCEPT ![s] = Append(@, Current(s))]
    /\ UNCHANGED <<offered, rcvd>>

Next == \E s \in Sides : Offer(s) \/ Deliver(s) \/ Confirm(s)

Safety == Init /\ [][Next]_vars
Spec   == Safety /\ \A s \in Sides : WF_vars(Deliver(s)) /\ WF_vars(Confirm(s))
=============================================================================
