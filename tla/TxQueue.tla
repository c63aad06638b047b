------------------------------- MODULE TxQueue ------------------------------
(***************************************************************************)
(* What parblk_write promises a program with one task: a queue.  Requests  *)
(* are accepted in the order of the calls and completed in that order,     *)
(* each once, with success or with an error, and each at last unless the   *)
(* queue falls silent.  Then only another call moves it.  Packets, pools,  *)
(* retries, signals and ticks are below this level.                        *)
(***************************************************************************)
EXTENDS Naturals, Sequences

CONSTANT Results

VARIABLES queue,     \* requests accepted and not yet completed
          accepted,  \* how many were accepted
          log,       \* the completions, in order
          silent     \* nothing retries the queue any more

vars == <<queue, accepted, log, silent>>

Init == queue = <<>> /\ accepted = 0 /\ log = <<>> /\ silent = FALSE

Accept == /\ accepted' = accepted + 1
          /\ queue' = Append(queue, accepted + 1)
          /\ UNCHANGED <<log, silent>>

Complete == /\ queue # <<>>
            /\ \E r \in Results : log' = Append(log, [func |-> Head(queue), result |-> r])
            /\ queue' = Tail(queue)
            /\ UNCHANGED <<accepted, silent>>

Fall == silent' = TRUE /\ UNCHANGED <<queue, accepted, log>>

Next == Accept \/ Complete \/ Fall

\* What a caller is promised at every step, and what it is promised at last.
Safety == Init /\ [][Next]_vars
Spec   == Safety /\ WF_vars(~silent /\ Complete)
=============================================================================
