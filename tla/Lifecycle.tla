------------------------------ MODULE Lifecycle ------------------------------
(***************************************************************************)
(* How the two programs that own the parallel port come up, guard a        *)
(* transfer by the timeout of timer.device, and go down: parblk            *)
(* (src/parblk/amiga/lib: parblk.c, par.c, pkt.c, timer.c) and the server  *)
(* of the library (src/srv: socksrv.c, par.c, msgio.c, timer.c).  What a   *)
(* transfer moves is in ParWire; here it only begins and ends.  A          *)
(* definition named Fault... is the form a plausible bug would give to the *)
(* next one.                                                               *)
(*                                                                         *)
(* Acquisitions and releases are data: one sequence of steps per function. *)
(* Two tasks make transfers, the one that called the init function and     *)
(* owns the exception ("server"), and one that calls parblk_write          *)
(* ("client"); two transfers never overlap.                                *)
(***************************************************************************)
EXTENDS Sequences

VARIABLES program,     \* which of the two programs runs
          pc,          \* "init", "run", "down" or "end"
          todo,        \* steps left of the init or shutdown function
          held,        \* resources allocated
          timeoutReq,  \* timeoutReq: see Requests
          tickReq,     \* tickReq
          tickSig,     \* the signal of tickPort is set
          flag,        \* state.s_TimeOut, which timeoutFlag points to
          excSig,      \* the signal of timeoutPort is set: exception pending
          handling,    \* exceptcode is between WaitIO and *flag = 0xff
          xfer,        \* what each task does in par_send or par_recv
          expired      \* history: the request of this transfer ran out

reqVars == <<timeoutReq, excSig>>
tickVars == <<tickReq, tickSig>>
stepVars == <<program, pc, todo, held>>
vars == <<stepVars, reqVars, tickVars, flag, handling, xfer, expired>>

Callers == {"server", "client"}

\* "quick": never sent (IOF_QUICK, so AbortIO and WaitIO return at once);
\* "sent": with timer.device; "replied": linked in its reply port;
\* "done": taken from the port
Requests == {"quick", "sent", "replied", "done"}

-----------------------------------------------------------------------------
(* The steps of each function, in the order of the source. *)

timer_init == <<"timeoutPort", "tickPort", "TimerBase", "exception">>
par_init == <<"intSig", "MiscBase", "port", "bits", "irq">>
pkt_init == <<"pkts", "rx_pkt_data">>
parblk_init == timer_init \o par_init \o pkt_init \o <<"tick">>

timer_tick_clear == <<"AbortIO_timeout", "WaitIO_timeout">>
pkt_free == <<"pkts", "rx_pkt_data">>
FaultParShutdown == <<"intSig", "bits", "irq", "port">>
par_shutdown == <<"intSig", "irq", "bits", "port">>
FaultTimerShutdown == <<"exception", "WaitIO_timeout", "TimerBase",
                        "tickPort", "timeoutPort">>
timer_shutdown == <<"exception", "WaitIO_timeout", "WaitIO_tick", "TimerBase",
                    "tickPort", "timeoutPort">>
parblk_shutdown == timer_tick_clear \o pkt_free \o par_shutdown \o timer_shutdown

srv_timer_init == <<"timeoutPort", "tickPort", "TimerBase", "exception">>
msgio_init == <<"srvPort">>
srv_par_init == <<"intSig", "MiscBase", "port", "bits", "irq">>
socksrv_init == srv_timer_init \o msgio_init \o srv_par_init \o <<"tick">>

srv_tick_clear == <<"AbortIO_timeout", "WaitIO_timeout">>
srv_par_shutdown == <<"intSig", "irq", "bits", "port">>
\* it does not wait for the tick
srv_timer_shutdown == <<"exception", "WaitIO_timeout", "TimerBase",
                        "tickPort", "timeoutPort">>
FaultCleanup == srv_timer_shutdown
cleanup == <<"srvPort">> \o srv_timer_shutdown
socksrv_shutdown == srv_tick_clear \o srv_par_shutdown \o cleanup

InitOf == [parblk |-> parblk_init, socksrv |-> socksrv_init]
ShutdownOf == [parblk |-> parblk_shutdown, socksrv |-> socksrv_shutdown]
StepsOf(s) == {s[i] : i \in DOMAIN s}
\* what is given back: not the base OpenResource returns
Resources == StepsOf(parblk_init \o socksrv_init) \ {"tick", "MiscBase"}
\* SetExcept cannot fail
CanFail == (Resources \cup {"MiscBase"}) \ {"exception"}

-----------------------------------------------------------------------------
Init == /\ program \in {"parblk", "socksrv"}
        /\ pc = "init" /\ todo = InitOf[program] /\ held = {}
        /\ timeoutReq = "quick" /\ tickReq = "quick" /\ tickSig = FALSE
        /\ flag = FALSE /\ excSig = FALSE /\ handling = FALSE
        /\ xfer = [c \in Callers |-> "idle"] /\ expired = FALSE

\* an exception runs in the task of the server, before its next instruction
ServerFree == "exception" \in held => ~excSig /\ ~handling
Step(s) == todo # << >> /\ Head(todo) = s /\ todo' = Tail(todo) /\ ServerFree
Runs(c) == c = "server" => ServerFree
AllIdle == \A c \in Callers : xfer[c] = "idle"

(* Starting.  par_init registers s_TimeOut as the flag, and sets it, when it *)
(* has got its signal.                                                       *)
Allocated(s) == {s} \cap Resources
FaultFlagAfter(s) == flag
FlagAfter(s) == flag \/ s = "intSig"
Acquire == /\ pc = "init" /\ \E s \in CanFail \cup {"exception"} : Step(s)
           /\ held' = held \cup Allocated(Head(todo))
           /\ flag' = FlagAfter(Head(todo))
           /\ UNCHANGED <<program, pc, reqVars, tickVars, handling, xfer, expired>>

(* A step fails.  parblk_init undoes nothing, and neither does its caller.  *)
(* When par_init cannot open misc.resource or ciaa.resource for parblk it   *)
(* answers PAR_INIT_OK, and parblk goes on without its port.  The server    *)
(* cleans up: the driver too, once it has called drv_init.                  *)
Refused ==
    /\ pc = "init" /\ todo # << >> /\ Head(todo) \in CanFail
    /\ \/ /\ program = "parblk" /\ Head(todo) = "MiscBase"
          /\ todo' = pkt_init \o <<"tick">> /\ pc' = pc
       \/ /\ program = "parblk" /\ Head(todo) # "MiscBase"
          /\ todo' = << >> /\ pc' = "end"
       \/ /\ program = "socksrv" /\ pc' = "down"
          /\ todo' = IF Head(todo) \in StepsOf(srv_par_init)
                     THEN srv_par_shutdown \o cleanup ELSE cleanup
    /\ UNCHANGED <<program, held, reqVars, tickVars, flag, handling, xfer, expired>>

\* timer_tick_start, the last step of starting and the last of each tick
timer_tick_start == /\ \/ pc = "init" /\ Step("tick") /\ pc' = "run"
                       \/ /\ pc = "run" /\ xfer["server"] = "idle" /\ ServerFree
                          /\ tickSig /\ UNCHANGED <<pc, todo>>
                    /\ tickReq' = "sent" /\ tickSig' = FALSE
                    /\ UNCHANGED <<program, held, reqVars, flag, handling, xfer, expired>>

-----------------------------------------------------------------------------
(* A transfer. *)

\* par_send or par_recv is called; the flag is polled by timer_timeout_start
Call(c) == /\ pc = "run" /\ AllIdle /\ Runs(c) /\ (c = "client" => program = "parblk")
           /\ xfer' = [xfer EXCEPT ![c] = "wait"]
           /\ UNCHANGED <<stepVars, reqVars, tickVars, flag, handling, expired>>

FaultReady == TRUE
TimeoutReady == flag
timer_timeout_start(c) ==
    /\ xfer[c] = "wait" /\ Runs(c) /\ TimeoutReady
    /\ flag' = FALSE /\ timeoutReq' = "sent"
    /\ xfer' = [xfer EXCEPT ![c] = "transfer"] /\ expired' = FALSE
    /\ UNCHANGED <<stepVars, excSig, tickVars, handling>>

\* AbortIO: timer.device replies the request if it has it
timer_timeout_clear == IF timeoutReq = "sent"
                       THEN timeoutReq' = "replied" /\ excSig' = TRUE
                       ELSE UNCHANGED reqVars

\* the other side answered, or hwsend and hwrecv found the flag set
Ends(c) == /\ xfer[c] = "transfer" /\ Runs(c) /\ timer_timeout_clear
           /\ xfer' = [xfer EXCEPT ![c] = "idle"]
           /\ UNCHANGED <<stepVars, tickVars, flag, handling, expired>>
TransferDone(c) == Ends(c)
TransferTimeout(c) == flag /\ Ends(c)

\* exceptcode: WaitIO, then *flag = 0xff
FaultTaken == UNCHANGED timeoutReq /\ flag' = TRUE
Taken == timeoutReq' = "done" /\ UNCHANGED flag
ExceptWait == /\ "exception" \in held /\ excSig /\ ~handling /\ timeoutReq # "sent"
              /\ excSig' = FALSE /\ handling' = TRUE /\ Taken
              /\ UNCHANGED <<stepVars, tickVars, xfer, expired>>
ExceptFlag == /\ handling /\ handling' = FALSE /\ flag' = TRUE
              /\ UNCHANGED <<stepVars, reqVars, tickVars, xfer, expired>>

(* timer.device: a request runs out. *)
TimeoutExpires == /\ timeoutReq = "sent" /\ timeoutReq' = "replied"
                  /\ excSig' = TRUE /\ expired' = TRUE
                  /\ UNCHANGED <<stepVars, tickVars, flag, handling, xfer>>
TickExpires == /\ tickReq = "sent" /\ tickReq' = "replied" /\ tickSig' = TRUE
               /\ UNCHANGED <<stepVars, reqVars, flag, handling, xfer, expired>>

-----------------------------------------------------------------------------
(* Stopping, when no task is in a transfer. *)

Shutdown == /\ pc = "run" /\ AllIdle /\ ServerFree
            /\ pc' = "down" /\ todo' = ShutdownOf[program]
            /\ UNCHANGED <<program, held, reqVars, tickVars, flag, handling, xfer, expired>>

Release == /\ pc = "down" /\ \E s \in Resources : Step(s)
           /\ held' = held \ {Head(todo)}
           /\ UNCHANGED <<program, pc, reqVars, tickVars, flag, handling, xfer, expired>>

AbortTimeout == /\ pc = "down" /\ Step("AbortIO_timeout") /\ timer_timeout_clear
                /\ UNCHANGED <<program, pc, held, tickVars, flag, handling, xfer, expired>>

\* skipped when timer.device was never opened
WaitTimeout == /\ pc = "down" /\ Step("WaitIO_timeout") /\ timeoutReq # "sent"
               /\ timeoutReq' = IF timeoutReq = "replied" THEN "done" ELSE timeoutReq
               /\ UNCHANGED <<program, pc, held, excSig, tickVars, flag, handling,
                              xfer, expired>>
WaitTick == /\ pc = "down" /\ Step("WaitIO_tick") /\ tickReq # "sent"
            /\ tickReq' = IF tickReq = "replied" THEN "done" ELSE tickReq
            /\ UNCHANGED <<program, pc, held, reqVars, tickSig, flag, handling,
                           xfer, expired>>

End == /\ pc = "down" /\ todo = << >> /\ pc' = "end"
       /\ UNCHANGED <<program, todo, held, reqVars, tickVars, flag, handling, xfer, expired>>

-----------------------------------------------------------------------------
Next == \/ Acquire \/ Refused \/ timer_tick_start
        \/ \E c \in Callers : Call(c) \/ timer_timeout_start(c)
                             \/ TransferDone(c) \/ TransferTimeout(c)
        \/ ExceptWait \/ ExceptFlag \/ TimeoutExpires \/ TickExpires
        \/ Shutdown \/ Release \/ AbortTimeout \/ WaitTimeout \/ WaitTick \/ End

(* Tasks are scheduled and timer.device replies what it has; the other side *)
(* of the cable owes nothing.                                               *)
Spec == /\ Init /\ [][Next]_vars
        /\ WF_vars(ExceptWait) /\ WF_vars(ExceptFlag)
        /\ WF_vars(TimeoutExpires) /\ WF_vars(TickExpires)
        /\ \A c \in Callers : WF_vars(timer_timeout_start(c)) /\ WF_vars(TransferTimeout(c))
        /\ WF_vars(Release \/ AbortTimeout \/ WaitTimeout \/ WaitTick \/ End)

-----------------------------------------------------------------------------
(* Properties. *)

\* The variables keep their types, and a port has its signal set only for a request
\* that has come back to it: none is sent again with its signal still pending.
TypeOK == /\ program \in {"parblk", "socksrv"} /\ pc \in {"init", "run", "down", "end"}
          /\ held \subseteq Resources
          /\ timeoutReq \in Requests /\ tickReq \in Requests
          /\ tickSig \in BOOLEAN /\ flag \in BOOLEAN
          /\ excSig \in BOOLEAN /\ handling \in BOOLEAN /\ expired \in BOOLEAN
          /\ xfer \in [Callers -> {"idle", "wait", "transfer"}]
          /\ excSig => timeoutReq \in {"replied", "done"}
          /\ tickSig => tickReq \in {"replied", "done"}

\* A transfer sees the flag set only because its own request ran out: the
\* exception of an earlier, aborted request never ends a later transfer
\* ("make sure to get exception called", timer_timeout_start).
NoStaleTimeout == \A c \in Callers : xfer[c] = "transfer" /\ flag => expired

\* timer_timeout_start sends its only request when timer.device and the reply
\* port are both through with it.
RequestFree == [][\A c \in Callers : xfer[c] = "wait" /\ xfer'[c] = "transfer" =>
                      timeoutReq \notin {"sent", "replied"}]_vars

\* timer.device and the reply port outlive a request that is out: the timeout's
\* in both programs, the tick's in parblk, whose timer_shutdown waits for it.
NothingOutstanding ==
    /\ timeoutReq = "sent" => {"TimerBase", "timeoutPort"} \subseteq held
    /\ tickReq = "sent" /\ program = "parblk" => {"TimerBase", "tickPort"} \subseteq held

\* While the interrupt handler is installed the program owns the port, its lines
\* and the signal the handler sends; par_shutdown frees the signal one call early.
IrqBacked == "irq" \in held =>
                 /\ {"bits", "port"} \subseteq held
                 /\ "intSig" \in held \/ (pc = "down" /\ Head(todo) = "irq")

\* Every transfer ends, with a silent peer too: the request runs out, the exception
\* sets the flag, the loops of pario.asm see it, and the next one need not wait.
TransfersEnd == \A c \in Callers : xfer[c] # "idle" ~> xfer[c] = "idle"

\* A shutdown, also the one of a server that came up halfway, waits for nothing that
\* does not come and gives back all that was taken.
ShutdownReleases == pc = "down" ~> (pc = "end" /\ held = {})

=============================================================================
