------------------------------- MODULE Device -------------------------------
(***************************************************************************)
(* parblk.device (parblk/amiga/device): opening creates a handler process  *)
(* that serves the I/O requests sent to the global myPort; closing sends   *)
(* it a message and deletes the port.  The process is never told to end:   *)
(* it lives on beside the next one, reads the same myPort, and waits on    *)
(* or takes from whatever port is there by then.  One task has the device  *)
(* open; it may have several requests out at a time.  Opens are numbered,  *)
(* and a handler and the port it makes have the number of their open.      *)
(* Data are left out.  A handler is "gone" when it takes no message any    *)
(* more: it ended, waits for ever, or used a port that is not there, which *)
(* is undefined.  A definition named Fault... is the form a plausible bug  *)
(* would give to the next one.                                             *)
(***************************************************************************)
EXTENDS Naturals, Sequences, SequencesExt, Functions

CONSTANTS Requests,   \* the opener's I/O requests
          NULL,       \* no message
          CMD_TERM,   \* the message of __UserDevCleanup
          MaxOpens    \* bound: calls of OpenDevice

ASSUME DeviceAssumption == MaxOpens \in Nat /\ CMD_TERM \notin Requests
                           /\ NULL \notin Requests \cup {CMD_TERM}

VARIABLES pc,        \* the opener: "closed", "process", "startup", "open", "closing"
          failed,    \* history: what could not be made in this open or its close,
                     \* of "process", "port" (myPort) and "reply" (a reply port)
          held,      \* ports and consoles of this open
          handler,   \* "none", "start", "loop" (before WaitPort), "wait" (in it), "get"
                     \* (before GetMsg), "serve" (has a message) or "gone"
          ior,       \* the local of each cmd_handler
          myPort,    \* the open whose handler made it, 0 for NULL
          mp_MsgList,\* the messages at it, in order
          place,     \* where each message is: "own", "queued", "served", "replied", "lost"
          cmd,       \* io_Command of the requests
          opens

Messages == Requests \cup {CMD_TERM}
Opens == 1..MaxOpens
openerVars == <<pc, failed, opens>>
handlerVars == <<handler, ior>>
messageVars == <<mp_MsgList, place, cmd>>
vars == <<openerVars, held, handlerVars, myPort, messageVars>>

Init == /\ pc = "closed" /\ failed = {} /\ held = {} /\ opens = 0 /\ myPort = 0
        /\ handler = [i \in Opens |-> "none"] /\ ior = [i \in Opens |-> NULL]
        /\ mp_MsgList = << >> /\ place = [m \in Messages |-> "own"]
        /\ cmd = [r \in Requests |-> "none"]

\* the port that myPort points to is there
Live == "myPort" \in held

-----------------------------------------------------------------------------
(* Opening. *)

\* dev_init opens two consoles, and closes the first when the second fails
dev_init == {{}, {"input", "output"}}
FaultShutdown == {"input"}
dev_shutdown == {"input", "output"}

\* handlers of earlier opens and myPort stay as they are
OpenDevice == /\ pc = "closed" /\ opens < MaxOpens /\ opens' = opens + 1
              /\ \E consoles \in dev_init :
                    /\ held' = consoles
                    /\ pc' = IF consoles = {} THEN "closed" ELSE "process"
              /\ failed' = {} /\ cmd' = [r \in Requests |-> "none"]
              /\ UNCHANGED <<handlerVars, myPort, mp_MsgList, place>>

\* CreateNewProcTags; failing leaves the consoles open
NoProcess == /\ pc = "process" /\ pc' = "closed" /\ failed' = {"process"}
             /\ UNCHANGED <<opens, held, handlerVars, myPort, messageVars>>
\* with the process there, the result of CreatePort for the reply is not looked at
CreateProcess == /\ pc = "process" /\ pc' = "startup"
                 /\ handler' = [handler EXCEPT ![opens] = "start"]
                 /\ \/ held' = held \cup {"reply"} /\ UNCHANGED failed
                    \/ failed' = {"reply"} /\ UNCHANGED held
                 /\ UNCHANGED <<opens, ior, myPort, messageVars>>

\* the handler creates myPort and replies to the startup message, and ends without port
Startup(i) == /\ handler[i] = "start"
              /\ \/ /\ handler' = [handler EXCEPT ![i] = "loop"]
                    /\ myPort' = i /\ held' = held \cup {"myPort"} /\ UNCHANGED failed
                 \/ /\ handler' = [handler EXCEPT ![i] = "gone"]
                    /\ myPort' = 0 /\ failed' = failed \cup {"port"} /\ UNCHANGED held
              /\ UNCHANGED <<pc, opens, ior, messageVars>>

\* WaitPort for the reply does not return without reply port.  Without myPort the opener
\* returns NULL, which says success, and keeps its reply port.
InitReturns == /\ pc = "startup" /\ handler[opens] # "start" /\ "reply" \notin failed
               /\ pc' = "open" /\ held' = held \ (IF Live THEN {"reply"} ELSE {})
               /\ UNCHANGED <<failed, opens, handlerVars, myPort, messageVars>>

-----------------------------------------------------------------------------
(* Requests. *)

IOCommands == {"CMD_READ", "CMD_WRITE"}

\* PutMsg to a port that is NULL loses the message
Put(m) == IF Live THEN Append(mp_MsgList, m) ELSE mp_MsgList
PutPlace == IF Live THEN "queued" ELSE "lost"

FaultAnswer(c) == IF c \in IOCommands THEN PutPlace ELSE "lost"
Answer(c) == IF c \in IOCommands THEN PutPlace ELSE "replied"      \* IOERR_NOCMD
DevBeginIO(r, c) == /\ pc = "open" /\ place[r] = "own"
                    /\ cmd' = [cmd EXCEPT ![r] = c]
                    /\ place' = [place EXCEPT ![r] = Answer(c)]
                    /\ mp_MsgList' = IF c \in IOCommands THEN Put(r) ELSE mp_MsgList
                    /\ UNCHANGED <<openerVars, held, handlerVars, myPort>>

\* the opener takes a reply (WaitIO); DevAbortIO does nothing
Collect(r) == /\ place[r] = "replied" /\ place' = [place EXCEPT ![r] = "own"]
              /\ UNCHANGED <<openerVars, held, handlerVars, myPort, mp_MsgList, cmd>>

-----------------------------------------------------------------------------
(* cmd_handler.  It reads myPort anew for each WaitPort and GetMsg. *)

\* WaitPort returns when there is a message.  PutMsg signals the task that made the port:
\* another one that finds it empty waits for ever.
WaitPort(i) ==
    /\ handler[i] = "loop"
    /\ handler' = [handler EXCEPT ![i] = IF Live /\ mp_MsgList # << >> THEN "get"
                                         ELSE IF Live /\ myPort = i THEN "wait" ELSE "gone"]
    /\ UNCHANGED <<openerVars, held, ior, myPort, messageVars>>
WakeUp(i) == /\ handler[i] = "wait" /\ mp_MsgList # << >>
             /\ handler' = [handler EXCEPT ![i] = "get"]
             /\ UNCHANGED <<openerVars, held, ior, myPort, messageVars>>

GetNone(i) == /\ handler[i] = "get" /\ (Live => mp_MsgList = << >>)
              /\ handler' = [handler EXCEPT ![i] = IF Live THEN "loop" ELSE "gone"]
              /\ UNCHANGED <<openerVars, held, ior, myPort, messageVars>>
FaultTaken == mp_MsgList
Taken == Tail(mp_MsgList)
GetMsg(i) == /\ handler[i] = "get" /\ Live /\ mp_MsgList # << >>
             /\ handler' = [handler EXCEPT ![i] = "serve"]
             /\ ior' = [ior EXCEPT ![i] = Head(mp_MsgList)] /\ mp_MsgList' = Taken
             /\ place' = [place EXCEPT ![Head(mp_MsgList)] = "served"]
             /\ UNCHANGED <<openerVars, held, myPort, cmd>>

\* The switch and ReplyMsg.  A read waits for the user; the break of CMD_TERM leaves
\* only the switch.
Reads(i) == handler[i] = "serve" /\ ior[i] \in Requests /\ cmd[ior[i]] = "CMD_READ"
ReplyMsg(i) == /\ handler[i] = "serve" /\ handler' = [handler EXCEPT ![i] = "get"]
               /\ place' = [place EXCEPT ![ior[i]] = "replied"]
               /\ UNCHANGED <<openerVars, held, ior, myPort, mp_MsgList, cmd>>

cmd_handler(i) == \/ Startup(i) \/ WaitPort(i) \/ WakeUp(i)
                  \/ GetNone(i) \/ GetMsg(i) \/ ReplyMsg(i)

-----------------------------------------------------------------------------
(* __UserDevCleanup.  CreateMsgPort is not looked at either. *)

CloseDevice == /\ pc = "open" /\ \A r \in Requests : place[r] = "own"
               /\ pc' = "closing"
               /\ \/ held' = held \cup {"reply"} /\ UNCHANGED failed
                  \/ failed' = failed \cup {"reply"} /\ UNCHANGED held
               /\ mp_MsgList' = Put(CMD_TERM)
               /\ place' = [place EXCEPT ![CMD_TERM] = PutPlace]
               /\ UNCHANGED <<opens, handlerVars, myPort, cmd>>

\* A handler in WaitPort of the port that goes is not woken any more; myPort stays as it is.
CleanupReturns ==
    /\ pc = "closing" /\ place[CMD_TERM] = "replied" /\ "reply" \notin failed
    /\ pc' = "closed" /\ held' = held \ ({"reply", "myPort"} \cup dev_shutdown)
    /\ place' = [place EXCEPT ![CMD_TERM] = "own"]
    /\ handler' = [i \in Opens |-> IF handler[i] = "wait" THEN "gone" ELSE handler[i]]
    /\ UNCHANGED <<failed, opens, ior, myPort, mp_MsgList, cmd>>

-----------------------------------------------------------------------------
Next == \/ OpenDevice \/ NoProcess \/ CreateProcess \/ InitReturns
        \/ \E r \in Requests : \/ \E c \in IOCommands \cup {"CMD_FLUSH"} : DevBeginIO(r, c)
                               \/ Collect(r)
        \/ \E i \in Opens : cmd_handler(i)
        \/ CloseDevice \/ CleanupReturns

(* The tasks are scheduled and the opener takes its replies; nobody need     *)
(* type into the console of a CMD_READ.                                      *)
Spec == /\ Init /\ [][Next]_vars
        /\ WF_vars(NoProcess \/ CreateProcess) /\ WF_vars(InitReturns) /\ WF_vars(CleanupReturns)
        /\ \A i \in Opens : WF_vars(cmd_handler(i) /\ ~Reads(i))
        /\ \A r \in Requests : WF_vars(Collect(r))

-----------------------------------------------------------------------------
(* Properties. *)

\* A message is in one place, myPort, one handler or the opener's hands, although the
\* handlers of earlier opens may take from the port too; and while myPort holds a message,
\* it is there and the handler that is signalled for it can come for it.
RequestOwned ==
    /\ \A m \in Messages :
          /\ place[m] \in {"own", "queued", "served", "replied", "lost"}
          /\ place[m] = "queued" <=> m \in ToSet(mp_MsgList)
          /\ place[m] = "served" <=> \E i \in Opens : handler[i] = "serve" /\ ior[i] = m
    /\ \A i, j \in Opens :
          handler[i] = "serve" /\ handler[j] = "serve" /\ ior[i] = ior[j] => i = j
    /\ IsInjective(mp_MsgList)
    /\ mp_MsgList # << >> => Live /\ handler[myPort] \in {"loop", "wait", "get", "serve"}

\* A call returns, OpenDevice and CloseDevice, and every request, but in three cases: a
\* handler waits for the user in a read; the handler could not create myPort, and what is
\* put to it is lost; a reply port, whose creation nobody looks at, is not there, and the
\* call waits for ever.
CallsReturn ==
    /\ pc \in {"process", "startup"} ~> pc \in {"open", "closed"} \/ "reply" \in failed
    /\ pc = "closing" ~> pc = "closed" \/ failed \cap {"port", "reply"} # {}
    /\ \A r \in Requests :
          place[r] # "own" ~> place[r] = "own" \/ "port" \in failed \/ \E i \in Opens : Reads(i)

\* Closing gives back the ports and consoles of the open, as a failed open does,
\* but for one whose handler process could not be created: it leaves the consoles.
\* The handler process is not among them: no close gives it back.
ClosedReleases ==
    pc = "closed" => held = IF "process" \in failed THEN {"input", "output"} ELSE {}
=============================================================================
