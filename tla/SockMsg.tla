------------------------------ MODULE SockMsg ------------------------------
(***************************************************************************)
(* The calls of bsdsocket.library (lib/bsdsocket.c, lib/msgio.c) as they    *)
(* travel to the server process socksrv (srv/socksrv.c, srv/msgio.c).      *)
(*                                                                         *)
(* The library has one message, one reply port and one cached server port  *)
(* for all tasks that have opened it, counted by msgio_ready.  A call      *)
(* fills in the message, puts it to the server's port and waits until it   *)
(* comes back.  The tasks preempt each other between any two steps.  A     *)
(* task calls only what its sockets allow: it uses and closes sockets that *)
(* socket() gave it.  The server is started and stopped by its user; a     *)
(* port is named by the number of the start that created it.  A definition *)
(* named Fault... is the form a plausible bug would give to the next one.  *)
(***************************************************************************)
EXTENDS Integers, FiniteSets, Sequences

CONSTANTS
    Clients,      \* tasks that have the library open
    Commands,     \* commands used, between MSG_CMD_BIND and MSG_CMD_SHUTDOWN
    Failing,      \* which of "CreatePort" and "AllocMem" may fail
    Exclusive,    \* one task at a time has sockets or is in a call
    OrderlyStop,  \* the server is stopped only while the library is not in use
    MaxOpen,      \* bound: sockets of a task
    MaxStarts     \* bound: starts of the server

NULL == 0
MSG_CMD_CREATE_SOCKET == 0
MSG_CMD_CLOSE_SOCKET  == 10
MSG_RESULT_OK         == 0
MSG_RESULT_NO_SERVER  == 1

ASSUME SockAssumption ==
    /\ NULL \notin Clients
    /\ Commands \subseteq 1..9 /\ Failing \subseteq {"CreatePort", "AllocMem"}
    /\ Exclusive \in BOOLEAN /\ OrderlyStop \in BOOLEAN
    /\ MaxOpen \in Nat /\ MaxStarts \in Nat

VARIABLES
    \* the library, shared by its openers
    port,          \* cached server port, or NULL
    reply_port,    \* the task its replies signal, or NULL
    msg,           \* m_command and m_result of the message, or <<>>
    msgio_ready,
    \* the tasks
    pc,            \* place in the call
    command,       \* command of the call
    open,          \* sockets the task has
    signalled,     \* tasks with a pending reply signal
    \* the server
    srv_port,      \* its port, or NULL
    starts,
    srv_pc, got,   \* place in main_loop, signals Wait returned
    sig,           \* signals pending
    \* messages at the ports; the library has only one
    msgs, replies,
    mishaps        \* history: what has gone wrong around the library

libVars    == <<port, reply_port, msg, msgio_ready>>
clientVars == <<pc, command, open>>
srvVars    == <<srv_port, starts, srv_pc, got>>
boxVars    == <<signalled, msgs, replies>>
vars       == <<libVars, clientVars, srvVars, sig, boxVars, mishaps>>

Init ==
    /\ port = NULL /\ reply_port = NULL /\ msg = <<>> /\ msgio_ready = 0
    /\ pc = [c \in Clients |-> "idle"]
    /\ command = [c \in Clients |-> MSG_CMD_CREATE_SOCKET]
    /\ open = [c \in Clients |-> 0]
    /\ signalled = {}
    /\ srv_port = NULL /\ starts = 0 /\ srv_pc = "off" /\ got = {} /\ sig = {}
    /\ msgs = 0 /\ replies = 0 /\ mishaps = {}

-----------------------------------------------------------------------------
(* What happens around the library: the server is stopped while somebody    *)
(* uses it, or AllocMem fails and the reply port created before it stays.  *)

Stopping == "break" \in sig \cup got \/ srv_pc \in {"shutdown", "delete"}
Unused   == \A c \in Clients : pc[c] = "idle" /\ open[c] = 0

Mishaps ==
    mishaps \cup {m \in {"stop", "memory"} :
        \/ m = "stop" /\ Stopping /\ ~Unused
        \/ /\ m = "memory" /\ reply_port # NULL /\ msg = <<>>
           /\ \A c \in Clients : pc[c] # "alloc"}

Orderly == "stop" \notin Mishaps

Goto(c, l) == pc' = [pc EXCEPT ![c] = l] /\ mishaps' = Mishaps
SrvGoto(l) == srv_pc' = l /\ mishaps' = Mishaps

-----------------------------------------------------------------------------
(* The calls.                                                              *)

MayCall(c) ==
    /\ pc[c] = "idle"
    /\ Exclusive => \A d \in Clients \ {c} : pc[d] = "idle" /\ open[d] = 0
    /\ OrderlyStop => ~Stopping

\* socket() with supported arguments; others change nothing.
lib_socket(c) ==
    /\ MayCall(c) /\ open[c] < MaxOpen
    /\ Goto(c, "init")
    /\ command' = [command EXCEPT ![c] = MSG_CMD_CREATE_SOCKET]
    /\ UNCHANGED <<libVars, open, srvVars, sig, boxVars>>

\* bind, listen, accept, connect, sendto, send, recvfrom, recv, shutdown and
\* CloseSocket: all hand the message over in the same way.
lib_command(c) ==
    /\ MayCall(c) /\ open[c] > 0
    /\ Goto(c, "fill")
    /\ \E cmd \in Commands \cup {MSG_CMD_CLOSE_SOCKET} :
          command' = [command EXCEPT ![c] = cmd]
    /\ UNCHANGED <<libVars, open, srvVars, sig, boxVars>>

-----------------------------------------------------------------------------
(* msgio_init of the library.                                              *)

\* The count after a successful msgio_init.
FaultCounted(ready) == ready
Counted(ready) == ready + 1

InitReady(c) ==
    /\ pc[c] = "init" /\ msgio_ready > 0
    /\ msgio_ready' = Counted(msgio_ready)
    /\ Goto(c, "fill")
    /\ UNCHANGED <<port, reply_port, msg, command, open, srvVars, sig, boxVars>>

\* The port is looked for again, whatever port was cached.
FaultFound == IF port = NULL THEN srv_port ELSE port
Found == srv_port

\* No server: socket() fails.
FindPort(c) ==
    /\ pc[c] = "init" /\ msgio_ready <= 0
    /\ port' = Found
    /\ Goto(c, IF Found = NULL THEN "idle" ELSE "create_port")
    /\ UNCHANGED <<reply_port, msg, msgio_ready, command, open, srvVars, sig, boxVars>>

\* The port signals the task that creates it.
CreateReplyPort(c) ==
    /\ pc[c] = "create_port"
    /\ \/ reply_port' = c /\ Goto(c, "alloc")
       \/ "CreatePort" \in Failing /\ reply_port' = NULL /\ Goto(c, "idle")
    /\ replies' = 0
    /\ UNCHANGED <<port, msg, msgio_ready, command, open, signalled, srvVars, sig, msgs>>

AllocMsg(c) ==
    /\ pc[c] = "alloc"
    /\ \/ /\ msg' = <<MSG_CMD_CREATE_SOCKET, MSG_RESULT_OK>>
          /\ msgio_ready' = Counted(msgio_ready)
          /\ Goto(c, "fill")
       \/ /\ "AllocMem" \in Failing
          /\ msg' = <<>> /\ UNCHANGED msgio_ready
          /\ Goto(c, "idle")
    /\ UNCHANGED <<port, reply_port, command, open, srvVars, sig, boxVars>>

-----------------------------------------------------------------------------
(* msgio_xfer_msg.                                                         *)

\* The callers fill in the command, the transfer clears the result.
FaultFilled(c) == <<msg[1], MSG_RESULT_OK>>
Filled(c) == <<command[c], MSG_RESULT_OK>>

FillMsg(c) ==
    /\ pc[c] = "fill" /\ msg # <<>>
    /\ msg' = Filled(c)
    /\ Goto(c, "put")
    /\ UNCHANGED <<port, reply_port, msgio_ready, command, open, srvVars, sig, boxVars>>

\* Nothing is put while msgio_ready is zero; the callers do not look at the
\* answer of msgio_xfer_msg.  What is put to a port that is gone is lost.
PutMsg(c) ==
    /\ pc[c] = "put"
    /\ IF msgio_ready # 0 /\ port = srv_port
       THEN msgs' = msgs + 1 /\ sig' = sig \cup {"msg"}
       ELSE UNCHANGED <<msgs, sig>>
    /\ Goto(c, IF msgio_ready = 0 THEN "result" ELSE "get")
    /\ UNCHANGED <<libVars, command, open, srvVars, signalled, replies>>

\* GetMsg takes the reply out of its port.
FaultLeft(n) == n
Left(n) == n - 1

GetReply(c) ==
    /\ pc[c] = "get" /\ replies > 0
    /\ replies' = Left(replies)
    /\ Goto(c, "result")
    /\ UNCHANGED <<libVars, command, open, srvVars, sig, signalled, msgs>>

\* WaitPort sleeps until the signal of the port reaches the calling task.
WaitPort(c) ==
    /\ pc[c] = "get" /\ replies = 0
    /\ Goto(c, "sleep")
    /\ UNCHANGED <<libVars, command, open, srvVars, sig, boxVars>>

WakeUp(c) ==
    /\ pc[c] = "sleep" /\ c \in signalled
    /\ signalled' = signalled \ {c}
    /\ Goto(c, "get")
    /\ UNCHANGED <<libVars, command, open, srvVars, sig, msgs, replies>>

-----------------------------------------------------------------------------
(* The result.                                                             *)

Succeeded == msg[2] = MSG_RESULT_OK

\* socket() returns a handle or fails; the other calls only set errno.
CheckResult(c) ==
    /\ pc[c] = "result" /\ msg # <<>>
    /\ open' = IF command[c] = MSG_CMD_CREATE_SOCKET /\ Succeeded
               THEN [open EXCEPT ![c] = @ + 1] ELSE open
    /\ Goto(c, IF command[c] = MSG_CMD_CLOSE_SOCKET THEN "shutdown" ELSE "idle")
    /\ UNCHANGED <<libVars, command, srvVars, sig, boxVars>>

\* msgio_shutdown at the end of CloseSocket, whatever the result was.
FaultLastUser(ready) == ready < 0
LastUser(ready) == ready <= 0

msgio_shutdown(c) ==
    /\ pc[c] = "shutdown"
    /\ open' = [open EXCEPT ![c] = @ - 1]
    /\ msgio_ready' = msgio_ready - 1
    /\ IF LastUser(msgio_ready') THEN msg' = <<>> /\ reply_port' = NULL /\ replies' = 0
       ELSE UNCHANGED <<msg, reply_port, replies>>
    /\ Goto(c, "idle")
    /\ UNCHANGED <<port, command, srvVars, sig, signalled, msgs>>

-----------------------------------------------------------------------------
(* socksrv.                                                                *)

\* ReplyMsg for the library's message.
Reply(n) ==
    /\ replies' = replies + n
    /\ signalled' = IF n > 0 /\ reply_port # NULL THEN signalled \cup {reply_port}
                    ELSE signalled

SrvStart ==
    /\ srv_pc = "off" /\ starts < MaxStarts
    /\ starts' = starts + 1 /\ srv_port' = starts'
    /\ SrvGoto("wait") /\ sig' = {}
    /\ UNCHANGED <<libVars, clientVars, got, boxVars>>

\* The driver (its reception or its ticker) and the user signal the server.
Environment(s) ==
    /\ srv_pc # "off" /\ s \notin sig
    /\ s = "break" /\ OrderlyStop => Unused
    /\ sig' = sig \cup {s} /\ mishaps' = Mishaps
    /\ UNCHANGED <<libVars, clientVars, srvVars, boxVars>>

SrvWait ==
    /\ srv_pc = "wait" /\ sig # {}
    /\ got' = sig /\ sig' = {}
    /\ SrvGoto("driver")
    /\ UNCHANGED <<libVars, clientVars, srv_port, starts, boxVars>>

\* drv_handle_rx and drv_handle_tick do not touch the messages.
FaultAfterDriver(s) == IF "driver" \in s THEN s \ {"driver", "msg"} ELSE s
AfterDriver(s) == s \ {"driver"}

SrvDriver ==
    /\ srv_pc = "driver"
    /\ got' = AfterDriver(got)
    /\ SrvGoto("msg")
    /\ UNCHANGED <<libVars, clientVars, srv_port, starts, sig, boxVars>>

\* One message per signal, answered with its command as the result.
Answer(m) == IF m = <<>> THEN m ELSE <<m[1], m[1]>>

SrvMsg ==
    /\ srv_pc = "msg"
    /\ IF "msg" \in got /\ msgs > 0
       THEN msg' = Answer(msg) /\ msgs' = msgs - 1 /\ Reply(1)
       ELSE UNCHANGED <<msg, boxVars>>
    /\ got' = got \ {"msg"}
    /\ SrvGoto(IF "break" \in got THEN "shutdown" ELSE "wait")
    /\ UNCHANGED <<port, reply_port, msgio_ready, clientVars, srv_port, starts, sig>>

\* msgio_shutdown of the server rejects what is pending, under Forbid ...
SrvReject ==
    /\ srv_pc = "shutdown"
    /\ msg' = IF msgs > 0 /\ msg # <<>> THEN <<msg[1], MSG_RESULT_NO_SERVER>> ELSE msg
    /\ Reply(msgs) /\ msgs' = 0
    /\ SrvGoto("delete") /\ got' = {}
    /\ UNCHANGED <<port, reply_port, msgio_ready, clientVars, srv_port, starts, sig>>

\* ... and deletes the port after Permit.
SrvDelete ==
    /\ srv_pc = "delete"
    /\ srv_port' = NULL /\ msgs' = 0 /\ sig' = {}
    /\ SrvGoto("off")
    /\ UNCHANGED <<libVars, clientVars, starts, got, signalled, replies>>

-----------------------------------------------------------------------------
Call(c)   == lib_socket(c) \/ lib_command(c)
MsgioInit(c) == InitReady(c) \/ FindPort(c) \/ CreateReplyPort(c) \/ AllocMsg(c)
Xfer(c)   == FillMsg(c) \/ PutMsg(c) \/ GetReply(c) \/ WaitPort(c) \/ WakeUp(c)
Finish(c) == CheckResult(c) \/ msgio_shutdown(c)
Server    == SrvWait \/ SrvDriver \/ SrvMsg \/ SrvReject \/ SrvDelete

Next == \/ \E c \in Clients : Call(c) \/ MsgioInit(c) \/ Xfer(c) \/ Finish(c)
        \/ SrvStart \/ Server
        \/ \E s \in {"driver", "break"} : Environment(s)

Spec == Init /\ [][Next]_vars

\* The tasks and the server are scheduled; nobody has to call, to start or
\* to stop the server.
FairSpec == /\ Spec /\ WF_vars(Server)
            /\ \A c \in Clients : WF_vars(MsgioInit(c) \/ Xfer(c) \/ Finish(c))

-----------------------------------------------------------------------------
\* What every variable holds; msgio_ready, which msgio_shutdown lowers
\* without a test, never falls below zero.
TypeOK ==
    /\ port \in 0..MaxStarts /\ srv_port \in 0..MaxStarts /\ starts \in 0..MaxStarts
    /\ reply_port \in Clients \cup {NULL}
    /\ msg = <<>> \/ msg \in (0..10) \X (0..10)
    /\ msgio_ready \in Nat
    /\ pc \in [Clients -> {"idle", "init", "create_port", "alloc", "fill", "put", "get",
                           "sleep", "result", "shutdown"}]
    /\ command \in [Clients -> 0..10] /\ open \in [Clients -> 0..MaxOpen]
    /\ signalled \subseteq Clients
    /\ srv_pc \in {"off", "wait", "driver", "msg", "shutdown", "delete"}
    /\ got \subseteq {"driver", "msg", "break"} /\ sig \subseteq {"driver", "msg", "break"}
    /\ msgs \in Nat /\ replies \in Nat /\ mishaps \subseteq {"stop", "memory"}

\* msgio_ready (msgio.c:10) counts the sockets and the calls that are about to
\* add one.  A socket() that a stopping server rejects leaves it too high,
\* never too low: the message is not released under its users.
Opening == {c \in Clients : /\ command[c] = MSG_CMD_CREATE_SOCKET
                            /\ pc[c] \in {"fill", "put", "get", "sleep", "result"}}
Sockets == {s \in Clients \X (1..MaxOpen) : s[2] <= open[s[1]]}
Users   == Cardinality(Sockets) + Cardinality(Opening)
NeverTooLow == msgio_ready >= Users
ReadyCounts == NeverTooLow /\ (Orderly => msgio_ready = Users)

InXfer == {c \in Clients : pc[c] \in {"get", "sleep"}}

\* The one message is at one port at most, and at none unless a call waits
\* for it: a node is never put into a list while it is in one.  Unless the
\* server is stopped under its users a call that waits has it at a port.
OnlyAwaited == msgs + replies <= Cardinality(InXfer)
MessageOnce ==
    /\ OnlyAwaited /\ msgs + replies <= 1
    /\ Orderly => msgs + replies = Cardinality(InXfer)

\* "check result" (bsdsocket.c:74): what a call checks is the answer to its
\* own command, or the rejection by a server that stopped.
OwnResult ==
    \A c \in Clients : pc[c] = "result" =>
        msg \in {<<command[c], command[c]>>, <<command[c], MSG_RESULT_NO_SERVER>>}

\* "shutdown msgio if last socket" (bsdsocket.c:276): while nobody has a
\* socket or is in a call, the message and the reply port are released.
ReleasedWithLast ==
    Unused /\ Mishaps = {} => msg = <<>> /\ reply_port = NULL

\* "send message to socksrv port" (msgio.c:80): the port a message is about
\* to be put to is the port of the running server, restarted or not.
PutToLivePort == \A c \in Clients : pc[c] = "put" /\ Orderly => port = srv_port

\* "reject all pending messages" (srv/msgio.c:27): no message is left at the
\* port when it is deleted.
NoneLeft == srv_pc = "delete" => msgs = 0

\* While a message is at the server's port the server knows: the signal is
\* pending or main_loop is on its way to the message.
ServerAwake == msgs > 0 => \/ "msg" \in sig \cup got
                           \/ srv_pc = "shutdown"

\* Every call returns to its caller, unless the server is stopped under it.
CallsReturn == \A c \in Clients : pc[c] # "idle" ~> pc[c] = "idle" \/ ~Orderly
=============================================================================
