# aminisocket in TLA+

aminisocket gives an Amiga the BSD socket interface without a network card: a
`bsdsocket.library` passes every socket call as an Exec message to a server
process, and a parallel cable (or the emulated parallel port of an emulator)
connects the Amiga to a PC.  The repository holds the library and its server,
and `parblk`, a packet transport over the parallel port with an Amiga library,
an Exec device and a Python counterpart.

This directory holds a specification of the parts that have state and run
concurrently, the TLC configurations that check them, and proofs for TLAPS.
Paths below are relative to the repository (`src/` is its own source
directory).

## 1. The system

### Components, their state and operations

| component | files | state | operations |
|---|---|---|---|
| packet engine | `src/parblk/amiga/lib/parblk.c` | queue of packets to retry (`tx_list`) and its semaphore, reads that wait (`rx_empty_list`), packets that wait (`rx_filled_list`) | `parblk_write`, `parblk_read`, `parblk_handle_sig` (with `handle_tx_queue`), `parblk_init`, `parblk_shutdown` |
| packet pools | `src/parblk/amiga/lib/pkt.c` | free lists, per packet buffer, retries, done function | `pkt_init`, `pkt_tx/rx_alloc`, `pkt_tx/rx_free`, `pkt_free` |
| parallel port, Amiga | `src/parblk/amiga/lib/par.c`, `pario.asm` | `s_Flags`, signal, CIA lines and interrupt enable | `par_send`, `par_recv`, `hwsend`, `hwrecv`, `interrupt` |
| timers | `src/parblk/amiga/lib/timer.c` | one request for the tick, one for the timeout, the timeout flag | start, stop and clear of both; exception code |
| parblk on the PC | `src/parblk/python/parblk.py`, `vpar.py` | last known lines, sequence of a transfer | `send`, `recv`, `can_recv`, `wait_select`, `wait_line_toggle` |
| parblk test programs | `src/parblk/amiga/test/test_parblk.c`, `src/parblk/python/test_parblk` | turn | send, wait for the echo |
| parblk device | `src/parblk/amiga/device/` | handler process, port, the request in hand | `BeginIO`, `AbortIO`, init and cleanup, the handler loop |
| library calls | `src/lib/bsdsocket.c`, `msgio.c` | one message, one reply port, cached server port, `msgio_ready` | every socket call that sends a message; `msgio_init`, `msgio_xfer_msg`, `msgio_shutdown` |
| mini network database | `src/lib/mininetdb.c` | none (constant tables) | get...byname, get...bynumber; not modelled |
| server | `src/srv/socksrv.c`, `msgio.c` | public port, signals | `main_loop`, `msgio_init/shutdown/get_next_msg/reply` |
| server's driver | `src/srv/pardrv.c`, `par.c`, `pario.asm`, `timer.c` | older variant of the parallel port | echo of what it receives |
| pybox | `src/pybox/` | PC side of that variant | send, recv |
| CRC-16 | `src/parblk/amiga/lib/crc16.asm` | table | checksum (never switched on) |

### How they interact

    program --call--> bsdsocket.library --Exec message--> socksrv --signal/tick--> driver
                          ^                                  |
                          +------------- reply --------------+

    task --parblk_write/read--> engine --par_send/par_recv--> pario --lines--> emulated port
                                  ^                             |                 ^   |
               tick (timer.device)+        receive signal <-- FLAG interrupt   commands updates
                                                                                  |   v
                                                                                parblk.py

* Library and server share one message by ownership: it belongs to the library,
  is put to the server's port and comes back to the reply port.
* Engine and port interact by calls that take up to half a second, and by the
  receive signal of the interrupt.  The tick is the only thing that retries.
* Amiga and PC share the lines.  The Amiga reads them; the PC gets a stream of
  updates from the emulator and sends commands to it.

### What is hard, and what makes each component correct

* Engine: tasks, tick and interrupt interleave; retries are counted in two
  places; packets move between five lists and the hands of calls.  *Correct*:
  no packet is lost or in two places; writes complete once, in order, after at
  most `max_retries` attempts, and at last; packets reach reads in the order of
  arrival; the tick and the receive interrupt are never lost.
* Port and PC: two programs, one of which sees the lines late, hand over bytes
  by toggling lines; both may start at once; either may time out in the middle.
  *Correct*: byte lockstep; what is reported as sent was received; a packet is
  received unchanged and once; the port is at rest afterwards; the receive
  interrupt stays armed.
* Library and server: preemption inside calls, shared message, signals that
  merge, a server that stops at any time.  *Correct*: a call sees the answer to
  its own command, returns, and the shared resources live as long as they are
  used.
* Lifecycle: initialisations fail at any step, timeouts are aborted while their
  exception is pending, shutdowns take resources from under what still runs.
  *Correct*: no aborted timeout ends a later transfer, no request is sent while
  it is out, nothing that is still in use is released, a shutdown ends and gives
  back all that was taken.
* Device: each opening makes a handler process that no close ends; it lives on
  and shares one global port pointer with its successors.  *Correct*: a request is
  in one place, every call returns, closing gives back its ports and consoles.
* Server's driver and pybox: no retry, and the PC leaves BUSY as it is.
  *Correct*: an echo is the packet that was sent, and comes back.

The full list of hazards, each at its line with the property that covers it, is
in `PROJECT.json`.

## 2. Modules

### ParBlk: the packet engine

Models `parblk.c` on `pkt.c`.  Variables keep the code's names.  `pc[t]` is
where task `t` is; `arg[t]` is the packet of its `parblk_write`, `cur[t]` the
packet `handle_tx_queue` has taken out of the queue.  A step ends where others
can be observed: at a semaphore, and at the calls of `par_send` and `par_recv`.
The semaphores of the pools and of the two rx lists protect one list operation
each, which is one step with the code around it (`parblk_read` that finds a packet,
`WriteQueue`).  One task, `server`, runs the signal loop of the callers:
`HandleSig` is `Wait` returning all pending signals, then the rx half and the
tick half of `parblk_handle_sig`, in that order.

| code | actions |
|---|---|
| `parblk_write` | `Write`, then `handle_tx_queue`, then `WriteSendOk/Fail`, `WriteQueue` |
| `handle_tx_queue` | `ObtainTx`, `QueueNext`, `QueueEmpty`, `QueueSendOk/Fail` |
| `parblk_read` | `ReadFilled`, `ReadNone`, `ReadQueue`, `ReadFail` |
| `parblk_handle_sig`, rx | `RxPrepared`, `RxUnprepared`, `RxAlloc`, `RxExhausted`, `Recv` |
| `parblk_handle_sig`, tick | `ObtainTx` ..., `TickStart` |
| interrupt, timer.device | `Interrupt`, `Tick` |

What `par_send` and `par_recv` answer is chosen by the environment; for
`par_recv` within what `hwrecv` lets through (`Received`).  The uninitialised
local `p` of the rx path is a choice from `Garbage`: `{NULL}` is the build the
authors must have had, where reception works at all; any packet is what the
language allows.  A done function is the number of its call.  `writes`,
`reads`, `arrivals`, `tx_log`, `rx_log` and `tries` record what happened.

### TxQueue and ParBlkFifo: what parblk_write promises

`TxQueue` is the abstract queue: accepted in order, completed in order, once,
and at last.  `ParBlkFifo` maps the engine with one task to it: the queue is
the packet taken by `handle_tx_queue`, then `tx_list`, then the packet
`parblk_write` still holds.  With two tasks the order is not kept (a task's
first attempt runs outside `tx_sem`), which is why the run has one task, as
all callers in the repository have.

### ParWire: the wire

Models `par.c` and `pario.asm` with both assembler routines byte by byte, the
interrupt, `parblk.py` on `vpar.py`, and the emulated port.  `lines` is POUT,
SEL and the data; `toPC` the updates the emulator has sent and the PC has not
read; `view` the last one read.

* The emulator sends an update when the lines differ from those it sent last.
  The emulator is not part of the repository: this is modelled from how
  `vpar.py` reads its updates and is marked external in the map.
* What the PC commands takes effect at once.  The command stream is first in,
  first out, and the PC goes on only when it has seen an update that answers
  its last command, so a delay there only delays the Amiga.
* POUT falls before SEL at the end of `hwsend` and `hwrecv` (`Release`); two
  changes, two updates (`DriveTwo`).
* `TypeOK` has two parts: what each variable holds (`Types`), and that `hwrecv`
  stores no more than its buffer takes (`BufferKept`).
* `s_Flags` is the word that `par.c` tests and whose high byte the assembler
  changes: bits are numbered in the word, `AsmBit` is the shift.
* `CLEARREQUEST` is the mask of the code, not its name.
* A packet size of zero makes the loop of `hwrecv` run 65536 times (`Taken`).
* Time: a timeout may happen at any moment, at most `MaxTimeouts` times.  Of
  the PC's waits only the one for SEL at the start of a send can time out: it
  waits a second, while the Amiga ends every transfer within half a second of
  its start and drops SEL, which the other waits see.
* `Prompt`: the few instructions between SEL and the first byte take the Amiga
  less time than the PC takes to react.  `ParWire_errors` drops the assumption.
* `Turns`: the programs take turns, as the two test programs do.

CRC mode (both sides switch it off) and the `COLLISION` branch of `par_send`,
which the flag mismatch makes unreachable, are not modelled.

### Link: what the wire promises

The abstract link of two programs that take turns: a packet offered is
delivered unchanged and once, and confirmed once, in either order.  `Safety` is
its steps, `Spec` adds that they are taken; `TxQueue` is split in the same way.
The steps are proved, the rest is checked.

### EchoWire: the server's driver and pybox

`srv/pardrv.c` on `srv/par.c` and `srv/pario.asm`, and `pybox/pkt.py`, are the
older variant of the same wire.  `EchoWire` extends `ParWire`, names the routines
that do the same there and here, and writes out those that differ:

* The server offers an echo once and forgets it when the line is busy
  (`EchoRequest`, `EchoDropped`).
* `hwrecv` of the server compares the size right after its two bytes, before it
  reads the CRC (`srv/pario.asm:304-308`), where that of parblk does so after all of
  the header.  The constant `SizeAt` of `ParWire` is the number of bytes it has read
  by then: 4 here, 6 in the `ParWire` runs.  The server's loop reads the CRC with
  the data, so that a size of zero ends there (`Taken`).
* `toggle_busy` (`pkt.py:54-59`) reads one more update, when there is one, and takes
  the state of BUSY from it before it toggles.  `get_status` is that step: it
  consumes the update.  `ctl` is BUSY as each update has it and `status` what was
  read; `BoxPutByte` and `BoxGetByte` set or clear BUSY by it.
* The PC does not clear BUSY after a packet (`BoxSent`, `BoxReceived`).
* `pysockbox` sends, waits a second for the echo, and ends without one
  (`BoxNoReply`).

The buffer has at most the 250 bytes that `drv_init` asks for (`EchoAssumption`).

### Lifecycle: start, timers, stop

One module for both programs that own a port: `parblk_init/shutdown` with
`timer.c`, `par.c`, `pkt.c`, and `socksrv.c` with the files of the same names under
`src/srv`.  What a function takes or gives back is a sequence of steps
(`timer_init`, `par_shutdown` ...) and a program goes through the concatenation
its source calls; `todo` is what is left, `held` what it has.

| code | actions |
|---|---|
| init functions, any step failing | `Acquire`, `Refused` |
| `timer_tick_start` | `timer_tick_start` |
| `par_send`, `par_recv` around the wire | `Call`, `timer_timeout_start`, `TransferDone`, `TransferTimeout` (with `timer_timeout_clear`) |
| `exceptcode` | `ExceptWait`, `ExceptFlag` |
| timer.device | `TimeoutExpires`, `TickExpires` |
| shutdown functions | `Shutdown`, `Release`, `AbortTimeout`, `WaitTimeout`, `WaitTick`, `End` |

An exception runs in the context of the task that installed it, before that
task's next instruction (`ServerFree`); a second task that calls `parblk_write`
polls the flag meanwhile.  `expired` is history: the request of this transfer
ran out.

### Device: parblk.device

Opening makes a handler process and waits for its answer to a startup message;
`DevBeginIO` puts requests to the port the handler made; closing sends `CMD_TERM`
and deletes that port.  The handler's `CMD_TERM` only leaves the `switch`
(`device.c:66`), so it replies and goes on: the close returns, the process stays.

`handler[i]` is the handler that open `i` made, and all of them are there to the
end.  Each reads the global `myPort` anew before `WaitPort` and before `GetMsg`
(`device.c:61-62`), so one of an earlier open can take the requests of a later one,
and serves and replies to them as its own would.  A port signals only the task that
made it: an old handler that finds it empty waits for ever, and one that finds it
deleted reads freed memory; both are `"gone"`.

| code | actions |
|---|---|
| `__UserDevInit` | `OpenDevice`, `NoProcess`, `CreateProcess`, `InitReturns` |
| `cmd_handler` | `Startup`, `WaitPort`, `WakeUp`, `GetMsg`, `GetNone`, `ReplyMsg` |
| `DevBeginIO`, `DevAbortIO` | `DevBeginIO`, `Collect` (the opener's wait) |
| `__UserDevCleanup` | `CloseDevice`, `CleanupReturns` |

What can fail: the consoles, the process, the handler's port, and the two reply
ports nobody looks at (`device.c:117`, `138`), without which the call waits for
ever; `failed` remembers which of the latter four it was.  What the handler reads
and writes on its consoles, and the pointer `iopb` it does so by, are left out,
except that a `CMD_READ` waits for somebody to type.

### SockMsg: library and server

Models the calls of `bsdsocket.c` that send a message, `msgio.c` on both sides
and `main_loop`.  Tasks preempt each other between any two steps.  The library
has one `msg`, one `reply_port` (the task it signals) and one cached `port`;
the server's port is named by the start that created it, so that a port that is
gone differs from its successor.  The message is at one of the two ports or
nowhere; the ports hold numbers of messages.

| code | actions |
|---|---|
| `lib_socket` | `lib_socket`, `msgio_init`, transfer, `CheckResult` |
| all other calls with a message | `lib_command`, transfer, `CheckResult`, for CloseSocket `msgio_shutdown` |
| `msgio_init` | `InitReady`, `FindPort`, `CreateReplyPort`, `AllocMsg` |
| `msgio_xfer_msg` | `FillMsg`, `PutMsg`, `GetReply`, `WaitPort`, `WakeUp` |
| `main_loop` | `SrvStart`, `SrvWait`, `SrvDriver`, `SrvMsg`, `SrvReject`, `SrvDelete` |

Callers use and close only sockets they have.  The library has no lock; `Exclusive`
(one task at a time has sockets) is a constant, TRUE in the runs, and what calls
that overlap break is listed in section 3.  `mishaps`
remembers that the server was stopped under a user of the library, or that
memory ran out with the reply port already made: properties that need an
orderly world say so by `Orderly` instead of by a smaller model.

### The proofs

`ParBlkProofs` and `ParBlkRxProofs` (about `ParBlk`), `ParBlkFifoProofs`,
`ParWireProofs`, `EchoWireProofs`, `SockMsgProofs`, `DeviceProofs` and
`LifecycleProofs` hold the theorems of section 4, each about the module it is named
for.  `EchoWireProofs` builds on
`ParWireProofs` as `EchoWire` does on `ParWire`.  The models hold no proofs, and no
proof module adds to a model.

## 3. What is checked

Every run is a `.cfg`; `tlc -config <run>.cfg <module>` repeats it.  Each
property is also shown to be able to fail: for every property of a passing run
`PROJECT.json` names a definition and a plausible bug in it (the `Fault...`
operators) under which TLC finds the property violated.

| run | question | bounds | distinct states |
|---|---|---|---|
| `ParBlk_two` | Two tasks write and read while the tick flushes the queue and packets arrive: conservation of both pools, each write completed once (`WritesOnce`), given up only after exactly `max_retries` attempts, the tick alive, every write ends | 2 tasks, 3 writes, 2 tx packets, 1 read, 1 arrival, 2 retries | 141,855 |
| `ParBlkFifo` | One task and more packets than the rx pool holds: the engine implements `TxQueue`, safety and liveness; order of arrival kept, reads answered once, no read waits beside its packet | 2 writes on 2 packets, 3 retries, 3 arrivals on 2 rx packets, 3 reads | 786,971 |
| `ParWire_turns` | The two test programs echo each other: lockstep, rest, confirmation means delivery, and the wire implements `Link`, safety and liveness | 3 packets per side, sizes 1 and 2, nothing times out | 5,781 |
| `ParWire_errors` | Whatever times out, the receive signal is never lost, the receive buffer is kept, and no side receives more packets than there were attempts to send; contents and order are not asked | 2 packets per side, 2 timeouts, one size that does not fit, PC of any speed that stops at its first failure | 440,962 |
| `EchoWire` | What comes back to `pysockbox` is what it sent, in order, and every packet of even size that fits does come back | 3 packets of 1, 2 and 4 bytes, buffer of 2, 2 timeouts | 6,197 |
| `Lifecycle` | Both programs start with any step failing, make transfers and stop: no stale timeout, no request sent twice, nothing released in use, transfers end, shutdown releases | no bound: both programs, two tasks | 420 |
| `Device_use` | Each request is in one place with the handlers of both opens about, calls return unless a port is missing or a read waits for its user, closing gives back ports and consoles | 2 requests out at once, 2 opens; console, process and each of the three ports may fail | 12,575 |
| `SockMsg_use` | Programs use the library one after the other, the server is stopped and started at any time, memory runs out: own results, reference count, release, live port, no signal lost, every call returns | 2 tasks, 2 sockets each, 2 starts, both allocations may fail | 352,685 |
| `ParBlk_silent` | violated: `TickAlive` when the rx pool is exhausted | 2 arrivals on 1 packet | |
| `ParWire_flag` | violated: when `par_send` goes on to use the line, no reception is announced in the flags it has just tested | 1 packet per side, no turns, 1 timeout | |
| `ParWire_stale` | violated: what the PC receives was sent | 1 timeout | |
| `SockMsg_lost` | violated: no message left at the deleted port | 1 task, 1 start | |

**Why the bounds are enough.**  Three writes on two packets make the pool run
empty, be refilled and be used again, with a queue of two and a third packet in
hand; two retries is the least `max_retries` for which the count of
`parblk_write` and that of `handle_tx_queue` meet, and `ParBlkFifo` adds a third
for a packet that is put back twice.  Two rx packets and three arrivals exhaust
the pool, with packets on both rx lists before.  Sizes one and two give both
parities of the transfer, which decide in which state POUT and BUSY end, and
three rounds repeat each after each.  Two timeouts allow a timeout in the retry
of a timed out transfer, or one on either side.  Two clients, two sockets and two
starts allow the last socket to be closed while another was open, and a port to
be looked up again after a restart.  The calls between `bind` and `shutdown` are
the same code with another number, so one command stands for them.  `Lifecycle`
is finite as it is.  Two requests overtake each other at the device; a second
open finds the handler of the first alive, before or behind its own at the new port.

**Deadlock** is checked in `ParBlk_two` and `ParBlk_silent`: the ticker never
stops there.  In `ParBlkFifo` the engine may fall silent for good (see below), in
`ParWire` and `EchoWire` the programs end after `Rounds` packets or after a
failure, in `Lifecycle` they end, the opener of the device may stop after its
last close, and the server of `SockMsg` may be off for good, so these
configurations switch the check off.

**Fairness.**  `ParBlk`: the calls of the port end (weak fairness of the sending
and receiving steps: half a second at most, which `TransfersEnd` of `Lifecycle`
checks), timer.device answers, semaphores are granted first come first served
(strong fairness of `Obtain`, since a semaphore may be taken again and again in
between), and the server returns to its `Wait` after its own calls (strong
fairness of `HandleSig`, since it is disabled during those).  Nothing is assumed
of the success of an attempt, nor that anybody calls or that a packet arrives.
`ParWire`: both programs run and a pending interrupt is taken; `EchoWire` the
same.  `Lifecycle`: timer.device replies what it has, exceptions and tasks run;
the other end of the cable owes nothing (`TransferDone` is not fair), and nobody
has to start a transfer or a shutdown.  `Device`: opener and handlers are
scheduled and the opener takes its replies; a read may wait for ever for somebody
to type.  `SockMsg`: tasks inside a call and the server are scheduled; nobody has
to call, and the server need not be started or stopped.  Between a signal and the
server there is no fairness among the handlers: they are one sequence.

### Disagreements between the code and what it says

Each of the four has a run that shows it and an entry in `findings`.

* `ParBlk_silent`: with the rx pool empty `parblk_handle_sig` returns before it
  looks at the tick of the same signal mask; no tick is started again, so
  retries end, and the RX bit stays set, so receptions end as well.
* `ParWire_flag`: the assembler sets bits in the high byte of `s_Flags`, `par.c`
  tests the low one.  In the trace the interrupt has set its bit before `par_send`
  tests, and BUSY happens to be low at that moment (a byte handshake of the PC), so
  only the flag could tell; `par_send` tests the other bit and sends into the
  reception.  With one bit for both the property holds.
* `ParWire_stale`: the PC looks at POUT before it looks for the loss of SEL and
  takes the end of a broken transfer for one more byte.
* `SockMsg_lost`: the server rejects what is pending, permits task switches,
  and then deletes the port.

Further places where a property holds only under a condition that the code does
not enforce were met on the way.  The condition is a constant, or what the run
leaves out, and the hazard's note names it:

* A read of a second task that comes between the two semaphores of a reception
  waits although its packet has arrived (`ReadWaitsOnlyIfNone`, one task).
* A read that finds its packet never calls its done function.
* The uninitialised local `p` of the rx path (`Garbage`).
* `CLEARREQUEST` keeps POUT and drops the other bits (`AtRest`, no lost
  arbitration); two sides that send at once and drive each other's handshake
  can both report success (`AmigaSentTaken`, `Turns`).
* A PC call that fails leaves BUSY up (`AtRest`), and one whose last toggle is
  missing still returns success (`PcSentReceived`, no timeout).
* A PC that is faster than the first instructions of `hwsend` takes stale data
  for the magic byte (`ByteLockstep`, `Prompt`).
* A collision can shift the header so that `hwrecv` reads a size of zero
  (`TypeOK` makes the exception explicit).
* All openers of the library share one unprotected message: with two tasks at
  once a call sees the answer to another's command, the message is put twice, and
  a task waits for a signal that the other one gets (`OwnResult`, `MessageOnce`,
  `CallsReturn`, `Exclusive`).
* A library that keeps a socket over the end of the server uses the old port, and
  a call of it may never return (`PutToLivePort`, `CallsReturn`, `Orderly`); a
  rejected `socket()` leaves `msgio_ready` raised (`ReadyCounts`); an `AllocMem`
  that fails leaves the reply port (`ReleasedWithLast`, `mishaps`).
* `parblk_init` gives nothing back when a step fails, and without the hardware
  reports success (`Refused`).
* The server closes timer.device while its tick is out, because
  `timer_tick_clear` aborts the timeout's request (`NothingOutstanding`, which
  asks the tick of parblk only); `par_shutdown` frees the signal before it removes
  the interrupt that sends it (`IrqBacked` allows this one step).
* The handler process of the device never ends and is never given back
  (`ClosedReleases` speaks of ports and consoles); without its port, or without one
  of the two reply ports, calls hang (`CallsReturn` of `Device`, `failed`); a process
  that cannot be created leaves the consoles open (`ClosedReleases`).
* A packet of odd size leaves BUSY raised between `pysockbox` and the server, which
  then drops the echo (`EchoReturns`, `Impeded`).
* After a timeout the Amiga can receive what nobody sent, when a packet holds bytes
  that look like a header (section 4, only model-checked).
* `mini_getnetbyaddr` compares the net with its `type` argument
  (`mininetdb.c:87`); not modelled.

## 4. What is proved

Eight modules hold theorems; `tlapm <module>.tla` checks each from nothing in
less than ten minutes.  TLC first found each of the invariants they rest on to hold
on the small instances of section 3.

**Types.**  `TypeCorrect` (`ParBlk`), `WireTypes` (`ParWire`), `LibTypeCorrect`
(`SockMsg`) and `LifecycleTypes` (`Lifecycle`) are `Spec => []TypeOK`; that of
`Lifecycle` also says that an exception or a tick's signal stands only for a request
that timer.device has returned.  `Types` of `DeviceProofs` is part of its invariant.

### The packet engine

For every set of tasks, every size of the two pools and of the buffers, every
`max_retries` above one and every bound:

| theorem | property | under |
|---|---|---|
| `TxConserved` | `TxConservation`: every tx packet is in exactly one place | |
| `RxConserved` | `RxConservation`: the same for the rx packets | `Garbage = {NULL}` |
| `WritesAnsweredOnce` | `WritesOnce`: an accepted write is pending or completed, once | |
| `DroppedOnlyAfterMaxRetries` | `DropOnlyAfterMaxRetries`: a write fails only after exactly `max_retries` attempts | |
| `TickLives` | `TickAlive`: the tick is running, pending or being handled | no step finds the rx pool exhausted |
| `TickLivesInPool` | the same | `Garbage = {NULL}`, reads and arrivals together fit in the pool |
| `RxOrdered` | `RxInOrder`: packets reach reads in the order of arrival | one task, `Garbage = {NULL}` |
| `ReadsWaitOnlyIfNone` | `ReadWaitsOnlyIfNone`: no read waits beside its packet | one task, `Garbage = {NULL}` |
| `ReadsAllAnswered` | `ReadsAnswered`: reads are answered once, in the order of the calls | `Garbage = {NULL}` |
| `EngineIsQueue` | `Queue!Safety`: every step is a step of `TxQueue` or none | one task |

**Assumptions** are those named in `ParBlk`: the server is one of the tasks,
NULL is not, sizes are natural numbers, and `max_retries > 1`, since with one
the attempt that `parblk_write` counts would already be the last and the packet
would be queued for another.  The conditions in the table are those under which
the code works at all: `Garbage = {NULL}` is the uninitialised local reading as
NULL, without which no packet is received into the pool; the programs of the
repository call the engine from one task; and `ParBlk_silent` shows that the
tick does end with the pool.

**Conservation.**  It is not inductive: it does not say that a task
that is about to queue a packet has one, nor that `handle_tx_queue` has taken
one exactly while it sends.  `TxControl` ties `arg` and `cur` to the place of
each task and to the attempts the packet has left; `RxControl` says that `rxp`
is a packet exactly while `parblk_handle_sig` receives.  `TxInv` and `RxInv`
are conservation with these and with the types they need; both are inductive.
The step is split by action; actions that move a packet in the same way share a
lemma (`TxReturnArg`, `TxReturnCur`, `RxTake`).  All rest on three lemmas about
the Exec lists: removing the head, adding at the tail and adding at the head of
a list that holds a packet at most once.  `TypeCorrect` needs `TxControl` for
`p_Retries[p] <= max_retries` (`parblk_write` counts the first failure without
looking at the limit), and `RxControl` for the packet that `Recv` fills.

**Writes** (`WriteControl`).  A packet the pool has given away stands for one
write of its own, whose attempts are its `p_Retries` (`PendingOwn`); a write in
the log is there once and failed only with all attempts made (`LoggedOnce`); each
accepted write is in the log or has a packet (`NoneForgotten`).  A completion
moves one write from the second place to the first; the properties count with
`Cardinality`, which the last steps reduce to these facts.

**Tick and reads.**  `SigControl` says what the two signals and the RX flag
mean by where `parblk_handle_sig` is, and `TickOnce` that the tick is in exactly
one of its three places.  `PoolCount` bounds the packets out of the rx pool by
the reads and arrivals so far, which makes `RxExhausted` impossible in
`TickLivesInPool`.  `RxNumbered` numbers the packets read and then those waiting
without a gap, and `RxSides` keeps one of the two rx lists empty: the step between
the two semaphores in which a second task could break this is the reason for the
hypothesis of one task.  `ReadNumbers` and `ReadCount` do the same for the reads.

**Queue.**  `EngineIsQueue` is the step simulation: each action of the engine
appends the new request, completes the first one, or leaves the queue as it is.
It needs `TxOrder` (a task that sends its own packet first has emptied the queue
before) beside conservation.

### The wire

`WireTypes` and `SignalKept` (`RxSignalled`: an announced reception has its
signal pending, or `par_recv` is on its way) hold for all constants: for every
`Starter`, with or without turns, whatever times out, however fast the PC is.
`WireInv` adds to the types that what is sent can be sent (`Sendable`, `ToSend`) and
that the size of a packet was checked before its first byte was stored
(`SizeChecked`, for `BufferKept`).

`ReceivedIsPaid` (`NoMoreThanSent`) holds for all constants too, timeouts, retries and arbitration losses included: the Amiga
receives at most as many packets as the PC sent, and the PC at most one for each
attempt of the Amiga.  The inductive invariant is `Counted`, a balance.  On one side of it
is what may still become a received packet, beside those received: a reception that
runs, an event on the FLAG line, a pending signal, a packet that is not begun with,
and each select the PC has not used (`Unused`: SEL rises in what it has yet to
look at); on the other side are the attempts made.  A pulse of ACK becomes a
signal, the signal a select, the select a transfer, and none of them two.  A timeout
of `par_send` pays for the select of the retry.  The PC uses one select to send,
the one it waits for in `tx_select`, and pays for it there.  Without `Turns`,
`recv` of the PC may give up with SEL still high and begin again: the select counts as
unused again.  The update queue is counted as a set (`Selects`), so the lemmas
`AfterCount` and `ReadCount`, what adding and dropping an update does to it, rest on the
library's facts about cardinalities.

Under `Peaceful` (the programs take turns, and the PC does not overtake the
Amiga's first instructions), for any number of packets of any sizes, those that do
not fit into the receiver's buffer among them, for either `Starter`, and for as long
as nothing times out:

* `BytesInStep`: `ByteLockstep`, the receiver of a byte is never ahead of its
  sender nor two behind, and what it has is a prefix of the packet.
* `PortAtRest`: `AtRest`, between the transfers lines and interrupt are as
  `par_init` leaves them.
* `SentIsTaken`, `SentIsReceived`: `AmigaSentTaken`, `PcSentReceived`, what is
  reported as sent arrived.
* `ReceivedInOrder`: each side receives the packets of the other unchanged, once and
  in order.
* `WireIsLink`: `Spec /\ [](timeouts = 0) => L!Safety`, every step of the two
  programs is a step of the abstract link or none, in every run in which nothing
  times out.

The first five have the form `Spec => [](timeouts = 0 => P)`: they bind every run up
to its first timeout, whatever `MaxTimeouts` allows after it.  `Peaceful` is what the
test programs do, and `ParWire_turns` is an instance of it.  Each part is needed:
section 3 lists what goes wrong without it.

The invariant `Phase` says where the two transfers, one either way, are: nothing
happens (`Rest`), the PC calls (`Calling`), is selected (`Selecting`), sends byte by
byte (`ToAmiga`), is left alone with the end of its transfer (`PcSentAll`); the
Amiga starts (`Waking`), sends byte by byte (`ToPC`), and is through
(`AmigaSentAll`).  Within a byte there are as many cases as a handover has steps.
A packet that does not fit leaves this circle: the Amiga gives it up within or after
the header (`SizeAt`) while the PC has bytes left (`Refusal`), and the PC stops when it notices
(`Stopped`).  The handshake toggles instead of returning to zero, so what BUSY and
POUT are at a byte depends on how many came before it: the phases say so by parity
(`Odd`), and `PortAtRest` is the theorem that it comes out right at the end
whatever the size was.

What makes the wire hard is that the PC sees the lines late: `Seen` is the update it
read last followed by those still on their way, and a phase says of each of
them what it can be.  Two transfers overlap: the Amiga may select the PC for
the next packet before the PC has read that the last one is over.  `Begun(f)`
and `StillSelected(f)` split `Seen` there, at `f`: what belongs to the transfer that
ends, and what to the one that begins.  Every action is shown to lead from the
phases in which its guard holds to the next one or to stay.

### The server's driver and pybox

`EchoesInOrder`: `EchoIsPacket`, what comes back to `pysockbox` is what it sent, in
order, for packets of any size and every buffer the driver may ask for, when the PC
starts and under `Peaceful`.
The property itself speaks of runs up to their first timeout.

The argument is that `EchoWire` is `ParWire` as long as BUSY is clear after each
packet: the steps in which the older programs differ are then steps of `ParWire`, or
lead to the same phase (`BoxMoves`, `EchoRequestIs`), so that `Phase` is
preserved.  Three conjuncts go with it: the server has offered an echo for all packets
but perhaps the last (`Echoed`), and whatever is being echoed, or waits for its
echo at a port at rest, has an even number of bytes (`Even`); and what `toggle_busy`
reads of BUSY is its present state, however old the update, because the PC only
calls it after one that answers its last change (`Answers`, `BusyKnown`).  The older `send` of the
PC leaves BUSY as the last byte left it, so an odd packet ends the conversation: the
server finds BUSY raised, drops the echo, and neither side sends again (`Jammed`, which
no step leaves).

### Library and server

For any number of tasks, sockets and starts of the server, with any allocation
failing and the server stopped at any time.  However the calls of the tasks overlap:

* `LibTypeCorrect`: `TypeOK`; `msgio_ready` is never negative.
* `CountNeverTooLow`: `NeverTooLow`, the count is at least the number of sockets and
  of calls about to add one, so `msgio_shutdown` never releases under a socket.

In behaviours in which no two calls overlap (the hypothesis `[]OneCall`; any number of
tasks may have sockets, and `Exclusive` is not assumed):

* `ReadyIsCount`: `ReadyCounts`, `msgio_ready` counts the sockets.
* `MessageInOnePlace`: `MessageOnce`, the message is at one port at most and
  comes back to the call that waits, unless the server was stopped under it.
* `ServerSeesMessage`: `ServerAwake`, merged signals lose no message.
* `ResultIsOwn`: `OwnResult`, a call checks the answer to its own command.
* `PortIsLive`: `PutToLivePort`, no message goes to a port that is gone.
* `LastReleases`: `ReleasedWithLast`, the last socket releases message and port.

Nothing in the library ensures `OneCall`: it has no lock, and calls that overlap
break `OwnResult` and `MessageOnce` (section 3).  What the second group says is that the
absence of overlap is all the design needs: the server, the driver and the
environment still interleave with every step of a call, and the other tasks between
the calls.

The first group is a count over all tasks (`CountInv`).  For the second, what a call
has done follows from its place, and the contents of the message from where it is
(`EntryOK`, `MsgOK`); the library has its message exactly while the count is not
zero (`LibControl`); the server's signals follow from its place in `main_loop`
(`ServerControl`); while it is in use, the cached port is that of the server
(`PortOK`).  `InvLocal` reduces the invariant to what the one task in the library
sees of it.

### Device

For any number of requests and opens: `RequestHasOwner` (`RequestOwned`: each
message is at the port, with one handler or with the opener, although the handlers
of all earlier opens read the same `myPort`; and a port that holds a message has a
handler that comes for it) and `CloseReleases` (`ClosedReleases`: a close gives back
the ports and consoles of its open; the process it does not).

The invariant says what the opener has out by where it is (`OpenerControl`), and of
the handlers (`HandlerControl`) that the port that is there is that of the last open,
whose handler is alive, and that no handler of an earlier open is in `WaitPort`:
it can only be between its steps, on the way to the port or past it.

### Lifecycle

For both programs and every interleaving of the tasks, the exception and
timer.device in which the transfers of two tasks do not overlap (`Call`; `parblk_write`
does not ensure it, see section 5) (the module has no constants, so what the theorems add to the run is
an argument a reader can follow):

* `NoStale`: `NoStaleTimeout`, a transfer that sees the flag has run out itself.
* `SentWhenFree`: `Spec => RequestFree`, an action property: the one request is
  sent only when timer.device and its port are through with it.
* `RequestsOutlived`: `NothingOutstanding`, timer.device and the ports outlive
  the requests that are out.
* `HandlerBacked`: `IrqBacked`, the interrupt handler is installed only while
  what it uses is held, but for the one step of `par_shutdown`.

The first two share an invariant with three parts beside the types: there is
one transfer at a time, and only while the program runs (`OneTransfer`); a set flag
means that the request is neither sent nor replied and that no exception is on
its way (`FlagMeansFree`); a request that came back during a transfer means that
the transfer has run out (`OutUntilExpired`).  The second is what
`timer_timeout_start` waits for, and with the third it gives `NoStaleTimeout`: a
flag seen in a transfer is a request that came back during it.

The last two depend on the steps that are left in `todo`.  `Ahead(s, a, b)` says
that no `b` comes in `s` before an `a`; it holds of what follows each step, and the
sequences of the source are shown to have it part by part (`InitOrder`,
`ShutdownOrder`).  `Starting` says that what is not yet held is ahead of what
needs it, `Stopping` that what is out is waited for, and what is installed removed,
ahead of what it uses.

### Only model-checked

* Liveness: `WritesComplete`, `CallsReturn`, `TransfersEnd`, `ShutdownReleases`,
  `EchoReturns`, and the fairness parts of the refinements `TxFifo` and
  `WireLink`, whose steps are proved.  Fairness needs ENABLED, which is out of the
  prover's reach.

What the Amiga receives after a timeout is counted (`NoMoreThanSent`, checked and
proved) and otherwise left open.  `hwrecv` knows a packet by its first bytes, two sync
bytes and a size that fits, and after a transfer that one side has given up it may
find such bytes within another packet; then it receives what nobody sent.  No property
of the project says that contents and order survive a timeout: up to the first one
they do (`ReceivedInOrder`).

## 5. Plan

Done, in the order of their importance: `ParBlk` with `TxQueue`, `ParBlkFifo` and
their proofs; `ParWire` with `Link` and `ParWireProofs`; `SockMsg`; `Lifecycle`;
`Device`; `EchoWire`, each with its proofs.  Every invariant and action property of a
passing run is stated by a theorem.

Left to state and prove: what the Amiga receives after a timeout, for packets whose
bytes cannot be taken for a header.  It needs the states that a transfer given up by
one side leaves to the other, beside the phases.

Left to model: two tasks in `par_send` at once (`parblk_write` sends outside
`tx_sem`), composing the calls of `ParBlk` with the Amiga side of `ParWire`.  The
code has no answer to it (one request, one set of lines), so the model would only
show which of the failures comes first.

## 6. What is not modelled, and why

* CRC mode and `crc16.asm`: both sides leave it off (`par_init(0)`, `NO_CRC` in
  `parblk.py`), so no execution reaches it.
* `PAR_ERR_COLLISION`: unreachable through the flag mismatch.
* Timeouts as clocks: a timeout is an event that may happen at any time.
* `drain` and `request_state` of `vpar.py`, which run before the first packet.
* Library calls that only return a constant; `errno`, which `lib_Errno` reads back
  (`bsdsocket.c:319-323`), and the caller's errno pointer: no property is about them.
* The mini network database: tables and lookups without state, which a test of one
  call each covers.
* What the device's handler reads from and writes to its consoles, and the pointer
  `iopb` it keeps for it.
* Build files, debug output, options and statistics of the test programs.
