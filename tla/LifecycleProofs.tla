--------------------------- MODULE LifecycleProofs ---------------------------
(***************************************************************************)
(* Both programs, for any length of use and wherever starting fails: the   *)
(* variables keep their types, no transfer sees the flag of another's      *)
(* request, the one timerequest is sent only when it is free, nothing that *)
(* is out or installed outlives what it uses.                              *)
(***************************************************************************)
EXTENDS Lifecycle, Integers, TLAPS

(* One task at a time is in a transfer, and only while the program runs.   *)
OneTransfer == /\ \A c, d \in Callers : xfer[c] # "idle" /\ xfer[d] # "idle" => c = d
               /\ \A c \in Callers : xfer[c] # "idle" => pc = "run"

(* Until the exception is removed, a set flag says that the request has    *)
(* come back and been taken from its port; a pending exception says that   *)
(* it still lies there.  Before the program runs nothing was ever sent.    *)
FlagMeansFree ==
    /\ pc = "init" => timeoutReq = "quick" /\ ~excSig /\ ~handling
    /\ pc \in {"init", "run"} =>
        /\ flag => timeoutReq \notin {"sent", "replied"} /\ ~excSig /\ ~handling
        /\ excSig => timeoutReq = "replied" /\ ~handling
        /\ handling => timeoutReq = "done"

(* The request of a transfer is out until it expires.                      *)
OutUntilExpired == \A c \in Callers :
                       xfer[c] = "transfer" /\ timeoutReq # "sent" => expired

IInv == TypeOK /\ OneTransfer /\ FlagMeansFree /\ OutUntilExpired

-----------------------------------------------------------------------------
LEMMA InitIInv == Init => IInv
  BY DEF Init, IInv, TypeOK, Requests, OneTransfer, FlagMeansFree, OutUntilExpired

LEMMA TypeStep == IInv /\ [Next]_vars => TypeOK'
<1> SUFFICES ASSUME IInv, [Next]_vars PROVE TypeOK'
  OBVIOUS
<1>t. TypeOK /\ OneTransfer /\ FlagMeansFree
  BY DEF IInv
<1> USE DEF TypeOK, Requests
<1>1. CASE Acquire
  BY <1>1, <1>t DEF Acquire, Allocated, FlagAfter, reqVars, tickVars
<1>2. CASE Refused
  BY <1>2, <1>t DEF Refused, reqVars, tickVars
<1>3. CASE timer_tick_start
  BY <1>3, <1>t DEF timer_tick_start, reqVars
<1>4. ASSUME NEW c \in Callers, Call(c) PROVE TypeOK'
  BY <1>4, <1>t DEF Call, stepVars, reqVars, tickVars
<1>5. ASSUME NEW c \in Callers, timer_timeout_start(c) PROVE TypeOK'
  <2>1. flag /\ pc = "run"
    BY <1>5, <1>t DEF timer_timeout_start, TimeoutReady, OneTransfer
  <2>2. ~excSig
    BY <1>t, <2>1 DEF FlagMeansFree
  <2>3. xfer' \in [Callers -> {"idle", "wait", "transfer"}]
    BY <1>5, <1>t DEF timer_timeout_start
  <2>4. UNCHANGED <<stepVars, excSig, tickVars>> /\ timeoutReq' = "sent" /\ flag' = FALSE
        /\ expired' = FALSE /\ UNCHANGED handling
    BY <1>5 DEF timer_timeout_start
  <2> QED  BY <1>t, <2>2, <2>3, <2>4 DEF stepVars, tickVars
<1>6. ASSUME NEW c \in Callers, Ends(c) PROVE TypeOK'
  <2>1. /\ timeoutReq' \in Requests /\ excSig' \in BOOLEAN
        /\ excSig' => timeoutReq' \in {"replied", "done"}
    BY <1>6, <1>t DEF Ends, timer_timeout_clear, reqVars
  <2>2. xfer' \in [Callers -> {"idle", "wait", "transfer"}]
    BY <1>6, <1>t DEF Ends
  <2> QED  BY <1>6, <1>t, <2>1, <2>2 DEF Ends, stepVars, tickVars
<1>7. CASE ExceptWait
  BY <1>7, <1>t DEF ExceptWait, Taken, stepVars, tickVars
<1>8. CASE ExceptFlag
  BY <1>8, <1>t DEF ExceptFlag, stepVars, reqVars, tickVars
<1>9. CASE TimeoutExpires
  BY <1>9, <1>t DEF TimeoutExpires, stepVars, tickVars
<1>10. CASE TickExpires
  BY <1>10, <1>t DEF TickExpires, stepVars, reqVars
<1>11. CASE Shutdown
  BY <1>11, <1>t DEF Shutdown, reqVars, tickVars
<1>12. CASE Release
  BY <1>12, <1>t DEF Release, reqVars, tickVars
<1>13. CASE AbortTimeout
  BY <1>13, <1>t DEF AbortTimeout, timer_timeout_clear, reqVars, tickVars
<1>14. CASE WaitTimeout
  BY <1>14, <1>t DEF WaitTimeout, tickVars
<1>15. CASE WaitTick
  BY <1>15, <1>t DEF WaitTick, reqVars
<1>16. CASE End
  BY <1>16, <1>t DEF End, reqVars, tickVars
<1>17. CASE UNCHANGED vars
  BY <1>17, <1>t DEF vars, stepVars, reqVars, tickVars
<1> QED
  BY <1>1, <1>2, <1>3, <1>4, <1>5, <1>6, <1>7, <1>8, <1>9, <1>10, <1>11, <1>12,
     <1>13, <1>14, <1>15, <1>16, <1>17 DEF Next, TransferDone, TransferTimeout

(* A step that leaves the timeout, the transfers and the program's phase   *)
(* as they are.                                                            *)
LEMMA Elsewhere ==
    ASSUME OneTransfer, FlagMeansFree, OutUntilExpired,
           UNCHANGED <<pc, reqVars, flag, handling, xfer, expired>>
    PROVE  OneTransfer' /\ FlagMeansFree' /\ OutUntilExpired'
  BY DEF OneTransfer, FlagMeansFree, OutUntilExpired, reqVars

LEMMA StepIInv == IInv /\ [Next]_vars => IInv'
<1> SUFFICES ASSUME IInv, [Next]_vars
             PROVE  OneTransfer' /\ FlagMeansFree' /\ OutUntilExpired'
  BY TypeStep DEF IInv
<1> USE DEF IInv
<1>t. TypeOK
  OBVIOUS
<1>1. CASE Acquire
  <2>1. \A c \in Callers : xfer[c] = "idle"
    BY <1>1 DEF Acquire, OneTransfer
  <2> QED
    BY <1>1, <2>1 DEF Acquire, FlagAfter, reqVars, OneTransfer, FlagMeansFree, OutUntilExpired
<1>2. CASE Refused
  <2>1. \A c \in Callers : xfer[c] = "idle"
    BY <1>2 DEF Refused, OneTransfer
  <2> QED
    BY <1>2, <2>1 DEF Refused, reqVars, OneTransfer, FlagMeansFree, OutUntilExpired
<1>3. CASE timer_tick_start
  BY <1>3 DEF timer_tick_start, reqVars, OneTransfer, FlagMeansFree, OutUntilExpired
<1>4. ASSUME NEW c \in Callers, Call(c)
      PROVE  OneTransfer' /\ FlagMeansFree' /\ OutUntilExpired'
  BY <1>4, <1>t DEF Call, AllIdle, TypeOK, stepVars, reqVars, OneTransfer, FlagMeansFree,
                    OutUntilExpired
<1>5. ASSUME NEW c \in Callers, timer_timeout_start(c)
      PROVE  OneTransfer' /\ FlagMeansFree' /\ OutUntilExpired'
  BY <1>5, <1>t DEF timer_timeout_start, TimeoutReady, TypeOK, stepVars, OneTransfer,
                    FlagMeansFree, OutUntilExpired
<1>6. ASSUME NEW c \in Callers, Ends(c)
      PROVE  OneTransfer' /\ FlagMeansFree' /\ OutUntilExpired'
  <2>1. pc = "run" /\ \A d \in Callers : xfer[d] # "idle" => d = c
    BY <1>6 DEF Ends, OneTransfer
  <2>2. \A d \in Callers : xfer'[d] = "idle"
    BY <1>6, <1>t, <2>1 DEF Ends, TypeOK
  <2> QED
    BY <1>6, <2>1, <2>2 DEF Ends, timer_timeout_clear, stepVars, reqVars, OneTransfer,
                            FlagMeansFree, OutUntilExpired
<1>7. CASE ExceptWait
  BY <1>7 DEF ExceptWait, Taken, stepVars, OneTransfer, FlagMeansFree, OutUntilExpired
<1>8. CASE ExceptFlag
  BY <1>8 DEF ExceptFlag, stepVars, reqVars, OneTransfer, FlagMeansFree, OutUntilExpired
<1>9. CASE TimeoutExpires
  BY <1>9 DEF TimeoutExpires, stepVars, OneTransfer, FlagMeansFree, OutUntilExpired
<1>10. CASE TickExpires
  BY <1>10, Elsewhere DEF TickExpires, stepVars
<1>11. CASE Shutdown
  BY <1>11 DEF Shutdown, AllIdle, reqVars, OneTransfer, FlagMeansFree, OutUntilExpired
<1>12. CASE Release
  BY <1>12, Elsewhere DEF Release
<1>13. CASE AbortTimeout
  BY <1>13 DEF AbortTimeout, OneTransfer, FlagMeansFree, OutUntilExpired
<1>14. CASE WaitTimeout
  BY <1>14 DEF WaitTimeout, OneTransfer, FlagMeansFree, OutUntilExpired
<1>15. CASE WaitTick
  BY <1>15, Elsewhere DEF WaitTick
<1>16. CASE End
  BY <1>16 DEF End, reqVars, OneTransfer, FlagMeansFree, OutUntilExpired
<1>17. CASE UNCHANGED vars
  BY <1>17, Elsewhere DEF vars, stepVars
<1> QED
  BY <1>1, <1>2, <1>3, <1>4, <1>5, <1>6, <1>7, <1>8, <1>9, <1>10, <1>11, <1>12,
     <1>13, <1>14, <1>15, <1>16, <1>17 DEF Next, TransferDone, TransferTimeout

LEMMA InvariantIInv == Spec => []IInv
  BY InitIInv, StepIInv, PTL DEF Spec

-----------------------------------------------------------------------------
(* The variables of both programs keep their types, and no request is out  *)
(* while the signal of an earlier use of it is still pending.              *)
THEOREM LifecycleTypes == Spec => []TypeOK
<1>1. IInv => TypeOK
  BY DEF IInv
<1> QED
  BY <1>1, InvariantIInv, PTL

(* No transfer is ended by the timeout of an earlier one, whatever the     *)
(* order in which exceptcode and another task's timer_timeout_start run.   *)
THEOREM NoStale == Spec => []NoStaleTimeout
<1>1. IInv => NoStaleTimeout
  BY DEF IInv, OneTransfer, FlagMeansFree, OutUntilExpired, NoStaleTimeout
<1> QED
  BY <1>1, InvariantIInv, PTL

(* SendIO is never called on a timerequest that timer.device or the reply  *)
(* port still has.                                                         *)
THEOREM SentWhenFree == Spec => RequestFree
<1> DEFINE Free == \A c \in Callers : xfer[c] = "wait" /\ xfer'[c] = "transfer" =>
                       timeoutReq \notin {"sent", "replied"}
<1>1. IInv /\ [Next]_vars => [Free]_vars
  <2> SUFFICES ASSUME IInv, Next, NEW c \in Callers,
                      xfer[c] = "wait", xfer'[c] = "transfer"
               PROVE  timeoutReq \notin {"sent", "replied"}
    OBVIOUS
  <2>1. pc = "run"
    BY DEF IInv, OneTransfer
  <2>2. flag
    <3>1. PICK d \in Callers : Call(d) \/ timer_timeout_start(d) \/ Ends(d)
      BY DEF Next, TransferDone, TransferTimeout, Acquire, Refused, timer_tick_start,
             ExceptWait, ExceptFlag, TimeoutExpires, TickExpires, Shutdown, Release,
             AbortTimeout, WaitTimeout, WaitTick, End
    <3> QED
      BY <3>1 DEF IInv, TypeOK, Call, timer_timeout_start, TimeoutReady, Ends
  <2> QED
    BY <2>1, <2>2 DEF IInv, FlagMeansFree
<1> QED
  BY <1>1, InvariantIInv, PTL DEF Spec, RequestFree

-----------------------------------------------------------------------------
(* The order of the steps.  Starting and stopping take the steps of a list *)
(* one by one, so what a list says of two of its steps holds of the rest   *)
(* of it too.                                                              *)

Steps == {"timeoutPort", "tickPort", "TimerBase", "exception", "srvPort",
          "intSig", "MiscBase", "port", "bits", "irq", "pkts", "rx_pkt_data",
          "tick", "AbortIO_timeout", "WaitIO_timeout", "WaitIO_tick"}

\* In s, no b comes before the first a.
Ahead(s, a, b) == \A i \in DOMAIN s : s[i] = b => \E j \in 1..(i - 1) : s[j] = a
\* par_shutdown frees the signal right before it removes the handler.
SignalFirst(s) == \A i \in DOMAIN s : s[i] = "intSig" =>
                                          i + 1 \in DOMAIN s /\ s[i + 1] = "irq"

LEMMA AheadTail ==
    ASSUME NEW s \in Seq(Steps), s # <<>>, NEW a, NEW b
    PROVE  /\ Ahead(s, a, b) => Head(s) # b
           /\ Ahead(s, a, b) /\ Head(s) # a => Ahead(Tail(s), a, b)
           /\ SignalFirst(s) => SignalFirst(Tail(s))
           /\ SignalFirst(s) /\ Head(s) = "intSig" => Tail(s) # <<>> /\ Head(Tail(s)) = "irq"
<1>1. /\ Tail(s) \in Seq(Steps) /\ Len(s) \in Nat /\ Len(s) > 0 /\ Len(Tail(s)) = Len(s) - 1
      /\ DOMAIN s = 1..Len(s) /\ DOMAIN Tail(s) = 1..(Len(s) - 1) /\ Head(s) = s[1]
      /\ \A i \in 1..(Len(s) - 1) : Tail(s)[i] = s[i + 1]
  OBVIOUS
<1>2. Ahead(s, a, b) => Head(s) # b
  BY <1>1 DEF Ahead
<1>3. ASSUME Ahead(s, a, b), Head(s) # a PROVE Ahead(Tail(s), a, b)
  <2> SUFFICES ASSUME NEW i \in 1..(Len(s) - 1), s[i + 1] = b
               PROVE  \E j \in 1..(i - 1) : Tail(s)[j] = a
    BY <1>1 DEF Ahead
  <2>1. PICK k \in 1..((i + 1) - 1) : s[k] = a
    BY <1>1, <1>3 DEF Ahead
  <2>2. k # 1 /\ k - 1 \in 1..(i - 1) /\ k - 1 \in 1..(Len(s) - 1)
    BY <1>1, <1>3, <2>1
  <2>3. Tail(s)[k - 1] = s[(k - 1) + 1]
    BY <1>1, <2>2
  <2> QED  BY <2>1, <2>2, <2>3
<1>4. SignalFirst(s) => SignalFirst(Tail(s))
  <2> SUFFICES ASSUME SignalFirst(s), NEW i \in 1..(Len(s) - 1), Tail(s)[i] = "intSig"
               PROVE  i + 1 \in 1..(Len(s) - 1) /\ Tail(s)[i + 1] = "irq"
    BY <1>1 DEF SignalFirst
  <2>1. s[i + 1] = "intSig" /\ i + 1 \in 1..Len(s)
    BY <1>1
  <2>2. (i + 1) + 1 \in 1..Len(s) /\ s[(i + 1) + 1] = "irq"
    BY <1>1, <2>1 DEF SignalFirst
  <2> QED  BY <1>1, <2>2
<1>5. ASSUME SignalFirst(s), Head(s) = "intSig"
      PROVE  Tail(s) # <<>> /\ Head(Tail(s)) = "irq"
  <2>1. 1 \in DOMAIN s /\ s[1] = "intSig" /\ 1 + 1 = 2
    BY <1>1, <1>5
  <2>2. 2 \in DOMAIN s /\ s[2] = "irq"
    BY <1>5, <2>1 DEF SignalFirst
  <2>3. 1 \in 1..(Len(s) - 1) /\ Tail(s)[1] = "irq"
    BY <1>1, <2>2
  <2> DEFINE t == Tail(s)
  <2>4. t \in Seq(Steps) /\ Len(t) \in Nat /\ 1 \in 1..Len(t) /\ t[1] = "irq"
    BY <1>1, <2>3
  <2> HIDE DEF t
  <2>5. t # <<>> /\ Head(t) = "irq"
    BY <2>4
  <2> QED  BY <2>5 DEF t
<1> QED  BY <1>2, <1>3, <1>4, <1>5

\* Two lists one after the other.
LEMMA AheadConcat ==
    ASSUME NEW s \in Seq(Steps), NEW t \in Seq(Steps), NEW a, NEW b
    PROVE  /\ s \o t \in Seq(Steps)
           /\ Ahead(s, a, b) /\ (a \in StepsOf(s) \/ Ahead(t, a, b)) => Ahead(s \o t, a, b)
           /\ SignalFirst(s) /\ SignalFirst(t) => SignalFirst(s \o t)
           /\ StepsOf(s \o t) = StepsOf(s) \cup StepsOf(t)
<1>1. /\ s \o t \in Seq(Steps) /\ Len(s) \in Nat /\ Len(t) \in Nat
      /\ DOMAIN s = 1..Len(s) /\ DOMAIN t = 1..Len(t)
      /\ DOMAIN (s \o t) = 1..(Len(s) + Len(t))
      /\ \A i \in 1..Len(s) : (s \o t)[i] = s[i]
      /\ \A i \in 1..Len(t) : (s \o t)[Len(s) + i] = t[i]
  OBVIOUS
<1> DEFINE n == Len(s)
           m == Len(t)
           u == s \o t
<1>2. /\ n \in Nat /\ m \in Nat /\ DOMAIN s = 1..n /\ DOMAIN t = 1..m /\ DOMAIN u = 1..(n + m)
      /\ \A i \in 1..n : u[i] = s[i]
      /\ \A i \in 1..m : u[n + i] = t[i]
  BY <1>1
<1> HIDE DEF n, m, u
<1>3. \A i \in 1..(n + m) : i \in 1..n \/ (i - n \in 1..m /\ u[i] = t[i - n])
  <2> SUFFICES ASSUME NEW i \in 1..(n + m), i \notin 1..n
               PROVE  i - n \in 1..m /\ u[i] = t[i - n]
    OBVIOUS
  <2>1. i - n \in 1..m /\ n + (i - n) = i
    BY <1>2
  <2> QED  BY <1>2, <2>1
<1>4. StepsOf(u) = StepsOf(s) \cup StepsOf(t)
  <2>1. \A i \in 1..n : i \in 1..(n + m)
    BY <1>2
  <2>2. \A i \in 1..m : n + i \in 1..(n + m)
    BY <1>2
  <2>3. \A c : c \in StepsOf(s) \/ c \in StepsOf(t) => c \in StepsOf(u)
    BY <1>2, <2>1, <2>2 DEF StepsOf
  <2>4. ASSUME NEW c \in StepsOf(u) PROVE c \in StepsOf(s) \/ c \in StepsOf(t)
    <3>1. PICK i \in 1..(n + m) : c = u[i]
      BY <1>2 DEF StepsOf
    <3>2. (i \in 1..n /\ c = s[i]) \/ (i - n \in 1..m /\ c = t[i - n])
      BY <1>2, <1>3, <3>1
    <3> QED  BY <1>2, <3>2 DEF StepsOf
  <2> QED  BY <2>3, <2>4
<1>5. ASSUME Ahead(s, a, b), a \in StepsOf(s) \/ Ahead(t, a, b) PROVE Ahead(u, a, b)
  <2> SUFFICES ASSUME NEW i \in 1..(n + m), u[i] = b PROVE \E j \in 1..(i - 1) : u[j] = a
    BY <1>2 DEF Ahead
  <2>1. CASE i \in 1..n
    <3>1. PICK j \in 1..(i - 1) : s[j] = a
      BY <1>2, <1>5, <2>1 DEF Ahead
    <3>2. j \in 1..n
      BY <1>2, <2>1
    <3> QED  BY <1>2, <3>1, <3>2
  <2>2. CASE i \notin 1..n
    <3>1. i - n \in 1..m /\ t[i - n] = b
      BY <1>3, <2>2
    <3>2. CASE a \in StepsOf(s)
      <4>1. PICK j \in 1..n : s[j] = a
        BY <1>2, <3>2 DEF StepsOf
      <4>2. j \in 1..(i - 1)
        BY <1>2, <2>2
      <4> QED  BY <1>2, <4>1, <4>2
    <3>3. CASE Ahead(t, a, b)
      <4>1. PICK j \in 1..((i - n) - 1) : t[j] = a
        BY <1>2, <3>1, <3>3 DEF Ahead
      <4>2. j \in 1..m /\ n + j \in 1..(i - 1)
        BY <1>2, <3>1
      <4> QED  BY <1>2, <4>1, <4>2
    <3> QED  BY <1>5, <3>2, <3>3
  <2> QED  BY <2>1, <2>2
<1>6. ASSUME SignalFirst(s), SignalFirst(t) PROVE SignalFirst(u)
  <2> SUFFICES ASSUME NEW i \in 1..(n + m), u[i] = "intSig"
               PROVE  i + 1 \in 1..(n + m) /\ u[i + 1] = "irq"
    BY <1>2 DEF SignalFirst
  <2>1. CASE i \in 1..n
    <3>1. i + 1 \in 1..n /\ s[i + 1] = "irq"
      BY <1>2, <1>6, <2>1 DEF SignalFirst
    <3> QED  BY <1>2, <3>1
  <2>2. CASE i \notin 1..n
    <3>1. i - n \in 1..m /\ t[i - n] = "intSig"
      BY <1>3, <2>2
    <3>2. (i - n) + 1 \in 1..m /\ t[(i - n) + 1] = "irq"
      BY <1>2, <1>6, <3>1 DEF SignalFirst
    <3>3. n + ((i - n) + 1) = i + 1 /\ i + 1 \in 1..(n + m)
      BY <1>2, <3>2
    <3> QED  BY <1>2, <3>2, <3>3
  <2> QED  BY <2>1, <2>2
<1> QED  BY <1>1, <1>4, <1>5, <1>6 DEF u

\* What the lists of the source say: timer.device and its ports are there
\* before anything is sent, and the port, its lines and the signal before the
\* handler is installed;
LEMMA InitOrder ==
    \A p \in {"parblk", "socksrv"} :
        /\ InitOf[p] \in Seq(Steps)
        /\ \A r \in {"TimerBase", "timeoutPort", "tickPort"} :
               Ahead(InitOf[p], r, "tick") /\ Ahead(InitOf[p], r, "MiscBase")
        /\ \A r \in {"intSig", "port", "bits"} : Ahead(InitOf[p], r, "irq")
        /\ {"TimerBase", "timeoutPort", "tickPort", "intSig", "port", "bits"} \subseteq Resources
        /\ "WaitIO_timeout" \notin Resources /\ "WaitIO_tick" \notin Resources
<1> DEFINE Timer == {"TimerBase", "timeoutPort", "tickPort"}
           Port == {"intSig", "port", "bits"}
           tick == <<"tick">>
           Fine(s) == \A r \in Port : Ahead(s, r, "irq")
           Sends(s) == \A r \in Timer : Ahead(s, r, "tick") /\ Ahead(s, r, "MiscBase")
<1>1. /\ timer_init \in Seq(Steps) /\ par_init \in Seq(Steps) /\ pkt_init \in Seq(Steps)
      /\ msgio_init \in Seq(Steps) /\ tick \in Seq(Steps)
  BY DEF Steps, timer_init, par_init, pkt_init, msgio_init
<1>2. Sends(timer_init) /\ Timer \subseteq StepsOf(timer_init)
  BY DEF timer_init, Ahead, StepsOf
<1>3. Fine(timer_init) /\ Fine(par_init) /\ Fine(pkt_init) /\ Fine(msgio_init) /\ Fine(tick)
  BY DEF timer_init, par_init, pkt_init, msgio_init, Ahead
<1> HIDE DEF tick
<1>4. ASSUME NEW s \in Seq(Steps), NEW t \in Seq(Steps), Fine(s), Fine(t)
      PROVE  s \o t \in Seq(Steps) /\ Fine(s \o t)
  BY <1>4, AheadConcat
<1>5. ASSUME NEW s \in Seq(Steps), NEW t \in Seq(Steps), Sends(s), Timer \subseteq StepsOf(s)
      PROVE  /\ s \o t \in Seq(Steps) /\ Sends(s \o t)
             /\ Timer \subseteq StepsOf(s \o t)
  BY <1>5, AheadConcat
<1> HIDE DEF Fine, Sends, Timer, Port
<1>6. parblk_init \in Seq(Steps) /\ Fine(parblk_init) /\ Sends(parblk_init)
  <2>1. /\ timer_init \o par_init \in Seq(Steps) /\ Fine(timer_init \o par_init)
        /\ Sends(timer_init \o par_init) /\ Timer \subseteq StepsOf(timer_init \o par_init)
    BY <1>1, <1>2, <1>3, <1>4, <1>5
  <2> DEFINE u == (timer_init \o par_init) \o pkt_init
  <2>2. u \in Seq(Steps) /\ Fine(u) /\ Sends(u) /\ Timer \subseteq StepsOf(u)
    BY <1>1, <1>3, <1>4, <1>5, <2>1
  <2> HIDE DEF u
  <2>3. u \o tick \in Seq(Steps) /\ Fine(u \o tick) /\ Sends(u \o tick)
    BY <1>1, <1>3, <1>4, <1>5, <2>2
  <2> QED  BY <2>3 DEF parblk_init, u, tick
<1>7. socksrv_init \in Seq(Steps) /\ Fine(socksrv_init) /\ Sends(socksrv_init)
  <2>1. /\ timer_init \o msgio_init \in Seq(Steps) /\ Fine(timer_init \o msgio_init)
        /\ Sends(timer_init \o msgio_init) /\ Timer \subseteq StepsOf(timer_init \o msgio_init)
    BY <1>1, <1>2, <1>3, <1>4, <1>5
  <2> DEFINE u == (timer_init \o msgio_init) \o par_init
  <2>2. u \in Seq(Steps) /\ Fine(u) /\ Sends(u) /\ Timer \subseteq StepsOf(u)
    BY <1>1, <1>3, <1>4, <1>5, <2>1
  <2> HIDE DEF u
  <2>3. u \o tick \in Seq(Steps) /\ Fine(u \o tick) /\ Sends(u \o tick)
    BY <1>1, <1>3, <1>4, <1>5, <2>2
  <2>4. srv_timer_init = timer_init /\ srv_par_init = par_init
    BY DEF srv_timer_init, timer_init, srv_par_init, par_init
  <2> QED  BY <2>3, <2>4 DEF socksrv_init, u, tick
<1>8. InitOf["parblk"] = parblk_init /\ InitOf["socksrv"] = socksrv_init
  BY DEF InitOf
<1>9. /\ Timer \cup Port \subseteq Resources
      /\ "WaitIO_timeout" \notin Resources /\ "WaitIO_tick" \notin Resources
  <2>1. \A s, t \in Seq(Steps) : /\ s \o t \in Seq(Steps)
                               /\ StepsOf(s \o t) = StepsOf(s) \cup StepsOf(t)
    BY AheadConcat
  <2> DEFINE u == timer_init \o par_init
             v == u \o pkt_init
             w == timer_init \o msgio_init
             x == w \o par_init
             NoWait(s) == "WaitIO_timeout" \notin s /\ "WaitIO_tick" \notin s
  <2>2. Timer \cup Port \subseteq StepsOf(timer_init) \cup StepsOf(par_init)
    BY DEF Timer, Port, StepsOf, timer_init, par_init
  <2>3. /\ NoWait(StepsOf(timer_init)) /\ NoWait(StepsOf(par_init)) /\ NoWait(StepsOf(pkt_init))
        /\ NoWait(StepsOf(msgio_init)) /\ NoWait(StepsOf(tick))
    BY DEF StepsOf, timer_init, par_init, pkt_init, msgio_init, tick
  <2>4. /\ u \in Seq(Steps) /\ Timer \cup Port \subseteq StepsOf(u) /\ NoWait(StepsOf(u))
        /\ w \in Seq(Steps) /\ NoWait(StepsOf(w))
    BY <1>1, <2>1, <2>2, <2>3
  <2> HIDE DEF u, w
  <2>5. /\ v \in Seq(Steps) /\ Timer \cup Port \subseteq StepsOf(v) /\ NoWait(StepsOf(v))
        /\ x \in Seq(Steps) /\ NoWait(StepsOf(x))
    BY <1>1, <2>1, <2>3, <2>4
  <2> HIDE DEF v, x
  <2>6. /\ Timer \cup Port \subseteq StepsOf(v \o tick) /\ NoWait(StepsOf(v \o tick))
        /\ NoWait(StepsOf(x \o tick))
    BY <1>1, <2>1, <2>3, <2>5
  <2>7. srv_timer_init = timer_init /\ srv_par_init = par_init
    BY DEF srv_timer_init, timer_init, srv_par_init, par_init
  <2>8. /\ Timer \cup Port \subseteq StepsOf(parblk_init) /\ NoWait(StepsOf(parblk_init))
        /\ NoWait(StepsOf(socksrv_init))
    BY <2>6, <2>7 DEF parblk_init, socksrv_init, u, v, w, x, tick
  <2>9. /\ Timer \cup Port \subseteq StepsOf(parblk_init \o socksrv_init)
        /\ NoWait(StepsOf(parblk_init \o socksrv_init))
    BY <1>6, <1>7, <2>1, <2>8
  <2>10. "tick" \notin Timer \cup Port /\ "MiscBase" \notin Timer \cup Port
    BY DEF Timer, Port
  <2> QED  BY <2>9, <2>10 DEF Resources
<1> QED  BY <1>6, <1>7, <1>8, <1>9 DEF Fine, Sends, Timer, Port

\* the timerequest is waited for before timer.device and its ports go, and
\* the handler is removed before the port and its lines are given back, right
\* after the signal.
LEMMA ShutdownOrder ==
    /\ \A p \in {"parblk", "socksrv"} :
           /\ ShutdownOf[p] \in Seq(Steps) /\ SignalFirst(ShutdownOf[p])
           /\ \A r \in {"bits", "port"} : Ahead(ShutdownOf[p], "irq", r)
           /\ \A r \in {"TimerBase", "timeoutPort"} : Ahead(ShutdownOf[p], "WaitIO_timeout", r)
    /\ \A r \in {"TimerBase", "tickPort"} : Ahead(ShutdownOf["parblk"], "WaitIO_tick", r)
    /\ \A s \in {cleanup, srv_par_shutdown \o cleanup} :
           /\ s \in Seq(Steps) /\ SignalFirst(s)
           /\ \A r \in {"bits", "port"} : Ahead(s, "irq", r)
<1> DEFINE IrqFirst(s) == SignalFirst(s) /\ \A r \in {"bits", "port"} : Ahead(s, "irq", r)
           Waits(s) == \A r \in {"TimerBase", "timeoutPort"} : Ahead(s, "WaitIO_timeout", r)
           WaitsTick(s) == \A r \in {"TimerBase", "tickPort"} : Ahead(s, "WaitIO_tick", r)
           All(s) == s \in Seq(Steps) /\ IrqFirst(s) /\ Waits(s)
           srv == <<"srvPort">>
<1>1. /\ timer_tick_clear \in Seq(Steps) /\ pkt_free \in Seq(Steps)
      /\ par_shutdown \in Seq(Steps) /\ timer_shutdown \in Seq(Steps)
      /\ srv \in Seq(Steps) /\ srv_timer_shutdown \in Seq(Steps)
  BY DEF Steps, timer_tick_clear, pkt_free, par_shutdown, timer_shutdown, srv_timer_shutdown
<1>2. /\ Waits(timer_tick_clear) /\ Waits(pkt_free) /\ Waits(par_shutdown)
      /\ Waits(timer_shutdown) /\ Waits(srv) /\ Waits(srv_timer_shutdown)
  <2>1. Waits(timer_tick_clear) /\ Waits(pkt_free) /\ Waits(par_shutdown) /\ Waits(srv)
    BY DEF Ahead, timer_tick_clear, pkt_free, par_shutdown
  <2>2. Waits(timer_shutdown)
    BY DEF Ahead, timer_shutdown
  <2>3. Waits(srv_timer_shutdown)
    BY DEF Ahead, srv_timer_shutdown
  <2> QED  BY <2>1, <2>2, <2>3
<1>3. /\ WaitsTick(timer_tick_clear) /\ WaitsTick(pkt_free) /\ WaitsTick(par_shutdown)
      /\ WaitsTick(timer_shutdown)
  <2>1. WaitsTick(timer_tick_clear) /\ WaitsTick(pkt_free) /\ WaitsTick(par_shutdown)
    BY DEF Ahead, timer_tick_clear, pkt_free, par_shutdown
  <2>2. WaitsTick(timer_shutdown)
    BY DEF Ahead, timer_shutdown
  <2> QED  BY <2>1, <2>2
<1>4. /\ IrqFirst(timer_tick_clear) /\ IrqFirst(pkt_free) /\ IrqFirst(par_shutdown)
      /\ IrqFirst(timer_shutdown) /\ IrqFirst(srv) /\ IrqFirst(srv_timer_shutdown)
  <2>1. IrqFirst(timer_tick_clear) /\ IrqFirst(pkt_free) /\ IrqFirst(srv)
    BY DEF Ahead, SignalFirst, timer_tick_clear, pkt_free
  <2>2. IrqFirst(timer_shutdown) /\ IrqFirst(srv_timer_shutdown)
    BY DEF Ahead, SignalFirst, timer_shutdown, srv_timer_shutdown
  <2>3. IrqFirst(par_shutdown)
    BY DEF Ahead, SignalFirst, par_shutdown
  <2> QED  BY <2>1, <2>2, <2>3
<1>5. ASSUME NEW s \in Seq(Steps), NEW t \in Seq(Steps)
      PROVE  /\ All(s) /\ All(t) => All(s \o t)
             /\ WaitsTick(s) /\ WaitsTick(t) => WaitsTick(s \o t)
  BY AheadConcat
<1> HIDE DEF IrqFirst, Waits, WaitsTick, srv
<1>6. All(cleanup) /\ All(srv_par_shutdown \o cleanup)
  <2>1. All(cleanup)
    BY <1>1, <1>2, <1>4, <1>5 DEF cleanup, srv
  <2>2. srv_par_shutdown = par_shutdown
    BY DEF srv_par_shutdown, par_shutdown
  <2> QED  BY <1>1, <1>2, <1>4, <1>5, <2>1, <2>2
<1>7. All(parblk_shutdown) /\ WaitsTick(parblk_shutdown)
  <2> DEFINE u == timer_tick_clear \o pkt_free
             v == u \o par_shutdown
  <2>1. All(u) /\ WaitsTick(u)
    BY <1>1, <1>2, <1>3, <1>4, <1>5
  <2> HIDE DEF u
  <2>2. All(v) /\ WaitsTick(v)
    BY <1>1, <1>2, <1>3, <1>4, <1>5, <2>1
  <2> HIDE DEF v
  <2>3. All(v \o timer_shutdown) /\ WaitsTick(v \o timer_shutdown)
    BY <1>1, <1>2, <1>3, <1>4, <1>5, <2>2
  <2> QED  BY <2>3 DEF parblk_shutdown, u, v
<1>8. All(socksrv_shutdown)
  <2>1. srv_par_shutdown = par_shutdown /\ srv_tick_clear = timer_tick_clear
    BY DEF srv_par_shutdown, par_shutdown, srv_tick_clear, timer_tick_clear
  <2> DEFINE u == timer_tick_clear \o par_shutdown
  <2>2. All(u)
    BY <1>1, <1>2, <1>4, <1>5
  <2> HIDE DEF u
  <2>3. All(u \o cleanup)
    BY <1>5, <1>6, <2>2
  <2> QED  BY <2>1, <2>3 DEF socksrv_shutdown, u
<1>9. ShutdownOf["parblk"] = parblk_shutdown /\ ShutdownOf["socksrv"] = socksrv_shutdown
  BY DEF ShutdownOf
<1> QED  BY <1>6, <1>7, <1>8, <1>9 DEF IrqFirst, Waits, WaitsTick

-----------------------------------------------------------------------------
TimerParts == {"TimerBase", "timeoutPort", "tickPort"}
PortParts == {"intSig", "port", "bits"}

(* While a program starts, what it still needs is ahead of what needs it.  *)
Starting ==
    pc = "init" =>
        /\ tickReq = "quick"
        /\ \A r \in TimerParts : \/ r \in held
                                 \/ Ahead(todo, r, "tick") /\ Ahead(todo, r, "MiscBase")
        /\ \A r \in PortParts : r \in held \/ Ahead(todo, r, "irq")

Running == /\ pc = "run" => TimerParts \subseteq held
           /\ pc # "down" /\ "irq" \in held => PortParts \subseteq held

(* While it stops, it waits for what is out, and removes what is           *)
(* installed, before it gives back what they use.                          *)
Stopping ==
    pc = "down" =>
        /\ timeoutReq = "sent" =>
               \A r \in {"TimerBase", "timeoutPort"} : Ahead(todo, "WaitIO_timeout", r)
        /\ tickReq = "sent" /\ program = "parblk" =>
               \A r \in {"TimerBase", "tickPort"} : Ahead(todo, "WaitIO_tick", r)
        /\ "irq" \in held =>
               /\ {"port", "bits"} \subseteq held
               /\ \A r \in {"port", "bits"} : Ahead(todo, "irq", r)
               /\ SignalFirst(todo)
               /\ "intSig" \in held \/ (todo # <<>> /\ Head(todo) = "irq")

HInv == todo \in Seq(Steps) /\ Starting /\ Running /\ Stopping /\ NothingOutstanding

LEMMA InitHInv == Init => HInv
<1> SUFFICES ASSUME Init PROVE HInv
  OBVIOUS
<1>1. /\ pc = "init" /\ tickReq = "quick" /\ timeoutReq = "quick" /\ held = {}
      /\ todo = InitOf[program] /\ program \in {"parblk", "socksrv"}
  BY DEF Init
<1>2. todo \in Seq(Steps) /\ Starting
  BY <1>1, InitOrder DEF Starting, TimerParts, PortParts
<1> QED  BY <1>1, <1>2 DEF HInv, Running, Stopping, NothingOutstanding

\* A step of a shutdown function.
LEMMA StopStep ==
    ASSUME HInv, pc = "down", todo # <<>>, todo' = Tail(todo), UNCHANGED <<program, pc>>,
           held' = held \ {Head(todo)} \/ (UNCHANGED held /\ Head(todo) # "irq"),
           timeoutReq' = "sent" => timeoutReq = "sent" /\ Head(todo) # "WaitIO_timeout",
           tickReq' = "sent" => tickReq = "sent" /\ Head(todo) # "WaitIO_tick"
    PROVE  HInv'
<1>1. todo \in Seq(Steps) /\ todo' \in Seq(Steps)
  BY DEF HInv
<1> DEFINE h == Head(todo)
<1>2. \A a, b : /\ Ahead(todo, a, b) => h # b
                /\ Ahead(todo, a, b) /\ h # a => Ahead(todo', a, b)
  BY <1>1, AheadTail
<1>3. /\ SignalFirst(todo) => SignalFirst(todo')
      /\ SignalFirst(todo) /\ h = "intSig" => todo' # <<>> /\ Head(todo') = "irq"
  BY <1>1, AheadTail
<1>4. held' = held \ {h} \/ (UNCHANGED held /\ h # "irq")
  OBVIOUS
<1> HIDE DEF h
<1>5. Starting' /\ Running'
  BY DEF Starting, Running
<1>6. ASSUME timeoutReq' = "sent"
      PROVE  /\ {"TimerBase", "timeoutPort"} \subseteq held'
             /\ \A r \in {"TimerBase", "timeoutPort"} : Ahead(todo', "WaitIO_timeout", r)
  <2>1. timeoutReq = "sent" /\ h # "WaitIO_timeout"
    BY <1>6 DEF h
  <2>2. /\ {"TimerBase", "timeoutPort"} \subseteq held
        /\ \A r \in {"TimerBase", "timeoutPort"} : Ahead(todo, "WaitIO_timeout", r)
    BY <2>1 DEF HInv, Stopping, NothingOutstanding
  <2> QED  BY <1>2, <1>4, <2>1, <2>2
<1>7. ASSUME tickReq' = "sent", program = "parblk"
      PROVE  /\ {"TimerBase", "tickPort"} \subseteq held'
             /\ \A r \in {"TimerBase", "tickPort"} : Ahead(todo', "WaitIO_tick", r)
  <2>1. tickReq = "sent" /\ h # "WaitIO_tick"
    BY <1>7 DEF h
  <2>2. /\ {"TimerBase", "tickPort"} \subseteq held
        /\ \A r \in {"TimerBase", "tickPort"} : Ahead(todo, "WaitIO_tick", r)
    BY <1>7, <2>1 DEF HInv, Stopping, NothingOutstanding
  <2> QED  BY <1>2, <1>4, <2>1, <2>2
<1>8. ASSUME "irq" \in held'
      PROVE  /\ {"port", "bits"} \subseteq held'
             /\ \A r \in {"port", "bits"} : Ahead(todo', "irq", r)
             /\ SignalFirst(todo')
             /\ "intSig" \in held' \/ (todo' # <<>> /\ Head(todo') = "irq")
  <2>1. "irq" \in held /\ h # "irq"
    BY <1>4, <1>8
  <2>2. /\ {"port", "bits"} \subseteq held /\ SignalFirst(todo)
        /\ \A r \in {"port", "bits"} : Ahead(todo, "irq", r)
        /\ "intSig" \in held
    BY <2>1 DEF HInv, Stopping, h
  <2> QED  BY <1>2, <1>3, <1>4, <2>1, <2>2
<1> QED  BY <1>1, <1>5, <1>6, <1>7, <1>8 DEF HInv, Stopping, NothingOutstanding

\* A step that only brings requests back, or that neither starts nor stops.
LEMMA SameOrder ==
    ASSUME HInv, UNCHANGED stepVars,
           timeoutReq' = "sent" => timeoutReq = "sent" \/ pc = "run",
           tickReq' = "sent" => tickReq = "sent" \/ pc = "run",
           tickReq' = tickReq \/ pc # "init" \/ tickReq # "quick"
    PROVE  HInv'
<1>1. UNCHANGED <<program, pc, todo, held>>
  BY DEF stepVars
<1>2. todo' \in Seq(Steps) /\ Running'
  BY <1>1 DEF HInv, Running
<1>3. Starting'
  BY <1>1 DEF HInv, Starting
<1>4. Stopping'
  BY <1>1 DEF HInv, Stopping
<1>5. NothingOutstanding'
  BY <1>1 DEF HInv, Running, TimerParts, NothingOutstanding
<1> QED  BY <1>2, <1>3, <1>4, <1>5 DEF HInv

LEMMA StepHInv == IInv /\ HInv /\ [Next]_vars => HInv'
<1> SUFFICES ASSUME IInv, HInv, [Next]_vars PROVE HInv'
  OBVIOUS
<1>i. /\ pc = "init" => timeoutReq = "quick" /\ tickReq = "quick"
      /\ program \in {"parblk", "socksrv"} /\ todo \in Seq(Steps)
  BY DEF IInv, TypeOK, FlagMeansFree, HInv, Starting
<1>a. todo # <<>> /\ todo' = Tail(todo) =>
          /\ todo' \in Seq(Steps)
          /\ \A a, b : /\ Ahead(todo, a, b) => Head(todo) # b
                       /\ Ahead(todo, a, b) /\ Head(todo) # a => Ahead(todo', a, b)
  BY <1>i, AheadTail
<1>1. CASE Acquire
  <2> DEFINE h == Head(todo)
  <2>1. /\ pc = "init" /\ todo # <<>> /\ todo' = Tail(todo)
        /\ UNCHANGED <<program, pc, timeoutReq, tickReq>>
        /\ held' = held \cup ({h} \cap Resources)
    BY <1>1 DEF Acquire, Step, Allocated, reqVars, tickVars
  <2> HIDE DEF h
  <2>2. TimerParts \cup PortParts \subseteq Resources
    BY InitOrder DEF TimerParts, PortParts
  <2>3. /\ todo' \in Seq(Steps)
        /\ \A a, b : /\ Ahead(todo, a, b) => h # b
                     /\ Ahead(todo, a, b) /\ h # a => Ahead(todo', a, b)
    BY <1>a, <2>1 DEF h
  <2>4. Starting'
    BY <1>i, <2>1, <2>2, <2>3 DEF HInv, Starting
  <2>5. Running'
    <3> SUFFICES ASSUME "irq" \in held' PROVE PortParts \subseteq held'
      BY <2>1 DEF Running
    <3>1. CASE "irq" \in held
      BY <2>1, <3>1 DEF HInv, Running
    <3>2. CASE h = "irq"
      BY <2>1, <2>3, <3>2 DEF HInv, Starting
    <3> QED  BY <2>1, <3>1, <3>2
  <2> QED  BY <1>i, <2>1, <2>3, <2>4, <2>5 DEF HInv, Stopping, NothingOutstanding
<1>2. CASE Refused
  <2>1. /\ pc = "init" /\ UNCHANGED <<program, held, timeoutReq, tickReq>> /\ todo # <<>>
    BY <1>2 DEF Refused, reqVars, tickVars
  <2>2. CASE /\ program = "parblk" /\ Head(todo) = "MiscBase"
             /\ todo' = pkt_init \o <<"tick">> /\ pc' = pc
    <3>1. pkt_init \in Seq(Steps) /\ <<"tick">> \in Seq(Steps)
      BY DEF pkt_init, Steps
    <3>2. /\ \A r \in PortParts : Ahead(pkt_init, r, "irq")
          /\ \A r \in PortParts : Ahead(<<"tick">>, r, "irq")
      BY DEF PortParts, pkt_init, Ahead
    <3>3. todo' \in Seq(Steps) /\ \A r \in PortParts : Ahead(todo', r, "irq")
      BY <2>2, <3>1, <3>2, AheadConcat
    <3>4. TimerParts \subseteq held
      <4>1. \A a : Ahead(todo, a, "MiscBase") => Head(todo) # "MiscBase"
        BY <1>i, <2>1, AheadTail
      <4> QED  BY <2>1, <2>2, <4>1 DEF HInv, Starting
    <3>5. Starting' /\ Running'
      BY <1>i, <2>1, <2>2, <3>3, <3>4 DEF HInv, Starting, Running
    <3> QED  BY <1>i, <2>1, <2>2, <3>3, <3>5 DEF HInv, Stopping, NothingOutstanding
  <2>3. CASE todo' = <<>> /\ pc' = "end"
    <3>1. todo' \in Seq(Steps)
      BY <2>3
    <3> QED  BY <1>i, <2>1, <2>3, <3>1 DEF HInv, Starting, Running, Stopping, NothingOutstanding
  <2>4. CASE program = "socksrv" /\ pc' = "down"
             /\ todo' \in {cleanup, srv_par_shutdown \o cleanup}
    <3>1. /\ todo' \in Seq(Steps) /\ SignalFirst(todo')
          /\ \A r \in {"bits", "port"} : Ahead(todo', "irq", r)
      BY <2>4, ShutdownOrder
    <3>2. "irq" \in held => PortParts \subseteq held
      BY <2>1 DEF HInv, Running
    <3> QED  BY <1>i, <2>1, <2>4, <3>1, <3>2
             DEF HInv, Starting, Running, Stopping, NothingOutstanding, PortParts
  <2> QED  BY <1>2, <2>2, <2>3, <2>4 DEF Refused
<1>3. CASE timer_tick_start
  <2>1. UNCHANGED <<program, held, timeoutReq>> /\ pc' = "run"
    BY <1>3 DEF timer_tick_start, stepVars, reqVars
  <2>2. TimerParts \subseteq held /\ todo' \in Seq(Steps)
    <3>1. CASE pc = "init"
      <4>1. todo # <<>> /\ Head(todo) = "tick" /\ todo' = Tail(todo)
        BY <1>3, <3>1 DEF timer_tick_start, Step
      <4>2. \A a : Ahead(todo, a, "tick") => Head(todo) # "tick"
        BY <1>i, <4>1, AheadTail
      <4> QED  BY <1>a, <3>1, <4>1, <4>2 DEF HInv, Starting
    <3>2. CASE pc = "run"
      BY <1>i, <1>3, <3>2 DEF timer_tick_start, HInv, Running
    <3> QED  BY <1>3, <3>1, <3>2 DEF timer_tick_start
  <2>3. Running'
    BY <1>3, <2>1, <2>2 DEF timer_tick_start, HInv, Running
  <2> QED  BY <2>1, <2>2, <2>3 DEF HInv, Starting, Stopping, NothingOutstanding, TimerParts
<1>4. ASSUME NEW c \in Callers, Call(c) PROVE HInv'
  BY <1>4, SameOrder DEF Call, reqVars, tickVars
<1>5. ASSUME NEW c \in Callers, timer_timeout_start(c) PROVE HInv'
  BY <1>5, SameOrder DEF timer_timeout_start, tickVars, IInv, OneTransfer
<1>6. ASSUME NEW c \in Callers, Ends(c) PROVE HInv'
  BY <1>6, SameOrder DEF Ends, timer_timeout_clear, reqVars, tickVars
<1>7. CASE ExceptWait
  BY <1>7, SameOrder DEF ExceptWait, Taken, tickVars
<1>8. CASE ExceptFlag
  BY <1>8, SameOrder DEF ExceptFlag, reqVars, tickVars
<1>9. CASE TimeoutExpires
  BY <1>9, SameOrder DEF TimeoutExpires, tickVars
<1>10. CASE TickExpires
  BY <1>10, SameOrder DEF TickExpires, reqVars
<1>11. CASE Shutdown
  <2>1. /\ pc = "run" /\ pc' = "down" /\ UNCHANGED <<program, held, timeoutReq, tickReq>>
        /\ todo' = ShutdownOf[program]
    BY <1>11 DEF Shutdown, reqVars, tickVars
  <2>2. TimerParts \subseteq held /\ ("irq" \in held => PortParts \subseteq held)
    BY <2>1 DEF HInv, Running
  <2>3. Stopping'
    BY <1>i, <2>1, <2>2, ShutdownOrder DEF Stopping, PortParts
  <2> QED  BY <1>i, <2>1, <2>2, <2>3, ShutdownOrder
           DEF HInv, Starting, Running, NothingOutstanding, TimerParts
<1>12. CASE Release
  <2>1. Head(todo) \in Resources
    BY <1>12 DEF Release, Step
  <2>2. Head(todo) # "WaitIO_timeout" /\ Head(todo) # "WaitIO_tick"
    BY <2>1, InitOrder
  <2> QED  BY <1>12, <2>2, StopStep DEF Release, Step, reqVars, tickVars
<1>13. CASE AbortTimeout
  BY <1>13, StopStep DEF AbortTimeout, Step, timer_timeout_clear, reqVars, tickVars
<1>14. CASE WaitTimeout
  BY <1>14, StopStep DEF WaitTimeout, Step, tickVars
<1>15. CASE WaitTick
  BY <1>15, StopStep DEF WaitTick, Step, reqVars
<1>16. CASE End
  <2>1. /\ pc = "down" /\ pc' = "end" /\ todo = <<>>
        /\ UNCHANGED <<program, todo, held, timeoutReq, tickReq>>
    BY <1>16 DEF End, reqVars, tickVars
  <2>2. "irq" \in held => PortParts \subseteq held
    BY <2>1 DEF HInv, Stopping, PortParts
  <2> QED  BY <2>1, <2>2 DEF HInv, Starting, Running, Stopping, NothingOutstanding
<1>17. CASE UNCHANGED vars
  BY <1>17, SameOrder DEF vars, reqVars, tickVars
<1> QED
  BY <1>1, <1>2, <1>3, <1>4, <1>5, <1>6, <1>7, <1>8, <1>9, <1>10, <1>11, <1>12,
     <1>13, <1>14, <1>15, <1>16, <1>17 DEF Next, TransferDone, TransferTimeout

LEMMA InvariantHInv == Spec => []HInv
  BY InvariantIInv, InitHInv, StepHInv, PTL DEF Spec

(* timer.device and the reply ports outlive the requests that are out,     *)
(* wherever starting or stopping has come to.                              *)
THEOREM RequestsOutlived == Spec => []NothingOutstanding
<1>1. HInv => NothingOutstanding
  BY DEF HInv
<1> QED
  BY <1>1, InvariantHInv, PTL

(* Whatever step of starting fails, and at every step of stopping, the     *)
(* handler is only installed while the port, its lines and the signal it   *)
(* sends are the program's.                                                *)
THEOREM HandlerBacked == Spec => []IrqBacked
<1>1. HInv => IrqBacked
  BY DEF HInv, Running, Stopping, PortParts, IrqBacked
<1> QED
  BY <1>1, InvariantHInv, PTL

=============================================================================
