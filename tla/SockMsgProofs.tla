--------------------------- MODULE SockMsgProofs ---------------------------
(***************************************************************************)
(* The message of bsdsocket.library, for any number of tasks, sockets and  *)
(* starts of the server.  The library has no lock.  The first part holds   *)
(* however the calls of the tasks overlap; the second part holds of the    *)
(* behaviours in which no two calls overlap, and only of those.            *)
(***************************************************************************)
EXTENDS SockMsg, FiniteSetTheorems, TLAPS

Places == {"idle", "init", "create_port", "alloc", "fill", "put", "get", "sleep",
           "result", "shutdown"}

Entered(c) == pc[c] \in {"init", "create_port", "alloc"}
InCall(c)  == pc[c] \in {"fill", "put", "get", "sleep", "result"}

\* The types by name.
TypesKept ==
    /\ port \in 0..MaxStarts /\ srv_port \in 0..MaxStarts /\ starts \in 0..MaxStarts
    /\ reply_port \in Clients \cup {NULL}
    /\ msg = <<>> \/ msg \in (0..10) \X (0..10)
    /\ msgio_ready \in Nat
    /\ pc \in [Clients -> Places]
    /\ command \in [Clients -> 0..10] /\ open \in [Clients -> 0..MaxOpen]
    /\ signalled \subseteq Clients
    /\ srv_pc \in {"off", "wait", "driver", "msg", "shutdown", "delete"}
    /\ got \subseteq {"driver", "msg", "break"} /\ sig \subseteq {"driver", "msg", "break"}
    /\ msgs \in Nat /\ replies \in Nat /\ mishaps \subseteq {"stop", "memory"}

LEMMA TypesNamed == TypesKept <=> TypeOK
BY DEF TypesKept, TypeOK, Places

LEMMA TypesNamedNext == (TypesKept <=> TypeOK)'
BY TypesNamed, PTL

LEMMA MishapsType == TypesKept => Mishaps \subseteq {"stop", "memory"}
BY DEF TypesKept, Mishaps

LEMMA Tuples == \A a, b : <<a, b>> # <<>> /\ <<a, b>>[1] = a /\ <<a, b>>[2] = b
OBVIOUS

ClientStep(c) == Call(c) \/ MsgioInit(c) \/ Xfer(c) \/ Finish(c)
ServerStep    == SrvStart \/ Server \/ \E s \in {"driver", "break"} : Environment(s)

-----------------------------------------------------------------------------
(* The invariant of the count and of the places of the message.            *)

\* The command of a call follows from its place, and a task uses and closes
\* only what it has.
CommandOK(c) ==
    /\ Entered(c) => command[c] = MSG_CMD_CREATE_SOCKET
    /\ pc[c] = "shutdown" => command[c] = MSG_CMD_CLOSE_SOCKET
    /\ pc[c] # "idle" => IF command[c] = MSG_CMD_CREATE_SOCKET
                         THEN open[c] < MaxOpen ELSE open[c] > 0

FiniteSets == IsFiniteSet(Sockets) /\ IsFiniteSet(Opening) /\ IsFiniteSet(InXfer)

CountInv ==
    /\ TypeOK /\ (\A c \in Clients : CommandOK(c)) /\ FiniteSets
    /\ NeverTooLow /\ OnlyAwaited

\* A call of socket() that may add a socket, and what one task adds to the
\* sums over all tasks.
Adding(c)  == command[c] = MSG_CMD_CREATE_SOCKET /\ InCall(c)
One(b)     == IF b THEN 1 ELSE 0
Share(c)   == open[c] + One(Adding(c))
Waits(c)   == pc[c] \in {"get", "sleep"}

-----------------------------------------------------------------------------
(* One task moves the sums by what it adds itself.                         *)

LEMMA SetMoves ==
    ASSUME NEW S, NEW T, NEW x, IsFiniteSet(S), T \ {x} = S \ {x}
    PROVE  /\ IsFiniteSet(T) /\ Cardinality(S) \in Nat /\ Cardinality(T) \in Nat
           /\ Cardinality(T) = Cardinality(S) + One(x \in T) - One(x \in S)
<1> DEFINE R == S \ {x}
<1>1. /\ IsFiniteSet(R) /\ Cardinality(S) \in Nat /\ Cardinality(R) \in Nat
      /\ Cardinality(R) = IF x \in S THEN Cardinality(S) - 1 ELSE Cardinality(S)
  BY FS_RemoveElement, FS_CardinalityType
<1>2. x \notin R
  OBVIOUS
<1>3. CASE x \in T
  <2>1. T = R \cup {x}
    BY <1>3
  <2>2. IsFiniteSet(T) /\ Cardinality(T) = Cardinality(R) + 1
    BY <1>1, <1>2, <2>1, FS_AddElement
  <2> QED  BY <1>1, <1>3, <2>2 DEF One
<1>4. CASE x \notin T
  <2>1. T = R
    BY <1>4
  <2> QED  BY <1>1, <1>4, <2>1 DEF One
<1> QED  BY <1>3, <1>4

\* What a step of the task c leaves alone.
OthersKept(c) ==
    \A d \in Clients \ {c} : /\ pc'[d] = pc[d] /\ command'[d] = command[d]
                             /\ open'[d] = open[d]

LEMMA SocketsMove ==
    ASSUME NEW c \in Clients, IsFiniteSet(Sockets), MaxOpen \in Nat,
           OthersKept(c), open[c] \in 0..MaxOpen, open'[c] \in 0..MaxOpen,
           open'[c] \in {open[c] - 1, open[c], open[c] + 1}
    PROVE  /\ IsFiniteSet(Sockets') /\ Cardinality(Sockets) \in Nat
           /\ Cardinality(Sockets') \in Nat
           /\ Cardinality(Sockets') = Cardinality(Sockets) + open'[c] - open[c]
<1>1. \A d \in Clients, i \in 1..MaxOpen :
        /\ <<d, i>> \in Sockets <=> i <= open[d]
        /\ <<d, i>> \in Sockets' <=> i <= open'[d]
  BY DEF Sockets
<1>2. \A s \in Sockets \cup Sockets' : \E d \in Clients, i \in 1..MaxOpen : s = <<d, i>>
  BY DEF Sockets
<1>3. ASSUME NEW x, \A i \in 1..MaxOpen : <<c, i>> # x => (i <= open[c] <=> i <= open'[c])
      PROVE  Sockets' \ {x} = Sockets \ {x}
  <2>1. ASSUME NEW d \in Clients, NEW i \in 1..MaxOpen, <<d, i>> # x
        PROVE  <<d, i>> \in Sockets' <=> <<d, i>> \in Sockets
    <3>1. CASE d = c
      BY <1>1, <1>3, <2>1, <3>1
    <3>2. CASE d # c
      BY <1>1, <3>2 DEF OthersKept
    <3> QED  BY <3>1, <3>2
  <2> QED  BY <1>2, <2>1
<1>4. CASE open'[c] = open[c] + 1
  <2> DEFINE x == <<c, open'[c]>>
  <2>1. x \in Sockets' /\ x \notin Sockets
    BY <1>1, <1>4
  <2>2. \A i \in 1..MaxOpen : <<c, i>> # x => (i <= open[c] <=> i <= open'[c])
    BY <1>4
  <2>3. Sockets' \ {x} = Sockets \ {x}
    BY <1>3, <2>2
  <2> HIDE DEF x
  <2> QED  BY <1>4, <2>1, <2>3, SetMoves DEF One
<1>5. CASE open'[c] = open[c] - 1
  <2> DEFINE x == <<c, open[c]>>
  <2>1. x \in Sockets /\ x \notin Sockets'
    BY <1>1, <1>5
  <2>2. \A i \in 1..MaxOpen : <<c, i>> # x => (i <= open[c] <=> i <= open'[c])
    BY <1>5
  <2>3. Sockets' \ {x} = Sockets \ {x}
    BY <1>3, <2>2
  <2> HIDE DEF x
  <2> QED  BY <1>5, <2>1, <2>3, SetMoves DEF One
<1>6. CASE open'[c] = open[c]
  <2>1. ASSUME NEW d \in Clients, NEW i \in 1..MaxOpen
        PROVE  <<d, i>> \in Sockets' <=> <<d, i>> \in Sockets
    <3>1. open'[d] = open[d]
      BY <1>6 DEF OthersKept
    <3> QED  BY <1>1, <3>1
  <2>2. Sockets' = Sockets
    BY <1>2, <2>1
  <2> QED  BY <1>6, <2>2, FS_CardinalityType
<1> QED  BY <1>4, <1>5, <1>6

\* The places, commands and sockets of the tasks after a step of one of them.
PlacesOK ==
    /\ pc \in [Clients -> Places] /\ command \in [Clients -> 0..10]
    /\ open \in [Clients -> 0..MaxOpen] /\ \A c \in Clients : CommandOK(c)

LEMMA ShareMoves ==
    ASSUME NEW c \in Clients, PlacesOK, PlacesOK', FiniteSets, OthersKept(c),
           open'[c] \in {open[c] - 1, open[c], open[c] + 1}
    PROVE  /\ FiniteSets'
           /\ Users \in Nat /\ Users' \in Nat /\ Users' = Users + Share(c)' - Share(c)
           /\ Share(c) \in Nat /\ Share(c)' \in Nat
           /\ Cardinality(InXfer) \in Nat /\ Cardinality(InXfer)' \in Nat
           /\ Cardinality(InXfer)' = Cardinality(InXfer) + One(Waits(c))' - One(Waits(c))
           /\ open'[c] < open[c] => Cardinality(Sockets) > 0
<1>1. /\ open[c] \in 0..MaxOpen /\ open'[c] \in 0..MaxOpen /\ MaxOpen \in Nat
  BY SockAssumption DEF PlacesOK
<1>2. /\ IsFiniteSet(Sockets') /\ Cardinality(Sockets) \in Nat
      /\ Cardinality(Sockets') \in Nat
      /\ Cardinality(Sockets') = Cardinality(Sockets) + open'[c] - open[c]
  BY <1>1, SocketsMove DEF FiniteSets
<1>3. /\ IsFiniteSet(Opening') /\ Cardinality(Opening) \in Nat
      /\ Cardinality(Opening') \in Nat
      /\ Cardinality(Opening') = Cardinality(Opening) + One(Adding(c)') - One(Adding(c))
  <2>1. Opening' \ {c} = Opening \ {c}
    BY DEF Opening, OthersKept
  <2>2. (c \in Opening <=> Adding(c)) /\ (c \in Opening' <=> Adding(c)')
    BY DEF Opening, Adding, InCall
  <2> HIDE DEF Opening, Adding
  <2>3. One(c \in Opening) = One(Adding(c)) /\ One(c \in Opening') = One(Adding(c)')
    BY <2>2 DEF One
  <2> QED  BY <2>1, <2>3, SetMoves DEF FiniteSets
<1>4. /\ IsFiniteSet(InXfer') /\ Cardinality(InXfer) \in Nat
      /\ Cardinality(InXfer') \in Nat
      /\ Cardinality(InXfer') = Cardinality(InXfer) + One(Waits(c)') - One(Waits(c))
  <2>1. InXfer' \ {c} = InXfer \ {c}
    BY DEF InXfer, OthersKept
  <2>2. (c \in InXfer <=> Waits(c)) /\ (c \in InXfer' <=> Waits(c)')
    BY DEF InXfer, Waits
  <2>3. One(c \in InXfer) = One(Waits(c)) /\ One(c \in InXfer') = One(Waits(c)')
    BY <2>2 DEF One
  <2> QED  BY <2>1, <2>3, SetMoves DEF FiniteSets
<1>5. FiniteSets'
  BY <1>2, <1>3, <1>4 DEF FiniteSets
<1>6. /\ One(Adding(c)) \in 0..1 /\ One(Adding(c)') \in 0..1
      /\ One(Waits(c)') = One(Waits(c))' /\ One(Adding(c)') = One(Adding(c))'
  BY DEF One
<1>7. /\ Users = Cardinality(Sockets) + Cardinality(Opening)
      /\ Users' = Cardinality(Sockets') + Cardinality(Opening')
      /\ Share(c) = open[c] + One(Adding(c)) /\ Share(c)' = open'[c] + One(Adding(c)')
  BY DEF Users, Share
<1>8. /\ Users \in Nat /\ Users' \in Nat /\ Users' = Users + Share(c)' - Share(c)
      /\ Share(c) \in Nat /\ Share(c)' \in Nat
  <2>1. ASSUME NEW s \in Nat, NEW t \in Nat, NEW o \in Nat, NEW q \in Nat, NEW m \in Nat,
               NEW n \in Nat, NEW i \in 0..1, NEW j \in 0..1, t = s + n - m, q = o + j - i
        PROVE  /\ s + o \in Nat /\ t + q \in Nat /\ t + q = (s + o) + (n + j) - (m + i)
               /\ m + i \in Nat /\ n + j \in Nat
    BY <2>1
  <2>2. open[c] \in Nat /\ open'[c] \in Nat
    BY <1>1
  <2> HIDE DEF Users, Share, Sockets, Opening, Adding, One
  <2> QED  BY <1>2, <1>3, <1>6, <1>7, <2>1, <2>2
<1>9. open'[c] < open[c] => Cardinality(Sockets) > 0
  BY <1>1, <1>2
<1>10. /\ Cardinality(InXfer)' = Cardinality(InXfer')
  OBVIOUS
<1> QED  BY <1>4, <1>5, <1>6, <1>8, <1>9

-----------------------------------------------------------------------------
(* The steps of the tasks.                                                 *)

\* Where a step of the task c may lead, and what it leaves alone.
LEMMA ClientMoves ==
    ASSUME NEW c \in Clients, PlacesOK, ClientStep(c)
    PROVE  /\ PlacesOK' /\ OthersKept(c) /\ mishaps' = Mishaps /\ UNCHANGED srvVars
           /\ open'[c] \in {open[c] - 1, open[c], open[c] + 1}
<1>1. /\ pc \in [Clients -> Places] /\ command \in [Clients -> 0..10] /\ CommandOK(c)
      /\ open \in [Clients -> 0..MaxOpen] /\ open[c] \in 0..MaxOpen /\ MaxOpen \in Nat
      /\ command[c] \in 0..10
  BY SockAssumption DEF PlacesOK
<1> DEFINE Moves(l, cmd, n) ==
        /\ pc' = [pc EXCEPT ![c] = l] /\ command' = [command EXCEPT ![c] = cmd]
        /\ open' = [open EXCEPT ![c] = n]
        /\ mishaps' = Mishaps /\ UNCHANGED srvVars
        /\ l \in Places /\ cmd \in 0..10 /\ n \in 0..MaxOpen
        /\ n \in {open[c] - 1, open[c], open[c] + 1}
        /\ l \in {"init", "create_port", "alloc"} => cmd = MSG_CMD_CREATE_SOCKET
        /\ l = "shutdown" => cmd = MSG_CMD_CLOSE_SOCKET
        /\ l # "idle" => IF cmd = MSG_CMD_CREATE_SOCKET THEN n < MaxOpen ELSE n > 0
<1>2. ASSUME NEW l, NEW cmd, NEW n, Moves(l, cmd, n)
      PROVE  /\ PlacesOK' /\ OthersKept(c) /\ mishaps' = Mishaps /\ UNCHANGED srvVars
             /\ open'[c] \in {open[c] - 1, open[c], open[c] + 1}
  <2>1. /\ pc'[c] = l /\ command'[c] = cmd /\ open'[c] = n
        /\ \A d \in Clients \ {c} : /\ pc'[d] = pc[d] /\ command'[d] = command[d]
                                     /\ open'[d] = open[d]
    BY <1>1, <1>2
  <2>2. CommandOK(c)'
    BY <1>2, <2>1 DEF CommandOK, Entered
  <2>3. ASSUME NEW d \in Clients \ {c} PROVE CommandOK(d)'
    BY <2>1 DEF PlacesOK, CommandOK, Entered
  <2>4. /\ pc' \in [Clients -> Places] /\ command' \in [Clients -> 0..10]
        /\ open' \in [Clients -> 0..MaxOpen]
    BY <1>1, <1>2
  <2>5. PlacesOK'
    BY <2>2, <2>3, <2>4 DEF PlacesOK
  <2> QED  BY <1>2, <2>1, <2>5 DEF OthersKept
<1> SUFFICES \E l, cmd, n : Moves(l, cmd, n)
  <2> HIDE DEF Moves
  <2> QED  BY <1>2
<1>3. /\ pc = [pc EXCEPT ![c] = pc[c]] /\ command = [command EXCEPT ![c] = command[c]]
      /\ open = [open EXCEPT ![c] = open[c]]
  BY <1>1
<1>4. CASE lib_socket(c)
  <2>1. Moves("init", MSG_CMD_CREATE_SOCKET, open[c])
    BY <1>1, <1>3, <1>4 DEF lib_socket, Goto, Places, MSG_CMD_CREATE_SOCKET,
                            MSG_CMD_CLOSE_SOCKET
  <2> QED  BY <2>1
<1>5. CASE lib_command(c)
  <2>1. PICK cmd \in Commands \cup {MSG_CMD_CLOSE_SOCKET} :
           command' = [command EXCEPT ![c] = cmd]
    BY <1>5 DEF lib_command
  <2>2. cmd \in 0..10 /\ cmd # MSG_CMD_CREATE_SOCKET
    BY SockAssumption DEF MSG_CMD_CREATE_SOCKET, MSG_CMD_CLOSE_SOCKET
  <2>3. Moves("fill", cmd, open[c])
    BY <1>1, <1>3, <1>5, <2>1, <2>2 DEF lib_command, Goto, Places
  <2> QED  BY <2>3
<1>6. CASE MsgioInit(c)
  <2>1. pc[c] \in {"init", "create_port", "alloc"} /\ UNCHANGED <<command, open, srvVars>>
    BY <1>6 DEF MsgioInit, InitReady, FindPort, CreateReplyPort, AllocMsg
  <2>2. PICK l \in {"idle", "create_port", "alloc", "fill"} :
           pc' = [pc EXCEPT ![c] = l] /\ mishaps' = Mishaps
    BY <1>6 DEF MsgioInit, InitReady, FindPort, CreateReplyPort, AllocMsg, Goto
  <2>3. command[c] = MSG_CMD_CREATE_SOCKET /\ open[c] < MaxOpen
    BY <1>1, <2>1 DEF CommandOK, Entered
  <2>4. Moves(l, command[c], open[c])
    BY <1>1, <1>3, <2>1, <2>2, <2>3 DEF Places
  <2> QED  BY <2>4
<1>7. CASE Xfer(c)
  <2>1. pc[c] \in {"fill", "put", "get", "sleep"} /\ UNCHANGED <<command, open, srvVars>>
    BY <1>7 DEF Xfer, FillMsg, PutMsg, GetReply, WaitPort, WakeUp
  <2>2. PICK l \in {"put", "get", "sleep", "result"} :
           pc' = [pc EXCEPT ![c] = l] /\ mishaps' = Mishaps
    BY <1>7 DEF Xfer, FillMsg, PutMsg, GetReply, WaitPort, WakeUp, Goto
  <2>3. IF command[c] = MSG_CMD_CREATE_SOCKET THEN open[c] < MaxOpen ELSE open[c] > 0
    BY <1>1, <2>1 DEF CommandOK
  <2>4. Moves(l, command[c], open[c])
    BY <1>1, <1>3, <2>1, <2>2, <2>3 DEF Places
  <2> QED  BY <2>4
<1>8. CASE CheckResult(c)
  <2> DEFINE n == IF command[c] = MSG_CMD_CREATE_SOCKET /\ Succeeded
                  THEN open[c] + 1 ELSE open[c]
             l == IF command[c] = MSG_CMD_CLOSE_SOCKET THEN "shutdown" ELSE "idle"
  <2>1. /\ pc[c] = "result" /\ UNCHANGED <<command, srvVars>>
        /\ pc' = [pc EXCEPT ![c] = l] /\ mishaps' = Mishaps
    BY <1>8 DEF CheckResult, Goto
  <2>2. open' = [open EXCEPT ![c] = n]
    BY <1>3, <1>8 DEF CheckResult
  <2>3. IF command[c] = MSG_CMD_CREATE_SOCKET THEN open[c] < MaxOpen ELSE open[c] > 0
    BY <1>1, <2>1 DEF CommandOK
  <2>4. /\ l # "idle" => command[c] # MSG_CMD_CREATE_SOCKET /\ command[c] = MSG_CMD_CLOSE_SOCKET
        /\ l \in {"idle", "shutdown"}
    BY DEF MSG_CMD_CREATE_SOCKET, MSG_CMD_CLOSE_SOCKET
  <2>5. n \in 0..MaxOpen /\ n \in {open[c], open[c] + 1}
    BY <1>1, <2>3
  <2>6. l # "idle" => n > 0
    BY <2>3, <2>4
  <2> HIDE DEF n, l
  <2>7. Moves(l, command[c], n)
    BY <1>1, <1>3, <2>1, <2>2, <2>4, <2>5, <2>6 DEF Places
  <2> QED  BY <2>7
<1>9. CASE msgio_shutdown(c)
  <2>1. /\ pc[c] = "shutdown" /\ UNCHANGED <<command, srvVars>>
        /\ pc' = [pc EXCEPT ![c] = "idle"] /\ mishaps' = Mishaps
        /\ open' = [open EXCEPT ![c] = open[c] - 1]
    BY <1>9 DEF msgio_shutdown, Goto
  <2>2. open[c] > 0
    BY <1>1, <2>1 DEF CommandOK, MSG_CMD_CREATE_SOCKET, MSG_CMD_CLOSE_SOCKET
  <2>3. Moves("idle", command[c], open[c] - 1)
    BY <1>1, <1>3, <2>1, <2>2 DEF Places
  <2> QED  BY <2>3
<1> QED  BY <1>4, <1>5, <1>6, <1>7, <1>8, <1>9 DEF ClientStep, Call, Finish

\* Nothing that a task does makes the count fall behind the sockets, or puts the
\* message where nobody waits for it.
LEMMA ClientCounts ==
    ASSUME CountInv, NEW c \in Clients, ClientStep(c)
    PROVE  CountInv'
<1>1. TypesKept /\ PlacesOK /\ FiniteSets /\ NeverTooLow /\ OnlyAwaited
  <2>1. TypesKept
    BY TypesNamed DEF CountInv
  <2> QED  BY <2>1 DEF CountInv, PlacesOK, TypesKept
<1>2. /\ PlacesOK' /\ OthersKept(c) /\ mishaps' = Mishaps /\ UNCHANGED srvVars
      /\ open'[c] \in {open[c] - 1, open[c], open[c] + 1}
  BY <1>1, ClientMoves
<1>3. /\ FiniteSets'
      /\ Users \in Nat /\ Users' \in Nat /\ Users' = Users + Share(c)' - Share(c)
      /\ Share(c) \in Nat /\ Share(c)' \in Nat
      /\ Cardinality(InXfer) \in Nat /\ Cardinality(InXfer)' \in Nat
      /\ Cardinality(InXfer)' = Cardinality(InXfer) + One(Waits(c))' - One(Waits(c))
      /\ open'[c] < open[c] => Cardinality(Sockets) > 0
  BY <1>1, <1>2, ShareMoves
<1>4. /\ pc \in [Clients -> Places] /\ pc[c] \in Places /\ command[c] \in 0..10
      /\ open \in [Clients -> 0..MaxOpen] /\ open[c] \in 0..MaxOpen /\ MaxOpen \in Nat
      /\ msgio_ready \in Nat /\ msgs \in Nat /\ replies \in Nat /\ CommandOK(c)
      /\ signalled \subseteq Clients /\ sig \subseteq {"driver", "msg", "break"}
      /\ port \in 0..MaxStarts /\ srv_port \in 0..MaxStarts
      /\ reply_port \in Clients \cup {NULL}
      /\ msg = <<>> \/ msg \in (0..10) \X (0..10)
  BY <1>1, SockAssumption DEF TypesKept, PlacesOK
\* The rest of the types, and how far the numbers move.
<1> DEFINE Typed ==
        /\ signalled' \subseteq Clients /\ sig' \subseteq {"driver", "msg", "break"}
        /\ port' \in 0..MaxStarts /\ reply_port' \in Clients \cup {NULL}
        /\ msg' = <<>> \/ msg' \in (0..10) \X (0..10)
           Ready == msgio_ready' \in Nat /\ msgio_ready' >= msgio_ready + Share(c)' - Share(c)
           Once  == /\ msgs' \in Nat /\ replies' \in Nat
                    /\ msgs' + replies' <= msgs + replies + One(Waits(c))' - One(Waits(c))
<1>5. ASSUME Typed, Ready, Once PROVE CountInv'
  <2>1. NeverTooLow'
    <3>1. ASSUME NEW r \in Nat, NEW t \in Nat, NEW u \in Nat, NEW v \in Nat, NEW m \in Nat,
                 NEW n \in Nat, r >= u, t >= r + n - m, v = u + n - m
          PROVE  t >= v
      BY <3>1
    <3> HIDE DEF Users, Share
    <3>2. msgio_ready >= Users
      BY <1>1 DEF NeverTooLow
    <3>3. /\ msgio_ready' \in Nat /\ msgio_ready' >= msgio_ready + Share(c)' - Share(c)
          /\ Users \in Nat /\ Users' \in Nat /\ Users' = Users + Share(c)' - Share(c)
          /\ Share(c) \in Nat /\ Share(c)' \in Nat /\ msgio_ready \in Nat
      BY <1>3, <1>4, <1>5
    <3>4. msgio_ready' >= Users'
      BY <3>1, <3>2, <3>3
    <3> QED  BY <3>4 DEF NeverTooLow
  <2>2. OnlyAwaited'
    <3>1. ASSUME NEW r \in Nat, NEW s \in Nat, NEW t \in Nat, NEW q \in Nat, NEW u \in Nat,
                 NEW v \in Nat, NEW m \in 0..1, NEW n \in 0..1,
                 r + s <= u, t + q <= r + s + n - m, v = u + n - m
          PROVE  t + q <= v
      BY <3>1
    <3>2. One(Waits(c)) \in 0..1 /\ One(Waits(c))' \in 0..1
      BY DEF One
    <3> HIDE DEF InXfer, Waits, One
    <3>3. msgs + replies <= Cardinality(InXfer)
      BY <1>1 DEF OnlyAwaited
    <3>4. msgs' + replies' <= Cardinality(InXfer)'
      BY <1>3, <1>4, <1>5, <3>1, <3>2, <3>3
    <3> QED  BY <3>4 DEF OnlyAwaited
  <2>3. TypesKept'
    <3>1. mishaps' \subseteq {"stop", "memory"}
      BY <1>1, <1>2, MishapsType
    <3> QED  BY <1>1, <1>2, <1>5, <3>1 DEF TypesKept, PlacesOK, srvVars
  <2> QED  BY <1>2, <1>3, <2>1, <2>2, <2>3, TypesNamedNext DEF CountInv, PlacesOK
<1>6. /\ pc'[c] \in Places /\ open'[c] \in 0..MaxOpen
  BY <1>2, <1>4 DEF PlacesOK
<1>7. CASE Call(c)
  <2>1. /\ pc[c] = "idle" /\ pc' = [pc EXCEPT ![c] = pc'[c]] /\ pc'[c] \in {"init", "fill"}
        /\ UNCHANGED <<libVars, open, sig, boxVars>>
        /\ pc'[c] = "fill" => command'[c] # MSG_CMD_CREATE_SOCKET
    <3>1. CASE lib_socket(c)
      BY <1>4, <3>1 DEF lib_socket, MayCall, Goto
    <3>2. CASE lib_command(c)
      <4>1. PICK cmd \in Commands \cup {MSG_CMD_CLOSE_SOCKET} :
               command' = [command EXCEPT ![c] = cmd]
        BY <3>2 DEF lib_command
      <4>2. cmd # MSG_CMD_CREATE_SOCKET
        BY SockAssumption DEF MSG_CMD_CREATE_SOCKET, MSG_CMD_CLOSE_SOCKET
      <4>3. command'[c] = cmd
        BY <1>1, <4>1 DEF PlacesOK
      <4> QED  BY <1>4, <3>2, <4>2, <4>3 DEF lib_command, MayCall, Goto
    <3> QED  BY <1>7, <3>1, <3>2 DEF Call
  <2>2. Share(c)' = Share(c) /\ One(Waits(c))' = One(Waits(c)) /\ One(Waits(c)) \in 0..1
    BY <2>1 DEF Share, Adding, InCall, Waits, One
  <2>3. Typed /\ Ready /\ Once
    BY <1>3, <1>4, <2>1, <2>2 DEF libVars, boxVars
  <2> QED  BY <1>5, <2>3
<1>8. CASE InitReady(c)
  <2>1. /\ pc[c] = "init" /\ pc'[c] = "fill" /\ msgio_ready' = msgio_ready + 1
        /\ UNCHANGED <<port, reply_port, msg, command, open, sig, boxVars>>
    BY <1>4, <1>8 DEF InitReady, Goto, Counted
  <2>2. command[c] = MSG_CMD_CREATE_SOCKET
    BY <1>4, <2>1 DEF CommandOK, Entered
  <2>3. /\ Share(c) = open[c] /\ Share(c)' = open[c] + 1
        /\ One(Waits(c))' = One(Waits(c)) /\ One(Waits(c)) \in 0..1
    BY <1>4, <2>1, <2>2 DEF Share, Adding, InCall, Waits, One
  <2>4. Typed /\ Ready /\ Once
    BY <1>4, <2>1, <2>3 DEF boxVars
  <2> QED  BY <1>5, <2>4
<1>9. CASE FindPort(c)
  <2>1. /\ pc[c] = "init" /\ pc'[c] \in {"idle", "create_port"} /\ port' = srv_port
        /\ UNCHANGED <<reply_port, msg, msgio_ready, command, open, sig, boxVars>>
    BY <1>4, <1>9 DEF FindPort, Goto, Found
  <2>2. /\ Share(c) = open[c] /\ Share(c)' = open[c]
        /\ One(Waits(c))' = One(Waits(c)) /\ One(Waits(c)) \in 0..1
    BY <1>4, <2>1 DEF Share, Adding, InCall, Waits, One
  <2>3. Typed /\ Ready /\ Once
    BY <1>4, <2>1, <2>2 DEF boxVars
  <2> QED  BY <1>5, <2>3
<1>10. CASE CreateReplyPort(c)
  <2>1. /\ pc[c] = "create_port" /\ pc'[c] \in {"idle", "alloc"} /\ replies' = 0
        /\ reply_port' \in {c, NULL}
        /\ UNCHANGED <<port, msg, msgio_ready, command, open, signalled, sig, msgs>>
    BY <1>4, <1>10 DEF CreateReplyPort, Goto
  <2>2. /\ Share(c) = open[c] /\ Share(c)' = open[c]
        /\ One(Waits(c))' = 0 /\ One(Waits(c)) = 0
    BY <1>4, <2>1 DEF Share, Adding, InCall, Waits, One
  <2>3. Typed /\ Ready /\ Once
    BY <1>4, <2>1, <2>2
  <2> QED  BY <1>5, <2>3
<1>11. CASE AllocMsg(c)
  <2>1. /\ pc[c] = "alloc"
        /\ \/ pc'[c] = "fill" /\ msgio_ready' = msgio_ready + 1 /\ msg' = <<0, 0>>
           \/ pc'[c] = "idle" /\ msgio_ready' = msgio_ready /\ msg' = <<>>
        /\ UNCHANGED <<port, reply_port, command, open, sig, boxVars>>
    BY <1>4, <1>11 DEF AllocMsg, Goto, Counted, MSG_CMD_CREATE_SOCKET, MSG_RESULT_OK
  <2>2. command[c] = MSG_CMD_CREATE_SOCKET
    BY <1>4, <2>1 DEF CommandOK, Entered
  <2>3. /\ Share(c) = open[c] /\ Share(c)' = open[c] + One(pc'[c] = "fill")
        /\ One(Waits(c))' = 0 /\ One(Waits(c)) = 0
    BY <1>4, <2>1, <2>2 DEF Share, Adding, InCall, Waits, One
  <2>4. Ready /\ Once
    BY <1>4, <2>1, <2>3 DEF boxVars, One
  <2>5. Typed
    <3>1. <<0, 0>> \in (0..10) \X (0..10)
      OBVIOUS
    <3> QED  BY <1>4, <2>1, <3>1 DEF boxVars
  <2> QED  BY <1>5, <2>4, <2>5
<1>12. CASE FillMsg(c)
  <2>1. /\ pc[c] = "fill" /\ pc'[c] = "put" /\ msg' = <<command[c], MSG_RESULT_OK>>
        /\ UNCHANGED <<port, reply_port, msgio_ready, command, open, sig, boxVars>>
    BY <1>4, <1>12 DEF FillMsg, Goto, Filled
  <2>2. Share(c)' = Share(c) /\ One(Waits(c))' = 0 /\ One(Waits(c)) = 0
    BY <2>1 DEF Share, Adding, InCall, Waits, One
  <2>3. Ready /\ Once
    BY <1>3, <1>4, <2>1, <2>2 DEF boxVars
  <2>4. Typed
    <3>1. MSG_RESULT_OK \in 0..10
      BY DEF MSG_RESULT_OK
    <3>2. <<command[c], MSG_RESULT_OK>> \in (0..10) \X (0..10)
      BY <1>4, <3>1
    <3> QED  BY <1>4, <2>1, <3>2 DEF boxVars
  <2> QED  BY <1>5, <2>3, <2>4
<1>13. CASE PutMsg(c)
  <2>1. /\ pc[c] = "put" /\ pc'[c] = (IF msgio_ready = 0 THEN "result" ELSE "get")
        /\ IF msgio_ready # 0 /\ port = srv_port
           THEN msgs' = msgs + 1 /\ sig' = sig \cup {"msg"}
           ELSE UNCHANGED <<msgs, sig>>
        /\ UNCHANGED <<libVars, command, open, signalled, replies>>
    BY <1>4, <1>13 DEF PutMsg, Goto
  <2>2. /\ Share(c)' = Share(c) /\ One(Waits(c)) = 0
        /\ One(Waits(c))' = IF msgio_ready = 0 THEN 0 ELSE 1
    BY <2>1 DEF Share, Adding, InCall, Waits, One
  <2>3. Ready /\ Once
    BY <1>3, <1>4, <2>1, <2>2 DEF libVars
  <2>4. Typed
    BY <1>4, <2>1 DEF libVars
  <2> QED  BY <1>5, <2>3, <2>4
<1>14. CASE GetReply(c)
  <2>1. /\ pc[c] = "get" /\ pc'[c] = "result" /\ replies > 0 /\ replies' = replies - 1
        /\ UNCHANGED <<libVars, command, open, sig, signalled, msgs>>
    BY <1>4, <1>14 DEF GetReply, Goto, Left
  <2>2. /\ Share(c)' = Share(c) /\ One(Waits(c)) = 1 /\ One(Waits(c))' = 0
    BY <2>1 DEF Share, Adding, InCall, Waits, One
  <2>3. Ready /\ Once
    BY <1>3, <1>4, <2>1, <2>2 DEF libVars
  <2>4. Typed
    BY <1>4, <2>1 DEF libVars
  <2> QED  BY <1>5, <2>3, <2>4
<1>15. CASE WaitPort(c) \/ WakeUp(c)
  <2>1. /\ pc[c] \in {"get", "sleep"} /\ pc'[c] \in {"get", "sleep"}
        /\ UNCHANGED <<libVars, command, open, sig, msgs, replies>>
        /\ signalled' \subseteq signalled
    BY <1>4, <1>15 DEF WaitPort, WakeUp, Goto, boxVars
  <2>2. /\ Share(c)' = Share(c) /\ One(Waits(c)) = 1 /\ One(Waits(c))' = 1
    BY <2>1 DEF Share, Adding, InCall, Waits, One
  <2>3. Typed /\ Ready /\ Once
    BY <1>3, <1>4, <2>1, <2>2 DEF libVars
  <2> QED  BY <1>5, <2>3
<1>16. CASE CheckResult(c)
  <2>1. /\ pc[c] = "result" /\ pc'[c] \in {"idle", "shutdown"}
        /\ command[c] # MSG_CMD_CREATE_SOCKET => open' = open
        /\ UNCHANGED <<libVars, command, sig, boxVars>>
        /\ open'[c] \in {open[c], open[c] + 1}
    BY <1>4, <1>16 DEF CheckResult, Goto
  <2>2. /\ Share(c) = open[c] + One(command[c] = MSG_CMD_CREATE_SOCKET) /\ Share(c)' = open'[c]
        /\ One(Waits(c)) = 0 /\ One(Waits(c))' = 0
    BY <1>4, <1>6, <2>1 DEF Share, Adding, InCall, Waits, One
  <2>3. Ready
    <3>1. CASE command[c] = MSG_CMD_CREATE_SOCKET
      <4>1. Share(c) = open[c] + 1 /\ Share(c)' <= open[c] + 1
        BY <1>4, <2>1, <2>2, <3>1 DEF One
      <4> QED  BY <1>3, <1>4, <2>1, <4>1 DEF libVars
    <3>2. CASE command[c] # MSG_CMD_CREATE_SOCKET
      <4>1. Share(c) = open[c] /\ Share(c)' = open[c]
        BY <1>4, <2>1, <2>2, <3>2 DEF One
      <4> QED  BY <1>3, <1>4, <2>1, <4>1 DEF libVars
    <3> QED  BY <3>1, <3>2
  <2>4. Typed /\ Once
    BY <1>4, <2>1, <2>2 DEF libVars, boxVars
  <2> QED  BY <1>5, <2>3, <2>4
<1>17. CASE msgio_shutdown(c)
  <2>1. /\ pc[c] = "shutdown" /\ pc'[c] = "idle" /\ open'[c] = open[c] - 1
        /\ msgio_ready' = msgio_ready - 1
        /\ msg' \in {<<>>, msg} /\ reply_port' \in {NULL, reply_port} /\ replies' \in {0, replies}
        /\ UNCHANGED <<port, command, sig, signalled, msgs>>
    BY <1>4, <1>17 DEF msgio_shutdown, Goto
  <2>2. /\ Share(c) = open[c] /\ Share(c)' = open[c] - 1
        /\ One(Waits(c)) = 0 /\ One(Waits(c))' = 0
    BY <1>4, <2>1 DEF Share, Adding, InCall, Waits, One
  <2>3. Ready
    <3>1. Users' = Users - 1 /\ Users \in Nat /\ Users' \in Nat
      BY <1>3, <1>4, <2>2
    <3>2. msgio_ready >= Users
      BY <1>1 DEF NeverTooLow
    <3>3. msgio_ready' \in Nat
      BY <1>4, <2>1, <3>1, <3>2
    <3> QED  BY <1>4, <2>1, <2>2, <3>3
  <2>4. Typed
    BY <1>4, <2>1
  <2>5. Once
    <3>1. msgs' = msgs /\ (replies' = 0 \/ replies' = replies)
      BY <2>1
    <3> QED  BY <1>4, <2>2, <3>1
  <2> QED  BY <1>5, <2>3, <2>4, <2>5
<1> QED  BY <1>7, <1>8, <1>9, <1>10, <1>11, <1>12, <1>13, <1>14, <1>15, <1>16, <1>17
         DEF ClientStep, MsgioInit, Xfer, Finish

-----------------------------------------------------------------------------
(* The steps of the server and of its environment.                         *)

LEMMA ServerKeeps ==
    ASSUME ServerStep
    PROVE  /\ mishaps' = Mishaps
           /\ UNCHANGED <<port, reply_port, msgio_ready, pc, command, open>>
BY DEF ServerStep, Server, SrvStart, SrvWait, SrvDriver, SrvMsg, SrvReject, SrvDelete,
       Environment, SrvGoto, libVars, clientVars

LEMMA ServerTypes == ASSUME TypeOK, ServerStep PROVE TypeOK'
<1>1. TypesKept /\ Mishaps \subseteq {"stop", "memory"} /\ MaxStarts \in Nat
  BY TypesNamed, MishapsType, SockAssumption
<1>2. UNCHANGED <<port, reply_port, msgio_ready, pc, command, open>> /\ mishaps' = Mishaps
  BY ServerKeeps
<1>3. srv_port' \in 0..MaxStarts /\ starts' \in 0..MaxStarts
  <2>1. CASE SrvStart
    BY <1>1, <2>1 DEF SrvStart, TypesKept
  <2>2. CASE Server
    <3>1. UNCHANGED starts /\ (srv_port' = srv_port \/ srv_port' = NULL)
      BY <2>2 DEF Server, SrvWait, SrvDriver, SrvMsg, SrvReject, SrvDelete
    <3> QED  BY <1>1, <3>1 DEF TypesKept, NULL
  <2>3. CASE \E s \in {"driver", "break"} : Environment(s)
    BY <1>1, <2>3 DEF Environment, srvVars, TypesKept
  <2> QED  BY <2>1, <2>2, <2>3 DEF ServerStep
<1>4. /\ srv_pc' \in {"off", "wait", "driver", "msg", "shutdown", "delete"}
      /\ got' \subseteq {"driver", "msg", "break"} /\ sig' \subseteq {"driver", "msg", "break"}
  <2>1. CASE SrvStart \/ SrvReject \/ SrvDelete
    BY <1>1, <2>1 DEF SrvStart, SrvReject, SrvDelete, SrvGoto, TypesKept
  <2>2. CASE SrvWait \/ SrvDriver \/ SrvMsg
    BY <1>1, <2>2 DEF SrvWait, SrvDriver, SrvMsg, SrvGoto, AfterDriver, TypesKept
  <2>3. CASE \E s \in {"driver", "break"} : Environment(s)
    BY <1>1, <2>3 DEF Environment, srvVars, TypesKept
  <2> QED  BY <2>1, <2>2, <2>3 DEF ServerStep, Server
<1>5. signalled' \subseteq Clients
  <2>1. UNCHANGED signalled \/ (reply_port # NULL /\ signalled' = signalled \cup {reply_port})
    <3>1. CASE SrvMsg \/ SrvReject
      BY <3>1 DEF SrvMsg, SrvReject, Reply, boxVars
    <3>2. CASE SrvStart \/ SrvWait \/ SrvDriver \/ SrvDelete
      BY <3>2 DEF SrvStart, SrvWait, SrvDriver, SrvDelete, boxVars
    <3>3. CASE \E s \in {"driver", "break"} : Environment(s)
      BY <3>3 DEF Environment, boxVars
    <3> QED  BY <3>1, <3>2, <3>3 DEF ServerStep, Server
  <2> QED  BY <1>1, <2>1 DEF TypesKept
<1>6. msgs' \in Nat /\ replies' \in Nat
  <2>1. msgs \in Nat /\ replies \in Nat
    BY <1>1 DEF TypesKept
  <2>2. CASE SrvMsg
    <3>1. \/ msgs > 0 /\ msgs' = msgs - 1 /\ replies' = replies + 1
          \/ UNCHANGED <<msgs, replies>>
      BY <2>2 DEF SrvMsg, Reply, boxVars
    <3> QED  BY <2>1, <3>1
  <2>3. CASE SrvReject
    <3>1. msgs' = 0 /\ replies' = replies + msgs
      BY <2>3 DEF SrvReject, Reply
    <3> QED  BY <2>1, <3>1
  <2>4. CASE SrvDelete
    BY <2>1, <2>4 DEF SrvDelete
  <2>5. CASE SrvStart \/ SrvWait \/ SrvDriver
    BY <2>1, <2>5 DEF SrvStart, SrvWait, SrvDriver, boxVars
  <2>6. CASE \E s \in {"driver", "break"} : Environment(s)
    BY <2>1, <2>6 DEF Environment, boxVars
  <2> QED  BY <2>2, <2>3, <2>4, <2>5, <2>6 DEF ServerStep, Server
<1>7. msg' = <<>> \/ msg' \in (0..10) \X (0..10)
  <2>1. CASE msg' = msg
    BY <1>1, <2>1 DEF TypesKept
  <2>2. CASE msg # <<>> /\ \E k \in 0..10 : msg' = <<msg[1], k>>
    <3>1. msg \in (0..10) \X (0..10)
      BY <1>1, <2>2 DEF TypesKept
    <3>2. msg[1] \in 0..10
      BY <3>1
    <3> QED  BY <2>2, <3>2
  <2>3. ASSUME msg # <<>> PROVE msg[1] \in 0..10
    BY <1>1, <2>3 DEF TypesKept
  <2>4. CASE SrvMsg
    BY <2>1, <2>2, <2>3, <2>4 DEF SrvMsg, Answer
  <2>5. CASE SrvReject
    <3>1. MSG_RESULT_NO_SERVER \in 0..10
      BY DEF MSG_RESULT_NO_SERVER
    <3> QED  BY <2>1, <2>2, <2>5, <3>1 DEF SrvReject
  <2>6. CASE SrvStart \/ SrvWait \/ SrvDriver \/ SrvDelete
    BY <2>1, <2>6 DEF SrvStart, SrvWait, SrvDriver, SrvDelete, libVars
  <2>7. CASE \E s \in {"driver", "break"} : Environment(s)
    BY <2>1, <2>7 DEF Environment, libVars
  <2> QED  BY <2>4, <2>5, <2>6, <2>7 DEF ServerStep, Server
<1>8. TypesKept'
  BY <1>1, <1>2, <1>3, <1>4, <1>5, <1>6, <1>7 DEF TypesKept
<1> QED  BY <1>8, TypesNamedNext

\* The server only moves the message from its port to the reply port, or loses it.
LEMMA ServerCounts == ASSUME CountInv, ServerStep PROVE CountInv'
<1>1. UNCHANGED <<msgio_ready, pc, command, open>>
  BY ServerKeeps
<1>2. UNCHANGED <<Sockets, Opening, InXfer>>
  BY <1>1 DEF Sockets, Opening, InXfer
<1>3. ASSUME NEW c \in Clients PROVE CommandOK(c)'
  BY <1>1 DEF CountInv, CommandOK, Entered
<1>4. FiniteSets' /\ NeverTooLow'
  BY <1>1, <1>2 DEF CountInv, FiniteSets, NeverTooLow, Users
<1>5. msgs \in Nat /\ replies \in Nat
  BY DEF CountInv, TypeOK
<1>6. /\ msgs' \in Nat /\ replies' \in Nat /\ msgs' + replies' <= msgs + replies
  <2>1. CASE SrvMsg
    <3>1. \/ msgs > 0 /\ msgs' = msgs - 1 /\ replies' = replies + 1
          \/ UNCHANGED <<msgs, replies>>
      BY <2>1 DEF SrvMsg, Reply, boxVars
    <3> QED  BY <1>5, <3>1
  <2>2. CASE SrvReject
    <3>1. msgs' = 0 /\ replies' = replies + msgs
      BY <2>2 DEF SrvReject, Reply
    <3> QED  BY <1>5, <3>1
  <2>3. CASE SrvDelete
    <3>1. msgs' = 0 /\ replies' = replies
      BY <2>3 DEF SrvDelete
    <3> QED  BY <1>5, <3>1
  <2>4. CASE SrvStart \/ SrvWait \/ SrvDriver
    <3>1. UNCHANGED <<msgs, replies>>
      BY <2>4 DEF SrvStart, SrvWait, SrvDriver, boxVars
    <3> QED  BY <1>5, <3>1
  <2>5. CASE \E s \in {"driver", "break"} : Environment(s)
    <3>1. UNCHANGED <<msgs, replies>>
      BY <2>5 DEF Environment, boxVars
    <3> QED  BY <1>5, <3>1
  <2> QED  BY <2>1, <2>2, <2>3, <2>4, <2>5 DEF ServerStep, Server
<1>7. OnlyAwaited'
  <2>1. InXfer' = InXfer /\ msgs + replies <= Cardinality(InXfer) /\ Cardinality(InXfer) \in Nat
    BY <1>2, FS_CardinalityType DEF CountInv, FiniteSets, OnlyAwaited
  <2>2. ASSUME NEW i \in Nat, NEW j \in Nat, NEW m \in Nat, NEW n \in Nat, NEW k \in Nat,
               i + j <= m + n, m + n <= k
        PROVE  i + j <= k
    BY <2>2
  <2> HIDE DEF InXfer
  <2>3. msgs' + replies' <= Cardinality(InXfer)
    BY <1>5, <1>6, <2>1, <2>2
  <2>4. msgs' + replies' <= Cardinality(InXfer')
    BY <2>1, <2>3
  <2> QED  BY <2>4 DEF OnlyAwaited
<1>8. TypeOK'
  BY ServerTypes DEF CountInv
<1> QED  BY <1>3, <1>4, <1>7, <1>8 DEF CountInv

-----------------------------------------------------------------------------
(* What holds however the calls of the tasks overlap.                      *)

LEMMA CountInit == Init => CountInv
<1> SUFFICES ASSUME Init PROVE CountInv
  OBVIOUS
<1>1. TypeOK
  <2>1. TypesKept
    BY SockAssumption DEF Init, TypesKept, Places, NULL, MSG_CMD_CREATE_SOCKET
  <2> QED  BY <2>1, TypesNamed
<1>2. Sockets = {} /\ Opening = {} /\ InXfer = {}
  BY DEF Init, Sockets, Opening, InXfer
<1>3. IsFiniteSet({}) /\ Cardinality({}) = 0
  BY FS_EmptySet
<1>4. FiniteSets /\ NeverTooLow /\ OnlyAwaited
  BY <1>2, <1>3 DEF Init, FiniteSets, NeverTooLow, OnlyAwaited, Users
<1>5. \A c \in Clients : CommandOK(c)
  BY DEF Init, CommandOK, Entered
<1> QED  BY <1>1, <1>4, <1>5 DEF CountInv

LEMMA CountNext == CountInv /\ [Next]_vars => CountInv'
<1> SUFFICES ASSUME CountInv, [Next]_vars PROVE CountInv'
  OBVIOUS
<1>1. ASSUME NEW c \in Clients, Call(c) \/ MsgioInit(c) \/ Xfer(c) \/ Finish(c)
      PROVE  CountInv'
  BY <1>1, ClientCounts DEF ClientStep
<1>2. ASSUME SrvStart \/ Server \/ \E s \in {"driver", "break"} : Environment(s)
      PROVE  CountInv'
  BY <1>2, ServerCounts DEF ServerStep
<1>3. CASE UNCHANGED vars
  <2>1. UNCHANGED <<Sockets, Opening, InXfer>>
    BY <1>3 DEF vars, clientVars, Sockets, Opening, InXfer
  <2>2. TypeOK' /\ (\A c \in Clients : CommandOK(c)')
    BY <1>3 DEF vars, libVars, clientVars, srvVars, boxVars, CountInv, TypeOK, CommandOK, Entered
  <2> QED  BY <1>3, <2>1, <2>2 DEF vars, libVars, boxVars, CountInv, FiniteSets, NeverTooLow,
                OnlyAwaited, Users
<1> QED  BY <1>1, <1>2, <1>3 DEF Next

LEMMA CountInvariant == Spec => []CountInv
BY CountInit, CountNext, PTL DEF Spec

\* The types, for any number of tasks, sockets and starts, and however the
\* calls overlap: msgio_ready, which msgio_shutdown (msgio.c:58) lowers without
\* a test, never falls below zero.
THEOREM LibTypeCorrect == Spec => []TypeOK
BY CountInvariant, PTL DEF CountInv

\* msgio_ready (msgio.c:10) is never lower than the sockets and the calls that
\* are about to add one, however the calls of the tasks overlap: the last
\* CloseSocket alone brings it to zero and releases the message.
THEOREM CountNeverTooLow == Spec => []NeverTooLow
BY CountInvariant, PTL DEF CountInv

-----------------------------------------------------------------------------
(* The invariant of the message while no two calls overlap.                *)

\* No task enters the library while another one is in it.  Nothing in the
\* library ensures that: it has no lock.  Several tasks may have sockets.
Alone(c) == \A d \in Clients \ {c} : pc[d] = "idle"
OneCall  == \A c \in Clients : pc[c] = "idle" \/ Alone(c)

\* The first socket is on its way.
EntryOK(c) == pc[c] \in {"create_port", "alloc"} => port # NULL /\ msgio_ready = 0

\* Whether the library has its message follows from the count.
LibControl ==
    IF msgio_ready = 0 THEN msg = <<>> ELSE msg # <<>> /\ port # NULL

Rejected(c) == <<command[c], MSG_RESULT_NO_SERVER>>
Answered(c) == <<command[c], command[c]>>

\* The contents of the message follow from where it is.
MsgOK(c) ==
    /\ pc[c] = "put" \/ (pc[c] \in {"get", "sleep"} /\ msgs > 0)
          => msg = <<command[c], MSG_RESULT_OK>>
    /\ pc[c] = "result" \/ (pc[c] \in {"get", "sleep"} /\ replies > 0)
          => /\ msg = Answered(c) \/ msg = Rejected(c)
             /\ Orderly => msg = Answered(c)

\* While the library is in use its port is that of the server.
InUse  == \E c \in Clients : open[c] > 0 \/ pc[c] \notin {"idle", "init"}
PortOK == Orderly /\ InUse => port = srv_port /\ srv_port # NULL

ServerControl ==
    /\ srv_pc = "off" <=> srv_port = NULL
    /\ srv_pc = "off" => msgs = 0 /\ sig = {}
    /\ srv_pc \in {"off", "wait", "delete"} => got = {}
    /\ srv_pc = "msg" => "driver" \notin got
    /\ srv_pc = "shutdown" => "msg" \notin got

ReadyTight == Orderly => msgio_ready = Users

Inv == /\ OneCall /\ (\A c \in Clients : EntryOK(c) /\ MsgOK(c))
       /\ PortOK /\ LibControl /\ ServerControl /\ ReadyTight /\ MessageOnce /\ ServerAwake

\* The invariant as the one task in the library sees it.
OnceOK(c) == Orderly => msgs + replies = One(Waits(c))
Local(c) ==
    /\ EntryOK(c) /\ MsgOK(c) /\ PortOK /\ LibControl /\ ServerControl
    /\ ReadyTight /\ OnceOK(c) /\ ServerAwake

LocalOrAll ==
    CountInv => \A c \in Clients :
        Alone(c) => /\ (Inv <=> Local(c))
                    /\ msgs + replies <= One(Waits(c))

LEMMA InvLocal == LocalOrAll
<1> SUFFICES ASSUME CountInv, NEW c \in Clients, Alone(c)
             PROVE  (Inv <=> Local(c)) /\ msgs + replies <= One(Waits(c))
  BY DEF LocalOrAll
<1>1. OneCall
  BY DEF Alone, OneCall
<1>2. ASSUME NEW d \in Clients \ {c} PROVE EntryOK(d) /\ MsgOK(d)
  BY DEF Alone, EntryOK, MsgOK
<1>3. Cardinality(InXfer) = One(Waits(c)) /\ One(Waits(c)) \in 0..1
  <2>1. CASE Waits(c)
    <3>1. InXfer = {c}
      BY <2>1 DEF InXfer, Waits, Alone
    <3>2. Cardinality({c}) = 1
      BY FS_Singleton
    <3>3. One(Waits(c)) = 1
      BY <2>1 DEF One
    <3> QED  BY <3>1, <3>2, <3>3
  <2>2. CASE ~Waits(c)
    <3>1. InXfer = {}
      BY <2>2 DEF InXfer, Waits, Alone
    <3> QED  BY <2>2, <3>1, FS_EmptySet DEF One
  <2> QED  BY <2>1, <2>2
<1>4. msgs + replies <= One(Waits(c)) /\ msgs + replies <= 1
  <2>1. msgs \in Nat /\ replies \in Nat /\ msgs + replies <= Cardinality(InXfer)
    BY DEF CountInv, TypeOK, OnlyAwaited
  <2> QED  BY <1>3, <2>1
<1>5. MessageOnce <=> OnceOK(c)
  BY <1>3, <1>4 DEF MessageOnce, OnceOK, OnlyAwaited
<1> QED  BY <1>1, <1>2, <1>4, <1>5 DEF Inv, Local

LEMMA InvLocalNext == LocalOrAll'
BY InvLocal, PTL

\* While the library runs orderly nobody uses it beside a stopping server, and
\* what has happened is not forgotten.
OrderlyIsSafe == Orderly /\ Stopping => Unused

LEMMA OrderlySafe == OrderlyIsSafe
BY DEF OrderlyIsSafe, Orderly, Mishaps

LEMMA OrderlyBefore == mishaps' = Mishaps \/ UNCHANGED vars => (Orderly' => Orderly)
<1>1. ASSUME mishaps' = Mishaps, Orderly' PROVE Orderly
  BY <1>1 DEF Orderly, Mishaps
<1>2. ASSUME UNCHANGED vars, Orderly' PROVE Orderly
  BY <1>2 DEF vars, libVars, clientVars, srvVars, Orderly, Mishaps, Stopping, Unused
<1> QED  BY <1>1, <1>2

-----------------------------------------------------------------------------
(* The steps of the one task in the library.                               *)

\* What a step of the task c starts from, and how it moves the sums.
Step(c) ==
    /\ Local(c)
    /\ Orderly' => Orderly
    /\ msgs + replies <= One(Waits(c)) /\ msgs' + replies' <= One(Waits(c))'
    /\ msgs \in Nat /\ replies \in Nat /\ msgio_ready \in Nat
    /\ msgs' \in Nat /\ replies' \in Nat /\ msgio_ready' \in Nat
    /\ pc \in [Clients -> Places] /\ pc[c] \in Places
    /\ command \in [Clients -> 0..10] /\ open \in [Clients -> 0..MaxOpen]
    /\ open[c] \in Nat /\ open'[c] \in Nat
    /\ CommandOK(c) /\ OthersKept(c) /\ UNCHANGED srvVars
    /\ Users \in Nat /\ Users' \in Nat /\ Users' = Users + Share(c)' - Share(c)
    /\ Share(c) \in Nat /\ Share(c)' \in Nat
    /\ Users # 0 => InUse

LEMMA StepOf ==
    ASSUME CountInv, CountInv', Inv, OneCall', NEW c \in Clients, ClientStep(c)
    PROVE  Step(c) /\ Alone(c)'
<1>1. TypesKept /\ TypesKept' /\ PlacesOK /\ PlacesOK'
  <2>1. TypesKept /\ TypesKept'
    BY TypesNamed, TypesNamedNext DEF CountInv
  <2> QED  BY <2>1 DEF CountInv, PlacesOK, TypesKept
<1>2. /\ OthersKept(c) /\ mishaps' = Mishaps /\ UNCHANGED srvVars
      /\ open'[c] \in {open[c] - 1, open[c], open[c] + 1}
  BY <1>1, ClientMoves
<1>3. /\ Users \in Nat /\ Users' \in Nat /\ Users' = Users + Share(c)' - Share(c)
      /\ Share(c) \in Nat /\ Share(c)' \in Nat
  BY <1>1, <1>2, ShareMoves DEF CountInv
<1>4. Alone(c)
  <2>1. CASE pc[c] # "idle"
    BY <2>1 DEF Inv, OneCall
  <2>2. CASE pc[c] = "idle"
    <3>1. Call(c)
      BY <2>2 DEF ClientStep, MsgioInit, Xfer, Finish, InitReady, FindPort, CreateReplyPort,
            AllocMsg, FillMsg, PutMsg, GetReply, WaitPort, WakeUp, CheckResult, msgio_shutdown
    <3>2. pc'[c] # "idle"
      BY <1>1, <3>1 DEF Call, lib_socket, lib_command, Goto, PlacesOK
    <3>3. Alone(c)'
      BY <3>2 DEF OneCall
    <3> QED  BY <1>2, <3>3 DEF Alone, OthersKept
  <2> QED  BY <2>1, <2>2
<1>5. Alone(c)'
  BY <1>2, <1>4 DEF Alone, OthersKept
<1>6. Local(c) /\ msgs + replies <= One(Waits(c)) /\ msgs' + replies' <= One(Waits(c))'
  BY <1>4, <1>5, InvLocal, InvLocalNext DEF LocalOrAll
<1>7. Orderly' => Orderly
  BY <1>2, OrderlyBefore
<1>8. /\ msgs \in Nat /\ replies \in Nat /\ msgio_ready \in Nat
      /\ msgs' \in Nat /\ replies' \in Nat /\ msgio_ready' \in Nat
      /\ pc \in [Clients -> Places] /\ pc[c] \in Places
      /\ command \in [Clients -> 0..10] /\ open \in [Clients -> 0..MaxOpen]
      /\ open[c] \in Nat /\ open'[c] \in Nat /\ CommandOK(c)
  BY <1>1, SockAssumption DEF TypesKept, PlacesOK
<1>9. Users # 0 => InUse
  <2> SUFFICES ASSUME ~InUse PROVE Users = 0
    OBVIOUS
  <2>1. \A d \in Clients : pc[d] \in {"idle", "init"} /\ ~(open[d] > 0)
    BY DEF InUse
  <2>2. Opening = {}
    BY <2>1 DEF Opening
  <2>3. Sockets = {}
    <3> SUFFICES ASSUME NEW d \in Clients, NEW i \in 1..MaxOpen, i <= open[d] PROVE FALSE
      BY DEF Sockets
    <3>1. open[d] \in 0..MaxOpen /\ MaxOpen \in Nat
      BY <1>1, SockAssumption DEF PlacesOK
    <3> QED  BY <2>1, <3>1
  <2> QED  BY <2>2, <2>3, FS_EmptySet DEF Users
<1> QED  BY <1>2, <1>3, <1>5, <1>6, <1>7, <1>8, <1>9 DEF Step

\* lib_socket and lib_command leave the library, the message and the server
\* alone.
LEMMA CallStep == ASSUME NEW c \in Clients, Step(c), Call(c) PROVE Local(c)'
<1>1. /\ pc[c] = "idle" /\ pc'[c] \in {"init", "fill"}
      /\ UNCHANGED <<port, msg, msgio_ready, open, sig, msgs, replies, srvVars>>
      /\ pc'[c] = "fill" => command'[c] # MSG_CMD_CREATE_SOCKET /\ open[c] > 0
  <2>1. CASE lib_socket(c)
    BY <2>1 DEF lib_socket, MayCall, Goto, libVars, boxVars, Step
  <2>2. CASE lib_command(c)
    <3>1. PICK cmd \in Commands \cup {MSG_CMD_CLOSE_SOCKET} :
             command' = [command EXCEPT ![c] = cmd]
      BY <2>2 DEF lib_command
    <3>2. cmd # MSG_CMD_CREATE_SOCKET
      BY SockAssumption DEF MSG_CMD_CREATE_SOCKET, MSG_CMD_CLOSE_SOCKET
    <3>3. command'[c] = cmd
      BY <3>1 DEF Step
    <3> QED  BY <2>2, <3>1, <3>2, <3>3 DEF lib_command, MayCall, Goto, libVars, boxVars, Step
  <2> QED  BY <2>1, <2>2 DEF Call
<1>2. One(Waits(c)) = 0 /\ One(Waits(c))' = 0 /\ Share(c)' = Share(c)
  BY <1>1 DEF One, Waits, Share, Adding, InCall
<1>3. msgs = 0 /\ replies = 0 /\ msgs' = 0 /\ replies' = 0
  BY <1>1, <1>2 DEF Step
<1>4. EntryOK(c)' /\ MsgOK(c)'
  BY <1>1 DEF EntryOK, MsgOK
<1>5. PortOK'
  <2>1. InUse' => InUse
    BY <1>1 DEF InUse, Step, OthersKept
  <2> QED  BY <1>1, <2>1 DEF PortOK, Step, Local, srvVars
<1>6. LibControl' /\ ServerControl' /\ ServerAwake'
  BY <1>1 DEF LibControl, ServerControl, ServerAwake, Step, Local, srvVars
<1>7. ReadyTight' /\ OnceOK(c)'
  BY <1>1, <1>2, <1>3 DEF ReadyTight, OnceOK, Step, Local
<1> QED  BY <1>4, <1>5, <1>6, <1>7 DEF Local

\* The other tasks find the library initialised.
LEMMA InitReadyStep == ASSUME NEW c \in Clients, Step(c), InitReady(c) PROVE Local(c)'
<1>1. /\ pc[c] = "init" /\ pc'[c] = "fill" /\ msgio_ready > 0 /\ msgio_ready' = msgio_ready + 1
      /\ UNCHANGED <<port, msg, command, open, sig, msgs, replies, srvVars>>
  BY DEF InitReady, Goto, Counted, boxVars, Step
<1>2. command[c] = MSG_CMD_CREATE_SOCKET
  BY <1>1 DEF Step, CommandOK, Entered
<1>3. One(Waits(c)) = 0 /\ One(Waits(c))' = 0 /\ Share(c) = open[c] /\ Share(c)' = open[c] + 1
  BY <1>1, <1>2 DEF One, Waits, Share, Adding, InCall, Step
<1>4. msgs = 0 /\ replies = 0
  BY <1>3 DEF Step
<1>5. EntryOK(c)' /\ MsgOK(c)'
  BY <1>1 DEF EntryOK, MsgOK
<1>6. ReadyTight' /\ OnceOK(c)'
  BY <1>1, <1>3, <1>4 DEF ReadyTight, OnceOK, Step, Local
<1>7. PortOK'
  <2>1. Orderly => InUse
    <3>1. Orderly => Users # 0
      BY <1>1 DEF ReadyTight, Step, Local
    <3> QED  BY <3>1 DEF Step
  <2> QED  BY <1>1, <2>1 DEF PortOK, Step, Local, srvVars
<1>8. LibControl' /\ ServerControl' /\ ServerAwake'
  BY <1>1 DEF LibControl, ServerControl, ServerAwake, Step, Local, srvVars
<1> QED  BY <1>5, <1>6, <1>7, <1>8 DEF Local

\* The first one looks for the server.
LEMMA FindPortStep == ASSUME NEW c \in Clients, Step(c), FindPort(c) PROVE Local(c)'
<1>1. /\ pc[c] = "init" /\ msgio_ready <= 0 /\ port' = srv_port
      /\ pc'[c] = IF srv_port = NULL THEN "idle" ELSE "create_port"
      /\ UNCHANGED <<msg, msgio_ready, command, open, sig, msgs, replies, srvVars>>
  BY DEF FindPort, Goto, Found, boxVars, Step
<1>2. msgio_ready = 0 /\ msgio_ready' = 0 /\ srv_port' = srv_port
  BY <1>1 DEF Step, srvVars
<1>3. One(Waits(c)) = 0 /\ One(Waits(c))' = 0 /\ Share(c)' = Share(c)
  BY <1>1 DEF One, Waits, Share, Adding, InCall
<1>4. msgs = 0 /\ replies = 0
  BY <1>3 DEF Step
<1>5. EntryOK(c)' /\ MsgOK(c)'
  BY <1>1, <1>2 DEF EntryOK, MsgOK
<1>6. PortOK'
  <2>1. InUse' => InUse \/ srv_port # NULL
    BY <1>1 DEF InUse, Step, OthersKept
  <2> QED  BY <1>1, <1>2, <2>1 DEF PortOK, Step, Local
<1>7. LibControl' /\ ServerControl' /\ ServerAwake'
  BY <1>1, <1>2 DEF LibControl, ServerControl, ServerAwake, Step, Local, srvVars
<1>8. ReadyTight' /\ OnceOK(c)'
  BY <1>1, <1>3, <1>4 DEF ReadyTight, OnceOK, Step, Local
<1> QED  BY <1>5, <1>6, <1>7, <1>8 DEF Local

\* The reply port.  No reply is lost with it: none is on its way.
LEMMA CreateReplyPortStep ==
    ASSUME NEW c \in Clients, Step(c), CreateReplyPort(c)
    PROVE  Local(c)'
<1>1. /\ pc[c] = "create_port" /\ pc'[c] \in {"idle", "alloc"} /\ replies' = 0
      /\ UNCHANGED <<port, msg, msgio_ready, command, open, sig, msgs, srvVars>>
  BY DEF CreateReplyPort, Goto, Step
<1>2. One(Waits(c)) = 0 /\ One(Waits(c))' = 0 /\ Share(c)' = Share(c)
  BY <1>1 DEF One, Waits, Share, Adding, InCall
<1>3. msgs = 0 /\ replies = 0
  BY <1>2 DEF Step
<1>4. EntryOK(c)' /\ MsgOK(c)'
  BY <1>1 DEF EntryOK, MsgOK, Step, Local
<1>5. PortOK'
  <2>1. InUse
    BY <1>1 DEF InUse
  <2> QED  BY <1>1, <2>1 DEF PortOK, Step, Local, srvVars
<1>6. LibControl' /\ ServerControl' /\ ServerAwake'
  BY <1>1 DEF LibControl, ServerControl, ServerAwake, Step, Local, srvVars
<1>7. ReadyTight' /\ OnceOK(c)'
  BY <1>1, <1>2, <1>3 DEF ReadyTight, OnceOK, Step, Local
<1> QED  BY <1>4, <1>5, <1>6, <1>7 DEF Local

\* The message.
LEMMA AllocMsgStep == ASSUME NEW c \in Clients, Step(c), AllocMsg(c) PROVE Local(c)'
<1>1. /\ pc[c] = "alloc"
      /\ \/ pc'[c] = "fill" /\ msgio_ready' = msgio_ready + 1 /\ msg' = <<0, 0>>
         \/ pc'[c] = "idle" /\ msgio_ready' = msgio_ready /\ msg' = <<>>
      /\ UNCHANGED <<port, command, open, sig, msgs, replies, srvVars>>
  BY DEF AllocMsg, Goto, Counted, MSG_CMD_CREATE_SOCKET, MSG_RESULT_OK, boxVars, Step
<1>2. command[c] = MSG_CMD_CREATE_SOCKET /\ port # NULL /\ msgio_ready = 0
  BY <1>1 DEF Step, Local, CommandOK, Entered, EntryOK
<1>3. /\ One(Waits(c)) = 0 /\ One(Waits(c))' = 0
      /\ Share(c) = open[c] /\ Share(c)' = open[c] + One(pc'[c] = "fill")
  BY <1>1, <1>2 DEF One, Waits, Share, Adding, InCall, Step
<1>4. msgs = 0 /\ replies = 0
  BY <1>3 DEF Step
<1>5. EntryOK(c)' /\ MsgOK(c)'
  BY <1>1 DEF EntryOK, MsgOK
<1>6. PortOK'
  <2>1. InUse
    BY <1>1 DEF InUse
  <2> QED  BY <1>1, <2>1 DEF PortOK, Step, Local, srvVars
<1>7. LibControl'
  BY <1>1, <1>2, Tuples DEF LibControl
<1>8. ServerControl' /\ ServerAwake'
  BY <1>1 DEF ServerControl, ServerAwake, Step, Local, srvVars
<1>9. ReadyTight' /\ OnceOK(c)'
  BY <1>1, <1>3, <1>4 DEF ReadyTight, OnceOK, One, Step, Local
<1> QED  BY <1>5, <1>6, <1>7, <1>8, <1>9 DEF Local

\* The callers fill in the command.
LEMMA FillMsgStep == ASSUME NEW c \in Clients, Step(c), FillMsg(c) PROVE Local(c)'
<1>1. /\ pc[c] = "fill" /\ pc'[c] = "put" /\ msg # <<>>
      /\ msg' = <<command[c], MSG_RESULT_OK>>
      /\ UNCHANGED <<port, msgio_ready, command, open, sig, msgs, replies, srvVars>>
  BY DEF FillMsg, Goto, Filled, boxVars, Step
<1>2. One(Waits(c)) = 0 /\ One(Waits(c))' = 0 /\ Share(c)' = Share(c)
  BY <1>1 DEF One, Waits, Share, Adding, InCall
<1>3. msgs = 0 /\ replies = 0
  BY <1>2 DEF Step
<1>4. EntryOK(c)' /\ MsgOK(c)'
  BY <1>1 DEF EntryOK, MsgOK
<1>5. PortOK'
  <2>1. InUse
    BY <1>1 DEF InUse
  <2> QED  BY <1>1, <2>1 DEF PortOK, Step, Local, srvVars
<1>6. LibControl'
  <2>1. msg' # <<>> /\ msgio_ready # 0
    BY <1>1, Tuples DEF LibControl, Step, Local
  <2> QED  BY <1>1, <2>1 DEF LibControl, Step, Local
<1>7. ServerControl' /\ ServerAwake'
  BY <1>1 DEF ServerControl, ServerAwake, Step, Local, srvVars
<1>8. ReadyTight' /\ OnceOK(c)'
  BY <1>1, <1>2, <1>3 DEF ReadyTight, OnceOK, Step, Local
<1> QED  BY <1>4, <1>5, <1>6, <1>7, <1>8 DEF Local

\* The message is put to the server's port, or lost with it.
LEMMA PutMsgStep == ASSUME NEW c \in Clients, Step(c), PutMsg(c) PROVE Local(c)'
<1>1. /\ pc[c] = "put"
      /\ IF msgio_ready # 0 /\ port = srv_port
         THEN msgs' = msgs + 1 /\ sig' = sig \cup {"msg"}
         ELSE UNCHANGED <<msgs, sig>>
      /\ pc'[c] = IF msgio_ready = 0 THEN "result" ELSE "get"
      /\ UNCHANGED <<port, msg, msgio_ready, command, open, replies, srvVars>>
  BY DEF PutMsg, Goto, libVars, Step
<1>2. /\ msg = <<command[c], MSG_RESULT_OK>>
      /\ msgio_ready # 0 /\ port # NULL
  <2>1. msg = <<command[c], MSG_RESULT_OK>>
    BY <1>1 DEF MsgOK, Step, Local
  <2>2. msg # <<>>
    BY <2>1, Tuples
  <2> QED  BY <2>1, <2>2 DEF LibControl, Step, Local
<1>3. One(Waits(c)) = 0 /\ One(Waits(c))' = 1 /\ Share(c)' = Share(c)
  BY <1>1, <1>2 DEF One, Waits, Share, Adding, InCall
<1>4. /\ msgs = 0 /\ replies = 0 /\ replies' = 0
      /\ msgs' = IF port = srv_port THEN 1 ELSE 0
  BY <1>1, <1>2, <1>3 DEF Step
<1>5. Orderly => port = srv_port
  <2>1. InUse
    BY <1>1 DEF InUse
  <2> QED  BY <2>1 DEF PortOK, Step, Local
<1>6. EntryOK(c)'
  BY <1>1, <1>2 DEF EntryOK
<1>7. MsgOK(c)'
  BY <1>1, <1>2, <1>4 DEF MsgOK
<1>8. PortOK'
  <2>1. InUse
    BY <1>1 DEF InUse
  <2> QED  BY <1>1, <2>1 DEF PortOK, Step, Local, srvVars
<1>9. LibControl' /\ ServerControl' /\ ServerAwake'
  <2>1. LibControl'
    BY <1>1 DEF LibControl, Step, Local
  <2>2. CASE port = srv_port
    <3>1. "msg" \in sig' /\ srv_pc # "off"
      BY <1>1, <1>2, <2>2 DEF ServerControl, Step, Local
    <3> QED  BY <1>1, <2>1, <3>1 DEF ServerControl, ServerAwake, Step, Local, srvVars
  <2>3. CASE port # srv_port
    BY <1>1, <2>1, <2>3 DEF ServerControl, ServerAwake, Step, Local, srvVars
  <2> QED  BY <2>2, <2>3
<1>10. ReadyTight' /\ OnceOK(c)'
  BY <1>1, <1>3, <1>4, <1>5 DEF ReadyTight, OnceOK, Step, Local
<1> QED  BY <1>6, <1>7, <1>8, <1>9, <1>10 DEF Local

\* The reply is taken out of the reply port.
LEMMA GetReplyStep == ASSUME NEW c \in Clients, Step(c), GetReply(c) PROVE Local(c)'
<1>1. /\ pc[c] = "get" /\ pc'[c] = "result" /\ replies > 0 /\ replies' = replies - 1
      /\ UNCHANGED <<port, msg, msgio_ready, command, open, sig, msgs, srvVars>>
  BY DEF GetReply, Goto, Left, libVars, Step
<1>2. One(Waits(c)) = 1 /\ One(Waits(c))' = 0 /\ Share(c)' = Share(c)
  BY <1>1 DEF One, Waits, Share, Adding, InCall
<1>3. msgs = 0 /\ msgs' = 0 /\ replies' = 0
  BY <1>1, <1>2 DEF Step
<1>4. EntryOK(c)'
  BY <1>1 DEF EntryOK
<1>5. MsgOK(c)'
  <2>1. /\ msg = Answered(c) \/ msg = Rejected(c)
        /\ Orderly => msg = Answered(c)
    BY <1>1 DEF MsgOK, Step, Local
  <2>2. Answered(c)' = Answered(c) /\ Rejected(c)' = Rejected(c)
    BY <1>1 DEF Answered, Rejected
  <2> QED  BY <1>1, <2>1, <2>2 DEF MsgOK, Step
<1>6. PortOK'
  <2>1. InUse
    BY <1>1 DEF InUse
  <2> QED  BY <1>1, <2>1 DEF PortOK, Step, Local, srvVars
<1>7. LibControl' /\ ServerControl' /\ ServerAwake'
  BY <1>1 DEF LibControl, ServerControl, ServerAwake, Step, Local, srvVars
<1>8. ReadyTight' /\ OnceOK(c)'
  BY <1>1, <1>2, <1>3 DEF ReadyTight, OnceOK, Step, Local
<1> QED  BY <1>4, <1>5, <1>6, <1>7, <1>8 DEF Local

\* WaitPort sleeps and wakes up.
LEMMA SleepStep ==
    ASSUME NEW c \in Clients, Step(c), WaitPort(c) \/ WakeUp(c)
    PROVE  Local(c)'
<1>1. /\ pc[c] \in {"get", "sleep"} /\ pc'[c] \in {"get", "sleep"}
      /\ UNCHANGED <<port, msg, msgio_ready, command, open, sig, msgs, replies, srvVars>>
  BY DEF WaitPort, WakeUp, Goto, libVars, boxVars, Step
<1>2. One(Waits(c)) = 1 /\ One(Waits(c))' = 1 /\ Share(c)' = Share(c)
  BY <1>1 DEF One, Waits, Share, Adding, InCall
<1>3. EntryOK(c)'
  BY <1>1 DEF EntryOK
<1>4. MsgOK(c)'
  <2>1. Answered(c)' = Answered(c) /\ Rejected(c)' = Rejected(c)
    BY <1>1 DEF Answered, Rejected
  <2> QED  BY <1>1, <2>1 DEF MsgOK, Step, Local
<1>5. PortOK'
  <2>1. InUse
    BY <1>1 DEF InUse
  <2> QED  BY <1>1, <2>1 DEF PortOK, Step, Local, srvVars
<1>6. LibControl' /\ ServerControl' /\ ServerAwake'
  BY <1>1 DEF LibControl, ServerControl, ServerAwake, Step, Local, srvVars
<1>7. ReadyTight' /\ OnceOK(c)'
  BY <1>1, <1>2 DEF ReadyTight, OnceOK, Step, Local
<1> QED  BY <1>3, <1>4, <1>5, <1>6, <1>7 DEF Local

\* The result is looked at.  While the server runs, socket() succeeds.
LEMMA CheckResultStep == ASSUME NEW c \in Clients, Step(c), CheckResult(c) PROVE Local(c)'
<1> DEFINE creates == command[c] = MSG_CMD_CREATE_SOCKET
<1>1. /\ pc[c] = "result" /\ pc'[c] \in {"idle", "shutdown"}
      /\ open' = IF creates /\ Succeeded THEN [open EXCEPT ![c] = @ + 1] ELSE open
      /\ UNCHANGED <<port, msg, msgio_ready, command, sig, msgs, replies, srvVars>>
  BY DEF CheckResult, Goto, libVars, boxVars, Step
<1>2. Orderly /\ creates => Succeeded
  <2> SUFFICES ASSUME Orderly, creates PROVE Succeeded
    OBVIOUS
  <2>1. msg = <<command[c], command[c]>>
    BY <1>1 DEF MsgOK, Answered, Step, Local
  <2> QED  BY <2>1, Tuples DEF Succeeded, MSG_CMD_CREATE_SOCKET, MSG_RESULT_OK
<1>3. /\ One(Waits(c)) = 0 /\ One(Waits(c))' = 0
      /\ Share(c) = open[c] + One(creates) /\ Share(c)' = open'[c]
  <2>1. (Adding(c) <=> creates) /\ ~Adding(c)' /\ ~Waits(c) /\ ~Waits(c)'
    BY <1>1 DEF Adding, InCall, Waits
  <2>2. /\ One(Adding(c)) = One(creates) /\ One(Adding(c))' = 0
        /\ One(Waits(c)) = 0 /\ One(Waits(c))' = 0
    BY <2>1 DEF One
  <2>3. open[c] \in Nat /\ open'[c] \in Nat
    BY DEF Step
  <2>4. Share(c) = open[c] + One(Adding(c)) /\ Share(c)' = open'[c] + One(Adding(c))'
    BY DEF Share
  <2> QED  BY <2>2, <2>3, <2>4
<1>4. msgs = 0 /\ replies = 0
  BY <1>3 DEF Step
<1>5. EntryOK(c)' /\ MsgOK(c)'
  BY <1>1 DEF EntryOK, MsgOK
<1>6. PortOK'
  <2>1. InUse
    BY <1>1 DEF InUse
  <2> QED  BY <1>1, <2>1 DEF PortOK, Step, Local, srvVars
<1>7. LibControl' /\ ServerControl' /\ ServerAwake'
  BY <1>1 DEF LibControl, ServerControl, ServerAwake, Step, Local, srvVars
<1>8. Orderly => Share(c)' = Share(c)
  <2> SUFFICES ASSUME Orderly PROVE Share(c)' = Share(c)
    OBVIOUS
  <2>1. CASE creates
    <3>1. open' = [open EXCEPT ![c] = open[c] + 1]
      BY <1>1, <1>2, <2>1
    <3>2. open'[c] = open[c] + 1
      BY <3>1 DEF Step
    <3>3. One(creates) = 1
      BY <2>1 DEF One
    <3> QED  BY <1>3, <3>2, <3>3
  <2>2. CASE ~creates
    BY <1>1, <1>3, <2>2 DEF One, Step
  <2> QED  BY <2>1, <2>2
<1>9. ReadyTight' /\ OnceOK(c)'
  BY <1>1, <1>3, <1>4, <1>8 DEF ReadyTight, OnceOK, Step, Local
<1> QED  BY <1>5, <1>6, <1>7, <1>9 DEF Local

\* CloseSocket gives up its share of the library.
LEMMA ShutdownStep == ASSUME NEW c \in Clients, Step(c), msgio_shutdown(c) PROVE Local(c)'
<1>1. /\ pc[c] = "shutdown" /\ pc'[c] = "idle"
      /\ open' = [open EXCEPT ![c] = @ - 1]
      /\ msgio_ready' = msgio_ready - 1
      /\ IF msgio_ready' <= 0 THEN msg' = <<>> ELSE UNCHANGED msg
      /\ UNCHANGED <<port, command, sig, msgs, srvVars>>
  BY DEF msgio_shutdown, Goto, LastUser, Step
<1>2. open'[c] = open[c] - 1
  BY <1>1 DEF Step
<1>3. /\ One(Waits(c)) = 0 /\ One(Waits(c))' = 0
      /\ Share(c) = open[c] /\ Share(c)' = open[c] - 1
  <2>1. ~Adding(c) /\ ~Adding(c)' /\ ~Waits(c) /\ ~Waits(c)'
    BY <1>1 DEF Adding, InCall, Waits
  <2>2. /\ One(Adding(c)) = 0 /\ One(Adding(c))' = 0
        /\ One(Waits(c)) = 0 /\ One(Waits(c))' = 0
    BY <2>1 DEF One
  <2>3. open[c] \in Nat /\ open'[c] \in Nat
    BY DEF Step
  <2>4. Share(c) = open[c] + One(Adding(c)) /\ Share(c)' = open'[c] + One(Adding(c))'
    BY DEF Share
  <2> QED  BY <1>2, <2>2, <2>3, <2>4
<1>4. msgs = 0 /\ replies = 0 /\ msgs' = 0 /\ replies' = 0
  <2>1. /\ msgs \in Nat /\ replies \in Nat /\ msgs + replies <= 0
        /\ msgs' \in Nat /\ replies' \in Nat /\ msgs' + replies' <= 0
    BY <1>3 DEF Step
  <2>2. ASSUME NEW i \in Nat, NEW j \in Nat, i + j <= 0 PROVE i = 0 /\ j = 0
    BY <2>2
  <2> QED  BY <2>1, <2>2
<1>5. EntryOK(c)' /\ MsgOK(c)'
  BY <1>1 DEF EntryOK, MsgOK
<1>6. PortOK'
  <2>1. InUse
    BY <1>1 DEF InUse
  <2> QED  BY <1>1, <2>1 DEF PortOK, Step, Local, srvVars
<1>7. LibControl'
  <2>1. msgio_ready # 0
    BY <1>1 DEF Step
  <2>2. msg # <<>> /\ port # NULL
    BY <2>1 DEF LibControl, Step, Local
  <2>3. msgio_ready' <= 0 <=> msgio_ready' = 0
    BY DEF Step
  <2> QED  BY <1>1, <2>2, <2>3 DEF LibControl
<1>8. ServerControl' /\ ServerAwake'
  BY <1>1 DEF ServerControl, ServerAwake, Step, Local, srvVars
<1>9. ReadyTight' /\ OnceOK(c)'
  BY <1>1, <1>3, <1>4 DEF ReadyTight, OnceOK, Step, Local
<1> QED  BY <1>5, <1>6, <1>7, <1>8, <1>9 DEF Local

LEMMA ClientNext ==
    ASSUME CountInv, CountInv', Inv, OneCall', NEW c \in Clients, ClientStep(c)
    PROVE  Inv'
<1>1. Step(c) /\ Alone(c)'
  BY StepOf
<1>2. Local(c)'
  <2>1. CASE Call(c)
    BY <1>1, <2>1, CallStep
  <2>2. CASE MsgioInit(c)
    BY <1>1, <2>2, InitReadyStep, FindPortStep, CreateReplyPortStep, AllocMsgStep DEF MsgioInit
  <2>3. CASE Xfer(c)
    BY <1>1, <2>3, FillMsgStep, PutMsgStep, GetReplyStep, SleepStep DEF Xfer
  <2>4. CASE Finish(c)
    BY <1>1, <2>4, CheckResultStep, ShutdownStep DEF Finish
  <2> QED  BY <2>1, <2>2, <2>3, <2>4 DEF ClientStep
<1> QED  BY <1>1, <1>2, InvLocalNext DEF LocalOrAll

-----------------------------------------------------------------------------
(* The steps of the server while one task is in the library.               *)

\* Without a message at its port the server does not touch the messages.
LEMMA ServerQuiet ==
    ASSUME TypeOK, ServerStep, msgs = 0
    PROVE  UNCHANGED <<msg, msgs, replies>>
<1>1. replies \in Nat
  BY DEF TypeOK
<1>2. CASE SrvReject
  <2>1. replies' = replies + msgs /\ msgs' = 0
    BY <1>2 DEF SrvReject, Reply
  <2>2. msg' = msg
    BY <1>2 DEF SrvReject
  <2> QED  BY <1>1, <2>1, <2>2
<1>3. CASE SrvMsg
  BY <1>3 DEF SrvMsg, boxVars
<1>4. CASE SrvStart \/ SrvWait \/ SrvDriver \/ SrvDelete
  BY <1>4 DEF SrvStart, SrvWait, SrvDriver, SrvDelete, libVars, boxVars
<1>5. CASE \E s \in {"driver", "break"} : Environment(s)
  BY <1>5 DEF Environment, libVars, boxVars
<1> QED  BY <1>2, <1>3, <1>4, <1>5 DEF ServerStep, Server

\* The one that waits for a message at the server's port.
LEMMA Waiting ==
    ASSUME CountInv, Inv, msgs > 0
    PROVE  /\ msgs = 1 /\ replies = 0 /\ Cardinality(InXfer) = 1
           /\ \E c \in Clients : pc[c] \in {"get", "sleep"} /\ Alone(c) /\ Local(c)
<1>1. msgs \in Nat /\ replies \in Nat
  BY DEF CountInv, TypeOK
<1>2. msgs + replies <= 1 /\ msgs + replies <= Cardinality(InXfer)
  BY DEF Inv, MessageOnce, OnlyAwaited
<1>3. msgs = 1 /\ replies = 0
  BY <1>1, <1>2
<1>4. InXfer # {}
  <2> SUFFICES ASSUME InXfer = {} PROVE FALSE
    OBVIOUS
  <2>1. Cardinality(InXfer) = 0
    BY FS_EmptySet
  <2> QED  BY <1>1, <1>2, <1>3, <2>1
<1>5. PICK c \in Clients : pc[c] \in {"get", "sleep"}
  BY <1>4 DEF InXfer
<1>6. Alone(c)
  BY <1>5 DEF Inv, OneCall
<1>7. Local(c)
  BY <1>6, InvLocal DEF LocalOrAll
<1>8. InXfer = {c}
  BY <1>5, <1>6 DEF InXfer, Alone
<1>9. Cardinality(InXfer) = 1
  BY <1>8, FS_Singleton
<1> QED  BY <1>3, <1>5, <1>6, <1>7, <1>9

\* main_loop on its way to the message, and what a stopped server leaves.
LEMMA ServerPlace == ASSUME CountInv, Inv, ServerStep PROVE ServerControl' /\ ServerAwake'
<1>1. /\ ServerControl /\ ServerAwake /\ (msgs > 0 => msgs = 1)
      /\ got \subseteq {"driver", "msg", "break"} /\ sig \subseteq {"driver", "msg", "break"}
      /\ msgs \in Nat /\ starts \in Nat
  BY Waiting, SockAssumption DEF CountInv, Inv, TypeOK
<1>2. CASE SrvStart
  <2>1. /\ srv_pc = "off" /\ srv_pc' = "wait" /\ srv_port' = starts + 1 /\ sig' = {}
        /\ UNCHANGED <<got, msgs>>
    BY <1>2 DEF SrvStart, SrvGoto, boxVars
  <2>2. srv_port' # NULL /\ got = {} /\ msgs = 0
    BY <1>1, <2>1 DEF ServerControl, NULL
  <2> QED  BY <1>1, <2>1, <2>2 DEF ServerControl, ServerAwake
<1>3. CASE SrvWait
  BY <1>1, <1>3 DEF SrvWait, SrvGoto, boxVars, ServerControl, ServerAwake
<1>4. CASE SrvDriver
  BY <1>1, <1>4 DEF SrvDriver, SrvGoto, AfterDriver, boxVars, ServerControl, ServerAwake
<1>5. CASE SrvMsg
  <2>1. /\ srv_pc = "msg" /\ got' = got \ {"msg"} /\ UNCHANGED <<srv_port, sig>>
        /\ srv_pc' = IF "break" \in got THEN "shutdown" ELSE "wait"
    BY <1>5 DEF SrvMsg, SrvGoto
  <2>2. ServerControl'
    BY <1>1, <2>1 DEF ServerControl
  <2>3. CASE "msg" \in got /\ msgs > 0
    <3>1. msgs' = msgs - 1
      BY <1>5, <2>3 DEF SrvMsg
    <3>2. ~(msgs' > 0)
      BY <1>1, <2>3, <3>1
    <3> QED  BY <2>2, <3>2 DEF ServerAwake
  <2>4. CASE "msg" \notin got \/ ~(msgs > 0)
    <3>1. msgs' = msgs
      BY <1>5, <2>4 DEF SrvMsg, boxVars
    <3> QED  BY <1>1, <2>1, <2>2, <2>4, <3>1 DEF ServerAwake
  <2> QED  BY <2>3, <2>4
<1>6. CASE SrvReject
  BY <1>1, <1>6 DEF SrvReject, SrvGoto, ServerControl, ServerAwake
<1>7. CASE SrvDelete
  BY <1>1, <1>7 DEF SrvDelete, SrvGoto, ServerControl, ServerAwake
<1>8. CASE \E s \in {"driver", "break"} : Environment(s)
  BY <1>1, <1>8 DEF Environment, srvVars, boxVars, ServerControl, ServerAwake
<1> QED  BY <1>2, <1>3, <1>4, <1>5, <1>6, <1>7, <1>8 DEF ServerStep, Server

\* While the library runs orderly the server does not go away under its users.
LEMMA ServerPort == ASSUME Inv, ServerStep PROVE PortOK'
<1>1. /\ UNCHANGED <<port, InUse>> /\ (Orderly' => Orderly)
      /\ InUse => ~Unused
  <2>1. UNCHANGED <<port, pc, open>>
    BY ServerKeeps
  <2>2. Orderly' => Orderly
    BY ServerKeeps, OrderlyBefore
  <2>3. UNCHANGED InUse
    BY <2>1 DEF InUse
  <2>4. InUse => ~Unused
    BY DEF InUse, Unused
  <2> QED  BY <2>1, <2>2, <2>3, <2>4
<1> SUFFICES ASSUME Orderly', InUse PROVE port' = srv_port' /\ srv_port' # NULL
  BY <1>1 DEF PortOK
<1>2. port = srv_port /\ srv_port # NULL
  BY <1>1 DEF Inv, PortOK
<1>3. ~Stopping
  BY <1>1, OrderlySafe DEF OrderlyIsSafe
<1>4. ~SrvDelete /\ ~SrvStart
  BY <1>2, <1>3 DEF SrvDelete, SrvStart, Stopping, Inv, ServerControl
<1>5. srv_port' = srv_port
  BY <1>4 DEF ServerStep, Server, SrvWait, SrvDriver, SrvMsg, SrvReject, Environment, srvVars
<1> QED  BY <1>1, <1>2, <1>5

\* What becomes of the message: it is answered, rejected or lost, and it is
\* lost or rejected only by a server that stops under its users.
LEMMA ServerMsgs ==
    ASSUME CountInv, Inv, ServerStep
    PROVE  LibControl' /\ MessageOnce' /\ \A c \in Clients : MsgOK(c)'
<1>1. /\ UNCHANGED <<port, msgio_ready, pc, command>> /\ (Orderly' => Orderly)
      /\ msgs \in Nat /\ replies \in Nat /\ LibControl /\ MessageOnce
  BY ServerKeeps, OrderlyBefore DEF CountInv, Inv, TypeOK
<1>2. UNCHANGED InXfer
  BY <1>1 DEF InXfer
<1>3. CASE UNCHANGED <<msg, msgs, replies>>
  <2>1. ASSUME NEW c \in Clients PROVE MsgOK(c)'
    <3>1. MsgOK(c) /\ UNCHANGED <<Answered(c), Rejected(c)>>
      BY <1>1 DEF Inv, Answered, Rejected
    <3> QED  BY <1>1, <1>3, <3>1 DEF MsgOK
  <2>2. MessageOnce'
    BY <1>1, <1>2, <1>3 DEF MessageOnce, OnlyAwaited
  <2>3. LibControl'
    BY <1>1, <1>3 DEF LibControl
  <2> QED  BY <2>1, <2>2, <2>3
<1>4. CASE msgs > 0
  <2>1. PICK c \in Clients : pc[c] \in {"get", "sleep"} /\ Alone(c) /\ Local(c)
    BY <1>4, Waiting
  <2>2. msgs = 1 /\ replies = 0
    BY <1>4, Waiting
  <2>3. msg = <<command[c], MSG_RESULT_OK>> /\ msg # <<>>
    <3>1. msg = <<command[c], MSG_RESULT_OK>>
      BY <1>4, <2>1 DEF Local, MsgOK
    <3> QED  BY <3>1, Tuples
  <2>4. msg[1] = command[c]
    BY <2>3, Tuples
  <2>5. ASSUME NEW d \in Clients \ {c} PROVE MsgOK(d)'
    <3>1. pc'[d] = "idle"
      BY <1>1, <2>1 DEF Alone
    <3> QED  BY <3>1 DEF MsgOK
  <2>6. Stopping => ~Orderly'
    <3>1. ~Unused
      BY <2>1 DEF Unused
    <3> QED  BY <1>1, <3>1, OrderlySafe DEF OrderlyIsSafe
  <2>7. pc'[c] \in {"get", "sleep"} /\ command'[c] = command[c]
    BY <1>1, <2>1
  <2>8. CASE SrvMsg /\ "msg" \in got
    <3>1. msg' = Answered(c)' /\ msgs' = 0 /\ replies' = 1
      <4>1. msg' = <<msg[1], msg[1]>> /\ msgs' = msgs - 1 /\ replies' = replies + 1
        BY <1>4, <2>3, <2>8 DEF SrvMsg, Answer, Reply
      <4> QED  BY <2>2, <2>4, <2>7, <4>1 DEF Answered
    <3>2. MsgOK(c)'
      BY <2>7, <3>1 DEF MsgOK
    <3>3. MessageOnce'
      BY <1>1, <1>2, <2>2, <3>1 DEF MessageOnce, OnlyAwaited
    <3>4. LibControl'
      <4>1. msg' # <<>>
        BY <3>1, Tuples DEF Answered
      <4> QED  BY <1>1, <2>3, <4>1 DEF LibControl
    <3> QED  BY <2>5, <3>2, <3>3, <3>4
  <2>9. CASE SrvReject
    <3>1. /\ msg' = <<msg[1], MSG_RESULT_NO_SERVER>> /\ msgs' = 0 /\ replies' = replies + msgs
          /\ Stopping
      BY <1>4, <2>3, <2>9 DEF SrvReject, Reply, Stopping
    <3>2. msg' = Rejected(c)' /\ replies' = 1
      BY <2>2, <2>4, <2>7, <3>1 DEF Rejected
    <3>3. MsgOK(c)'
      BY <2>6, <2>7, <3>1, <3>2 DEF MsgOK
    <3>4. MessageOnce'
      BY <1>1, <1>2, <2>2, <3>1, <3>2 DEF MessageOnce, OnlyAwaited
    <3>5. LibControl'
      <4>1. msg' # <<>>
        BY <3>1, Tuples
      <4> QED  BY <1>1, <2>3, <4>1 DEF LibControl
    <3> QED  BY <2>5, <3>3, <3>4, <3>5
  <2>10. CASE SrvDelete
    <3>1. /\ msgs' = 0 /\ replies' = 0 /\ msg' = msg /\ Stopping
      BY <2>2, <2>10 DEF SrvDelete, Stopping, libVars
    <3>2. MsgOK(c)'
      BY <2>7, <3>1 DEF MsgOK
    <3>3. MessageOnce'
      <4>1. Cardinality(InXfer) = 1
        BY <1>4, <2>1, Waiting
      <4> QED  BY <1>1, <1>2, <2>2, <2>6, <3>1, <4>1 DEF MessageOnce, OnlyAwaited
    <3>4. LibControl'
      BY <1>1, <3>1 DEF LibControl
    <3> QED  BY <2>5, <3>2, <3>3, <3>4
  <2>11. CASE SrvMsg /\ "msg" \notin got
    BY <1>3, <2>11 DEF SrvMsg, boxVars
  <2>12. CASE SrvStart \/ SrvWait \/ SrvDriver
    BY <1>3, <2>12 DEF SrvStart, SrvWait, SrvDriver, libVars, boxVars
  <2>13. CASE \E s \in {"driver", "break"} : Environment(s)
    BY <1>3, <2>13 DEF Environment, libVars, boxVars
  <2> QED  BY <2>8, <2>9, <2>10, <2>11, <2>12, <2>13 DEF ServerStep, Server
<1>5. CASE msgs = 0
  BY <1>3, <1>5, ServerQuiet DEF CountInv
<1> QED  BY <1>1, <1>4, <1>5

LEMMA ServerNext == ASSUME CountInv, Inv, ServerStep PROVE Inv'
<1>1. /\ UNCHANGED <<port, msgio_ready, pc, command, open>>
      /\ (Orderly' => Orderly)
  BY ServerKeeps, OrderlyBefore
<1>2. OneCall'
  BY <1>1 DEF Inv, OneCall, Alone
<1>3. ASSUME NEW c \in Clients PROVE EntryOK(c)'
  BY <1>1 DEF Inv, EntryOK
<1>4. ReadyTight'
  <2>1. UNCHANGED Users
    BY <1>1 DEF Users, Sockets, Opening
  <2> QED  BY <1>1, <2>1 DEF Inv, ReadyTight
<1> QED  BY <1>2, <1>3, <1>4, ServerPlace, ServerPort, ServerMsgs DEF Inv

-----------------------------------------------------------------------------
(* What holds while no two calls overlap.                                  *)

LEMMA InvInit == Init => Inv
<1> SUFFICES ASSUME Init PROVE Inv
  OBVIOUS
<1>1. /\ OneCall /\ (\A c \in Clients : EntryOK(c) /\ MsgOK(c))
      /\ PortOK /\ LibControl /\ ServerControl /\ ServerAwake
  BY DEF Init, OneCall, Alone, EntryOK, MsgOK, InUse, PortOK, LibControl, ServerControl,
         ServerAwake
<1>2. Sockets = {} /\ Opening = {} /\ InXfer = {}
  BY DEF Init, Sockets, Opening, InXfer
<1>3. Cardinality({}) = 0
  BY FS_EmptySet
<1>4. ReadyTight /\ MessageOnce
  BY <1>2, <1>3 DEF Init, ReadyTight, MessageOnce, OnlyAwaited, Users
<1> QED  BY <1>1, <1>4 DEF Inv

LEMMA InvNext == CountInv /\ CountInv' /\ Inv /\ OneCall' /\ [Next]_vars => Inv'
<1> SUFFICES ASSUME CountInv, CountInv', Inv, OneCall', [Next]_vars PROVE Inv'
  OBVIOUS
<1>1. ASSUME NEW c \in Clients, Call(c) \/ MsgioInit(c) \/ Xfer(c) \/ Finish(c) PROVE Inv'
  BY <1>1, ClientNext DEF ClientStep
<1>2. ASSUME SrvStart \/ Server \/ \E s \in {"driver", "break"} : Environment(s) PROVE Inv'
  BY <1>2, ServerNext DEF ServerStep
<1>3. CASE UNCHANGED vars
  <2>1. UNCHANGED <<Users, InXfer, InUse>>
    BY <1>3 DEF vars, clientVars, Users, Sockets, Opening, InXfer, InUse
  <2>2. Orderly' => Orderly
    BY <1>3, OrderlyBefore
  <2>3. LibControl' /\ ServerControl' /\ ServerAwake'
    BY <1>3 DEF vars, libVars, srvVars, boxVars, Inv, LibControl, ServerControl, ServerAwake
  <2>4. PortOK' /\ ReadyTight' /\ MessageOnce'
    BY <1>3, <2>1, <2>2 DEF vars, libVars, srvVars, boxVars, Inv, PortOK, ReadyTight,
                            MessageOnce, OnlyAwaited
  <2>5. ASSUME NEW c \in Clients PROVE EntryOK(c)' /\ MsgOK(c)'
    <3>1. UNCHANGED <<pc, command, port, msgio_ready, msg, msgs, replies>>
      BY <1>3 DEF vars, libVars, clientVars, boxVars
    <3>2. EntryOK(c) /\ MsgOK(c)
      BY DEF Inv
    <3> QED  BY <2>2, <3>1, <3>2 DEF EntryOK, MsgOK, Answered, Rejected
  <2> QED  BY <2>3, <2>4, <2>5 DEF Inv
<1> QED  BY <1>1, <1>2, <1>3 DEF Next

LEMMA Invariant == Spec /\ []OneCall => []Inv
<1>1. Spec => []CountInv
  BY CountInvariant
<1> QED  BY <1>1, InvInit, InvNext, PTL DEF Spec

\* msgio_ready (msgio.c:10) is the number of sockets and of calls that are about
\* to add one, unless the server is stopped under its users.
THEOREM ReadyIsCount == Spec /\ []OneCall => []ReadyCounts
BY Invariant, CountInvariant, PTL DEF Inv, CountInv, ReadyTight, ReadyCounts

\* While no two calls overlap (the library has no lock that would ensure it, and
\* two that overlap may put the message twice), the message is at one port at
\* most, and at none unless a call waits for it; a call that waits has it at a
\* port unless the server was stopped under its users.
THEOREM MessageInOnePlace == Spec /\ []OneCall => []MessageOnce
BY Invariant, PTL DEF Inv

\* While no two calls overlap, main_loop (socksrv.c:57) is on the way to the
\* message that is at the server's port.
THEOREM ServerSeesMessage == Spec /\ []OneCall => []ServerAwake
BY Invariant, PTL DEF Inv

\* "check result" (bsdsocket.c:74): while no two calls overlap (with an overlap a
\* call may see the answer to another one), what a call checks is the answer to
\* its own command, or the rejection by a server that stopped: no answer to an
\* earlier call, of the same task or of another one, is left over for it, however
\* often the server was stopped in between.
THEOREM ResultIsOwn == Spec /\ []OneCall => []OwnResult
<1>1. Inv => OwnResult
  <2> SUFFICES ASSUME Inv, NEW c \in Clients, pc[c] = "result"
               PROVE  msg \in {<<command[c], command[c]>>, <<command[c], MSG_RESULT_NO_SERVER>>}
    BY DEF OwnResult
  <2> QED  BY DEF Inv, MsgOK, Answered, Rejected
<1> QED  BY <1>1, Invariant, PTL

\* While no two calls overlap, the port a message is about to be put to is the
\* port of the running server, however often it was stopped and started before
\* without users.
THEOREM PortIsLive == Spec /\ []OneCall => []PutToLivePort
<1>1. Inv => PutToLivePort
  BY DEF Inv, InUse, PortOK, PutToLivePort
<1> QED  BY <1>1, Invariant, PTL

\* While no two calls overlap, and nobody has a socket or is in a call, the
\* message and the reply port are released, but for the failures that Mishaps
\* names.
THEOREM LastReleases == Spec /\ []OneCall => []ReleasedWithLast
<1>1. Inv => ReleasedWithLast
  <2> SUFFICES ASSUME Inv, Unused, Mishaps = {} PROVE msg = <<>> /\ reply_port = NULL
    BY DEF ReleasedWithLast
  <2>1. Users = 0
    <3>1. /\ Sockets = {} /\ Opening = {}
      BY DEF Unused, Sockets, Opening
    <3> QED  BY <3>1, FS_EmptySet DEF Users
  <2>2. msgio_ready = 0
    BY <2>1 DEF Inv, ReadyTight, Orderly
  <2>3. msg = <<>>
    BY <2>2 DEF Inv, LibControl
  <2>4. \A c \in Clients : pc[c] # "alloc"
    BY DEF Unused
  <2> QED  BY <2>3, <2>4 DEF Mishaps
<1> QED  BY <1>1, Invariant, PTL
=============================================================================
