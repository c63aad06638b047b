---------------------------- MODULE DeviceProofs ----------------------------
(***************************************************************************)
(* Who has a message of parblk.device, with the handlers of earlier opens  *)
(* still there, and which ports and consoles an open has left when it is   *)
(* over, for any number of requests and opens.                             *)
(***************************************************************************)
EXTENDS Device, TLAPS

-----------------------------------------------------------------------------
(* The inductive invariant.                                                *)

Places == {"own", "queued", "served", "replied", "lost"}
Alive  == {"loop", "wait", "get", "serve"}

Types ==
    /\ pc \in {"closed", "process", "startup", "open", "closing"}
    /\ failed \subseteq {"process", "port", "reply"}
    /\ held \subseteq {"input", "output", "reply", "myPort"}
    /\ handler \in [Opens -> Alive \cup {"none", "start", "gone"}]
    /\ ior \in [Opens -> Messages \cup {NULL}]
    /\ mp_MsgList \in Seq(Messages)
    /\ place \in [Messages -> Places]
    /\ opens \in 0..MaxOpens

\* Outside an open device nobody has a message but the opener, and the message of
\* the close is out only while it closes.
OpenerControl ==
    /\ pc # "open" => \A r \in Requests : place[r] = "own"
    /\ pc # "closing" => place[CMD_TERM] = "own"
    /\ pc # "closed" => opens \in Opens
    /\ pc = "process" => held = {"input", "output"}
    /\ "process" \in failed => pc = "closed"

\* The port that is there is that of the last open, and its handler is alive; a handler
\* of an earlier one may be too, but not in WaitPort.
HandlerControl ==
    /\ \A i \in Opens : i > opens => handler[i] = "none"
    /\ \A i \in Opens : handler[i] = "start" => i = opens /\ pc = "startup"
    /\ \A i \in Opens : handler[i] = "serve" => ior[i] # NULL
    /\ \A i \in Opens : handler[i] = "wait" => Live /\ i = myPort
    /\ Live => /\ pc \in {"startup", "open", "closing"}
               /\ myPort = opens /\ handler[opens] \in Alive

Inv == Types /\ OpenerControl /\ HandlerControl /\ RequestOwned /\ ClosedReleases

-----------------------------------------------------------------------------
(* The message port.                                                       *)

LEMMA TakeFirst ==
    ASSUME NEW S, NEW s \in Seq(S), s # <<>>, IsInjective(s)
    PROVE  /\ Head(s) \in S /\ Head(s) \in ToSet(s)
           /\ Tail(s) \in Seq(S) /\ IsInjective(Tail(s))
           /\ ToSet(Tail(s)) = ToSet(s) \ {Head(s)}
<1>1. Head(s) = s[1] /\ 1 \in DOMAIN s /\ Head(s) \in S
  OBVIOUS
<1>2. /\ Tail(s) \in Seq(S)
      /\ \A i \in DOMAIN Tail(s) : i + 1 \in DOMAIN s /\ Tail(s)[i] = s[i + 1]
      /\ \A i \in DOMAIN s : i # 1 => i - 1 \in DOMAIN Tail(s) /\ Tail(s)[i - 1] = s[i]
      /\ \A i \in DOMAIN Tail(s) : i \in Nat /\ i + 1 # 1
  OBVIOUS
<1>3. IsInjective(Tail(s))
  BY <1>2 DEF IsInjective
<1>4. ToSet(Tail(s)) \subseteq ToSet(s) \ {Head(s)}
  BY <1>1, <1>2 DEF ToSet, IsInjective
<1>5. ASSUME NEW x \in ToSet(s) \ {Head(s)} PROVE x \in ToSet(Tail(s))
  <2>1. PICK i \in DOMAIN s : s[i] = x
    BY DEF ToSet
  <2>2. i - 1 \in DOMAIN Tail(s) /\ Tail(s)[i - 1] = x
    BY <1>1, <1>2, <2>1
  <2> QED  BY <2>2 DEF ToSet
<1> QED  BY <1>1, <1>2, <1>3, <1>4, <1>5 DEF ToSet

LEMMA PutLast ==
    ASSUME NEW S, NEW s \in Seq(S), NEW m \in S, m \notin ToSet(s), IsInjective(s)
    PROVE  /\ Append(s, m) \in Seq(S) /\ IsInjective(Append(s, m)) /\ Append(s, m) # <<>>
           /\ ToSet(Append(s, m)) = ToSet(s) \cup {m}
<1>1. /\ Append(s, m) \in Seq(S) /\ DOMAIN Append(s, m) = 1..(Len(s) + 1)
      /\ \A i \in DOMAIN s : Append(s, m)[i] = s[i]
      /\ Append(s, m)[Len(s) + 1] = m /\ DOMAIN s = 1..Len(s)
  OBVIOUS
<1>2. IsInjective(Append(s, m)) /\ Append(s, m) # <<>>
  BY <1>1 DEF IsInjective, ToSet
<1>3. ToSet(Append(s, m)) \subseteq ToSet(s) \cup {m}
  BY <1>1 DEF ToSet
<1>4. ToSet(s) \cup {m} \subseteq ToSet(Append(s, m))
  BY <1>1 DEF ToSet
<1> QED  BY <1>1, <1>2, <1>3, <1>4

LEMMA NoMessage == ToSet(<<>>) = {} /\ IsInjective(<<>>)
BY DEF ToSet, IsInjective

LEMMA Names ==
    /\ CMD_TERM \in Messages /\ NULL \notin Messages
    /\ \A r \in Requests : r \in Messages /\ r # CMD_TERM
BY DeviceAssumption DEF Messages

\* Before the device is open and after it is closed all messages are the opener's.
LEMMA AllOwn ==
    ASSUME Inv, pc \notin {"open", "closing"}
    PROVE  /\ mp_MsgList = <<>> /\ \A m \in Messages : place[m] = "own"
           /\ \A i \in Opens : handler[i] # "serve"
<1>1. \A m \in Messages : place[m] = "own"
  BY DEF Inv, OpenerControl, Messages
<1>2. ToSet(mp_MsgList) = {}
  <2>1. \A m \in Messages : m \notin ToSet(mp_MsgList)
    BY <1>1 DEF Inv, RequestOwned
  <2>2. ToSet(mp_MsgList) \subseteq Messages
    BY DEF Inv, Types, ToSet
  <2> QED  BY <2>1, <2>2
<1>3. mp_MsgList = <<>>
  <2>1. \A k \in DOMAIN mp_MsgList : mp_MsgList[k] \in ToSet(mp_MsgList)
    BY DEF ToSet
  <2>2. DOMAIN mp_MsgList = {} /\ mp_MsgList \in Seq(Messages)
    BY <1>2, <2>1 DEF Inv, Types
  <2> QED  BY <2>2
<1>4. ASSUME NEW i \in Opens, handler[i] = "serve" PROVE FALSE
  <2>1. ior[i] \in Messages
    BY <1>4 DEF Inv, Types, HandlerControl
  <2>2. place[ior[i]] = "served"
    BY <1>4, <2>1 DEF Inv, RequestOwned
  <2> QED  BY <1>1, <2>1, <2>2
<1> QED  BY <1>1, <1>3, <1>4

\* A step that moves no message.
LEMMA KeepOwned ==
    ASSUME RequestOwned, UNCHANGED <<mp_MsgList, place, ior>>,
           \A i \in Opens : (handler'[i] = "serve") <=> (handler[i] = "serve"),
           mp_MsgList # <<>> => Live' /\ handler'[myPort'] \in Alive
    PROVE  RequestOwned'
BY DEF RequestOwned, Alive

-----------------------------------------------------------------------------
(* The steps.                                                              *)

\* A new open has a handler of its own to come, beside those of earlier opens.
LEMMA OpenStep == ASSUME Inv, OpenDevice PROVE Inv'
<1>1. /\ pc = "closed" /\ failed' = {} /\ opens < MaxOpens /\ opens' = opens + 1
      /\ UNCHANGED <<handler, ior, myPort, mp_MsgList, place>>
      /\ \/ held' = {} /\ pc' = "closed"
         \/ held' = {"input", "output"} /\ pc' = "process"
  BY DEF OpenDevice, dev_init, handlerVars
<1>2. mp_MsgList = <<>> /\ (\A m \in Messages : place[m] = "own")
      /\ ~Live /\ ~Live' /\ Types /\ HandlerControl /\ RequestOwned
  BY <1>1, AllOwn DEF Inv, HandlerControl, Live
<1>3. opens' \in Opens /\ MaxOpens \in Nat /\ opens \in Nat
  BY <1>1, <1>2, DeviceAssumption DEF Types, Opens
<1>4. Types'
  BY <1>1, <1>2, <1>3 DEF Types, Opens
<1>5. OpenerControl'
  BY <1>1, <1>2, <1>3, Names DEF OpenerControl
<1>6. HandlerControl'
  BY <1>1, <1>2, <1>3 DEF HandlerControl, Opens
<1>7. RequestOwned'
  BY <1>1, <1>2, KeepOwned
<1>8. ClosedReleases'
  BY <1>1 DEF ClosedReleases
<1> QED  BY <1>4, <1>5, <1>6, <1>7, <1>8 DEF Inv

\* The handler process is made, or not.
LEMMA ProcessStep == ASSUME Inv, NoProcess \/ CreateProcess PROVE Inv'
<1>1. /\ pc = "process" /\ UNCHANGED <<opens, ior, myPort, mp_MsgList, place>>
      /\ \/ pc' = "closed" /\ failed' = {"process"} /\ UNCHANGED <<held, handler>>
         \/ /\ pc' = "startup" /\ handler' = [handler EXCEPT ![opens] = "start"]
            /\ \/ held' = held \cup {"reply"} /\ failed' = failed
               \/ held' = held /\ failed' = {"reply"}
  BY DEF NoProcess, CreateProcess, handlerVars, messageVars
<1>2. /\ mp_MsgList = <<>> /\ (\A m \in Messages : place[m] = "own")
      /\ held = {"input", "output"} /\ opens \in Opens /\ "process" \notin failed
      /\ Types /\ HandlerControl /\ RequestOwned /\ (\A i \in Opens : handler[i] # "serve")
  BY <1>1, AllOwn DEF Inv, OpenerControl
<1>3. ~Live /\ ~Live'
  BY <1>1, <1>2 DEF Live
<1>4. handler' = handler \/ handler' = [handler EXCEPT ![opens] = "start"]
  BY <1>1
<1>5. Types'
  BY <1>1, <1>2, <1>4 DEF Types
<1>6. OpenerControl'
  BY <1>1, <1>2, Names DEF OpenerControl
<1>7. HandlerControl'
  <2>1. \A i \in Opens : handler'[i] = handler[i] \/ (i = opens /\ handler'[i] = "start")
    BY <1>2, <1>4 DEF Types
  <2>2. \A i \in Opens : handler'[i] = "start" => i = opens /\ pc' = "startup"
    BY <1>1, <1>2, <2>1 DEF HandlerControl
  <2>3. \A i \in Opens : i > opens => i # opens
    BY <1>2 DEF Types, Opens
  <2> QED  BY <1>1, <1>2, <1>3, <2>1, <2>2, <2>3 DEF HandlerControl
<1>8. RequestOwned'
  BY <1>1, <1>2, <1>4, KeepOwned DEF Types
<1>9. ClosedReleases'
  BY <1>1, <1>2 DEF ClosedReleases
<1> QED  BY <1>5, <1>6, <1>7, <1>8, <1>9 DEF Inv

\* The new handler has its port, or ends.
LEMMA StartupStep == ASSUME Inv, NEW i \in Opens, Startup(i) PROVE Inv'
<1>1. /\ handler[i] = "start" /\ UNCHANGED <<pc, opens, ior, mp_MsgList, place>>
      /\ \/ /\ handler' = [handler EXCEPT ![i] = "loop"]
            /\ myPort' = i /\ held' = held \cup {"myPort"} /\ failed' = failed
         \/ /\ handler' = [handler EXCEPT ![i] = "gone"]
            /\ myPort' = 0 /\ failed' = failed \cup {"port"} /\ held' = held
  BY DEF Startup, messageVars
<1>2. i = opens /\ pc = "startup" /\ Types /\ HandlerControl /\ OpenerControl /\ RequestOwned
  BY <1>1 DEF Inv, HandlerControl
<1>3. mp_MsgList = <<>> /\ \A j \in Opens : handler[j] # "serve"
  BY <1>2, AllOwn
<1>4. ~Live /\ \A j \in Opens : handler[j] # "wait"
  BY <1>1, <1>2 DEF HandlerControl, Alive
<1>5. Types'
  BY <1>1, <1>2 DEF Types, Alive
<1>6. OpenerControl' /\ ClosedReleases'
  BY <1>1, <1>2 DEF OpenerControl, ClosedReleases
<1>7. HandlerControl'
  <2>1. CASE handler' = [handler EXCEPT ![i] = "loop"] /\ myPort' = i
    BY <1>1, <1>2, <1>3, <1>4, <2>1 DEF HandlerControl, Types, Alive, Opens
  <2>2. CASE handler' = [handler EXCEPT ![i] = "gone"] /\ held' = held
    BY <1>1, <1>2, <1>3, <1>4, <2>2 DEF HandlerControl, Types, Live, Opens
  <2> QED  BY <1>1, <2>1, <2>2
<1>8. RequestOwned'
  <2>1. \A j \in Opens : (handler'[j] = "serve") <=> (handler[j] = "serve")
    BY <1>1, <1>2 DEF Types
  <2> QED  BY <1>1, <1>2, <1>3, <2>1, KeepOwned
<1> QED  BY <1>5, <1>6, <1>7, <1>8 DEF Inv

LEMMA ReturnStep == ASSUME Inv, InitReturns PROVE Inv'
<1>1. /\ pc = "startup" /\ pc' = "open" /\ handler[opens] # "start"
      /\ held' = held \/ held' = held \ {"reply"}
      /\ UNCHANGED <<failed, opens, handler, ior, myPort, mp_MsgList, place>>
  BY DEF InitReturns, handlerVars, messageVars
<1>2. /\ Types /\ OpenerControl /\ HandlerControl /\ RequestOwned /\ Live' = Live
      /\ mp_MsgList = <<>>
  BY <1>1, AllOwn DEF Inv, Live
<1>3. Types' /\ OpenerControl' /\ ClosedReleases'
  BY <1>1, <1>2 DEF Types, OpenerControl, ClosedReleases
<1>4. HandlerControl'
  BY <1>1, <1>2 DEF HandlerControl
<1>5. RequestOwned'
  BY <1>1, <1>2, KeepOwned
<1> QED  BY <1>3, <1>4, <1>5 DEF Inv

\* The opener puts a message to the port, if there is one.
LEMMA PutOwned ==
    ASSUME Inv, NEW m \in Messages, place[m] = "own", UNCHANGED <<handler, ior, myPort>>,
           Live' = Live, mp_MsgList' = Put(m), place' = [place EXCEPT ![m] = PutPlace]
    PROVE  RequestOwned' /\ mp_MsgList' \in Seq(Messages) /\ place' \in [Messages -> Places]
<1>1. Types /\ HandlerControl /\ RequestOwned
  BY DEF Inv
<1>2. place \in [Messages -> Places] /\ mp_MsgList \in Seq(Messages) /\ m \notin ToSet(mp_MsgList)
      /\ (\A i \in Opens : ~(handler[i] = "serve" /\ ior[i] = m)) /\ IsInjective(mp_MsgList)
  BY <1>1 DEF Types, RequestOwned
<1>3. CASE Live
  <2>1. /\ mp_MsgList' \in Seq(Messages) /\ IsInjective(mp_MsgList')
        /\ ToSet(mp_MsgList') = ToSet(mp_MsgList) \cup {m}
        /\ place' = [place EXCEPT ![m] = "queued"]
    BY <1>2, <1>3, PutLast DEF Put, PutPlace
  <2>2. handler[myPort] \in Alive
    BY <1>1, <1>3 DEF HandlerControl
  <2> QED  BY <1>1, <1>2, <1>3, <2>1, <2>2 DEF RequestOwned, Places, Alive
<1>4. CASE ~Live
  <2>1. mp_MsgList' = mp_MsgList /\ place' = [place EXCEPT ![m] = "lost"]
    BY <1>4 DEF Put, PutPlace
  <2> QED  BY <1>1, <1>2, <1>4, <2>1 DEF RequestOwned, Places
<1> QED  BY <1>3, <1>4

LEMMA BeginStep == ASSUME Inv, NEW r \in Requests, NEW c, DevBeginIO(r, c) PROVE Inv'
<1>1. /\ pc = "open" /\ place[r] = "own" /\ r \in Messages /\ r # CMD_TERM
      /\ UNCHANGED <<pc, failed, opens, held, handler, ior, myPort>>
      /\ place' = [place EXCEPT ![r] = Answer(c)]
      /\ mp_MsgList' = IF c \in IOCommands THEN Put(r) ELSE mp_MsgList
  BY Names DEF DevBeginIO, openerVars, handlerVars
<1>2. Types /\ OpenerControl /\ HandlerControl /\ RequestOwned /\ ClosedReleases /\ Live' = Live
  BY <1>1 DEF Inv, Live
<1>3. RequestOwned' /\ mp_MsgList' \in Seq(Messages) /\ place' \in [Messages -> Places]
  <2>1. CASE c \in IOCommands
    BY <1>1, <1>2, <2>1, PutOwned DEF Answer
  <2>2. CASE c \notin IOCommands
    <3>1. mp_MsgList' = mp_MsgList /\ place' = [place EXCEPT ![r] = "replied"]
      BY <1>1, <2>2 DEF Answer
    <3>2. place \in [Messages -> Places]
      BY <1>2 DEF Types
    <3> QED  BY <1>1, <1>2, <3>1, <3>2 DEF RequestOwned, Types, Places
  <2> QED  BY <2>1, <2>2
<1>4. Types'
  BY <1>1, <1>2, <1>3 DEF Types
<1>5. OpenerControl'
  <2>1. place'[CMD_TERM] = place[CMD_TERM]
    BY <1>1, <1>2 DEF Types
  <2> QED  BY <1>1, <1>2, <2>1 DEF OpenerControl
<1>6. HandlerControl' /\ ClosedReleases'
  BY <1>1, <1>2 DEF HandlerControl, ClosedReleases
<1> QED  BY <1>3, <1>4, <1>5, <1>6 DEF Inv

LEMMA CollectStep == ASSUME Inv, NEW r \in Requests, Collect(r) PROVE Inv'
<1>1. /\ place[r] = "replied" /\ place' = [place EXCEPT ![r] = "own"] /\ r \in Messages
      /\ UNCHANGED <<pc, failed, opens, held, handler, ior, myPort, mp_MsgList>>
  BY Names DEF Collect, openerVars, handlerVars
<1>2. Types /\ OpenerControl /\ HandlerControl /\ RequestOwned /\ ClosedReleases /\ Live' = Live
  BY <1>1 DEF Inv, Live
<1>3. /\ place' \in [Messages -> Places]
      /\ \A m \in Messages : place'[m] = IF m = r THEN "own" ELSE place[m]
  BY <1>1, <1>2 DEF Types, Places
<1>4. Types'
  BY <1>1, <1>2, <1>3 DEF Types
<1>5. OpenerControl'
  BY <1>1, <1>2, <1>3, Names DEF OpenerControl
<1>6. HandlerControl' /\ ClosedReleases'
  BY <1>1, <1>2 DEF HandlerControl, ClosedReleases
<1>7. RequestOwned'
  BY <1>1, <1>2, <1>3 DEF RequestOwned
<1> QED  BY <1>4, <1>5, <1>6, <1>7 DEF Inv

\* A handler looks for messages and finds none, or finds that there are some.
LEMMA LookStep ==
    ASSUME Inv, NEW i \in Opens, WaitPort(i) \/ WakeUp(i) \/ GetNone(i)
    PROVE  Inv'
<1>1. /\ handler[i] \in {"loop", "wait", "get"}
      /\ UNCHANGED <<pc, failed, opens, held, ior, myPort, mp_MsgList, place>>
  BY DEF WaitPort, WakeUp, GetNone, openerVars, messageVars
<1>2. PICK h \in {"loop", "wait", "get", "gone"} :
          /\ handler' = [handler EXCEPT ![i] = h]
          /\ h = "wait" => Live /\ myPort = i
          /\ Live /\ myPort = i => h # "gone"
  BY DEF WaitPort, WakeUp, GetNone
<1>3. Types /\ OpenerControl /\ HandlerControl /\ RequestOwned /\ ClosedReleases /\ Live' = Live
  BY <1>1 DEF Inv, Live
<1>4. /\ handler' \in [Opens -> Alive \cup {"none", "start", "gone"}]
      /\ \A j \in Opens : handler'[j] = IF j = i THEN h ELSE handler[j]
      /\ h \notin {"none", "start", "serve"} /\ (Live /\ myPort = i => h \in Alive)
  BY <1>2, <1>3 DEF Types, Alive
<1>5. Types'
  BY <1>1, <1>3, <1>4 DEF Types
<1>6. OpenerControl' /\ ClosedReleases'
  BY <1>1, <1>3 DEF OpenerControl, ClosedReleases
<1>7. HandlerControl'
  <2>1. \A j \in Opens : handler'[j] # handler[j] => j = i /\ j <= opens
    BY <1>1, <1>3, <1>4 DEF HandlerControl, Opens, Types
  <2>2. Live => myPort = opens /\ opens \in Opens /\ handler'[opens] \in Alive
    BY <1>3, <1>4 DEF HandlerControl, OpenerControl
  <2>3. \A j \in Opens : handler'[j] = "wait" => Live /\ j = myPort
    BY <1>2, <1>3, <1>4 DEF HandlerControl
  <2>4. \A j \in Opens : j > opens => handler'[j] = "none"
    BY <1>3, <2>1 DEF HandlerControl, Opens, Types
  <2> QED  BY <1>1, <1>3, <1>4, <2>2, <2>3, <2>4 DEF HandlerControl
<1>8. RequestOwned'
  <2>1. mp_MsgList # <<>> => Live /\ myPort \in Opens /\ handler[myPort] \in Alive
    BY <1>3 DEF RequestOwned, HandlerControl, OpenerControl, Alive
  <2>2. mp_MsgList # <<>> => Live' /\ handler'[myPort'] \in Alive
    BY <1>1, <1>3, <1>4, <2>1
  <2> QED  BY <1>1, <1>3, <1>4, <2>2, KeepOwned
<1> QED  BY <1>5, <1>6, <1>7, <1>8 DEF Inv

\* A handler, of this open or of an earlier one, takes the first message.
LEMMA GetMsgStep == ASSUME Inv, NEW i \in Opens, GetMsg(i) PROVE Inv'
<1> DEFINE m == Head(mp_MsgList)
<1>1. /\ handler[i] = "get" /\ Live /\ mp_MsgList # <<>>
      /\ handler' = [handler EXCEPT ![i] = "serve"] /\ ior' = [ior EXCEPT ![i] = m]
      /\ mp_MsgList' = Tail(mp_MsgList) /\ place' = [place EXCEPT ![m] = "served"]
      /\ UNCHANGED <<pc, failed, opens, held, myPort>>
  BY DEF GetMsg, Taken, openerVars
<1>2. Types /\ OpenerControl /\ HandlerControl /\ RequestOwned /\ ClosedReleases /\ Live' = Live
  BY <1>1 DEF Inv, Live
<1>3. /\ m \in Messages /\ m \in ToSet(mp_MsgList) /\ mp_MsgList' \in Seq(Messages)
      /\ IsInjective(mp_MsgList') /\ ToSet(mp_MsgList') = ToSet(mp_MsgList) \ {m}
  BY <1>1, <1>2, TakeFirst DEF Types, RequestOwned
<1>4. place[m] = "queued" /\ m # NULL
  BY <1>2, <1>3, Names DEF RequestOwned
<1> HIDE DEF m
<1>5. \A j \in Opens : /\ handler'[j] = IF j = i THEN "serve" ELSE handler[j]
                       /\ ior'[j] = IF j = i THEN m ELSE ior[j]
  BY <1>1, <1>2 DEF Types
<1>6. \A n \in Messages : place'[n] = IF n = m THEN "served" ELSE place[n]
  BY <1>1, <1>2, <1>3 DEF Types
<1>7. Types'
  <2>1. handler' \in [Opens -> Alive \cup {"none", "start", "gone"}]
    BY <1>1, <1>2 DEF Types, Alive
  <2>2. ior' \in [Opens -> Messages \cup {NULL}]
    BY <1>1, <1>2, <1>3 DEF Types
  <2>3. place' \in [Messages -> Places]
    BY <1>1, <1>2, <1>3 DEF Types, Places
  <2> QED  BY <1>1, <1>2, <1>3, <2>1, <2>2, <2>3 DEF Types
<1>8. OpenerControl'
  <2>1. pc \in {"open", "closing"} /\ (pc = "open" => m # CMD_TERM)
        /\ (pc = "closing" => m \notin Requests)
    BY <1>2, <1>3, <1>4, AllOwn, <1>1 DEF OpenerControl
  <2> QED  BY <1>1, <1>2, <1>6, <2>1, Names DEF OpenerControl
<1>9. HandlerControl'
  <2>1. i <= opens
    BY <1>1, <1>2 DEF HandlerControl, Opens, Types
  <2>2. opens \in Opens /\ "serve" \in Alive
    BY <1>1, <1>2 DEF HandlerControl, OpenerControl, Alive
  <2> QED  BY <1>1, <1>2, <1>4, <1>5, <2>1, <2>2 DEF HandlerControl, Opens, Types
<1>10. ClosedReleases'
  BY <1>1, <1>2 DEF ClosedReleases
<1>11. RequestOwned'
  <2>1. myPort \in Opens /\ handler[myPort] \in Alive
    BY <1>1, <1>2 DEF HandlerControl, OpenerControl
  <2>2. handler'[myPort'] \in Alive
    BY <1>1, <1>5, <2>1 DEF Alive
  <2>3. \A j \in Opens : handler[j] = "serve" => ior[j] # m
    BY <1>2, <1>3, <1>4 DEF RequestOwned
  <2>4. \A n \in Messages :
          /\ place'[n] \in {"own", "queued", "served", "replied", "lost"}
          /\ (place'[n] = "queued") <=> (n \in ToSet(mp_MsgList'))
          /\ (place'[n] = "served") <=> (\E j \in Opens : handler'[j] = "serve" /\ ior'[j] = n)
    BY <1>1, <1>2, <1>3, <1>4, <1>5, <1>6, <2>3 DEF RequestOwned
  <2>5. \A j, k \in Opens : handler'[j] = "serve" /\ handler'[k] = "serve" /\ ior'[j] = ior'[k]
                               => j = k
    BY <1>2, <1>5, <2>3 DEF RequestOwned
  <2> QED  BY <1>1, <1>2, <1>3, <2>2, <2>4, <2>5 DEF RequestOwned, Alive
<1> QED  BY <1>7, <1>8, <1>9, <1>10, <1>11 DEF Inv

LEMMA ReplyMsgStep == ASSUME Inv, NEW i \in Opens, ReplyMsg(i) PROVE Inv'
<1> DEFINE m == ior[i]
<1>1. /\ handler[i] = "serve" /\ handler' = [handler EXCEPT ![i] = "get"]
      /\ place' = [place EXCEPT ![m] = "replied"]
      /\ UNCHANGED <<pc, failed, opens, held, ior, myPort, mp_MsgList>>
  BY DEF ReplyMsg, openerVars
<1>2. Types /\ OpenerControl /\ HandlerControl /\ RequestOwned /\ ClosedReleases /\ Live' = Live
  BY <1>1 DEF Inv, Live
<1>3. m \in Messages
  BY <1>1, <1>2 DEF Types, HandlerControl
<1>4. place[m] = "served" /\ \A j \in Opens : handler[j] = "serve" /\ ior[j] = m => j = i
  BY <1>1, <1>2, <1>3 DEF RequestOwned
<1>5. \A j \in Opens : handler'[j] = IF j = i THEN "get" ELSE handler[j]
  BY <1>1, <1>2 DEF Types
<1>6. \A n \in Messages : place'[n] = IF n = m THEN "replied" ELSE place[n]
  BY <1>1, <1>2, <1>3 DEF Types
<1>7. Types'
  <2>1. handler' \in [Opens -> Alive \cup {"none", "start", "gone"}]
    BY <1>1, <1>2 DEF Types, Alive
  <2>2. place' \in [Messages -> Places]
    BY <1>1, <1>2, <1>3 DEF Types, Places
  <2> QED  BY <1>1, <1>2, <2>1, <2>2 DEF Types
<1>8. OpenerControl'
  BY <1>1, <1>2, <1>3, <1>4, <1>6, Names DEF OpenerControl
<1>9. HandlerControl'
  <2>1. i <= opens
    BY <1>1, <1>2 DEF HandlerControl, Opens, Types
  <2>2. Live => opens \in Opens
    BY <1>2 DEF HandlerControl, OpenerControl
  <2> QED  BY <1>1, <1>2, <1>5, <2>1, <2>2 DEF HandlerControl, Opens, Types, Alive
<1>10. ClosedReleases'
  BY <1>1, <1>2 DEF ClosedReleases
<1>11. RequestOwned'
  <2>1. mp_MsgList # <<>> => Live' /\ handler'[myPort'] \in {"loop", "wait", "get", "serve"}
    <3>1. mp_MsgList # <<>> => Live /\ myPort \in Opens
                               /\ handler[myPort] \in {"loop", "wait", "get", "serve"}
      BY <1>2 DEF RequestOwned, HandlerControl, OpenerControl
    <3> QED  BY <1>1, <1>2, <1>5, <3>1
  <2>2. \A n \in Messages :
          /\ place'[n] \in {"own", "queued", "served", "replied", "lost"}
          /\ (place'[n] = "queued") <=> (n \in ToSet(mp_MsgList'))
          /\ (place'[n] = "served") <=> (\E j \in Opens : handler'[j] = "serve" /\ ior'[j] = n)
    BY <1>1, <1>2, <1>3, <1>4, <1>5, <1>6 DEF RequestOwned
  <2> QED  BY <1>1, <1>2, <1>5, <2>1, <2>2 DEF RequestOwned
<1> QED  BY <1>7, <1>8, <1>9, <1>10, <1>11 DEF Inv

\* All requests are back: the message of the close is the only one.
LEMMA CloseStep == ASSUME Inv, CloseDevice PROVE Inv'
<1>1. /\ pc = "open" /\ pc' = "closing" /\ \A r \in Requests : place[r] = "own"
      /\ UNCHANGED <<opens, handler, ior, myPort>>
      /\ \/ held' = held \cup {"reply"} /\ failed' = failed
         \/ held' = held /\ failed' = failed \cup {"reply"}
      /\ mp_MsgList' = Put(CMD_TERM) /\ place' = [place EXCEPT ![CMD_TERM] = PutPlace]
  BY DEF CloseDevice, handlerVars
<1>2. Types /\ OpenerControl /\ HandlerControl /\ place[CMD_TERM] = "own" /\ Live' = Live
  BY <1>1 DEF Inv, OpenerControl, Live
<1>3. RequestOwned' /\ mp_MsgList' \in Seq(Messages) /\ place' \in [Messages -> Places]
  BY <1>1, <1>2, Names, PutOwned
<1>4. Types'
  BY <1>1, <1>2, <1>3 DEF Types
<1>5. OpenerControl'
  <2>1. \A r \in Requests : place'[r] = place[r]
    BY <1>1, <1>2, Names DEF Types
  <2> QED  BY <1>1, <1>2, <2>1 DEF OpenerControl
<1>6. HandlerControl' /\ ClosedReleases'
  BY <1>1, <1>2 DEF HandlerControl, ClosedReleases
<1> QED  BY <1>3, <1>4, <1>5, <1>6 DEF Inv

\* A handler has answered it: the port can go.
LEMMA CleanupStep == ASSUME Inv, CleanupReturns PROVE Inv'
<1>1. /\ pc = "closing" /\ place[CMD_TERM] = "replied" /\ pc' = "closed"
      /\ held' = held \ {"reply", "myPort", "input", "output"}
      /\ place' = [place EXCEPT ![CMD_TERM] = "own"]
      /\ handler' = [i \in Opens |-> IF handler[i] = "wait" THEN "gone" ELSE handler[i]]
      /\ UNCHANGED <<failed, opens, ior, myPort, mp_MsgList>>
  BY DEF CleanupReturns, dev_shutdown
<1>2. Types /\ OpenerControl /\ HandlerControl /\ RequestOwned
  BY DEF Inv
<1>3. \A m \in Messages : place'[m] = "own" /\ place[m] \notin {"queued", "served"}
  BY <1>1, <1>2 DEF OpenerControl, Types, Messages
<1>4. mp_MsgList = <<>>
  <2>1. \A k \in DOMAIN mp_MsgList : mp_MsgList[k] \in ToSet(mp_MsgList)
                                      /\ mp_MsgList[k] \in Messages
    BY <1>2 DEF ToSet, Types
  <2>2. DOMAIN mp_MsgList = {}
    BY <1>2, <1>3, <2>1 DEF RequestOwned
  <2> QED  BY <1>2, <2>2 DEF Types
<1>5. held' = {} /\ "process" \notin failed' /\ ~Live'
  BY <1>1, <1>2 DEF Types, OpenerControl, Live
<1>6. Types'
  BY <1>1, <1>2, <1>5, Names DEF Types, Places, Alive
<1>7. OpenerControl' /\ ClosedReleases'
  BY <1>1, <1>3, <1>5, Names DEF OpenerControl, ClosedReleases
<1>8. HandlerControl'
  BY <1>1, <1>2, <1>5 DEF HandlerControl
<1>9. RequestOwned'
  <2>1. \A i \in Opens : (handler'[i] = "serve") <=> (handler[i] = "serve")
    BY <1>1
  <2> QED  BY <1>1, <1>2, <1>3, <1>4, <2>1, NoMessage DEF RequestOwned
<1> QED  BY <1>6, <1>7, <1>8, <1>9 DEF Inv

LEMMA InvNext == Inv /\ [Next]_vars => Inv'
<1> SUFFICES ASSUME Inv, [Next]_vars PROVE Inv'
  OBVIOUS
<1>1. CASE UNCHANGED vars
  BY <1>1 DEF vars, openerVars, handlerVars, messageVars, Live, Inv, Types, OpenerControl,
              HandlerControl, RequestOwned, ClosedReleases
<1>2. CASE \E i \in Opens : cmd_handler(i)
  BY <1>2, StartupStep, LookStep, GetMsgStep, ReplyMsgStep DEF cmd_handler
<1> QED  BY <1>1, <1>2, OpenStep, ProcessStep, ReturnStep, BeginStep, CollectStep, CloseStep,
            CleanupStep DEF Next

LEMMA InvInit == Init => Inv
<1> SUFFICES ASSUME Init PROVE Inv
  OBVIOUS
<1>1. /\ pc = "closed" /\ failed = {} /\ held = {} /\ opens = 0 /\ mp_MsgList = <<>>
      /\ handler = [i \in Opens |-> "none"] /\ ior = [i \in Opens |-> NULL]
      /\ place = [m \in Messages |-> "own"] /\ ~Live
  BY DEF Init, Live
<1>2. Types
  BY <1>1, DeviceAssumption DEF Types, Places, Alive
<1>3. OpenerControl /\ HandlerControl /\ ClosedReleases
  BY <1>1, Names DEF OpenerControl, HandlerControl, ClosedReleases
<1>4. RequestOwned
  BY <1>1, NoMessage DEF RequestOwned
<1> QED  BY <1>2, <1>3, <1>4 DEF Inv

LEMMA Invariant == Spec => []Inv
BY InvInit, InvNext, PTL DEF Spec

-----------------------------------------------------------------------------
(* The theorems.                                                           *)

\* Every message is in one place, myPort, one handler or the opener's hands, however
\* often the device is opened and closed, although the handlers of earlier opens are
\* still there and may take from the port of a later one.
THEOREM RequestHasOwner == Spec => []RequestOwned
BY Invariant, PTL DEF Inv

\* A close that returns gives back the two ports and the two consoles of its open, and
\* so does a failed open but for the one whose handler process could not be created.
\* The process itself is never given back and not part of this.
THEOREM CloseReleases == Spec => []ClosedReleases
BY Invariant, PTL DEF Inv
=============================================================================
