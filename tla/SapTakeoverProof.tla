-------------------------- MODULE SapTakeoverProof --------------------------
(***************************************************************************)
(* Proofs about the servers of SapBridge that compete for com.swissbit.sap *)
(* and may end at any step, for every set of clients and servers: only     *)
(* connected servers own the name, no call is executed by a server that is *)
(* not configured, and what QtDBus believes of the owner ends up right.    *)
(*                                                                         *)
(* The three properties need each other: the daemon routes a call to the   *)
(* first owner, and an owner that still waits for its name has the reply   *)
(* to RequestName ahead of the call; a server asks for the name once, so   *)
(* that it is never in the queue twice.  JInv says so of the queues.  It   *)
(* builds on the types and on what SapBridgeProof knows of messages.       *)
(***************************************************************************)
EXTENDS SapBridgeProof

----------------------------------------------------------------------------
(* The inductive invariant.                                                *)

\* A message of type t is in the queue q.
Has(q, t) == \E i \in DOMAIN q : q[i].type = t

\* s owns the name or waits for it.
Owns(s) == \E i \in DOMAIN owners : owners[i] = s

\* The place of the latest NameOwnerChanged in q.
IsLatest(q, i) ==
    /\ i \in DOMAIN q /\ q[i].type = "NameOwnerChanged"
    /\ \A j \in DOMAIN q : q[j].type = "NameOwnerChanged" => j <= i

\* Who believes d before it reads q believes b afterwards.
Tells(q, d, b) ==
    \/ ~Has(q, "NameOwnerChanged") /\ (d <=> b)
    \/ \E i \in DOMAIN q : IsLatest(q, i) /\ (q[i].owned <=> b)

\* A call is behind the reply to RequestName.
CallsAfterReply(q) ==
    \A i \in DOMAIN q : q[i].type = "call" => \E j \in 1 .. i - 1 : q[j].type = "NameReply"

\* RequestName is the first message a server writes, and written once: while
\* it is under way the server is not in the queue of owners.
AsksOnce(s) ==
    /\ spc[s] = "off" => s \notin attached /\ toBus[s] = <<>> /\ fromBus[s] = <<>>
    /\ \A i \in DOMAIN toBus[s] : toBus[s][i].type = "RequestName" => i = 1 /\ ~Owns(s)

\* A server past RequestName is configured; one that is owner and has not read
\* the reply has it in its queue, ahead of every call.
Prepared(s) ==
    /\ spc[s] \in {"running", "serving"} => configured[s]
    /\ spc[s] = "requesting" => CallsAfterReply(fromBus[s]) /\ (Owns(s) => Has(fromBus[s], "NameReply"))

ServerInv(s) == AsksOnce(s) /\ Prepared(s)

\* A client that is connected hears every change of the owner.
ClientInv(c) ==
    /\ lib[c] = "none" => fromBus[c] = <<>>
    /\ lib[c] = "ready" /\ busUp => c \in attached /\ Tells(fromBus[c], qtOwner[c], owners # <<>>)

\* The invariant of the competition for the name.
JInv ==
    /\ OwnersAreConnected
    /\ \A s \in Servers : ServerInv(s)
    /\ \A c \in Clients : ClientInv(c)

----------------------------------------------------------------------------
(* Queues.                                                                 *)

\* Where the messages of a queue go when one is added or read.
LEMMA QueueMoves ==
    ASSUME NEW q \in Seq(Messages), NEW m \in Messages
    PROVE  /\ DOMAIN q = 1 .. Len(q) /\ Len(q) \in Nat
           /\ Append(q, m) \in Seq(Messages) /\ DOMAIN Append(q, m) = 1 .. Len(q) + 1
           /\ Append(q, m)[Len(q) + 1] = m
           /\ \A i \in 1 .. Len(q) : Append(q, m)[i] = q[i]
           /\ q # <<>> => /\ 1 \in DOMAIN q /\ Head(q) = q[1] /\ Head(q) \in Messages
                          /\ Tail(q) \in Seq(Messages) /\ DOMAIN Tail(q) = 1 .. Len(q) - 1
                          /\ \A i \in 1 .. Len(q) - 1 : Tail(q)[i] = q[i + 1]
<1>1. DOMAIN q = 1 .. Len(q) /\ Len(q) \in Nat
  BY LenProperties
<1>2. /\ Append(q, m) \in Seq(Messages) /\ Len(Append(q, m)) = Len(q) + 1
      /\ Append(q, m)[Len(q) + 1] = m
      /\ \A i \in 1 .. Len(q) : Append(q, m)[i] = q[i]
  BY AppendProperties
<1>3. DOMAIN Append(q, m) = 1 .. Len(q) + 1
  BY <1>2, LenProperties
<1>4. ASSUME q # <<>>
      PROVE  /\ 1 \in DOMAIN q /\ Head(q) = q[1] /\ Head(q) \in Messages
             /\ Tail(q) \in Seq(Messages) /\ DOMAIN Tail(q) = 1 .. Len(q) - 1
             /\ \A i \in 1 .. Len(q) - 1 : Tail(q)[i] = q[i + 1]
  <2>1. /\ Len(q) # 0 /\ Head(q) \in Messages /\ Tail(q) \in Seq(Messages)
        /\ Len(Tail(q)) = Len(q) - 1 /\ \A i \in 1 .. Len(q) - 1 : Tail(q)[i] = q[i + 1]
    BY <1>4, HeadTailProperties, EmptySeq
  <2>2. DOMAIN Tail(q) = 1 .. Len(q) - 1
    BY <2>1, LenProperties
  <2> QED  BY <1>1, <2>1, <2>2
<1> QED  BY <1>1, <1>2, <1>3, <1>4

\* A message that is no signal changes nothing of what is believed.
LEMMA TellsMore ==
    ASSUME NEW q \in Seq(Messages), NEW m \in Messages, m.type # "NameOwnerChanged",
           NEW d, NEW b, Tells(q, d, b)
    PROVE  Tells(Append(q, m), d, b)
<1> DEFINE r == Append(q, m)
<1>1. /\ DOMAIN q = 1 .. Len(q) /\ Len(q) \in Nat /\ DOMAIN r = 1 .. Len(q) + 1
      /\ r[Len(q) + 1] = m /\ \A i \in 1 .. Len(q) : r[i] = q[i]
  BY QueueMoves
<1> HIDE DEF r
<1>2. \A i \in DOMAIN r : r[i].type = "NameOwnerChanged" => i \in DOMAIN q /\ q[i] = r[i]
  BY <1>1
<1>3. CASE ~Has(q, "NameOwnerChanged") /\ (d <=> b)
  BY <1>2, <1>3 DEF Has, Tells, r
<1>4. ASSUME NEW i, IsLatest(q, i), q[i].owned <=> b PROVE Tells(r, d, b)
  <2>1. IsLatest(r, i) /\ r[i] = q[i]
    BY <1>1, <1>2, <1>4 DEF IsLatest
  <2> QED  BY <1>4, <2>1 DEF Tells, IsLatest
<1> QED  BY <1>3, <1>4 DEF Tells, r

\* A signal at the end is the latest.
LEMMA TellsSignal ==
    ASSUME NEW q \in Seq(Messages), NEW d, NEW b \in BOOLEAN
    PROVE  OwnerChanged(b) \in Messages /\ Tells(Append(q, OwnerChanged(b)), d, b)
<1> DEFINE m == OwnerChanged(b)
           r == Append(q, m)
<1>0. m \in Messages /\ m.type = "NameOwnerChanged" /\ m.owned = b
  BY DEF OwnerChanged, Messages, Signals
<1>1. Len(q) \in Nat /\ DOMAIN r = 1 .. Len(q) + 1 /\ r[Len(q) + 1] = m
  BY <1>0, QueueMoves
<1> HIDE DEF r, m
<1>2. IsLatest(r, Len(q) + 1)
  BY <1>0, <1>1 DEF IsLatest
<1>3. Tells(r, d, b)
  BY <1>0, <1>1, <1>2 DEF Tells
<1> QED  BY <1>0, <1>3 DEF r, m

\* Reading a message: a signal is believed, anything else changes nothing.
LEMMA TellsRead ==
    ASSUME NEW q \in Seq(Messages), q # <<>>, NEW d, NEW b, Tells(q, d, b)
    PROVE  Tells(Tail(q), IF Head(q).type = "NameOwnerChanged" THEN Head(q).owned ELSE d, b)
<1> DEFINE r == Tail(q)
           m == Head(q)
           e == IF m.type = "NameOwnerChanged" THEN m.owned ELSE d
<1>1. /\ DOMAIN q = 1 .. Len(q) /\ Len(q) \in Nat /\ DOMAIN r = 1 .. Len(q) - 1
      /\ m = q[1] /\ 1 \in DOMAIN q /\ \A i \in 1 .. Len(q) - 1 : r[i] = q[i + 1]
  BY QueueMoves DEF Messages, RequestName
<1> HIDE DEF r, m
<1>2. \A i \in DOMAIN r : i + 1 \in DOMAIN q /\ r[i] = q[i + 1]
  BY <1>1
<1>3. CASE ~Has(q, "NameOwnerChanged") /\ (d <=> b)
  <2>1. ~Has(r, "NameOwnerChanged") /\ m.type # "NameOwnerChanged"
    BY <1>1, <1>2, <1>3 DEF Has
  <2> QED  BY <1>3, <2>1 DEF Tells, r, m
<1>4. ASSUME NEW i, IsLatest(q, i), q[i].owned <=> b PROVE Tells(r, e, b)
  <2>1. i \in 1 .. Len(q)
    BY <1>1, <1>4 DEF IsLatest
  <2>2. CASE i = 1
    <3>1. ~Has(r, "NameOwnerChanged")
      <4> SUFFICES ASSUME NEW j \in DOMAIN r, r[j].type = "NameOwnerChanged" PROVE FALSE
        BY DEF Has
      <4>1. j + 1 \in DOMAIN q /\ q[j + 1].type = "NameOwnerChanged" /\ ~(j + 1 <= 1)
        BY <1>1, <1>2
      <4> QED  BY <1>4, <2>2, <4>1 DEF IsLatest
    <3>2. m.type = "NameOwnerChanged" /\ (m.owned <=> b)
      BY <1>1, <1>4, <2>2 DEF IsLatest
    <3> QED  BY <3>1, <3>2 DEF Tells
  <2>3. CASE i # 1
    <3>1. i - 1 \in DOMAIN r /\ (i - 1) + 1 = i
      BY <1>1, <2>1, <2>3
    <3>2. r[i - 1] = q[i]
      BY <1>2, <3>1
    <3>3. ASSUME NEW j \in DOMAIN r, r[j].type = "NameOwnerChanged" PROVE j <= i - 1
      <4>1. j + 1 \in DOMAIN q /\ q[j + 1].type = "NameOwnerChanged"
        BY <1>2, <3>3
      <4>2. j + 1 <= i
        BY <1>4, <4>1 DEF IsLatest
      <4> QED  BY <1>1, <2>1, <4>2
    <3>4. IsLatest(r, i - 1)
      BY <1>4, <3>1, <3>2, <3>3 DEF IsLatest
    <3> QED  BY <1>4, <3>2, <3>4 DEF Tells, IsLatest
  <2> QED  BY <2>2, <2>3
<1> QED  BY <1>3, <1>4 DEF Tells, r, m

\* The latest signal is the one Believed chooses.
LEMMA TellsBelieved ==
    ASSUME NEW c \in Clients, fromBus[c] \in Seq(Messages), qtOwner[c] \in BOOLEAN,
           NEW b \in BOOLEAN, Tells(fromBus[c], qtOwner[c], b)
    PROVE  Believed(c) = b
<1> DEFINE q == fromBus[c]
           S == {i \in DOMAIN q : q[i].type = "NameOwnerChanged"}
           k == CHOOSE i \in S : \A j \in S : j <= i
<1>1. Believed(c) = IF S = {} THEN qtOwner[c] ELSE q[k].owned
  BY DEF Believed, Where, isInterfaceConnected
<1>2. CASE ~Has(q, "NameOwnerChanged") /\ (qtOwner[c] <=> b)
  <2>1. S = {}
    BY <1>2 DEF Has
  <2>2. qtOwner[c] = b
    BY <1>2
  <2> QED  BY <1>1, <2>1, <2>2
<1>3. ASSUME NEW i, IsLatest(q, i), q[i].owned <=> b PROVE Believed(c) = b
  <2>1. i \in S /\ \A j \in S : j <= i
    BY <1>3 DEF IsLatest
  <2>2. k \in S /\ \A j \in S : j <= k
    BY <2>1
  <2>3. DOMAIN q = 1 .. Len(q) /\ Len(q) \in Nat
    BY LenProperties
  <2> HIDE DEF k
  <2>4. k = i
    <3>1. k <= i /\ i <= k /\ k \in Nat /\ i \in Nat
      BY <2>1, <2>2, <2>3
    <3> QED  BY <3>1
  <2>5. q[i] \in Messages /\ q[i].type = "NameOwnerChanged"
    BY <2>1, LenProperties
  <2>6. q[i].owned \in BOOLEAN
    BY <2>5, MessageFields
  <2>7. q[i].owned = b
    BY <1>3, <2>6
  <2> QED  BY <1>1, <2>1, <2>4, <2>7
<1> QED  BY <1>2, <1>3 DEF Tells

----------------------------------------------------------------------------
(* What the daemon writes, queue by queue.                                 *)

Streams == [Procs -> Seq(Messages)]

\* A message to p reaches p if it lives, and nobody else.
LEMMA DeliverTo ==
    ASSUME NEW q \in Streams, NEW p \in Procs, NEW m \in Messages
    PROVE  /\ Deliver(q, p, m) \in Streams
           /\ \A x \in Procs : Deliver(q, p, m)[x] = IF x = p /\ Alive(p) THEN Append(q[x], m) ELSE q[x]
<1>1. q[p] \in Seq(Messages) /\ Append(q[p], m) \in Seq(Messages)
  BY AppendProperties DEF Streams
<1> QED  BY <1>1 DEF Deliver, Streams

\* A change of the owner reaches the clients that watch.
LEMMA BroadcastTo ==
    ASSUME NEW q \in Streams, NEW b \in BOOLEAN
    PROVE  /\ Broadcast(q, b) \in Streams
           /\ \A x \in Procs : Broadcast(q, b)[x] = IF Watching(x) THEN Append(q[x], OwnerChanged(b)) ELSE q[x]
<1>1. OwnerChanged(b) \in Messages
  BY DEF OwnerChanged, Messages, Signals
<1>2. \A x \in Procs : q[x] \in Seq(Messages) /\ Append(q[x], OwnerChanged(b)) \in Seq(Messages)
  BY <1>1, AppendProperties DEF Streams
<1> QED  BY <1>2 DEF Broadcast, Streams

\* What the other proofs know of the variables.
LEMMA Types ==
    ASSUME IInv
    PROVE  /\ toBus \in Streams /\ fromBus \in Streams /\ owners \in Seq(Servers)
           /\ lib \in [Clients -> LibStates] /\ qtOwner \in [Clients -> BOOLEAN]
           /\ spc \in [Servers -> ServerStates] /\ configured \in [Servers -> BOOLEAN]
           /\ DOMAIN owners = 1 .. Len(owners) /\ Len(owners) \in Nat
           /\ \A s \in Servers : s \in Procs /\ s \notin Clients /\ toBus[s] \in Seq(Messages)
                                 /\ fromBus[s] \in Seq(Messages)
           /\ \A c \in Clients : c \in Procs /\ c \notin Servers /\ toBus[c] \in Seq(Messages)
                                 /\ fromBus[c] \in Seq(Messages)
<1>1. owners \in Seq(Servers)
  BY DEF IInv, TypeOK
<1>2. DOMAIN owners = 1 .. Len(owners) /\ Len(owners) \in Nat
  BY <1>1, LenProperties
<1> QED  BY <1>1, <1>2, SetsAssumption DEF IInv, TypeOK, Streams, Procs

----------------------------------------------------------------------------
(* What keeps the invariant of one server and of one client.               *)

\* A server stays as it is, but for what the daemon reads from it and writes
\* to it, and for leaving the queue of owners; only owners are sent calls.
ServerFrame(s) ==
    /\ spc'[s] = spc[s] /\ configured'[s] = configured[s]
    /\ s \in attached' => s \in attached
    /\ Owns(s)' => Owns(s)
    /\ toBus'[s] \in {toBus[s], <<>>} \/ (toBus[s] # <<>> /\ toBus'[s] = Tail(toBus[s]))
    /\ \/ fromBus'[s] = fromBus[s]
       \/ /\ Alive(s)
          /\ \E m \in Messages : /\ fromBus'[s] = Append(fromBus[s], m)
                                 /\ m.type = "call" => Owns(s)

\* Another message in the queue of a server that waits for its name.
LEMMA ReplyStaysAhead ==
    ASSUME NEW q \in Seq(Messages), CallsAfterReply(q), NEW m \in Messages,
           m.type = "call" => Has(q, "NameReply")
    PROVE  /\ CallsAfterReply(Append(q, m))
           /\ Has(q, "NameReply") => Has(Append(q, m), "NameReply")
           /\ m.type = "NameReply" => Has(Append(q, m), "NameReply")
<1> DEFINE r == Append(q, m)
<1>1. /\ DOMAIN q = 1 .. Len(q) /\ Len(q) \in Nat /\ DOMAIN r = 1 .. Len(q) + 1
      /\ r[Len(q) + 1] = m /\ \A i \in 1 .. Len(q) : r[i] = q[i]
  BY QueueMoves
<1> HIDE DEF r
<1>2. Has(q, "NameReply") => Has(r, "NameReply")
  BY <1>1 DEF Has
<1>3. m.type = "NameReply" => Has(r, "NameReply")
  BY <1>1 DEF Has
<1>4. ASSUME NEW i \in DOMAIN r, r[i].type = "call"
      PROVE  \E j \in 1 .. i - 1 : r[j].type = "NameReply"
  <2>1. CASE i \in 1 .. Len(q)
    <3>1. PICK j \in 1 .. i - 1 : q[j].type = "NameReply"
      BY <1>1, <1>4, <2>1 DEF CallsAfterReply
    <3>2. j \in 1 .. Len(q)
      BY <1>1, <2>1
    <3> QED  BY <1>1, <3>1, <3>2
  <2>2. CASE i = Len(q) + 1
    <3>1. PICK j \in DOMAIN q : q[j].type = "NameReply"
      BY <1>1, <1>4, <2>2 DEF Has
    <3>2. j \in 1 .. i - 1 /\ r[j] = q[j]
      BY <1>1, <2>2
    <3> QED  BY <3>1, <3>2
  <2> QED  BY <1>1, <2>1, <2>2
<1> QED  BY <1>2, <1>3, <1>4 DEF CallsAfterReply, r

\* After the first message is read RequestName is not under way.
LEMMA AsksOnceKept ==
    ASSUME NEW q \in Seq(Messages), \A i \in DOMAIN q : q[i].type = "RequestName" => i = 1,
           q # <<>>
    PROVE  \A i \in DOMAIN Tail(q) : Tail(q)[i].type # "RequestName"
<1>1. /\ DOMAIN q = 1 .. Len(q) /\ Len(q) \in Nat /\ DOMAIN Tail(q) = 1 .. Len(q) - 1
      /\ \A i \in 1 .. Len(q) - 1 : Tail(q)[i] = q[i + 1]
  BY QueueMoves DEF Messages, RequestName
<1>2. ASSUME NEW i \in DOMAIN Tail(q), Tail(q)[i].type = "RequestName" PROVE FALSE
  <2>1. i + 1 \in DOMAIN q /\ q[i + 1].type = "RequestName" /\ i + 1 # 1
    BY <1>1, <1>2
  <2> QED  BY <2>1
<1> QED  BY <1>2

\* The invariant of a server, through what others do.
LEMMA ServerKept ==
    ASSUME IInv, NEW s \in Servers, ServerInv(s), ServerFrame(s)
    PROVE  ServerInv(s)'
<1>1. s \notin Clients /\ toBus[s] \in Seq(Messages) /\ fromBus[s] \in Seq(Messages)
  BY Types
<1>2. spc[s] = "off" => s \notin attached' /\ toBus'[s] = <<>> /\ fromBus'[s] = <<>>
  BY <1>1 DEF ServerInv, AsksOnce, ServerFrame, Alive
<1>3. \A i \in DOMAIN toBus'[s] : toBus'[s][i].type = "RequestName" => i = 1 /\ ~Owns(s)'
  <2>1. CASE toBus'[s] = toBus[s]
    BY <2>1 DEF ServerInv, AsksOnce, ServerFrame
  <2>2. CASE toBus'[s] = <<>>
    BY <2>2
  <2>3. CASE toBus[s] # <<>> /\ toBus'[s] = Tail(toBus[s])
    BY <1>1, <2>3, AsksOnceKept DEF ServerInv, AsksOnce
  <2> QED  BY <2>1, <2>2, <2>3 DEF ServerFrame
<1>4. AsksOnce(s)'
  BY <1>2, <1>3 DEF AsksOnce, ServerFrame
<1>5. ASSUME spc[s] = "requesting"
      PROVE  CallsAfterReply(fromBus'[s]) /\ (Owns(s)' => Has(fromBus'[s], "NameReply"))
  <2>1. CallsAfterReply(fromBus[s]) /\ (Owns(s) => Has(fromBus[s], "NameReply"))
    BY <1>5 DEF ServerInv, Prepared
  <2>2. CASE fromBus'[s] = fromBus[s]
    BY <2>1, <2>2 DEF ServerFrame
  <2>3. ASSUME NEW m \in Messages, fromBus'[s] = Append(fromBus[s], m), m.type = "call" => Owns(s)
        PROVE  CallsAfterReply(fromBus'[s]) /\ (Owns(s)' => Has(fromBus'[s], "NameReply"))
    BY <1>1, <2>1, <2>3, ReplyStaysAhead DEF ServerFrame
  <2> QED  BY <2>2, <2>3 DEF ServerFrame
<1>6. Prepared(s)'
  BY <1>5 DEF Prepared, ServerInv, ServerFrame
<1> QED  BY <1>4, <1>6 DEF ServerInv

\* A client stays as it is, but for messages from the daemon: it hears the
\* change of the owner if there is one.
ClientFrame(c) ==
    /\ lib'[c] = lib[c] /\ qtOwner'[c] = qtOwner[c] /\ (busUp' => busUp)
    /\ lib[c] = "ready" /\ busUp' /\ c \in attached => c \in attached'
    /\ \/ /\ owners' # <<>> <=> owners # <<>>
          /\ \/ fromBus'[c] = fromBus[c]
             \/ /\ Alive(c)
                /\ \E m \in Messages : /\ m.type # "NameOwnerChanged"
                                       /\ fromBus'[c] = Append(fromBus[c], m)
       \/ fromBus'[c] = IF Watching(c) THEN Append(fromBus[c], OwnerChanged(owners' # <<>>)) ELSE fromBus[c]
       \/ ~busUp' /\ fromBus'[c] = fromBus[c]

\* The invariant of a client, through what others do.
LEMMA ClientKept ==
    ASSUME IInv, NEW c \in Clients, ClientInv(c), ClientFrame(c)
    PROVE  ClientInv(c)'
<1>1. fromBus[c] \in Seq(Messages)
  BY Types
<1>2. lib[c] = "none" => fromBus'[c] = <<>>
  BY DEF ClientInv, ClientFrame, Alive, Watching
<1>3. ASSUME lib[c] = "ready", busUp' PROVE Tells(fromBus'[c], qtOwner[c], owners' # <<>>)
  <2> DEFINE b == owners # <<>>
             e == owners' # <<>>
  <2>1. Alive(c) /\ c \in attached /\ Tells(fromBus[c], qtOwner[c], b) /\ Watching(c)
    BY <1>3 DEF ClientInv, ClientFrame, Alive, Watching
  <2>2. b \in BOOLEAN /\ e \in BOOLEAN
    OBVIOUS
  <2>3. \/ (e <=> b) /\ fromBus'[c] = fromBus[c]
        \/ (e <=> b) /\ \E m \in Messages : /\ m.type # "NameOwnerChanged"
                                            /\ fromBus'[c] = Append(fromBus[c], m)
        \/ fromBus'[c] = Append(fromBus[c], OwnerChanged(e))
    BY <1>3, <2>1 DEF ClientFrame
  <2> HIDE DEF b, e
  <2>4. (e <=> b) => e = b
    BY <2>2
  <2>5. CASE e = b /\ fromBus'[c] = fromBus[c]
    BY <2>1, <2>5 DEF e
  <2>6. ASSUME e = b, NEW m \in Messages, m.type # "NameOwnerChanged", fromBus'[c] = Append(fromBus[c], m)
        PROVE  Tells(fromBus'[c], qtOwner[c], e)
    BY <1>1, <2>1, <2>6, TellsMore
  <2>7. CASE fromBus'[c] = Append(fromBus[c], OwnerChanged(e))
    BY <1>1, <2>2, <2>7, TellsSignal DEF e
  <2> QED  BY <2>3, <2>4, <2>5, <2>6, <2>7 DEF e
<1>4. lib[c] = "ready" /\ busUp' => c \in attached'
  BY DEF ClientInv, ClientFrame
<1> QED  BY <1>2, <1>3, <1>4 DEF ClientInv, ClientFrame

----------------------------------------------------------------------------
(* The initial state, and the steps of one process.                        *)

\* Nothing is connected, and every queue is empty.
LEMMA InitJInv == Init => JInv
<1> SUFFICES ASSUME Init PROVE JInv
  OBVIOUS
<1>1. DOMAIN owners = {} /\ owners = <<>>
  BY DEF Init
<1>2. ASSUME NEW s \in Servers PROVE ServerInv(s)
  <2>1. spc[s] = "off" /\ s \notin attached /\ toBus[s] = <<>> /\ fromBus[s] = <<>>
    BY DEF Init, Procs
  <2> QED  BY <2>1 DEF ServerInv, AsksOnce, Prepared
<1>3. ASSUME NEW c \in Clients PROVE ClientInv(c)
  BY DEF Init, Procs, ClientInv
<1> QED  BY <1>1, <1>2, <1>3 DEF JInv, OwnersAreConnected

\* Server by server and client by client.
LEMMA JInvNext ==
    ASSUME IInv, JInv, OwnersAreConnected',
           \A s \in Servers : ServerFrame(s) \/ ServerInv(s)',
           \A c \in Clients : ClientFrame(c) \/ ClientInv(c)'
    PROVE  JInv'
<1>1. ASSUME NEW s \in Servers PROVE ServerInv(s)'
  BY ServerKept DEF JInv
<1>2. ASSUME NEW c \in Clients PROVE ClientInv(c)'
  BY ClientKept DEF JInv
<1> QED  BY <1>1, <1>2 DEF JInv

\* p takes a step of its own: it may connect, read its queue and write to it.
LocalStep(p) ==
    /\ UNCHANGED <<busUp, owners>>
    /\ attached \subseteq attached' /\ attached' \subseteq attached \cup {p}
    /\ \A x \in Procs \ {p} : toBus'[x] = toBus[x] /\ fromBus'[x] = fromBus[x]
    /\ \A c \in Clients \ {p} : lib'[c] = lib[c] /\ qtOwner'[c] = qtOwner[c]
    /\ \A s \in Servers \ {p} : spc'[s] = spc[s] /\ configured'[s] = configured[s]

\* It disturbs nobody else.
LEMMA LocalStepKeeps ==
    ASSUME IInv, JInv, NEW p \in Procs, LocalStep(p),
           p \in Clients => ClientInv(p)', p \in Servers => ServerInv(p)'
    PROVE  JInv'
<1>1. OwnersAreConnected'
  BY DEF JInv, OwnersAreConnected, LocalStep
<1>2. ASSUME NEW s \in Servers, s # p PROVE ServerFrame(s)
  <2>1. s \in Procs \ {p}
    BY <1>2 DEF Procs
  <2> QED  BY <1>2, <2>1 DEF ServerFrame, LocalStep, Owns
<1>3. ASSUME NEW c \in Clients, c # p PROVE ClientFrame(c)
  <2>1. c \in Procs \ {p}
    BY <1>3 DEF Procs
  <2> QED  BY <1>3, <2>1 DEF ClientFrame, LocalStep
<1>4. \A s \in Servers : ServerFrame(s) \/ ServerInv(s)'
  BY <1>2
<1>5. \A c \in Clients : ClientFrame(c) \/ ClientInv(c)'
  BY <1>3
<1> QED  BY <1>1, <1>4, <1>5, JInvNext

\* A client that sees nothing, or is of no interest any more.
LEMMA ClientSame ==
    ASSUME JInv, NEW c \in Clients, UNCHANGED <<busUp, owners, attached, fromBus, qtOwner>>,
           lib'[c] = lib[c] \/ lib'[c] \in {"nopointer", "undefined"}
    PROVE  ClientInv(c)'
<1>1. ClientInv(c)
  BY DEF JInv
<1> QED  BY <1>1 DEF ClientInv

\* The three constructors: the interface looks the owner up and then watches.
LEMMA ConstructJ ==
    ASSUME IInv, JInv, NEW c \in Clients,
           Construct(c) \/ ConstructNoBus(c) \/ ConstructDefault(c)
    PROVE  JInv'
<1>1. c \in Procs /\ c \notin Servers /\ lib \in [Clients -> LibStates] /\ qtOwner \in [Clients -> BOOLEAN]
  BY Types
<1>2. LocalStep(c)
  BY <1>1 DEF LocalStep, Construct, ConstructNoBus, ConstructDefault, serverVars, busVars, chanVars
<1>3. ClientInv(c)'
  <2>1. CASE Construct(c)
    <3>1. fromBus[c] = <<>>
      BY <2>1 DEF Construct, JInv, ClientInv
    <3>2. /\ lib'[c] = "ready" /\ c \in attached' /\ fromBus'[c] = <<>> /\ owners' = owners
          /\ qtOwner'[c] = (owners # <<>>)
      BY <1>1, <2>1, <3>1 DEF Construct, chanVars
    <3>3. ~Has(<<>>, "NameOwnerChanged")
      BY DEF Has
    <3>4. Tells(fromBus'[c], qtOwner'[c], owners' # <<>>)
      BY <3>2, <3>3 DEF Tells
    <3> QED  BY <3>2, <3>4 DEF ClientInv
  <2>2. CASE ConstructNoBus(c) \/ ConstructDefault(c)
    BY <1>1, <2>2, ClientSame DEF ConstructNoBus, ConstructDefault, busVars, chanVars
  <2> QED  BY <2>1, <2>2
<1> QED  BY <1>1, <1>2, <1>3, LocalStepKeeps

\* A call, or the use of an interface that was never assigned.
LEMMA LibCallJ ==
    ASSUME IInv, JInv, NEW c \in Clients, NEW m, NEW a,
           Refuse(c, m, a) \/ Send(c, m, a) \/ UseOfUnassigned(c)
    PROVE  JInv'
<1>1. c \in Procs /\ c \notin Servers /\ lib \in [Clients -> LibStates] /\ toBus \in Streams
  BY Types
<1>2. \A x \in Procs \ {c} : toBus'[x] = toBus[x]
  BY <1>1 DEF Refuse, Send, UseOfUnassigned, chanVars, Streams
<1>3. /\ UNCHANGED <<busUp, owners, attached, fromBus, qtOwner, spc, configured>>
      /\ lib' = lib \/ lib' = [lib EXCEPT ![c] = "undefined"]
  BY DEF Refuse, Send, UseOfUnassigned, chanVars, busVars, libVars, serverVars
<1>4. LocalStep(c)
  BY <1>1, <1>2, <1>3 DEF LocalStep
<1>5. ClientInv(c)'
  BY <1>1, <1>3, ClientSame
<1> QED  BY <1>1, <1>4, <1>5, LocalStepKeeps

\* QtDBus reads a message, and believes it if it is about the owner.
LEMMA ReceiveJ ==
    ASSUME IInv, JInv, NEW c \in Clients, Receive(c)
    PROVE  JInv'
<1> DEFINE m == Head(fromBus[c])
           e == IF m.type = "NameOwnerChanged" THEN m.owned ELSE qtOwner[c]
<1>1. /\ c \in Procs /\ c \notin Servers /\ fromBus \in Streams /\ qtOwner \in [Clients -> BOOLEAN]
      /\ fromBus[c] \in Seq(Messages)
  BY Types
<1>2. /\ lib[c] = "ready" /\ fromBus[c] # <<>>
      /\ fromBus' = [fromBus EXCEPT ![c] = Tail(fromBus[c])]
      /\ qtOwner' = IF m.type = "NameOwnerChanged" THEN [qtOwner EXCEPT ![c] = m.owned] ELSE qtOwner
      /\ UNCHANGED <<lib, spc, configured, busUp, attached, owners, toBus>>
  BY DEF Receive, serverVars, busVars
<1>3. fromBus'[c] = Tail(fromBus[c]) /\ \A x \in Procs \ {c} : fromBus'[x] = fromBus[x]
  BY <1>1, <1>2 DEF Streams
<1> HIDE DEF m
<1>4. qtOwner'[c] = e /\ \A d \in Clients \ {c} : qtOwner'[d] = qtOwner[d]
  BY <1>1, <1>2
<1>5. LocalStep(c)
  BY <1>2, <1>3, <1>4 DEF LocalStep
<1>6. ASSUME busUp PROVE c \in attached /\ Tells(Tail(fromBus[c]), e, owners # <<>>)
  <2>1. c \in attached /\ Tells(fromBus[c], qtOwner[c], owners # <<>>)
    BY <1>2, <1>6 DEF JInv, ClientInv
  <2> QED  BY <1>1, <1>2, <2>1, TellsRead DEF m
<1> HIDE DEF e
<1>7. ClientInv(c)'
  BY <1>2, <1>3, <1>4, <1>6 DEF ClientInv
<1> QED  BY <1>1, <1>5, <1>7, LocalStepKeeps

\* A program ends.
LEMMA ExitJ ==
    ASSUME IInv, JInv, NEW c \in Clients, Exit(c)
    PROVE  JInv'
<1>1. c \in Procs /\ c \notin Servers /\ fromBus \in Streams /\ lib \in [Clients -> LibStates]
  BY Types
<1>2. /\ lib'[c] = "exited" /\ \A d \in Clients \ {c} : lib'[d] = lib[d]
      /\ \A x \in Procs \ {c} : fromBus'[x] = fromBus[x]
      /\ UNCHANGED <<qtOwner, spc, configured, busUp, attached, owners, toBus>>
  BY <1>1 DEF Exit, serverVars, busVars, Streams
<1>3. LocalStep(c)
  BY <1>2 DEF LocalStep
<1>4. ClientInv(c)'
  BY <1>2 DEF ClientInv
<1> QED  BY <1>1, <1>3, <1>4, LocalStepKeeps
----------------------------------------------------------------------------
(* The servers.                                                            *)

\* What else a server writes is no second request.
LEMMA WritesMore ==
    ASSUME NEW q \in Seq(Messages), NEW m \in Messages, m.type # "RequestName",
           NEW i \in DOMAIN Append(q, m), Append(q, m)[i].type = "RequestName"
    PROVE  i \in DOMAIN q /\ q[i].type = "RequestName"
<1>1. /\ DOMAIN q = 1 .. Len(q) /\ Len(q) \in Nat /\ DOMAIN Append(q, m) = 1 .. Len(q) + 1
      /\ Append(q, m)[Len(q) + 1] = m /\ \A j \in 1 .. Len(q) : Append(q, m)[j] = q[j]
  BY QueueMoves
<1> QED  BY <1>1

\* Main connects and writes the request; it has not been there before.
LEMMA ServerStartJ ==
    ASSUME IInv, JInv, NEW s \in Servers, ServerStart(s)
    PROVE  JInv'
<1>1. /\ s \in Procs /\ s \notin Clients /\ toBus \in Streams /\ spc \in [Servers -> ServerStates]
      /\ DOMAIN owners = 1 .. Len(owners)
  BY Types
<1>2. spc[s] = "off" /\ s \notin attached /\ toBus[s] = <<>> /\ fromBus[s] = <<>>
  BY DEF ServerStart, JInv, ServerInv, AsksOnce
<1>3. ~Owns(s)
  BY <1>2 DEF Owns, JInv, OwnersAreConnected
<1>4. /\ spc'[s] = "requesting" /\ \A t \in Servers \ {s} : spc'[t] = spc[t]
      /\ toBus'[s] = <<RequestName>> /\ \A x \in Procs \ {s} : toBus'[x] = toBus[x]
      /\ attached' = attached \cup {s}
      /\ UNCHANGED <<lib, qtOwner, configured, busUp, owners, fromBus>>
  BY <1>1, <1>2 DEF ServerStart, Streams, libVars
<1>5. LocalStep(s)
  BY <1>4 DEF LocalStep
<1>6. ~Owns(s)'
  BY <1>3, <1>4 DEF Owns
<1>7. DOMAIN <<RequestName>> = {1} /\ DOMAIN <<>> = {}
  OBVIOUS
<1>8. AsksOnce(s)'
  BY <1>4, <1>6, <1>7 DEF AsksOnce
<1>9. Prepared(s)'
  BY <1>2, <1>4, <1>6, <1>7 DEF Prepared, CallsAfterReply
<1> QED  BY <1>1, <1>5, <1>8, <1>9, LocalStepKeeps DEF ServerInv

\* Reading a message that is not the reply leaves the reply ahead of the calls.
LEMMA ReadBeforeReply ==
    ASSUME NEW q \in Seq(Messages), q # <<>>, CallsAfterReply(q), Head(q).type # "NameReply"
    PROVE  /\ CallsAfterReply(Tail(q)) /\ Head(q).type # "call"
           /\ Has(q, "NameReply") => Has(Tail(q), "NameReply")
<1>1. /\ DOMAIN q = 1 .. Len(q) /\ Len(q) \in Nat /\ DOMAIN Tail(q) = 1 .. Len(q) - 1
      /\ Head(q) = q[1] /\ 1 \in DOMAIN q /\ \A i \in 1 .. Len(q) - 1 : Tail(q)[i] = q[i + 1]
  BY QueueMoves DEF Messages, RequestName
<1>2. Head(q).type # "call"
  <2>1. \A j \in 1 .. 1 - 1 : FALSE
    OBVIOUS
  <2> QED  BY <1>1, <2>1 DEF CallsAfterReply
<1>3. ASSUME NEW j \in 1 .. Len(q), q[j].type = "NameReply"
      PROVE  j - 1 \in 1 .. Len(q) - 1 /\ Tail(q)[j - 1].type = "NameReply"
  <2>1. j # 1
    BY <1>1, <1>3
  <2>2. j - 1 \in 1 .. Len(q) - 1 /\ (j - 1) + 1 = j
    BY <1>1, <2>1
  <2> QED  BY <1>1, <1>3, <2>2
<1>4. Has(q, "NameReply") => Has(Tail(q), "NameReply")
  BY <1>1, <1>3 DEF Has
<1>5. ASSUME NEW i \in DOMAIN Tail(q), Tail(q)[i].type = "call"
      PROVE  \E j \in 1 .. i - 1 : Tail(q)[j].type = "NameReply"
  <2>1. i + 1 \in DOMAIN q /\ q[i + 1].type = "call"
    BY <1>1, <1>5
  <2>2. PICK j \in 1 .. (i + 1) - 1 : q[j].type = "NameReply"
    BY <2>1 DEF CallsAfterReply
  <2>3. j \in 1 .. Len(q)
    BY <1>1, <1>5
  <2>4. Tail(q)[j - 1].type = "NameReply" /\ j - 1 \in 1 .. Len(q) - 1
    BY <1>3, <2>2, <2>3
  <2>5. j - 1 \in 1 .. i - 1
    BY <1>1, <1>5, <2>4
  <2> QED  BY <2>4, <2>5
<1> QED  BY <1>2, <1>4, <1>5 DEF CallsAfterReply

\* Main waits for the reply to RequestName: no call is met before it.
LEMMA ServerAwaitNameJ ==
    ASSUME IInv, JInv, NEW s \in Servers, ServerAwaitName(s)
    PROVE  JInv'
<1> DEFINE q == fromBus[s]
<1>1. /\ s \in Procs /\ s \notin Clients /\ fromBus \in Streams /\ q \in Seq(Messages)
      /\ spc \in [Servers -> ServerStates] /\ configured \in [Servers -> BOOLEAN] /\ toBus \in Streams
  BY Types
<1>2. /\ spc[s] = "requesting" /\ q # <<>> /\ fromBus' = [fromBus EXCEPT ![s] = Tail(q)]
      /\ UNCHANGED <<lib, qtOwner, busUp, attached, owners>>
  BY DEF ServerAwaitName, libVars, busVars
<1>3. fromBus'[s] = Tail(q) /\ \A x \in Procs \ {s} : fromBus'[x] = fromBus[x]
  BY <1>1, <1>2 DEF Streams
<1>4. AsksOnce(s) /\ CallsAfterReply(q) /\ (Owns(s) => Has(q, "NameReply"))
  BY <1>2 DEF JInv, ServerInv, Prepared
<1>5. Owns(s)' <=> Owns(s)
  BY <1>2 DEF Owns
<1>6. CASE Head(q).type = "NameReply"
  <2>1. /\ spc'[s] = "running" /\ configured'[s] /\ toBus' = toBus
        /\ \A t \in Servers \ {s} : spc'[t] = spc[t] /\ configured'[t] = configured[t]
    BY <1>1, <1>6 DEF ServerAwaitName
  <2>2. LocalStep(s)
    BY <1>2, <1>3, <2>1 DEF LocalStep
  <2>3. ServerInv(s)'
    BY <1>4, <1>5, <2>1 DEF ServerInv, AsksOnce, Prepared
  <2> QED  BY <1>1, <2>2, <2>3, LocalStepKeeps
<1>7. CASE Head(q).type # "NameReply"
  <2>1. /\ CallsAfterReply(Tail(q)) /\ Head(q).type # "call"
        /\ Has(q, "NameReply") => Has(Tail(q), "NameReply")
    BY <1>1, <1>2, <1>4, <1>7, ReadBeforeReply
  <2>2. UNCHANGED <<spc, configured, toBus>>
    BY <1>7, <2>1 DEF ServerAwaitName
  <2>3. LocalStep(s)
    BY <1>2, <1>3, <2>2 DEF LocalStep
  <2>4. ServerInv(s)'
    BY <1>2, <1>3, <1>4, <1>5, <2>1, <2>2 DEF ServerInv, AsksOnce, Prepared
  <2> QED  BY <1>1, <2>3, <2>4, LocalStepKeeps
<1> QED  BY <1>6, <1>7

\* A configured server stays configured, whatever it reads and writes.
LEMMA ConfiguredStays ==
    ASSUME IInv, JInv, NEW s \in Servers, configured'[s] = configured[s], owners' = owners,
           spc[s] \in {"running", "serving"}, spc'[s] \in {"running", "serving", "dead"},
           \A i \in DOMAIN toBus'[s] : toBus'[s][i].type = "RequestName" =>
               i \in DOMAIN toBus[s] /\ toBus[s][i].type = "RequestName"
    PROVE  ServerInv(s)'
<1>1. configured[s] /\ \A i \in DOMAIN toBus[s] : toBus[s][i].type = "RequestName" => i = 1 /\ ~Owns(s)
  BY DEF JInv, ServerInv, Prepared, AsksOnce
<1>2. Owns(s)' <=> Owns(s)
  BY DEF Owns
<1> QED  BY <1>1, <1>2 DEF ServerInv, AsksOnce, Prepared

\* bus.Iterate reads a message.
LEMMA ServerIterateJ ==
    ASSUME IInv, JInv, NEW s \in Servers, ServerIterate(s)
    PROVE  JInv'
<1>1. /\ s \in Procs /\ s \notin Clients /\ fromBus \in Streams /\ spc \in [Servers -> ServerStates]
  BY Types
<1>2. /\ spc[s] = "running" /\ spc'[s] \in {"running", "serving"}
      /\ \A t \in Servers \ {s} : spc'[t] = spc[t]
      /\ \A x \in Procs \ {s} : fromBus'[x] = fromBus[x]
      /\ UNCHANGED <<lib, qtOwner, busUp, attached, owners, configured, toBus>>
  BY <1>1 DEF ServerIterate, libVars, busVars, Streams
<1>3. LocalStep(s)
  BY <1>2 DEF LocalStep
<1>4. ServerInv(s)'
  BY <1>2, ConfiguredStays
<1> QED  BY <1>1, <1>3, <1>4, LocalStepKeeps

\* A method of SapServerQuery ends.
LEMMA ServerReplyJ ==
    ASSUME IInv, JInv, NEW s \in Servers, ServerReply(s)
    PROVE  JInv'
<1>1. /\ s \in Procs /\ s \notin Clients /\ fromBus \in Streams /\ toBus \in Streams
      /\ spc \in [Servers -> ServerStates] /\ toBus[s] \in Seq(Messages)
  BY Types
<1>2. /\ spc[s] = "serving" /\ spc'[s] \in {"running", "dead"}
      /\ \A t \in Servers \ {s} : spc'[t] = spc[t]
      /\ UNCHANGED <<lib, qtOwner, busUp, attached, owners, configured>>
  BY <1>1 DEF ServerReply, libVars, busVars
<1>3. \A x \in Procs \ {s} : toBus'[x] = toBus[x] /\ fromBus'[x] = fromBus[x]
  BY <1>1 DEF ServerReply, Streams
<1>4. LocalStep(s)
  BY <1>2, <1>3 DEF LocalStep
<1>5. \/ toBus' = toBus
      \/ \E q \in serving[s] : toBus'[s] = Append(toBus[s], Result(s, q))
  BY <1>1 DEF ServerReply, Streams
<1>6. ASSUME NEW q \in serving[s] PROVE Result(s, q) \in Messages /\ Result(s, q).type # "RequestName"
  <2>1. Result(s, q) \in Messages
    BY ResultIsKnown
  <2>2. Result(s, q).type \in {"error", "return"}
    BY DEF Result, Error, PingResult, QueryResult, Return
  <2> QED  BY <2>1, <2>2
<1>7. \A i \in DOMAIN toBus'[s] : toBus'[s][i].type = "RequestName" =>
          i \in DOMAIN toBus[s] /\ toBus[s][i].type = "RequestName"
  <2>1. ASSUME NEW q \in serving[s], toBus'[s] = Append(toBus[s], Result(s, q)),
               NEW i \in DOMAIN toBus'[s], toBus'[s][i].type = "RequestName"
        PROVE  i \in DOMAIN toBus[s] /\ toBus[s][i].type = "RequestName"
    BY <1>1, <1>6, <2>1, WritesMore
  <2> QED  BY <1>5, <2>1
<1>8. ServerInv(s)'
  BY <1>2, <1>7, ConfiguredStays
<1> QED  BY <1>1, <1>4, <1>8, LocalStepKeeps

\* A server ends.  It may still be an owner, and its request under way.
LEMMA ServerCrashJ ==
    ASSUME IInv, JInv, NEW s \in Servers, ServerCrash(s)
    PROVE  JInv'
<1>1. s \in Procs /\ s \notin Clients /\ fromBus \in Streams /\ spc \in [Servers -> ServerStates]
  BY Types
<1>2. /\ spc'[s] = "dead" /\ \A t \in Servers \ {s} : spc'[t] = spc[t]
      /\ \A x \in Procs \ {s} : fromBus'[x] = fromBus[x]
      /\ UNCHANGED <<lib, qtOwner, busUp, attached, owners, configured, toBus>>
  BY <1>1 DEF ServerCrash, libVars, busVars, Streams
<1>3. LocalStep(s)
  BY <1>2 DEF LocalStep
<1>4. \A i \in DOMAIN toBus[s] : toBus[s][i].type = "RequestName" => i = 1 /\ ~Owns(s)
  BY DEF JInv, ServerInv, AsksOnce
<1>5. ServerInv(s)'
  BY <1>2, <1>4 DEF ServerInv, AsksOnce, Prepared, Owns
<1> QED  BY <1>1, <1>3, <1>5, LocalStepKeeps
----------------------------------------------------------------------------
(* The daemon.                                                             *)

\* What the daemon reads: the first message of at most one connection.
Reads == \A x \in Procs : toBus'[x] = toBus[x] \/ (toBus[x] # <<>> /\ toBus'[x] = Tail(toBus[x]))

\* It writes one message, no signal about the owner, and a call only to an owner.
LEMMA DeliverKeeps ==
    ASSUME IInv, JInv, NEW p \in Procs, NEW m \in Messages, fromBus' = Deliver(fromBus, p, m),
           m.type # "NameOwnerChanged", m.type = "call" => Owns(p), Reads,
           UNCHANGED <<lib, qtOwner, spc, configured, busUp, attached, owners>>
    PROVE  JInv'
<1>1. fromBus \in Streams
  BY Types
<1>2. \A x \in Procs : fromBus'[x] = IF x = p /\ Alive(p) THEN Append(fromBus[x], m) ELSE fromBus[x]
  BY <1>1, DeliverTo
<1>3. OwnersAreConnected'
  BY DEF JInv, OwnersAreConnected
<1>4. ASSUME NEW s \in Servers PROVE ServerFrame(s)
  <2>1. s \in Procs
    BY DEF Procs
  <2>2. Owns(s)' <=> Owns(s)
    BY DEF Owns
  <2>3. toBus'[s] \in {toBus[s], <<>>} \/ (toBus[s] # <<>> /\ toBus'[s] = Tail(toBus[s]))
    BY <2>1 DEF Reads
  <2>4. CASE s = p /\ Alive(p)
    BY <1>2, <2>1, <2>2, <2>3, <2>4 DEF ServerFrame
  <2>5. CASE ~(s = p /\ Alive(p))
    BY <1>2, <2>1, <2>2, <2>3, <2>5 DEF ServerFrame
  <2> QED  BY <2>4, <2>5
<1>5. ASSUME NEW c \in Clients PROVE ClientFrame(c)
  <2>1. c \in Procs
    BY DEF Procs
  <2>2. CASE c = p /\ Alive(p)
    BY <1>2, <2>1, <2>2 DEF ClientFrame
  <2>3. CASE ~(c = p /\ Alive(p))
    BY <1>2, <2>1, <2>3 DEF ClientFrame
  <2> QED  BY <2>2, <2>3
<1>6. \A s \in Servers : ServerFrame(s) \/ ServerInv(s)'
  BY <1>4
<1>7. \A c \in Clients : ClientFrame(c) \/ ClientInv(c)'
  BY <1>5
<1> QED  BY <1>3, <1>6, <1>7, JInvNext

\* A call is forwarded to the primary owner or refused.
LEMMA DispatchCallJ ==
    ASSUME IInv, JInv, NEW p \in Procs, NEW m \in Messages, m.type = "call", DispatchCall(p, m),
           p \in Clients, Reads, UNCHANGED <<lib, qtOwner, spc, configured, busUp, attached>>
    PROVE  JInv'
<1>1. owners' = owners
  BY DEF DispatchCall
<1>2. m.serial \in Nat
  BY MessageFields DEF Calls
<1>3. Error(p, m.serial) \in Messages /\ Error(p, m.serial).type = "error"
  BY <1>2 DEF Error, Errors, Messages
<1>4. CASE fromBus' = Deliver(fromBus, p, Error(p, m.serial))
  BY <1>1, <1>3, <1>4, DeliverKeeps
<1>5. CASE owners # <<>> /\ fromBus' = Deliver(fromBus, PrimaryOwner, m)
  <2>1. owners \in Seq(Servers) /\ DOMAIN owners = 1 .. Len(owners)
    BY Types
  <2>2. 1 \in DOMAIN owners /\ PrimaryOwner = owners[1] /\ PrimaryOwner \in Servers
    BY <1>5, <2>1 DEF PrimaryOwner
  <2>3. Owns(PrimaryOwner) /\ PrimaryOwner \in Procs
    BY <2>2 DEF Owns, Procs
  <2> QED  BY <1>1, <1>5, <2>3, DeliverKeeps
<1> QED  BY <1>4, <1>5 DEF DispatchCall

\* A reply goes to its caller.
LEMMA DispatchReplyJ ==
    ASSUME IInv, JInv, NEW p \in Procs, NEW m \in Messages, m.type \in {"return", "error"},
           DispatchReply(p, m), Reads, UNCHANGED <<lib, qtOwner, spc, configured, busUp, attached>>
    PROVE  JInv'
<1>1. owners' = owners
  BY DEF DispatchReply
<1>2. m.serial \in Nat /\ m.client \in Clients /\ m.client \in Procs
  BY MessageFields DEF Returns, Errors, Procs
<1>3. Error(m.client, m.serial) \in Messages /\ Error(m.client, m.serial).type = "error"
  BY <1>2 DEF Error, Errors, Messages
<1>4. CASE fromBus' = Deliver(fromBus, m.client, m)
  BY <1>1, <1>2, <1>4, DeliverKeeps
<1>5. CASE fromBus' = Deliver(fromBus, p, Error(m.client, m.serial))
  BY <1>1, <1>3, <1>5, DeliverKeeps
<1> QED  BY <1>4, <1>5 DEF DispatchReply

\* A pending reply expires.
LEMMA ExpireJ ==
    ASSUME IInv, JInv, NEW r \in pending, Expire(r)
    PROVE  JInv'
<1>1. r.caller \in Clients /\ r.serial \in Nat /\ r.caller \in Procs
  BY DEF IInv, TypeOK, PendingReplies, Procs
<1>2. Error(r.caller, r.serial) \in Messages /\ Error(r.caller, r.serial).type = "error"
  BY <1>1 DEF Error, Errors, Messages
<1>3. /\ fromBus' = Deliver(fromBus, r.caller, Error(r.caller, r.serial)) /\ Reads
      /\ UNCHANGED <<lib, qtOwner, spc, configured, busUp, attached, owners>>
  BY DEF Expire, libVars, serverVars, Reads
<1> QED  BY <1>1, <1>2, <1>3, DeliverKeeps

\* The daemon ends: nobody owns the name and nobody is told.
LEMMA BusEndsJ ==
    ASSUME IInv, JInv, BusEnds
    PROVE  JInv'
<1>1. /\ ~busUp' /\ attached' = {} /\ owners' = <<>> /\ DOMAIN owners' = {}
      /\ toBus' = [p \in Procs |-> <<>>] /\ UNCHANGED <<lib, qtOwner, spc, configured, fromBus>>
  BY DEF BusEnds, libVars, serverVars
<1>2. OwnersAreConnected'
  BY <1>1 DEF OwnersAreConnected
<1>3. ASSUME NEW s \in Servers PROVE ServerFrame(s)
  BY <1>1 DEF ServerFrame, Owns, Procs
<1>4. ASSUME NEW c \in Clients PROVE ClientFrame(c)
  BY <1>1 DEF ClientFrame
<1> QED  BY <1>2, <1>3, <1>4, JInvNext
\* RequestName: the asker joins the owners, for the first time, and its reply
\* is written before any call can be.
LEMMA DispatchRequestNameJ ==
    ASSUME IInv, JInv, NEW s \in Servers, DispatchRequestName(s), s \in attached,
           toBus[s] # <<>>, Head(toBus[s]).type = "RequestName",
           toBus' = [toBus EXCEPT ![s] = Tail(toBus[s])],
           UNCHANGED <<lib, qtOwner, spc, configured, busUp, attached>>
    PROVE  JInv'
<1>1. /\ s \in Procs /\ s \notin Clients /\ fromBus \in Streams /\ toBus \in Streams
      /\ owners \in Seq(Servers) /\ DOMAIN owners = 1 .. Len(owners) /\ Len(owners) \in Nat
      /\ toBus[s] \in Seq(Messages) /\ fromBus[s] \in Seq(Messages)
  BY Types
<1>2. toBus'[s] = Tail(toBus[s]) /\ \A x \in Procs \ {s} : toBus'[x] = toBus[x]
  BY <1>1 DEF Streams
<1>3. ~Owns(s) /\ \A i \in DOMAIN toBus[s] : toBus[s][i].type = "RequestName" => i = 1
  <2>1. 1 \in DOMAIN toBus[s] /\ Head(toBus[s]) = toBus[s][1]
    BY <1>1, QueueMoves DEF Messages, RequestName
  <2> QED  BY <2>1 DEF JInv, ServerInv, AsksOnce
<1>4. /\ DOMAIN owners' = 1 .. Len(owners) + 1 /\ owners'[Len(owners) + 1] = s
      /\ \A i \in 1 .. Len(owners) : owners'[i] = owners[i]
      /\ owners' # <<>>
  <2>1. owners' = Append(owners, s)
    BY DEF DispatchRequestName
  <2>2. /\ Append(owners, s) \in Seq(Servers) /\ Len(Append(owners, s)) = Len(owners) + 1
        /\ Append(owners, s)[Len(owners) + 1] = s
        /\ \A i \in 1 .. Len(owners) : Append(owners, s)[i] = owners[i]
        /\ Append(owners, s) # <<>>
    BY <1>1, AppendProperties
  <2>3. DOMAIN Append(owners, s) = 1 .. Len(owners) + 1
    BY <2>2, LenProperties
  <2> QED  BY <2>1, <2>2, <2>3
<1>5. OwnersAreConnected'
  <2>1. \A i \in DOMAIN owners' : i \in DOMAIN owners \/ i = Len(owners) + 1
    BY <1>1, <1>4
  <2>2. \A i \in DOMAIN owners' : owners'[i] \in attached
    BY <1>1, <1>4, <2>1 DEF JInv, OwnersAreConnected
  <2>3. \A i \in DOMAIN owners : owners'[i] # s
    BY <1>1, <1>3, <1>4 DEF Owns
  <2>4. \A i, j \in DOMAIN owners' : owners'[i] = owners'[j] => i = j
    BY <1>1, <1>4, <2>1, <2>3 DEF JInv, OwnersAreConnected
  <2> QED  BY <2>2, <2>4 DEF OwnersAreConnected
<1>6. NameReply \in Messages /\ NameAcquired \in Messages
      /\ NameReply.type = "NameReply" /\ NameAcquired.type = "NameAcquired"
  BY DEF NameReply, NameAcquired, Messages, Signals
<1>7. /\ \A x \in Procs \ {s} :
           fromBus'[x] = IF owners = <<>> /\ Watching(x) THEN Append(fromBus[x], OwnerChanged(TRUE))
                         ELSE fromBus[x]
      /\ Alive(s) => \/ fromBus'[s] = Append(fromBus[s], NameReply)
                     \/ fromBus'[s] = Append(Append(fromBus[s], NameAcquired), NameReply)
  <2> DEFINE a == Broadcast(fromBus, TRUE)
             b == Deliver(a, s, NameAcquired)
             d == Deliver(b, s, NameReply)
             e == Deliver(fromBus, s, NameReply)
  <2>0. fromBus' = IF owners = <<>> THEN d ELSE e
    BY DEF DispatchRequestName
  <2>1. a \in Streams /\ \A x \in Procs : a[x] = IF Watching(x) THEN Append(fromBus[x], OwnerChanged(TRUE))
                                                 ELSE fromBus[x]
    BY <1>1, BroadcastTo
  <2> HIDE DEF a
  <2>2. /\ b \in Streams
        /\ \A x \in Procs : b[x] = IF x = s /\ Alive(s) THEN Append(a[x], NameAcquired) ELSE a[x]
    BY <1>1, <1>6, <2>1, DeliverTo
  <2> HIDE DEF b
  <2>3. \A x \in Procs : d[x] = IF x = s /\ Alive(s) THEN Append(b[x], NameReply) ELSE b[x]
    BY <1>1, <1>6, <2>2, DeliverTo
  <2>4. \A x \in Procs : e[x] = IF x = s /\ Alive(s) THEN Append(fromBus[x], NameReply) ELSE fromBus[x]
    BY <1>1, <1>6, DeliverTo
  <2> HIDE DEF d, e
  <2>5. ~Watching(s)
    BY <1>1 DEF Watching
  <2>6. CASE owners = <<>>
    BY <1>1, <2>0, <2>1, <2>2, <2>3, <2>5, <2>6
  <2>7. CASE owners # <<>>
    BY <1>1, <2>0, <2>4, <2>7
  <2> QED  BY <2>6, <2>7
<1>8. ServerInv(s)'
  <2>1. spc[s] # "off"
    BY DEF JInv, ServerInv, AsksOnce
  <2>2. \A i \in DOMAIN Tail(toBus[s]) : Tail(toBus[s])[i].type # "RequestName"
    BY <1>1, <1>3, AsksOnceKept
  <2>3. AsksOnce(s)'
    BY <1>2, <2>1, <2>2 DEF AsksOnce
  <2>4. ASSUME spc[s] = "requesting"
        PROVE  CallsAfterReply(fromBus'[s]) /\ Has(fromBus'[s], "NameReply")
    <3>1. CallsAfterReply(fromBus[s]) /\ Alive(s)
      BY <1>1, <2>4 DEF JInv, ServerInv, Prepared, Alive
    <3>2. CASE fromBus'[s] = Append(fromBus[s], NameReply)
      BY <1>1, <1>6, <3>1, <3>2, ReplyStaysAhead
    <3>3. CASE fromBus'[s] = Append(Append(fromBus[s], NameAcquired), NameReply)
      <4>1. CallsAfterReply(Append(fromBus[s], NameAcquired))
        BY <1>1, <1>6, <3>1, ReplyStaysAhead
      <4>2. Append(fromBus[s], NameAcquired) \in Seq(Messages)
        BY <1>1, <1>6, QueueMoves
      <4> QED  BY <1>6, <3>3, <4>1, <4>2, ReplyStaysAhead
    <3> QED  BY <1>7, <3>1, <3>2, <3>3
  <2>5. Prepared(s)'
    BY <2>4 DEF Prepared, JInv, ServerInv
  <2> QED  BY <2>3, <2>5 DEF ServerInv
<1>9. ASSUME NEW t \in Servers, t # s PROVE ServerFrame(t)
  <2>1. t \in Procs \ {s} /\ t \notin Clients
    BY <1>9, SetsAssumption DEF Procs
  <2>2. ~Watching(t)
    BY <2>1 DEF Watching
  <2>3. Owns(t)' => Owns(t)
    BY <1>1, <1>4, <1>9 DEF Owns
  <2>4. fromBus'[t] = fromBus[t] /\ toBus'[t] = toBus[t]
    BY <1>2, <1>7, <2>1, <2>2
  <2> QED  BY <2>3, <2>4 DEF ServerFrame
<1>10. ASSUME NEW c \in Clients PROVE ClientFrame(c)
  <2>1. c \in Procs \ {s}
    BY <1>1 DEF Procs
  <2>2. (owners' # <<>>) = TRUE
    BY <1>4
  <2>3. CASE owners = <<>>
    <3>1. fromBus'[c] = IF Watching(c) THEN Append(fromBus[c], OwnerChanged(owners' # <<>>)) ELSE fromBus[c]
      BY <1>7, <2>1, <2>2, <2>3
    <3> QED  BY <3>1 DEF ClientFrame
  <2>4. CASE owners # <<>>
    BY <1>4, <1>7, <2>1, <2>4 DEF ClientFrame
  <2> QED  BY <2>3, <2>4
<1>11. \A t \in Servers : ServerFrame(t) \/ ServerInv(t)'
  BY <1>8, <1>9
<1>12. \A c \in Clients : ClientFrame(c) \/ ClientInv(c)'
  BY <1>10
<1> QED  BY <1>5, <1>11, <1>12, JInvNext

\* bus_dispatch of one message.
LEMMA DispatchJ ==
    ASSUME IInv, JInv, NEW p \in Procs, Dispatch(p)
    PROVE  JInv'
<1> DEFINE m == Head(toBus[p])
<1>1. m \in Messages /\ Sent(View, p, m) /\ toBus[p] # <<>> /\ p \in attached
  BY ReadSent DEF Dispatch
<1>2. \/ m.type = "call" /\ DispatchCall(p, m)
      \/ m.type = "RequestName" /\ DispatchRequestName(p)
      \/ m.type \in {"return", "error"} /\ DispatchReply(p, m)
  BY DEF Dispatch
<1>3. /\ UNCHANGED <<lib, qtOwner, spc, configured, busUp, attached>>
      /\ toBus' = [toBus EXCEPT ![p] = Tail(toBus[p])]
  BY DEF Dispatch, libVars, serverVars
<1>4. Reads
  <2>1. toBus \in Streams
    BY Types
  <2> QED  BY <1>1, <1>3, <2>1 DEF Reads, Streams
<1> HIDE DEF m
<1>5. CASE m.type = "call" /\ DispatchCall(p, m)
  <2>1. p \in Clients
    BY <1>1, <1>5, MessageFields DEF Sent, Calls
  <2> QED  BY <1>1, <1>3, <1>4, <1>5, <2>1, DispatchCallJ
<1>6. CASE m.type = "RequestName" /\ DispatchRequestName(p)
  <2>1. p \in Servers
    BY <1>1, <1>6 DEF Sent
  <2> QED  BY <1>1, <1>3, <1>6, <2>1, DispatchRequestNameJ DEF m
<1>7. CASE m.type \in {"return", "error"} /\ DispatchReply(p, m)
  BY <1>1, <1>3, <1>4, <1>7, DispatchReplyJ
<1> QED  BY <1>2, <1>5, <1>6, <1>7

\* Who leaves the queue is gone from it; the others stay, each once.
LEMMA UnlinkLeaves ==
    ASSUME IInv, OwnersAreConnected, NEW p
    PROVE  /\ \A i \in DOMAIN Unlink(p) : Unlink(p)[i] # p /\ \E j \in DOMAIN owners : Unlink(p)[i] = owners[j]
           /\ \A i, j \in DOMAIN Unlink(p) : Unlink(p)[i] = Unlink(p)[j] => i = j
           /\ owners # <<>> /\ Head(owners) # p => Unlink(p) # <<>>
           /\ owners = <<>> => Unlink(p) = <<>>
<1>1. owners \in Seq(Servers) /\ DOMAIN owners = 1 .. Len(owners) /\ Len(owners) \in Nat
  BY Types
<1>2. CASE ~Contains(owners, p)
  BY <1>1, <1>2 DEF Unlink, Contains, OwnersAreConnected
<1>3. CASE Contains(owners, p)
  <2> DEFINE k == FindOwnerLink(p)
             a == SubSeq(owners, 1, k - 1)
             b == SubSeq(owners, k + 1, Len(owners))
             u == a \o b
  <2>1. k \in 1 .. Len(owners) /\ owners[k] = p
    BY <1>1, <1>3 DEF Contains, FindOwnerLink
  <2>2. Unlink(p) = u
    BY <1>3 DEF Unlink, RemoveAt
  <2> HIDE DEF k
  <2>3. /\ a \in Seq(Servers) /\ Len(a) = k - 1 /\ \A i \in 1 .. k - 1 : a[i] = owners[i]
        /\ b \in Seq(Servers) /\ Len(b) = Len(owners) - k
        /\ \A i \in 1 .. Len(owners) - k : b[i] = owners[k + i]
    <3>1. a \in Seq(Servers) /\ Len(a) = k - 1 /\ \A i \in 1 .. k - 1 : a[i] = owners[i]
      BY <1>1, <2>1
    <3>2. \A i \in k + 1 .. Len(owners) : owners[i] \in Servers
      <4>1. \A i \in k + 1 .. Len(owners) : i \in 1 .. Len(owners)
        BY <1>1, <2>1
      <4> QED  BY <1>1, <4>1
    <3>3. k + 1 \in Int /\ Len(owners) \in Int
      BY <1>1, <2>1
    <3>4. /\ b \in Seq(Servers) /\ Len(b) = IF k + 1 <= Len(owners) THEN Len(owners) - (k + 1) + 1 ELSE 0
          /\ \A i \in 1 .. Len(owners) - (k + 1) + 1 : b[i] = owners[(k + 1) + i - 1]
      BY <3>2, <3>3, SubSeqProperties
    <3> HIDE DEF a, b
    <3>5. Len(b) = Len(owners) - k
      <4>1. \A n \in Nat : \A j \in 1 .. n : (IF j + 1 <= n THEN n - (j + 1) + 1 ELSE 0) = n - j
        OBVIOUS
      <4> QED  BY <1>1, <2>1, <3>4, <4>1
    <3>6. ASSUME NEW i \in 1 .. Len(owners) - k PROVE b[i] = owners[k + i]
      <4>1. i \in 1 .. Len(owners) - (k + 1) + 1 /\ (k + 1) + i - 1 = k + i
        BY <1>1, <2>1
      <4> QED  BY <3>4, <4>1
    <3> QED  BY <3>1, <3>4, <3>5, <3>6
  <2> HIDE DEF a, b
  <2>4. /\ u \in Seq(Servers) /\ Len(u) = Len(owners) - 1
        /\ \A i \in 1 .. Len(owners) - 1 : u[i] = IF i <= k - 1 THEN a[i] ELSE b[i - (k - 1)]
    <3>1. /\ u \in Seq(Servers) /\ Len(u) = Len(a) + Len(b)
          /\ \A i \in 1 .. Len(a) + Len(b) : u[i] = IF i <= Len(a) THEN a[i] ELSE b[i - Len(a)]
      BY <2>3, ConcatProperties
    <3>2. Len(a) + Len(b) = Len(owners) - 1
      BY <1>1, <2>1, <2>3
    <3> QED  BY <2>3, <3>1, <3>2
  <2> HIDE DEF u
  <2>5. DOMAIN u = 1 .. Len(owners) - 1
    BY <2>4, LenProperties
  <2>6. ASSUME NEW i \in DOMAIN u PROVE u[i] = IF i < k THEN owners[i] ELSE owners[i + 1]
    <3>1. CASE i < k
      <4>1. i \in 1 .. k - 1 /\ i <= k - 1
        BY <1>1, <2>1, <2>5, <3>1
      <4> QED  BY <2>3, <2>4, <2>5, <3>1, <4>1
    <3>2. CASE ~(i < k)
      <4>1. /\ i - (k - 1) \in 1 .. Len(owners) - k /\ k + (i - (k - 1)) = i + 1
            /\ ~(i <= k - 1)
        BY <1>1, <2>1, <2>5, <3>2
      <4> QED  BY <2>3, <2>4, <2>5, <3>2, <4>1
    <3> QED  BY <3>1, <3>2
  <2> DEFINE f(i) == IF i < k THEN i ELSE i + 1
  <2>7. ASSUME NEW i \in DOMAIN u PROVE f(i) \in DOMAIN owners /\ f(i) # k /\ u[i] = owners[f(i)]
    BY <1>1, <2>1, <2>5, <2>6
  <2>8. \A i, j \in DOMAIN u : f(i) = f(j) => i = j
    BY <1>1, <2>1, <2>5
  <2> HIDE DEF f
  <2>9. ASSUME NEW i \in DOMAIN u PROVE u[i] # p
    <3>1. k \in DOMAIN owners /\ f(i) \in DOMAIN owners /\ f(i) # k /\ u[i] = owners[f(i)]
      BY <1>1, <2>1, <2>7
    <3>2. owners[f(i)] # owners[k]
      BY <3>1 DEF OwnersAreConnected
    <3> QED  BY <2>1, <3>1, <3>2
  <2>10. ASSUME NEW i \in DOMAIN u, NEW j \in DOMAIN u, u[i] = u[j] PROVE i = j
    BY <2>7, <2>8, <2>10 DEF OwnersAreConnected
  <2>11. ASSUME Head(owners) # p, owners # <<>> PROVE u # <<>>
    <3>1. Head(owners) = owners[1] /\ 1 \in 1 .. Len(owners)
      BY <1>1, <2>11
    <3>2. k # 1
      BY <2>1, <2>11, <3>1
    <3>3. Len(u) # 0
      BY <1>1, <2>1, <2>4, <3>2
    <3> QED  BY <2>4, <3>3, EmptySeq
  <2>12. owners # <<>>
    BY <2>1
  <2> QED  BY <2>2, <2>7, <2>9, <2>10, <2>11, <2>12
<1> QED  BY <1>2, <1>3
\* A connection is dropped: if it was the primary owner, the next one hears of
\* it and every client of the change.
LEMMA DisconnectedJ ==
    ASSUME IInv, JInv, NEW p \in Procs, Disconnected(p)
    PROVE  JInv'
<1> DEFINE h == Head(Unlink(p))
<1>1. /\ fromBus \in Streams /\ owners \in Seq(Servers)
      /\ DOMAIN owners = 1 .. Len(owners) /\ Unlink(p) \in Seq(Servers)
  BY Types, UnlinkType
<1>2. /\ ~Alive(p) /\ attached' = attached \ {p} /\ owners' = Unlink(p)
      /\ UNCHANGED <<lib, qtOwner, spc, configured, busUp, toBus>>
      /\ fromBus' = IF owners = <<>> \/ Head(owners) # p THEN fromBus
                    ELSE IF Unlink(p) = <<>> THEN Broadcast(fromBus, FALSE)
                    ELSE Deliver(Broadcast(fromBus, TRUE), h, NameAcquired)
  BY DEF Disconnected, RemoveOwner, libVars, serverVars
<1>3. /\ \A i \in DOMAIN owners' : owners'[i] # p /\ \E j \in DOMAIN owners : owners'[i] = owners[j]
      /\ \A i, j \in DOMAIN owners' : owners'[i] = owners'[j] => i = j
      /\ owners # <<>> /\ Head(owners) # p => owners' # <<>>
      /\ owners = <<>> => owners' = <<>>
  BY <1>2, UnlinkLeaves DEF JInv
<1>4. OwnersAreConnected'
  BY <1>2, <1>3 DEF JInv, OwnersAreConnected
<1>5. NameAcquired \in Messages /\ NameAcquired.type = "NameAcquired"
  BY DEF NameAcquired, Messages, Signals
<1>6. ASSUME Unlink(p) # <<>> PROVE h \in Servers /\ h \in Procs /\ h \notin Clients
  <2>1. h \in Servers
    BY <1>1, <1>6
  <2> QED  BY <2>1, Types
<1>7. ASSUME NEW b \in BOOLEAN, NEW c \in Clients
      PROVE  Broadcast(fromBus, b)[c] = IF Watching(c) THEN Append(fromBus[c], OwnerChanged(b)) ELSE fromBus[c]
  BY <1>1, BroadcastTo DEF Procs
<1>8. ASSUME NEW b \in BOOLEAN, NEW s \in Servers
      PROVE  Broadcast(fromBus, b)[s] = fromBus[s]
  <2>1. s \in Procs /\ ~Watching(s)
    BY SetsAssumption DEF Procs, Watching
  <2> QED  BY <1>1, <2>1, BroadcastTo
<1>9. ASSUME Unlink(p) # <<>>, NEW x \in Procs
      PROVE  Deliver(Broadcast(fromBus, TRUE), h, NameAcquired)[x] =
                 IF x = h /\ Alive(h) THEN Append(Broadcast(fromBus, TRUE)[x], NameAcquired)
                 ELSE Broadcast(fromBus, TRUE)[x]
  <2>1. Broadcast(fromBus, TRUE) \in Streams
    BY <1>1, BroadcastTo
  <2> QED  BY <1>5, <1>6, <1>9, <2>1, DeliverTo
<1> HIDE DEF h
<1>10. ASSUME NEW s \in Servers PROVE ServerFrame(s)
  <2>1. s \in Procs
    BY DEF Procs
  <2>2. Owns(s)' => Owns(s)
    BY <1>3 DEF Owns
  <2>3. fromBus'[s] = fromBus[s] \/ (s = h /\ Alive(h) /\ fromBus'[s] = Append(fromBus[s], NameAcquired))
    BY <1>2, <1>8, <1>9, <2>1
  <2> QED  BY <1>2, <1>5, <2>2, <2>3 DEF ServerFrame
<1>11. ASSUME NEW c \in Clients PROVE ClientFrame(c)
  <2>1. c \in Procs
    BY DEF Procs
  <2>2. lib[c] = "ready" => c # p
    BY <1>2 DEF Alive
  <2>3. CASE owners = <<>> \/ Head(owners) # p
    BY <1>2, <1>3, <2>2, <2>3 DEF ClientFrame
  <2>4. CASE ~(owners = <<>> \/ Head(owners) # p) /\ Unlink(p) = <<>>
    <3>1. (owners' # <<>>) = FALSE
      BY <1>2, <2>4
    <3>2. fromBus'[c] = IF Watching(c) THEN Append(fromBus[c], OwnerChanged(owners' # <<>>)) ELSE fromBus[c]
      BY <1>2, <1>7, <2>4, <3>1
    <3> QED  BY <1>2, <2>2, <3>2 DEF ClientFrame
  <2>5. CASE ~(owners = <<>> \/ Head(owners) # p) /\ Unlink(p) # <<>>
    <3>1. (owners' # <<>>) = TRUE
      BY <1>2, <2>5
    <3>2. c # h
      BY <1>6, <2>5 DEF h
    <3>3. fromBus'[c] = IF Watching(c) THEN Append(fromBus[c], OwnerChanged(owners' # <<>>)) ELSE fromBus[c]
      BY <1>2, <1>7, <1>9, <2>1, <2>5, <3>1, <3>2
    <3> QED  BY <1>2, <2>2, <3>3 DEF ClientFrame
  <2> QED  BY <2>3, <2>4, <2>5
<1>12. \A s \in Servers : ServerFrame(s) \/ ServerInv(s)'
  BY <1>10
<1>13. \A c \in Clients : ClientFrame(c) \/ ClientInv(c)'
  BY <1>11
<1> QED  BY <1>4, <1>12, <1>13, JInvNext

----------------------------------------------------------------------------
(* The theorems.                                                           *)

\* A step that touches no variable of the competition.
LEMMA NothingMoves ==
    ASSUME JInv, UNCHANGED <<lib, qtOwner, spc, configured, busUp, attached, owners, toBus, fromBus>>
    PROVE  JInv'
<1>1. OwnersAreConnected'
  BY DEF JInv, OwnersAreConnected
<1>2. ASSUME NEW s \in Servers PROVE ServerInv(s)'
  BY DEF JInv, ServerInv, AsksOnce, Prepared, Owns
<1>3. ASSUME NEW c \in Clients PROVE ClientInv(c)'
  BY DEF JInv, ClientInv
<1> QED  BY <1>1, <1>2, <1>3 DEF JInv

\* The invariant is inductive, given what SapBridgeProof knows.
LEMMA InductiveJ == IInv /\ JInv /\ [Next]_vars => JInv'
<1> SUFFICES ASSUME IInv, JInv, [Next]_vars PROVE JInv'
  OBVIOUS
<1>1. CASE UNCHANGED vars \/ SapToggle \/ \E a \in Args : SapChange(a)
  BY <1>1, NothingMoves DEF vars, SapToggle, SapChange, libVars, serverVars, busVars, chanVars
<1>2. ASSUME NEW c \in Clients, Library(c) PROVE JInv'
  <2>1. CASE Construct(c) \/ ConstructNoBus(c) \/ ConstructDefault(c)
    BY <2>1, ConstructJ
  <2>2. ASSUME NEW m, NEW a, LibCall(c, m, a) PROVE JInv'
    BY <2>2, LibCallJ DEF LibCall
  <2>3. CASE CheckInterface(c)
    BY <2>3, LibCallJ DEF CheckInterface
  <2> QED  BY <1>2, <2>1, <2>2, <2>3
           DEF Library, ping, getMKT, getOrderTypeNr, getOrderQty, getOrderFailQty, getOrderType,
               getValueFromTable
<1>3. ASSUME NEW c \in Clients, Timeout(c) \/ LostBus(c) PROVE JInv'
  BY <1>3, NothingMoves DEF Timeout, LostBus, libVars, serverVars, busVars, chanVars
<1>4. ASSUME NEW c \in Clients, Receive(c) \/ Exit(c) PROVE JInv'
  BY <1>4, ReceiveJ, ExitJ
<1>5. ASSUME NEW s \in Servers, ServerStep(s) PROVE JInv'
  BY <1>5, ServerStartJ, ServerAwaitNameJ, ServerIterateJ, ServerReplyJ, ServerCrashJ DEF ServerStep
<1>6. CASE Bus
  BY <1>6, DispatchJ, DisconnectedJ, ExpireJ, BusEndsJ DEF Bus
<1> QED  BY <1>1, <1>2, <1>3, <1>4, <1>5, <1>6 DEF Next, NextPrompt

\* The invariant holds in every reachable state of the bridge.
THEOREM TakeoverInvariance == Spec => [](IInv /\ JInv)
  BY Invariance, InitJInv, InductiveJ, PTL DEF Spec

\* For any number of servers, started and killed at any time, the daemon's list
\* of owners names connected servers only and each of them once: no call is sent
\* to a server that has been dropped (OwnersAreConnected).
THEOREM OnlyConnectedOwn == Spec => []OwnersAreConnected
<1>1. IInv /\ JInv => OwnersAreConnected
  BY DEF JInv
<1> QED  BY <1>1, TakeoverInvariance, PTL

\* Main asks for the name before it sets m_destconfig and m_rfcdestination, and
\* still no method of SapServerQuery runs without them, and no call can come in
\* ahead of the reply that lets Main go on (ConfiguredBeforeCalls).
THEOREM CallsMeetConfiguredServers == Spec => []ConfiguredBeforeCalls
<1>1. IInv /\ JInv => ConfiguredBeforeCalls
  BY DEF JInv, ServerInv, Prepared, CallsAfterReply, ConfiguredBeforeCalls
<1> QED  BY <1>1, TakeoverInvariance, PTL

\* After the signals on their way isInterfaceConnected says whether the service
\* has an owner, through every start, crash and takeover (CacheCoherent).
THEOREM CachesCatchUp == Spec => []CacheCoherent
<1>1. ASSUME IInv, JInv PROVE CacheCoherent
  <2> SUFFICES ASSUME NEW c \in Clients, isDBusConnected(c) PROVE Believed(c) = (owners # <<>>)
    BY DEF CacheCoherent
  <2>1. Tells(fromBus[c], qtOwner[c], owners # <<>>)
    BY <1>1 DEF isDBusConnected, JInv, ClientInv
  <2>2. fromBus[c] \in Seq(Messages) /\ qtOwner[c] \in BOOLEAN /\ (owners # <<>>) \in BOOLEAN
    BY <1>1, Types
  <2> QED  BY <2>1, <2>2, TellsBelieved
<1> QED  BY <1>1, TakeoverInvariance, PTL
=============================================================================
