--------------------------- MODULE SapBridgeProof ---------------------------
(***************************************************************************)
(* Proofs about SapBridge for every set of clients, servers and inputs and *)
(* for every value of the bounds: the type invariant, that a call never    *)
(* hands out the answer of another call or a stale one, and that the       *)
(* bridge implements the remote reads of SapRpc.                           *)
(*                                                                         *)
(* AnswerIsMine is not inductive: it says nothing of the messages that are *)
(* still on their way.  IInv adds what every message in every queue is     *)
(* known to carry.                                                         *)
(***************************************************************************)
EXTENDS SapBridge, SequenceTheorems, TLAPS

----------------------------------------------------------------------------
(* The inductive invariant.                                                *)

\* What the invariant says of messages depends on these variables only.
View == [calls |-> calls, cur |-> cur, since |-> since, sap |-> sap]

\* A call or return in flight belongs to a call that was made, and to the
\* latest one only with the method and the argument of the latest one.  A
\* value that was read is not newer than SAP, and for the latest call not
\* older than the call.
Known(v, m) ==
    /\ m.type \in {"call", "return"} =>
         /\ m.serial <= v.calls[m.client]
         /\ m.serial = v.calls[m.client] =>
              m.method = v.cur[m.client].method /\ m.arg = v.cur[m.client].arg
    /\ m.type = "return" /\ m.method # "ping" =>
         /\ m.val <= v.sap[m.arg]
         /\ m.serial = v.calls[m.client] => v.since[m.client].row <= m.val

\* What p writes: clients their own calls, servers requests and replies.
Sent(v, p, m) ==
    /\ Known(v, m)
    /\ m.type = "call" => p = m.client
    /\ m.type \in {"RequestName", "return", "error"} => p \in Servers

\* What p reads: clients the replies to their own calls.
Rcvd(v, p, m) ==
    /\ Known(v, m)
    /\ p \in Clients /\ m.type \in {"return", "error"} => m.client = p

SentQueue(v, p, q) == q \in Seq(Messages) /\ \A i \in 1 .. Len(q) : Sent(v, p, q[i])
RcvdQueue(v, p, q) == q \in Seq(Messages) /\ \A i \in 1 .. Len(q) : Rcvd(v, p, q[i])

Queues ==
    /\ \A p \in Procs : SentQueue(View, p, toBus[p])
    /\ \A p \in Procs : RcvdQueue(View, p, fromBus[p])
    /\ \A s \in Servers : \A q \in serving[s] : Known(View, q)

\* SAP's rows only grow; only an assigned interface returns true, and then it
\* has stored a value.
Rows ==
    \A c \in Clients : /\ since[c].row <= sap[cur[c].arg]
                       /\ ret[c] = "true" => /\ lib[c] \in {"ready", "exited"}
                                             /\ out[c] \in Returns

IInv == TypeOK /\ Queues /\ Rows /\ AnswerIsMine

----------------------------------------------------------------------------
(* Messages and queues.                                                    *)

\* The type field of a message decides which other fields it has.
LEMMA MessageFields ==
    ASSUME NEW m \in Messages
    PROVE  /\ m.type = "call" => m \in Calls
           /\ m.type = "return" => m \in Returns
           /\ m.type = "error" => m \in Errors
           /\ m.type = "NameOwnerChanged" => m.owned \in BOOLEAN
  BY DEF Messages, Calls, Returns, Errors, Signals, RequestName, NameReply, NameAcquired

\* Reading takes the first message of a queue and leaves the others.
LEMMA ReadQueue ==
    ASSUME NEW v, NEW p, NEW q, q # <<>>
    PROVE  /\ SentQueue(v, p, q) => /\ Head(q) \in Messages /\ Sent(v, p, Head(q))
                                 /\ SentQueue(v, p, Tail(q))
           /\ RcvdQueue(v, p, q) => /\ Head(q) \in Messages /\ Rcvd(v, p, Head(q))
                                 /\ RcvdQueue(v, p, Tail(q))
<1>1. ASSUME q \in Seq(Messages)
      PROVE  /\ Head(q) \in Messages /\ Head(q) = q[1] /\ Tail(q) \in Seq(Messages)
             /\ 1 \in 1 .. Len(q) /\ Len(Tail(q)) = Len(q) - 1
             /\ \A i \in 1 .. Len(Tail(q)) : Tail(q)[i] = q[i + 1] /\ i + 1 \in 1 .. Len(q)
  BY <1>1, q # <<>>
<1> QED BY <1>1 DEF SentQueue, RcvdQueue

\* Writing adds a message at the end.
LEMMA WriteQueue ==
    ASSUME NEW v, NEW p, NEW q, NEW m \in Messages
    PROVE  /\ SentQueue(v, p, q) /\ Sent(v, p, m) => SentQueue(v, p, Append(q, m))
           /\ RcvdQueue(v, p, q) /\ Rcvd(v, p, m) => RcvdQueue(v, p, Append(q, m))
<1>1. ASSUME q \in Seq(Messages)
      PROVE  /\ Append(q, m) \in Seq(Messages) /\ Len(Append(q, m)) = Len(q) + 1
             /\ \A i \in 1 .. Len(q) + 1 :
                  Append(q, m)[i] = IF i = Len(q) + 1 THEN m ELSE q[i]
             /\ \A i \in 1 .. Len(q) + 1 : i = Len(q) + 1 \/ i \in 1 .. Len(q)
  BY <1>1
<1> QED BY <1>1 DEF SentQueue, RcvdQueue

\* An empty queue holds nothing that could be wrong.
LEMMA EmptyQueue ==
    ASSUME NEW v, NEW p
    PROVE  SentQueue(v, p, <<>>) /\ RcvdQueue(v, p, <<>>)
  BY DEF SentQueue, RcvdQueue

\* What is known of a message stays known when the view changes from v to w.
LEMMA QueueStable ==
    ASSUME NEW v, NEW w, NEW p, NEW q,
           \A m \in Messages : Known(v, m) => Known(w, m)
    PROVE  /\ SentQueue(v, p, q) => SentQueue(w, p, q)
           /\ RcvdQueue(v, p, q) => RcvdQueue(w, p, q)
<1>1. ASSUME q \in Seq(Messages), NEW i \in 1 .. Len(q) PROVE q[i] \in Messages
  BY <1>1
<1> QED BY <1>1 DEF SentQueue, RcvdQueue, Sent, Rcvd

----------------------------------------------------------------------------
(* What the daemon writes.                                                 *)

\* A family of queues with good contents.
RcvdQueues(v, q) == q \in [Procs -> Seq(Messages)] /\ \A p \in Procs : RcvdQueue(v, p, q[p])
SentQueues(v, q) == q \in [Procs -> Seq(Messages)] /\ \A p \in Procs : SentQueue(v, p, q[p])

\* A process writes a good message.
LEMMA WriteSent ==
    ASSUME NEW v, NEW q, SentQueues(v, q), NEW p \in Procs, NEW m \in Messages, Sent(v, p, m)
    PROVE  SentQueues(v, [q EXCEPT ![p] = Append(q[p], m)])
<1>1. SentQueue(v, p, Append(q[p], m))
  BY WriteQueue DEF SentQueues
<1> QED BY <1>1 DEF SentQueues, SentQueue

\* The daemon writes a good message.
LEMMA WriteRcvd ==
    ASSUME NEW v, NEW q, RcvdQueues(v, q), NEW p \in Procs, NEW m \in Messages, Rcvd(v, p, m)
    PROVE  RcvdQueues(v, [q EXCEPT ![p] = Append(q[p], m)])
<1>1. RcvdQueue(v, p, Append(q[p], m))
  BY WriteQueue DEF RcvdQueues
<1> QED BY <1>1 DEF RcvdQueues, RcvdQueue

\* The daemon writes to a process that may have ended.
LEMMA DeliverQueue ==
    ASSUME NEW v, NEW q, RcvdQueues(v, q), NEW p \in Procs, NEW m \in Messages, Rcvd(v, p, m)
    PROVE  RcvdQueues(v, Deliver(q, p, m))
  BY WriteRcvd DEF Deliver

\* Every watching client hears of a change of the owner.
LEMMA BroadcastQueue ==
    ASSUME NEW v, NEW q, RcvdQueues(v, q), NEW b \in BOOLEAN
    PROVE  RcvdQueues(v, Broadcast(q, b))
<1> DEFINE m == OwnerChanged(b)
<1>1. m \in Messages /\ \A p : Rcvd(v, p, m)
  BY DEF OwnerChanged, Messages, Signals, Rcvd, Known
<1>2. ASSUME NEW p \in Procs
      PROVE  RcvdQueue(v, p, Broadcast(q, b)[p]) /\ Broadcast(q, b)[p] \in Seq(Messages)
  <2>1. RcvdQueue(v, p, Append(q[p], m))
    BY <1>1, WriteQueue DEF RcvdQueues
  <2> QED BY <2>1 DEF Broadcast, RcvdQueues, RcvdQueue
<1>3. Broadcast(q, b) = [p \in Procs |-> Broadcast(q, b)[p]]
  BY DEF Broadcast
<1> QED BY <1>2, <1>3 DEF RcvdQueues

----------------------------------------------------------------------------
(* The initial state, and frames for the steps.                            *)

\* The invariant holds before any process has been started.
LEMMA InitIInv == Init => IInv
<1> SUFFICES ASSUME Init PROVE IInv
  OBVIOUS
<1>1. TypeOK
  BY InputAssumption DEF Init, TypeOK, LibStates, ServerStates, Methods, Untouched, Returns
<1>2. Queues
  BY EmptyQueue DEF Init, Queues
<1>3. Rows /\ AnswerIsMine
  BY InputAssumption DEF Init, Rows, AnswerIsMine
<1> QED BY <1>1, <1>2, <1>3 DEF IInv

\* Queues, from what a step wrote, when it leaves the view alone.
LEMMA QueuesNext ==
    ASSUME View' = View, SentQueues(View, toBus'), RcvdQueues(View, fromBus'),
           \A s \in Servers : \A q \in serving'[s] : Known(View, q)
    PROVE  Queues'
  BY DEF Queues, SentQueues, RcvdQueues

\* The invariant, read as a statement on all queues.
LEMMA IInvQueues ==
    ASSUME IInv
    PROVE  SentQueues(View, toBus) /\ RcvdQueues(View, fromBus)
  BY DEF IInv, TypeOK, Queues, SentQueues, RcvdQueues

\* A step that touches neither the callers' variables nor SAP's rows.
LEMMA CallsSame ==
    ASSUME IInv, UNCHANGED callVars, UNCHANGED sap,
           \A c \in Clients : lib[c] \in {"ready", "exited"} => lib'[c] \in {"ready", "exited"}
    PROVE  View' = View /\ Rows' /\ AnswerIsMine'
  BY DEF IInv, Rows, AnswerIsMine, View, callVars

----------------------------------------------------------------------------
(* The library.                                                            *)

\* The three ways a SAPDBLib object is constructed.
LEMMA ConstructStep ==
    ASSUME IInv, NEW c \in Clients,
           Construct(c) \/ ConstructNoBus(c) \/ ConstructDefault(c)
    PROVE  IInv'
<1>1. TypeOK'
  BY DEF IInv, TypeOK, Construct, ConstructNoBus, ConstructDefault, LibStates, Procs,
         callVars, serverVars, busVars, chanVars, sapVars
<1>2. View' = View /\ Rows' /\ AnswerIsMine'
  <2>1. \A d \in Clients : lib[d] \in {"ready", "exited"} => lib'[d] \in {"ready", "exited"}
    BY DEF IInv, TypeOK, Construct, ConstructNoBus, ConstructDefault
  <2>2. UNCHANGED callVars /\ UNCHANGED sap
    BY DEF Construct, ConstructNoBus, ConstructDefault, sapVars
  <2> QED BY <2>1, <2>2, CallsSame
<1>3. Queues'
  <2>1. UNCHANGED <<toBus, fromBus, serving>>
    BY DEF Construct, ConstructNoBus, ConstructDefault, chanVars, serverVars
  <2> QED BY <2>1, <1>2, IInvQueues, QueuesNext DEF IInv, Queues
<1> QED BY <1>1, <1>2, <1>3 DEF IInv

\* A new call, or the use of an unassigned pointer that counts as one, leaves
\* what is known of the messages in flight: their serials are older.
LEMMA NewCall ==
    ASSUME IInv, NEW c \in Clients, calls' = [calls EXCEPT ![c] = calls[c] + 1], sap' = sap,
           \A d \in Clients \ {c} : cur'[d] = cur[d] /\ since'[d] = since[d]
    PROVE  \A m \in Messages : Known(View, m) => Known(View', m)
<1> SUFFICES ASSUME NEW m \in Messages, Known(View, m) PROVE Known(View', m)
  OBVIOUS
<1>1. CASE m.type \notin {"call", "return"}
  BY <1>1 DEF Known
<1>2. CASE m.type \in {"call", "return"}
  <2>1. m.client \in Clients /\ m.serial \in Nat
    BY <1>2, MessageFields DEF Calls, Returns
  <2>2. calls[m.client] \in Nat /\ calls \in [Clients -> Nat]
    BY <2>1 DEF IInv, TypeOK
  <2>3. CASE m.client = c
    <3>1. m.serial <= calls[c]
      BY <1>2, <2>3 DEF Known, View
    <3>2. m.serial < calls'[c]
      BY <3>1, <2>1, <2>2
    <3> QED BY <3>2, <2>1, <2>2, <2>3, <1>2 DEF Known, View
  <2>4. CASE m.client # c
    <3>1. /\ calls'[m.client] = calls[m.client] /\ cur'[m.client] = cur[m.client]
          /\ since'[m.client] = since[m.client]
      BY <2>1, <2>2, <2>4
    <3> QED BY <3>1, <1>2 DEF Known, View
  <2> QED BY <2>3, <2>4
<1> QED BY <1>1, <1>2

\* All queues, after the view changed without disturbing what is known.
LEMMA QueuesStable ==
    ASSUME IInv, \A m \in Messages : Known(View, m) => Known(View', m)
    PROVE  /\ SentQueues(View', toBus) /\ RcvdQueues(View', fromBus)
           /\ \A s \in Servers : \A q \in serving[s] : Known(View', q)
<1>1. SentQueues(View', toBus) /\ RcvdQueues(View', fromBus)
  BY IInvQueues, QueueStable DEF SentQueues, RcvdQueues
<1>2. \A s \in Servers : \A q \in serving[s] : q \in Messages /\ Known(View, q)
  BY DEF IInv, TypeOK, Queues, Messages
<1> QED BY <1>1, <1>2

\* A call that was refused.
LEMMA RefuseStep ==
    ASSUME IInv, NEW c \in Clients, NEW m \in Methods, NEW a \in Args,
           calls' = [calls EXCEPT ![c] = calls[c] + 1], Refuse(c, m, a)
    PROVE  IInv'
<1>1. TypeOK'
  BY DEF IInv, TypeOK, Refuse, libVars, serverVars, busVars, chanVars, sapVars
<1>2. Rows' /\ AnswerIsMine'
  BY DEF IInv, TypeOK, Rows, AnswerIsMine, Refuse, libVars, sapVars
<1>3. Queues'
  <2>1. \A n \in Messages : Known(View, n) => Known(View', n)
    BY NewCall DEF Refuse, sapVars, IInv, TypeOK
  <2> QED BY <2>1, QueuesStable DEF Refuse, chanVars, serverVars, Queues, SentQueues, RcvdQueues
<1> QED BY <1>1, <1>2, <1>3 DEF IInv

\* A call that was written to the bus.
LEMMA SendStep ==
    ASSUME IInv, NEW c \in Clients, NEW m \in Methods, NEW a \in Args,
           calls' = [calls EXCEPT ![c] = calls[c] + 1], Send(c, m, a)
    PROVE  IInv'
<1> DEFINE n == Call(c, calls'[c], m, a)
<1>1. n \in Messages /\ n.type = "call"
  BY DEF IInv, TypeOK, Call, Calls, Messages
<1>2. TypeOK'
  BY <1>1 DEF IInv, TypeOK, Send, libVars, serverVars, busVars, chanVars, sapVars, Procs
<1>3. Rows' /\ AnswerIsMine'
  BY DEF IInv, TypeOK, Rows, AnswerIsMine, Send, libVars, sapVars
<1>4. Queues'
  <2>1. \A k \in Messages : Known(View, k) => Known(View', k)
    BY NewCall DEF Send, sapVars, IInv, TypeOK
  <2>2. Sent(View', c, n)
    BY DEF Sent, Known, View, Call, Send, IInv, TypeOK
  <2>3. SentQueues(View', toBus')
    BY <1>1, <2>1, <2>2, QueuesStable, WriteSent DEF Send, Procs
  <2> QED BY <2>1, <2>3, QueuesStable DEF Send, serverVars, Queues, SentQueues, RcvdQueues
<1> QED BY <1>2, <1>3, <1>4 DEF IInv

\* An interface that was never assigned is used.
LEMMA UnassignedStep ==
    ASSUME IInv, NEW c \in Clients, lib[c] = "nopointer", UseOfUnassigned(c),
           calls' = [calls EXCEPT ![c] = calls[c] + 1] \/ calls' = calls
    PROVE  IInv'
<1>1. TypeOK'
  <2>1. calls' \in [Clients -> Nat]
    <3>1. calls \in [Clients -> Nat]
      BY DEF IInv, TypeOK
    <3>2. CASE calls' = calls
      BY <3>1, <3>2
    <3>3. CASE calls' = [calls EXCEPT ![c] = calls[c] + 1]
      BY <3>1, <3>3
    <3> QED BY <3>2, <3>3
  <2> QED BY <2>1 DEF IInv, TypeOK, UseOfUnassigned, LibStates, serverVars, busVars, chanVars,
                      sapVars
<1>2. Rows' /\ AnswerIsMine'
  BY DEF IInv, TypeOK, Rows, AnswerIsMine, UseOfUnassigned, sapVars
<1>3. Queues'
  <2>1. \A n \in Messages : Known(View, n) => Known(View', n)
    <3>1. CASE calls' = calls
      BY <3>1 DEF Known, View, UseOfUnassigned, sapVars
    <3>2. CASE calls' = [calls EXCEPT ![c] = calls[c] + 1]
      BY <3>2, NewCall DEF UseOfUnassigned, sapVars
    <3> QED BY <3>1, <3>2
  <2> QED BY <2>1, QueuesStable DEF UseOfUnassigned, chanVars, serverVars, Queues, SentQueues,
                                    RcvdQueues
<1> QED BY <1>1, <1>2, <1>3 DEF IInv

\* The library's functions.
LEMMA LibCallStep ==
    ASSUME IInv, NEW c \in Clients, NEW m, NEW a \in Args, LibCall(c, m, a)
    PROVE  IInv'
<1>1. m \in Methods
  BY InputAssumption DEF LibCall
<1>2. calls' = [calls EXCEPT ![c] = calls[c] + 1]
  BY DEF LibCall
<1>3. Refuse(c, m, a) \/ Send(c, m, a) \/ (lib[c] = "nopointer" /\ UseOfUnassigned(c))
  BY DEF LibCall
<1> QED BY <1>1, <1>2, <1>3, RefuseStep, SendStep, UnassignedStep

\* A blocking call ends with r, its own answer or an error.
LEMMA EndCallStep ==
    ASSUME IInv, NEW c \in Clients, NEW r \in Messages, Known(View, r), EndCall(c, r),
           lib[c] = "ready", UNCHANGED <<lib, sap>>,
           r.type = "return" => r.client = c /\ r.serial = calls[c]
    PROVE  /\ pc' \in [Clients -> {"idle", "waiting"}]
           /\ ret' \in [Clients -> {"none", "true", "false"}]
           /\ out' \in [Clients -> Returns \cup {Untouched}]
           /\ View' = View /\ Rows' /\ AnswerIsMine'
<1>1. r.type = "return" => r \in Returns
  BY MessageFields
<1>2. /\ pc' \in [Clients -> {"idle", "waiting"}]
      /\ ret' \in [Clients -> {"none", "true", "false"}]
      /\ out' \in [Clients -> Returns \cup {Untouched}]
  BY <1>1 DEF EndCall, IInv, TypeOK
<1>3. View' = View
  BY DEF EndCall, View
<1>4. Rows'
  BY <1>1 DEF EndCall, IInv, Rows, TypeOK
<1>5. AnswerIsMine'
  <2> SUFFICES ASSUME NEW d \in Clients, ret'[d] = "true"
               PROVE  /\ out'[d].client = d /\ out'[d].serial = calls'[d]
                      /\ out'[d].method = cur'[d].method /\ out'[d].arg = cur'[d].arg
                      /\ cur'[d].method # "ping" =>
                           since'[d].row <= out'[d].val /\ out'[d].val <= sap'[cur'[d].arg]
    BY DEF AnswerIsMine
  <2>1. CASE d # c
    <3>1. ret'[d] = ret[d] /\ out'[d] = out[d]
      BY <2>1 DEF EndCall, IInv, TypeOK
    <3> QED BY <3>1 DEF EndCall, IInv, AnswerIsMine
  <2>2. CASE d = c
    <3>1. r.type = "return" /\ out'[c] = r
      BY <2>2 DEF EndCall, IInv, TypeOK
    <3> QED BY <3>1, <2>2 DEF EndCall, Known, View
  <2> QED BY <2>1, <2>2
<1> QED BY <1>2, <1>3, <1>4, <1>5

\* A blocking call that fails without an answer.
LEMMA GiveUpStep ==
    ASSUME IInv, NEW c \in Clients, Timeout(c) \/ LostBus(c)
    PROVE  IInv'
<1> DEFINE r == Error(c, calls[c])
<1>1. r \in Messages /\ r.type = "error" /\ Known(View, r)
  BY DEF Error, Errors, Messages, Known, IInv, TypeOK
<1>2. /\ EndCall(c, r) /\ lib[c] = "ready"
      /\ UNCHANGED <<libVars, serverVars, busVars, chanVars, sapVars>>
  BY DEF Timeout, LostBus
<1>3. UNCHANGED <<lib, sap>>
  BY <1>2 DEF libVars, sapVars
<1>4. /\ pc' \in [Clients -> {"idle", "waiting"}]
      /\ ret' \in [Clients -> {"none", "true", "false"}]
      /\ out' \in [Clients -> Returns \cup {Untouched}]
      /\ View' = View /\ Rows' /\ AnswerIsMine'
  BY <1>1, <1>2, <1>3, EndCallStep
<1>5. TypeOK'
  BY <1>2, <1>4 DEF IInv, TypeOK, EndCall, libVars, serverVars, busVars, chanVars, sapVars
<1>6. Queues'
  BY <1>2, <1>4, IInvQueues, QueuesNext DEF chanVars, serverVars, IInv, Queues
<1> QED BY <1>4, <1>5, <1>6 DEF IInv

\* Reading the first message of p's queue leaves good queues.
LEMMA ReadRcvd ==
    ASSUME IInv, NEW p \in Procs, fromBus[p] # <<>>
    PROVE  /\ Head(fromBus[p]) \in Messages /\ Rcvd(View, p, Head(fromBus[p]))
           /\ RcvdQueues(View, [fromBus EXCEPT ![p] = Tail(fromBus[p])])
<1>1. RcvdQueues(View, fromBus)
  BY IInvQueues
<1>2. /\ Head(fromBus[p]) \in Messages /\ Rcvd(View, p, Head(fromBus[p]))
      /\ RcvdQueue(View, p, Tail(fromBus[p]))
  BY <1>1, ReadQueue DEF RcvdQueues
<1> QED BY <1>1, <1>2 DEF RcvdQueues, RcvdQueue

\* The same for the daemon, which reads what p has written.
LEMMA ReadSent ==
    ASSUME IInv, NEW p \in Procs, toBus[p] # <<>>
    PROVE  /\ Head(toBus[p]) \in Messages /\ Sent(View, p, Head(toBus[p]))
           /\ SentQueues(View, [toBus EXCEPT ![p] = Tail(toBus[p])])
<1>1. SentQueues(View, toBus)
  BY IInvQueues
<1>2. /\ Head(toBus[p]) \in Messages /\ Sent(View, p, Head(toBus[p]))
      /\ SentQueue(View, p, Tail(toBus[p]))
  BY <1>1, ReadQueue DEF SentQueues
<1> QED BY <1>1, <1>2 DEF SentQueues, SentQueue

\* What was in the queue of a process that ends is thrown away.
LEMMA ClearRcvd ==
    ASSUME IInv, NEW p \in Procs
    PROVE  RcvdQueues(View, [fromBus EXCEPT ![p] = <<>>])
  BY IInvQueues, EmptyQueue DEF RcvdQueues, RcvdQueue

\* QtDBus reads a message.
LEMMA ReceiveStep ==
    ASSUME IInv, NEW c \in Clients, Receive(c)
    PROVE  IInv'
<1> DEFINE m == Head(fromBus[c])
<1>1. m \in Messages /\ Rcvd(View, c, m) /\ RcvdQueues(View, fromBus')
  BY ReadRcvd DEF Receive, Procs
<1>2. lib[c] = "ready" /\ UNCHANGED <<lib, sap>>
  BY DEF Receive, sapVars
<1>3. /\ UNCHANGED <<calls, cur, since>>
      /\ pc' \in [Clients -> {"idle", "waiting"}]
      /\ ret' \in [Clients -> {"none", "true", "false"}]
      /\ out' \in [Clients -> Returns \cup {Untouched}]
      /\ View' = View /\ Rows' /\ AnswerIsMine'
  <2>1. CASE Answers(c, m)
    <3>1. EndCall(c, m)
      BY <2>1 DEF Receive
    <3>2. Known(View, m) /\ m.client = c /\ m.serial = calls[c]
      BY <1>1, <2>1 DEF Answers, Rcvd
    <3>3. UNCHANGED <<calls, cur, since>>
      BY <3>1 DEF EndCall
    <3> QED BY <1>1, <1>2, <3>1, <3>2, <3>3, EndCallStep
  <2>2. CASE ~Answers(c, m)
    <3>1. UNCHANGED callVars
      BY <2>2 DEF Receive
    <3>2. View' = View /\ Rows' /\ AnswerIsMine'
      BY <1>2, <3>1, CallsSame
    <3> QED BY <3>1, <3>2 DEF callVars, IInv, TypeOK
  <2> QED BY <2>1, <2>2
<1>4. qtOwner' \in [Clients -> BOOLEAN]
  BY <1>1, MessageFields DEF Receive, IInv, TypeOK
<1>5. TypeOK'
  BY <1>1, <1>3, <1>4 DEF IInv, TypeOK, Receive, RcvdQueues, serverVars, busVars, sapVars
<1>6. SentQueues(View, toBus') /\ \A s \in Servers : \A q \in serving'[s] : Known(View, q)
  BY IInvQueues DEF Receive, serverVars, IInv, Queues
<1> QED BY <1>1, <1>3, <1>5, <1>6, QueuesNext DEF IInv

\* A program ends.
LEMMA ExitStep ==
    ASSUME IInv, NEW c \in Clients, Exit(c)
    PROVE  IInv'
<1>1. RcvdQueues(View, fromBus')
  BY ClearRcvd DEF Exit, Procs
<1>2. View' = View
  BY DEF Exit, View, sapVars
<1>3. Rows' /\ AnswerIsMine'
  BY DEF IInv, TypeOK, Rows, AnswerIsMine, Exit, sapVars
<1>4. TypeOK'
  BY <1>1 DEF IInv, TypeOK, Exit, RcvdQueues, LibStates, serverVars, busVars, sapVars
<1>5. SentQueues(View, toBus') /\ \A s \in Servers : \A q \in serving'[s] : Known(View, q)
  BY IInvQueues DEF Exit, serverVars, IInv, Queues
<1> QED BY <1>1, <1>2, <1>3, <1>4, <1>5, QueuesNext DEF IInv

----------------------------------------------------------------------------
(* The server.                                                             *)

\* What a step of a server or of the daemon has to show: it leaves the calls
\* and SAP alone and writes good messages only.
LEMMA OtherStep ==
    ASSUME IInv, UNCHANGED <<libVars, callVars, sapVars>>,
           SentQueues(View, toBus'), RcvdQueues(View, fromBus'),
           spc' \in [Servers -> ServerStates], configured' \in [Servers -> BOOLEAN],
           serving' \in [Servers -> SUBSET Calls],
           \A s \in Servers : \A q \in serving'[s] : Known(View, q),
           busUp' \in BOOLEAN, attached' \subseteq Procs, owners' \in Seq(Servers),
           pending' \subseteq PendingReplies
    PROVE  IInv'
<1>1. View' = View /\ Rows' /\ AnswerIsMine'
  BY CallsSame DEF libVars, sapVars
<1>2. TypeOK'
  BY DEF IInv, TypeOK, libVars, callVars, sapVars, SentQueues, RcvdQueues
<1> QED BY <1>1, <1>2, QueuesNext DEF IInv

\* The calls a server executes, if a step leaves them or clears them.
LEMMA ServingSame ==
    ASSUME IInv, NEW s \in Servers, serving' = serving \/ serving' = [serving EXCEPT ![s] = {}]
    PROVE  /\ serving' \in [Servers -> SUBSET Calls]
           /\ \A t \in Servers : \A q \in serving'[t] : Known(View, q)
  BY DEF IInv, TypeOK, Queues

\* A server moves to state x, or stays.
LEMMA StateType ==
    ASSUME IInv, NEW s \in Servers, NEW x \in ServerStates,
           spc' = spc \/ spc' = [spc EXCEPT ![s] = x]
    PROVE  spc' \in [Servers -> ServerStates]
<1>1. spc \in [Servers -> ServerStates]
  BY DEF IInv, TypeOK
<1>2. [spc EXCEPT ![s] = x] \in [Servers -> ServerStates]
  BY <1>1
<1> QED BY <1>1, <1>2

\* Main connects and asks for the name.
LEMMA ServerStartStep ==
    ASSUME IInv, NEW s \in Servers, ServerStart(s)
    PROVE  IInv'
<1>1. RequestName \in Messages /\ Sent(View, s, RequestName)
  BY DEF RequestName, Messages, Sent, Known
<1>2. SentQueues(View, toBus')
  BY <1>1, IInvQueues, WriteSent DEF ServerStart, Procs
<1> QED BY <1>2, IInvQueues, ServingSame, OtherStep
        DEF ServerStart, IInv, TypeOK, ServerStates, Procs, libVars, callVars, sapVars

\* Main waits for the reply to RequestName and refuses the calls it meets.
LEMMA ServerAwaitNameStep ==
    ASSUME IInv, NEW s \in Servers, ServerAwaitName(s)
    PROVE  IInv'
<1> DEFINE m == Head(fromBus[s])
<1>1. m \in Messages /\ RcvdQueues(View, fromBus')
  BY ReadRcvd DEF ServerAwaitName, Procs
<1>2. SentQueues(View, toBus')
  <2>1. CASE m.type = "call"
    <3>1. m \in Calls
      BY <1>1, <2>1, MessageFields
    <3>2. Error(m.client, m.serial) \in Messages /\ Sent(View, s, Error(m.client, m.serial))
      BY <3>1 DEF Error, Calls, Errors, Messages, Sent, Known
    <3>3. toBus' = [toBus EXCEPT ![s] = Append(toBus[s], Error(m.client, m.serial))]
      BY <2>1 DEF ServerAwaitName
    <3> QED BY <3>2, <3>3, IInvQueues, WriteSent DEF Procs
  <2>2. CASE m.type # "call"
    BY <2>2, IInvQueues DEF ServerAwaitName
  <2> QED BY <2>1, <2>2
<1>3. spc' \in [Servers -> ServerStates] /\ configured' \in [Servers -> BOOLEAN]
  BY DEF ServerAwaitName, IInv, TypeOK, ServerStates
<1>4. /\ UNCHANGED <<libVars, callVars, sapVars>>
      /\ UNCHANGED <<serving, busUp, attached, owners, pending>>
  BY DEF ServerAwaitName, busVars
<1> QED BY <1>1, <1>2, <1>3, <1>4, ServingSame, OtherStep DEF IInv, TypeOK

\* bus.Iterate reads a message; a call enters SapServerQuery.
LEMMA ServerIterateStep ==
    ASSUME IInv, NEW s \in Servers, ServerIterate(s)
    PROVE  IInv'
<1> DEFINE m == Head(fromBus[s])
<1>1. m \in Messages /\ Known(View, m) /\ RcvdQueues(View, fromBus')
  BY ReadRcvd DEF ServerIterate, Procs, Rcvd
<1>2. /\ serving' \in [Servers -> SUBSET Calls]
      /\ \A t \in Servers : \A q \in serving'[t] : Known(View, q)
  <2>1. CASE m.type = "call"
    <3>1. m \in Calls /\ serving' = [serving EXCEPT ![s] = {m}]
      BY <1>1, <2>1, MessageFields DEF ServerIterate
    <3> QED BY <1>1, <3>1 DEF IInv, TypeOK, Queues
  <2>2. CASE m.type # "call"
    BY <2>2, ServingSame DEF ServerIterate
  <2> QED BY <2>1, <2>2
<1>3. spc' \in [Servers -> ServerStates]
  <2>1. spc' = spc \/ spc' = [spc EXCEPT ![s] = "serving"]
    BY DEF ServerIterate
  <2> QED BY <2>1, StateType DEF ServerStates
<1>4. /\ UNCHANGED <<libVars, callVars, sapVars>>
      /\ UNCHANGED <<configured, toBus, busUp, attached, owners, pending>>
  BY DEF ServerIterate, busVars
<1> QED BY <1>1, <1>2, <1>3, <1>4, IInvQueues, OtherStep DEF IInv, TypeOK

\* The reply to a call in execution carries the call's own serial, method and
\* argument, and the version of the row SAP has now.
LEMMA ResultIsKnown ==
    ASSUME IInv, NEW s \in Servers, NEW q \in serving[s]
    PROVE  Result(s, q) \in Messages /\ Sent(View, s, Result(s, q))
<1>1. q \in Calls /\ Known(View, q) /\ q.type = "call"
  BY DEF IInv, TypeOK, Queues, Calls
<1>2. ASSUME NEW v \in Nat,
             q.method # "ping" => v = sap[q.arg]
      PROVE  Return(q, v) \in Messages /\ Sent(View, s, Return(q, v))
  <2>1. Return(q, v) \in Returns
    BY <1>1 DEF Return, Calls, Returns
  <2>2. q.client \in Clients /\ q.arg \in Args /\ sap[q.arg] \in Nat
    BY <1>1 DEF Calls, IInv, TypeOK
  <2>3. since[q.client].row \in Nat /\ sap[cur[q.client].arg] \in Nat
    BY <2>2 DEF IInv, TypeOK
  <2>4. since[q.client].row <= sap[cur[q.client].arg]
    BY <2>2 DEF IInv, Rows
  <2>5. Known(View, Return(q, v))
    BY <1>1, <1>2, <2>2, <2>3, <2>4 DEF Known, View, Return
  <2> QED BY <2>1, <2>5 DEF Sent, Return, Messages
<1>3. Error(q.client, q.serial) \in Messages /\ Sent(View, s, Error(q.client, q.serial))
  BY <1>1 DEF Error, Calls, Errors, Messages, Sent, Known
<1>4. q.arg \in Args /\ sap[q.arg] \in Nat
  BY <1>1 DEF Calls, IInv, TypeOK
<1> QED BY <1>2, <1>3, <1>4 DEF Result, PingResult, QueryResult

\* The reply is written, or Main ends because it cannot be.
LEMMA ServerReplyStep ==
    ASSUME IInv, NEW s \in Servers, ServerReply(s)
    PROVE  IInv'
<1>1. SentQueues(View, toBus') /\ RcvdQueues(View, fromBus')
  <2>1. CASE busUp
    <3>1. PICK q \in serving[s] : toBus' = [toBus EXCEPT ![s] = Append(toBus[s], Result(s, q))]
      BY <2>1 DEF ServerReply
    <3>2. fromBus' = fromBus
      BY <2>1 DEF ServerReply
    <3> QED BY <3>1, <3>2, ResultIsKnown, IInvQueues, WriteSent DEF Procs
  <2>2. CASE ~busUp
    BY <2>2, IInvQueues, ClearRcvd DEF ServerReply, Procs
  <2> QED BY <2>1, <2>2
<1>2. spc' \in [Servers -> ServerStates]
  <2>1. spc' = [spc EXCEPT ![s] = "running"] \/ spc' = [spc EXCEPT ![s] = "dead"]
    BY DEF ServerReply
  <2> QED BY <2>1, StateType DEF ServerStates
<1>3. /\ UNCHANGED <<libVars, callVars, sapVars>>
      /\ UNCHANGED <<configured, busUp, attached, owners, pending>>
      /\ serving' = [serving EXCEPT ![s] = {}]
  BY DEF ServerReply, busVars
<1> QED BY <1>1, <1>2, <1>3, ServingSame, OtherStep DEF IInv, TypeOK

\* The server is killed.
LEMMA ServerCrashStep ==
    ASSUME IInv, NEW s \in Servers, ServerCrash(s)
    PROVE  IInv'
<1>1. SentQueues(View, toBus') /\ RcvdQueues(View, fromBus')
  BY IInvQueues, ClearRcvd DEF ServerCrash, Procs
<1>2. spc' \in [Servers -> ServerStates]
  BY DEF ServerCrash, IInv, TypeOK, ServerStates
<1>3. /\ UNCHANGED <<libVars, callVars, sapVars>>
      /\ UNCHANGED <<configured, busUp, attached, owners, pending>>
      /\ serving' = [serving EXCEPT ![s] = {}]
  BY DEF ServerCrash, busVars
<1> QED BY <1>1, <1>2, <1>3, ServingSame, OtherStep DEF IInv, TypeOK

----------------------------------------------------------------------------
(* The daemon.                                                             *)

\* A call is forwarded to the primary owner or refused.
LEMMA DispatchCallStep ==
    ASSUME IInv, NEW c \in Procs, NEW m \in Messages, Sent(View, c, m), m.type = "call",
           DispatchCall(c, m)
    PROVE  RcvdQueues(View, fromBus') /\ owners' = owners /\ pending' \subseteq PendingReplies
<1>1. m \in Calls /\ c = m.client /\ c \in Clients /\ m.serial \in Nat
  BY MessageFields DEF Sent, Calls
<1>2. Error(c, m.serial) \in Messages /\ Rcvd(View, c, Error(c, m.serial))
  BY <1>1 DEF Error, Errors, Messages, Rcvd, Known
<1>3. CASE owners # <<>>
  <2>1. PrimaryOwner \in Servers
    BY <1>3 DEF PrimaryOwner, IInv, TypeOK
  <2>2. Rcvd(View, PrimaryOwner, m)
    BY DEF Sent, Rcvd
  <2>3. [caller |-> c, serial |-> m.serial, callee |-> PrimaryOwner] \in PendingReplies
    BY <1>1, <2>1 DEF PendingReplies
  <2>4. RcvdQueues(View, Deliver(fromBus, PrimaryOwner, m))
    BY <2>1, <2>2, IInvQueues, DeliverQueue DEF Procs
  <2>5. RcvdQueues(View, Deliver(fromBus, c, Error(c, m.serial)))
    BY <1>1, <1>2, IInvQueues, DeliverQueue
  <2> QED BY <2>3, <2>4, <2>5 DEF DispatchCall, IInv, TypeOK
<1>4. CASE owners = <<>>
  BY <1>1, <1>2, <1>4, IInvQueues, DeliverQueue DEF DispatchCall, IInv, TypeOK
<1> QED BY <1>3, <1>4

\* A request for the name is granted or queued.
LEMMA DispatchRequestNameStep ==
    ASSUME IInv, NEW s \in Servers, DispatchRequestName(s)
    PROVE  RcvdQueues(View, fromBus') /\ owners' \in Seq(Servers) /\ pending' = pending
<1>1. /\ NameReply \in Messages /\ Rcvd(View, s, NameReply)
      /\ NameAcquired \in Messages /\ Rcvd(View, s, NameAcquired)
  BY DEF NameReply, NameAcquired, Messages, Signals, Rcvd, Known
<1>2. RcvdQueues(View, Deliver(fromBus, s, NameReply))
  BY <1>1, IInvQueues, DeliverQueue DEF Procs
<1>3. RcvdQueues(View, Broadcast(fromBus, TRUE))
  BY IInvQueues, BroadcastQueue
<1>4. RcvdQueues(View, Deliver(Broadcast(fromBus, TRUE), s, NameAcquired))
  BY <1>1, <1>3, DeliverQueue DEF Procs
<1>5. RcvdQueues(View, Deliver(Deliver(Broadcast(fromBus, TRUE), s, NameAcquired), s, NameReply))
  BY <1>1, <1>4, DeliverQueue DEF Procs
<1>6. RcvdQueues(View, fromBus') /\ pending' = pending
  BY <1>2, <1>5 DEF DispatchRequestName
<1>7. owners' = Append(owners, s) /\ owners \in Seq(Servers)
  BY DEF DispatchRequestName, IInv, TypeOK
<1> QED BY <1>6, <1>7

\* A reply goes to the client it is for, if it is expected.
LEMMA DispatchReplyStep ==
    ASSUME IInv, NEW s \in Procs, NEW m \in Messages, Sent(View, s, m),
           m.type \in {"return", "error"}, DispatchReply(s, m)
    PROVE  RcvdQueues(View, fromBus') /\ owners' = owners /\ pending' \subseteq PendingReplies
<1>1. m.client \in Clients
  BY MessageFields DEF Returns, Errors
<1>2. Rcvd(View, m.client, m)
  BY DEF Sent, Rcvd
<1>3. RcvdQueues(View, Deliver(fromBus, m.client, m))
  BY <1>1, <1>2, IInvQueues, DeliverQueue DEF Procs
<1>4. RcvdQueues(View, Deliver(fromBus, s, Error(m.client, m.serial)))
  <2>1. s \in Servers /\ s \notin Clients
    BY SetsAssumption DEF Sent
  <2>2. m.serial \in Nat
    BY MessageFields DEF Returns, Errors
  <2>3. Error(m.client, m.serial) \in Messages /\ Rcvd(View, s, Error(m.client, m.serial))
    BY <1>1, <2>1, <2>2 DEF Error, Errors, Messages, Rcvd, Known
  <2> QED BY <2>3, IInvQueues, DeliverQueue
<1>5. pending' \subseteq pending
  BY DEF DispatchReply
<1> QED BY <1>3, <1>4, <1>5 DEF DispatchReply, IInv, TypeOK

\* bus_dispatch of one message.
LEMMA DispatchStep ==
    ASSUME IInv, NEW p \in Procs, Dispatch(p)
    PROVE  IInv'
<1> DEFINE m == Head(toBus[p])
<1>1. m \in Messages /\ Sent(View, p, m) /\ SentQueues(View, toBus')
  BY ReadSent DEF Dispatch
<1>2. \/ m.type = "call" /\ DispatchCall(p, m)
      \/ m.type = "RequestName" /\ DispatchRequestName(p)
      \/ m.type \in {"return", "error"} /\ DispatchReply(p, m)
  BY DEF Dispatch
<1>3. RcvdQueues(View, fromBus') /\ owners' \in Seq(Servers) /\ pending' \subseteq PendingReplies
  <2>1. CASE m.type = "call" /\ DispatchCall(p, m)
    BY <1>1, <2>1, DispatchCallStep DEF IInv, TypeOK
  <2>2. CASE m.type = "RequestName" /\ DispatchRequestName(p)
    <3>1. p \in Servers
      BY <1>1, <2>2 DEF Sent
    <3> QED BY <2>2, <3>1, DispatchRequestNameStep DEF IInv, TypeOK
  <2>3. CASE m.type \in {"return", "error"} /\ DispatchReply(p, m)
    BY <1>1, <2>3, DispatchReplyStep DEF IInv, TypeOK
  <2> QED BY <1>2, <2>1, <2>2, <2>3
<1>4. /\ UNCHANGED <<libVars, callVars, sapVars>>
      /\ UNCHANGED <<spc, configured, serving, busUp, attached>>
  BY DEF Dispatch, serverVars
<1> QED BY <1>1, <1>3, <1>4, OtherStep DEF IInv, TypeOK, Queues

\* Leaving the queue of owners leaves a queue of servers.
LEMMA UnlinkType ==
    ASSUME IInv, NEW p
    PROVE  Unlink(p) \in Seq(Servers)
<1>1. owners \in Seq(Servers)
  BY DEF IInv, TypeOK
<1>2. CASE Contains(owners, p)
  <2> DEFINE i == FindOwnerLink(p)
             a == SubSeq(owners, 1, i - 1)
             b == SubSeq(owners, i + 1, Len(owners))
  <2>1. i \in 1 .. Len(owners)
    BY <1>1, <1>2 DEF Contains, FindOwnerLink
  <2> HIDE DEF i
  <2>2. a \in Seq(Servers) /\ b \in Seq(Servers)
    BY <1>1, <2>1
  <2>3. Unlink(p) = a \o b
    BY <1>2 DEF Unlink, RemoveAt, i
  <2> HIDE DEF a, b
  <2> QED BY <2>2, <2>3
<1>3. CASE ~Contains(owners, p)
  BY <1>1, <1>3 DEF Unlink
<1> QED BY <1>2, <1>3

\* A connection is dropped.
LEMMA DisconnectedStep ==
    ASSUME IInv, NEW p \in Procs, Disconnected(p)
    PROVE  IInv'
<1>1. owners' \in Seq(Servers)
  BY UnlinkType DEF Disconnected, RemoveOwner
<1>2. RcvdQueues(View, fromBus')
  <2>1. /\ RcvdQueues(View, fromBus) /\ RcvdQueues(View, Broadcast(fromBus, FALSE))
        /\ RcvdQueues(View, Broadcast(fromBus, TRUE))
    BY IInvQueues, BroadcastQueue
  <2>2. ASSUME Unlink(p) # <<>>
        PROVE  RcvdQueues(View, Deliver(Broadcast(fromBus, TRUE), Head(Unlink(p)), NameAcquired))
    <3>1. Head(Unlink(p)) \in Procs
      BY <2>2, UnlinkType DEF Procs
    <3>2. NameAcquired \in Messages /\ Rcvd(View, Head(Unlink(p)), NameAcquired)
      BY DEF NameAcquired, Messages, Signals, Rcvd, Known
    <3> QED BY <2>1, <3>1, <3>2, DeliverQueue
  <2> QED BY <2>1, <2>2 DEF Disconnected, RemoveOwner
<1>3. pending' \subseteq PendingReplies
  <2>1. pending \subseteq PendingReplies
    BY DEF IInv, TypeOK
  <2>2. \A r \in PendingReplies : [r EXCEPT !.callee = Gone] \in PendingReplies
    BY DEF PendingReplies
  <2> QED BY <2>1, <2>2 DEF Disconnected, DropPendingReplies
<1>4. /\ UNCHANGED <<libVars, callVars, sapVars>>
      /\ UNCHANGED <<spc, configured, serving, busUp, toBus>>
      /\ attached' = attached \ {p}
  BY DEF Disconnected, serverVars
<1> QED BY <1>1, <1>2, <1>3, <1>4, IInvQueues, OtherStep DEF IInv, TypeOK, Queues

\* A reply that can no longer come is given up.
LEMMA ExpireStep ==
    ASSUME IInv, NEW r \in pending, Expire(r)
    PROVE  IInv'
<1>1. r.caller \in Clients /\ r.serial \in Nat
  BY DEF IInv, TypeOK, PendingReplies
<1>2. /\ Error(r.caller, r.serial) \in Messages
      /\ Rcvd(View, r.caller, Error(r.caller, r.serial))
  BY <1>1 DEF Error, Errors, Messages, Rcvd, Known
<1>3. RcvdQueues(View, fromBus')
  BY <1>1, <1>2, IInvQueues, DeliverQueue DEF Expire, Procs
<1>4. /\ UNCHANGED <<libVars, callVars, sapVars>>
      /\ UNCHANGED <<spc, configured, serving, busUp, attached, owners, toBus>>
      /\ pending' = pending \ {r}
  BY DEF Expire, serverVars
<1> QED BY <1>3, <1>4, IInvQueues, OtherStep DEF IInv, TypeOK, Queues

\* The daemon ends.
LEMMA BusEndsStep ==
    ASSUME IInv, BusEnds
    PROVE  IInv'
<1>1. SentQueues(View, toBus')
  BY EmptyQueue DEF BusEnds, SentQueues
<1>2. /\ UNCHANGED <<libVars, callVars, sapVars>>
      /\ UNCHANGED <<spc, configured, serving, fromBus>>
      /\ busUp' = FALSE /\ attached' = {} /\ owners' = <<>> /\ pending' = {}
  BY DEF BusEnds, serverVars
<1>3. owners' \in Seq(Servers) /\ attached' \subseteq Procs /\ pending' \subseteq PendingReplies
  BY <1>2
<1>4. /\ spc' \in [Servers -> ServerStates] /\ configured' \in [Servers -> BOOLEAN]
      /\ serving' \in [Servers -> SUBSET Calls]
      /\ \A s \in Servers : \A q \in serving'[s] : Known(View, q)
  BY <1>2 DEF IInv, TypeOK, Queues
<1>5. RcvdQueues(View, fromBus')
  BY <1>2, IInvQueues
<1> QED BY <1>1, <1>2, <1>3, <1>4, <1>5, OtherStep

----------------------------------------------------------------------------
(* SAP.                                                                    *)

\* A row gets a newer version.
LEMMA SapChangeStep ==
    ASSUME IInv, NEW a \in Args, SapChange(a)
    PROVE  IInv'
<1>1. sap' \in [Args -> Nat] /\ \A b \in Args : sap[b] \in Nat /\ sap'[b] \in Nat /\ sap[b] <= sap'[b]
  BY DEF SapChange, IInv, TypeOK
<1>2. UNCHANGED <<libVars, callVars, serverVars, busVars, chanVars, sapUp, toggles>>
  BY DEF SapChange
<1>3. TypeOK'
  BY <1>1, <1>2 DEF IInv, TypeOK, libVars, callVars, serverVars, busVars, chanVars
<1>4. \A m \in Messages : Known(View, m) => Known(View', m)
  <2> SUFFICES ASSUME NEW m \in Messages, Known(View, m) PROVE Known(View', m)
    OBVIOUS
  <2>1. m.type = "return" => m.arg \in Args /\ m.val \in Nat
    BY MessageFields DEF Returns
  <2> QED BY <1>1, <1>2, <2>1 DEF Known, View, callVars
<1>5. Queues'
  BY <1>2, <1>4, QueuesStable DEF chanVars, serverVars, Queues, SentQueues, RcvdQueues
<1>6. Rows'
  <2> SUFFICES ASSUME NEW c \in Clients
               PROVE  since[c].row <= sap'[cur[c].arg]
    BY <1>2 DEF IInv, Rows, callVars, libVars
  <2>1. cur[c].arg \in Args /\ since[c].row \in Nat /\ since[c].row <= sap[cur[c].arg]
    BY DEF IInv, TypeOK, Rows
  <2> QED BY <1>1, <2>1
<1>7. AnswerIsMine'
  <2> SUFFICES ASSUME NEW c \in Clients, ret[c] = "true", cur[c].method # "ping"
               PROVE  out[c].val <= sap'[cur[c].arg]
    BY <1>2 DEF IInv, AnswerIsMine, callVars
  <2>1. cur[c].arg \in Args /\ out[c] \in Returns
    BY DEF IInv, TypeOK, Rows
  <2>2. out[c].val \in Nat /\ out[c].val <= sap[cur[c].arg]
    BY <2>1 DEF IInv, AnswerIsMine, Returns
  <2> QED BY <1>1, <2>1, <2>2
<1> QED BY <1>3, <1>5, <1>6, <1>7 DEF IInv

\* SAP goes away or comes back.
LEMMA SapToggleStep ==
    ASSUME IInv, SapToggle
    PROVE  IInv'
<1>1. since' \in [Clients -> [row : Nat, up : BOOLEAN]]
      /\ \A c \in Clients : since'[c].row = since[c].row
  BY DEF SapToggle, IInv, TypeOK
<1>2. /\ UNCHANGED <<libVars, pc, calls, cur, ret, out, serverVars, busVars, chanVars, sap>>
      /\ sapUp' \in BOOLEAN /\ toggles' \in Nat
  BY DEF SapToggle, IInv, TypeOK
<1>3. TypeOK'
  BY <1>1, <1>2 DEF IInv, TypeOK, libVars, serverVars, busVars, chanVars
<1>4. \A m \in Messages : Known(View, m) => Known(View', m)
  <2> SUFFICES ASSUME NEW m \in Messages, Known(View, m) PROVE Known(View', m)
    OBVIOUS
  <2>1. m.type = "return" => m.client \in Clients
    BY MessageFields DEF Returns
  <2> QED BY <1>1, <1>2, <2>1 DEF Known, View
<1>5. Queues'
  BY <1>2, <1>4, QueuesStable DEF chanVars, serverVars, Queues, SentQueues, RcvdQueues
<1>6. Rows' /\ AnswerIsMine'
  BY <1>1, <1>2 DEF IInv, Rows, AnswerIsMine, libVars
<1> QED BY <1>3, <1>5, <1>6 DEF IInv

----------------------------------------------------------------------------
(* The theorems.                                                           *)

\* What the program behind a client does preserves the invariant.
LEMMA LibraryStep ==
    ASSUME IInv, NEW c \in Clients, Library(c)
    PROVE  IInv'
<1>1. CASE CheckInterface(c)
  BY <1>1, UnassignedStep DEF CheckInterface
<1>2. CASE ping(c)
  BY <1>2, LibCallStep, InputAssumption DEF ping
<1>3. ASSUME NEW a \in Args, NEW m, LibCall(c, m, a)
      PROVE  IInv'
  BY <1>3, LibCallStep
<1> QED BY <1>1, <1>2, <1>3, ConstructStep
        DEF Library, getMKT, getOrderTypeNr, getOrderQty, getOrderFailQty, getOrderType,
            getValueFromTable

\* The invariant is inductive.
LEMMA Inductive == IInv /\ [Next]_vars => IInv'
<1> SUFFICES ASSUME IInv, [Next]_vars PROVE IInv'
  OBVIOUS
<1>1. CASE UNCHANGED vars
  BY <1>1 DEF IInv, TypeOK, Queues, Rows, AnswerIsMine, View, vars, libVars, callVars,
              serverVars, busVars, chanVars, sapVars
<1>2. ASSUME NEW c \in Clients,
             Library(c) \/ Receive(c) \/ LostBus(c) \/ Exit(c) \/ Timeout(c)
      PROVE  IInv'
  BY <1>2, LibraryStep, ReceiveStep, GiveUpStep, ExitStep
<1>3. ASSUME NEW s \in Servers, ServerStep(s)
      PROVE  IInv'
  BY <1>3, ServerStartStep, ServerAwaitNameStep, ServerIterateStep, ServerReplyStep,
     ServerCrashStep DEF ServerStep
<1>4. CASE Bus
  BY <1>4, DispatchStep, DisconnectedStep, ExpireStep, BusEndsStep DEF Bus
<1>5. ASSUME NEW a \in Args, SapChange(a)
      PROVE  IInv'
  BY <1>5, SapChangeStep
<1>6. CASE SapToggle
  BY <1>6, SapToggleStep
<1> QED BY <1>1, <1>2, <1>3, <1>4, <1>5, <1>6 DEF Next, NextPrompt

\* The invariant holds in every reachable state of the bridge.
THEOREM Invariance == Spec => []IInv
  BY InitIInv, Inductive, PTL DEF Spec

\* Every variable of library, server, daemon and SAP keeps its type, for any
\* number of programs, servers and calls (TypeOK).
THEOREM TypeCorrect == Spec => []TypeOK
<1>1. IInv => TypeOK
  BY DEF IInv
<1> QED BY <1>1, Invariance, PTL

\* A call that returned true handed out the column and the key it asked for,
\* as they were in SAP during this very call: no late reply to a call that was
\* given up, and no reply to somebody else, is ever taken for it (AnswerIsMine).
THEOREM AnswersAreFresh == Spec => []AnswerIsMine
<1>1. IInv => AnswerIsMine
  BY DEF IInv
<1> QED BY <1>1, Invariance, PTL

----------------------------------------------------------------------------
(* The bridge implements SapRpc.                                           *)

\* The initial state is one of SapRpc.
LEMMA RpcInit == Init => Rpc!Init
  BY DEF Init, Rpc!Init, StartedAt, HandedOut

\* A step that leaves the callers' view alone is a stutter.
LEMMA RpcStutter ==
    ASSUME UNCHANGED <<pc, cur, ret, out, sap>>,
           \A c \in Clients : since'[c].row = since[c].row
    PROVE  UNCHANGED Rpc!vars
<1>1. StartedAt' = StartedAt /\ HandedOut' = HandedOut
  BY DEF StartedAt, HandedOut
<1> QED BY <1>1 DEF Rpc!vars

\* A call is refused, blocks, or is the end of what is claimed of its program.
LEMMA RpcLibCall ==
    ASSUME IInv, NEW c \in Clients, NEW m, NEW a \in Args, LibCall(c, m, a)
    PROVE  [Rpc!Next]_Rpc!vars
<1>1. m \in Methods /\ pc[c] = "idle"
  BY InputAssumption DEF LibCall
<1>2. /\ pc \in [Clients -> {"idle", "waiting"}]
      /\ since \in [Clients -> [row : Nat, up : BOOLEAN]]
      /\ out \in [Clients -> Returns \cup {Untouched}]
  BY DEF IInv, TypeOK
<1>3. ASSUME since' = [since EXCEPT ![c] = [row |-> sap[a], up |-> sapUp]],
             out' = [out EXCEPT ![c] = Untouched]
      PROVE  /\ StartedAt' = [StartedAt EXCEPT ![c] = sap[a]]
             /\ HandedOut' = [HandedOut EXCEPT ![c] = 0]
  BY <1>2, <1>3 DEF StartedAt, HandedOut
<1>4. CASE Refuse(c, m, a)
  <2>1. pc' = [pc EXCEPT ![c] = "idle"]
    BY <1>1, <1>2, <1>4 DEF Refuse
  <2>2. Rpc!Refuse(c, m, a)
    BY <1>1, <1>3, <1>4, <2>1 DEF Refuse, Rpc!Refuse, Rpc!Begin, sapVars
  <2> QED BY <1>1, <2>2 DEF Rpc!Next
<1>5. CASE Send(c, m, a)
  <2>1. Rpc!Request(c, m, a)
    BY <1>1, <1>3, <1>5 DEF Send, Rpc!Request, Rpc!Begin, sapVars
  <2> QED BY <1>1, <2>1 DEF Rpc!Next
<1>6. CASE UseOfUnassigned(c)
  BY <1>6, RpcStutter DEF UseOfUnassigned, sapVars
<1> QED BY <1>4, <1>5, <1>6 DEF LibCall

\* A blocking call that ends succeeds or fails.
LEMMA RpcEndCall ==
    ASSUME IInv, IInv', NEW c \in Clients, NEW r \in Messages, EndCall(c, r),
           pc[c] = "waiting", sap' = sap
    PROVE  [Rpc!Next]_Rpc!vars
<1>1. /\ ret \in [Clients -> {"none", "true", "false"}]
      /\ out \in [Clients -> Returns \cup {Untouched}]
  BY DEF IInv, TypeOK
<1>2. StartedAt' = StartedAt /\ cur' = cur /\ pc' = [pc EXCEPT ![c] = "idle"]
  BY DEF EndCall, StartedAt
<1>3. CASE r.type = "return"
  <2>1. ret' = [ret EXCEPT ![c] = "true"] /\ out' = [out EXCEPT ![c] = r]
    BY <1>3 DEF EndCall
  <2>2. ret'[c] = "true" /\ out'[c] = r /\ \A d \in Clients \ {c} : out'[d] = out[d]
    BY <1>1, <2>1
  <2>3. r \in Returns /\ r # Untouched
    BY <1>3, MessageFields DEF Returns, Untouched
  <2>4. HandedOut'[c] = r.val /\ r.val \in Nat
    BY <2>2, <2>3 DEF HandedOut, Returns
  <2>5. HandedOut' = [HandedOut EXCEPT ![c] = HandedOut'[c]]
    BY <2>2 DEF HandedOut
  <2>6. cur[c].method # "ping" => StartedAt[c] <= r.val /\ r.val <= sap[cur[c].arg]
    BY <1>2, <2>2 DEF IInv, AnswerIsMine, StartedAt, EndCall
  <2>7. Rpc!Succeed(c)
    BY <1>2, <2>1, <2>4, <2>5, <2>6 DEF Rpc!Succeed
  <2> QED BY <2>7 DEF Rpc!Next
<1>4. CASE r.type # "return"
  <2>1. ret' = [ret EXCEPT ![c] = "false"] /\ out' = out
    BY <1>1, <1>4 DEF EndCall
  <2>2. HandedOut' = HandedOut
    BY <2>1 DEF HandedOut
  <2>3. Rpc!Fail(c)
    BY <1>2, <2>1, <2>2 DEF Rpc!Fail
  <2> QED BY <2>3 DEF Rpc!Next
<1> QED BY <1>3, <1>4

\* Every step of the bridge is a step of SapRpc or leaves its variables alone.
LEMMA RpcStep == IInv /\ IInv' /\ [Next]_vars => [Rpc!Next]_Rpc!vars
<1> SUFFICES ASSUME IInv, IInv', [Next]_vars PROVE [Rpc!Next]_Rpc!vars
  OBVIOUS
<1>1. ASSUME UNCHANGED <<callVars, sap>> PROVE [Rpc!Next]_Rpc!vars
  BY <1>1, RpcStutter DEF callVars
<1>2. ASSUME NEW c \in Clients, Library(c)
      PROVE  [Rpc!Next]_Rpc!vars
  <2>1. CASE Construct(c) \/ ConstructNoBus(c) \/ ConstructDefault(c)
    BY <1>1, <2>1 DEF Construct, ConstructNoBus, ConstructDefault, sapVars
  <2>2. CASE CheckInterface(c)
    BY <2>2, RpcStutter DEF CheckInterface, UseOfUnassigned, sapVars
  <2>3. CASE ping(c)
    BY <2>3, RpcLibCall, InputAssumption DEF ping
  <2>4. ASSUME NEW a \in Args, NEW m, LibCall(c, m, a)
        PROVE  [Rpc!Next]_Rpc!vars
    BY <2>4, RpcLibCall
  <2> QED BY <1>2, <2>1, <2>2, <2>3, <2>4
          DEF Library, getMKT, getOrderTypeNr, getOrderQty, getOrderFailQty, getOrderType,
              getValueFromTable
<1>3. ASSUME NEW c \in Clients, Receive(c)
      PROVE  [Rpc!Next]_Rpc!vars
  <2> DEFINE m == Head(fromBus[c])
  <2>1. m \in Messages /\ sap' = sap
    BY <1>3, ReadRcvd DEF Receive, Procs, sapVars
  <2>2. CASE Answers(c, m)
    BY <1>3, <2>1, <2>2, RpcEndCall DEF Receive, Answers
  <2>3. CASE ~Answers(c, m)
    BY <1>1, <1>3, <2>1, <2>3 DEF Receive
  <2> QED BY <2>2, <2>3
<1>4. ASSUME NEW c \in Clients, Timeout(c) \/ LostBus(c)
      PROVE  [Rpc!Next]_Rpc!vars
  <2>1. Error(c, calls[c]) \in Messages
    BY DEF Error, Errors, Messages, IInv, TypeOK
  <2>2. EndCall(c, Error(c, calls[c])) /\ pc[c] = "waiting" /\ sap' = sap
    BY <1>4 DEF Timeout, LostBus, sapVars
  <2> QED BY <2>1, <2>2, RpcEndCall
<1>5. ASSUME NEW c \in Clients, Exit(c)
      PROVE  [Rpc!Next]_Rpc!vars
  <2>1. pc \in [Clients -> {"idle", "waiting"}]
    BY DEF IInv, TypeOK
  <2>2. UNCHANGED <<cur, since, ret, out, sap>> /\ pc' = [pc EXCEPT ![c] = "idle"]
    BY <1>5 DEF Exit, sapVars
  <2>3. CASE pc[c] = "idle"
    <3>1. pc' = pc
      BY <2>1, <2>2, <2>3
    <3> QED BY <2>2, <3>1, RpcStutter
  <2>4. CASE pc[c] = "waiting"
    <3>1. Rpc!Abort(c)
      BY <2>2, <2>4 DEF Rpc!Abort, StartedAt, HandedOut
    <3> QED BY <3>1 DEF Rpc!Next
  <2> QED BY <2>1, <2>3, <2>4
<1>6. ASSUME NEW s \in Servers, ServerStep(s)
      PROVE  [Rpc!Next]_Rpc!vars
  BY <1>1, <1>6 DEF ServerStep, ServerStart, ServerAwaitName, ServerIterate, ServerReply,
                    ServerCrash, sapVars
<1>7. CASE Bus
  BY <1>1, <1>7 DEF Bus, Dispatch, Disconnected, Expire, BusEnds, sapVars
<1>8. ASSUME NEW a \in Args, SapChange(a)
      PROVE  [Rpc!Next]_Rpc!vars
  <2>1. Rpc!Change(a)
    BY <1>8 DEF SapChange, Rpc!Change, callVars, StartedAt, HandedOut
  <2> QED BY <2>1 DEF Rpc!Next
<1>9. CASE SapToggle
  <2>1. \A c \in Clients : since'[c].row = since[c].row
    BY <1>9 DEF SapToggle, IInv, TypeOK
  <2> QED BY <1>9, <2>1, RpcStutter DEF SapToggle
<1>10. CASE UNCHANGED vars
  BY <1>1, <1>10 DEF vars, sapVars
<1> QED BY <1>2, <1>3, <1>4, <1>5, <1>6, <1>7, <1>8, <1>9, <1>10 DEF Next, NextPrompt

\* For its callers the whole chain of library, daemon, server and SAP is a
\* remote read: a call is refused at once, or it blocks and then ends once,
\* with a value its row had meanwhile or with nothing (ImplementsRpc).
THEOREM Refinement == Spec => ImplementsRpc
<1>1. Spec => []IInv
  BY Invariance
<1> QED BY <1>1, RpcInit, RpcStep, PTL DEF Spec, ImplementsRpc, Rpc!Spec
=============================================================================
