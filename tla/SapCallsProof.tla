---------------------------- MODULE SapCallsProof ----------------------------
(***************************************************************************)
(* Proofs that SapBridge neither loses a call nor answers one twice, for   *)
(* every set of clients and servers and whatever ends meanwhile: a call is *)
(* always in one place, and what the daemon expects is on its way.         *)
(*                                                                         *)
(* Both count messages.  KInv counts them in every place a call or its     *)
(* answer can be: on its way to the daemon, as a pending reply, on its way *)
(* back; and at the server that holds it: before it is read, in execution, *)
(* after it is answered.                                                   *)
(***************************************************************************)
EXTENDS SapTakeoverProof, FiniteSetTheorems

----------------------------------------------------------------------------
(* The inductive invariant.                                                *)

\* How many messages of q are in M.
Count(q, M) == Cardinality({i \in DOMAIN q : q[i] \in M})

\* One for what is, none for what is not.
One(b) == IF b THEN 1 ELSE 0

\* The calls with serial k and the replies to them, and those of client c.
CallMsgs(k)     == {m \in Messages : m.type = "call" /\ m.serial = k}
ReplyMsgs(k)    == {m \in Messages : m.type \in {"return", "error"} /\ m.serial = k}
CallsOf(c, k)   == {m \in CallMsgs(k) : m.client = c}
RepliesOf(c, k) == {m \in ReplyMsgs(k) : m.client = c}

Expected(c, k) == \E r \in pending : r.caller = c /\ r.serial = k
Executed(s, c, k) == \E q \in serving[s] : q.client = c /\ q.serial = k
Owes(s, c, k) == [caller |-> c, serial |-> k, callee |-> s] \in pending

\* In how many places call k of client c is, seen from the client.
Places(c, k) ==
    Count(toBus[c], CallMsgs(k)) + One(Expected(c, k)) + Count(fromBus[c], ReplyMsgs(k))

\* How often server s holds it.
Holds(s, c, k) ==
    Count(fromBus[s], CallsOf(c, k)) + One(Executed(s, c, k)) + Count(toBus[s], RepliesOf(c, k))

\* A call has one pending reply, between connections.
PendingInv ==
    /\ \A r, q \in pending : r.caller = q.caller /\ r.serial = q.serial => r = q
    /\ \A r \in pending : r.caller \in attached /\ r.callee \in attached \cup {Gone}

\* A server that lives holds what it owes to connected clients, one that has
\* ended at most that; calls of a client that was never constructed do not exist.
Accounts(s, c, k) ==
    /\ lib[c] = "none" => Holds(s, c, k) = 0
    /\ c \in attached => /\ Holds(s, c, k) <= One(Owes(s, c, k))
                         /\ Alive(s) => Holds(s, c, k) = One(Owes(s, c, k))

\* A server executes one call while it is serving; one that has ended reads
\* nothing.
ServerK(s) ==
    /\ IF spc[s] = "serving" THEN \E q \in Calls : serving[s] = {q} ELSE serving[s] = {}
    /\ spc[s] \in {"off", "dead"} => fromBus[s] = <<>>
    /\ \A c \in Clients : \A k \in Nat : Accounts(s, c, k)

\* A connected client has every call in at most one place, and the one it
\* waits for in exactly one.
Placed(c, k) ==
    /\ Places(c, k) <= One(k <= calls[c])
    /\ pc[c] = "waiting" /\ k = calls[c] => Places(c, k) = 1

ClientK(c) ==
    /\ lib[c] = "none" => c \notin attached /\ pc[c] = "idle" /\ toBus[c] = <<>> /\ fromBus[c] = <<>>
    /\ pc[c] = "waiting" => lib[c] = "ready"
    /\ c \in attached => \A k \in Nat : Placed(c, k)

\* The invariant of the calls.
KInv ==
    /\ PendingInv
    /\ \A s \in Servers : ServerK(s)
    /\ \A c \in Clients : ClientK(c)
----------------------------------------------------------------------------
(* Counting.                                                               *)

\* A queue has finitely many messages of a kind.
LEMMA CountType ==
    ASSUME NEW q \in Seq(Messages), NEW M
    PROVE  IsFiniteSet({i \in DOMAIN q : q[i] \in M}) /\ Count(q, M) \in Nat
<1> DEFINE S == {i \in DOMAIN q : q[i] \in M}
<1>1. DOMAIN q = 1 .. Len(q) /\ Len(q) \in Nat
  BY LenProperties
<1>2. IsFiniteSet(1 .. Len(q))
  BY <1>1, FS_Interval
<1>3. S \in SUBSET (1 .. Len(q))
  BY <1>1
<1> HIDE DEF S
<1>4. IsFiniteSet(S)
  BY <1>2, <1>3, FS_Subset
<1>5. Cardinality(S) \in Nat
  BY <1>4, FS_CardinalityType
<1> QED  BY <1>4, <1>5 DEF S, Count

\* The empty queue has none.
LEMMA CountEmpty ==
    ASSUME NEW M
    PROVE  Count(<<>>, M) = 0
<1>1. {i \in DOMAIN <<>> : <<>>[i] \in M} = {}
  OBVIOUS
<1> QED  BY <1>1, FS_EmptySet DEF Count

\* A message more.
LEMMA CountAppend ==
    ASSUME NEW q \in Seq(Messages), NEW m \in Messages, NEW M
    PROVE  Count(Append(q, m), M) = Count(q, M) + One(m \in M)
<1> DEFINE r == Append(q, m)
           S == {i \in DOMAIN q : q[i] \in M}
           T == {i \in DOMAIN r : r[i] \in M}
           n == Len(q) + 1
<1>1. /\ DOMAIN q = 1 .. Len(q) /\ Len(q) \in Nat /\ DOMAIN r = 1 .. n
      /\ r[n] = m /\ \A i \in 1 .. Len(q) : r[i] = q[i]
  BY QueueMoves
<1>2. IsFiniteSet(S) /\ Count(q, M) = Cardinality(S) /\ Cardinality(S) \in Nat
  BY CountType DEF Count
<1>3. Count(r, M) = Cardinality(T)
  BY DEF Count
<1> HIDE DEF r
<1>4. n \notin S /\ n \in DOMAIN r /\ \A i : i \in DOMAIN r <=> i \in DOMAIN q \/ i = n
  BY <1>1
<1>5. CASE m \in M
  <2>1. T = S \cup {n}
    BY <1>1, <1>4, <1>5
  <2>2. Cardinality(S \cup {n}) = Cardinality(S) + 1
    BY <1>2, <1>4, FS_AddElement
  <2> QED  BY <1>2, <1>3, <1>5, <2>1, <2>2 DEF One, r
<1>6. CASE m \notin M
  <2>1. T = S
    BY <1>1, <1>4, <1>6
  <2> HIDE DEF S, T
  <2> QED  BY <1>2, <1>3, <1>6, <2>1 DEF One, r
<1> QED  BY <1>5, <1>6

\* The first message less.
LEMMA CountTail ==
    ASSUME NEW q \in Seq(Messages), q # <<>>, NEW M
    PROVE  Count(Tail(q), M) = Count(q, M) - One(Head(q) \in M) /\ Tail(q) \in Seq(Messages)
<1> DEFINE r == Tail(q)
           S == {i \in DOMAIN q : q[i] \in M}
           T == {i \in DOMAIN r : r[i] \in M}
           U == S \ {1}
<1>1. /\ DOMAIN q = 1 .. Len(q) /\ Len(q) \in Nat /\ DOMAIN r = 1 .. Len(q) - 1
      /\ 1 \in DOMAIN q /\ Head(q) = q[1] /\ r \in Seq(Messages)
      /\ \A i \in 1 .. Len(q) - 1 : r[i] = q[i + 1]
  BY QueueMoves DEF Messages, RequestName
<1>2. /\ IsFiniteSet(S) /\ Count(q, M) = Cardinality(S) /\ Cardinality(S) \in Nat
      /\ IsFiniteSet(T) /\ Count(r, M) = Cardinality(T)
  BY <1>1, CountType DEF Count
<1> HIDE DEF r
<1>3. IsFiniteSet(U) /\ Cardinality(U) = IF 1 \in S THEN Cardinality(S) - 1 ELSE Cardinality(S)
  BY <1>2, FS_RemoveElement
<1>4. 1 \in S <=> Head(q) \in M
  BY <1>1
<1>5. Cardinality(T) = Cardinality(U)
  <2> DEFINE f == [i \in T |-> i + 1]
  <2>1. \A i \in T : i + 1 \in U
    BY <1>1
  <2>2. \A i, j \in T : i + 1 = j + 1 => i = j
    BY <1>1
  <2>3. ASSUME NEW j \in U PROVE j - 1 \in T /\ (j - 1) + 1 = j
    <3>1. j \in 1 .. Len(q) /\ j # 1 /\ q[j] \in M
      BY <1>1
    <3>2. j - 1 \in 1 .. Len(q) - 1 /\ (j - 1) + 1 = j
      BY <1>1, <3>1
    <3>3. r[j - 1] = q[j]
      BY <1>1, <3>2
    <3> QED  BY <1>1, <3>1, <3>2, <3>3
  <2> HIDE DEF T, U
  <2>4. f \in Bijection(T, U)
    <3>1. f \in [T -> U]
      BY <2>1
    <3>2. \A i, j \in T : f[i] = f[j] => i = j
      BY <2>2
    <3>3. ASSUME NEW j \in U PROVE \E i \in T : f[i] = j
      <4>1. j - 1 \in T /\ f[j - 1] = j
        BY <2>3
      <4> QED  BY <4>1
    <3> QED  BY <3>1, <3>2, <3>3 DEF Bijection, Injection, Surjection, IsInjective
  <2> HIDE DEF f
  <2>5. ExistsBijection(T, U)
    BY <2>4 DEF ExistsBijection
  <2> QED  BY <1>2, <2>5, FS_Bijection DEF T
<1> HIDE DEF S, T, U
<1> QED  BY <1>1, <1>2, <1>3, <1>4, <1>5 DEF One, r

\* All counts are numbers.
LEMMA Numbers ==
    ASSUME IInv, NEW p \in Procs, NEW M
    PROVE  /\ toBus[p] \in Seq(Messages) /\ fromBus[p] \in Seq(Messages)
           /\ Count(toBus[p], M) \in Nat /\ Count(fromBus[p], M) \in Nat
<1>1. toBus[p] \in Seq(Messages) /\ fromBus[p] \in Seq(Messages)
  BY Types DEF Streams
<1> QED  BY <1>1, CountType

\* The cardinality of a set that has at most one member.
LEMMA AtMostOne ==
    ASSUME NEW S, \A x, y \in S : x = y
    PROVE  Cardinality(S) = One(S # {})
<1>1. CASE S = {}
  BY <1>1, FS_EmptySet DEF One
<1>2. CASE S # {}
  <2>1. PICK x \in S : TRUE
    BY <1>2
  <2>2. S = {x}
    BY <2>1
  <2>3. Cardinality({x}) = 1
    BY FS_Singleton
  <2> QED  BY <1>2, <2>2, <2>3 DEF One
<1> QED  BY <1>1, <1>2

\* The trace of a call is the number of its places.
LEMMA TraceIsPlaces ==
    ASSUME IInv, PendingInv, NEW c \in Clients, NEW k \in Nat
    PROVE  Trace(c, k) = Places(c, k)
<1>1. toBus[c] \in Seq(Messages) /\ fromBus[c] \in Seq(Messages)
  BY Types
<1>2. \A q \in Seq(Messages) : \A i \in DOMAIN q : q[i] \in Messages
  BY LenProperties
<1>3. Cardinality({i \in DOMAIN toBus[c] : toBus[c][i].type = "call" /\ toBus[c][i].serial = k})
        = Count(toBus[c], CallMsgs(k))
  <2>1. {i \in DOMAIN toBus[c] : toBus[c][i].type = "call" /\ toBus[c][i].serial = k}
          = {i \in DOMAIN toBus[c] : toBus[c][i] \in CallMsgs(k)}
    BY <1>1, <1>2 DEF CallMsgs
  <2> QED  BY <2>1 DEF Count
<1>4. Cardinality({i \in DOMAIN fromBus[c] : fromBus[c][i].type \in {"return", "error"}
                                             /\ fromBus[c][i].serial = k})
        = Count(fromBus[c], ReplyMsgs(k))
  <2>1. {i \in DOMAIN fromBus[c] : fromBus[c][i].type \in {"return", "error"} /\ fromBus[c][i].serial = k}
          = {i \in DOMAIN fromBus[c] : fromBus[c][i] \in ReplyMsgs(k)}
    BY <1>1, <1>2 DEF ReplyMsgs
  <2> QED  BY <2>1 DEF Count
<1>5. Cardinality({r \in pending : r.caller = c /\ r.serial = k}) = One(Expected(c, k))
  <2> DEFINE S == {r \in pending : r.caller = c /\ r.serial = k}
  <2>1. \A x, y \in S : x = y
    BY DEF PendingInv
  <2>2. S # {} <=> Expected(c, k)
    BY DEF Expected
  <2> HIDE DEF S
  <2>3. Cardinality(S) = One(S # {})
    BY <2>1, AtMostOne
  <2> QED  BY <2>2, <2>3 DEF One, S
<1> QED  BY <1>3, <1>4, <1>5 DEF Trace, Where, Places

\* And what a server has of it the number of times it holds it.
LEMMA AtServerIsHolds ==
    ASSUME IInv, NEW s \in Servers, ServerK(s), NEW r \in pending
    PROVE  AtServer(s, r) = Holds(s, r.caller, r.serial)
<1> DEFINE c == r.caller
           k == r.serial
<1>1. toBus[s] \in Seq(Messages) /\ fromBus[s] \in Seq(Messages)
  BY Types
<1>2. \A q \in Seq(Messages) : \A i \in DOMAIN q : q[i] \in Messages
  BY LenProperties
<1>3. Cardinality({i \in DOMAIN fromBus[s] : fromBus[s][i].type = "call" /\ fromBus[s][i].client = c
                                             /\ fromBus[s][i].serial = k})
        = Count(fromBus[s], CallsOf(c, k))
  <2>1. {i \in DOMAIN fromBus[s] : fromBus[s][i].type = "call" /\ fromBus[s][i].client = c
                                   /\ fromBus[s][i].serial = k}
          = {i \in DOMAIN fromBus[s] : fromBus[s][i] \in CallsOf(c, k)}
    BY <1>1, <1>2 DEF CallMsgs, CallsOf
  <2> QED  BY <2>1 DEF Count
<1>4. Cardinality({i \in DOMAIN toBus[s] : toBus[s][i].type \in {"return", "error"}
                                           /\ toBus[s][i].client = c /\ toBus[s][i].serial = k})
        = Count(toBus[s], RepliesOf(c, k))
  <2>1. {i \in DOMAIN toBus[s] : toBus[s][i].type \in {"return", "error"}
                                 /\ toBus[s][i].client = c /\ toBus[s][i].serial = k}
          = {i \in DOMAIN toBus[s] : toBus[s][i] \in RepliesOf(c, k)}
    BY <1>1, <1>2 DEF ReplyMsgs, RepliesOf
  <2> QED  BY <2>1 DEF Count
<1>5. Cardinality({q \in serving[s] : q.client = c /\ q.serial = k}) = One(Executed(s, c, k))
  <2> DEFINE S == {q \in serving[s] : q.client = c /\ q.serial = k}
  <2>1. \A x, y \in S : x = y
    BY DEF ServerK
  <2>2. S # {} <=> Executed(s, c, k)
    BY DEF Executed
  <2> HIDE DEF S
  <2>3. Cardinality(S) = One(S # {})
    BY <2>1, AtMostOne
  <2> QED  BY <2>2, <2>3 DEF One, S
<1> QED  BY <1>3, <1>4, <1>5 DEF AtServer, Where, Holds

\* What the invariant says is what the properties say.
LEMMA KInvImplies ==
    ASSUME IInv, JInv, KInv
    PROVE  NoLostCall /\ PendingIsOwed
<1>1. NoLostCall
  <2> SUFFICES ASSUME NEW c \in Clients, lib[c] = "ready", busUp
               PROVE  /\ pc[c] = "waiting" => Trace(c, calls[c]) = 1
                      /\ \A k \in 1 .. calls[c] : Trace(c, k) <= 1
    BY DEF NoLostCall
  <2>1. c \in attached
    BY DEF JInv, ClientInv
  <2>2. calls[c] \in Nat
    BY DEF IInv, TypeOK
  <2>3. \A k \in Nat : Trace(c, k) = Places(c, k)
    BY TraceIsPlaces DEF KInv
  <2>4. pc[c] = "waiting" => Places(c, calls[c]) = 1
    BY <2>1, <2>2 DEF KInv, ClientK, Placed
  <2>5. ASSUME NEW k \in 1 .. calls[c] PROVE Places(c, k) <= 1
    <3>1. k \in Nat /\ k <= calls[c]
      BY <2>2
    <3> QED  BY <2>1, <3>1 DEF KInv, ClientK, Placed, One
  <2>6. \A k \in 1 .. calls[c] : k \in Nat
    BY <2>2
  <2> QED  BY <2>2, <2>3, <2>4, <2>5, <2>6
<1>2. PendingIsOwed
  <2> SUFFICES ASSUME NEW r \in pending, r.callee # Gone
               PROVE  r.callee \in attached /\ (Alive(r.callee) => AtServer(r.callee, r) = 1)
    BY DEF PendingIsOwed
  <2> DEFINE s == r.callee
  <2>1. /\ r.caller \in Clients /\ r.serial \in Nat /\ s \in Servers
        /\ r = [caller |-> r.caller, serial |-> r.serial, callee |-> s]
    BY DEF IInv, TypeOK, PendingReplies
  <2>2. s \in attached /\ r.caller \in attached
    BY DEF KInv, PendingInv
  <2> HIDE DEF s
  <2>3. Owes(s, r.caller, r.serial) /\ ServerK(s)
    BY <2>1 DEF Owes, KInv
  <2>4. Alive(s) => Holds(s, r.caller, r.serial) = 1
    BY <2>1, <2>2, <2>3 DEF ServerK, Accounts, One
  <2>5. AtServer(s, r) = Holds(s, r.caller, r.serial)
    BY <2>1, <2>3, AtServerIsHolds
  <2> QED  BY <2>2, <2>4, <2>5 DEF s
<1> QED  BY <1>1, <1>2
----------------------------------------------------------------------------
(* What keeps the invariant of one client and of one server.               *)

\* In p's queues there are as many calls and replies as before.
SameCounts(p) ==
    \A k \in Nat :
        /\ Count(toBus'[p], CallMsgs(k)) = Count(toBus[p], CallMsgs(k))
        /\ Count(fromBus'[p], ReplyMsgs(k)) = Count(fromBus[p], ReplyMsgs(k))
        /\ \A c \in Clients : /\ Count(fromBus'[p], CallsOf(c, k)) = Count(fromBus[p], CallsOf(c, k))
                              /\ Count(toBus'[p], RepliesOf(c, k)) = Count(toBus[p], RepliesOf(c, k))

\* Messages that are neither calls nor replies do not count.
Quiet(m) == m \in Messages /\ m.type \notin {"call", "return", "error"}

\* Such a message is in none of the sets that are counted.
LEMMA QuietCounts ==
    ASSUME NEW m, Quiet(m), NEW k, NEW c
    PROVE  m \notin CallMsgs(k) /\ m \notin ReplyMsgs(k) /\ m \notin CallsOf(c, k) /\ m \notin RepliesOf(c, k)
  BY DEF Quiet, CallMsgs, ReplyMsgs, CallsOf, RepliesOf

\* Reading or writing one of them changes no count.
LEMMA QuietQueue ==
    ASSUME NEW q \in Seq(Messages), NEW m, Quiet(m), NEW M, m \notin M
    PROVE  /\ Append(q, m) \in Seq(Messages) /\ Count(Append(q, m), M) = Count(q, M)
           /\ q # <<>> /\ Head(q) = m => Tail(q) \in Seq(Messages) /\ Count(Tail(q), M) = Count(q, M)
<1>1. Count(q, M) \in Nat /\ One(m \in M) = 0 /\ m \in Messages
  BY CountType DEF One, Quiet
<1>2. Append(q, m) \in Seq(Messages) /\ Count(Append(q, m), M) = Count(q, M) + One(m \in M)
  BY <1>1, CountAppend, QueueMoves
<1>3. ASSUME q # <<>>, Head(q) = m
      PROVE  Tail(q) \in Seq(Messages) /\ Count(Tail(q), M) = Count(q, M)
  <2>1. Tail(q) \in Seq(Messages) /\ Count(Tail(q), M) = Count(q, M) - One(m \in M)
    BY <1>3, CountTail
  <2> QED  BY <1>1, <2>1
<1> QED  BY <1>1, <1>2, <1>3

\* A queue that such messages came into or left has the counts it had.
QuietMove(q, r) ==
    \/ r = q
    \/ \E m : Quiet(m) /\ r = Append(q, m)
    \/ \E m, n : Quiet(m) /\ Quiet(n) /\ r = Append(Append(q, m), n)
    \/ q # <<>> /\ Quiet(Head(q)) /\ r = Tail(q)

\* Whichever of them moved, the counts are the same.
LEMMA QuietMoveCounts ==
    ASSUME NEW q \in Seq(Messages), NEW r, QuietMove(q, r), NEW k, NEW c
    PROVE  /\ Count(r, CallMsgs(k)) = Count(q, CallMsgs(k))
           /\ Count(r, ReplyMsgs(k)) = Count(q, ReplyMsgs(k))
           /\ Count(r, CallsOf(c, k)) = Count(q, CallsOf(c, k))
           /\ Count(r, RepliesOf(c, k)) = Count(q, RepliesOf(c, k))
<1>1. ASSUME NEW M, \A m : Quiet(m) => m \notin M
      PROVE  Count(r, M) = Count(q, M)
  <2>1. ASSUME NEW m, Quiet(m), r = Append(q, m) PROVE Count(r, M) = Count(q, M)
    BY <1>1, <2>1, QuietQueue
  <2>2. ASSUME NEW m, NEW n, Quiet(m), Quiet(n), r = Append(Append(q, m), n)
        PROVE  Count(r, M) = Count(q, M)
    <3>1. Append(q, m) \in Seq(Messages) /\ Count(Append(q, m), M) = Count(q, M)
      BY <1>1, <2>2, QuietQueue
    <3>2. Count(Append(Append(q, m), n), M) = Count(Append(q, m), M)
      BY <1>1, <2>2, <3>1, QuietQueue
    <3> QED  BY <2>2, <3>1, <3>2
  <2>3. CASE q # <<>> /\ Quiet(Head(q)) /\ r = Tail(q)
    BY <1>1, <2>3, QuietQueue
  <2> QED  BY <2>1, <2>2, <2>3 DEF QuietMove
<1>2. \A m : Quiet(m) => /\ m \notin CallMsgs(k) /\ m \notin ReplyMsgs(k) /\ m \notin CallsOf(c, k)
                         /\ m \notin RepliesOf(c, k)
  BY QuietCounts
<1> QED  BY <1>1, <1>2

\* A process in whose queues only such messages move.
LEMMA QuietProcess ==
    ASSUME IInv, NEW p \in Procs, QuietMove(toBus[p], toBus'[p]), QuietMove(fromBus[p], fromBus'[p])
    PROVE  SameCounts(p)
<1>1. toBus[p] \in Seq(Messages) /\ fromBus[p] \in Seq(Messages)
  BY Numbers
<1>2. ASSUME NEW k \in Nat, NEW c
      PROVE  /\ Count(toBus'[p], CallMsgs(k)) = Count(toBus[p], CallMsgs(k))
             /\ Count(fromBus'[p], ReplyMsgs(k)) = Count(fromBus[p], ReplyMsgs(k))
             /\ Count(fromBus'[p], CallsOf(c, k)) = Count(fromBus[p], CallsOf(c, k))
             /\ Count(toBus'[p], RepliesOf(c, k)) = Count(toBus[p], RepliesOf(c, k))
  <2>1. /\ Count(toBus'[p], CallMsgs(k)) = Count(toBus[p], CallMsgs(k))
        /\ Count(toBus'[p], RepliesOf(c, k)) = Count(toBus[p], RepliesOf(c, k))
    BY <1>1, QuietMoveCounts
  <2>2. /\ Count(fromBus'[p], ReplyMsgs(k)) = Count(fromBus[p], ReplyMsgs(k))
        /\ Count(fromBus'[p], CallsOf(c, k)) = Count(fromBus[p], CallsOf(c, k))
    BY <1>1, QuietMoveCounts
  <2> QED  BY <2>1, <2>2
<1> QED  BY <1>2 DEF SameCounts

\* A client for which nothing changes but that the queues may.
ClientStays(c) ==
    /\ lib'[c] = lib[c] /\ pc'[c] = pc[c] /\ calls'[c] = calls[c]
    /\ c \in attached' => c \in attached
    /\ lib[c] = "none" => toBus'[c] = toBus[c] /\ fromBus'[c] = fromBus[c]

\* Such a client keeps its invariant when its calls keep their places.
LEMMA ClientStaysK ==
    ASSUME NEW c \in Clients, ClientK(c), ClientStays(c), calls[c] \in Nat,
           c \in attached' => \A k \in Nat : Places(c, k)' = Places(c, k)
    PROVE  ClientK(c)'
<1>1. lib'[c] = "none" => c \notin attached' /\ pc'[c] = "idle" /\ toBus'[c] = <<>> /\ fromBus'[c] = <<>>
  BY DEF ClientK, ClientStays
<1>2. pc'[c] = "waiting" => lib'[c] = "ready"
  BY DEF ClientK, ClientStays
<1>3. ASSUME c \in attached', NEW k \in Nat PROVE Placed(c, k)'
  <2>1. Placed(c, k) /\ Places(c, k)' = Places(c, k)
    BY <1>3 DEF ClientK, ClientStays
  <2> QED  BY <2>1 DEF Placed, ClientStays, One
<1> QED  BY <1>1, <1>2, <1>3 DEF ClientK

\* The number of places, and of times a call is held, when no count changes.
LEMMA PlacesSame ==
    ASSUME NEW c, SameCounts(c), NEW k \in Nat, Expected(c, k)' <=> Expected(c, k)
    PROVE  Places(c, k)' = Places(c, k)
<1>1. One(Expected(c, k))' = One(Expected(c, k))
  BY DEF One
<1> QED  BY <1>1 DEF Places, SameCounts

\* How often a server holds a call, when no count changes.
LEMMA HoldsSame ==
    ASSUME NEW s, SameCounts(s), serving'[s] = serving[s], NEW c \in Clients, NEW k \in Nat
    PROVE  Holds(s, c, k)' = Holds(s, c, k)
<1>1. One(Executed(s, c, k))' = One(Executed(s, c, k))
  BY DEF One, Executed
<1> QED  BY <1>1 DEF Holds, SameCounts

\* A server for which nothing changes but that the queues may.
ServerStays(s) ==
    /\ spc'[s] = spc[s] /\ serving'[s] = serving[s]
    /\ spc[s] \in {"off", "dead"} => fromBus'[s] = fromBus[s]

\* Such a server keeps its invariant when its accounts do.
LEMMA ServerStaysK ==
    ASSUME NEW s \in Servers, ServerK(s), ServerStays(s),
           \A c \in Clients : \A k \in Nat : Accounts(s, c, k)'
    PROVE  ServerK(s)'
<1>1. (IF spc[s] = "serving" THEN \E q \in Calls : serving[s] = {q} ELSE serving[s] = {})'
  BY DEF ServerK, ServerStays
<1>2. spc'[s] \in {"off", "dead"} => fromBus'[s] = <<>>
  BY DEF ServerK, ServerStays
<1> QED  BY <1>1, <1>2 DEF ServerK

\* An account is kept with what is held and what is owed.
LEMMA AccountsSame ==
    ASSUME NEW s \in Servers, NEW c \in Clients, NEW k \in Nat, Accounts(s, c, k),
           Holds(s, c, k)' = Holds(s, c, k), spc'[s] = spc[s], lib'[c] = "none" => lib[c] = "none",
           c \in attached' => c \in attached /\ (Owes(s, c, k)' <=> Owes(s, c, k))
    PROVE  Accounts(s, c, k)'
<1>1. s \notin Clients
  BY SetsAssumption
<1>2. Alive(s)' <=> Alive(s)
  BY <1>1 DEF Alive
<1>3. c \in attached' => One(Owes(s, c, k))' = One(Owes(s, c, k))
  BY DEF One
<1> QED  BY <1>2, <1>3 DEF Accounts

\* A client takes a step of its own.
ClientStep(c) ==
    /\ UNCHANGED <<spc, serving, pending>>
    /\ attached' \in {attached, attached \cup {c}}
    /\ c \in attached' => c \in attached \/ lib[c] = "none"
    /\ lib'[c] # "none"
    /\ \A x \in Procs \ {c} : toBus'[x] = toBus[x] /\ fromBus'[x] = fromBus[x]
    /\ \A d \in Clients \ {c} : lib'[d] = lib[d] /\ pc'[d] = pc[d] /\ calls'[d] = calls[d]

\* Only that client's own calls are at stake.
LEMMA ClientStepK ==
    ASSUME IInv, KInv, NEW c \in Clients, ClientStep(c), ClientK(c)'
    PROVE  KInv'
<1>1. PendingInv'
  BY DEF KInv, PendingInv, ClientStep
<1>2. \A x \in Procs \ {c} : SameCounts(x)
  BY DEF ClientStep, SameCounts
<1>3. ASSUME NEW d \in Clients, d # c PROVE ClientK(d)'
  <2>1. d \in Procs \ {c} /\ calls[d] \in Nat /\ ClientK(d)
    BY <1>3 DEF Procs, IInv, TypeOK, KInv
  <2>2. ClientStays(d)
    BY <1>3, <2>1 DEF ClientStays, ClientStep
  <2>3. ASSUME NEW k \in Nat PROVE Places(d, k)' = Places(d, k)
    <3>1. Expected(d, k)' <=> Expected(d, k)
      BY DEF Expected, ClientStep
    <3> QED  BY <1>2, <2>1, <3>1, PlacesSame
  <2> QED  BY <2>1, <2>2, <2>3, ClientStaysK
<1>4. ASSUME NEW s \in Servers PROVE ServerK(s)'
  <2>1. s \in Procs \ {c} /\ ServerK(s)
    BY SetsAssumption DEF Procs, KInv
  <2>2. ServerStays(s)
    BY <2>1 DEF ServerStays, ClientStep
  <2>3. ASSUME NEW d \in Clients, NEW k \in Nat PROVE Accounts(s, d, k)'
    <3>1. Holds(s, d, k)' = Holds(s, d, k)
      BY <1>2, <2>1, <2>2, HoldsSame DEF ServerStays
    <3>2. Owes(s, d, k)' <=> Owes(s, d, k)
      BY DEF Owes, ClientStep
    <3>3. Accounts(s, d, k) /\ ClientK(d)
      BY <2>1 DEF ServerK, KInv
    <3>4. lib'[d] = "none" => lib[d] = "none"
      BY DEF ClientStep
    <3>5. CASE d \in attached' => d \in attached
      BY <3>1, <3>2, <3>3, <3>4, <3>5, <2>2, AccountsSame DEF ServerStays
    <3>6. CASE d \in attached' /\ d \notin attached
      <4>1. d = c /\ lib[d] = "none" /\ lib'[d] # "none"
        BY <3>6 DEF ClientStep
      <4>2. Holds(s, d, k)' = 0
        BY <3>1, <3>3, <4>1 DEF Accounts
      <4>3. ~Owes(s, d, k)
        BY <3>6 DEF Owes, KInv, PendingInv
      <4>4. One(Owes(s, d, k))' = 0
        BY <3>2, <4>3 DEF One
      <4> QED  BY <4>1, <4>2, <4>4 DEF Accounts
    <3> QED  BY <3>5, <3>6
  <2> QED  BY <2>1, <2>2, <2>3, ServerStaysK
<1>5. \A d \in Clients : ClientK(d)'
  BY <1>3
<1> QED  BY <1>1, <1>4, <1>5 DEF KInv

\* A server takes a step of its own.
ServerAlone(s) ==
    /\ UNCHANGED <<lib, pc, calls, pending>>
    /\ attached' \in {attached, attached \cup {s}}
    /\ \A x \in Procs \ {s} : toBus'[x] = toBus[x] /\ fromBus'[x] = fromBus[x]
    /\ \A t \in Servers \ {s} : spc'[t] = spc[t] /\ serving'[t] = serving[t]

\* Only what that server holds is at stake.
LEMMA ServerAloneK ==
    ASSUME IInv, KInv, NEW s \in Servers, ServerAlone(s), ServerK(s)'
    PROVE  KInv'
<1>1. PendingInv'
  BY DEF KInv, PendingInv, ServerAlone
<1>2. \A x \in Procs \ {s} : SameCounts(x)
  BY DEF ServerAlone, SameCounts
<1>3. ASSUME NEW d \in Clients PROVE ClientK(d)'
  <2>1. d \in Procs \ {s} /\ calls[d] \in Nat /\ ClientK(d)
    BY SetsAssumption DEF Procs, IInv, TypeOK, KInv
  <2>2. ClientStays(d)
    BY <2>1 DEF ClientStays, ServerAlone
  <2>3. ASSUME NEW k \in Nat PROVE Places(d, k)' = Places(d, k)
    <3>1. Expected(d, k)' <=> Expected(d, k)
      BY DEF Expected, ServerAlone
    <3> QED  BY <1>2, <2>1, <3>1, PlacesSame
  <2> QED  BY <2>1, <2>2, <2>3, ClientStaysK
<1>4. ASSUME NEW t \in Servers, t # s PROVE ServerK(t)'
  <2>1. t \in Procs \ {s} /\ ServerK(t)
    BY <1>4 DEF Procs, KInv
  <2>2. ServerStays(t)
    BY <1>4, <2>1 DEF ServerStays, ServerAlone
  <2>3. ASSUME NEW d \in Clients, NEW k \in Nat PROVE Accounts(t, d, k)'
    <3>1. Holds(t, d, k)' = Holds(t, d, k)
      BY <1>2, <2>1, <2>2, HoldsSame DEF ServerStays
    <3>2. Owes(t, d, k)' <=> Owes(t, d, k)
      BY DEF Owes, ServerAlone
    <3>3. Accounts(t, d, k)
      BY <2>1 DEF ServerK
    <3>4. (lib'[d] = "none" => lib[d] = "none") /\ (d \in attached' => d \in attached)
      BY SetsAssumption DEF ServerAlone
    <3> QED  BY <3>1, <3>2, <3>3, <3>4, <2>2, AccountsSame DEF ServerStays
  <2> QED  BY <2>1, <2>2, <2>3, ServerStaysK
<1>5. \A t \in Servers : ServerK(t)'
  BY <1>4
<1> QED  BY <1>1, <1>3, <1>5 DEF KInv
----------------------------------------------------------------------------
(* The initial state, and the steps of a client.                           *)

\* There are no calls yet.
LEMMA InitKInv == Init => KInv
<1> SUFFICES ASSUME Init PROVE KInv
  OBVIOUS
<1>1. pending = {} /\ attached = {} /\ PendingInv
  BY DEF Init, PendingInv
<1>2. ASSUME NEW s \in Servers PROVE ServerK(s)
  <2>1. spc[s] = "off" /\ serving[s] = {} /\ fromBus[s] = <<>> /\ toBus[s] = <<>>
    BY DEF Init, Procs
  <2>2. ASSUME NEW c \in Clients, NEW k \in Nat PROVE Holds(s, c, k) = 0
    <3>1. ~Executed(s, c, k)
      BY <2>1 DEF Executed
    <3>2. Count(fromBus[s], CallsOf(c, k)) = 0 /\ Count(toBus[s], RepliesOf(c, k)) = 0
      BY <2>1, CountEmpty
    <3> QED  BY <3>1, <3>2 DEF Holds, One
  <2>3. ASSUME NEW c \in Clients, NEW k \in Nat PROVE Accounts(s, c, k)
    BY <1>1, <2>2 DEF Accounts
  <2> QED  BY <2>1, <2>3 DEF ServerK
<1>3. ASSUME NEW c \in Clients PROVE ClientK(c)
  BY <1>1 DEF Init, Procs, ClientK
<1> QED  BY <1>1, <1>2, <1>3 DEF KInv

\* A number of places is a number.
LEMMA PlacesType ==
    ASSUME IInv, NEW c \in Clients, NEW k \in Nat
    PROVE  Places(c, k) \in Nat
<1>1. c \in Procs
  BY DEF Procs
<1>2. Count(toBus[c], CallMsgs(k)) \in Nat /\ Count(fromBus[c], ReplyMsgs(k)) \in Nat
  BY <1>1, Numbers
<1> QED  BY <1>2 DEF Places, One

\* A client that waits for nothing, with no more messages than before.
LEMMA IdleClientK ==
    ASSUME IInv, KInv, NEW c \in Clients, lib'[c] # "none", pc'[c] = "idle",
           c \in attached' => c \in attached, calls'[c] \in Nat, calls[c] <= calls'[c],
           \A k \in Nat : Places(c, k)' \in Nat /\ Places(c, k)' <= Places(c, k)
    PROVE  ClientK(c)'
<1>1. calls[c] \in Nat /\ ClientK(c)
  BY DEF IInv, TypeOK, KInv
<1>2. ASSUME c \in attached', NEW k \in Nat PROVE Placed(c, k)'
  <2>1. Placed(c, k) /\ Places(c, k)' <= Places(c, k) /\ Places(c, k)' \in Nat /\ Places(c, k) \in Nat
    BY <1>1, <1>2, PlacesType DEF ClientK
  <2>2. Places(c, k) <= One(k <= calls[c]) /\ pc'[c] # "waiting"
    BY <2>1 DEF Placed
  <2>3. One(k <= calls[c]) <= One(k <= calls'[c]) /\ One(k <= calls[c]) \in Nat /\ One(k <= calls'[c]) \in Nat
    BY <1>1 DEF One
  <2>4. Places(c, k)' <= One(k <= calls'[c])
    BY <2>1, <2>2, <2>3
  <2> QED  BY <2>2, <2>4 DEF Placed
<1> QED  BY <1>2 DEF ClientK

\* The queues of a client that writes and reads nothing.
LEMMA PlacesUnchanged ==
    ASSUME NEW c, NEW k, toBus'[c] = toBus[c], fromBus'[c] = fromBus[c], pending' = pending
    PROVE  Places(c, k)' = Places(c, k)
<1>1. One(Expected(c, k))' = One(Expected(c, k))
  BY DEF One, Expected
<1> QED  BY <1>1 DEF Places

\* A client connects: it has not called before.
LEMMA ConstructK ==
    ASSUME IInv, KInv, NEW c \in Clients,
           Construct(c) \/ ConstructNoBus(c) \/ ConstructDefault(c)
    PROVE  KInv'
<1>1. c \in Procs /\ c \notin Servers /\ lib \in [Clients -> LibStates]
  BY Types
<1>2. /\ lib[c] = "none" /\ lib'[c] \in {"ready", "nopointer"} /\ \A d \in Clients \ {c} : lib'[d] = lib[d]
      /\ attached' \in {attached, attached \cup {c}}
      /\ UNCHANGED <<pc, calls, spc, serving, pending, toBus, fromBus>>
  BY <1>1 DEF Construct, ConstructNoBus, ConstructDefault, callVars, serverVars, busVars, chanVars
<1>3. ClientStep(c)
  BY <1>2 DEF ClientStep
<1>4. c \notin attached /\ pc[c] = "idle" /\ toBus[c] = <<>> /\ fromBus[c] = <<>>
  BY <1>2 DEF KInv, ClientK
<1>5. ASSUME NEW k \in Nat PROVE Placed(c, k)'
  <2>1. ~Expected(c, k)
    BY <1>4 DEF Expected, KInv, PendingInv
  <2>2. Count(toBus[c], CallMsgs(k)) = 0 /\ Count(fromBus[c], ReplyMsgs(k)) = 0
    BY <1>4, CountEmpty
  <2>3. Places(c, k) = 0
    BY <2>1, <2>2 DEF Places, One
  <2>4. Places(c, k)' = 0
    BY <1>2, <2>3, PlacesUnchanged
  <2> QED  BY <1>2, <1>4, <2>4 DEF Placed, One
<1>6. ClientK(c)'
  BY <1>2, <1>4, <1>5 DEF ClientK
<1> QED  BY <1>3, <1>6, ClientStepK

\* A call that is refused, or that uses an interface that was never assigned.
LEMMA RefuseK ==
    ASSUME IInv, KInv, NEW c \in Clients, pc[c] = "idle", lib[c] \in {"ready", "nopointer"},
           calls' = calls \/ calls' = [calls EXCEPT ![c] = calls[c] + 1],
           lib' = lib \/ lib' = [lib EXCEPT ![c] = "undefined"],
           UNCHANGED <<pc, spc, serving, pending, attached, toBus, fromBus>>
    PROVE  KInv'
<1>1. lib \in [Clients -> LibStates] /\ calls \in [Clients -> Nat] /\ pc[c] = "idle"
  BY DEF IInv, TypeOK
<1>2. lib'[c] # "none" /\ \A d \in Clients \ {c} : lib'[d] = lib[d]
  BY <1>1
<1>3. calls'[c] \in Nat /\ calls[c] <= calls'[c] /\ \A d \in Clients \ {c} : calls'[d] = calls[d]
  <2>1. CASE calls' = calls
    BY <1>1, <2>1
  <2>2. CASE calls' = [calls EXCEPT ![c] = calls[c] + 1]
    BY <1>1, <2>2
  <2> QED  BY <2>1, <2>2
<1>4. ClientStep(c)
  BY <1>2, <1>3 DEF ClientStep
<1>5. ASSUME NEW k \in Nat PROVE Places(c, k)' \in Nat /\ Places(c, k)' <= Places(c, k)
  <2>1. Places(c, k)' = Places(c, k) /\ Places(c, k) \in Nat
    BY PlacesUnchanged, PlacesType
  <2> QED  BY <2>1
<1>6. ClientK(c)'
  BY <1>2, <1>3, <1>5, IdleClientK
<1> QED  BY <1>4, <1>6, ClientStepK

\* A call that is sent has a serial of its own.
LEMMA SendK ==
    ASSUME IInv, KInv, NEW c \in Clients, NEW m \in Methods, NEW a \in Args, lib[c] = "ready",
           calls' = [calls EXCEPT ![c] = calls[c] + 1], Send(c, m, a)
    PROVE  KInv'
<1> DEFINE n == Call(c, calls'[c], m, a)
<1>1. /\ c \in Procs /\ toBus \in Streams /\ toBus[c] \in Seq(Messages) /\ fromBus[c] \in Seq(Messages)
  BY Types
<1>2. calls \in [Clients -> Nat] /\ pc \in [Clients -> {"idle", "waiting"}] /\ calls[c] \in Nat
  BY DEF IInv, TypeOK
<1>3. /\ calls'[c] = calls[c] + 1 /\ \A d \in Clients \ {c} : calls'[d] = calls[d]
      /\ pc'[c] = "waiting" /\ \A d \in Clients \ {c} : pc'[d] = pc[d]
      /\ toBus'[c] = Append(toBus[c], n) /\ \A x \in Procs \ {c} : toBus'[x] = toBus[x]
      /\ UNCHANGED <<lib, spc, serving, pending, attached, fromBus>>
  BY <1>1, <1>2 DEF Send, libVars, serverVars, busVars, Streams
<1>4. ClientStep(c)
  BY <1>3 DEF ClientStep
<1>5. n \in Messages /\ n.type = "call" /\ n.serial = calls[c] + 1
  BY <1>2, <1>3 DEF Call, Calls, Messages
<1> HIDE DEF n
<1>6. ASSUME NEW k \in Nat PROVE Places(c, k)' = Places(c, k) + One(k = calls[c] + 1)
  <2>1. Count(toBus'[c], CallMsgs(k)) = Count(toBus[c], CallMsgs(k)) + One(n \in CallMsgs(k))
    BY <1>1, <1>3, <1>5, CountAppend
  <2>2. n \in CallMsgs(k) <=> k = calls[c] + 1
    BY <1>5 DEF CallMsgs
  <2>3. One(n \in CallMsgs(k)) = One(k = calls[c] + 1) /\ One(k = calls[c] + 1) \in Nat
    BY <2>2 DEF One
  <2>4. One(Expected(c, k))' = One(Expected(c, k)) /\ One(Expected(c, k)) \in Nat
    BY <1>3 DEF One, Expected
  <2>5. Count(toBus[c], CallMsgs(k)) \in Nat /\ Count(fromBus[c], ReplyMsgs(k)) \in Nat
    BY <1>1, CountType
  <2>6. Count(fromBus[c], ReplyMsgs(k))' = Count(fromBus[c], ReplyMsgs(k))
    BY <1>3
  <2> QED  BY <2>1, <2>3, <2>4, <2>5, <2>6 DEF Places
<1>7. ASSUME c \in attached', NEW k \in Nat PROVE Placed(c, k)'
  <2>1. Places(c, k) \in Nat /\ Places(c, k) <= One(k <= calls[c])
    BY <1>3, <1>7, PlacesType DEF KInv, ClientK, Placed
  <2>2. CASE k = calls[c] + 1
    <3>1. One(k <= calls[c]) = 0 /\ One(k = calls[c] + 1) = 1 /\ One(k <= calls'[c]) = 1
      BY <1>2, <1>3, <2>2 DEF One
    <3>2. Places(c, k)' = 1
      BY <1>6, <2>1, <3>1
    <3> QED  BY <3>1, <3>2 DEF Placed
  <2>3. CASE k # calls[c] + 1
    <3>1. One(k = calls[c] + 1) = 0 /\ One(k <= calls'[c]) = One(k <= calls[c])
      BY <1>2, <1>3, <2>3 DEF One
    <3>2. Places(c, k)' = Places(c, k)
      BY <1>6, <2>1, <3>1
    <3> QED  BY <1>3, <2>1, <2>3, <3>1, <3>2 DEF Placed
  <2> QED  BY <2>2, <2>3
<1>8. ClientK(c)'
  BY <1>3, <1>7 DEF ClientK
<1> QED  BY <1>4, <1>8, ClientStepK

\* QtDBus reads a message: the awaited reply was the only one, and ends the
\* call; any other leaves the awaited call where it is.
LEMMA ReceiveK ==
    ASSUME IInv, KInv, NEW c \in Clients, Receive(c)
    PROVE  KInv'
<1> DEFINE m == Head(fromBus[c])
<1>1. /\ c \in Procs /\ fromBus \in Streams /\ toBus[c] \in Seq(Messages) /\ fromBus[c] \in Seq(Messages)
  BY Types
<1>2. calls[c] \in Nat /\ pc \in [Clients -> {"idle", "waiting"}]
  BY DEF IInv, TypeOK
<1>3. /\ lib[c] = "ready" /\ fromBus[c] # <<>> /\ fromBus' = [fromBus EXCEPT ![c] = Tail(fromBus[c])]
      /\ UNCHANGED <<lib, spc, serving, attached, pending, toBus>>
      /\ IF Answers(c, m) THEN EndCall(c, m) ELSE UNCHANGED callVars
  BY DEF Receive, serverVars, busVars
<1>4. fromBus'[c] = Tail(fromBus[c]) /\ \A x \in Procs \ {c} : fromBus'[x] = fromBus[x]
  BY <1>1, <1>3 DEF Streams
<1>5. /\ calls' = calls /\ \A d \in Clients \ {c} : pc'[d] = pc[d]
      /\ pc'[c] = IF Answers(c, m) THEN "idle" ELSE pc[c]
  BY <1>2, <1>3 DEF EndCall, callVars
<1>6. ClientStep(c)
  BY <1>3, <1>4, <1>5 DEF ClientStep
<1>7. m \in Messages
  BY <1>1, <1>3, HeadTailProperties
<1> HIDE DEF m
<1>8. ASSUME NEW k \in Nat PROVE Places(c, k)' = Places(c, k) - One(m \in ReplyMsgs(k))
  <2>1. Count(fromBus'[c], ReplyMsgs(k)) = Count(fromBus[c], ReplyMsgs(k)) - One(m \in ReplyMsgs(k))
    BY <1>1, <1>3, <1>4, CountTail DEF m
  <2>2. One(m \in ReplyMsgs(k)) \in Nat
    BY DEF One
  <2>3. One(Expected(c, k))' = One(Expected(c, k)) /\ One(Expected(c, k)) \in Nat
    BY <1>3 DEF One, Expected
  <2>4. Count(toBus[c], CallMsgs(k)) \in Nat /\ Count(fromBus[c], ReplyMsgs(k)) \in Nat
    BY <1>1, CountType
  <2>5. Count(toBus[c], CallMsgs(k))' = Count(toBus[c], CallMsgs(k))
    BY <1>3
  <2> QED  BY <2>1, <2>2, <2>3, <2>4, <2>5 DEF Places
<1>9. ASSUME c \in attached', NEW k \in Nat PROVE Placed(c, k)'
  <2>1. Places(c, k) \in Nat /\ Placed(c, k)
    BY <1>3, <1>9, PlacesType DEF KInv, ClientK
  <2>2. One(m \in ReplyMsgs(k)) \in Nat /\ One(k <= calls[c]) \in Nat
    BY DEF One
  <2>3. Places(c, k)' <= One(k <= calls[c])
    BY <1>8, <2>1, <2>2 DEF Placed
  <2>4. ASSUME pc'[c] = "waiting", k = calls[c] PROVE Places(c, k)' = 1
    <3>1. pc[c] = "waiting" /\ ~Answers(c, m)
      BY <1>5, <2>4
    <3>2. m \notin ReplyMsgs(k)
      BY <2>4, <3>1 DEF Answers, ReplyMsgs
    <3>3. One(m \in ReplyMsgs(k)) = 0
      BY <3>2 DEF One
    <3> QED  BY <1>8, <2>1, <2>4, <3>1, <3>3 DEF Placed
  <2> QED  BY <1>5, <2>3, <2>4 DEF Placed
<1>10. ClientK(c)'
  BY <1>3, <1>9 DEF ClientK
<1> QED  BY <1>6, <1>10, ClientStepK

\* A call is given up; its answer may still come.
LEMMA GiveUpK ==
    ASSUME IInv, KInv, NEW c \in Clients, Timeout(c) \/ LostBus(c)
    PROVE  KInv'
<1>1. calls[c] \in Nat /\ pc \in [Clients -> {"idle", "waiting"}] /\ lib[c] = "ready"
  BY DEF IInv, TypeOK, Timeout, LostBus
<1>2. /\ UNCHANGED <<lib, calls, spc, serving, attached, pending, toBus, fromBus>>
      /\ pc'[c] = "idle" /\ \A d \in Clients \ {c} : pc'[d] = pc[d]
  BY <1>1 DEF Timeout, LostBus, EndCall, libVars, serverVars, busVars, chanVars
<1>3. ClientStep(c)
  BY <1>1, <1>2 DEF ClientStep
<1>4. ASSUME NEW k \in Nat PROVE Places(c, k)' \in Nat /\ Places(c, k)' <= Places(c, k)
  <2>1. Places(c, k)' = Places(c, k) /\ Places(c, k) \in Nat
    BY <1>2, PlacesUnchanged, PlacesType
  <2> QED  BY <2>1
<1>5. ClientK(c)'
  BY <1>1, <1>2, <1>4, IdleClientK
<1> QED  BY <1>3, <1>5, ClientStepK

\* A program ends and reads no more.
LEMMA ExitK ==
    ASSUME IInv, KInv, NEW c \in Clients, Exit(c)
    PROVE  KInv'
<1>1. /\ c \in Procs /\ fromBus \in Streams /\ lib \in [Clients -> LibStates]
      /\ toBus[c] \in Seq(Messages) /\ fromBus[c] \in Seq(Messages)
  BY Types
<1>2. calls[c] \in Nat /\ pc \in [Clients -> {"idle", "waiting"}]
  BY DEF IInv, TypeOK
<1>3. /\ lib'[c] = "exited" /\ \A d \in Clients \ {c} : lib'[d] = lib[d]
      /\ pc'[c] = "idle" /\ \A d \in Clients \ {c} : pc'[d] = pc[d]
      /\ fromBus'[c] = <<>> /\ \A x \in Procs \ {c} : fromBus'[x] = fromBus[x]
      /\ UNCHANGED <<calls, spc, serving, attached, pending, toBus>>
  BY <1>1, <1>2 DEF Exit, serverVars, busVars, Streams
<1>4. ClientStep(c)
  BY <1>3 DEF ClientStep
<1>5. ASSUME NEW k \in Nat PROVE Places(c, k)' \in Nat /\ Places(c, k)' <= Places(c, k)
  <2>1. Count(fromBus'[c], ReplyMsgs(k)) = 0
    BY <1>3, CountEmpty
  <2>2. One(Expected(c, k))' = One(Expected(c, k)) /\ One(Expected(c, k)) \in Nat
    BY <1>3 DEF One, Expected
  <2>3. Count(toBus[c], CallMsgs(k)) \in Nat /\ Count(fromBus[c], ReplyMsgs(k)) \in Nat
    BY <1>1, CountType
  <2>4. Count(toBus[c], CallMsgs(k))' = Count(toBus[c], CallMsgs(k))
    BY <1>3
  <2>5. Count(fromBus[c], ReplyMsgs(k))' = 0
    BY <2>1
  <2> QED  BY <2>2, <2>3, <2>4, <2>5 DEF Places
<1>6. ClientK(c)'
  BY <1>2, <1>3, <1>5, IdleClientK
<1> QED  BY <1>4, <1>6, ClientStepK
----------------------------------------------------------------------------
(* The servers.                                                            *)

\* How often a server holds a call is a number.
LEMMA HoldsType ==
    ASSUME IInv, NEW s \in Servers, NEW c, NEW k
    PROVE  /\ Count(fromBus[s], CallsOf(c, k)) \in Nat /\ Count(toBus[s], RepliesOf(c, k)) \in Nat
           /\ One(Executed(s, c, k)) \in {0, 1} /\ Holds(s, c, k) \in Nat
<1>1. s \in Procs
  BY DEF Procs
<1>2. Count(fromBus[s], CallsOf(c, k)) \in Nat /\ Count(toBus[s], RepliesOf(c, k)) \in Nat
  BY <1>1, Numbers
<1> QED  BY <1>2 DEF Holds, One

\* A server lives on and holds what it held.
LEMMA LivingServerK ==
    ASSUME IInv, KInv, NEW s \in Servers, ServerAlone(s), Alive(s), spc'[s] \in {"requesting", "running", "serving"},
           IF spc'[s] = "serving" THEN \E q \in Calls : serving'[s] = {q} ELSE serving'[s] = {},
           \A c \in Clients : \A k \in Nat : Holds(s, c, k)' = Holds(s, c, k)
    PROVE  KInv'
<1>1. s \notin Clients
  BY SetsAssumption
<1>2. ASSUME NEW c \in Clients, NEW k \in Nat PROVE Accounts(s, c, k)'
  <2>1. Accounts(s, c, k) /\ Holds(s, c, k)' = Holds(s, c, k)
    BY DEF KInv, ServerK
  <2>2. One(Owes(s, c, k))' = One(Owes(s, c, k))
    BY DEF One, Owes, ServerAlone
  <2>3. (lib'[c] = "none" => lib[c] = "none") /\ (c \in attached' => c \in attached)
    BY <1>1 DEF ServerAlone
  <2> QED  BY <2>1, <2>2, <2>3 DEF Accounts
<1>3. ServerK(s)'
  BY <1>2 DEF ServerK
<1> QED  BY <1>3, ServerAloneK

\* A server ends: what it had not answered is not held any more.
LEMMA EndedServerK ==
    ASSUME IInv, KInv, NEW s \in Servers, ServerAlone(s), spc'[s] = "dead", serving'[s] = {},
           fromBus'[s] = <<>>, toBus'[s] = toBus[s]
    PROVE  KInv'
<1>1. s \notin Clients /\ ~Alive(s)'
  BY SetsAssumption DEF Alive
<1>2. ASSUME NEW c \in Clients, NEW k \in Nat PROVE Accounts(s, c, k)'
  <2>1. Accounts(s, c, k)
    BY DEF KInv, ServerK
  <2>2. One(Owes(s, c, k))' = One(Owes(s, c, k)) /\ One(Owes(s, c, k)) \in Nat
    BY DEF One, Owes, ServerAlone
  <2>3. (lib'[c] = "none" => lib[c] = "none") /\ (c \in attached' => c \in attached)
    BY <1>1 DEF ServerAlone
  <2>4. /\ Count(fromBus[s], CallsOf(c, k)) \in Nat /\ Count(toBus[s], RepliesOf(c, k)) \in Nat
        /\ One(Executed(s, c, k)) \in {0, 1}
    BY HoldsType
  <2>5. Count(fromBus[s], CallsOf(c, k))' = 0
    BY CountEmpty
  <2>6. One(Executed(s, c, k))' = 0
    BY DEF One, Executed
  <2>7. Count(toBus[s], RepliesOf(c, k))' = Count(toBus[s], RepliesOf(c, k))
    OBVIOUS
  <2>8. Holds(s, c, k)' <= Holds(s, c, k) /\ Holds(s, c, k)' \in Nat /\ Holds(s, c, k) \in Nat
    BY <2>4, <2>5, <2>6, <2>7 DEF Holds
  <2> QED  BY <1>1, <2>1, <2>2, <2>3, <2>8 DEF Accounts
<1>3. ServerK(s)'
  BY <1>2 DEF ServerK
<1> QED  BY <1>3, ServerAloneK

\* A server that starts has been sent nothing and owes nothing.
LEMMA ServerStartK ==
    ASSUME IInv, JInv, KInv, NEW s \in Servers, ServerStart(s)
    PROVE  KInv'
<1>1. /\ s \in Procs /\ s \notin Clients /\ toBus \in Streams /\ spc \in [Servers -> ServerStates]
  BY Types
<1>2. /\ spc[s] = "off" /\ spc'[s] = "requesting" /\ \A t \in Servers \ {s} : spc'[t] = spc[t]
      /\ toBus'[s] = Append(toBus[s], RequestName) /\ \A x \in Procs \ {s} : toBus'[x] = toBus[x]
      /\ attached' = attached \cup {s}
      /\ UNCHANGED <<lib, pc, calls, serving, pending, fromBus>>
  BY <1>1 DEF ServerStart, Streams, libVars, callVars
<1>3. ServerAlone(s)
  BY <1>2 DEF ServerAlone
<1>4. s \notin attached /\ serving[s] = {} /\ fromBus[s] = <<>>
  BY <1>2 DEF JInv, ServerInv, AsksOnce, KInv, ServerK
<1>5. Quiet(RequestName)
  BY DEF Quiet, RequestName, Messages
<1>6. SameCounts(s)
  BY <1>1, <1>2, <1>5, QuietProcess DEF QuietMove
<1>7. ASSUME NEW c \in Clients, NEW k \in Nat PROVE Accounts(s, c, k)'
  <2>1. Accounts(s, c, k) /\ Holds(s, c, k) \in Nat
    BY HoldsType DEF KInv, ServerK
  <2>2. Holds(s, c, k)' = Holds(s, c, k)
    BY <1>2, <1>6, HoldsSame
  <2>3. s # Gone
    BY GoneAssumption
  <2>4. ~Owes(s, c, k)
    BY <1>4, <2>3 DEF Owes, KInv, PendingInv
  <2>5. One(Owes(s, c, k)) = 0 /\ One(Owes(s, c, k))' = 0
    BY <1>2, <2>4 DEF One, Owes
  <2>6. (lib'[c] = "none" => lib[c] = "none") /\ (c \in attached' => c \in attached)
    BY <1>1, <1>2
  <2> QED  BY <2>1, <2>2, <2>5, <2>6 DEF Accounts
<1>8. ServerK(s)'
  BY <1>2, <1>4, <1>7 DEF ServerK
<1> QED  BY <1>3, <1>8, ServerAloneK

\* Main waits for its name; the calls are behind the reply.
LEMMA ServerAwaitNameK ==
    ASSUME IInv, JInv, KInv, NEW s \in Servers, ServerAwaitName(s)
    PROVE  KInv'
<1> DEFINE q == fromBus[s]
           m == Head(fromBus[s])
<1>1. /\ s \in Procs /\ s \notin Clients /\ fromBus \in Streams /\ q \in Seq(Messages)
      /\ spc \in [Servers -> ServerStates]
  BY Types
<1>2. spc[s] = "requesting" /\ q # <<>> /\ CallsAfterReply(q)
  BY DEF ServerAwaitName, JInv, ServerInv, Prepared
<1>3. m.type # "call"
  BY <1>1, <1>2, ReadBeforeReply
<1>4. /\ fromBus'[s] = Tail(q) /\ \A x \in Procs \ {s} : fromBus'[x] = fromBus[x]
      /\ spc'[s] \in {"requesting", "running"} /\ \A t \in Servers \ {s} : spc'[t] = spc[t]
      /\ UNCHANGED <<lib, pc, calls, serving, attached, pending, toBus>>
  BY <1>1, <1>2, <1>3 DEF ServerAwaitName, Streams, libVars, callVars, busVars
<1>5. ServerAlone(s)
  BY <1>4 DEF ServerAlone
<1>6. serving[s] = {} /\ Alive(s)
  BY <1>1, <1>2 DEF KInv, ServerK, Alive
<1>7. ASSUME NEW c \in Clients, NEW k \in Nat PROVE Holds(s, c, k)' = Holds(s, c, k)
  <2>1. Count(fromBus'[s], CallsOf(c, k)) = Count(fromBus[s], CallsOf(c, k)) - One(m \in CallsOf(c, k))
    BY <1>1, <1>2, <1>4, CountTail
  <2>2. One(m \in CallsOf(c, k)) = 0
    BY <1>3 DEF One, CallsOf, CallMsgs
  <2>3. One(Executed(s, c, k))' = One(Executed(s, c, k))
    BY <1>4 DEF One, Executed
  <2>4. Count(toBus[s], RepliesOf(c, k))' = Count(toBus[s], RepliesOf(c, k))
    BY <1>4
  <2>5. Count(fromBus[s], CallsOf(c, k)) \in Nat
    BY HoldsType
  <2>6. Count(fromBus[s], CallsOf(c, k))' = Count(fromBus[s], CallsOf(c, k))
    BY <2>1, <2>2, <2>5
  <2> QED  BY <2>3, <2>4, <2>6 DEF Holds
<1>8. IF spc'[s] = "serving" THEN \E x \in Calls : serving'[s] = {x} ELSE serving'[s] = {}
  BY <1>4, <1>6
<1>9. spc'[s] \in {"requesting", "running", "serving"}
  BY <1>4
<1> QED  BY <1>5, <1>6, <1>7, <1>8, <1>9, LivingServerK

\* bus.Iterate takes a call into execution.
LEMMA ServerIterateK ==
    ASSUME IInv, KInv, NEW s \in Servers, ServerIterate(s)
    PROVE  KInv'
<1> DEFINE m == Head(fromBus[s])
<1>1. /\ s \in Procs /\ s \notin Clients /\ fromBus \in Streams /\ fromBus[s] \in Seq(Messages)
      /\ spc \in [Servers -> ServerStates]
  BY Types
<1>2. serving \in [Servers -> SUBSET Calls]
  BY DEF IInv, TypeOK
<1>3. /\ spc[s] = "running" /\ fromBus[s] # <<>> /\ fromBus' = [fromBus EXCEPT ![s] = Tail(fromBus[s])]
      /\ IF m.type = "call" THEN /\ spc' = [spc EXCEPT ![s] = "serving"]
                                 /\ serving' = [serving EXCEPT ![s] = {m}]
                            ELSE UNCHANGED <<spc, serving>>
      /\ UNCHANGED <<lib, pc, calls, attached, pending, toBus>>
  BY DEF ServerIterate, libVars, callVars, busVars
<1>4. serving[s] = {} /\ Alive(s) /\ m \in Messages
  BY <1>1, <1>3, HeadTailProperties DEF KInv, ServerK, Alive
<1>5. fromBus'[s] = Tail(fromBus[s]) /\ \A x \in Procs \ {s} : fromBus'[x] = fromBus[x]
  BY <1>1, <1>3 DEF Streams
<1>6. \A t \in Servers \ {s} : spc'[t] = spc[t] /\ serving'[t] = serving[t]
  BY <1>1, <1>2, <1>3
<1>7. ServerAlone(s)
  BY <1>3, <1>5, <1>6 DEF ServerAlone
<1>8. /\ m.type = "call" => m \in Calls /\ spc'[s] = "serving" /\ serving'[s] = {m}
      /\ m.type # "call" => spc'[s] = "running" /\ serving'[s] = {}
  BY <1>1, <1>2, <1>3, <1>4, MessageFields
<1> HIDE DEF m
<1>9. ASSUME NEW c \in Clients, NEW k \in Nat PROVE Holds(s, c, k)' = Holds(s, c, k)
  <2>1. Count(fromBus'[s], CallsOf(c, k)) = Count(fromBus[s], CallsOf(c, k)) - One(m \in CallsOf(c, k))
    BY <1>1, <1>3, <1>5, CountTail DEF m
  <2>2. One(Executed(s, c, k)) = 0
    BY <1>4 DEF One, Executed
  <2>3. Executed(s, c, k)' <=> m \in CallsOf(c, k)
    BY <1>4, <1>8 DEF Executed, CallsOf, CallMsgs
  <2>4. One(Executed(s, c, k))' = One(m \in CallsOf(c, k)) /\ One(m \in CallsOf(c, k)) \in Nat
    BY <2>3 DEF One
  <2>5. Count(toBus[s], RepliesOf(c, k))' = Count(toBus[s], RepliesOf(c, k))
    BY <1>3
  <2>6. Count(fromBus[s], CallsOf(c, k)) \in Nat /\ Count(toBus[s], RepliesOf(c, k)) \in Nat
    BY HoldsType
  <2>7. Count(fromBus[s], CallsOf(c, k))' = Count(fromBus[s], CallsOf(c, k)) - One(m \in CallsOf(c, k))
    BY <2>1
  <2> QED  BY <2>2, <2>4, <2>5, <2>6, <2>7 DEF Holds
<1>10. IF spc'[s] = "serving" THEN \E x \in Calls : serving'[s] = {x} ELSE serving'[s] = {}
  BY <1>8
<1>11. spc'[s] \in {"requesting", "running", "serving"}
  BY <1>8
<1> QED  BY <1>4, <1>7, <1>9, <1>10, <1>11, LivingServerK

\* The reply takes the place of the call in execution.
LEMMA ServerReplyK ==
    ASSUME IInv, KInv, NEW s \in Servers, ServerReply(s)
    PROVE  KInv'
<1>1. /\ s \in Procs /\ s \notin Clients /\ fromBus \in Streams /\ toBus \in Streams
      /\ toBus[s] \in Seq(Messages) /\ spc \in [Servers -> ServerStates]
  BY Types
<1>2. serving \in [Servers -> SUBSET Calls]
  BY DEF IInv, TypeOK
<1>3. /\ spc[s] = "serving" /\ serving'[s] = {} /\ \A t \in Servers \ {s} : serving'[t] = serving[t]
      /\ \A t \in Servers \ {s} : spc'[t] = spc[t]
      /\ \A x \in Procs \ {s} : toBus'[x] = toBus[x] /\ fromBus'[x] = fromBus[x]
      /\ UNCHANGED <<lib, pc, calls, attached, pending>>
  BY <1>1, <1>2 DEF ServerReply, Streams, libVars, callVars, busVars
<1>4. ServerAlone(s) /\ Alive(s)
  BY <1>1, <1>3 DEF ServerAlone, Alive
<1>5. CASE ~busUp
  BY <1>1, <1>3, <1>4, <1>5, EndedServerK DEF ServerReply, Streams
<1>6. CASE busUp
  <2>1. PICK q \in serving[s] : toBus' = [toBus EXCEPT ![s] = Append(toBus[s], Result(s, q))]
    BY <1>6 DEF ServerReply
  <2>2. serving[s] = {q} /\ q \in Calls
    BY <1>2, <1>3, <2>1 DEF KInv, ServerK
  <2>3. spc'[s] = "running" /\ fromBus' = fromBus /\ toBus'[s] = Append(toBus[s], Result(s, q))
    BY <1>1, <1>6, <2>1 DEF ServerReply, Streams
  <2> DEFINE m == Result(s, q)
  <2>4. m \in Messages
    BY <2>1, ResultIsKnown
  <2>5. m.type \in {"return", "error"} /\ m.client = q.client /\ m.serial = q.serial
    BY DEF Result, Error, PingResult, QueryResult, Return
  <2> HIDE DEF m
  <2>6. ASSUME NEW c \in Clients, NEW k \in Nat PROVE Holds(s, c, k)' = Holds(s, c, k)
    <3>1. Count(toBus'[s], RepliesOf(c, k)) = Count(toBus[s], RepliesOf(c, k)) + One(m \in RepliesOf(c, k))
      BY <1>1, <2>3, <2>4, CountAppend DEF m
    <3>2. One(Executed(s, c, k))' = 0
      BY <1>3 DEF One, Executed
    <3>3. Executed(s, c, k) <=> m \in RepliesOf(c, k)
      BY <2>2, <2>4, <2>5 DEF Executed, RepliesOf, ReplyMsgs
    <3>4. One(Executed(s, c, k)) = One(m \in RepliesOf(c, k)) /\ One(m \in RepliesOf(c, k)) \in Nat
      BY <3>3 DEF One
    <3>5. Count(fromBus[s], CallsOf(c, k))' = Count(fromBus[s], CallsOf(c, k))
      BY <2>3
    <3>6. Count(fromBus[s], CallsOf(c, k)) \in Nat /\ Count(toBus[s], RepliesOf(c, k)) \in Nat
      BY HoldsType
    <3>7. Count(toBus[s], RepliesOf(c, k))' = Count(toBus[s], RepliesOf(c, k)) + One(m \in RepliesOf(c, k))
      BY <3>1
    <3> QED  BY <3>2, <3>4, <3>5, <3>6, <3>7 DEF Holds
  <2>7. IF spc'[s] = "serving" THEN \E x \in Calls : serving'[s] = {x} ELSE serving'[s] = {}
    BY <1>3, <2>3
  <2> QED  BY <1>4, <2>3, <2>6, <2>7, LivingServerK
<1> QED  BY <1>5, <1>6

\* A server is killed.
LEMMA ServerCrashK ==
    ASSUME IInv, KInv, NEW s \in Servers, ServerCrash(s)
    PROVE  KInv'
<1>1. s \in Procs /\ s \notin Clients /\ fromBus \in Streams /\ spc \in [Servers -> ServerStates]
  BY Types
<1>2. serving \in [Servers -> SUBSET Calls]
  BY DEF IInv, TypeOK
<1>3. /\ spc'[s] = "dead" /\ serving'[s] = {} /\ fromBus'[s] = <<>> /\ toBus' = toBus
      /\ \A t \in Servers \ {s} : spc'[t] = spc[t] /\ serving'[t] = serving[t]
      /\ \A x \in Procs \ {s} : fromBus'[x] = fromBus[x]
      /\ UNCHANGED <<lib, pc, calls, attached, pending>>
  BY <1>1, <1>2 DEF ServerCrash, Streams, libVars, callVars, busVars
<1>4. ServerAlone(s)
  BY <1>3 DEF ServerAlone
<1> QED  BY <1>3, <1>4, EndedServerK
----------------------------------------------------------------------------
(* The daemon.                                                             *)

\* The daemon moves messages and drops connections; who has ended or was
\* never there hears nothing.
BusStep ==
    /\ UNCHANGED <<lib, pc, calls, spc, serving>>
    /\ attached' \subseteq attached
    /\ \A c \in Clients : lib[c] = "none" => toBus'[c] = toBus[c] /\ fromBus'[c] = fromBus[c]
    /\ \A s \in Servers : spc[s] \in {"off", "dead"} => fromBus'[s] = fromBus[s]

\* What is left to show of such a step.
LEMMA BusStepK ==
    ASSUME KInv, BusStep, PendingInv',
           \A c \in Clients : c \in attached' => \A k \in Nat : Placed(c, k)',
           \A s \in Servers : \A c \in Clients : \A k \in Nat : Accounts(s, c, k)'
    PROVE  KInv'
<1>1. ASSUME NEW s \in Servers PROVE ServerK(s)'
  <2>1. ServerK(s) /\ ServerStays(s)
    BY DEF KInv, BusStep, ServerStays
  <2> QED  BY <2>1, ServerStaysK
<1>2. ASSUME NEW c \in Clients PROVE ClientK(c)'
  <2>1. lib'[c] = "none" => c \notin attached' /\ pc'[c] = "idle" /\ toBus'[c] = <<>> /\ fromBus'[c] = <<>>
    BY DEF KInv, ClientK, BusStep
  <2>2. pc'[c] = "waiting" => lib'[c] = "ready"
    BY DEF KInv, ClientK, BusStep
  <2> QED  BY <2>1, <2>2 DEF ClientK
<1> QED  BY <1>1, <1>2 DEF KInv

\* A call stays in its place, or has one less at a client that has ended.
LEMMA PlacedKept ==
    ASSUME IInv, KInv, BusStep, NEW c \in Clients, c \in attached, NEW k \in Nat,
           Places(c, k)' \in Nat, Places(c, k)' <= Places(c, k), Alive(c) => Places(c, k)' = Places(c, k)
    PROVE  Placed(c, k)'
<1>1. Placed(c, k) /\ ClientK(c) /\ Places(c, k) \in Nat
  BY PlacesType DEF KInv, ClientK
<1>2. One(k <= calls[c]) \in Nat /\ calls' = calls /\ pc' = pc
  BY DEF One, BusStep
<1>3. pc[c] = "waiting" => Alive(c)
  BY <1>1 DEF ClientK, Alive
<1>4. Places(c, k)' <= One(k <= calls[c])
  BY <1>1, <1>2 DEF Placed
<1> QED  BY <1>1, <1>2, <1>3, <1>4 DEF Placed

\* The daemon reads a message of p.
LEMMA ReadCounts ==
    ASSUME IInv, NEW p \in Procs, toBus[p] # <<>>, toBus' = [toBus EXCEPT ![p] = Tail(toBus[p])]
    PROVE  /\ Head(toBus[p]) \in Messages
           /\ \A x \in Procs \ {p} : toBus'[x] = toBus[x]
           /\ \A M : Count(toBus'[p], M) = Count(toBus[p], M) - One(Head(toBus[p]) \in M)
<1>1. toBus \in Streams /\ toBus[p] \in Seq(Messages)
  BY Types, Numbers
<1>2. toBus'[p] = Tail(toBus[p]) /\ \A x \in Procs \ {p} : toBus'[x] = toBus[x]
  BY <1>1 DEF Streams
<1>3. Head(toBus[p]) \in Messages
  BY <1>1, HeadTailProperties
<1>4. ASSUME NEW M PROVE Count(toBus'[p], M) = Count(toBus[p], M) - One(Head(toBus[p]) \in M)
  BY <1>1, <1>2, CountTail
<1> QED  BY <1>2, <1>3, <1>4

\* The daemon writes n to y.
LEMMA WriteCounts ==
    ASSUME IInv, NEW y \in Procs, NEW n \in Messages, fromBus' = Deliver(fromBus, y, n)
    PROVE  /\ \A x \in Procs \ {y} : fromBus'[x] = fromBus[x]
           /\ ~Alive(y) => fromBus'[y] = fromBus[y]
           /\ \A M : Count(fromBus'[y], M) = Count(fromBus[y], M) + One(Alive(y) /\ n \in M)
<1>1. fromBus \in Streams /\ fromBus[y] \in Seq(Messages)
  BY Types, Numbers
<1>2. \A x \in Procs : fromBus'[x] = IF x = y /\ Alive(y) THEN Append(fromBus[x], n) ELSE fromBus[x]
  BY <1>1, DeliverTo
<1>3. ASSUME NEW M PROVE Count(fromBus'[y], M) = Count(fromBus[y], M) + One(Alive(y) /\ n \in M)
  <2>1. CASE Alive(y)
    <3>1. Count(fromBus'[y], M) = Count(fromBus[y], M) + One(n \in M)
      BY <1>1, <1>2, <2>1, CountAppend
    <3>2. One(Alive(y) /\ n \in M) = One(n \in M)
      BY <2>1 DEF One
    <3> QED  BY <3>1, <3>2
  <2>2. CASE ~Alive(y)
    <3>1. One(Alive(y) /\ n \in M) = 0 /\ fromBus'[y] = fromBus[y] /\ Count(fromBus[y], M) \in Nat
      BY <1>1, <1>2, <2>2, CountType DEF One
    <3> QED  BY <3>1
  <2> QED  BY <2>1, <2>2
<1> QED  BY <1>2, <1>3

\* Such a write is heard by a process that lives.
LEMMA DeliverIsBusStep ==
    ASSUME IInv, KInv, NEW y \in Procs, NEW n \in Messages, fromBus' = Deliver(fromBus, y, n),
           \A x \in Procs \ attached : toBus'[x] = toBus[x],
           UNCHANGED <<lib, pc, calls, spc, serving, attached>>
    PROVE  BusStep
<1>1. \A x \in Procs : ~Alive(x) => fromBus'[x] = fromBus[x]
  BY WriteCounts
<1>2. ASSUME NEW c \in Clients, lib[c] = "none" PROVE toBus'[c] = toBus[c] /\ fromBus'[c] = fromBus[c]
  <2>1. c \in Procs /\ ~Alive(c) /\ c \notin attached
    BY <1>2 DEF Procs, Alive, KInv, ClientK
  <2> QED  BY <1>1, <2>1
<1>3. ASSUME NEW s \in Servers, spc[s] \in {"off", "dead"} PROVE fromBus'[s] = fromBus[s]
  <2>1. s \in Procs /\ ~Alive(s)
    BY <1>3, SetsAssumption DEF Procs, Alive
  <2> QED  BY <1>1, <2>1
<1> QED  BY <1>2, <1>3 DEF BusStep

\* A call that the daemon refuses: its error takes its place.
LEMMA RefusedCallK ==
    ASSUME IInv, KInv, NEW c \in Clients, c \in attached, NEW m, m = Head(toBus[c]), toBus[c] # <<>>,
           m.type = "call", toBus' = [toBus EXCEPT ![c] = Tail(toBus[c])],
           fromBus' = Deliver(fromBus, c, Error(c, m.serial)),
           UNCHANGED <<lib, pc, calls, spc, serving, attached, pending>>
    PROVE  KInv'
<1> DEFINE n == Error(c, m.serial)
<1>1. c \in Procs /\ \A s \in Servers : s \in Procs \ {c}
  BY SetsAssumption DEF Procs
<1>2. /\ m \in Messages /\ \A x \in Procs \ {c} : toBus'[x] = toBus[x]
      /\ \A M : Count(toBus'[c], M) = Count(toBus[c], M) - One(m \in M)
  BY <1>1, ReadCounts
<1>3. n \in Messages /\ n.type = "error" /\ n.serial = m.serial
  <2>1. m.serial \in Nat
    BY <1>2, MessageFields DEF Calls
  <2> QED  BY <2>1 DEF Error, Errors, Messages
<1>4. /\ \A x \in Procs \ {c} : fromBus'[x] = fromBus[x]
      /\ \A M : Count(fromBus'[c], M) = Count(fromBus[c], M) + One(Alive(c) /\ n \in M)
  BY <1>1, <1>3, WriteCounts
<1>5. BusStep
  BY <1>1, <1>2, <1>3, DeliverIsBusStep
<1> HIDE DEF n
<1>6. PendingInv'
  BY DEF KInv, PendingInv
<1>7. ASSUME NEW d \in Clients, d \in attached', NEW k \in Nat PROVE Placed(d, k)'
  <2>1. d \in Procs /\ d \in attached /\ Places(d, k) \in Nat
    BY <1>7, PlacesType DEF Procs
  <2>2. One(Expected(d, k))' = One(Expected(d, k)) /\ One(Expected(d, k)) \in Nat
    BY DEF One, Expected
  <2>3. CASE d # c
    <3>1. Places(d, k)' = Places(d, k)
      BY <1>2, <1>4, <2>1, <2>3, PlacesUnchanged
    <3> QED  BY <1>5, <2>1, <3>1, PlacedKept
  <2>4. CASE d = c
    <3>1. m \in CallMsgs(k) <=> k = m.serial
      BY <1>2 DEF CallMsgs
    <3>2. Alive(c) /\ n \in ReplyMsgs(k) <=> Alive(c) /\ k = m.serial
      BY <1>3 DEF ReplyMsgs
    <3>3. One(m \in CallMsgs(k)) = One(k = m.serial)
      BY <3>1 DEF One
    <3>4. One(Alive(c) /\ n \in ReplyMsgs(k)) = One(Alive(c) /\ k = m.serial)
      BY <3>2 DEF One
    <3>5. Count(toBus[c], CallMsgs(k))' = Count(toBus[c], CallMsgs(k)) - One(k = m.serial)
      BY <1>2, <3>3
    <3>6. Count(fromBus[c], ReplyMsgs(k))' = Count(fromBus[c], ReplyMsgs(k)) + One(Alive(c) /\ k = m.serial)
      BY <1>4, <3>4
    <3>7. Count(toBus[c], CallMsgs(k)) \in Nat /\ Count(fromBus[c], ReplyMsgs(k)) \in Nat
      BY <1>1, Numbers
    <3>8. Count(toBus[c], CallMsgs(k))' \in Nat
      BY <1>1, <1>2, Numbers, CountTail, <3>5, CountType
    <3>9. One(k = m.serial) \in Nat /\ One(Alive(c) /\ k = m.serial) \in Nat
          /\ One(Alive(c) /\ k = m.serial) <= One(k = m.serial)
          /\ (Alive(c) => One(Alive(c) /\ k = m.serial) = One(k = m.serial))
      BY DEF One
    <3>10. /\ Places(c, k)' = Places(c, k) - One(k = m.serial) + One(Alive(c) /\ k = m.serial)
           /\ Places(c, k)' \in Nat
      BY <2>2, <2>4, <3>5, <3>6, <3>7, <3>8, <3>9 DEF Places
    <3>11. Places(c, k)' <= Places(c, k) /\ (Alive(c) => Places(c, k)' = Places(c, k))
      BY <2>1, <2>4, <3>9, <3>10
    <3> QED  BY <1>5, <2>1, <2>4, <3>10, <3>11, PlacedKept
  <2> QED  BY <2>3, <2>4
<1>8. ASSUME NEW s \in Servers, NEW d \in Clients, NEW k \in Nat PROVE Accounts(s, d, k)'
  <2>1. SameCounts(s)
    BY <1>1, <1>2, <1>4 DEF SameCounts
  <2>2. Holds(s, d, k)' = Holds(s, d, k)
    BY <2>1, HoldsSame
  <2>3. Accounts(s, d, k) /\ (Owes(s, d, k)' <=> Owes(s, d, k))
    BY DEF KInv, ServerK, Owes
  <2> QED  BY <2>2, <2>3, AccountsSame
<1> QED  BY <1>5, <1>6, <1>7, <1>8, BusStepK

\* A call that the daemon forwards: it was in no other place, so nobody holds
\* it yet; now the primary owner does, and its reply is expected.
LEMMA ForwardedCallK ==
    ASSUME IInv, JInv, KInv, NEW c \in Clients, c \in attached, NEW m, m = Head(toBus[c]), toBus[c] # <<>>,
           m.type = "call", m.client = c, toBus' = [toBus EXCEPT ![c] = Tail(toBus[c])], owners # <<>>,
           fromBus' = Deliver(fromBus, PrimaryOwner, m),
           pending' = pending \cup {[caller |-> c, serial |-> m.serial, callee |-> PrimaryOwner]},
           UNCHANGED <<lib, pc, calls, spc, serving, attached>>
    PROVE  KInv'
<1> DEFINE t == PrimaryOwner
           j == m.serial
           r == [caller |-> c, serial |-> j, callee |-> t]
<1>1. c \in Procs /\ \A s \in Servers : s \in Procs \ {c}
  BY SetsAssumption DEF Procs
<1>2. /\ m \in Messages /\ \A x \in Procs \ {c} : toBus'[x] = toBus[x]
      /\ \A M : Count(toBus'[c], M) = Count(toBus[c], M) - One(m \in M)
  BY <1>1, ReadCounts
<1>3. j \in Nat
  BY <1>2, MessageFields DEF Calls
<1>4. t \in Servers /\ t \in attached /\ t \in Procs \ {c}
  <2>1. owners \in Seq(Servers) /\ DOMAIN owners = 1 .. Len(owners)
    BY Types
  <2>2. 1 \in DOMAIN owners /\ PrimaryOwner = owners[1] /\ PrimaryOwner \in Servers
    BY <2>1 DEF PrimaryOwner
  <2> QED  BY <1>1, <2>2 DEF JInv, OwnersAreConnected
<1>5. /\ \A x \in Procs \ {t} : fromBus'[x] = fromBus[x]
      /\ \A M : Count(fromBus'[t], M) = Count(fromBus[t], M) + One(Alive(t) /\ m \in M)
  BY <1>2, <1>4, WriteCounts
<1>6. BusStep
  <2>1. \A x \in Procs \ attached : toBus'[x] = toBus[x]
    BY <1>2
  <2> QED  BY <1>2, <1>4, <2>1, DeliverIsBusStep
<1> HIDE DEF t, j
<1>7. ASSUME NEW k \in Nat PROVE m \in CallMsgs(k) <=> k = j
  BY <1>2 DEF CallMsgs, j
<1>8. ~Expected(c, j)
  <2>1. Places(c, j) <= One(j <= calls[c])
    BY <1>3 DEF KInv, ClientK, Placed
  <2>2. One(m \in CallMsgs(j)) = 1
    BY <1>3, <1>7 DEF One
  <2>3. /\ Count(toBus[c], CallMsgs(j)) \in Nat /\ Count(fromBus[c], ReplyMsgs(j)) \in Nat
        /\ Count(Tail(toBus[c]), CallMsgs(j)) \in Nat
        /\ Count(Tail(toBus[c]), CallMsgs(j)) = Count(toBus[c], CallMsgs(j)) - 1
    BY <1>1, <2>2, Numbers, CountTail, CountType
  <2>4. Count(toBus[c], CallMsgs(j)) >= 1
    BY <2>3
  <2>5. One(j <= calls[c]) <= 1 /\ One(j <= calls[c]) \in Nat /\ One(Expected(c, j)) \in Nat
    BY DEF One
  <2>6. One(Expected(c, j)) = 0
    BY <2>1, <2>3, <2>4, <2>5 DEF Places
  <2> QED  BY <2>6 DEF One
<1>9. PendingInv'
  <2>1. \A q \in pending : q.caller = c => q.serial # j
    BY <1>8 DEF Expected
  <2>2. r.caller = c /\ r.serial = j /\ r.callee = t /\ pending' = pending \cup {r}
    BY DEF t, j
  <2> HIDE DEF r
  <2>3. \A x, y \in pending' : x.caller = y.caller /\ x.serial = y.serial => x = y
    BY <2>1, <2>2 DEF KInv, PendingInv
  <2>4. \A x \in pending' : x.caller \in attached' /\ x.callee \in attached' \cup {Gone}
    BY <1>4, <2>2 DEF KInv, PendingInv
  <2> QED  BY <2>3, <2>4 DEF PendingInv
<1>10. ASSUME NEW d \in Clients, d \in attached', NEW k \in Nat PROVE Placed(d, k)'
  <2>1. d \in Procs \ {t} /\ d \in attached /\ Places(d, k) \in Nat
    BY <1>4, <1>10, PlacesType, SetsAssumption DEF Procs
  <2>2. Expected(d, k)' <=> Expected(d, k) \/ (d = c /\ k = j)
    <3>1. r.caller = c /\ r.serial = j /\ pending' = pending \cup {r}
      BY DEF t, j
    <3> HIDE DEF r
    <3> QED  BY <3>1 DEF Expected
  <2>3. One(Expected(d, k))' = One(Expected(d, k)) + One(d = c /\ k = j)
    BY <1>8, <2>2 DEF One
  <2>4. Count(fromBus[d], ReplyMsgs(k))' = Count(fromBus[d], ReplyMsgs(k))
    BY <1>5, <2>1
  <2>5. Count(toBus[d], CallMsgs(k))' = Count(toBus[d], CallMsgs(k)) - One(d = c /\ k = j)
    <3>1. Count(toBus[d], CallMsgs(k)) \in Nat
      BY <2>1, Numbers
    <3>2. CASE d = c
      <4>1. One(m \in CallMsgs(k)) = One(d = c /\ k = j)
        BY <1>7, <3>2 DEF One
      <4> QED  BY <1>2, <3>2, <4>1
    <3>3. CASE d # c
      <4>1. toBus'[d] = toBus[d] /\ One(d = c /\ k = j) = 0
        BY <1>2, <2>1, <3>3 DEF One
      <4>2. Count(toBus[d], CallMsgs(k))' = Count(toBus[d], CallMsgs(k))
        BY <4>1
      <4> QED  BY <3>1, <4>1, <4>2
    <3> QED  BY <3>2, <3>3
  <2>6. /\ Count(toBus[d], CallMsgs(k)) \in Nat /\ Count(fromBus[d], ReplyMsgs(k)) \in Nat
        /\ One(Expected(d, k)) \in Nat /\ One(d = c /\ k = j) \in Nat
    BY <2>1, Numbers DEF One
  <2>7. Places(d, k)' = Places(d, k)
    BY <2>3, <2>4, <2>5, <2>6 DEF Places
  <2> QED  BY <1>6, <2>1, <2>7, PlacedKept
<1>11. ASSUME NEW s \in Servers, NEW d \in Clients, NEW k \in Nat PROVE Accounts(s, d, k)'
  <2>1. Accounts(s, d, k) /\ s \in Procs \ {c} /\ toBus'[s] = toBus[s] /\ serving' = serving
    BY <1>1, <1>2 DEF KInv, ServerK
  <2>2. Owes(s, d, k)' <=> Owes(s, d, k) \/ (s = t /\ d = c /\ k = j)
    BY DEF Owes, t, j
  <2>3. m \in CallsOf(d, k) <=> d = c /\ k = j
    BY <1>7 DEF CallsOf
  <2>4. /\ One(Executed(s, d, k))' = One(Executed(s, d, k)) /\ One(Executed(s, d, k)) \in {0, 1}
        /\ Count(toBus[s], RepliesOf(d, k))' = Count(toBus[s], RepliesOf(d, k))
        /\ Count(toBus[s], RepliesOf(d, k)) \in Nat /\ Count(fromBus[s], CallsOf(d, k)) \in Nat
        /\ Holds(s, d, k) \in Nat
    BY <2>1, HoldsType DEF One, Executed
  <2>5. CASE s = t /\ d = c /\ k = j
    <3>1. ~Owes(s, d, k)
      BY <1>8, <2>5 DEF Owes, Expected
    <3>2. Holds(s, d, k) = 0
      BY <2>1, <2>4, <2>5, <3>1 DEF Accounts, One
    <3>3. One(Alive(t) /\ m \in CallsOf(d, k)) = One(Alive(t)) /\ One(Alive(t)) \in Nat
      BY <2>3, <2>5 DEF One
    <3>4. Count(fromBus[s], CallsOf(d, k))' = Count(fromBus[s], CallsOf(d, k)) + One(Alive(t))
      BY <1>5, <2>5, <3>3
    <3>5. Holds(s, d, k)' = One(Alive(t))
      BY <2>4, <3>2, <3>3, <3>4 DEF Holds
    <3>6. One(Owes(s, d, k))' = 1 /\ One(Alive(t)) <= 1 /\ (Alive(s)' => One(Alive(t)) = 1)
      <4>1. Alive(s)' <=> Alive(t)
        BY <1>6, <2>5 DEF Alive, BusStep
      <4> QED  BY <2>2, <2>5, <4>1 DEF One
    <3>7. lib'[d] # "none"
      BY <2>5 DEF KInv, ClientK
    <3> QED  BY <3>5, <3>6, <3>7 DEF Accounts
  <2>6. CASE ~(s = t /\ d = c /\ k = j)
    <3>1. Count(fromBus[s], CallsOf(d, k))' = Count(fromBus[s], CallsOf(d, k))
      <4>1. CASE s # t
        <5>1. fromBus'[s] = fromBus[s]
          BY <1>5, <2>1, <4>1
        <5> QED  BY <5>1
      <4>2. CASE s = t
        <5>1. One(Alive(t) /\ m \in CallsOf(d, k)) = 0
          BY <2>3, <2>6, <4>2 DEF One
        <5> QED  BY <1>5, <2>4, <4>2, <5>1
      <4> QED  BY <4>1, <4>2
    <3>2. Holds(s, d, k)' = Holds(s, d, k)
      BY <2>4, <3>1 DEF Holds
    <3>3. Owes(s, d, k)' <=> Owes(s, d, k)
      BY <2>2, <2>6
    <3> QED  BY <2>1, <3>2, <3>3, AccountsSame
  <2> QED  BY <2>5, <2>6
<1> QED  BY <1>6, <1>9, <1>10, <1>11, BusStepK

\* A pending reply that goes leaves the others alone.
LEMMA PendingLess ==
    ASSUME IInv, PendingInv, attached' = attached, NEW r \in pending, pending' = pending \ {r}
    PROVE  /\ PendingInv'
           /\ \A c, k : Expected(c, k)' <=> Expected(c, k) /\ ~(c = r.caller /\ k = r.serial)
           /\ \A s, c, k : Owes(s, c, k)' <=> /\ Owes(s, c, k)
                                              /\ ~(s = r.callee /\ c = r.caller /\ k = r.serial)
<1>1. PendingInv'
  BY DEF PendingInv
<1>2. ASSUME NEW c, NEW k PROVE Expected(c, k)' <=> Expected(c, k) /\ ~(c = r.caller /\ k = r.serial)
  BY DEF Expected, PendingInv
<1>3. ASSUME NEW s, NEW c, NEW k
      PROVE  Owes(s, c, k)' <=> Owes(s, c, k) /\ ~(s = r.callee /\ c = r.caller /\ k = r.serial)
  <2>1. r = [caller |-> r.caller, serial |-> r.serial, callee |-> r.callee]
    BY DEF IInv, TypeOK, PendingReplies
  <2>2. [caller |-> c, serial |-> k, callee |-> s] = r <=> s = r.callee /\ c = r.caller /\ k = r.serial
    BY <2>1
  <2> QED  BY <2>2 DEF Owes
<1> QED  BY <1>1, <1>2, <1>3

\* The answer n to an expected reply r takes its place.
LEMMA AnsweredPlaces ==
    ASSUME IInv, KInv, BusStep, attached' = attached, NEW r \in pending, pending' = pending \ {r},
           NEW n \in Messages, n.type \in {"return", "error"}, n.serial = r.serial,
           fromBus' = Deliver(fromBus, r.caller, n), \A c \in Clients : toBus'[c] = toBus[c]
    PROVE  \A c \in Clients : c \in attached' => \A k \in Nat : Placed(c, k)'
<1> SUFFICES ASSUME NEW c \in Clients, c \in attached, NEW k \in Nat PROVE Placed(c, k)'
  OBVIOUS
<1>1. c \in Procs /\ r.caller \in Procs /\ r.caller \in Clients /\ Places(c, k) \in Nat
  BY PlacesType DEF IInv, TypeOK, PendingReplies, Procs
<1>2. /\ \A x \in Procs \ {r.caller} : fromBus'[x] = fromBus[x]
      /\ \A M : Count(fromBus'[r.caller], M) = Count(fromBus[r.caller], M) + One(Alive(r.caller) /\ n \in M)
  BY <1>1, WriteCounts
<1>3. Expected(c, k)' <=> Expected(c, k) /\ ~(c = r.caller /\ k = r.serial)
  BY PendingLess DEF KInv
<1>4. Count(toBus[c], CallMsgs(k))' = Count(toBus[c], CallMsgs(k))
  OBVIOUS
<1>5. Count(toBus[c], CallMsgs(k)) \in Nat /\ Count(fromBus[c], ReplyMsgs(k)) \in Nat
  BY <1>1, Numbers
<1>6. CASE c = r.caller /\ k = r.serial
  <2>1. One(Expected(c, k)) = 1 /\ One(Expected(c, k))' = 0
    BY <1>3, <1>6 DEF One, Expected
  <2>2. n \in ReplyMsgs(k)
    BY <1>6 DEF ReplyMsgs
  <2>3. /\ One(Alive(c) /\ n \in ReplyMsgs(k)) \in {0, 1}
        /\ Alive(c) => One(Alive(c) /\ n \in ReplyMsgs(k)) = 1
    BY <2>2 DEF One
  <2>4. Count(fromBus[c], ReplyMsgs(k))' = Count(fromBus[c], ReplyMsgs(k)) + One(Alive(c) /\ n \in ReplyMsgs(k))
    BY <1>2, <1>6
  <2>5. /\ Places(c, k)' \in Nat /\ Places(c, k)' <= Places(c, k)
        /\ Alive(c) => Places(c, k)' = Places(c, k)
    BY <1>4, <1>5, <2>1, <2>3, <2>4 DEF Places
  <2> QED  BY <2>5, PlacedKept
<1>7. CASE ~(c = r.caller /\ k = r.serial)
  <2>1. One(Expected(c, k))' = One(Expected(c, k))
    BY <1>3, <1>7 DEF One
  <2>2. Count(fromBus[c], ReplyMsgs(k))' = Count(fromBus[c], ReplyMsgs(k))
    <3>1. CASE c = r.caller
      <4>1. n \notin ReplyMsgs(k)
        BY <1>7, <3>1 DEF ReplyMsgs
      <4>2. One(Alive(c) /\ n \in ReplyMsgs(k)) = 0
        BY <4>1 DEF One
      <4> QED  BY <1>2, <1>5, <3>1, <4>2
    <3>2. CASE c # r.caller
      <4>1. fromBus'[c] = fromBus[c]
        BY <1>1, <1>2, <3>2
      <4> QED  BY <4>1
    <3> QED  BY <3>1, <3>2
  <2>3. Places(c, k)' = Places(c, k)
    BY <1>4, <2>1, <2>2 DEF Places
  <2> QED  BY <1>1, <2>3, PlacedKept
<1> QED  BY <1>6, <1>7

\* A reply the callee of which has gone expires; no server owed it.
LEMMA ExpireK ==
    ASSUME IInv, KInv, NEW r \in pending, Expire(r)
    PROVE  KInv'
<1> DEFINE n == Error(r.caller, r.serial)
<1>1. r.caller \in Clients /\ r.caller \in Procs /\ r.serial \in Nat /\ r.callee = Gone
  BY DEF IInv, TypeOK, PendingReplies, Procs, Expire
<1>2. n \in Messages /\ n.type = "error" /\ n.serial = r.serial
  BY <1>1 DEF Error, Errors, Messages
<1> HIDE DEF n
<1>3. /\ fromBus' = Deliver(fromBus, r.caller, n) /\ pending' = pending \ {r}
      /\ UNCHANGED <<lib, pc, calls, spc, serving, attached, toBus>>
  BY DEF Expire, libVars, callVars, serverVars, n
<1>4. BusStep
  BY <1>1, <1>2, <1>3, DeliverIsBusStep
<1>5. PendingInv' /\ \A s, c, k : Owes(s, c, k)' <=> /\ Owes(s, c, k)
                                                    /\ ~(s = r.callee /\ c = r.caller /\ k = r.serial)
  BY <1>3, PendingLess DEF KInv
<1>6. \A c \in Clients : c \in attached' => \A k \in Nat : Placed(c, k)'
  BY <1>2, <1>3, <1>4, AnsweredPlaces
<1>7. ASSUME NEW s \in Servers, NEW c \in Clients, NEW k \in Nat PROVE Accounts(s, c, k)'
  <2>1. s \in Procs \ {r.caller} /\ s # Gone
    BY <1>1, GoneAssumption, SetsAssumption DEF Procs
  <2>2. fromBus'[s] = fromBus[s] /\ toBus'[s] = toBus[s]
    BY <1>1, <1>2, <1>3, <2>1, WriteCounts
  <2>3. SameCounts(s)
    BY <2>2 DEF SameCounts
  <2>4. Holds(s, c, k)' = Holds(s, c, k)
    BY <1>3, <2>3, HoldsSame
  <2>5. Accounts(s, c, k) /\ (Owes(s, c, k)' <=> Owes(s, c, k))
    BY <1>1, <1>5, <2>1 DEF KInv, ServerK
  <2> QED  BY <1>3, <2>4, <2>5, AccountsSame
<1> QED  BY <1>4, <1>5, <1>6, <1>7, BusStepK

\* The daemon ends: nobody expects anything any more.
LEMMA BusEndsK ==
    ASSUME IInv, KInv, BusEnds
    PROVE  KInv'
<1>1. /\ attached' = {} /\ pending' = {} /\ toBus' = [p \in Procs |-> <<>>]
      /\ UNCHANGED <<lib, pc, calls, spc, serving, fromBus>>
  BY DEF BusEnds, libVars, callVars, serverVars
<1>2. BusStep /\ PendingInv'
  BY <1>1 DEF BusStep, PendingInv, KInv, ClientK, Procs
<1>3. ASSUME NEW s \in Servers, NEW c \in Clients, NEW k \in Nat PROVE Accounts(s, c, k)'
  <2>1. Accounts(s, c, k) /\ toBus'[s] = <<>>
    BY <1>1 DEF KInv, ServerK, Procs
  <2>2. /\ Count(fromBus[s], CallsOf(c, k)) \in Nat /\ Count(toBus[s], RepliesOf(c, k)) \in Nat
        /\ One(Executed(s, c, k)) \in {0, 1}
    BY HoldsType
  <2>3. Count(fromBus[s], CallsOf(c, k))' = Count(fromBus[s], CallsOf(c, k))
    BY <1>1
  <2>4. One(Executed(s, c, k))' = One(Executed(s, c, k))
    BY <1>1 DEF One, Executed
  <2>5. Count(toBus[s], RepliesOf(c, k))' = 0
    BY <2>1, CountEmpty
  <2>6. Holds(s, c, k) = 0 => Holds(s, c, k)' = 0
    BY <2>2, <2>3, <2>4, <2>5 DEF Holds
  <2> QED  BY <1>1, <2>1, <2>6 DEF Accounts
<1> QED  BY <1>1, <1>2, <1>3, BusStepK

\* No server gets a call or reads one.
NoCallMoves ==
    \A t \in Servers : \A c, k : Count(fromBus'[t], CallsOf(c, k)) = Count(fromBus[t], CallsOf(c, k))

\* Nobody's holdings change but those of s, of call k of client c.
OthersKept(s, c, k) ==
    \A t \in Servers, d \in Clients, j \in Nat :
        ~(t = s /\ d = c /\ j = k) => Holds(t, d, j)' = Holds(t, d, j)

\* A server's reply is read: the server holds that call no more.
LEMMA ReadReply ==
    ASSUME IInv, NEW s \in Servers, toBus[s] # <<>>, NEW m, m = Head(toBus[s]), m.type \in {"return", "error"},
           NEW c \in Clients, c = m.client, NEW k \in Nat, k = m.serial,
           toBus' = [toBus EXCEPT ![s] = Tail(toBus[s])], serving' = serving, NoCallMoves
    PROVE  /\ \A x \in Procs \ {s} : toBus'[x] = toBus[x]
           /\ Holds(s, c, k) >= 1
           /\ Holds(s, c, k)' = Holds(s, c, k) - 1
           /\ OthersKept(s, c, k)
<1>1. s \in Procs /\ toBus[s] \in Seq(Messages)
  BY Types
<1>2. /\ m \in Messages /\ \A x \in Procs \ {s} : toBus'[x] = toBus[x]
      /\ \A M : Count(toBus'[s], M) = Count(toBus[s], M) - One(m \in M)
  BY <1>1, ReadCounts
<1>3. ASSUME NEW d, NEW j PROVE m \in RepliesOf(d, j) <=> d = c /\ j = k
  BY <1>2 DEF RepliesOf, ReplyMsgs
<1>4. ASSUME NEW t \in Servers, NEW d, NEW j
      PROVE  /\ One(Executed(t, d, j))' = One(Executed(t, d, j)) /\ One(Executed(t, d, j)) \in {0, 1}
             /\ Count(fromBus[t], CallsOf(d, j)) \in Nat /\ Count(toBus[t], RepliesOf(d, j)) \in Nat
             /\ Count(fromBus[t], CallsOf(d, j))' = Count(fromBus[t], CallsOf(d, j))
  BY HoldsType DEF One, Executed, NoCallMoves
<1>5. Holds(s, c, k) >= 1 /\ Holds(s, c, k)' = Holds(s, c, k) - 1
  <2>1. One(m \in RepliesOf(c, k)) = 1
    BY <1>3 DEF One
  <2>2. Count(toBus[s], RepliesOf(c, k))' = Count(toBus[s], RepliesOf(c, k)) - 1
    BY <1>2, <2>1
  <2>3. /\ Count(Tail(toBus[s]), RepliesOf(c, k)) \in Nat
        /\ Count(Tail(toBus[s]), RepliesOf(c, k)) = Count(toBus[s], RepliesOf(c, k)) - 1
    <3>1. /\ Tail(toBus[s]) \in Seq(Messages)
          /\ Count(Tail(toBus[s]), RepliesOf(c, k))
               = Count(toBus[s], RepliesOf(c, k)) - One(Head(toBus[s]) \in RepliesOf(c, k))
      BY <1>1, CountTail
    <3> QED  BY <2>1, <3>1, CountType
  <2>4. Count(toBus[s], RepliesOf(c, k)) >= 1
    BY <1>4, <2>3
  <2> QED  BY <1>4, <2>2, <2>4 DEF Holds
<1>6. ASSUME NEW t \in Servers, NEW d \in Clients, NEW j \in Nat, ~(t = s /\ d = c /\ j = k)
      PROVE  Holds(t, d, j)' = Holds(t, d, j)
  <2>1. Count(toBus[t], RepliesOf(d, j))' = Count(toBus[t], RepliesOf(d, j))
    <3>1. CASE t = s
      <4>1. One(m \in RepliesOf(d, j)) = 0
        BY <1>3, <1>6, <3>1 DEF One
      <4> QED  BY <1>2, <1>4, <3>1, <4>1
    <3>2. CASE t # s
      <4>1. toBus'[t] = toBus[t]
        BY <1>2, <3>2 DEF Procs
      <4> QED  BY <4>1
    <3> QED  BY <3>1, <3>2
  <2> QED  BY <1>4, <2>1 DEF Holds
<1> QED  BY <1>2, <1>5, <1>6 DEF OthersKept

\* A reply to a client that is connected: it was owed, and it is the one that
\* was expected.
LEMMA AnsweredK ==
    ASSUME IInv, KInv, NEW s \in Servers, s \in attached, toBus[s] # <<>>, NEW m, m = Head(toBus[s]),
           m.type \in {"return", "error"}, NEW c \in Clients, c = m.client, NEW k \in Nat, k = m.serial, c \in attached,
           toBus' = [toBus EXCEPT ![s] = Tail(toBus[s])],
           pending' = pending \ {[caller |-> c, serial |-> k, callee |-> s]},
           fromBus' = Deliver(fromBus, c, m),
           UNCHANGED <<lib, pc, calls, spc, serving, attached>>
    PROVE  KInv'
<1> DEFINE r == [caller |-> c, serial |-> k, callee |-> s]
<1>1. m \in Messages /\ c \in Procs
  <2>1. s \in Procs /\ c \in Procs
    BY DEF Procs
  <2> QED  BY <2>1, ReadCounts
<1>2. \A t \in Servers : fromBus'[t] = fromBus[t]
  <2>1. \A t \in Servers : t \in Procs \ {c}
    BY <1>1, SetsAssumption DEF Procs
  <2> QED  BY <1>1, <2>1, WriteCounts
<1>3. NoCallMoves
  BY <1>2 DEF NoCallMoves
<1>4. /\ \A x \in Procs \ {s} : toBus'[x] = toBus[x]
      /\ Holds(s, c, k) >= 1 /\ Holds(s, c, k)' = Holds(s, c, k) - 1
      /\ OthersKept(s, c, k)
  BY <1>3, ReadReply
<1>5. Owes(s, c, k) /\ Holds(s, c, k) = 1
  <2>1. Holds(s, c, k) <= One(Owes(s, c, k)) /\ Holds(s, c, k) \in Nat
    BY <1>1, HoldsType DEF KInv, ServerK, Accounts
  <2> QED  BY <1>4, <2>1 DEF One
<1>6. r \in pending /\ pending' = pending \ {r} /\ r.caller = c /\ r.serial = k /\ r.callee = s
  BY <1>5 DEF Owes
<1>7. BusStep
  <2>1. \A x \in Procs \ attached : toBus'[x] = toBus[x]
    BY <1>4
  <2> QED  BY <1>1, <2>1, DeliverIsBusStep
<1>8. \A d \in Clients : toBus'[d] = toBus[d]
  BY <1>4, SetsAssumption DEF Procs
<1> HIDE DEF r
<1>9. /\ PendingInv' /\ \A t, d, j : Owes(t, d, j)' <=> Owes(t, d, j) /\ ~(t = s /\ d = c /\ j = k)
  BY <1>6, PendingLess DEF KInv
<1>10. \A d \in Clients : d \in attached' => \A j \in Nat : Placed(d, j)'
  BY <1>1, <1>6, <1>7, <1>8, AnsweredPlaces
<1>11. ASSUME NEW t \in Servers, NEW d \in Clients, NEW j \in Nat PROVE Accounts(t, d, j)'
  <2>1. Accounts(t, d, j)
    BY DEF KInv, ServerK
  <2>2. CASE t = s /\ d = c /\ j = k
    <3>1. Holds(t, d, j)' = 0 /\ One(Owes(t, d, j))' = 0
      BY <1>4, <1>5, <1>9, <2>2 DEF One
    <3> QED  BY <3>1 DEF Accounts
  <2>3. CASE ~(t = s /\ d = c /\ j = k)
    <3>1. Holds(t, d, j)' = Holds(t, d, j) /\ (Owes(t, d, j)' <=> Owes(t, d, j))
      BY <1>4, <1>9, <2>3 DEF OthersKept
    <3> QED  BY <2>1, <3>1, AccountsSame
  <2> QED  BY <2>2, <2>3
<1> QED  BY <1>7, <1>9, <1>10, <1>11, BusStepK

\* A reply to a client that has gone: nobody expects it, and the server gets
\* an error, which is no call.
LEMMA UnclaimedK ==
    ASSUME IInv, KInv, NEW s \in Servers, s \in attached, toBus[s] # <<>>, NEW m, m = Head(toBus[s]),
           m.type \in {"return", "error"}, NEW c \in Clients, c = m.client, NEW k \in Nat, k = m.serial, c \notin attached,
           toBus' = [toBus EXCEPT ![s] = Tail(toBus[s])],
           pending' = pending \ {[caller |-> c, serial |-> k, callee |-> s]},
           fromBus' = Deliver(fromBus, s, Error(c, k)),
           UNCHANGED <<lib, pc, calls, spc, serving, attached>>
    PROVE  KInv'
<1> DEFINE n == Error(c, k)
<1>1. s \in Procs
  BY DEF Procs
<1>2. n \in Messages /\ n.type = "error"
  BY <1>1 DEF Error, Errors, Messages
<1>3. /\ \A x \in Procs \ {s} : fromBus'[x] = fromBus[x]
      /\ \A M : Count(fromBus'[s], M) = Count(fromBus[s], M) + One(Alive(s) /\ n \in M)
  BY <1>1, <1>2, WriteCounts
<1>4. NoCallMoves
  <2> SUFFICES ASSUME NEW t \in Servers, NEW d, NEW j
               PROVE  Count(fromBus'[t], CallsOf(d, j)) = Count(fromBus[t], CallsOf(d, j))
    BY DEF NoCallMoves
  <2>1. CASE t = s
    <3>1. n \notin CallsOf(d, j)
      BY <1>2 DEF CallsOf, CallMsgs
    <3>2. One(Alive(s) /\ n \in CallsOf(d, j)) = 0
      BY <3>1 DEF One
    <3>3. Count(fromBus[s], CallsOf(d, j)) \in Nat
      BY HoldsType
    <3> QED  BY <1>3, <2>1, <3>2, <3>3
  <2>2. CASE t # s
    BY <1>3, <2>2 DEF Procs
  <2> QED  BY <2>1, <2>2
<1>5. /\ \A x \in Procs \ {s} : toBus'[x] = toBus[x]
      /\ Holds(s, c, k) >= 1
      /\ OthersKept(s, c, k)
  BY <1>4, ReadReply
<1>6. pending' = pending
  <2>1. [caller |-> c, serial |-> k, callee |-> s] \notin pending
    BY DEF KInv, PendingInv
  <2> QED  BY <2>1
<1>7. BusStep
  <2>1. \A x \in Procs \ attached : toBus'[x] = toBus[x]
    BY <1>5
  <2> QED  BY <1>1, <1>2, <2>1, DeliverIsBusStep
<1> HIDE DEF n
<1>8. PendingInv'
  BY <1>6 DEF KInv, PendingInv
<1>9. ASSUME NEW d \in Clients, d \in attached', NEW j \in Nat PROVE Placed(d, j)'
  <2>1. d \in Procs \ {s} /\ Places(d, j) \in Nat
    BY SetsAssumption, PlacesType DEF Procs
  <2>2. Places(d, j)' = Places(d, j)
    BY <1>3, <1>5, <1>6, <2>1, PlacesUnchanged
  <2> QED  BY <1>7, <1>9, <2>1, <2>2, PlacedKept
<1>10. ASSUME NEW t \in Servers, NEW d \in Clients, NEW j \in Nat PROVE Accounts(t, d, j)'
  <2>1. Accounts(t, d, j)
    BY DEF KInv, ServerK
  <2>2. CASE t = s /\ d = c /\ j = k
    <3>1. lib[d] # "none" /\ d \notin attached
      BY <1>5, <2>1, <2>2 DEF Accounts
    <3> QED  BY <3>1 DEF Accounts
  <2>3. CASE ~(t = s /\ d = c /\ j = k)
    <3>1. Holds(t, d, j)' = Holds(t, d, j) /\ (Owes(t, d, j)' <=> Owes(t, d, j))
      BY <1>5, <1>6, <2>3 DEF Owes, OthersKept
    <3> QED  BY <2>1, <3>1, AccountsSame
  <2> QED  BY <2>2, <2>3
<1> QED  BY <1>7, <1>8, <1>9, <1>10, BusStepK

\* The daemon tells of the name: no calls and no replies, to who lives.
TellsOfName ==
    \A x \in Procs : /\ QuietMove(fromBus[x], fromBus'[x])
                     /\ ~Alive(x) => fromBus'[x] = fromBus[x]

\* They are neither calls nor replies.
LEMMA NameMessages ==
    /\ Quiet(RequestName) /\ Quiet(NameReply) /\ Quiet(NameAcquired)
    /\ \A b \in BOOLEAN : Quiet(OwnerChanged(b))
  BY DEF Quiet, RequestName, NameReply, NameAcquired, OwnerChanged, Messages, Signals

\* The messages that RequestName and the loss of an owner cause.
LEMMA NameIsTold ==
    ASSUME IInv, NEW s \in Servers, NEW b \in BOOLEAN,
           \/ fromBus' = fromBus
           \/ fromBus' = Broadcast(fromBus, b)
           \/ fromBus' = Deliver(fromBus, s, NameReply)
           \/ fromBus' = Deliver(Broadcast(fromBus, b), s, NameAcquired)
           \/ fromBus' = Deliver(Deliver(Broadcast(fromBus, b), s, NameAcquired), s, NameReply)
    PROVE  TellsOfName
<1> DEFINE a == Broadcast(fromBus, b)
           d == Deliver(a, s, NameAcquired)
           e == Deliver(d, s, NameReply)
<1>1. fromBus \in Streams /\ s \in Procs /\ ~Watching(s)
  BY Types DEF Watching
<1>2. NameReply \in Messages /\ NameAcquired \in Messages
  BY NameMessages DEF Quiet
<1>3. a \in Streams /\ \A x \in Procs : a[x] = IF Watching(x) THEN Append(fromBus[x], OwnerChanged(b))
                                               ELSE fromBus[x]
  BY <1>1, BroadcastTo
<1> HIDE DEF a
<1>4. d \in Streams /\ \A x \in Procs : d[x] = IF x = s /\ Alive(s) THEN Append(a[x], NameAcquired) ELSE a[x]
  BY <1>1, <1>2, <1>3, DeliverTo
<1> HIDE DEF d
<1>5. \A x \in Procs : e[x] = IF x = s /\ Alive(s) THEN Append(d[x], NameReply) ELSE d[x]
  BY <1>1, <1>2, <1>4, DeliverTo
<1>6. \A x \in Procs :
        Deliver(fromBus, s, NameReply)[x] = IF x = s /\ Alive(s) THEN Append(fromBus[x], NameReply) ELSE fromBus[x]
  BY <1>1, <1>2, DeliverTo
<1> HIDE DEF e
<1> SUFFICES ASSUME NEW x \in Procs
             PROVE  QuietMove(fromBus[x], fromBus'[x]) /\ (~Alive(x) => fromBus'[x] = fromBus[x])
  BY DEF TellsOfName
<1>7. Watching(x) => Alive(x) /\ x # s
  BY <1>1 DEF Watching
<1>8. \/ fromBus'[x] = fromBus[x]
      \/ Alive(x) /\ fromBus'[x] = Append(fromBus[x], OwnerChanged(b))
      \/ Alive(x) /\ fromBus'[x] = Append(fromBus[x], NameReply)
      \/ Alive(x) /\ fromBus'[x] = Append(fromBus[x], NameAcquired)
      \/ Alive(x) /\ fromBus'[x] = Append(Append(fromBus[x], NameAcquired), NameReply)
  <2>1. CASE fromBus' = fromBus
    BY <2>1
  <2>2. CASE fromBus' = a
    BY <1>3, <1>7, <2>2
  <2>3. CASE fromBus' = Deliver(fromBus, s, NameReply)
    BY <1>6, <2>3
  <2>4. CASE fromBus' = d
    BY <1>3, <1>4, <1>7, <2>4
  <2>5. CASE fromBus' = e
    BY <1>3, <1>4, <1>5, <1>7, <2>5
  <2> QED  BY <2>1, <2>2, <2>3, <2>4, <2>5 DEF a, d, e
<1> QED  BY <1>8, NameMessages DEF QuietMove

\* A step in which only such messages move, and nobody drops what is owed but
\* a server that holds nothing.
LEMMA QuietBusK ==
    ASSUME IInv, KInv, TellsOfName, UNCHANGED <<lib, pc, calls, spc, serving>>,
           attached' \subseteq attached, PendingInv',
           \A x \in Procs : QuietMove(toBus[x], toBus'[x]),
           \A x \in Procs \ attached : toBus'[x] = toBus[x],
           \A c \in Clients, k \in Nat : c \in attached' => (Expected(c, k)' <=> Expected(c, k)),
           \A s \in Servers, c \in Clients, k \in Nat :
               c \in attached' => (Owes(s, c, k)' <=> Owes(s, c, k)) \/ (~Alive(s) /\ Holds(s, c, k) = 0)
    PROVE  KInv'
<1>1. \A x \in Procs : SameCounts(x)
  BY QuietProcess DEF TellsOfName
<1>2. BusStep
  <2>1. ASSUME NEW c \in Clients, lib[c] = "none" PROVE toBus'[c] = toBus[c] /\ fromBus'[c] = fromBus[c]
    <3>1. c \in Procs /\ ~Alive(c) /\ c \notin attached
      BY <2>1 DEF Procs, Alive, KInv, ClientK
    <3> QED  BY <3>1 DEF TellsOfName
  <2>2. ASSUME NEW s \in Servers, spc[s] \in {"off", "dead"} PROVE fromBus'[s] = fromBus[s]
    <3>1. s \in Procs /\ ~Alive(s)
      BY <2>2, SetsAssumption DEF Procs, Alive
    <3> QED  BY <3>1 DEF TellsOfName
  <2> QED  BY <2>1, <2>2 DEF BusStep
<1>3. ASSUME NEW c \in Clients, c \in attached', NEW k \in Nat PROVE Placed(c, k)'
  <2>1. c \in Procs /\ c \in attached /\ Places(c, k) \in Nat /\ (Expected(c, k)' <=> Expected(c, k))
    BY <1>3, PlacesType DEF Procs
  <2>2. Places(c, k)' = Places(c, k)
    BY <1>1, <2>1, PlacesSame
  <2> QED  BY <1>2, <2>1, <2>2, PlacedKept
<1>4. ASSUME NEW s \in Servers, NEW c \in Clients, NEW k \in Nat PROVE Accounts(s, c, k)'
  <2>1. s \in Procs /\ Accounts(s, c, k)
    BY DEF Procs, KInv, ServerK
  <2>2. Holds(s, c, k)' = Holds(s, c, k)
    BY <1>1, <2>1, HoldsSame
  <2>3. CASE c \in attached' => (Owes(s, c, k)' <=> Owes(s, c, k))
    BY <2>1, <2>2, <2>3, AccountsSame
  <2>4. CASE ~Alive(s) /\ Holds(s, c, k) = 0
    <3>1. ~Alive(s)'
      BY <2>4 DEF Alive
    <3>2. Holds(s, c, k)' <= One(Owes(s, c, k))'
      BY <2>2, <2>4 DEF One
    <3> QED  BY <2>2, <2>4, <3>1, <3>2 DEF Accounts
  <2> QED  BY <2>3, <2>4
<1> QED  BY <1>2, <1>3, <1>4, BusStepK

\* RequestName moves no call.
LEMMA DispatchRequestNameK ==
    ASSUME IInv, KInv, NEW s \in Servers, DispatchRequestName(s), s \in attached, toBus[s] # <<>>,
           Head(toBus[s]).type = "RequestName", toBus' = [toBus EXCEPT ![s] = Tail(toBus[s])],
           UNCHANGED <<lib, pc, calls, spc, serving, attached>>
    PROVE  KInv'
<1>1. TellsOfName /\ pending' = pending
  <2>1. TRUE \in BOOLEAN
    OBVIOUS
  <2>2. \/ fromBus' = Deliver(fromBus, s, NameReply)
        \/ fromBus' = Deliver(Deliver(Broadcast(fromBus, TRUE), s, NameAcquired), s, NameReply)
    BY DEF DispatchRequestName
  <2>3. pending' = pending
    BY DEF DispatchRequestName
  <2> QED  BY <2>1, <2>2, <2>3, NameIsTold
<1>2. toBus \in Streams /\ s \in Procs /\ toBus[s] \in Seq(Messages)
  BY Types
<1>3. toBus'[s] = Tail(toBus[s]) /\ \A x \in Procs \ {s} : toBus'[x] = toBus[x]
  BY <1>2 DEF Streams
<1>4. Quiet(Head(toBus[s]))
  BY <1>2, HeadTailProperties DEF Quiet
<1>5. \A x \in Procs : QuietMove(toBus[x], toBus'[x])
  BY <1>3, <1>4 DEF QuietMove
<1>6. PendingInv'
  BY <1>1 DEF KInv, PendingInv
<1>7. /\ \A c \in Clients, k \in Nat : Expected(c, k)' <=> Expected(c, k)
      /\ \A t \in Servers, c \in Clients, k \in Nat : Owes(t, c, k)' <=> Owes(t, c, k)
  BY <1>1 DEF Expected, Owes
<1>8. \A x \in Procs \ attached : toBus'[x] = toBus[x]
  BY <1>3
<1> QED  BY <1>1, <1>5, <1>6, <1>7, <1>8, QuietBusK

\* What is expected after p has gone.
LEMMA PendingDropped ==
    ASSUME IInv, PendingInv, NEW p, DropPendingReplies(p), attached' = attached \ {p}
    PROVE  /\ PendingInv'
           /\ \A c, k : c # p => (Expected(c, k)' <=> Expected(c, k))
           /\ \A s \in Servers : \A c, k : s # p /\ c # p => (Owes(s, c, k)' <=> Owes(s, c, k))
<1> DEFINE f(r) == IF r.callee = p THEN [r EXCEPT !.callee = Gone] ELSE r
<1>1. \A r \in pending : r = [caller |-> r.caller, serial |-> r.serial, callee |-> r.callee]
  BY DEF IInv, TypeOK, PendingReplies
<1>2. \A r \in pending : f(r).caller = r.caller /\ f(r).serial = r.serial
                         /\ f(r).callee = IF r.callee = p THEN Gone ELSE r.callee
  BY <1>1
<1>3. pending' = {f(r) : r \in {q \in pending : q.caller # p}}
  BY DEF DropPendingReplies
<1>4. \A r \in pending : r.callee # p => f(r) = r
  OBVIOUS
<1>5. \A r \in pending : f(r) = [caller |-> f(r).caller, serial |-> f(r).serial, callee |-> f(r).callee]
  BY <1>1
<1> HIDE DEF f
<1>6. \A x : x \in pending' <=> \E r \in pending : r.caller # p /\ x = f(r)
  BY <1>3
<1>7. PendingInv'
  <2>1. \A x, y \in pending' : x.caller = y.caller /\ x.serial = y.serial => x = y
    BY <1>2, <1>6 DEF PendingInv
  <2>2. \A x \in pending' : x.caller \in attached' /\ x.callee \in attached' \cup {Gone}
    BY <1>2, <1>6 DEF PendingInv
  <2> QED  BY <2>1, <2>2 DEF PendingInv
<1>8. ASSUME NEW c, NEW k, c # p PROVE Expected(c, k)' <=> Expected(c, k)
  <2>1. ASSUME NEW x \in pending', x.caller = c, x.serial = k PROVE Expected(c, k)
    BY <1>2, <1>6, <2>1 DEF Expected
  <2>2. ASSUME NEW r \in pending, r.caller = c, r.serial = k PROVE Expected(c, k)'
    <3>1. f(r) \in pending' /\ f(r).caller = c /\ f(r).serial = k
      BY <1>2, <1>6, <1>8, <2>2
    <3> QED  BY <3>1 DEF Expected
  <2> QED  BY <2>1, <2>2 DEF Expected
<1>9. ASSUME NEW s \in Servers, NEW c, NEW k, s # p, c # p PROVE Owes(s, c, k)' <=> Owes(s, c, k)
  <2> DEFINE o == [caller |-> c, serial |-> k, callee |-> s]
  <2>1. o.caller = c /\ o.callee = s /\ s # Gone
    BY GoneAssumption
  <2> HIDE DEF o
  <2>2. o \in pending => o \in pending'
    <3>1. ASSUME o \in pending PROVE o = f(o) /\ o.caller # p
      BY <1>4, <1>9, <2>1, <3>1
    <3> QED  BY <1>6, <3>1
  <2>3. ASSUME o \in pending' PROVE o \in pending
    <3>1. PICK r \in pending : o = f(r)
      BY <1>6, <2>3
    <3>2. r.callee # p
      BY <1>2, <2>1, <3>1
    <3> QED  BY <1>4, <3>1, <3>2
  <2> QED  BY <2>2, <2>3 DEF Owes, o
<1> QED  BY <1>7, <1>8, <1>9

\* A connection is dropped: a server that has ended holds nothing, once what it
\* had written is read.
LEMMA DisconnectedK ==
    ASSUME IInv, KInv, NEW p \in Procs, Disconnected(p)
    PROVE  KInv'
<1>1. /\ ~Alive(p) /\ toBus[p] = <<>> /\ attached' = attached \ {p} /\ DropPendingReplies(p)
      /\ UNCHANGED <<lib, pc, calls, spc, serving, toBus>>
  BY DEF Disconnected, libVars, callVars, serverVars
<1>2. TellsOfName
  <2>1. owners \in Seq(Servers) /\ Unlink(p) \in Seq(Servers) /\ TRUE \in BOOLEAN /\ FALSE \in BOOLEAN
    BY Types, UnlinkType
  <2>2. fromBus' = IF owners = <<>> \/ Head(owners) # p THEN fromBus
                   ELSE IF Unlink(p) = <<>> THEN Broadcast(fromBus, FALSE)
                   ELSE Deliver(Broadcast(fromBus, TRUE), Head(Unlink(p)), NameAcquired)
    BY DEF Disconnected, RemoveOwner
  <2>3. CASE owners = <<>> \/ Head(owners) # p
    BY <2>2, <2>3 DEF TellsOfName, QuietMove
  <2>4. CASE ~(owners = <<>> \/ Head(owners) # p) /\ Unlink(p) = <<>>
    <3>1. p \in Servers /\ fromBus' = Broadcast(fromBus, FALSE)
      BY <2>1, <2>2, <2>4
    <3> QED  BY <2>1, <3>1, NameIsTold
  <2>5. CASE ~(owners = <<>> \/ Head(owners) # p) /\ Unlink(p) # <<>>
    <3>1. /\ Head(Unlink(p)) \in Servers
          /\ fromBus' = Deliver(Broadcast(fromBus, TRUE), Head(Unlink(p)), NameAcquired)
      BY <2>1, <2>2, <2>5
    <3> QED  BY <2>1, <3>1, NameIsTold
  <2> QED  BY <2>3, <2>4, <2>5
<1>3. /\ PendingInv'
      /\ \A c, k : c # p => (Expected(c, k)' <=> Expected(c, k))
      /\ \A s \in Servers : \A c, k : s # p /\ c # p => (Owes(s, c, k)' <=> Owes(s, c, k))
  BY <1>1, PendingDropped DEF KInv
<1>4. ASSUME p \in Servers, NEW c, NEW k PROVE Holds(p, c, k) = 0
  <2>1. spc[p] \in {"off", "dead"}
    BY <1>1, <1>4, Types DEF Alive, ServerStates
  <2>2. fromBus[p] = <<>> /\ serving[p] = {}
    BY <1>4, <2>1 DEF KInv, ServerK
  <2>3. Count(fromBus[p], CallsOf(c, k)) = 0 /\ Count(toBus[p], RepliesOf(c, k)) = 0
    BY <1>1, <2>2, CountEmpty
  <2>4. One(Executed(p, c, k)) = 0
    BY <2>2 DEF One, Executed
  <2> QED  BY <2>3, <2>4 DEF Holds
<1>5. /\ \A x \in Procs : QuietMove(toBus[x], toBus'[x])
      /\ \A x \in Procs \ attached : toBus'[x] = toBus[x]
  BY <1>1 DEF QuietMove
<1>6. \A c \in Clients, k \in Nat : c \in attached' => (Expected(c, k)' <=> Expected(c, k))
  BY <1>1, <1>3
<1>7. \A s \in Servers, c \in Clients, k \in Nat :
        c \in attached' => (Owes(s, c, k)' <=> Owes(s, c, k)) \/ (~Alive(s) /\ Holds(s, c, k) = 0)
  BY <1>1, <1>3, <1>4
<1>8. attached' \subseteq attached
  BY <1>1
<1> QED  BY <1>1, <1>2, <1>3, <1>5, <1>6, <1>7, <1>8, QuietBusK

\* bus_dispatch of one message.
LEMMA DispatchK ==
    ASSUME IInv, JInv, KInv, NEW p \in Procs, Dispatch(p)
    PROVE  KInv'
<1> DEFINE m == Head(toBus[p])
<1>1. m \in Messages /\ Sent(View, p, m) /\ toBus[p] # <<>> /\ p \in attached
  BY ReadSent DEF Dispatch
<1>2. \/ m.type = "call" /\ DispatchCall(p, m)
      \/ m.type = "RequestName" /\ DispatchRequestName(p)
      \/ m.type \in {"return", "error"} /\ DispatchReply(p, m)
  BY DEF Dispatch
<1>3. /\ toBus' = [toBus EXCEPT ![p] = Tail(toBus[p])]
      /\ UNCHANGED <<lib, pc, calls, spc, serving, attached>>
  BY DEF Dispatch, libVars, callVars, serverVars
<1>4. CASE m.type = "call" /\ DispatchCall(p, m)
  <2>1. m \in Calls /\ m.client = p /\ p \in Clients
    BY <1>1, <1>4, MessageFields DEF Sent, Calls
  <2>2. CASE fromBus' = Deliver(fromBus, p, Error(p, m.serial)) /\ pending' = pending
    BY <1>1, <1>3, <1>4, <2>1, <2>2, RefusedCallK
  <2>3. CASE /\ owners # <<>> /\ fromBus' = Deliver(fromBus, PrimaryOwner, m)
             /\ pending' = pending \cup {[caller |-> p, serial |-> m.serial, callee |-> PrimaryOwner]}
    BY <1>1, <1>3, <1>4, <2>1, <2>3, ForwardedCallK
  <2> QED  BY <1>4, <2>2, <2>3 DEF DispatchCall
<1>5. CASE m.type = "RequestName" /\ DispatchRequestName(p)
  <2>1. p \in Servers
    BY <1>1, <1>5 DEF Sent
  <2> QED  BY <1>1, <1>3, <1>5, <2>1, DispatchRequestNameK
<1>6. CASE m.type \in {"return", "error"} /\ DispatchReply(p, m)
  <2>1. p \in Servers /\ m.client \in Clients /\ m.serial \in Nat
    BY <1>1, <1>6, MessageFields DEF Sent, Returns, Errors
  <2>2. PICK c \in Clients : c = m.client
    BY <2>1
  <2>3. PICK k \in Nat : k = m.serial
    BY <2>1
  <2>4. pending' = pending \ {[caller |-> c, serial |-> k, callee |-> p]}
    BY <1>6, <2>2, <2>3 DEF DispatchReply
  <2>5. CASE c \in attached
    <3>1. fromBus' = Deliver(fromBus, c, m)
      BY <1>6, <2>2, <2>5 DEF DispatchReply
    <3> QED  BY <1>1, <1>3, <1>6, <2>1, <2>2, <2>3, <2>4, <2>5, <3>1, AnsweredK
  <2>6. CASE c \notin attached
    <3>1. fromBus' = Deliver(fromBus, p, Error(c, k))
      BY <1>6, <2>2, <2>3, <2>6 DEF DispatchReply
    <3> QED  BY <1>1, <1>3, <1>6, <2>1, <2>2, <2>3, <2>4, <2>6, <3>1, UnclaimedK
  <2> QED  BY <2>5, <2>6
<1> QED  BY <1>2, <1>4, <1>5, <1>6
----------------------------------------------------------------------------
(* The theorems.                                                           *)

\* A step that touches no call.
LEMMA NoCallTouched ==
    ASSUME KInv, UNCHANGED <<lib, pc, calls, spc, serving, attached, pending, toBus, fromBus>>
    PROVE  KInv'
<1>1. PendingInv'
  BY DEF KInv, PendingInv
<1>2. ASSUME NEW s \in Servers PROVE ServerK(s)'
  <2>1. ServerK(s) /\ ServerStays(s) /\ SameCounts(s)
    BY DEF KInv, ServerStays, SameCounts
  <2>2. ASSUME NEW c \in Clients, NEW k \in Nat PROVE Accounts(s, c, k)'
    <3>1. Accounts(s, c, k) /\ (Owes(s, c, k)' <=> Owes(s, c, k))
      BY <2>1 DEF ServerK, Owes
    <3>2. Holds(s, c, k)' = Holds(s, c, k)
      BY <2>1, HoldsSame
    <3> QED  BY <3>1, <3>2, AccountsSame
  <2> QED  BY <2>1, <2>2, ServerStaysK
<1>3. ASSUME NEW c \in Clients PROVE ClientK(c)'
  BY DEF KInv, ClientK, Placed, Places, Expected
<1> QED  BY <1>1, <1>2, <1>3 DEF KInv

\* The library's functions.
LEMMA LibCallK ==
    ASSUME IInv, KInv, NEW c \in Clients, NEW m, NEW a \in Args, LibCall(c, m, a)
    PROVE  KInv'
<1>1. m \in Methods
  BY InputAssumption DEF LibCall
<1>2. calls' = [calls EXCEPT ![c] = calls[c] + 1] /\ pc[c] = "idle" /\ lib[c] \in {"ready", "nopointer"}
  BY DEF LibCall
<1>3. Refuse(c, m, a) \/ (lib[c] = "ready" /\ Send(c, m, a)) \/ UseOfUnassigned(c)
  BY DEF LibCall
<1>4. CASE Refuse(c, m, a)
  <2>1. lib' = lib /\ UNCHANGED <<pc, spc, serving, pending, attached, toBus, fromBus>>
    BY <1>4 DEF Refuse, libVars, serverVars, busVars, chanVars
  <2> QED  BY <1>2, <2>1, RefuseK
<1>5. CASE lib[c] = "ready" /\ Send(c, m, a)
  BY <1>1, <1>2, <1>5, SendK
<1>6. CASE UseOfUnassigned(c)
  <2>1. /\ lib' = [lib EXCEPT ![c] = "undefined"]
        /\ UNCHANGED <<pc, spc, serving, pending, attached, toBus, fromBus>>
    BY <1>6 DEF UseOfUnassigned, serverVars, busVars, chanVars
  <2> QED  BY <1>2, <2>1, RefuseK
<1> QED  BY <1>3, <1>4, <1>5, <1>6

\* isConnected and isInterfaceConnected on an interface that was never assigned.
LEMMA CheckInterfaceK ==
    ASSUME IInv, KInv, NEW c \in Clients, CheckInterface(c)
    PROVE  KInv'
<1>1. /\ pc[c] = "idle" /\ lib[c] = "nopointer" /\ calls' = calls /\ lib' = [lib EXCEPT ![c] = "undefined"]
      /\ UNCHANGED <<pc, spc, serving, pending, attached, toBus, fromBus>>
  BY DEF CheckInterface, UseOfUnassigned, serverVars, busVars, chanVars
<1> QED  BY <1>1, RefuseK

\* The invariant is inductive, given what the other two know.
LEMMA InductiveK == IInv /\ JInv /\ KInv /\ [Next]_vars => KInv'
<1> SUFFICES ASSUME IInv, JInv, KInv, [Next]_vars PROVE KInv'
  OBVIOUS
<1>1. CASE UNCHANGED vars \/ SapToggle \/ \E a \in Args : SapChange(a)
  BY <1>1, NoCallTouched DEF vars, SapToggle, SapChange, libVars, callVars, serverVars, busVars, chanVars
<1>2. ASSUME NEW c \in Clients, Library(c) PROVE KInv'
  <2>1. CASE Construct(c) \/ ConstructNoBus(c) \/ ConstructDefault(c)
    BY <2>1, ConstructK
  <2>2. ASSUME NEW m, NEW a \in Args, LibCall(c, m, a) PROVE KInv'
    BY <2>2, LibCallK
  <2>3. CASE CheckInterface(c)
    BY <2>3, CheckInterfaceK
  <2> QED  BY <1>2, <2>1, <2>2, <2>3, InputAssumption
           DEF Library, ping, getMKT, getOrderTypeNr, getOrderQty, getOrderFailQty, getOrderType,
               getValueFromTable
<1>3. ASSUME NEW c \in Clients, Timeout(c) \/ LostBus(c) \/ Receive(c) \/ Exit(c) PROVE KInv'
  BY <1>3, GiveUpK, ReceiveK, ExitK
<1>4. ASSUME NEW s \in Servers, ServerStep(s) PROVE KInv'
  BY <1>4, ServerStartK, ServerAwaitNameK, ServerIterateK, ServerReplyK, ServerCrashK DEF ServerStep
<1>5. CASE Bus
  BY <1>5, DispatchK, DisconnectedK, ExpireK, BusEndsK DEF Bus
<1> QED  BY <1>1, <1>2, <1>3, <1>4, <1>5 DEF Next, NextPrompt

\* The three invariants hold in every reachable state of the bridge.
THEOREM CallsInvariance == Spec => [](IInv /\ JInv /\ KInv)
  BY TakeoverInvariance, InitKInv, InductiveK, PTL DEF Spec

\* However many programs call and whichever server, caller or owner of the name
\* ends meanwhile: while a caller blocks and the daemon runs, its call is in
\* exactly one place, as call, pending reply or answer, and no call is ever in
\* two (NoLostCall; bus_connections_expect_reply, bus_connections_check_reply).
THEOREM NoCallIsLost == Spec => []NoLostCall
<1>1. IInv /\ JInv /\ KInv => NoLostCall
  BY KInvImplies
<1> QED  BY <1>1, CallsInvariance, PTL

\* Every reply the daemon expects of a server is owed by one that is connected
\* and, while it lives, holds the call or its reply exactly once; so an entry of
\* the list of pending replies is always taken off again by a reply or by the end
\* of one of the two (PendingIsOwed; bus_connection_drop_pending_replies).
THEOREM ExpectedRepliesAreOwed == Spec => []PendingIsOwed
<1>1. IInv /\ JInv /\ KInv => PendingIsOwed
  BY KInvImplies
<1> QED  BY <1>1, CallsInvariance, PTL
==============================================================================
