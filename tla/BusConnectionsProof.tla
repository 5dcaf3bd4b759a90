------------------------ MODULE BusConnectionsProof ------------------------
(***************************************************************************)
(* Proofs about BusConnections for any connections, limits and failures:   *)
(* the limits hold, the counters they are checked with count right, and    *)
(* the daemon accepts exactly while there is room.                         *)
(*                                                                         *)
(* The limit of a user is kept through byUser, which the code counts up    *)
(* and down beside the list: it bounds the number of the user's            *)
(* connections in the list (Counts), which needs each connection to be in  *)
(* one list and once only (Lists).                                         *)
(***************************************************************************)
EXTENDS BusConnections, SequenceTheorems, FiniteSetTheorems, TLAPS

----------------------------------------------------------------------------
(* Lists of connections.                                                   *)

\* Taking out the i-th element moves those behind it one place forward.
LEMMA RemoveAtProperties ==
    ASSUME NEW S, NEW q \in Seq(S), NEW i \in 1 .. Len(q)
    PROVE  /\ RemoveAt(q, i) \in Seq(S)
           /\ Len(RemoveAt(q, i)) = Len(q) - 1
           /\ \A j \in 1 .. Len(q) - 1 : RemoveAt(q, i)[j] = IF j < i THEN q[j] ELSE q[j + 1]
<1> DEFINE a == SubSeq(q, 1, i - 1)
           b == SubSeq(q, i + 1, Len(q))
           r == a \o b
<1>0. Len(q) \in Nat /\ \A j \in 1 .. Len(q) : q[j] \in S
  BY LenProperties
<1>1. a \in Seq(S) /\ Len(a) = i - 1 /\ \A j \in 1 .. i - 1 : a[j] = q[j]
  BY <1>0, SubSeqProperties
<1>2. b \in Seq(S) /\ Len(b) = Len(q) - i /\ \A j \in 1 .. Len(q) - i : b[j] = q[i + j]
  BY <1>0, SubSeqProperties
<1>3. RemoveAt(q, i) = r
  BY DEF RemoveAt
<1> HIDE DEF a, b
<1>4. /\ r \in Seq(S)
      /\ Len(r) = Len(a) + Len(b)
      /\ \A j \in 1 .. Len(a) + Len(b) : r[j] = IF j <= Len(a) THEN a[j] ELSE b[j - Len(a)]
  BY <1>1, <1>2, ConcatProperties
<1> HIDE DEF r
<1>5. ASSUME NEW j \in 1 .. Len(q) - 1 PROVE r[j] = IF j < i THEN q[j] ELSE q[j + 1]
  <2>0. j \in 1 .. Len(a) + Len(b)
    BY <1>0, <1>1, <1>2
  <2>1. CASE j < i
    <3>1. j <= Len(a) /\ j \in 1 .. i - 1
      BY <1>0, <1>1, <2>1
    <3> QED  BY <1>1, <1>4, <2>0, <2>1, <3>1
  <2>2. CASE ~(j < i)
    <3>1. r[j] = b[j - (i - 1)]
      <4>1. ~(j <= Len(a)) /\ Len(a) = i - 1
        BY <1>0, <1>1, <2>2
      <4> QED  BY <1>4, <2>0, <4>1
    <3>2. j - (i - 1) \in 1 .. Len(q) - i /\ i + (j - (i - 1)) = j + 1
      BY <1>0, <2>2
    <3> QED  BY <1>2, <2>2, <3>1, <3>2
  <2> QED  BY <2>1, <2>2
<1> QED  BY <1>0, <1>1, <1>2, <1>3, <1>4, <1>5

NoRepeats(q) == \A i, j \in DOMAIN q : q[i] = q[j] => i = j

List(q) == q \in Seq(Conns) /\ NoRepeats(q)

\* Unlinking c takes c out of a list, and nothing else.
LEMMA Unlinking ==
    ASSUME NEW q, List(q), NEW c \in Range(q)
    PROVE  /\ List(Without(q, c)) /\ Len(Without(q, c)) = Len(q) - 1
           /\ Range(Without(q, c)) = Range(q) \ {c}
<1> DEFINE i == CHOOSE i \in DOMAIN q : q[i] = c
           r == RemoveAt(q, i)
<1>0. q \in Seq(Conns) /\ Len(q) \in Nat /\ DOMAIN q = 1 .. Len(q)
  BY DEF List
<1>1. i \in DOMAIN q /\ q[i] = c
  BY DEF Range
<1> HIDE DEF i
<1>2. /\ r \in Seq(Conns) /\ Len(r) = Len(q) - 1
      /\ \A j \in 1 .. Len(q) - 1 : r[j] = IF j < i THEN q[j] ELSE q[j + 1]
  BY <1>0, <1>1, RemoveAtProperties
<1>3. Without(q, c) = r
  BY DEF Without, i
<1> HIDE DEF r
<1>4. DOMAIN r = 1 .. Len(q) - 1
  BY <1>0, <1>2
<1>5. NoRepeats(r)
  <2> SUFFICES ASSUME NEW j \in DOMAIN r, NEW k \in DOMAIN r, r[j] = r[k] PROVE j = k
    BY DEF NoRepeats
  <2> DEFINE o(n) == IF n < i THEN n ELSE n + 1
  <2>1. o(j) \in DOMAIN q /\ o(k) \in DOMAIN q
    BY <1>0, <1>1, <1>4
  <2>2. r[j] = q[o(j)] /\ r[k] = q[o(k)]
    BY <1>2, <1>4
  <2>3. o(j) = o(k)
    BY <2>1, <2>2 DEF List, NoRepeats
  <2> QED  BY <1>0, <1>1, <1>4, <2>3
<1>6. ASSUME NEW x \in Range(r) PROVE x \in Range(q) \ {c}
  <2>1. PICK j \in DOMAIN r : r[j] = x
    BY DEF Range
  <2>2. PICK k \in DOMAIN q : k # i /\ q[k] = x
    <3>1. CASE j < i
      BY <1>0, <1>1, <1>2, <1>4, <2>1, <3>1
    <3>2. CASE ~(j < i)
      <4>1. j + 1 \in DOMAIN q /\ j + 1 # i
        BY <1>0, <1>1, <1>4, <3>2
      <4> QED  BY <1>2, <1>4, <2>1, <3>2, <4>1
    <3> QED  BY <3>1, <3>2
  <2> QED  BY <1>1, <2>2 DEF List, NoRepeats, Range
<1>7. ASSUME NEW x \in Range(q) \ {c} PROVE x \in Range(r)
  <2>1. PICK k \in DOMAIN q : q[k] = x /\ k # i
    BY <1>1 DEF Range
  <2>2. CASE k < i
    <3>1. k \in DOMAIN r /\ r[k] = x
      BY <1>0, <1>1, <1>2, <1>4, <2>1, <2>2
    <3> QED  BY <3>1 DEF Range
  <2>3. CASE ~(k < i)
    <3>1. k - 1 \in DOMAIN r /\ ~(k - 1 < i)  /\ k - 1 + 1 = k
      BY <1>0, <1>1, <1>4, <2>1, <2>3
    <3>2. r[k - 1] = x
      BY <1>2, <1>4, <2>1, <3>1
    <3> QED  BY <3>1, <3>2 DEF Range
  <2> QED  BY <2>2, <2>3
<1> QED  BY <1>2, <1>3, <1>5, <1>6, <1>7 DEF List

\* Appending a connection that is not in a list.
LEMMA Appending ==
    ASSUME NEW q, List(q), NEW c \in Conns, c \notin Range(q)
    PROVE  /\ List(Append(q, c)) /\ Len(Append(q, c)) = Len(q) + 1
           /\ Range(Append(q, c)) = Range(q) \cup {c}
<1> DEFINE r == Append(q, c)
<1>1. /\ r \in Seq(Conns) /\ Len(r) = Len(q) + 1 /\ Len(q) \in Nat
      /\ DOMAIN q = 1 .. Len(q) /\ DOMAIN r = 1 .. Len(q) + 1
      /\ \A i \in 1 .. Len(q) : r[i] = q[i]
      /\ r[Len(q) + 1] = c
  BY AppendProperties DEF List
<1> HIDE DEF r
<1>2. NoRepeats(r)
  <2> SUFFICES ASSUME NEW j \in DOMAIN r, NEW k \in DOMAIN r, r[j] = r[k] PROVE j = k
    BY DEF NoRepeats
  <2>1. \A n \in DOMAIN q : q[n] # c
    BY DEF Range
  <2> QED  BY <1>1, <2>1 DEF List, NoRepeats
<1>3. Range(r) = Range(q) \cup {c}
  <2>1. ASSUME NEW x \in Range(r) PROVE x \in Range(q) \cup {c}
    <3>1. PICK j \in DOMAIN r : r[j] = x
      BY DEF Range
    <3> QED  BY <1>1, <3>1 DEF Range
  <2>2. ASSUME NEW x \in Range(q) PROVE x \in Range(r)
    <3>1. PICK j \in DOMAIN q : q[j] = x
      BY DEF Range
    <3>2. j \in DOMAIN r /\ r[j] = x
      BY <1>1, <3>1
    <3> QED  BY <3>2 DEF Range
  <2>3. c \in Range(r)
    <3>1. Len(q) + 1 \in DOMAIN r
      BY <1>1
    <3> QED  BY <1>1, <3>1 DEF Range
  <2> QED  BY <2>1, <2>2, <2>3
<1> QED  BY <1>1, <1>2, <1>3 DEF List, r

----------------------------------------------------------------------------
(* The inductive invariant.                                                *)

\* Each connection is in one list at most, and there once.
Lists ==
    /\ List(incomplete) /\ List(completed)
    /\ Range(incomplete) \cup Range(completed) \subseteq seen
    /\ nIncomplete = Len(incomplete)
    /\ nCompleted = Len(completed) /\ nCompleted <= MaxCompleted

\* The completed connections of a user.
Own(u) == {c \in Range(completed) : Uid(c) = u}

\* byUser counts them; a description that cannot be stored leaves it too high, never too low.
Counts ==
    \A u \in Users :
        /\ IsFiniteSet(Own(u)) /\ Cardinality(Own(u)) <= byUser[u] /\ byUser[u] <= MaxPerUser
        /\ "loginfo" \notin FailAt => byUser[u] = Cardinality(Own(u))

Watches == Limits = {limit} /\ limit > 0 => AcceptsWhileRoom

IInv == TypeOK /\ Lists /\ Counts /\ Watches

LEMMA InitHolds == Init => IInv
<1> SUFFICES ASSUME Init PROVE IInv
  OBVIOUS
<1> USE LimitsAssumption
<1>0. Range(<<>>) = {}
  BY DEF Range
<1>1. TypeOK
  BY <1>0 DEF Init, TypeOK
<1>2. Lists
  BY <1>0 DEF Init, Lists, List, NoRepeats
<1>3. Counts
  <2>1. \A u \in Users : Own(u) = {}
    BY <1>0 DEF Init, Own
  <2>2. IsFiniteSet({}) /\ Cardinality({}) = 0
    BY FS_EmptySet
  <2>3. \A u \in Users : byUser[u] = 0
    BY DEF Init
  <2> QED  BY <2>1, <2>2, <2>3 DEF Counts
<1>4. Watches
  BY DEF Init, Watches, AcceptsWhileRoom
<1> QED  BY <1>1, <1>2, <1>3, <1>4 DEF IInv

----------------------------------------------------------------------------
(* Steps that leave the lists.                                             *)

LEMMA ListsStay ==
    ASSUME IInv, UNCHANGED <<incomplete, completed, nIncomplete, nCompleted, byUser, accepting, named>>,
           seen \subseteq seen', limit' \in Limits, Limits = {limit} => limit' = limit,
           timer' \in BOOLEAN,
           late' \subseteq Range(incomplete) \cup Range(completed)
    PROVE  IInv'
<1>1. TypeOK'
  BY DEF IInv, TypeOK
<1>2. Lists'
  BY DEF IInv, Lists
<1>3. Counts'
  BY DEF IInv, Counts, Own
<1>4. Watches'
  BY DEF IInv, Watches, AcceptsWhileRoom, TypeOK
<1> QED  BY <1>1, <1>2, <1>3, <1>4 DEF IInv

LEMMA OtherSteps ==
    ASSUME IInv, NEW c,
           Elapse \/ ExpireTimeout \/ Reload \/ SetupFails(c) \/ Close(c) \/ FdTimeout(c)
           \/ \E n \in 0 .. FdCount : PendingFds(c, n)
    PROVE  IInv'
<1>1. limit \in Limits /\ timer \in BOOLEAN /\ late \subseteq Range(incomplete) \cup Range(completed)
  BY DEF IInv, TypeOK
<1>2. CASE Elapse
  <2>1. late' \subseteq Range(incomplete) \cup Range(completed)
    BY <1>1, <1>2 DEF Elapse, Range
  <2> QED  BY <1>1, <1>2, <2>1, ListsStay DEF Elapse
<1>3. CASE ExpireTimeout
  <2>1. timer' \in BOOLEAN
    BY <1>3 DEF ExpireTimeout, ExpireIncomplete, NextTimer
  <2> QED  BY <1>1, <1>3, <2>1, ListsStay DEF ExpireTimeout
<1>4. CASE Reload
  BY <1>1, <1>4, ListsStay DEF Reload
<1>5. CASE SetupFails(c)
  BY <1>1, <1>5, ListsStay DEF SetupFails
<1>6. CASE Close(c) \/ FdTimeout(c)
  BY <1>1, <1>6, ListsStay DEF Close, FdTimeout
<1>7. CASE \E n \in 0 .. FdCount : PendingFds(c, n)
  BY <1>1, <1>7, ListsStay DEF PendingFds
<1> QED  BY <1>2, <1>3, <1>4, <1>5, <1>6, <1>7

----------------------------------------------------------------------------
(* Steps that change them.                                                 *)

LEMMA AcceptKeeps ==
    ASSUME IInv, NEW c \in Conns, Accept(c)
    PROVE  IInv'
<1>0. c \notin Range(incomplete)
  BY DEF IInv, Lists, Accept
<1>1. /\ List(incomplete') /\ Len(incomplete') = Len(incomplete) + 1
      /\ Range(incomplete') = Range(incomplete) \cup {c}
  BY <1>0, Appending DEF IInv, Lists, Accept
<1>2. c \notin Range(completed) /\ completed' = completed
  BY DEF IInv, Lists, Accept
<1>3. TypeOK'
  BY <1>1, <1>2 DEF IInv, TypeOK, Accept, NextTimer, CheckAllWatches
<1>4. Lists'
  BY <1>1, <1>2 DEF IInv, Lists, Accept
<1>5. Counts'
  BY <1>2 DEF IInv, Counts, Own, Accept
<1>6. Watches'
  <2> SUFFICES ASSUME Limits = {limit}, limit > 0
               PROVE  AcceptsWhileRoom'
    BY DEF Watches, Accept
  <2>1. limit \in Nat /\ Len(incomplete) \in Nat
    BY LimitsAssumption DEF IInv, TypeOK, Lists, List
  <2>2. Len(incomplete) < limit
    BY DEF IInv, Watches, AcceptsWhileRoom, Accept
  <2>3. accepting' = (Len(incomplete') < limit) /\ limit' = limit
    BY <1>4 DEF Accept, CheckAllWatches, Lists
  <2>4. Len(incomplete') <= limit
    BY <1>1, <2>1, <2>2
  <2> QED  BY <2>3, <2>4 DEF AcceptsWhileRoom
<1> QED  BY <1>3, <1>4, <1>5, <1>6 DEF IInv

LEMMA HelloKeeps ==
    ASSUME IInv, NEW c \in Conns, Hello(c)
    PROVE  IInv'
<1>0. c \in Range(incomplete) /\ c \notin Range(completed)
  BY DEF IInv, TypeOK, Hello, MayHello
<1>1. /\ List(incomplete') /\ Len(incomplete') = Len(incomplete) - 1
      /\ Range(incomplete') = Range(incomplete) \ {c}
  BY <1>0, Unlinking DEF IInv, Lists, Hello
<1>2. /\ List(completed') /\ Len(completed') = Len(completed) + 1
      /\ Range(completed') = Range(completed) \cup {c}
  BY <1>0, Appending DEF IInv, Lists, Hello
<1>3. Len(incomplete) \in Nat /\ Len(incomplete') \in Nat /\ Len(completed) \in Nat
  BY <1>1 DEF IInv, Lists, List
<1>4. TypeOK'
  <2>1. nIncomplete' \in Nat /\ nCompleted' \in Nat /\ byUser' \in [Users -> Nat]
    BY <1>1, <1>3 DEF IInv, TypeOK, Lists, Hello, Uid, Users
  <2>2. named' \subseteq Range(completed') /\ late' \subseteq Range(incomplete') \cup Range(completed')
    BY <1>1, <1>2 DEF IInv, TypeOK, Hello
  <2>3. Range(incomplete') \cap Range(completed') = {}
    BY <1>1, <1>2 DEF IInv, TypeOK
  <2> QED  BY <2>1, <2>2, <2>3 DEF IInv, TypeOK, Hello, CheckAllWatches, ExpireIncomplete, NextTimer
<1>5. Lists'
  BY <1>0, <1>1, <1>2, <1>3, LimitsAssumption DEF IInv, Lists, Hello, WithinLimits
<1>6. Counts'
  <2> SUFFICES ASSUME NEW u \in Users
               PROVE  /\ IsFiniteSet(Own(u)') /\ Cardinality(Own(u)') <= byUser'[u]
                      /\ byUser'[u] <= MaxPerUser
                      /\ "loginfo" \notin FailAt => byUser'[u] = Cardinality(Own(u)')
    BY DEF Counts
  <2>0. byUser[u] \in Nat /\ byUser[Uid(c)] < MaxPerUser /\ MaxPerUser \in Nat
    BY LimitsAssumption DEF IInv, TypeOK, Hello, WithinLimits
  <2>1. /\ IsFiniteSet(Own(u)) /\ Cardinality(Own(u)) <= byUser[u] /\ byUser[u] <= MaxPerUser
        /\ "loginfo" \notin FailAt => byUser[u] = Cardinality(Own(u))
        /\ Cardinality(Own(u)) \in Nat
    BY FS_CardinalityType DEF IInv, Counts
  <2>2. CASE u = Uid(c)
    <3>1. Own(u)' = Own(u) \cup {c} /\ c \notin Own(u)
      BY <1>0, <1>2, <2>2 DEF Own
    <3>2. IsFiniteSet(Own(u)') /\ Cardinality(Own(u)') = Cardinality(Own(u)) + 1
      BY <2>1, <3>1, FS_AddElement
    <3>3. byUser'[u] = byUser[u] + 1
      BY <2>2 DEF IInv, TypeOK, Hello
    <3> HIDE DEF Own
    <3> QED  BY <2>0, <2>1, <2>2, <3>2, <3>3
  <2>3. CASE u # Uid(c)
    <3>1. Own(u)' = Own(u)
      BY <1>2, <2>3 DEF Own
    <3>2. byUser'[u] = byUser[u]
      BY <2>3 DEF IInv, TypeOK, Hello
    <3> QED  BY <2>1, <3>1, <3>2
  <2> QED  BY <2>2, <2>3
<1>7. Watches'
  <2> SUFFICES ASSUME Limits = {limit}, limit > 0
               PROVE  AcceptsWhileRoom'
    BY DEF Watches, Hello
  <2>1. limit \in Nat
    BY LimitsAssumption DEF IInv, TypeOK
  <2>2. accepting' = (Len(incomplete') < limit) /\ limit' = limit
    BY <1>5 DEF Hello, CheckAllWatches, Lists
  <2>3. Len(incomplete') <= limit
    BY <1>1, <1>3, <2>1 DEF IInv, Watches, AcceptsWhileRoom
  <2> QED  BY <2>2, <2>3 DEF AcceptsWhileRoom
<1> QED  BY <1>4, <1>5, <1>6, <1>7 DEF IInv

LEMMA HelloFailsKeeps ==
    ASSUME IInv, NEW c \in Conns, HelloFails(c)
    PROVE  IInv'
<1>1. CASE UNCHANGED byUser
  <2>1. timer \in BOOLEAN /\ late \subseteq Range(incomplete) \cup Range(completed) /\ limit \in Limits
    BY DEF IInv, TypeOK
  <2> QED  BY <1>1, <2>1, ListsStay DEF HelloFails
<1>2. CASE /\ "loginfo" \in FailAt /\ WithinLimits(c)
           /\ byUser' = [byUser EXCEPT ![Uid(c)] = @ + 1]
  <2>1. TypeOK'
    BY <1>2 DEF IInv, TypeOK, HelloFails, Uid, Users
  <2>2. Lists'
    BY DEF IInv, Lists, HelloFails
  <2>3. Counts'
    <3> SUFFICES ASSUME NEW u \in Users
                 PROVE  /\ IsFiniteSet(Own(u)') /\ Cardinality(Own(u)') <= byUser'[u]
                        /\ byUser'[u] <= MaxPerUser
      BY <1>2 DEF Counts
    <3>1. Own(u)' = Own(u)
      BY DEF Own, HelloFails
    <3>2. /\ IsFiniteSet(Own(u)) /\ Cardinality(Own(u)) <= byUser[u] /\ byUser[u] <= MaxPerUser
          /\ Cardinality(Own(u)) \in Nat
      BY FS_CardinalityType DEF IInv, Counts
    <3>3. byUser[u] \in Nat /\ byUser[Uid(c)] < MaxPerUser /\ MaxPerUser \in Nat
      BY <1>2, LimitsAssumption DEF IInv, TypeOK, WithinLimits
    <3>4. byUser'[u] = IF u = Uid(c) THEN byUser[u] + 1 ELSE byUser[u]
      BY <1>2 DEF IInv, TypeOK
    <3> HIDE DEF Own
    <3> QED  BY <3>1, <3>2, <3>3, <3>4
  <2>4. Watches'
    BY DEF IInv, Watches, AcceptsWhileRoom, HelloFails
  <2> QED  BY <2>1, <2>2, <2>3, <2>4 DEF IInv
<1> QED  BY <1>1, <1>2 DEF HelloFails

LEMMA DisconnectedKeeps ==
    ASSUME IInv, NEW c \in Conns, Disconnected(c)
    PROVE  IInv'
<1>0. Len(incomplete) \in Nat /\ Len(completed) \in Nat
  BY DEF IInv, Lists, List
<1>1. CASE GoneIncomplete(c)
  <2>1. /\ List(incomplete') /\ Len(incomplete') = Len(incomplete) - 1
        /\ Range(incomplete') = Range(incomplete) \ {c}
    BY <1>1, Unlinking DEF IInv, Lists, GoneIncomplete
  <2>2. completed' = completed /\ c \notin Range(completed)
    BY <1>1 DEF IInv, TypeOK, GoneIncomplete
  <2>3. Len(incomplete') \in Nat
    BY <2>1 DEF List
  <2>4. TypeOK'
    BY <1>0, <1>1, <2>1, <2>2, <2>3 DEF IInv, TypeOK, Lists, Disconnected, GoneIncomplete, CheckAllWatches
  <2>5. Lists'
    BY <1>1, <2>1, <2>2 DEF IInv, Lists, Disconnected, GoneIncomplete
  <2>6. Counts'
    BY <1>1, <2>2 DEF IInv, Counts, Own, GoneIncomplete
  <2>7. Watches'
    <3> SUFFICES ASSUME Limits = {limit}, limit > 0
                 PROVE  AcceptsWhileRoom'
      BY DEF Watches, Disconnected
    <3>1. limit \in Nat /\ limit' = limit
      BY LimitsAssumption DEF IInv, TypeOK, Disconnected
    <3>2. accepting' = (Len(incomplete') < limit)
      BY <1>1, <2>5, <3>1 DEF GoneIncomplete, CheckAllWatches, Lists
    <3>3. Len(incomplete') <= limit
      BY <1>0, <2>1, <2>3, <3>1 DEF IInv, Watches, AcceptsWhileRoom
    <3> QED  BY <3>1, <3>2, <3>3 DEF AcceptsWhileRoom
  <2> QED  BY <2>4, <2>5, <2>6, <2>7 DEF IInv
<1>2. CASE GoneCompleted(c)
  <2>1. /\ List(completed') /\ Len(completed') = Len(completed) - 1
        /\ Range(completed') = Range(completed) \ {c}
    BY <1>2, Unlinking DEF IInv, Lists, GoneCompleted
  <2>2. incomplete' = incomplete /\ c \notin Range(incomplete)
    BY <1>2 DEF IInv, TypeOK, GoneCompleted
  <2>3. Len(completed') \in Nat /\ Uid(c) \in Users
    BY <2>1 DEF List, Uid, Users
  <2>4. ASSUME NEW u \in Users
        PROVE  /\ IsFiniteSet(Own(u)') /\ Cardinality(Own(u)') <= byUser'[u]
               /\ byUser'[u] <= MaxPerUser /\ byUser'[u] \in Nat
               /\ "loginfo" \notin FailAt => byUser'[u] = Cardinality(Own(u)')
    <3>0. byUser[u] \in Nat /\ MaxPerUser \in Nat
      BY LimitsAssumption DEF IInv, TypeOK
    <3>1. /\ IsFiniteSet(Own(u)) /\ Cardinality(Own(u)) <= byUser[u] /\ byUser[u] <= MaxPerUser
          /\ "loginfo" \notin FailAt => byUser[u] = Cardinality(Own(u))
          /\ Cardinality(Own(u)) \in Nat
      BY FS_CardinalityType DEF IInv, Counts
    <3>2. CASE u = Uid(c)
      <4>1. Own(u)' = Own(u) \ {c} /\ c \in Own(u)
        BY <1>2, <2>1, <3>2 DEF Own, GoneCompleted
      <4>2. /\ IsFiniteSet(Own(u)') /\ Cardinality(Own(u)') = Cardinality(Own(u)) - 1
        BY <3>1, <4>1, FS_RemoveElement
      <4>3. Cardinality(Own(u)') \in Nat
        BY <4>2, FS_CardinalityType
      <4>4. byUser'[u] = byUser[u] - 1
        BY <1>2, <3>2 DEF IInv, TypeOK, GoneCompleted
      <4> HIDE DEF Own
      <4> QED  BY <3>0, <3>1, <4>2, <4>3, <4>4
    <3>3. CASE u # Uid(c)
      <4>1. Own(u)' = Own(u)
        BY <2>1, <3>3 DEF Own
      <4>2. byUser'[u] = byUser[u]
        BY <1>2, <3>3 DEF IInv, TypeOK, GoneCompleted
      <4> QED  BY <3>0, <3>1, <4>1, <4>2
    <3> QED  BY <3>2, <3>3
  <2>5. Counts'
    BY <2>4 DEF Counts
  <2>6. TypeOK'
    <3>1. byUser' \in [Users -> Nat]
      BY <1>2, <2>4 DEF IInv, TypeOK, GoneCompleted
    <3> QED  BY <1>0, <1>2, <2>1, <2>2, <2>3, <3>1 DEF IInv, TypeOK, Lists, Disconnected, GoneCompleted
  <2>7. Lists'
    BY <1>0, <1>2, <2>1, <2>2, LimitsAssumption DEF IInv, Lists, Disconnected, GoneCompleted
  <2>8. Watches'
    BY <1>2, <2>2 DEF IInv, Watches, AcceptsWhileRoom, Disconnected, GoneCompleted
  <2> QED  BY <2>5, <2>6, <2>7, <2>8 DEF IInv
<1> QED  BY <1>1, <1>2 DEF Disconnected

----------------------------------------------------------------------------
(* The theorem.                                                            *)

LEMMA StepKeeps == IInv /\ [Next]_vars => IInv'
<1> SUFFICES ASSUME IInv, [Next]_vars PROVE IInv'
  OBVIOUS
<1>1. ASSUME NEW c \in Conns,
             \/ Accept(c) \/ SetupFails(c) \/ Hello(c) \/ HelloFails(c)
             \/ Close(c) \/ Disconnected(c) \/ FdTimeout(c)
             \/ \E n \in 0 .. FdCount : PendingFds(c, n)
      PROVE  IInv'
  BY <1>1, AcceptKeeps, HelloKeeps, HelloFailsKeeps, DisconnectedKeeps, OtherSteps
<1>2. CASE Elapse \/ ExpireTimeout \/ Reload
  BY <1>2, OtherSteps
<1>3. CASE UNCHANGED vars
  <2>1. timer \in BOOLEAN /\ late \subseteq Range(incomplete) \cup Range(completed) /\ limit \in Limits
    BY DEF IInv, TypeOK
  <2> QED  BY <1>3, <2>1, ListsStay DEF vars
<1> QED  BY <1>1, <1>2, <1>3 DEF Next

\* At every step there are at most max_completed_connections complete connections and at most
\* max_connections_per_user of one user, the lists and the counters agree, and the daemon
\* accepts exactly while there is room.
THEOREM ConnectionsAreLimited == Spec => []ConnectionsAreCounted
<1>1. IInv => ConnectionsAreCounted
  <2> SUFFICES ASSUME IInv PROVE ConnectionsAreCounted
    OBVIOUS
  <2>1. \A u \in Users : Cardinality(Own(u)) \in Nat /\ byUser[u] \in Nat
    BY FS_CardinalityType DEF IInv, Counts, TypeOK
  <2>2. LimitsHold
    BY <2>1, LimitsAssumption DEF IInv, Lists, Counts, Own, LimitsHold
  <2>3. "loginfo" \notin FailAt => UserCountIsRight
    BY DEF IInv, Counts, Own, UserCountIsRight
  <2> QED  BY <2>2, <2>3 DEF IInv, Watches, ConnectionsAreCounted
<1>2. Init => IInv
  BY InitHolds
<1>3. IInv /\ [Next]_vars => IInv'
  BY StepKeeps
<1> QED  BY <1>1, <1>2, <1>3, PTL DEF Spec
=============================================================================
