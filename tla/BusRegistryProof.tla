-------------------------- MODULE BusRegistryProof --------------------------
(***************************************************************************)
(* Proofs about BusRegistry for every set of connections and names and any *)
(* limit on the names a connection owns: the queues of owners and the      *)
(* lists of names owned agree, nobody waits who refused to, the signals    *)
(* and the replies tell the truth, and nobody who waits is overtaken       *)
(* without REPLACE_EXISTING.                                               *)
(*                                                                         *)
(* No property is inductive alone: whether bus_connection_disconnected     *)
(* finds a name in a queue depends on the lists, whether NameLost goes to  *)
(* the right connection on the queues, and what is known of a connection   *)
(* at Hello on its life before.  IInv joins them.  Every request on a name *)
(* is shown to be a change of its queue (Changes), and a change to keep    *)
(* IInv, so that each action needs only its own argument.                  *)
(***************************************************************************)
EXTENDS BusRegistry, SequenceTheorems, TLAPS

----------------------------------------------------------------------------
(* Sequences.                                                              *)

\* Taking out the i-th element moves those behind it one place forward.
LEMMA RemoveAtProperties ==
    ASSUME NEW S, NEW q \in Seq(S), NEW i \in 1 .. Len(q)
    PROVE  /\ RemoveAt(q, i) \in Seq(S)
           /\ Len(RemoveAt(q, i)) = Len(q) - 1
           /\ \A j \in 1 .. Len(q) - 1 : RemoveAt(q, i)[j] = IF j < i THEN q[j] ELSE q[j + 1]
<1> DEFINE a == SubSeq(q, 1, i - 1)
           b == SubSeq(q, i + 1, Len(q))
           r == a \o b
<1>0. Len(q) \in Nat /\ \A j \in 1 .. Len(q) : q[j] \in S
  BY LenProperties
<1>1. a \in Seq(S) /\ Len(a) = i - 1 /\ \A j \in 1 .. i - 1 : a[j] = q[j]
  BY <1>0, SubSeqProperties
<1>2. b \in Seq(S) /\ Len(b) = Len(q) - i /\ \A j \in 1 .. Len(q) - i : b[j] = q[i + j]
  BY <1>0, SubSeqProperties
<1>3. RemoveAt(q, i) = r
  BY DEF RemoveAt
<1> HIDE DEF a, b
<1>4. /\ r \in Seq(S)
      /\ Len(r) = Len(a) + Len(b)
      /\ \A j \in 1 .. Len(a) + Len(b) : r[j] = IF j <= Len(a) THEN a[j] ELSE b[j - Len(a)]
  BY <1>1, <1>2, ConcatProperties
<1> HIDE DEF r
<1>5. ASSUME NEW j \in 1 .. Len(q) - 1 PROVE r[j] = IF j < i THEN q[j] ELSE q[j + 1]
  <2>0. j \in 1 .. Len(a) + Len(b)
    BY <1>0, <1>1, <1>2
  <2>1. CASE j < i
    <3>1. j <= Len(a) /\ j \in 1 .. i - 1
      BY <1>0, <1>1, <2>1
    <3> QED  BY <1>1, <1>4, <2>0, <2>1, <3>1
  <2>2. CASE ~(j < i)
    <3>1. r[j] = b[j - (i - 1)]
      <4>1. ~(j <= Len(a)) /\ Len(a) = i - 1
        BY <1>0, <1>1, <2>2
      <4> QED  BY <1>4, <2>0, <4>1
    <3>2. j - (i - 1) \in 1 .. Len(q) - i /\ i + (j - (i - 1)) = j + 1
      BY <1>0, <2>2
    <3> QED  BY <1>2, <2>2, <3>1, <3>2
  <2> QED  BY <2>1, <2>2
<1> QED  BY <1>0, <1>1, <1>2, <1>3, <1>4, <1>5

\* Putting an element at place i moves those from i on one place back.
LEMMA InsertAtProperties ==
    ASSUME NEW S, NEW q \in Seq(S), NEW i \in 1 .. Len(q) + 1, NEW e \in S
    PROVE  /\ InsertAt(q, i, e) \in Seq(S)
           /\ Len(InsertAt(q, i, e)) = Len(q) + 1
           /\ \A j \in 1 .. Len(q) + 1 : InsertAt(q, i, e)[j] =
                IF j < i THEN q[j] ELSE IF j = i THEN e ELSE q[j - 1]
<1> DEFINE a == SubSeq(q, 1, i - 1)
           b == SubSeq(q, i, Len(q))
           ae == a \o <<e>>
           r == ae \o b
<1>0. Len(q) \in Nat /\ \A j \in 1 .. Len(q) : q[j] \in S
  BY LenProperties
<1>1. a \in Seq(S) /\ Len(a) = i - 1 /\ \A j \in 1 .. i - 1 : a[j] = q[j]
  BY <1>0, SubSeqProperties
<1>2. b \in Seq(S) /\ Len(b) = Len(q) - i + 1 /\ \A j \in 1 .. Len(q) - i + 1 : b[j] = q[i + j - 1]
  BY <1>0, SubSeqProperties
<1>3. InsertAt(q, i, e) = r
  BY DEF InsertAt
<1> HIDE DEF a, b
<1>4. /\ ae \in Seq(S)
      /\ Len(ae) = i
      /\ \A j \in 1 .. i : ae[j] = IF j <= i - 1 THEN a[j] ELSE e
  <2>1. <<e>> \in Seq(S) /\ Len(<<e>>) = 1 /\ <<e>>[1] = e
    OBVIOUS
  <2> QED  BY <1>0, <1>1, <2>1, ConcatProperties
<1> HIDE DEF ae
<1>5. /\ r \in Seq(S)
      /\ Len(r) = Len(ae) + Len(b)
      /\ \A j \in 1 .. Len(ae) + Len(b) : r[j] = IF j <= Len(ae) THEN ae[j] ELSE b[j - Len(ae)]
  BY <1>2, <1>4, ConcatProperties
<1> HIDE DEF r
<1>6. ASSUME NEW j \in 1 .. Len(q) + 1
      PROVE  r[j] = IF j < i THEN q[j] ELSE IF j = i THEN e ELSE q[j - 1]
  <2>0. j \in 1 .. Len(ae) + Len(b)
    BY <1>0, <1>2, <1>4
  <2>1. CASE j <= i
    <3>1. r[j] = ae[j]
      BY <1>4, <1>5, <2>0, <2>1
    <3>2. j \in 1 .. i /\ (j < i => j \in 1 .. i - 1) /\ (j <= i - 1 <=> j < i)
      BY <1>0, <2>1
    <3> QED  BY <1>1, <1>4, <2>1, <3>1, <3>2
  <2>2. CASE j > i
    <3>1. r[j] = b[j - i]
      BY <1>4, <1>5, <2>0, <2>2
    <3>2. j - i \in 1 .. Len(q) - i + 1 /\ i + (j - i) - 1 = j - 1
      BY <1>0, <2>2
    <3> QED  BY <1>2, <2>2, <3>1, <3>2
  <2> QED  BY <2>1, <2>2
<1> QED  BY <1>0, <1>2, <1>3, <1>4, <1>5, <1>6

----------------------------------------------------------------------------
(* Queues of owners.                                                       *)

\* Nobody is twice in q.
Distinct(q) == \A i, j \in DOMAIN q : q[i].conn = q[j].conn => i = j

\* c owns the name or waits for it.
In(q, c) == \E i \in DOMAIN q : q[i].conn = c

\* Who is not the head agreed to wait.
Waiting(q) == \A i \in DOMAIN q : i > 1 => ~q[i].noqueue

\* The primary owner.
First(q) == IF q = <<>> THEN Nobody ELSE Head(q).conn

\* A well-formed queue of owners.
Queue(q) == q \in Seq(Owners) /\ Distinct(q) /\ Waiting(q)

\* r is q with o as one of those who wait; who else waits agreed to.
Joined(q, r, o) ==
    /\ r \in Seq(Owners) /\ Distinct(r) /\ Len(r) >= 2 /\ r[1] = q[1]
    /\ \E i \in 2 .. Len(r) : r[i] = o
    /\ \A i \in 2 .. Len(r) : r[i] = o \/ ~r[i].noqueue
    /\ \A c : In(r, c) <=> In(q, c) \/ c = o.conn

\* An owner that leaves is gone, and the others stay in their order.
LEMMA Leaving ==
    ASSUME NEW q, Queue(q), NEW i \in DOMAIN q
    PROVE  LET r == RemoveAt(q, i)
           IN  /\ Queue(r)
               /\ \A c : In(r, c) <=> In(q, c) /\ c # q[i].conn
               /\ i # 1 => First(r) = First(q)
               /\ \A x, y : Before(r, x, y) => Before(q, x, y)
<1> DEFINE r == RemoveAt(q, i)
<1> HIDE DEF r
<1>1. /\ q \in Seq(Owners) /\ Len(q) \in Nat /\ DOMAIN q = 1 .. Len(q) /\ i \in 1 .. Len(q)
      /\ \A j \in 1 .. Len(q) : q[j] \in Owners
  BY LenProperties DEF Queue
<1>2. /\ r \in Seq(Owners) /\ DOMAIN r = 1 .. Len(q) - 1 /\ Len(r) = Len(q) - 1
      /\ \A j \in 1 .. Len(q) - 1 : r[j] = IF j < i THEN q[j] ELSE q[j + 1]
  BY <1>1, RemoveAtProperties, LenProperties DEF r
<1>3. Distinct(r)
  BY <1>1, <1>2 DEF Queue, Distinct
<1>4. Waiting(r)
  BY <1>1, <1>2 DEF Queue, Waiting
<1>5. ASSUME NEW c PROVE In(r, c) <=> In(q, c) /\ c # q[i].conn
  <2>1. ASSUME NEW j \in DOMAIN r, r[j].conn = c PROVE In(q, c) /\ c # q[i].conn
    BY <1>1, <1>2, <2>1 DEF Queue, Distinct, In
  <2>2. ASSUME NEW j \in DOMAIN q, q[j].conn = c, c # q[i].conn PROVE In(r, c)
    <3>1. CASE j < i
      BY <1>1, <1>2, <2>2, <3>1 DEF In
    <3>2. CASE j > i
      <4>1. j - 1 \in DOMAIN r /\ r[j - 1] = q[j]
        BY <1>1, <1>2, <3>2
      <4> QED  BY <4>1, <2>2 DEF In
    <3> QED  BY <1>1, <2>2, <3>1, <3>2
  <2> QED  BY <2>1, <2>2 DEF In
<1>6. i # 1 => First(r) = First(q)
  BY <1>1, <1>2 DEF First
<1>7. ASSUME NEW x, NEW y, Before(r, x, y) PROVE Before(q, x, y)
  <2>1. PICK k, l \in DOMAIN r : 1 < k /\ k < l /\ r[k].conn = x /\ r[l].conn = y
    BY <1>7 DEF Before
  <2> DEFINE Place(j) == IF j < i THEN j ELSE j + 1
  <2>2. /\ Place(k) \in DOMAIN q /\ Place(l) \in DOMAIN q /\ 1 < Place(k) /\ Place(k) < Place(l)
        /\ r[k] = q[Place(k)] /\ r[l] = q[Place(l)]
    BY <1>1, <1>2, <2>1
  <2> QED  BY <2>1, <2>2 DEF Before
<1> QED  BY <1>2, <1>3, <1>4, <1>5, <1>6, <1>7 DEF Queue, r

\* A new owner o is put behind the head, or at the end.
LEMMA Joining ==
    ASSUME NEW q, Queue(q), q # <<>>, NEW o \in Owners, ~In(q, o.conn),
           NEW r, r = InsertAt(q, 2, o) \/ r = Append(q, o)
    PROVE  /\ Joined(q, r, o)
           /\ r = InsertAt(q, 2, o) => r[2] = o
           /\ \A x, y : Before(r, x, y) => Before(q, x, y) \/ o.conn \in {x, y}
<1>1. /\ q \in Seq(Owners) /\ Len(q) \in Nat /\ Len(q) >= 1 /\ DOMAIN q = 1 .. Len(q)
      /\ \A j \in 1 .. Len(q) : q[j] \in Owners
  BY LenProperties, EmptySeq DEF Queue
<1> DEFINE at == IF r = InsertAt(q, 2, o) THEN 2 ELSE Len(q) + 1
<1>2. /\ r \in Seq(Owners) /\ Len(r) = Len(q) + 1 /\ at \in 2 .. Len(q) + 1
      /\ \A j \in 1 .. Len(q) + 1 : r[j] = IF j < at THEN q[j] ELSE IF j = at THEN o ELSE q[j - 1]
  <2>1. CASE r = InsertAt(q, 2, o)
    <3>1. at = 2 /\ 2 \in 1 .. Len(q) + 1
      BY <1>1, <2>1
    <3>2. /\ InsertAt(q, 2, o) \in Seq(Owners)
          /\ Len(InsertAt(q, 2, o)) = Len(q) + 1
          /\ \A j \in 1 .. Len(q) + 1 : InsertAt(q, 2, o)[j] =
               IF j < 2 THEN q[j] ELSE IF j = 2 THEN o ELSE q[j - 1]
      BY <1>1, <3>1, InsertAtProperties
    <3> QED  BY <1>1, <2>1, <3>1, <3>2
  <2>2. CASE r # InsertAt(q, 2, o)
    <3>1. /\ r \in Seq(Owners) /\ Len(r) = Len(q) + 1
          /\ (\A j \in 1 .. Len(q) : r[j] = q[j]) /\ r[Len(q) + 1] = o
      BY <1>1, <2>2, AppendProperties
    <3>2. at = Len(q) + 1
      BY <2>2
    <3> QED  BY <1>1, <3>1, <3>2
  <2> QED  BY <2>1, <2>2
<1>3. DOMAIN r = 1 .. Len(q) + 1
  BY <1>2, LenProperties
<1>4. at = 2 => r[2] = o
  BY <1>1, <1>2
<1>5. r = InsertAt(q, 2, o) => at = 2
  OBVIOUS
<1> HIDE DEF at
<1>6. \A j \in 1 .. Len(q) : q[j].conn # o.conn
  BY <1>1 DEF In
<1> DEFINE Place(j) == IF j < at THEN j ELSE j - 1
<1>p. ASSUME NEW j \in 1 .. Len(q) + 1, j # at
      PROVE  Place(j) \in 1 .. Len(q) /\ r[j] = q[Place(j)] /\ (j > 1 => Place(j) > 1)
  <2>1. CASE j < at
    BY <1>1, <1>2, <2>1
  <2>2. CASE j > at
    BY <1>1, <1>2, <2>2
  <2> QED  BY <1>2, <1>p, <2>1, <2>2
<1>m. \A i, j \in 1 .. Len(q) + 1 : i # at /\ j # at /\ i < j => Place(i) < Place(j)
  BY <1>1, <1>2
<1> HIDE DEF Place
<1>7. Distinct(r)
  <2> SUFFICES ASSUME NEW i \in 1 .. Len(q) + 1, NEW j \in 1 .. Len(q) + 1, r[i].conn = r[j].conn
               PROVE  i = j
    BY <1>3 DEF Distinct
  <2>1. i # at => r[i].conn # o.conn
    BY <1>6, <1>p
  <2>2. j # at => r[j].conn # o.conn
    BY <1>6, <1>p
  <2>3. CASE i = at \/ j = at
    BY <1>2, <2>1, <2>2, <2>3
  <2>4. CASE i # at /\ j # at
    <3>1. Place(i) = Place(j)
      BY <1>1, <1>p, <2>4 DEF Queue, Distinct
    <3>2. ~(i < j) /\ ~(j < i)
      BY <1>1, <1>p, <1>m, <2>4, <3>1
    <3> QED  BY <3>2
  <2> QED  BY <2>3, <2>4
<1>8. ASSUME NEW c PROVE In(r, c) <=> In(q, c) \/ c = o.conn
  <2>1. ASSUME NEW j \in DOMAIN q, q[j].conn = c PROVE In(r, c)
    <3>1. CASE j < at
      BY <1>1, <1>2, <1>3, <2>1, <3>1 DEF In
    <3>2. CASE ~(j < at)
      <4>1. j + 1 \in DOMAIN r /\ r[j + 1] = q[j]
        BY <1>1, <1>2, <1>3, <3>2
      <4> QED  BY <2>1, <4>1 DEF In
    <3> QED  BY <3>1, <3>2
  <2>2. c = o.conn => In(r, c)
    <3>1. at \in DOMAIN r /\ r[at] = o
      BY <1>2, <1>3
    <3> QED  BY <3>1 DEF In
  <2>3. ASSUME NEW j \in DOMAIN r, r[j].conn = c PROVE In(q, c) \/ c = o.conn
    BY <1>1, <1>2, <1>3, <2>3 DEF In
  <2> QED  BY <2>1, <2>2, <2>3 DEF In
<1>9. ASSUME NEW i \in 2 .. Len(r) PROVE r[i] = o \/ ~r[i].noqueue
  <2>1. i = at => r[i] = o
    BY <1>2
  <2>2. i \in 1 .. Len(q) + 1 /\ i > 1
    BY <1>1, <1>2
  <2> QED  BY <1>1, <1>p, <2>1, <2>2 DEF Queue, Waiting
<1>10. ASSUME NEW x, NEW y, Before(r, x, y), o.conn \notin {x, y} PROVE Before(q, x, y)
  <2>1. PICK k, l \in DOMAIN r : 1 < k /\ k < l /\ r[k].conn = x /\ r[l].conn = y
    BY <1>10 DEF Before
  <2>2. k # at /\ l # at
    BY <1>2, <1>10, <2>1
  <2>3. /\ Place(k) \in DOMAIN q /\ Place(l) \in DOMAIN q /\ 1 < Place(k) /\ Place(k) < Place(l)
        /\ r[k] = q[Place(k)] /\ r[l] = q[Place(l)]
    BY <1>1, <1>3, <1>p, <1>m, <2>1, <2>2
  <2> QED  BY <2>1, <2>3 DEF Before
<1>11. Joined(q, r, o)
  <2>1. Len(r) >= 2 /\ r[1] = q[1] /\ \E i \in 2 .. Len(r) : r[i] = o
    BY <1>1, <1>2
  <2> QED  BY <1>2, <1>7, <1>8, <1>9, <2>1 DEF Joined
<1> QED  BY <1>4, <1>5, <1>10, <1>11

\* An owner gets other flags and keeps its place.
LEMMA Reflagging ==
    ASSUME NEW q, Queue(q), NEW i \in DOMAIN q, NEW o \in Owners, o.conn = q[i].conn,
           NEW r, r = ReplaceAt(q, i, o)
    PROVE  /\ r \in Seq(Owners) /\ Distinct(r) /\ DOMAIN r = DOMAIN q
           /\ \A c : In(r, c) <=> In(q, c)
           /\ \A j \in DOMAIN r : r[j].conn = q[j].conn /\ (r[j] = o \/ r[j] = q[j])
           /\ r[i] = o
           /\ \A x, y : Before(r, x, y) => Before(q, x, y)
<1>1. q \in Seq(Owners) /\ DOMAIN q = 1 .. Len(q) /\ Len(q) \in Nat
  BY LenProperties DEF Queue
<1>2. r \in Seq(Owners) /\ DOMAIN r = 1 .. Len(q)
  BY <1>1, ExceptSeq, LenProperties DEF ReplaceAt
<1>3. r[i] = o /\ \A j \in DOMAIN r : r[j].conn = q[j].conn /\ (r[j] = o \/ r[j] = q[j])
  BY <1>1, <1>2 DEF ReplaceAt
<1>4. Distinct(r)
  BY <1>1, <1>2, <1>3 DEF Queue, Distinct
<1>5. \A c : In(r, c) <=> In(q, c)
  BY <1>1, <1>2, <1>3 DEF In
<1>6. \A x, y : Before(r, x, y) => Before(q, x, y)
  BY <1>1, <1>2, <1>3 DEF Before
<1> QED  BY <1>1, <1>2, <1>3, <1>4, <1>5, <1>6

\* Of two owners in a queue only one can wait before the other.
LEMMA Asymmetric ==
    ASSUME NEW q, Queue(q), NEW x, NEW y, Before(q, x, y)
    PROVE  ~Before(q, y, x) /\ In(q, x) /\ In(q, y) /\ First(q) \notin {x, y} /\ x # y
<1>1. q \in Seq(Owners) /\ DOMAIN q = 1 .. Len(q) /\ Len(q) \in Nat
  BY LenProperties DEF Queue
<1>2. PICK i, j \in DOMAIN q : 1 < i /\ i < j /\ q[i].conn = x /\ q[j].conn = y
  BY DEF Before
<1>3. ~Before(q, y, x)
  <2> SUFFICES ASSUME NEW k \in DOMAIN q, NEW l \in DOMAIN q, k < l,
                      q[k].conn = y, q[l].conn = x
               PROVE  FALSE
    BY DEF Before
  <2>1. k = j /\ l = i
    BY <1>2 DEF Queue, Distinct
  <2> QED  BY <1>1, <1>2, <2>1
<1>4. First(q) = q[1].conn /\ 1 \in DOMAIN q
  BY <1>1, <1>2 DEF First
<1>5. First(q) # x /\ First(q) # y
  BY <1>1, <1>2, <1>4 DEF Queue, Distinct
<1>6. x # y
  BY <1>1, <1>2 DEF Queue, Distinct
<1> QED  BY <1>2, <1>3, <1>5, <1>6 DEF In

\* bus_service_add_owner puts c into the queue or changes its place and flags;
\* with REPLACE_EXISTING it is the second then, otherwise it passes nobody.
LEMMA AddOwnerQueue ==
    ASSUME NEW n \in Names, NEW c \in Conns, NEW f \in SUBSET Flags,
           Queue(owners[n]), owners[n] # <<>>, First(owners[n]) # c
    PROVE  LET r == AddOwner(n, c, f)
           IN  /\ Joined(owners[n], r, Owner(c, f))
               /\ "replace" \in f => r[2] = Owner(c, f)
               /\ \A x, y : Before(owners[n], x, y) /\ Before(r, y, x) => y = c /\ "replace" \in f
<1> DEFINE q == owners[n]
           o == Owner(c, f)
           i == FindOwnerLink(n, c)
           r == AddOwner(n, c, f)
<1>1. o \in Owners /\ o.conn = c
  BY DEF Owner, Owners
<1>2. q \in Seq(Owners) /\ DOMAIN q = 1 .. Len(q) /\ Len(q) \in Nat /\ Len(q) >= 1 /\ First(q) = q[1].conn
  BY LenProperties, EmptySeq DEF Queue, First
<1>q. Queue(q) /\ q # <<>>
  OBVIOUS
<1>3. CASE ~HasOwner(n, c)
  <2>1. ~In(q, o.conn)
    BY <1>1, <1>3 DEF HasOwner, In
  <2>2. r = (IF "replace" \in f THEN InsertAt(q, 2, o) ELSE Append(q, o))
    BY <1>3 DEF AddOwner
  <2> HIDE DEF q, o, r
  <2>3. /\ Joined(q, r, o)
        /\ r = InsertAt(q, 2, o) => r[2] = o
        /\ \A x, y : Before(r, x, y) => Before(q, x, y) \/ o.conn \in {x, y}
    <3>1. r = InsertAt(q, 2, o) \/ r = Append(q, o)
      BY <2>2
    <3> QED  BY <1>1, <1>q, <2>1, <3>1, Joining
  <2>4. ASSUME NEW x, NEW y, Before(q, x, y), Before(r, y, x) PROVE FALSE
    <3>1. ~Before(q, y, x) /\ In(q, x) /\ In(q, y)
      BY <1>q, <2>4, Asymmetric
    <3> QED  BY <1>1, <2>1, <2>3, <2>4, <3>1
  <2> QED  BY <2>2, <2>3, <2>4 DEF q, r, o
<1>4. CASE HasOwner(n, c)
  <2>1. i \in DOMAIN q /\ q[i].conn = c
    BY <1>4 DEF HasOwner, FindOwnerLink
  <2>2. i # 1 /\ i \in 2 .. Len(q)
    BY <1>2, <2>1
  <2>3. In(q, c)
    BY <2>1 DEF In
  <2>4. r = (IF "replace" \in f THEN InsertAt(RemoveAt(q, i), 2, o) ELSE ReplaceAt(q, i, o))
    BY <1>4 DEF AddOwner
  <2> HIDE DEF q, o, r, i
  <2>5. CASE "replace" \in f
    <3> DEFINE p == RemoveAt(q, i)
    <3>1. /\ Queue(p)
          /\ \A d : In(p, d) <=> In(q, d) /\ d # c
          /\ First(p) = First(q)
          /\ \A x, y : Before(p, x, y) => Before(q, x, y)
      BY <1>q, <2>1, <2>2, Leaving
    <3>2. p # <<>> /\ p[1] = q[1]
      <4>1. p[1] = q[1] /\ Len(p) = Len(q) - 1 /\ p \in Seq(Owners)
        <5>1. /\ p \in Seq(Owners) /\ Len(p) = Len(q) - 1
              /\ \A j \in 1 .. Len(q) - 1 : p[j] = IF j < i THEN q[j] ELSE q[j + 1]
          BY <1>2, <2>1, RemoveAtProperties
        <5>2. 1 \in 1 .. Len(q) - 1 /\ 1 < i
          BY <1>2, <2>2
        <5> QED  BY <5>1, <5>2
      <4> QED  BY <1>2, <2>2, <4>1, EmptySeq
    <3>3. r = InsertAt(p, 2, o)
      BY <2>4, <2>5
    <3> HIDE DEF p
    <3>4. /\ Joined(p, r, o)
          /\ r[2] = o
          /\ \A x, y : Before(r, x, y) => Before(p, x, y) \/ o.conn \in {x, y}
      BY <1>1, <3>1, <3>2, <3>3, Joining
    <3>5. Joined(q, r, o)
      BY <1>1, <2>3, <3>1, <3>2, <3>4 DEF Joined
    <3>6. ASSUME NEW x, NEW y, Before(q, x, y), Before(r, y, x) PROVE y = c
      <4>1. ~Before(q, y, x)
        BY <1>q, <3>6, Asymmetric
      <4>2. x = c \/ y = c
        BY <1>1, <3>1, <3>4, <3>6, <4>1
      <4>3. x # c
        BY <1>1, <3>4, <3>6, LenProperties DEF Joined, Before, Distinct
      <4> QED  BY <4>2, <4>3
    <3> QED  BY <2>5, <3>4, <3>5, <3>6 DEF q, r, o
  <2>6. CASE "replace" \notin f
    <3>1. r = ReplaceAt(q, i, o) /\ o.conn = q[i].conn
      BY <1>1, <2>1, <2>4, <2>6
    <3>2. /\ r \in Seq(Owners) /\ Distinct(r) /\ DOMAIN r = DOMAIN q
          /\ \A d : In(r, d) <=> In(q, d)
          /\ \A j \in DOMAIN r : r[j].conn = q[j].conn /\ (r[j] = o \/ r[j] = q[j])
          /\ r[i] = o
          /\ \A x, y : Before(r, x, y) => Before(q, x, y)
      BY <1>1, <1>q, <2>1, <3>1, Reflagging
    <3>3. Len(r) = Len(q) /\ 1 \in DOMAIN r /\ r[1] = q[1]
      BY <1>2, <2>1, <2>2, <3>1, <3>2, LenProperties DEF ReplaceAt
    <3>4. \A j \in 2 .. Len(r) : r[j] = o \/ ~r[j].noqueue
      BY <1>2, <1>q, <3>2, <3>3 DEF Queue, Waiting
    <3>5. \E j \in 2 .. Len(r) : r[j] = o
      BY <2>2, <3>2, <3>3
    <3>6. Joined(q, r, o)
      BY <1>1, <1>2, <2>2, <2>3, <3>2, <3>3, <3>4, <3>5 DEF Joined
    <3>7. ASSUME NEW x, NEW y, Before(q, x, y), Before(r, y, x) PROVE FALSE
      BY <1>q, <3>2, <3>7, Asymmetric
    <3> QED  BY <2>6, <3>6, <3>7 DEF q, r, o
  <2> QED  BY <2>5, <2>6
<1> QED  BY <1>3, <1>4

\* The second owner o takes the place of the first, which becomes the second
\* if it agreed to wait.
LEMMA Swapping ==
    ASSUME NEW q, NEW o \in Owners, NEW r, Joined(q, r, o), r[2] = o, ~r[1].noqueue
    PROVE  /\ Queue(SwapOwner(r)) /\ First(SwapOwner(r)) = o.conn
           /\ \A c : In(SwapOwner(r), c) <=> In(r, c)
           /\ \A x, y : Before(SwapOwner(r), x, y) => Before(r, x, y) \/ x = r[1].conn
<1> DEFINE s == SwapOwner(r)
           t == Tail(r)
<1>1. /\ r \in Seq(Owners) /\ DOMAIN r = 1 .. Len(r) /\ Len(r) \in Nat /\ Len(r) >= 2 /\ Distinct(r)
      /\ r # <<>>
  BY LenProperties, EmptySeq DEF Joined
<1>2. /\ t \in Seq(Owners) /\ Len(t) = Len(r) - 1 /\ \A j \in 1 .. Len(r) - 1 : t[j] = r[j + 1]
      /\ Head(r) = r[1] /\ r[1] \in Owners
  BY <1>1, HeadTailProperties
<1> DEFINE h == r[1]
<1>3. s = InsertAt(t, 2, h)
  BY <1>2 DEF SwapOwner
<1> HIDE DEF s, t
<1>4. /\ s \in Seq(Owners) /\ Len(s) = Len(r)
      /\ \A j \in 1 .. Len(r) : s[j] = IF j < 2 THEN t[j] ELSE IF j = 2 THEN h ELSE t[j - 1]
  <2>1. 2 \in 1 .. Len(t) + 1 /\ Len(t) + 1 = Len(r)
    BY <1>1, <1>2
  <2>2. t \in Seq(Owners) /\ h \in Owners
    BY <1>2
  <2> HIDE DEF h
  <2>3. /\ InsertAt(t, 2, h) \in Seq(Owners)
        /\ Len(InsertAt(t, 2, h)) = Len(t) + 1
        /\ \A j \in 1 .. Len(t) + 1 : InsertAt(t, 2, h)[j] =
             IF j < 2 THEN t[j] ELSE IF j = 2 THEN h ELSE t[j - 1]
    BY <2>1, <2>2, InsertAtProperties
  <2> QED  BY <1>3, <2>1, <2>3
<1>5. s[1] = o /\ s[2] = r[1]
  BY <1>1, <1>2, <1>4
<1>6. \A j \in 3 .. Len(r) : s[j] = r[j]
  <2> SUFFICES ASSUME NEW j \in 3 .. Len(r) PROVE s[j] = r[j]
    OBVIOUS
  <2>1. j \in 1 .. Len(r) /\ j - 1 \in 1 .. Len(r) - 1 /\ (j - 1) + 1 = j /\ ~(j < 2) /\ j # 2
    BY <1>1
  <2> QED  BY <1>2, <1>4, <2>1
<1> DEFINE Place(j) == IF j = 1 THEN 2 ELSE IF j = 2 THEN 1 ELSE j
<1>7. DOMAIN s = 1 .. Len(r)
  BY <1>4, LenProperties
<1>8. \A j \in DOMAIN s : Place(j) \in DOMAIN r /\ s[j] = r[Place(j)] /\ Place(Place(j)) = j
  BY <1>1, <1>5, <1>6, <1>7
<1> HIDE DEF Place
<1>9. Distinct(s)
  BY <1>1, <1>8 DEF Distinct
<1>10. Waiting(s)
  <2> SUFFICES ASSUME NEW j \in DOMAIN s, j > 1 PROVE ~s[j].noqueue
    BY DEF Waiting
  <2>1. CASE j = 2
    BY <1>5, <2>1
  <2>2. CASE j # 2
    <3>1. j \in 3 .. Len(r) /\ j \in 2 .. Len(r) /\ 2 \in DOMAIN r /\ j \in DOMAIN r
      BY <1>1, <1>7, <2>2
    <3>2. r[j] # o
      BY <1>1, <2>2, <3>1 DEF Distinct
    <3> QED  BY <1>6, <3>1, <3>2 DEF Joined
  <2> QED  BY <2>1, <2>2
<1>11. First(s) = o.conn
  BY <1>1, <1>4, <1>5, EmptySeq DEF First
<1>12. \A c : In(s, c) <=> In(r, c)
  <2>1. \A j \in DOMAIN r : Place(j) \in DOMAIN s /\ s[Place(j)] = r[j]
    BY <1>1, <1>5, <1>6, <1>7 DEF Place
  <2> QED  BY <1>8, <2>1 DEF In
<1>13. ASSUME NEW x, NEW y, Before(s, x, y), x # r[1].conn PROVE Before(r, x, y)
  <2>1. PICK k, l \in DOMAIN s : 1 < k /\ k < l /\ s[k].conn = x /\ s[l].conn = y
    BY <1>13 DEF Before
  <2>2. k # 2
    BY <1>5, <1>13, <2>1
  <2>3. k \in 3 .. Len(r) /\ l \in 3 .. Len(r) /\ k \in DOMAIN r /\ l \in DOMAIN r
    BY <1>1, <1>7, <2>1, <2>2
  <2> QED  BY <1>6, <2>1, <2>3 DEF Before
<1>14. Queue(s)
  BY <1>4, <1>9, <1>10 DEF Queue
<1> QED  BY <1>11, <1>12, <1>13, <1>14 DEF s

\* The first owner leaves and the second, o, takes its place.
LEMMA Replacing ==
    ASSUME NEW q, NEW o \in Owners, NEW r, Joined(q, r, o), r[2] = o
    PROVE  /\ Queue(Tail(r)) /\ First(Tail(r)) = o.conn
           /\ \A c : In(Tail(r), c) <=> In(r, c) /\ c # r[1].conn
           /\ \A x, y : Before(Tail(r), x, y) => Before(r, x, y)
<1> DEFINE t == Tail(r)
<1>1. /\ r \in Seq(Owners) /\ DOMAIN r = 1 .. Len(r) /\ Len(r) \in Nat /\ Len(r) >= 2 /\ Distinct(r)
      /\ r # <<>>
  BY LenProperties, EmptySeq DEF Joined
<1>2. t \in Seq(Owners) /\ Len(t) = Len(r) - 1 /\ \A j \in 1 .. Len(r) - 1 : t[j] = r[j + 1]
  BY <1>1, HeadTailProperties
<1> HIDE DEF t
<1>3. DOMAIN t = 1 .. Len(r) - 1
  BY <1>2, LenProperties
<1>4. Distinct(t)
  BY <1>1, <1>2, <1>3 DEF Distinct
<1>5. Waiting(t)
  <2> SUFFICES ASSUME NEW j \in DOMAIN t, j > 1 PROVE ~t[j].noqueue
    BY DEF Waiting
  <2>1. j + 1 \in 2 .. Len(r) /\ j + 1 # 2 /\ 2 \in DOMAIN r /\ j + 1 \in DOMAIN r
    BY <1>1, <1>3
  <2>2. r[j + 1] # o
    BY <1>1, <2>1 DEF Distinct
  <2> QED  BY <1>2, <1>3, <2>1, <2>2 DEF Joined
<1>6. First(t) = o.conn
  <2>1. t[1] = o /\ t # <<>>
    BY <1>1, <1>2, EmptySeq
  <2> QED  BY <1>2, <2>1 DEF First
<1>7. ASSUME NEW c PROVE In(t, c) <=> In(r, c) /\ c # r[1].conn
  <2>1. ASSUME NEW j \in DOMAIN t, t[j].conn = c PROVE In(r, c) /\ c # r[1].conn
    <3>1. j + 1 \in DOMAIN r /\ r[j + 1].conn = c /\ 1 \in DOMAIN r /\ j + 1 # 1
      BY <1>1, <1>2, <1>3, <2>1
    <3> QED  BY <1>1, <3>1 DEF In, Distinct
  <2>2. ASSUME NEW j \in DOMAIN r, r[j].conn = c, c # r[1].conn PROVE In(t, c)
    <3>1. j - 1 \in DOMAIN t /\ (j - 1) + 1 = j
      BY <1>1, <1>3, <2>2
    <3>2. t[j - 1] = r[j]
      BY <1>2, <1>3, <3>1
    <3> QED  BY <2>2, <3>1, <3>2 DEF In
  <2> QED  BY <2>1, <2>2 DEF In
<1>8. ASSUME NEW x, NEW y, Before(t, x, y) PROVE Before(r, x, y)
  <2>1. PICK k, l \in DOMAIN t : 1 < k /\ k < l /\ t[k].conn = x /\ t[l].conn = y
    BY <1>8 DEF Before
  <2>2. /\ k + 1 \in DOMAIN r /\ l + 1 \in DOMAIN r /\ 1 < k + 1 /\ k + 1 < l + 1
        /\ r[k + 1] = t[k] /\ r[l + 1] = t[l]
    BY <1>1, <1>2, <1>3, <2>1
  <2> QED  BY <2>1, <2>2 DEF Before
<1>9. Queue(t)
  BY <1>2, <1>4, <1>5 DEF Queue
<1> QED  BY <1>6, <1>7, <1>8, <1>9 DEF t

----------------------------------------------------------------------------
(* Lists of names owned.                                                   *)

\* The list w names m.
Lists(w, m) == \E i \in DOMAIN w : w[i] = m

\* Every name is listed once, the unique name first.
OwnList(w) ==
    /\ w \in Seq(Names \cup {Base})
    /\ \A i, j \in DOMAIN w : w[i] = w[j] => i = j
    /\ w # <<>> => w[1] = Base

\* The list w without the name n (bus_connection_remove_owned_service).
Unlist(w, n) == RemoveAt(w, CHOOSE i \in DOMAIN w : w[i] = n)

\* A name taken off the list is listed no more, and the others still are.
LEMMA Unlisting ==
    ASSUME NEW w, OwnList(w), NEW n \in Names, NEW k \in DOMAIN w, w[k] = n
    PROVE  LET r == RemoveAt(w, k)
           IN  OwnList(r) /\ r # <<>> /\ \A m : Lists(r, m) <=> Lists(w, m) /\ m # n
<1> DEFINE r == RemoveAt(w, k)
<1> HIDE DEF r
<1>1. k \in DOMAIN w /\ w[k] = n
  OBVIOUS
<1>2. w \in Seq(Names \cup {Base}) /\ Len(w) \in Nat /\ DOMAIN w = 1 .. Len(w) /\ k \in 1 .. Len(w)
  BY <1>1, LenProperties DEF OwnList
<1>3. w # <<>> /\ w[1] = Base /\ k # 1
  BY <1>1, <1>2, EmptySeq, NamesAssumption DEF OwnList
<1>4. /\ r \in Seq(Names \cup {Base}) /\ Len(r) = Len(w) - 1
      /\ \A j \in 1 .. Len(w) - 1 : r[j] = IF j < k THEN w[j] ELSE w[j + 1]
  BY <1>2, RemoveAtProperties DEF r
<1>5. DOMAIN r = 1 .. Len(w) - 1
  BY <1>4, LenProperties
<1> DEFINE Place(j) == IF j < k THEN j ELSE j + 1
<1>p. \A j \in DOMAIN r : Place(j) \in DOMAIN w /\ Place(j) # k /\ r[j] = w[Place(j)]
  BY <1>2, <1>4, <1>5
<1>m. \A i, j \in DOMAIN r : Place(i) = Place(j) => i = j
  BY <1>2, <1>5
<1> HIDE DEF Place
<1>6. \A i, j \in DOMAIN r : r[i] = r[j] => i = j
  BY <1>p, <1>m DEF OwnList
<1>7. r # <<>> /\ r[1] = Base
  <2>1. 1 \in 1 .. Len(w) - 1 /\ 1 < k
    BY <1>2, <1>3
  <2>2. r[1] = w[1]
    BY <1>4, <2>1
  <2>3. Len(r) # 0
    BY <1>2, <1>4, <2>1
  <2> QED  BY <1>3, <1>4, <2>2, <2>3, EmptySeq
<1>8. ASSUME NEW m PROVE Lists(r, m) <=> Lists(w, m) /\ m # n
  <2>1. ASSUME NEW j \in DOMAIN r, r[j] = m PROVE Lists(w, m) /\ m # n
    BY <1>1, <1>p, <2>1 DEF OwnList, Lists
  <2>2. ASSUME NEW j \in DOMAIN w, w[j] = m, m # n PROVE Lists(r, m)
    <3>1. CASE j < k
      BY <1>2, <1>4, <1>5, <2>2, <3>1 DEF Lists
    <3>2. CASE j > k
      <4>1. j - 1 \in DOMAIN r /\ r[j - 1] = w[j]
        BY <1>2, <1>4, <1>5, <3>2
      <4> QED  BY <4>1, <2>2 DEF Lists
    <3> QED  BY <1>1, <1>2, <2>2, <3>1, <3>2
  <2> QED  BY <2>1, <2>2 DEF Lists
<1> QED  BY <1>4, <1>6, <1>7, <1>8 DEF OwnList, r

\* A name acquired is listed last.
LEMMA Listing ==
    ASSUME NEW w, OwnList(w), w # <<>>, NEW n \in Names, ~Lists(w, n),
           NEW r, r = Append(w, n)
    PROVE  OwnList(r) /\ r # <<>> /\ \A m : Lists(r, m) <=> Lists(w, m) \/ m = n
<1>1. w \in Seq(Names \cup {Base}) /\ Len(w) \in Nat /\ DOMAIN w = 1 .. Len(w) /\ Len(w) >= 1
  BY LenProperties, EmptySeq DEF OwnList
<1>2. /\ r \in Seq(Names \cup {Base}) /\ Len(r) = Len(w) + 1
      /\ (\A j \in 1 .. Len(w) : r[j] = w[j]) /\ r[Len(w) + 1] = n
  BY <1>1, AppendProperties
<1>3. DOMAIN r = 1 .. Len(w) + 1
  BY <1>2, LenProperties
<1>4. \A j \in 1 .. Len(w) : w[j] # n
  BY <1>1 DEF Lists
<1>5. ASSUME NEW i \in DOMAIN r, NEW j \in DOMAIN r, r[i] = r[j] PROVE i = j
  <2>1. CASE i \in 1 .. Len(w) /\ j \in 1 .. Len(w)
    BY <1>1, <1>2, <1>5, <2>1 DEF OwnList
  <2>2. CASE ~(i \in 1 .. Len(w) /\ j \in 1 .. Len(w))
    BY <1>1, <1>2, <1>3, <1>4, <1>5, <2>2
  <2> QED  BY <2>1, <2>2
<1>6. r # <<>> /\ r[1] = Base
  BY <1>1, <1>2, EmptySeq DEF OwnList
<1>7. ASSUME NEW m PROVE Lists(r, m) <=> Lists(w, m) \/ m = n
  BY <1>1, <1>2, <1>3 DEF Lists
<1> QED  BY <1>2, <1>5, <1>6, <1>7 DEF OwnList

----------------------------------------------------------------------------
(* The inductive invariant.                                                *)

\* Before Hello a connection owns nothing and has heard nothing; while it is
\* active it owns its unique name; once it is gone it owns nothing.
Lifecycle(c) ==
    /\ conn[c] = "new" => owned[c] = <<>> /\ told[c] = {}
    /\ conn[c] = "active" => owned[c] # <<>>
    /\ conn[c] = "gone" => owned[c] = <<>>

\* The inductive invariant: what the properties say of the lists, name by name
\* and connection by connection, with the life of a connection.
IInv ==
    /\ TypeOK
    /\ \A n \in Names : Queue(owners[n]) /\ announced[n].new = First(owners[n])
    /\ \A c \in Conns : OwnList(owned[c]) /\ Lifecycle(c)
    /\ \A c \in Conns, n \in Names : In(owners[n], c) <=> Lists(owned[c], n)
    /\ \A c \in Conns : conn[c] = "active" => told[c] = {n \in Names : First(owners[n]) = c}

\* services_owned follows the queue r that the name n gets: a connection that
\* enters the queue lists the name, one that leaves it takes it off the list.
Relists(n, r) ==
    /\ owned' = [c \in Conns |-> owned'[c]]
    /\ \A c \in Conns :
         \/ owned'[c] = owned[c] /\ (In(r, c) <=> In(owners[n], c))
         \/ owned'[c] = Append(owned[c], n) /\ owned[c] # <<>> /\ ~In(owners[n], c) /\ In(r, c)
         \/ owned'[c] = Unlist(owned[c], n) /\ In(owners[n], c) /\ ~In(r, c)

\* What every request does to a name: it gets the queue r, the lists follow,
\* and the signals are sent if and only if the primary owner changes.
Changes(n, r) ==
    /\ Queue(r)
    /\ owners' = [owners EXCEPT ![n] = r]
    /\ Relists(n, r)
    /\ \/ First(r) = First(owners[n]) /\ UNCHANGED <<announced, told>>
       \/ Handover(n, First(owners[n]), First(r))

\* Each list agrees with the queues after a change.
LEMMA ListsFollow ==
    ASSUME IInv, NEW n \in Names, NEW r, Relists(n, r), NEW c \in Conns
    PROVE  /\ OwnList(owned'[c])
           /\ owned'[c] = <<>> <=> owned[c] = <<>>
           /\ Lists(owned'[c], n) <=> In(r, c)
           /\ \A m \in Names : m # n => (Lists(owned'[c], m) <=> Lists(owned[c], m))
<1> DEFINE w == owned[c]
           v == owned'[c]
           k == CHOOSE i \in DOMAIN w : w[i] = n
<1>1. OwnList(w) /\ (In(owners[n], c) <=> Lists(w, n))
  BY DEF IInv
<1>2. \/ v = w /\ (In(r, c) <=> In(owners[n], c))
      \/ v = Append(w, n) /\ w # <<>> /\ ~In(owners[n], c) /\ In(r, c)
      \/ v = RemoveAt(w, k) /\ In(owners[n], c) /\ ~In(r, c)
  BY DEF Relists, Unlist
<1>3. Lists(w, n) => k \in DOMAIN w /\ w[k] = n
  BY DEF Lists
<1> HIDE DEF w, v, k
<1>4. CASE v = w /\ (In(r, c) <=> In(owners[n], c))
  BY <1>1, <1>4 DEF w, v
<1>5. CASE v = Append(w, n) /\ w # <<>> /\ ~In(owners[n], c) /\ In(r, c)
  <2>1. OwnList(v) /\ v # <<>> /\ \A m : Lists(v, m) <=> Lists(w, m) \/ m = n
    BY <1>1, <1>5, Listing
  <2> QED  BY <1>5, <2>1 DEF w, v
<1>6. CASE v = RemoveAt(w, k) /\ In(owners[n], c) /\ ~In(r, c)
  <2>1. OwnList(v) /\ v # <<>> /\ \A m : Lists(v, m) <=> Lists(w, m) /\ m # n
    BY <1>1, <1>3, <1>6, Unlisting
  <2>2. w # <<>>
    BY <1>1, <1>3, <1>6
  <2> QED  BY <1>6, <2>1, <2>2 DEF w, v
<1> QED  BY <1>2, <1>4, <1>5, <1>6

\* The head of a queue is in it.
LEMMA FirstIsIn ==
    ASSUME NEW q, Queue(q)
    PROVE  /\ First(q) \in Conns \cup {Nobody}
           /\ First(q) = Nobody <=> q = <<>>
           /\ First(q) \in Conns => In(q, First(q)) /\ At(q, First(q), 1)
<1>1. q \in Seq(Owners) /\ DOMAIN q = 1 .. Len(q) /\ Len(q) \in Nat
  BY LenProperties DEF Queue
<1>2. CASE q = <<>>
  BY <1>2, ConnsAssumption DEF First
<1>3. CASE q # <<>>
  <2>1. 1 \in DOMAIN q /\ q[1] \in Owners /\ First(q) = q[1].conn
    BY <1>1, <1>3, EmptySeq, LenProperties DEF First
  <2>2. First(q) \in Conns
    BY <2>1 DEF Owners
  <2> QED  BY <1>3, <2>1, <2>2, ConnsAssumption DEF In, At
<1> QED  BY <1>2, <1>3

\* A change keeps the invariant, and the signal it sends continues the chain.
LEMMA ChangeKeeps ==
    ASSUME IInv, NEW n \in Names, NEW r, Changes(n, r), conn' = conn, last' \in Requests
    PROVE  /\ IInv'
           /\ \A m \in Names : announced'[m] # announced[m] => announced'[m].old = announced[m].new
<1> DEFINE old == First(owners[n])
           new == First(r)
<1>1. /\ Queue(r) /\ Queue(owners[n]) /\ owners \in [Names -> Seq(Owners)] /\ r \in Seq(Owners)
      /\ owners' = [owners EXCEPT ![n] = r]
  BY DEF IInv, TypeOK, Changes, Queue
<1>2. owners'[n] = r /\ \A m \in Names : m # n => owners'[m] = owners[m]
  BY <1>1
<1>3. /\ old \in Conns \cup {Nobody} /\ new \in Conns \cup {Nobody}
      /\ new \in Conns => In(r, new)
  BY <1>1, FirstIsIn
<1>4. \A m \in Names : announced[m].new = First(owners[m])
  BY DEF IInv
<1>5. \/ new = old /\ announced' = announced /\ told' = told
      \/ /\ announced' = [announced EXCEPT ![n] = [old |-> old, new |-> new]]
         /\ told' = [c \in Conns |-> IF c = new THEN told[c] \cup {n}
                                     ELSE IF c = old /\ conn[c] = "active" THEN told[c] \ {n}
                                     ELSE told[c]]
  BY DEF Changes, Handover
<1>6. \A c \in Conns :
         /\ OwnList(owned'[c])
         /\ owned'[c] = <<>> <=> owned[c] = <<>>
         /\ Lists(owned'[c], n) <=> In(r, c)
         /\ \A m \in Names : m # n => (Lists(owned'[c], m) <=> Lists(owned[c], m))
  BY ListsFollow DEF Changes
<1> HIDE DEF old, new
<1>7. /\ announced \in [Names -> [old : Conns \cup {Nobody}, new : Conns \cup {Nobody}]]
      /\ told \in [Conns -> SUBSET Names]
  BY DEF IInv, TypeOK
<1>8. /\ announced' \in [Names -> [old : Conns \cup {Nobody}, new : Conns \cup {Nobody}]]
      /\ announced'[n].new = new
      /\ \A m \in Names : m # n => announced'[m] = announced[m]
      /\ announced'[n] # announced[n] => announced'[n].old = old
  <2>1. CASE new = old /\ announced' = announced
    BY <1>4, <1>7, <2>1 DEF old
  <2>2. CASE announced' = [announced EXCEPT ![n] = [old |-> old, new |-> new]]
    BY <1>3, <1>7, <2>2
  <2> QED  BY <1>5, <2>1, <2>2
<1>9. told' \in [Conns -> SUBSET Names]
  BY <1>5, <1>7
<1>10. TypeOK'
  <2>1. owned' \in [Conns -> Seq(Names \cup {Base})]
    BY <1>6 DEF Changes, Relists, OwnList
  <2> QED  BY <1>1, <1>8, <1>9, <2>1 DEF IInv, TypeOK
<1>11. \A m \in Names : Queue(owners'[m]) /\ announced'[m].new = First(owners'[m])
  BY <1>1, <1>2, <1>4, <1>8 DEF IInv, new
<1>12. \A c \in Conns, m \in Names : In(owners'[m], c) <=> Lists(owned'[c], m)
  BY <1>2, <1>6 DEF IInv
<1>13. ASSUME NEW c \in Conns PROVE Lifecycle(c)'
  <2>1. conn[c] = "new" => told'[c] = {}
    <3> SUFFICES ASSUME conn[c] = "new" PROVE told'[c] = {}
      OBVIOUS
    <3>1. owned[c] = <<>> /\ told[c] = {}
      BY DEF IInv, Lifecycle
    <3>2. owned'[c] = <<>> /\ ~Lists(owned'[c], n)
      BY <1>6, <3>1 DEF Lists
    <3>3. c # new
      BY <1>3, <1>6, <3>2
    <3> QED  BY <1>5, <3>1, <3>3
  <2> QED  BY <1>6, <2>1 DEF IInv, Lifecycle
<1>14. ASSUME NEW c \in Conns, conn[c] = "active"
       PROVE  told'[c] = {m \in Names : First(owners'[m]) = c}
  <2>1. told[c] = {m \in Names : First(owners[m]) = c}
    BY <1>14 DEF IInv
  <2>2. First(owners'[n]) = new /\ First(owners[n]) = old
        /\ \A m \in Names : m # n => First(owners'[m]) = First(owners[m])
    BY <1>2 DEF new, old
  <2>3. ASSUME NEW m \in Names PROVE m \in told'[c] <=> First(owners'[m]) = c
    BY <1>5, <1>14, <2>1, <2>2
  <2> QED  BY <1>9, <2>3
<1>15. IInv'
  BY <1>6, <1>10, <1>11, <1>12, <1>13, <1>14 DEF IInv
<1> QED  BY <1>4, <1>8, <1>15 DEF old

----------------------------------------------------------------------------
(* Every request is a change.                                              *)

\* The others keep their order; only c may pass, by REPLACE_EXISTING.
InOrder(q, r, c, f) ==
    \A x, y : Before(q, x, y) /\ Before(r, y, x) => y = c /\ "replace" \in f

\* The code tells c where it is in the queue r.
TrueReply(r, c, code) ==
    /\ code \in {"primary", "already"} => At(r, c, 1)
    /\ code = "queued" => \E i \in 2 .. Len(r) : At(r, c, i)
    /\ code \in {"exists", "released", "nonexistent", "notowner"} => ~In(r, c)

\* A queue nobody entered or moved in is in order.
LEMMA KeptOrder ==
    ASSUME NEW q, Queue(q), NEW r, \A x, y : Before(r, x, y) => Before(q, x, y), NEW c, NEW f
    PROVE  InOrder(q, r, c, f)
BY Asymmetric DEF InOrder

\* A name that stays as it is.
LEMMA NoChange ==
    ASSUME IInv, NEW n \in Names, UNCHANGED <<owners, owned, announced, told>>, NEW c, NEW f
    PROVE  Changes(n, owners[n]) /\ InOrder(owners[n], owners[n], c, f)
<1>1. Queue(owners[n]) /\ owners' = [owners EXCEPT ![n] = owners[n]]
  BY DEF IInv, TypeOK
<1>2. Relists(n, owners[n])
  BY DEF IInv, TypeOK, Relists
<1>3. InOrder(owners[n], owners[n], c, f)
  BY <1>1, KeptOrder
<1> QED  BY <1>1, <1>2, <1>3 DEF Changes

\* The primary owner is the first of the queue.
LEMMA Primary ==
    ASSUME IInv, NEW n \in Names
    PROVE  /\ PrimaryOwner(n) = First(owners[n])
           /\ \A c : HasOwner(n, c) <=> In(owners[n], c)
           /\ owners[n] # <<>> => 1 \in DOMAIN owners[n] /\ First(owners[n]) = owners[n][1].conn
                                  /\ Head(owners[n]) = owners[n][1] /\ Len(owners[n]) >= 1
<1>1. owners[n] \in Seq(Owners)
  BY DEF IInv, Queue
<1>2. owners[n] # <<>> => Len(owners[n]) >= 1 /\ 1 \in DOMAIN owners[n]
  BY <1>1, LenProperties, EmptySeq
<1> QED  BY <1>1, <1>2 DEF PrimaryOwner, First, HasOwner, In

\* bus_service_remove_owner changes the name: c leaves, nobody else moves.
LEMMA RemoveOwnerChanges ==
    ASSUME IInv, NEW n \in Names, NEW c \in Conns, HasOwner(n, c), RemoveOwner(n, c), NEW f
    PROVE  \E r : Changes(n, r) /\ InOrder(owners[n], r, c, f) /\ ~In(r, c)
<1> DEFINE q == owners[n]
           i == FindOwnerLink(n, c)
           r == RemoveAt(q, i)
<1>1. i \in DOMAIN q /\ q[i].conn = c
  BY DEF HasOwner, FindOwnerLink
<1>2. Queue(q)
  BY DEF IInv
<1>3. owners' = [owners EXCEPT ![n] = r] /\ owned' = RemoveOwned(n, c)
  BY DEF RemoveOwner
<1>4. IF First(q) = c THEN Handover(n, c, First(r)) ELSE announced' = announced /\ told' = told
  BY Primary DEF RemoveOwner, First
<1>h. First(q) = q[1].conn /\ 1 \in DOMAIN q
  BY <1>1, <1>2, Primary, EmptySeq DEF Queue
<1>5. i # 1 <=> First(q) # c
  BY <1>1, <1>2, <1>h DEF Queue, Distinct
<1> HIDE DEF q, i
<1>6. /\ Queue(r)
      /\ \A d : In(r, d) <=> In(q, d) /\ d # q[i].conn
      /\ i # 1 => First(r) = First(q)
      /\ \A x, y : Before(r, x, y) => Before(q, x, y)
  BY <1>1, <1>2, Leaving
<1> HIDE DEF r
<1>7. Relists(n, r)
  <2>1. owned \in [Conns -> Seq(Names \cup {Base})]
    BY DEF IInv, TypeOK
  <2>2. /\ owned' = [d \in Conns |-> owned'[d]] /\ owned'[c] = Unlist(owned[c], n)
        /\ \A d \in Conns : d # c => owned'[d] = owned[d]
    <3>1. owned' = [owned EXCEPT ![c] = Unlist(owned[c], n)]
      BY <1>3 DEF RemoveOwned, Unlist
    <3> QED  BY <2>1, <3>1
  <2>3. In(q, c)
    BY <1>1 DEF In
  <2> QED  BY <1>1, <1>6, <2>2, <2>3 DEF Relists, q
<1>8. InOrder(q, r, c, f)
  BY <1>2, <1>6, KeptOrder
<1>9. Changes(n, r)
  BY <1>3, <1>4, <1>5, <1>6, <1>7 DEF Changes, q
<1> QED  BY <1>1, <1>6, <1>8, <1>9 DEF q

\* bus_registry_ensure: c is the only owner of the name.
LEMMA EnsureChanges ==
    ASSUME IInv, NEW n \in Names, NEW c \in Conns, owned[c] # <<>>, NEW f \in SUBSET Flags,
           Ensure(n, c, f)
    PROVE  \E r : Changes(n, r) /\ InOrder(owners[n], r, c, f) /\ At(r, c, 1)
<1> DEFINE o == Owner(c, f)
           r == <<o>>
<1>1. o \in Owners /\ o.conn = c
  BY DEF Owner, Owners
<1>2. /\ owners[n] = <<>> /\ owners' = [owners EXCEPT ![n] = r]
      /\ owned' = [owned EXCEPT ![c] = Append(owned[c], n)] /\ Handover(n, Nobody, c)
  BY DEF Ensure
<1> HIDE DEF o
<1>3. r \in Seq(Owners) /\ DOMAIN r = {1} /\ r[1] = o /\ Head(r) = o /\ r # <<>>
  BY <1>1
<1> HIDE DEF r
<1>4. Queue(r) /\ First(r) = c /\ First(owners[n]) = Nobody /\ At(r, c, 1)
  BY <1>1, <1>2, <1>3 DEF Queue, Distinct, Waiting, First, At
<1>5. \A d : ~In(owners[n], d) /\ (In(r, d) <=> d = c)
  BY <1>1, <1>2, <1>3 DEF In
<1>6. Relists(n, r)
  <2>1. owned \in [Conns -> Seq(Names \cup {Base})]
    BY DEF IInv, TypeOK
  <2> QED  BY <1>2, <1>5, <2>1 DEF Relists
<1>7. InOrder(owners[n], r, c, f)
  BY <1>2 DEF InOrder, Before
<1> QED  BY <1>2, <1>4, <1>6, <1>7 DEF Changes

\* The primary owner asks again: it keeps its place.
LEMMA ReflagChanges ==
    ASSUME IInv, NEW n \in Names, NEW c \in Conns, NEW f \in SUBSET Flags, Reflag(n, c, f)
    PROVE  \E r : Changes(n, r) /\ InOrder(owners[n], r, c, f) /\ At(r, c, 1)
<1> DEFINE o == Owner(c, f)
           q == owners[n]
           r == ReplaceAt(q, 1, o)
<1>1. o \in Owners /\ o.conn = c
  BY DEF Owner, Owners
<1>2. Queue(q) /\ First(q) = c /\ q # <<>>
  BY Primary, ConnsAssumption DEF IInv, Reflag, First
<1>3. 1 \in DOMAIN q /\ q[1].conn = c
  BY <1>2, Primary
<1>4. /\ owners' = [owners EXCEPT ![n] = r]
      /\ owned' = owned /\ announced' = announced /\ told' = told
  BY DEF Reflag, ReplaceAt, IInv, TypeOK
<1> HIDE DEF o, q, r
<1>5. /\ r \in Seq(Owners) /\ Distinct(r) /\ DOMAIN r = DOMAIN q
      /\ \A d : In(r, d) <=> In(q, d)
      /\ \A j \in DOMAIN r : r[j].conn = q[j].conn /\ (r[j] = o \/ r[j] = q[j])
      /\ r[1] = o
      /\ \A x, y : Before(r, x, y) => Before(q, x, y)
  BY <1>1, <1>2, <1>3, Reflagging DEF r
<1>6. Waiting(r)
  <2> SUFFICES ASSUME NEW j \in DOMAIN r, j > 1 PROVE ~r[j].noqueue
    BY DEF Waiting
  <2>1. j \in Nat /\ j # 1
    BY <1>5, LenProperties
  <2>2. r[j] # o
    BY <1>3, <1>5, <2>1 DEF Distinct
  <2> QED  BY <1>2, <1>5, <2>2 DEF Queue, Waiting
<1>7. First(r) = c
  BY <1>1, <1>3, <1>5, EmptySeq, LenProperties DEF First
<1>8. Relists(n, r)
  BY <1>4, <1>5 DEF IInv, TypeOK, Relists, q
<1>9. InOrder(q, r, c, f)
  BY <1>2, <1>5, KeptOrder
<1>10. At(r, c, 1)
  BY <1>1, <1>3, <1>5 DEF At
<1>11. Changes(n, r)
  BY <1>2, <1>4, <1>5, <1>6, <1>7, <1>8 DEF Changes, Queue, q
<1> QED  BY <1>9, <1>10, <1>11 DEF q

\* c entered the queue, or was in it: the list of c names n.
LEMMA AddOwnedLists ==
    ASSUME IInv, NEW n \in Names, NEW c \in Conns, owned[c] # <<>>
    PROVE  /\ AddOwned(n, c) = [d \in Conns |-> AddOwned(n, c)[d]]
           /\ \A d \in Conns : d # c => AddOwned(n, c)[d] = owned[d]
           /\ In(owners[n], c) => AddOwned(n, c)[c] = owned[c]
           /\ ~In(owners[n], c) => AddOwned(n, c)[c] = Append(owned[c], n)
<1>1. owned \in [Conns -> Seq(Names \cup {Base})]
  BY DEF IInv, TypeOK
<1>2. HasOwner(n, c) <=> In(owners[n], c)
  BY Primary
<1> QED  BY <1>1, <1>2 DEF AddOwned

\* Somebody else is the primary owner, and c is put into the queue.
LEMMA AddOwnerJoins ==
    ASSUME IInv, NEW n \in Names, NEW c \in Conns, NEW f \in SUBSET Flags, Other(n, c)
    PROVE  LET q == owners[n]
               r == AddOwner(n, c, f)
           IN  /\ Queue(q) /\ q # <<>> /\ First(q) = q[1].conn /\ First(q) # c /\ Head(q) = q[1]
               /\ Joined(q, r, Owner(c, f))
               /\ Owner(c, f) \in Owners /\ Owner(c, f).conn = c
               /\ "replace" \in f => r[2] = Owner(c, f)
               /\ InOrder(q, r, c, f)
               /\ Head(r) = q[1] /\ r # <<>> /\ First(r) = First(q)
<1> DEFINE q == owners[n]
           r == AddOwner(n, c, f)
<1>1. Queue(q) /\ q # <<>> /\ First(q) # c
  BY Primary DEF IInv, Other, First
<1>2. First(q) = q[1].conn /\ Head(q) = q[1]
  BY <1>1, Primary
<1>3. /\ Joined(q, r, Owner(c, f))
      /\ "replace" \in f => r[2] = Owner(c, f)
      /\ \A x, y : Before(q, x, y) /\ Before(r, y, x) => y = c /\ "replace" \in f
  BY <1>1, AddOwnerQueue
<1> HIDE DEF q, r
<1>4. Head(r) = q[1] /\ r # <<>>
  BY <1>3, EmptySeq DEF Joined
<1>5. Owner(c, f) \in Owners /\ Owner(c, f).conn = c
  BY DEF Owner, Owners
<1>6. First(r) = First(q)
  BY <1>2, <1>4 DEF First
<1>7. InOrder(q, r, c, f)
  BY <1>3 DEF InOrder
<1> QED  BY <1>1, <1>2, <1>3, <1>4, <1>5, <1>6, <1>7 DEF q, r

\* c waits: it is somewhere behind the primary owner.
LEMMA EnqueueChanges ==
    ASSUME IInv, NEW n \in Names, NEW c \in Conns, owned[c] # <<>>, NEW f \in SUBSET Flags,
           Enqueue(n, c, f)
    PROVE  \E r : Changes(n, r) /\ InOrder(owners[n], r, c, f) /\ \E i \in 2 .. Len(r) : At(r, c, i)
<1> DEFINE o == Owner(c, f)
           q == owners[n]
           r == AddOwner(n, c, f)
<1>1. /\ Other(n, c) /\ "noqueue" \notin f
      /\ owners' = [owners EXCEPT ![n] = r] /\ owned' = AddOwned(n, c)
      /\ announced' = announced /\ told' = told
  BY DEF Enqueue
<1>2. /\ Joined(q, r, o) /\ o.conn = c /\ InOrder(q, r, c, f) /\ First(r) = First(q)
  BY <1>1, AddOwnerJoins
<1>3. ~o.noqueue
  BY <1>1 DEF Owner
<1>4. /\ owned' = [d \in Conns |-> owned'[d]]
      /\ \A d \in Conns : d # c => owned'[d] = owned[d]
      /\ In(q, c) => owned'[c] = owned[c]
      /\ ~In(q, c) => owned'[c] = Append(owned[c], n)
  BY <1>1, AddOwnedLists
<1> HIDE DEF o, q, r
<1>5. DOMAIN r = 1 .. Len(r) /\ Len(r) \in Nat
  BY <1>2, LenProperties DEF Joined
<1>6. Queue(r)
  <2>1. Waiting(r)
    BY <1>2, <1>3, <1>5 DEF Joined, Waiting
  <2> QED  BY <1>2, <2>1 DEF Joined, Queue
<1>7. \A d : In(r, d) <=> In(q, d) \/ d = c
  BY <1>2 DEF Joined
<1>8. Relists(n, r)
  BY <1>4, <1>7 DEF Relists, q
<1>9. \E i \in 2 .. Len(r) : At(r, c, i)
  BY <1>2, <1>5 DEF Joined, At
<1>10. Changes(n, r)
  BY <1>1, <1>2, <1>6, <1>8 DEF Changes, q
<1> QED  BY <1>2, <1>9, <1>10 DEF q

\* c takes the name over, and the owner before waits if it agreed to.
LEMMA ReplaceChanges ==
    ASSUME IInv, NEW n \in Names, NEW c \in Conns, owned[c] # <<>>, NEW f \in SUBSET Flags,
           Replace(n, c, f)
    PROVE  \E r : Changes(n, r) /\ InOrder(owners[n], r, c, f) /\ At(r, c, 1)
<1> DEFINE o == Owner(c, f)
           q == owners[n]
           p == AddOwner(n, c, f)
           old == q[1]
           h == Head(p)
           w == AddOwned(n, c)
<1>1. Other(n, c) /\ "replace" \in f
  BY DEF Replace, MayReplace
<1>2. /\ Queue(q) /\ q # <<>> /\ First(q) = old.conn /\ First(q) # c
      /\ Joined(q, p, o) /\ o \in Owners /\ o.conn = c /\ p[2] = o
      /\ InOrder(q, p, c, f) /\ h = old
  BY <1>1, AddOwnerJoins
<1>3. IF h.noqueue
      THEN /\ owners' = [owners EXCEPT ![n] = Tail(p)]
           /\ owned' = [w EXCEPT ![h.conn] = Unlist(w[h.conn], n)]
           /\ Handover(n, h.conn, c)
      ELSE /\ owners' = [owners EXCEPT ![n] = SwapOwner(p)]
           /\ owned' = w
           /\ Handover(n, h.conn, c)
  BY DEF Replace, Unlist
<1>4. /\ w = [d \in Conns |-> w[d]]
      /\ \A d \in Conns : d # c => w[d] = owned[d]
      /\ In(q, c) => w[c] = owned[c]
      /\ ~In(q, c) => w[c] = Append(owned[c], n)
  BY AddOwnedLists
<1>5. p[1] = old /\ \A d : In(p, d) <=> In(q, d) \/ d = c
  BY <1>2 DEF Joined
<1>6. old.conn \in Conns /\ In(q, old.conn) /\ old.conn # c
  BY <1>1, <1>2, FirstIsIn
<1> HIDE DEF o, q, p, old, h, w
<1>7. CASE old.noqueue
  <2> DEFINE r == Tail(p)
  <2>1. /\ Queue(r) /\ First(r) = c
        /\ \A d : In(r, d) <=> In(p, d) /\ d # old.conn
        /\ \A x, y : Before(r, x, y) => Before(p, x, y)
    BY <1>2, <1>5, Replacing
  <2>2. /\ owners' = [owners EXCEPT ![n] = r]
        /\ Handover(n, old.conn, c)
    BY <1>2, <1>3, <1>7
  <2> DEFINE v == Unlist(owned[old.conn], n)
  <2>3. owned' = [w EXCEPT ![old.conn] = v]
    BY <1>2, <1>3, <1>4, <1>6, <1>7
  <2> HIDE DEF r, v
  <2>4. /\ owned' = [d \in Conns |-> owned'[d]]
        /\ owned'[old.conn] = v
        /\ \A d \in Conns : d # old.conn => owned'[d] = w[d]
    BY <1>4, <1>6, <2>3
  <2>5. Relists(n, r)
    <3> SUFFICES ASSUME NEW d \in Conns
                 PROVE  \/ owned'[d] = owned[d] /\ (In(r, d) <=> In(q, d))
                        \/ owned'[d] = Append(owned[d], n) /\ owned[d] # <<>> /\ ~In(q, d) /\ In(r, d)
                        \/ owned'[d] = Unlist(owned[d], n) /\ In(q, d) /\ ~In(r, d)
      BY <2>4 DEF Relists, q
    <3>1. CASE d = old.conn
      BY <1>6, <2>1, <2>4, <3>1 DEF v
    <3>2. CASE d # old.conn
      BY <1>4, <1>5, <2>1, <2>4, <3>2
    <3> QED  BY <3>1, <3>2
  <2>6. InOrder(q, r, c, f)
    BY <1>2, <2>1 DEF InOrder
  <2>7. At(r, c, 1)
    BY <2>1, FirstIsIn
  <2>8. Changes(n, r)
    BY <1>2, <2>1, <2>2, <2>5 DEF Changes, q
  <2> QED  BY <2>6, <2>7, <2>8 DEF q
<1>8. CASE ~old.noqueue
  <2> DEFINE r == SwapOwner(p)
  <2>1. /\ Queue(r) /\ First(r) = c
        /\ \A d : In(r, d) <=> In(p, d)
        /\ \A x, y : Before(r, x, y) => Before(p, x, y) \/ x = old.conn
    BY <1>2, <1>5, <1>8, Swapping
  <2>2. /\ owners' = [owners EXCEPT ![n] = r] /\ owned' = w
        /\ Handover(n, old.conn, c)
    BY <1>2, <1>3, <1>8
  <2> HIDE DEF r
  <2>3. Relists(n, r)
    BY <1>4, <1>5, <2>1, <2>2 DEF Relists, q
  <2>4. InOrder(q, r, c, f)
    <3> SUFFICES ASSUME NEW x, NEW y, Before(q, x, y), Before(r, y, x) PROVE y = c /\ "replace" \in f
      BY DEF InOrder
    <3>1. y # old.conn
      BY <1>2, Asymmetric
    <3> QED  BY <1>2, <2>1, <3>1 DEF InOrder
  <2>5. At(r, c, 1)
    BY <2>1, FirstIsIn
  <2>6. Changes(n, r)
    BY <1>2, <2>1, <2>2, <2>3 DEF Changes, q
  <2> QED  BY <2>4, <2>5, <2>6 DEF q
<1> QED  BY <1>7, <1>8

\* RequestName changes the name and answers the truth.
LEMMA RequestChanges ==
    ASSUME IInv, NEW c \in Conns, NEW n \in Names, NEW f \in SUBSET Flags, RequestName(c, n, f)
    PROVE  \E r, code : /\ Changes(n, r) /\ InOrder(owners[n], r, c, f)
                        /\ code \in Codes /\ TrueReply(r, c, code)
                        /\ last' = [conn |-> c, name |-> n, flags |-> f, code |-> code]
<1>1. owned[c] # <<>>
  BY DEF RequestName, IInv, Lifecycle
<1>2. CASE UNCHANGED <<owners, owned, announced, told>> /\ Reply(c, n, f, "limit")
  <2>1. Changes(n, owners[n]) /\ InOrder(owners[n], owners[n], c, f)
    BY <1>2, NoChange
  <2> QED  BY <1>2, <2>1 DEF TrueReply, Reply, Codes
<1>3. CASE Ensure(n, c, f) /\ Reply(c, n, f, "primary")
  <2>1. PICK r : Changes(n, r) /\ InOrder(owners[n], r, c, f) /\ At(r, c, 1)
    BY <1>1, <1>3, EnsureChanges
  <2> QED  BY <1>3, <2>1 DEF TrueReply, Reply, Codes
<1>4. CASE Reflag(n, c, f) /\ Reply(c, n, f, "already")
  <2>1. PICK r : Changes(n, r) /\ InOrder(owners[n], r, c, f) /\ At(r, c, 1)
    BY <1>4, ReflagChanges
  <2> QED  BY <1>4, <2>1 DEF TrueReply, Reply, Codes
<1>5. CASE Decline(n, c, f) /\ Reply(c, n, f, "exists")
  <2>1. \E r : Changes(n, r) /\ InOrder(owners[n], r, c, f) /\ ~In(r, c)
    <3>1. CASE HasOwner(n, c)
      BY <1>5, <3>1, RemoveOwnerChanges DEF Decline
    <3>2. CASE ~HasOwner(n, c)
      <4>1. Changes(n, owners[n]) /\ InOrder(owners[n], owners[n], c, f)
        BY <1>5, <3>2, NoChange DEF Decline
      <4>2. ~In(owners[n], c)
        BY <3>2, Primary
      <4> QED  BY <4>1, <4>2
    <3> QED  BY <3>1, <3>2
  <2>2. PICK r : Changes(n, r) /\ InOrder(owners[n], r, c, f) /\ ~In(r, c)
    BY <2>1
  <2> QED  BY <1>5, <2>2 DEF TrueReply, Reply, Codes
<1>6. CASE Enqueue(n, c, f) /\ Reply(c, n, f, "queued")
  <2>1. PICK r : Changes(n, r) /\ InOrder(owners[n], r, c, f) /\ \E i \in 2 .. Len(r) : At(r, c, i)
    BY <1>1, <1>6, EnqueueChanges
  <2> QED  BY <1>6, <2>1 DEF TrueReply, Reply, Codes
<1>7. CASE Replace(n, c, f) /\ Reply(c, n, f, "primary")
  <2>1. PICK r : Changes(n, r) /\ InOrder(owners[n], r, c, f) /\ At(r, c, 1)
    BY <1>1, <1>7, ReplaceChanges
  <2> QED  BY <1>7, <2>1 DEF TrueReply, Reply, Codes
<1> QED  BY <1>2, <1>3, <1>4, <1>5, <1>6, <1>7 DEF RequestName

\* ReleaseName changes the name and answers the truth.
LEMMA ReleaseChanges ==
    ASSUME IInv, NEW c \in Conns, NEW n \in Names, ReleaseName(c, n)
    PROVE  \E r, code : /\ Changes(n, r) /\ InOrder(owners[n], r, c, {})
                        /\ code \in Codes /\ TrueReply(r, c, code)
                        /\ last' = [conn |-> c, name |-> n, flags |-> {}, code |-> code]
<1>1. ASSUME UNCHANGED <<owners, owned, announced, told>>, ~HasOwner(n, c),
             Reply(c, n, {}, "nonexistent") \/ Reply(c, n, {}, "notowner")
      PROVE  \E r, code : /\ Changes(n, r) /\ InOrder(owners[n], r, c, {})
                          /\ code \in Codes /\ TrueReply(r, c, code)
                          /\ last' = [conn |-> c, name |-> n, flags |-> {}, code |-> code]
  <2>1. Changes(n, owners[n]) /\ InOrder(owners[n], owners[n], c, {})
    BY <1>1, NoChange
  <2>2. ~In(owners[n], c)
    BY <1>1, Primary
  <2> QED  BY <1>1, <2>1, <2>2 DEF TrueReply, Reply, Codes
<1>2. CASE HasOwner(n, c) /\ RemoveOwner(n, c) /\ Reply(c, n, {}, "released")
  <2>1. PICK r : Changes(n, r) /\ InOrder(owners[n], r, c, {}) /\ ~In(r, c)
    BY <1>2, RemoveOwnerChanges
  <2> QED  BY <1>2, <2>1 DEF TrueReply, Reply, Codes
<1>3. owners[n] = <<>> => ~HasOwner(n, c)
  BY DEF HasOwner
<1> QED  BY <1>1, <1>2, <1>3 DEF ReleaseName

\* A turn of the loop drops a name, and if that is the unique name the last one.
LEMMA DropChanges ==
    ASSUME IInv, NEW c \in Conns, DropService(c)
    PROVE  \/ /\ \A n \in Names : ~In(owners[n], c)
              /\ owned' = [owned EXCEPT ![c] = <<>>]
              /\ UNCHANGED <<owners, announced, told>>
           \/ \E n \in Names : \E r : Changes(n, r) /\ InOrder(owners[n], r, c, {})
<1> DEFINE w == owned[c]
<1>1. OwnList(w) /\ w # <<>> /\ w \in Seq(Names \cup {Base}) /\ w[1] = Base
  BY DEF IInv, OwnList, DropService
<1>2. /\ Len(w) \in Nat /\ Len(w) >= 1 /\ DOMAIN w = 1 .. Len(w) /\ Last(w) = w[Len(w)]
      /\ 1 \in DOMAIN w /\ Len(w) \in DOMAIN w
  BY <1>1, LenProperties, EmptySeq DEF Last
<1>3. CASE Last(w) = Base
  <2>1. Len(w) = 1
    BY <1>1, <1>2, <1>3 DEF OwnList
  <2>2. Front(w) = <<>>
    BY <1>1, <2>1, SubSeqProperties, EmptySeq DEF Front
  <2>3. \A n \in Names : ~Lists(w, n)
    BY <1>1, <1>2, <2>1, NamesAssumption DEF Lists
  <2> QED  BY <1>3, <2>2, <2>3 DEF DropService, IInv
<1>4. CASE Last(w) # Base
  <2>1. Last(w) \in Names /\ Lists(w, Last(w))
    BY <1>1, <1>2, <1>4, LenProperties DEF Lists
  <2>2. HasOwner(Last(w), c)
    BY <2>1, Primary DEF IInv
  <2>3. RemoveOwner(Last(w), c)
    BY <1>4 DEF DropService
  <2> QED  BY <2>1, <2>2, <2>3, RemoveOwnerChanges
<1> QED  BY <1>3, <1>4

----------------------------------------------------------------------------
(* The specification.                                                      *)

\* Nothing is owned, queued or announced in the beginning.
LEMMA InitHolds == Init => IInv
<1> SUFFICES ASSUME Init PROVE IInv
  OBVIOUS
<1>1. TypeOK
  <2>1. last \in Requests
    BY DEF Init, Requests, Codes, Flags
  <2> QED  BY <2>1 DEF Init, TypeOK
<1>2. \A n \in Names : owners[n] = <<>> /\ announced[n].new = Nobody
  BY DEF Init
<1>3. \A c \in Conns : owned[c] = <<>> /\ told[c] = {} /\ conn[c] = "new"
  BY DEF Init
<1>4. \A n \in Names : Queue(owners[n]) /\ announced[n].new = First(owners[n])
  <2>1. <<>> \in Seq(Owners) /\ DOMAIN <<>> = {}
    OBVIOUS
  <2>2. Queue(<<>>) /\ First(<<>>) = Nobody
    BY <2>1 DEF Queue, Distinct, Waiting, First
  <2> QED  BY <1>2, <2>2
<1>5. \A c \in Conns : OwnList(owned[c]) /\ Lifecycle(c)
  <2>1. <<>> \in Seq(Names \cup {Base}) /\ DOMAIN <<>> = {}
    OBVIOUS
  <2>2. OwnList(<<>>)
    BY <2>1 DEF OwnList
  <2> QED  BY <1>3, <2>2 DEF Lifecycle
<1>6. \A c \in Conns, n \in Names : In(owners[n], c) <=> Lists(owned[c], n)
  BY <1>2, <1>3 DEF In, Lists
<1> QED  BY <1>1, <1>3, <1>4, <1>5, <1>6 DEF IInv

\* A step in which only connections begin or end keeps the invariant.
LEMMA ConnectionKeeps ==
    ASSUME IInv, NEW c \in Conns,
           \/ Hello(c) \/ Disconnect(c) \/ Disconnected(c)
           \/ /\ conn[c] = "closing" /\ conn' = conn /\ last' = last
              /\ \A n \in Names : ~In(owners[n], c)
              /\ owned' = [owned EXCEPT ![c] = <<>>]
              /\ UNCHANGED <<owners, announced, told>>
    PROVE  IInv'
<1>1. TypeOK
  BY DEF IInv
<1>2. owners' = owners /\ announced' = announced /\ told' = told /\ last' = last
  BY DEF Hello, Disconnect, Disconnected
<1>3. /\ conn' \in [Conns -> {"new", "active", "closing", "gone"}]
      /\ owned' = [d \in Conns |-> owned'[d]]
      /\ \A d \in Conns : d # c => conn'[d] = conn[d] /\ owned'[d] = owned[d]
  BY <1>1 DEF Hello, Disconnect, Disconnected, TypeOK
<1>4. /\ OwnList(owned'[c]) /\ Lifecycle(c)'
      /\ \A n \in Names : In(owners[n], c) <=> Lists(owned'[c], n)
      /\ conn'[c] = "active" => told[c] = {n \in Names : First(owners[n]) = c}
  <2>1. CASE Hello(c)
    <3>1. conn[c] = "new" /\ owned[c] = <<>> /\ told[c] = {} /\ conn'[c] = "active"
      BY <1>1, <2>1 DEF Hello, IInv, Lifecycle, TypeOK
    <3>2. owned'[c] = <<Base>>
      BY <1>1, <2>1, <3>1 DEF Hello, TypeOK
    <3>3. OwnList(owned'[c]) /\ \A n \in Names : ~Lists(owned'[c], n)
      BY <3>2, NamesAssumption DEF OwnList, Lists
    <3>4. \A n \in Names : ~In(owners[n], c)
      BY <3>1 DEF IInv, Lists
    <3>5. ASSUME NEW n \in Names PROVE First(owners[n]) # c
      BY <3>4, FirstIsIn DEF IInv
    <3> QED  BY <3>1, <3>2, <3>3, <3>4, <3>5 DEF Lifecycle
  <2>2. CASE Disconnect(c)
    BY <1>1, <2>2 DEF Disconnect, IInv, Lifecycle, TypeOK
  <2>3. CASE Disconnected(c)
    BY <1>1, <2>3 DEF Disconnected, IInv, Lifecycle, TypeOK
  <2>4. CASE /\ conn[c] = "closing" /\ conn' = conn
             /\ \A n \in Names : ~In(owners[n], c)
             /\ owned' = [owned EXCEPT ![c] = <<>>]
    <3>1. owned'[c] = <<>>
      BY <1>1, <2>4 DEF TypeOK
    <3>2. OwnList(owned'[c]) /\ \A n \in Names : ~Lists(owned'[c], n)
      <4>1. <<>> \in Seq(Names \cup {Base}) /\ DOMAIN <<>> = {}
        OBVIOUS
      <4>2. OwnList(<<>>) /\ \A n \in Names : ~Lists(<<>>, n)
        BY <4>1 DEF OwnList, Lists
      <4> QED  BY <3>1, <4>2
    <3> QED  BY <2>4, <3>1, <3>2 DEF Lifecycle
  <2> QED  BY <2>1, <2>2, <2>3, <2>4
<1>5. TypeOK'
  <2>1. owned' \in [Conns -> Seq(Names \cup {Base})]
    <3>1. \A d \in Conns : owned'[d] \in Seq(Names \cup {Base})
      BY <1>3, <1>4 DEF IInv, OwnList
    <3> QED  BY <1>3, <3>1
  <2> QED  BY <1>1, <1>2, <1>3, <2>1 DEF TypeOK
<1>6. \A d \in Conns : OwnList(owned'[d]) /\ Lifecycle(d)'
  BY <1>2, <1>3, <1>4 DEF IInv, Lifecycle
<1>7. \A d \in Conns, n \in Names : In(owners[n], d) <=> Lists(owned'[d], n)
  BY <1>3, <1>4 DEF IInv
<1>8. \A d \in Conns : conn'[d] = "active" => told[d] = {n \in Names : First(owners[n]) = d}
  BY <1>3, <1>4 DEF IInv
<1>9. \A n \in Names : Queue(owners[n]) /\ announced[n].new = First(owners[n])
  BY DEF IInv
<1> QED  BY <1>2, <1>5, <1>6, <1>7, <1>8, <1>9 DEF IInv

\* What a step may never do, as the action properties say it.
ChainStep ==
    \A n \in Names : announced'[n] # announced[n] => announced'[n].old = announced[n].new

ReplyStep ==
    last' # last => TrueReply(owners'[last'.name], last'.conn, last'.code)

OrderStep ==
    \A n \in Names : \A x, y \in Conns :
        Before(owners[n], x, y) /\ Before(owners'[n], y, x) =>
            last'.conn = y /\ last'.name = n /\ "replace" \in last'.flags

\* A change of a name keeps the invariant and the order, whoever asked for it.
LEMMA RequestKeeps ==
    ASSUME IInv, NEW c \in Conns, NEW n \in Names, NEW f \in SUBSET Flags, NEW r, NEW code \in Codes,
           Changes(n, r), InOrder(owners[n], r, c, f), TrueReply(r, c, code), conn' = conn,
           \/ last' = [conn |-> c, name |-> n, flags |-> f, code |-> code]
           \/ last' = last /\ f = {}
    PROVE  IInv' /\ ChainStep /\ ReplyStep /\ OrderStep
<1>1. last' \in Requests
  BY DEF Requests, IInv, TypeOK
<1>2. IInv' /\ ChainStep
  BY <1>1, ChangeKeeps DEF ChainStep
<1>3. owners'[n] = r /\ \A m \in Names : m # n => owners'[m] = owners[m]
  BY DEF Changes, IInv, TypeOK
<1>4. ReplyStep
  BY <1>3 DEF ReplyStep
<1>5. OrderStep
  <2> SUFFICES ASSUME NEW m \in Names, NEW x \in Conns, NEW y \in Conns,
                      Before(owners[m], x, y), Before(owners'[m], y, x)
               PROVE  last'.conn = y /\ last'.name = m /\ "replace" \in last'.flags
    BY DEF OrderStep
  <2>1. CASE m = n
    <3>1. y = c /\ "replace" \in f
      BY <1>3, <2>1 DEF InOrder
    <3> QED  BY <2>1, <3>1
  <2>2. CASE m # n
    BY <1>3, <2>2, Asymmetric DEF IInv
  <2> QED  BY <2>1, <2>2
<1> QED  BY <1>2, <1>4, <1>5

\* Where the names stay as they are, nothing is announced, answered or moved.
LEMMA QuietStep ==
    ASSUME IInv, owners' = owners, announced' = announced, last' = last
    PROVE  ChainStep /\ ReplyStep /\ OrderStep
<1>1. ASSUME NEW n \in Names, NEW x, NEW y, Before(owners[n], x, y) PROVE ~Before(owners'[n], y, x)
  BY <1>1, Asymmetric DEF IInv
<1> QED  BY <1>1 DEF ChainStep, ReplyStep, OrderStep

\* Every step keeps the invariant and does only what it may.
LEMMA StepKeeps ==
    ASSUME IInv, [Next]_vars
    PROVE  IInv' /\ ChainStep /\ ReplyStep /\ OrderStep
<1>1. ASSUME NEW c \in Conns, NEW n \in Names, NEW f \in SUBSET Flags, RequestName(c, n, f)
      PROVE  IInv' /\ ChainStep /\ ReplyStep /\ OrderStep
  <2>1. PICK r, code : /\ Changes(n, r) /\ InOrder(owners[n], r, c, f)
                       /\ code \in Codes /\ TrueReply(r, c, code)
                       /\ last' = [conn |-> c, name |-> n, flags |-> f, code |-> code]
    BY <1>1, RequestChanges
  <2>2. conn' = conn
    BY <1>1 DEF RequestName
  <2> QED  BY <2>1, <2>2, RequestKeeps
<1>2. ASSUME NEW c \in Conns, NEW n \in Names, ReleaseName(c, n)
      PROVE  IInv' /\ ChainStep /\ ReplyStep /\ OrderStep
  <2>1. PICK r, code : /\ Changes(n, r) /\ InOrder(owners[n], r, c, {})
                       /\ code \in Codes /\ TrueReply(r, c, code)
                       /\ last' = [conn |-> c, name |-> n, flags |-> {}, code |-> code]
    BY <1>2, ReleaseChanges
  <2>2. conn' = conn /\ {} \in SUBSET Flags
    BY <1>2 DEF ReleaseName
  <2> QED  BY <2>1, <2>2, RequestKeeps
<1>3. ASSUME NEW c \in Conns, DropService(c)
      PROVE  IInv' /\ ChainStep /\ ReplyStep /\ OrderStep
  <2>1. conn[c] = "closing" /\ conn' = conn /\ last' = last
    BY <1>3 DEF DropService
  <2>2. CASE /\ \A n \in Names : ~In(owners[n], c)
             /\ owned' = [owned EXCEPT ![c] = <<>>]
             /\ UNCHANGED <<owners, announced, told>>
    <3>1. IInv'
      BY <2>1, <2>2, ConnectionKeeps
    <3> QED  BY <2>1, <2>2, <3>1, QuietStep
  <2>3. CASE \E n \in Names : \E r : Changes(n, r) /\ InOrder(owners[n], r, c, {})
    <3>1. PICK n \in Names : \E r : Changes(n, r) /\ InOrder(owners[n], r, c, {})
      BY <2>3
    <3>r. PICK r : Changes(n, r) /\ InOrder(owners[n], r, c, {})
      BY <3>1
    <3>2. "none" \in Codes /\ TrueReply(r, c, "none") /\ {} \in SUBSET Flags
      BY DEF Codes, TrueReply
    <3> QED  BY <2>1, <3>2, <3>r, RequestKeeps
  <2> QED  BY <1>3, <2>2, <2>3, DropChanges
<1>4. ASSUME NEW c \in Conns, Hello(c) \/ Disconnect(c) \/ Disconnected(c)
      PROVE  IInv' /\ ChainStep /\ ReplyStep /\ OrderStep
  <2>1. IInv'
    BY <1>4, ConnectionKeeps
  <2>2. owners' = owners /\ announced' = announced /\ last' = last
    BY <1>4 DEF Hello, Disconnect, Disconnected
  <2> QED  BY <2>1, <2>2, QuietStep
<1>5. CASE UNCHANGED vars
  <2>1. IInv'
    BY <1>5 DEF vars, IInv, TypeOK, Lifecycle
  <2>2. owners' = owners /\ announced' = announced /\ last' = last
    BY <1>5 DEF vars
  <2> QED  BY <2>1, <2>2, QuietStep
<1> QED  BY <1>1, <1>2, <1>3, <1>4, <1>5 DEF Next

\* The invariant says what the properties say.
LEMMA Consequences == IInv => OwnershipAgrees /\ WaitersAgreedToWait /\ SignalsTellTheTruth
<1> SUFFICES ASSUME IInv PROVE OwnershipAgrees /\ WaitersAgreedToWait /\ SignalsTellTheTruth
  OBVIOUS
<1>1. NoDuplicateOwner /\ WaitersAgreedToWait
  BY DEF IInv, Queue, Distinct, Waiting, NoDuplicateOwner, WaitersAgreedToWait
<1>2. OwnedMatchesOwners
  <2>1. \A c \in Conns, n \in Names : HasOwner(n, c) <=> Lists(owned[c], n)
    BY Primary DEF IInv
  <2> QED  BY <2>1 DEF IInv, OwnList, Lists, OwnedMatchesOwners
<1>3. SignalsTellTheTruth
  BY Primary DEF IInv, SignalsTellTheTruth
<1> QED  BY <1>1, <1>2, <1>3 DEF OwnershipAgrees

\* The invariant holds in every state.
LEMMA Invariance == Spec => []IInv
<1>1. IInv /\ [Next]_vars => IInv'
  BY StepKeeps
<1> QED  BY <1>1, InitHolds, PTL DEF Spec

\* For any number of connections and names and any limit on names owned, the
\* queue of every name and services_owned of every connection agree, and
\* neither lists anything twice: whatever is requested, reflagged, moved
\* forward, replaced, released or dropped, bus_connection_disconnected finds
\* every name it has to drop (bus/services.c, bus/connection.c).
THEOREM ListsAgree == Spec => []OwnershipAgrees
BY Invariance, Consequences, PTL

\* Nobody who asked with DO_NOT_QUEUE is ever left waiting for a name.
THEOREM NobodyWaitsUnasked == Spec => []WaitersAgreedToWait
BY Invariance, Consequences, PTL

\* The latest NameOwnerChanged names the primary owner of every name, and every
\* active connection has heard by NameAcquired and NameLost which names are its
\* own, through any sequence of handovers.
THEOREM SignalsAreTrue == Spec => []SignalsTellTheTruth
BY Invariance, Consequences, PTL

\* The NameOwnerChanged signals of a name form a chain without a gap.
THEOREM SignalsChain == Spec => OwnerChangesChain
<1>1. IInv /\ [Next]_vars => [ChainStep]_vars
  BY StepKeeps
<1> QED  BY <1>1, Invariance, PTL DEF Spec, OwnerChangesChain, ChainStep

\* Nobody who waits for a name is overtaken by another who waits for it, except
\* by one who asks with REPLACE_EXISTING.
THEOREM QueuesAreFair == Spec => NoOvertaking
<1>1. IInv /\ [Next]_vars => [OrderStep]_vars
  BY StepKeeps
<1> QED  BY <1>1, Invariance, PTL DEF Spec, NoOvertaking, OrderStep

\* The code that RequestName and ReleaseName answer with says where the sender
\* is in the queue the request leaves behind.
THEOREM RepliesAreTrue == Spec => ReplyIsTrue
<1>1. IInv /\ [Next]_vars =>
        [LET q == owners'[last'.name]
             c == last'.conn
         IN  last' # last =>
               /\ last'.code \in {"primary", "already"} => At(q, c, 1)
               /\ last'.code = "queued" => \E i \in 2 .. Len(q) : At(q, c, i)
               /\ last'.code \in {"exists", "released", "nonexistent", "notowner"} =>
                    ~ \E i \in DOMAIN q : At(q, c, i)]_vars
  BY StepKeeps DEF ReplyStep, TrueReply, In, At
<1> QED  BY <1>1, Invariance, PTL DEF Spec, ReplyIsTrue

=============================================================================
