--------------------------- MODULE BusContextProof ---------------------------
(***************************************************************************)
(* Proofs about the start and the end of the daemon.                       *)
(***************************************************************************)
EXTENDS BusContext, TLAPS

Claims(p) == pc[p] \notin Gone /\ pidfile[p]

\* How far a process is tells what it holds.
Stages ==
    /\ \A p \in Processes :
          /\ pc[p] = "off" => ~servers[p] /\ ~pidfile[p]
          /\ pc[p] \notin Gone \cup Ending => pidfile[p]
          /\ servers[p] /\ pc[p] \notin Gone => pidfile[p]
          /\ pc[p] \in {"checked", "listening"} => slotRefs[p] = 1
          /\ pc[p] \in {"configured", "parent", "named"} => slotRefs[p] = 2
          /\ pc[p] \in {"ready", "running"} => slotRefs[p] = 1
          /\ pc[p] \in Ending => slotRefs[p] \in {1, 2}
    /\ \A d \in Daemons :
          /\ pc[Child(d)] \notin {"checked", "listening", "configured", "parent"}
          /\ pc[First(d)] = "parent" => pc[Child(d)] # "off"
          /\ pc[First(d)] \in Starting \cup {"off", "running"} => pc[Child(d)] = "off"

\* A file that is there while nobody was killed is somebody's who will delete it, or a child's.
Files ==
    (killed = {} /\ \A p \in Processes : ~Claims(p)) =>
        \A q \in pidOnDisk : \E d \in Daemons : q = Child(d)

\* One daemon at a time has the pid file and the socket.
OneClaims == \A p, q \in Processes : Claims(p) /\ Claims(q) => Daemon(p) = Daemon(q)
ChildEndsFirst ==
    \A d \in Daemons : pc[First(d)] \in Ending => pc[Child(d)] \in Ending \cup Gone
FileNames ==
    \A d \in Daemons :
        /\ pc[First(d)] \in {"named", "ready", "running"} => pidOnDisk = {First(d)}
        /\ pc[Child(d)] \in {"named", "ready", "running"} /\ pc[First(d)] = "ended"
           => pidOnDisk = {Child(d)}
SocketLeads ==
    \A p \in Processes :
        pc[p] \in {"listening", "configured", "named", "ready", "running"}
        => socketOnDisk = Daemon(p)
OneDaemon ==
    (~Together /\ ParentsFinish) => OneClaims /\ ChildEndsFirst /\ FileNames /\ SocketLeads

IInv == TypeOK /\ Stages /\ Files /\ OneDaemon /\ SlotsBalance

LEMMA ProcessFacts ==
    /\ \A d \in Daemons : First(d) \in Processes /\ Child(d) \in Processes
    /\ \A d \in Daemons : Daemon(First(d)) = d /\ Daemon(Child(d)) = d
    /\ \A p \in Processes : Daemon(p) \in Daemons
    /\ \A p \in Processes : p = First(Daemon(p)) \/ p = Child(Daemon(p))
    /\ \A d, e \in Daemons : First(d) # Child(e)
    /\ \A d, e \in Daemons : First(d) = First(e) => d = e
    /\ \A d, e \in Daemons : Child(d) = Child(e) => d = e
    /\ Garbled \notin Processes
<1> USE DEF Processes, First, Child, Daemon
<1>1. \A d \in Daemons : First(d) \in Processes /\ Child(d) \in Processes  OBVIOUS
<1>2. \A d \in Daemons : Daemon(First(d)) = d /\ Daemon(Child(d)) = d  OBVIOUS
<1>3. ASSUME NEW p \in Processes
      PROVE  Daemon(p) \in Daemons /\ (p = First(Daemon(p)) \/ p = Child(Daemon(p)))
  <2>1. PICK d \in Daemons, r \in {"first", "child"} : p = <<d, r>>  OBVIOUS
  <2> QED  BY <2>1
<1>4. \A d, e \in Daemons : First(d) # Child(e)  OBVIOUS
<1>5. \A d, e \in Daemons : (First(d) = First(e) => d = e) /\ (Child(d) = Child(e) => d = e)
  OBVIOUS
<1>6. ASSUME Garbled \in Processes PROVE FALSE
  <2>1. PICK d \in Daemons, r \in {"first", "child"} : Garbled = <<d, r>>  BY <1>6
  <2> QED  BY <2>1 DEF Garbled
<1> QED  BY <1>1, <1>2, <1>3, <1>4, <1>5, <1>6

LEMMA InitInv == Init => IInv
<1> USE ProcessFacts DEF Init
<1>1. Init => TypeOK  BY DEF TypeOK, Gone
<1>2. Init => Stages BY DEF Stages, Gone, Ending, Starting
<1>3. Init => Files BY DEF Files
<1>4. Init => OneDaemon BY DEF OneDaemon, OneClaims, ChildEndsFirst, FileNames, SocketLeads, Gone, Ending, Claims
<1>5. Init => SlotsBalance BY DEF SlotsBalance
<1> QED BY <1>1, <1>2, <1>3, <1>4, <1>5 DEF IInv

Active == Starting \cup {"running"}

\* While a process has the pid file, no other one is starting or running, but for the child of
\* a parent that waits for it.
LEMMA Alone ==
    ASSUME IInv, ~Together, ParentsFinish,
           NEW p \in Processes, Claims(p), pc[p] # "parent",
           NEW q \in Processes, q # p
    PROVE  pc[q] \notin Active
<1> USE ProcessFacts DEF Active, Starting, Ending, Gone
<1> SUFFICES ASSUME pc[q] \in Active PROVE FALSE
  OBVIOUS
<1>1. Claims(q)
  BY DEF IInv, Stages, Claims
<1>2. Daemon(p) = Daemon(q)
  BY <1>1 DEF IInv, OneDaemon, OneClaims
<1>3. CASE p = First(Daemon(p)) /\ q = Child(Daemon(p))
  <2>1. pc[p] \in Ending \cup Starting \cup {"running"}
    BY DEF Claims, IInv, TypeOK
  <2>2. CASE pc[p] \in Ending
    BY <1>3, <2>2 DEF IInv, OneDaemon, ChildEndsFirst
  <2>3. CASE pc[p] \in Starting \cup {"running"}
    BY <1>3, <2>3 DEF IInv, Stages
  <2> QED  BY <2>1, <2>2, <2>3
<1>4. CASE p = Child(Daemon(p)) /\ q = First(Daemon(p))
  BY <1>4 DEF IInv, Stages, Claims
<1> QED  BY <1>2, <1>3, <1>4

LEMMA AloneWithChild ==
    ASSUME IInv, ~Together, ParentsFinish,
           NEW d \in Daemons, pc[First(d)] = "parent",
           NEW q \in Processes, pc[q] \in Active
    PROVE  q = Child(d)
<1> USE ProcessFacts DEF Active, Starting, Ending, Gone
<1>1. Claims(q) /\ Claims(First(d))
  BY DEF IInv, Stages, Claims
<1>2. Daemon(q) = d
  BY <1>1 DEF IInv, OneDaemon, OneClaims
<1> QED  BY <1>2

LEMMA StartKeeps == ASSUME IInv, NEW d \in Daemons, Start(d) PROVE IInv'
<1> DEFINE p == First(d)
<1> USE ProcessFacts DEF IInv, Start, Goto
<1>0. TypeOK /\ p \in Processes /\ d \in Daemons  OBVIOUS
<1>1. TypeOK'
  <2>1. pc' \in [Processes -> Starting \cup Ending \cup Gone \cup {"parent", "running"}]
    BY <1>0 DEF TypeOK, Gone, Starting, Ending
  <2>2. pidfile' \in [Processes -> BOOLEAN] 
    BY <1>0 DEF TypeOK
  <2>3. slotRefs' \in [Processes -> 0 .. 2]
    BY <1>0 DEF TypeOK
  <2> QED  BY <1>0, <2>1, <2>2, <2>3 DEF TypeOK
<1>2. Stages' BY DEF Stages, Gone, Ending, Starting, TypeOK
<1>3. Files' BY DEF Files, Claims, TypeOK, Gone
<1>4. OneDaemon'
  <2> SUFFICES ASSUME ~Together, ParentsFinish'
               PROVE  OneClaims' /\ ChildEndsFirst' /\ FileNames' /\ SocketLeads'
    BY DEF OneDaemon
  <2>1. ParentsFinish
    BY DEF ParentsFinish, TypeOK
  <2>2. OneClaims /\ ChildEndsFirst /\ FileNames /\ SocketLeads
    BY <2>1 DEF OneDaemon
  <2>3. \A q \in Processes : pc[q] \in Gone \cup {"running"}
    OBVIOUS
  <2>4. ASSUME pidOnDisk = {}, NEW q \in Processes PROVE ~Claims(q)
    <3>1. pc[q] # "running"
      BY <2>2, <2>3, <2>4 DEF FileNames, Stages, Gone, Starting
    <3> QED  BY <2>3, <3>1 DEF Claims
  <2>5. \A q \in Processes \ {p} : pc'[q] = pc[q] /\ pidfile'[q] = pidfile[q]
    BY DEF TypeOK
  <2>6. OneClaims'
    <3>1. CASE pidOnDisk = {}
      BY <2>4, <2>5, <3>1 DEF OneClaims, Claims
    <3>2. CASE pidOnDisk # {}
      <4>1. ~pidfile'[p]
        BY <3>2 DEF Stages
      <4> QED  BY <2>2, <2>5, <4>1 DEF OneClaims, Claims
    <3> QED  BY <3>1, <3>2
  <2>7. ChildEndsFirst'
    BY <2>2 DEF ChildEndsFirst, TypeOK, Gone
  <2>8. FileNames'
    BY <2>2, <2>5 DEF FileNames, TypeOK
  <2>9. SocketLeads'
    BY <2>2, <2>5 DEF SocketLeads, TypeOK
  <2> QED  BY <2>6, <2>7, <2>8, <2>9
<1>5. SlotsBalance' BY DEF SlotsBalance, TypeOK
<1> QED BY <1>1, <1>2, <1>3, <1>4, <1>5 DEF IInv

LEMMA StartFailsKeeps == ASSUME IInv, NEW d \in Daemons, StartFails(d) PROVE IInv'
<1> USE ProcessFacts DEF IInv, StartFails, Goto
<1>1. TypeOK'
  BY DEF TypeOK, Gone, Starting, Ending
<1>2. Stages'
  BY DEF Stages, Gone, Ending, Starting, TypeOK
<1>3. Files'
  BY DEF Files, Claims, Gone, Ending, TypeOK, Stages
<1>4. OneDaemon'
  <2> SUFFICES ASSUME ~Together, ParentsFinish'
               PROVE  OneClaims' /\ ChildEndsFirst' /\ FileNames' /\ SocketLeads'
    BY DEF OneDaemon
  <2>1. ParentsFinish
    BY DEF ParentsFinish, TypeOK
  <2>2. OneClaims /\ ChildEndsFirst /\ FileNames /\ SocketLeads
    BY <2>1 DEF OneDaemon
  <2>3. OneClaims'
    BY <2>2 DEF OneClaims, Claims, TypeOK, Gone, Ending, Starting, Stages
  <2>4. ChildEndsFirst'
    BY <2>2 DEF ChildEndsFirst, TypeOK, Gone, Ending, Stages, Starting
  <2>5. FileNames'
    BY <2>2 DEF FileNames, TypeOK, Stages
  <2>6. SocketLeads'
    BY <2>2 DEF SocketLeads, TypeOK, Stages
  <2> QED  BY <2>3, <2>4, <2>5, <2>6
<1>5. SlotsBalance'
  BY DEF SlotsBalance, TypeOK, Stages, Ending, Gone, Starting
<1> QED  BY <1>1, <1>2, <1>3, <1>4, <1>5

LEMMA ListenKeeps == ASSUME IInv, NEW p \in Processes, Listen(p) PROVE IInv'
<1> USE ProcessFacts DEF IInv, Listen, Goto
<1>1. TypeOK'
  <2>1. pc' \in [Processes -> Starting \cup Ending \cup Gone \cup {"parent", "running"}]
    BY DEF TypeOK, Gone, Starting, Ending
  <2>2. servers' \in [Processes -> BOOLEAN]
    BY DEF TypeOK
  <2>3. socketOnDisk' \in Daemons \cup {"none"}
    BY DEF TypeOK
  <2> QED  BY <2>1, <2>2, <2>3 DEF TypeOK
<1>2. Stages'
  BY DEF Stages, Gone, Ending, Starting, TypeOK
<1>3. Files'
  BY DEF Files, Claims, Gone, Ending, TypeOK, Stages
<1>4. OneDaemon'
  <2> SUFFICES ASSUME ~Together, ParentsFinish'
               PROVE  OneClaims' /\ ChildEndsFirst' /\ FileNames' /\ SocketLeads'
    BY DEF OneDaemon
  <2>1. ParentsFinish
    BY DEF ParentsFinish, TypeOK
  <2>2. OneClaims /\ ChildEndsFirst /\ FileNames /\ SocketLeads
    BY <2>1 DEF OneDaemon
  <2>3. OneClaims'
    BY <2>2 DEF OneClaims, Claims, TypeOK, Gone, Ending, Starting, Stages
  <2>4. ChildEndsFirst'
    BY <2>2 DEF ChildEndsFirst, TypeOK, Gone, Ending, Stages, Starting
  <2>5. FileNames'
    BY <2>2 DEF FileNames, TypeOK, Stages
  <2>6. SocketLeads'
    <3>1. Claims(p)
      BY DEF Claims, Gone, Ending, Stages
    <3>2. \A q \in Processes \ {p} : pc[q] \notin Active
      BY <2>1, <3>1, Alone
    <3> QED  BY <2>2, <3>2 DEF SocketLeads, TypeOK, Active, Starting
  <2> QED  BY <2>3, <2>4, <2>5, <2>6
<1>5. SlotsBalance'
  BY DEF SlotsBalance, TypeOK, Stages, Ending, Gone, Starting
<1> QED  BY <1>1, <1>2, <1>3, <1>4, <1>5

LEMMA ConfigureKeeps == ASSUME IInv, NEW p \in Processes, Configure(p) PROVE IInv'
<1> USE ProcessFacts DEF IInv, Configure, Goto
<1>1. TypeOK'
  <2>1. pc' \in [Processes -> Starting \cup Ending \cup Gone \cup {"parent", "running"}]
    BY DEF TypeOK, Gone, Starting, Ending
  <2>2. slotRefs[p] = 1
    BY DEF Stages
  <2>3. slotRefs' \in [Processes -> 0 .. 2]
    BY <2>2 DEF TypeOK
  <2> QED  BY <2>1, <2>3 DEF TypeOK
<1>2. Stages'
  BY DEF Stages, Gone, Ending, Starting, TypeOK
<1>3. Files'
  BY DEF Files, Claims, Gone, Ending, TypeOK, Stages
<1>4. OneDaemon'
  <2> SUFFICES ASSUME ~Together, ParentsFinish'
               PROVE  OneClaims' /\ ChildEndsFirst' /\ FileNames' /\ SocketLeads'
    BY DEF OneDaemon
  <2>1. ParentsFinish
    BY DEF ParentsFinish, TypeOK
  <2>2. OneClaims /\ ChildEndsFirst /\ FileNames /\ SocketLeads
    BY <2>1 DEF OneDaemon
  <2>3. OneClaims'
    BY <2>2 DEF OneClaims, Claims, TypeOK, Gone, Ending, Starting, Stages
  <2>4. ChildEndsFirst'
    BY <2>2 DEF ChildEndsFirst, TypeOK, Gone, Ending, Stages, Starting
  <2>5. FileNames'
    BY <2>2 DEF FileNames, TypeOK, Stages
  <2>6. SocketLeads'
    BY <2>2 DEF SocketLeads, TypeOK, Stages
  <2> QED  BY <2>3, <2>4, <2>5, <2>6
<1>5. SlotsBalance'
  BY DEF SlotsBalance, TypeOK, Stages, Ending, Gone, Starting
<1> QED  BY <1>1, <1>2, <1>3, <1>4, <1>5

LEMMA ForkKeeps == ASSUME IInv, NEW d \in Daemons, Fork(d) PROVE IInv'
<1> USE ProcessFacts DEF IInv, Fork, Goto
<1>1. TypeOK'
  BY DEF TypeOK, Gone, Starting, Ending
<1>2. Stages'
  BY DEF Stages, Gone, Ending, Starting, TypeOK
<1>3. Files'
  BY DEF Files, Claims, Gone, Ending, TypeOK, Stages
<1>4. OneDaemon'
  <2> SUFFICES ASSUME ~Together, ParentsFinish'
               PROVE  OneClaims' /\ ChildEndsFirst' /\ FileNames' /\ SocketLeads'
    BY DEF OneDaemon
  <2>1. ParentsFinish
    BY DEF ParentsFinish, TypeOK
  <2>2. OneClaims /\ ChildEndsFirst /\ FileNames /\ SocketLeads
    BY <2>1 DEF OneDaemon
  <2>3. OneClaims'
    BY <2>2 DEF OneClaims, Claims, TypeOK, Gone, Ending, Starting, Stages
  <2>4. ChildEndsFirst'
    BY <2>2 DEF ChildEndsFirst, TypeOK, Gone, Ending, Stages, Starting
  <2>5. FileNames'
    BY <2>2 DEF FileNames, TypeOK, Stages
  <2>6. SocketLeads'
    BY <2>2 DEF SocketLeads, TypeOK, Stages
  <2> QED  BY <2>3, <2>4, <2>5, <2>6
<1>5. SlotsBalance'
  BY DEF SlotsBalance, TypeOK, Stages, Ending, Gone, Starting
<1> QED  BY <1>1, <1>2, <1>3, <1>4, <1>5

LEMMA ParentWritesKeeps == ASSUME IInv, NEW d \in Daemons, NEW ok \in BOOLEAN, ParentWrites(d, ok) PROVE IInv'
<1> USE ProcessFacts DEF IInv, ParentWrites, WritesPid, Terminated, Goto
<1>1. TypeOK'
  BY DEF TypeOK, Gone, Starting, Ending
<1>2. Stages'
  BY DEF Stages, Gone, Ending, Starting, TypeOK
<1>3. Files'
  BY DEF Files, Claims, Gone, Ending, TypeOK, Stages
<1>4. OneDaemon'
  <2> SUFFICES ASSUME ~Together, ParentsFinish'
               PROVE  OneClaims' /\ ChildEndsFirst' /\ FileNames' /\ SocketLeads'
    BY DEF OneDaemon
  <2>1. ParentsFinish
    BY DEF ParentsFinish, TypeOK
  <2>2. OneClaims /\ ChildEndsFirst /\ FileNames /\ SocketLeads
    BY <2>1 DEF OneDaemon
  <2>3. OneClaims'
    BY <2>2 DEF OneClaims, Claims, TypeOK, Gone, Ending, Starting, Stages
  <2>4. ChildEndsFirst'
    BY <2>2 DEF ChildEndsFirst, TypeOK, Gone, Ending, Stages, Starting
  <2>5. FileNames'
    BY <2>2 DEF FileNames, TypeOK, Stages
  <2>6. SocketLeads'
    BY <2>2 DEF SocketLeads, TypeOK, Stages
  <2> QED  BY <2>3, <2>4, <2>5, <2>6
<1>5. SlotsBalance'
  BY DEF SlotsBalance, TypeOK, Stages, Ending, Gone, Starting
<1> QED  BY <1>1, <1>2, <1>3, <1>4, <1>5

LEMMA WritePidKeeps == ASSUME IInv, NEW p \in Processes, NEW ok \in BOOLEAN, WritePid(p, ok) PROVE IInv'
<1> USE ProcessFacts DEF IInv, WritePid, WritesPid, Goto
<1>1. TypeOK'
  BY DEF TypeOK, Gone, Starting, Ending
<1>2. Stages'
  BY DEF Stages, Gone, Ending, Starting, TypeOK
<1>3. Files'
  BY DEF Files, Claims, Gone, Ending, TypeOK, Stages
<1>4. OneDaemon'
  <2> SUFFICES ASSUME ~Together, ParentsFinish'
               PROVE  OneClaims' /\ ChildEndsFirst' /\ FileNames' /\ SocketLeads'
    BY DEF OneDaemon
  <2>1. ParentsFinish
    BY DEF ParentsFinish, TypeOK
  <2>2. OneClaims /\ ChildEndsFirst /\ FileNames /\ SocketLeads
    BY <2>1 DEF OneDaemon
  <2>3. OneClaims'
    BY <2>2 DEF OneClaims, Claims, TypeOK, Gone, Ending, Starting, Stages
  <2>4. ChildEndsFirst'
    BY <2>2 DEF ChildEndsFirst, TypeOK, Gone, Ending, Stages, Starting
  <2>5. FileNames'
    BY <2>2 DEF FileNames, TypeOK, Stages
  <2>6. SocketLeads'
    BY <2>2 DEF SocketLeads, TypeOK, Stages
  <2> QED  BY <2>3, <2>4, <2>5, <2>6
<1>5. SlotsBalance'
  BY DEF SlotsBalance, TypeOK, Stages, Ending, Gone, Starting
<1> QED  BY <1>1, <1>2, <1>3, <1>4, <1>5

LEMMA PostinitKeeps == ASSUME IInv, NEW p \in Processes, Postinit(p) PROVE IInv'
<1> USE ProcessFacts DEF IInv, Postinit, Goto
<1>1. TypeOK'
  <2>1. pc' \in [Processes -> Starting \cup Ending \cup Gone \cup {"parent", "running"}]
    BY DEF TypeOK, Gone, Starting, Ending
  <2>2. slotRefs[p] = 2
    BY DEF Stages
  <2>3. slotRefs' \in [Processes -> 0 .. 2]
    BY <2>2 DEF TypeOK
  <2> QED  BY <2>1, <2>3 DEF TypeOK
<1>2. Stages'
  BY DEF Stages, Gone, Ending, Starting, TypeOK
<1>3. Files'
  BY DEF Files, Claims, Gone, Ending, TypeOK, Stages
<1>4. OneDaemon'
  <2> SUFFICES ASSUME ~Together, ParentsFinish'
               PROVE  OneClaims' /\ ChildEndsFirst' /\ FileNames' /\ SocketLeads'
    BY DEF OneDaemon
  <2>1. ParentsFinish
    BY DEF ParentsFinish, TypeOK
  <2>2. OneClaims /\ ChildEndsFirst /\ FileNames /\ SocketLeads
    BY <2>1 DEF OneDaemon
  <2>3. OneClaims'
    BY <2>2 DEF OneClaims, Claims, TypeOK, Gone, Ending, Starting, Stages
  <2>4. ChildEndsFirst'
    BY <2>2 DEF ChildEndsFirst, TypeOK, Gone, Ending, Stages, Starting
  <2>5. FileNames'
    BY <2>2 DEF FileNames, TypeOK, Stages
  <2>6. SocketLeads'
    BY <2>2 DEF SocketLeads, TypeOK, Stages
  <2> QED  BY <2>3, <2>4, <2>5, <2>6
<1>5. SlotsBalance'
  BY DEF SlotsBalance, TypeOK, Stages, Ending, Gone, Starting
<1> QED  BY <1>1, <1>2, <1>3, <1>4, <1>5

LEMMA RunKeeps == ASSUME IInv, NEW p \in Processes, Run(p) PROVE IInv'
<1> USE ProcessFacts DEF IInv, Run, Goto
<1>1. TypeOK'
  BY DEF TypeOK, Gone, Starting, Ending
<1>2. Stages'
  BY DEF Stages, Gone, Ending, Starting, TypeOK
<1>3. Files'
  BY DEF Files, Claims, Gone, Ending, TypeOK, Stages
<1>4. OneDaemon'
  <2> SUFFICES ASSUME ~Together, ParentsFinish'
               PROVE  OneClaims' /\ ChildEndsFirst' /\ FileNames' /\ SocketLeads'
    BY DEF OneDaemon
  <2>1. ParentsFinish
    BY DEF ParentsFinish, TypeOK
  <2>2. OneClaims /\ ChildEndsFirst /\ FileNames /\ SocketLeads
    BY <2>1 DEF OneDaemon
  <2>3. OneClaims'
    BY <2>2 DEF OneClaims, Claims, TypeOK, Gone, Ending, Starting, Stages
  <2>4. ChildEndsFirst'
    BY <2>2 DEF ChildEndsFirst, TypeOK, Gone, Ending, Stages, Starting
  <2>5. FileNames'
    BY <2>2 DEF FileNames, TypeOK, Stages, Starting
  <2>6. SocketLeads'
    BY <2>2 DEF SocketLeads, TypeOK, Stages
  <2> QED  BY <2>3, <2>4, <2>5, <2>6
<1>5. SlotsBalance'
  BY DEF SlotsBalance, TypeOK, Stages, Ending, Gone, Starting
<1> QED  BY <1>1, <1>2, <1>3, <1>4, <1>5

LEMMA QuitKeeps == ASSUME IInv, NEW p \in Processes, Quit(p) PROVE IInv'
<1> USE ProcessFacts DEF IInv, Quit, Goto
<1>1. TypeOK'
  BY DEF TypeOK, Gone, Starting, Ending
<1>2. Stages'
  BY DEF Stages, Gone, Ending, Starting, TypeOK
<1>3. Files'
  BY DEF Files, Claims, Gone, Ending, TypeOK, Stages
<1>4. OneDaemon'
  <2> SUFFICES ASSUME ~Together, ParentsFinish'
               PROVE  OneClaims' /\ ChildEndsFirst' /\ FileNames' /\ SocketLeads'
    BY DEF OneDaemon
  <2>1. ParentsFinish
    BY DEF ParentsFinish, TypeOK
  <2>2. OneClaims /\ ChildEndsFirst /\ FileNames /\ SocketLeads
    BY <2>1 DEF OneDaemon
  <2>3. OneClaims'
    BY <2>2 DEF OneClaims, Claims, TypeOK, Gone, Ending, Starting, Stages
  <2>4. ChildEndsFirst'
    BY <2>2 DEF ChildEndsFirst, TypeOK, Gone, Ending, Stages, Starting
  <2>5. FileNames'
    BY <2>2 DEF FileNames, TypeOK, Stages
  <2>6. SocketLeads'
    BY <2>2 DEF SocketLeads, TypeOK, Stages
  <2> QED  BY <2>3, <2>4, <2>5, <2>6
<1>5. SlotsBalance'
  BY DEF SlotsBalance, TypeOK, Stages, Ending, Gone, Starting
<1> QED  BY <1>1, <1>2, <1>3, <1>4, <1>5

LEMMA ShutdownKeeps == ASSUME IInv, NEW p \in Processes, Shutdown(p) PROVE IInv'
<1> USE ProcessFacts DEF IInv, Shutdown, Goto
<1>1. TypeOK'
  BY DEF TypeOK, Gone, Starting, Ending
<1>2. Stages'
  BY DEF Stages, Gone, Ending, Starting, TypeOK
<1>3. Files'
  BY DEF Files, Claims, Gone, Ending, TypeOK, Stages
<1>4. OneDaemon'
  <2> SUFFICES ASSUME ~Together, ParentsFinish'
               PROVE  OneClaims' /\ ChildEndsFirst' /\ FileNames' /\ SocketLeads'
    BY DEF OneDaemon
  <2>1. ParentsFinish
    BY DEF ParentsFinish, TypeOK
  <2>2. OneClaims /\ ChildEndsFirst /\ FileNames /\ SocketLeads
    BY <2>1 DEF OneDaemon
  <2>3. OneClaims'
    BY <2>2 DEF OneClaims, Claims, TypeOK, Gone, Ending, Starting, Stages
  <2>4. ChildEndsFirst'
    BY <2>2 DEF ChildEndsFirst, TypeOK, Gone, Ending, Stages, Starting
  <2>5. FileNames'
    BY <2>2 DEF FileNames, TypeOK, Stages
  <2>6. SocketLeads'
    <3>1. CASE ~servers[p]
      BY <2>2, <3>1 DEF SocketLeads, TypeOK
    <3>2. CASE servers[p]
      <4>1. Claims(p)
        BY <3>2 DEF Claims, Gone, Stages
      <4>2. \A q \in Processes \ {p} : pc[q] \notin Active
        BY <2>1, <4>1, Alone
      <4> QED  BY <4>2 DEF SocketLeads, TypeOK, Active, Starting
    <3> QED  BY <3>1, <3>2
  <2> QED  BY <2>3, <2>4, <2>5, <2>6
<1>5. SlotsBalance'
  BY DEF SlotsBalance, TypeOK, Stages, Ending, Gone, Starting
<1> QED  BY <1>1, <1>2, <1>3, <1>4, <1>5

LEMMA UnrefKeeps == ASSUME IInv, NEW p \in Processes, Unref(p) PROVE IInv'
<1> USE ProcessFacts DEF IInv, Unref, Goto
<1>1. TypeOK'
  BY DEF TypeOK, Gone, Starting, Ending
<1>2. Stages'
  BY DEF Stages, Gone, Ending, Starting, TypeOK
<1>3. Files'
  BY DEF Files, Claims, Gone, Ending, TypeOK, Stages
<1>4. OneDaemon'
  <2> SUFFICES ASSUME ~Together, ParentsFinish'
               PROVE  OneClaims' /\ ChildEndsFirst' /\ FileNames' /\ SocketLeads'
    BY DEF OneDaemon
  <2>1. ParentsFinish
    BY DEF ParentsFinish, TypeOK
  <2>2. OneClaims /\ ChildEndsFirst /\ FileNames /\ SocketLeads
    BY <2>1 DEF OneDaemon
  <2>3. OneClaims'
    BY <2>2 DEF OneClaims, Claims, TypeOK, Gone, Ending, Starting, Stages
  <2>4. ChildEndsFirst'
    BY <2>2 DEF ChildEndsFirst, TypeOK, Gone, Ending, Stages, Starting
  <2>5. FileNames'
    <3>1. CASE pidfile[p]
      <4>1. Claims(p)
        BY <3>1 DEF Claims, Gone
      <4>2. \A q \in Processes \ {p} : pc[q] \notin Active
        BY <2>1, <4>1, Alone
      <4> QED  BY <4>2 DEF FileNames, TypeOK, Active, Starting
    <3>2. CASE ~pidfile[p]
      <4>1. \A d \in Daemons : p = First(d) => pc[Child(d)] \in Ending \cup Gone
        BY <2>2 DEF ChildEndsFirst, Ending
      <4> QED  BY <2>2, <3>2, <4>1 DEF FileNames, TypeOK, Ending, Gone
    <3> QED  BY <3>1, <3>2
  <2>6. SocketLeads'
    BY <2>2 DEF SocketLeads, TypeOK, Stages
  <2> QED  BY <2>3, <2>4, <2>5, <2>6
<1>5. SlotsBalance'
  BY DEF SlotsBalance, TypeOK, Stages, Ending, Gone, Starting
<1> QED  BY <1>1, <1>2, <1>3, <1>4, <1>5

LEMMA KillKeeps == ASSUME IInv, NEW p \in Processes, Kill(p) PROVE IInv'
<1> USE ProcessFacts DEF IInv, Kill, Goto
<1>1. TypeOK'
  BY DEF TypeOK, Gone, Starting, Ending
<1>2. Stages'
  BY DEF Stages, Gone, Ending, Starting, TypeOK
<1>3. Files'
  BY DEF Files, Claims, Gone, Ending, TypeOK, Stages
<1>4. OneDaemon'
  <2> SUFFICES ASSUME ~Together, ParentsFinish'
               PROVE  OneClaims' /\ ChildEndsFirst' /\ FileNames' /\ SocketLeads'
    BY DEF OneDaemon
  <2>1. ParentsFinish
    BY DEF ParentsFinish, TypeOK
  <2>2. OneClaims /\ ChildEndsFirst /\ FileNames /\ SocketLeads
    BY <2>1 DEF OneDaemon
  <2>3. OneClaims'
    BY <2>2 DEF OneClaims, Claims, TypeOK, Gone, Ending, Starting, Stages
  <2>4. ChildEndsFirst'
    BY <2>2 DEF ChildEndsFirst, TypeOK, Gone, Ending, Stages, Starting
  <2>5. FileNames'
    <3>1. \A d \in Daemons : p = First(d) => pc'[Child(d)] = "off"
      BY DEF ParentsFinish
    <3> QED  BY <2>2, <3>1 DEF FileNames, TypeOK
  <2>6. SocketLeads'
    BY <2>2 DEF SocketLeads, TypeOK, Stages
  <2> QED  BY <2>3, <2>4, <2>5, <2>6
<1>5. SlotsBalance'
  BY DEF SlotsBalance, TypeOK, Stages, Ending, Gone, Starting
<1> QED  BY <1>1, <1>2, <1>3, <1>4, <1>5

LEMMA RemovePidFileKeeps == ASSUME IInv, RemovePidFile PROVE IInv'
<1> USE ProcessFacts DEF IInv, RemovePidFile
<1>1. TypeOK'
  BY DEF TypeOK, Gone, Starting, Ending
<1>2. Stages'
  BY DEF Stages, Gone, Ending, Starting, TypeOK
<1>3. Files'
  BY DEF Files, Claims, Gone, Ending, TypeOK, Stages
<1>4. OneDaemon'
  <2> SUFFICES ASSUME ~Together, ParentsFinish'
               PROVE  OneClaims' /\ ChildEndsFirst' /\ FileNames' /\ SocketLeads'
    BY DEF OneDaemon
  <2>1. ParentsFinish
    BY DEF ParentsFinish, TypeOK
  <2>2. OneClaims /\ ChildEndsFirst /\ FileNames /\ SocketLeads
    BY <2>1 DEF OneDaemon
  <2>3. OneClaims'
    BY <2>2 DEF OneClaims, Claims, TypeOK, Gone, Ending, Starting, Stages
  <2>4. ChildEndsFirst'
    BY <2>2 DEF ChildEndsFirst, TypeOK, Gone, Ending, Stages, Starting
  <2>5. FileNames'
    BY DEF FileNames, Gone
  <2>6. SocketLeads'
    BY <2>2 DEF SocketLeads, TypeOK, Stages
  <2> QED  BY <2>3, <2>4, <2>5, <2>6
<1>5. SlotsBalance'
  BY DEF SlotsBalance, TypeOK, Stages, Ending, Gone, Starting
<1> QED  BY <1>1, <1>2, <1>3, <1>4, <1>5

LEMMA StepInv == ASSUME IInv, [Next]_vars PROVE IInv'
<1>1. CASE Next
  BY <1>1, StartKeeps, StartFailsKeeps, ForkKeeps, ParentWritesKeeps, ListenKeeps,
     ConfigureKeeps, PostinitKeeps, RunKeeps, QuitKeeps, ShutdownKeeps, UnrefKeeps, KillKeeps,
     WritePidKeeps, RemovePidFileKeeps DEF Next
<1>2. CASE UNCHANGED vars
  BY <1>2 DEF vars, IInv, TypeOK, Stages, Files, OneDaemon, OneClaims, ChildEndsFirst, FileNames,
     SocketLeads, SlotsBalance, Claims, ParentsFinish
<1> QED  BY <1>1, <1>2

LEMMA Inductive == Spec => []IInv
<1>1. Init => IInv  BY InitInv
<1>2. IInv /\ [Next]_vars => IInv'  BY StepInv
<1> QED  BY <1>1, <1>2, PTL DEF Spec

\* A daemon that runs is the one that the pid file and the path of the socket lead to, no daemon
\* leaves a pid file behind that would keep the next one from starting, and the references to the
\* server data slot balance, wherever starts fail, daemons fork, end and are killed.
THEOREM FilesLeadToDaemons == Spec => []FilesAreTheDaemons
<1>1. IInv => TypeOK /\ SlotsBalance
  BY DEF IInv
<1>2. IInv => NoStalePidFile
  BY DEF IInv, Files, NoStalePidFile, Claims
<1>3. ASSUME IInv, ~Together PROVE PidFileNamesDaemon
  <2>1. SUFFICES ASSUME ParentsFinish, NEW d \in Daemons, NEW r \in {"first", "child"},
                        pc[<<d, r>>] = "running", r = "child" => pc[First(d)] = "ended"
                 PROVE  pidOnDisk = {<<d, r>>}
    BY DEF PidFileNamesDaemon
  <2>2. FileNames
    BY <1>3, <2>1 DEF IInv, OneDaemon
  <2> QED  BY <2>1, <2>2 DEF FileNames, First, Child
<1>4. ASSUME IInv, ~Together PROVE DaemonIsReachable
  BY <1>4 DEF IInv, OneDaemon, SocketLeads, DaemonIsReachable
<1>5. IInv => FilesAreTheDaemons
  BY <1>1, <1>2, <1>3, <1>4 DEF FilesAreTheDaemons
<1> QED  BY <1>5, Inductive, PTL
=============================================================================
