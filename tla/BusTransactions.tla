-------------------------- MODULE BusTransactions --------------------------
(***************************************************************************)
(* Transactions of dbus-daemon (bus/connection.c): what a request changes  *)
(* and what it sends becomes visible together or, when an allocation       *)
(* fails half-way, is undone by cancel hooks and answered by an error that *)
(* was allocated in advance.  The state that transactions protect is the   *)
(* list of pending replies (with bus/expirelist.c) and the owners of one   *)
(* name (the hooks of bus/services.c, with the reference counts that       *)
(* decide when an owner is freed).                                         *)
(*                                                                         *)
(* A transaction is a program of steps, each of which may find no memory.  *)
(* Nothing else runs inside a transaction: the daemon is single-threaded.  *)
(* Policies let everything pass except replies nobody waits for.           *)
(***************************************************************************)
EXTENDS Naturals, Sequences, FiniteSets, SequencesExt

CONSTANTS
    Conns,          \* connections that completed Hello
    Monitors,       \* those of them that are monitors: they get a copy of everything
    Serials,        \* serials of calls
    Ops,            \* kinds of requests: "call", "reply", "request", "release"
    Flags,          \* sets of flags of a RequestName
    MaxReplies,     \* max_replies_per_connection
    ExpireAfter,    \* TRUE: reply_timeout is positive
    MaxFailures     \* bound on the number of failed allocations

Nobody == "nobody"
Bus == "bus"

VARIABLES
    up,         \* connected connections
    tx,         \* the open transaction
    toSend,     \* [Conns]: d->transaction_messages, the newest first
    out,        \* [Conns]: messages queued on a connection since the last request
    pending,    \* pending_replies, the newest first
    timer,      \* the timeout of the list of pending replies is enabled
    owners,     \* service->owners: references to owner objects, the primary first
    refs,       \* reference count of an owner object; 0: freed
    flags,      \* allow_replacement, do_not_queue of an owner object
    owned,      \* [Conns]: how often the name is in d->services_owned
    before,     \* what the open transaction found
    asked,      \* [Conns]: what it was told to send
    how,        \* how the last one ended
    debt,       \* calls that were delivered and not answered
    failures,   \* number of failed allocations
    lasting     \* owners that the open transaction changed for good: no hook can undo it

vars == <<up, tx, toSend, out, pending, timer, owners, refs, flags, owned,
          before, asked, how, debt, failures, lasting>>

txVars == <<tx, toSend, asked>>
nameVars == <<owners, refs, flags, owned>>

\* A connection has at most one owner object of the name: it stands for itself.
Message(k, s, from, to) == [k |-> k, s |-> s, from |-> from, to |-> to]

NoTransaction == [open |-> FALSE, from |-> Bus, serial |-> 0, prog |-> <<>>,
                  hooks |-> <<>>, conns |-> <<>>]

Protected == [pending |-> Range(pending), timer |-> timer, owners |-> owners, refs |-> refs,
              flags |-> flags, owned |-> owned]

Init ==
    /\ up = Conns
    /\ tx = NoTransaction
    /\ toSend = [c \in Conns |-> <<>>]
    /\ out = [c \in Conns |-> <<>>]
    /\ pending = <<>> /\ timer = FALSE
    /\ owners = <<>>
    /\ refs = [c \in Conns |-> 0]
    /\ flags = [c \in Conns |-> {}]
    /\ owned = [c \in Conns |-> 0]
    /\ before = Protected
    /\ asked = [c \in Conns |-> <<>>]
    /\ how = "none"
    /\ debt = {}
    /\ failures = 0
    /\ lasting = {}

----------------------------------------------------------------------------
(* The programs of the requests.                                           *)

\* bus_transaction_send
Send(to, m) == <<[k |-> "send", to |-> to, m |-> m]>>

ToAll(S, m) == FoldLeft(LAMBDA p, c : p \o Send(c, m), <<>>, SetToSeq(S))

\* bus_transaction_capture: monitors get a copy
Capture(m) == ToAll(Monitors, m)

\* bus_transaction_send_from_driver
FromDriver(to, m) == Capture(m) \o Send(to, m)

\* bus_transaction_send_error_reply
ErrorReply(c, s) == FromDriver(c, Message("error", s, Bus, c))

\* bus_driver_send_service_owner_changed: a signal to everybody
OwnerChanged(old, new) ==
    LET m == Message("changed", 0, old, new) IN Capture(m) \o ToAll(Conns \ Monitors, m)

Acquired(c) == FromDriver(c, Message("acquired", 0, Bus, c))
Lost(c) == FromDriver(c, Message("lost", 0, Bus, c))

Do(k, c) == <<[k |-> k, c |-> c]>>

HasOwner(c) == c \in Range(owners)

\* bus_service_add_owner: an owner is listed at most once
AddOwner(c, f) ==
    (IF owners = <<>> THEN Acquired(c) ELSE <<>>)
    \o <<[k |-> IF HasOwner(c) THEN "requeue" ELSE "add", c |-> c, f |-> f]>>

\* bus_service_remove_owner, of the owner after those of the list L
RemoveOwner(c, L) ==
    IF Head(L) # c THEN Do("unqueue", c)
    ELSE Lost(c)
         \o (IF Len(L) = 1 THEN OwnerChanged(c, Nobody)
             ELSE OwnerChanged(c, L[2]) \o Acquired(L[2]))
         \o Do("remove", c)

\* bus_service_swap_owner
SwapOwner(c, L) ==
    Lost(c) \o OwnerChanged(c, L[2]) \o Acquired(L[2]) \o Do("swap", c)

InsertSecond(L, c) == IF L = <<>> THEN <<c>> ELSE InsertAt(L, 2, c)

\* bus_registry_acquire_service
Acquire(c, f) ==
    IF owners = <<>> THEN OwnerChanged(Nobody, c) \o AddOwner(c, f)
    ELSE LET p == Head(owners)
             may == "allow" \in flags[p] /\ "replace" \in f
             next == InsertSecond(SelectSeq(owners, LAMBDA o : o # c), c)
         IN IF p = c THEN <<[k |-> "flags", c |-> c, f |-> f]>>
            ELSE IF may
            THEN AddOwner(c, f)
                 \o (IF "noqueue" \in flags[p] THEN RemoveOwner(p, next) ELSE SwapOwner(p, next))
            ELSE IF "noqueue" \in f
            THEN IF HasOwner(c) THEN Do("unqueue", c) ELSE <<>>
            ELSE AddOwner(c, f)

\* bus_driver_handle_acquire_service and _release_service end with a reply
Answer(c, s) == FromDriver(c, Message("return", s, Bus, c))

RequestName(c, f) == Acquire(c, f) \o Answer(c, 0)

ReleaseName(c) ==
    (IF HasOwner(c) THEN RemoveOwner(c, owners) ELSE <<>>) \o Answer(c, 0)

\* bus_dispatch of a call and of a reply
Call(c, d, s) ==
    LET m == Message("call", s, c, d)
    IN Capture(m) \o <<[k |-> "expect", m |-> m]>> \o Send(d, m)

Reply(d, c, s) ==
    LET m == Message("return", s, d, c)
    IN Capture(m) \o <<[k |-> "check", m |-> m]>> \o Send(c, m)

Begin(c, s, prog) ==
    /\ ~tx.open
    /\ how # "damaged"
    /\ lasting' = {}
    /\ c \in up
    /\ tx' = [NoTransaction EXCEPT !.open = TRUE, !.from = c, !.serial = s, !.prog = prog]
    /\ before' = Protected
    /\ asked' = [x \in Conns |-> <<>>]
    /\ out' = [x \in Conns |-> <<>>]
    /\ how' = "open"
    /\ UNCHANGED <<up, toSend, pending, timer, owners, refs, flags, owned, debt, failures>>

BeginRequest ==
    \/ \E c, d \in Conns \ Monitors, s \in Serials :
          /\ c # d /\ d \in up
          /\ \/ "call" \in Ops /\ Begin(c, s, Call(c, d, s))
             \/ "reply" \in Ops /\ Begin(c, s, Reply(c, d, s))
    \/ \E c \in Conns \ Monitors, f \in Flags :
          "request" \in Ops /\ Begin(c, 0, RequestName(c, f))
    \/ \E c \in Conns \ Monitors : "release" \in Ops /\ Begin(c, 0, ReleaseName(c))

----------------------------------------------------------------------------
(* The steps.                                                              *)

Step == Head(tx.prog)
Done(hooks) == tx' = [tx EXCEPT !.prog = Tail(@), !.hooks = hooks \o @]

\* The messages of this transaction are found from the connections that got one.
SendMessage ==
    /\ Step.k = "send"
    /\ IF Step.to \in up
       THEN /\ toSend' = [toSend EXCEPT ![Step.to] = <<Step.m>> \o @]
            /\ asked' = [asked EXCEPT ![Step.to] = Append(@, Step.m)]
            /\ tx' = [tx EXCEPT !.prog = Tail(@),
                                !.conns = IF toSend[Step.to] = <<>> THEN <<Step.to>> \o @ ELSE @]
       ELSE Done(<<>>) /\ UNCHANGED <<toSend, asked>>
    /\ UNCHANGED <<pending, timer, nameVars, lasting>>

Awaited(m, get, snd) ==
    SelectInSeq(pending, LAMBDA p : p.get = get /\ p.snd = snd /\ p.serial = m.s)

\* A new entry; callee remembers whom the call was for.
Pending(m) == [get |-> m.from, snd |-> m.to, serial |-> m.s, late |-> FALSE, callee |-> m.to]

\* bus_connections_expect_reply
ExpectReply ==
    /\ Step.k = "expect"
    /\ LET m == Step.m
           mine == {i \in DOMAIN pending : pending[i].get = m.from}
           refused == Awaited(m, m.from, m.to) # 0 \/ Cardinality(mine) >= MaxReplies
           p == Pending(m)
       IN IF refused
          THEN /\ tx' = [tx EXCEPT !.prog = ErrorReply(m.from, m.s)]
               /\ UNCHANGED <<pending, timer>>
          ELSE /\ pending' = <<p>> \o pending
               /\ timer' = TRUE
               /\ Done(<<[k |-> "unexpect", p |-> p]>>)
    /\ UNCHANGED <<toSend, asked, nameVars, lasting>>

\* bus_connections_check_reply; a reply nobody waits for is refused
CheckReply ==
    /\ Step.k = "check"
    /\ LET m == Step.m
           i == Awaited(m, m.to, m.from)
       IN IF i = 0
          THEN /\ tx' = [tx EXCEPT !.prog = ErrorReply(m.from, m.s)]
               /\ UNCHANGED pending
          ELSE /\ pending' = RemoveAt(pending, i)
               /\ Done(<<[k |-> "unlinked", p |-> pending[i]]>>)
    /\ UNCHANGED <<toSend, asked, timer, nameVars, lasting>>

NewOwner ==
    /\ Step.k = "add"
    /\ owners' = IF "replace" \in Step.f /\ owners # <<>> THEN InsertSecond(owners, Step.c)
                 ELSE Append(owners, Step.c)
    /\ refs' = [refs EXCEPT ![Step.c] = 2]      \* the list and the hook
    /\ flags' = [flags EXCEPT ![Step.c] = Step.f]
    /\ owned' = [owned EXCEPT ![Step.c] = @ + 1]
    /\ Done(<<[k |-> "cancel_ownership", c |-> Step.c]>>)
    /\ UNCHANGED <<toSend, asked, pending, timer, lasting>>

\* the branches of add_owner, remove_owner and acquire_service that have no hook
Unhooked ==
    /\ Step.k \in {"requeue", "flags", "unqueue"}
    /\ LET c == Step.c
           rest == SelectSeq(owners, LAMBDA o : o # c)
       IN \/ /\ Step.k = "unqueue"
             /\ owners' = rest
             /\ refs' = [refs EXCEPT ![c] = 0]
             /\ owned' = [owned EXCEPT ![c] = @ - 1]
             /\ UNCHANGED flags
          \/ /\ Step.k # "unqueue"
             /\ owners' = IF Step.k = "requeue" /\ "replace" \in Step.f
                          THEN InsertSecond(rest, c) ELSE owners
             /\ flags' = [flags EXCEPT ![c] = Step.f]
             /\ UNCHANGED <<refs, owned>>
    /\ lasting' = lasting \cup {Step.c}
    /\ Done(<<>>)
    /\ UNCHANGED <<toSend, asked, pending, timer>>

\* add_restore_ownership_to_transaction: before_owner is the next in the list.  The hook gives
\* back neither the reference of the list nor the one place of an owner that was swapped.
RestoreHook(c) ==
    LET i == SelectInSeq(owners, LAMBDA o : o = c)
    IN [k |-> "restore_ownership", c |-> c,
        before |-> IF i < Len(owners) THEN owners[i + 1] ELSE Nobody]

RemoveLast(L, c) == RemoveAt(L, SelectLastInSeq(L, LAMBDA o : o = c))

RemovePrimary ==
    /\ Step.k = "remove"
    /\ owners' = RemoveLast(owners, Step.c)
    /\ lasting' = lasting \cup {Step.c}
    /\ Done(<<RestoreHook(Step.c)>>)        \* the list's reference goes, the hook's comes
    /\ UNCHANGED <<toSend, asked, pending, timer, refs, flags, owned>>

\* Faulty variant: the hook has no reference of its own.
SwapPrimaryUnreferenced ==
    /\ Step.k = "swap"
    /\ owners' = InsertSecond(Tail(owners), Step.c)
    /\ lasting' = lasting \cup {Step.c}
    /\ Done(<<RestoreHook(Step.c)>>)
    /\ UNCHANGED <<toSend, asked, pending, timer, refs, flags, owned>>

SwapPrimary ==
    /\ Step.k = "swap"
    /\ owners' = InsertSecond(Tail(owners), Step.c)
    /\ refs' = [refs EXCEPT ![Step.c] = @ + 1]
    /\ lasting' = lasting \cup {Step.c}
    /\ Done(<<RestoreHook(Step.c)>>)
    /\ UNCHANGED <<toSend, asked, pending, timer, flags, owned>>

TakeStep ==
    /\ tx.open /\ tx.prog # <<>>
    /\ \/ SendMessage \/ ExpectReply \/ CheckReply \/ NewOwner \/ Unhooked
       \/ RemovePrimary \/ SwapPrimary
    /\ UNCHANGED <<up, out, before, how, debt, failures>>

----------------------------------------------------------------------------
(* The end of a transaction.                                               *)

\* An owner object whose last reference goes takes the name from its connection.
Unref(st, c) ==
    [st EXCEPT !.refs[c] = @ - 1,
               !.owned[c] = IF st.refs[c] = 1 THEN @ - 1 ELSE @]

\* the free function of a hook
FreeHook(st, h) ==
    IF h.k \in {"cancel_ownership", "restore_ownership"} THEN Unref(st, h.c) ELSE st

\* Faulty variant: the hook does not put the pending reply back.
CancelHookForgetful(st, h) ==
    IF h.k = "unexpect" THEN [st EXCEPT !.pending = SelectSeq(@, LAMBDA p : p # h.p)] ELSE st

\* cancel_pending_reply, cancel_check_pending_reply, cancel_ownership, restore_ownership
CancelHook(st, h) ==
    CASE h.k = "unexpect" -> [st EXCEPT !.pending = SelectSeq(@, LAMBDA p : p # h.p)]
      [] h.k = "unlinked" -> [st EXCEPT !.pending = <<h.p>> \o @, !.timer = TRUE]
      [] h.k = "cancel_ownership" -> Unref([st EXCEPT !.owners = RemoveLast(@, h.c)], h.c)
      [] h.k = "restore_ownership" ->
           LET i == SelectInSeq(st.owners, LAMBDA o : o = h.before)
           IN [st EXCEPT !.owners = InsertAt(@, IF i = 0 THEN Len(@) + 1 ELSE i, h.c),
                         !.owned[h.c] = @ + 1]

State == [pending |-> pending, timer |-> timer, owners |-> owners, refs |-> refs,
          owned |-> owned]

Becomes(st) ==
    /\ pending' = st.pending /\ timer' = st.timer /\ owners' = st.owners
    /\ refs' = st.refs /\ owned' = st.owned

\* connection_cancel_transaction, for every connection of the transaction
CancelMessages ==
    toSend' = [c \in Conns |-> IF c \in Range(tx.conns) THEN <<>> ELSE toSend[c]]

\* An allocation fails: bus_connection_send_oom_error and bus_transaction_cancel_and_free.
\* When that runs restore_ownership, the list of owners is wrong afterwards (or an assertion has
\* ended the process, services.c:930), and the model goes no further: how is "damaged".
Fail ==
    /\ tx.open /\ tx.prog # <<>>
    /\ failures < MaxFailures
    /\ failures' = failures + 1
    /\ out' = [out EXCEPT ![tx.from] = Append(@, Message("oom", tx.serial, Bus, tx.from))]
    /\ CancelMessages
    /\ Becomes(FoldLeft(FreeHook, FoldLeft(CancelHook, State, tx.hooks), tx.hooks))
    /\ tx' = NoTransaction
    /\ how' = IF \E i \in DOMAIN tx.hooks : tx.hooks[i].k = "restore_ownership"
              THEN "damaged" ELSE "cancelled"
    /\ UNCHANGED <<up, flags, before, asked, debt, lasting>>

\* connection_execute_transaction: from the end of the list
Queued(c) == Reverse(toSend[c])

\* What the messages that were just queued mean for the calls.
Settle(queued) ==
    LET sent == UNION {Range(queued[c]) : c \in Conns \ Monitors}
        opened == {<<m.from, m.to, m.s>> : m \in {m \in sent : m.k = "call"}}
        closed == {<<m.to, m.from, m.s>> : m \in {m \in sent : m.k = "return"}}
    IN (debt \cup opened) \ closed

\* bus_transaction_execute_and_free
Commit ==
    /\ tx.open /\ tx.prog = <<>>
    /\ LET queued == [c \in Conns |-> IF c \in Range(tx.conns) THEN Queued(c) ELSE <<>>]
       IN /\ out' = [c \in Conns |-> out[c] \o queued[c]]
          /\ debt' = Settle(queued)
    /\ CancelMessages
    /\ Becomes(FoldLeft(FreeHook, State, tx.hooks))
    /\ tx' = NoTransaction
    /\ how' = "executed"
    /\ UNCHANGED <<up, flags, before, asked, failures, lasting>>

----------------------------------------------------------------------------
(* Disconnection and expiry.                                               *)

\* bus_connection_drop_pending_replies rechecks the list when a reply cannot come any more
Rechecked(ps) == timer \/ \E i \in DOMAIN ps : ps[i].snd = Nobody /\ ps[i] # pending[i]

DropPendingReplies(c) ==
    [i \in DOMAIN pending |->
        IF pending[i].snd = c THEN [pending[i] EXCEPT !.snd = Nobody, !.late = TRUE]
        ELSE pending[i]]

\* bus_connection_disconnected; the removal of the owner is repeated until it succeeds
Disconnect(c) ==
    /\ ~tx.open /\ how # "damaged"
    /\ c \in up \ Monitors
    /\ up' = up \ {c}
    /\ owners' = SelectSeq(owners, LAMBDA o : o # c)
    /\ refs' = [refs EXCEPT ![c] = 0]
    /\ owned' = [owned EXCEPT ![c] = 0]
    /\ timer' = Rechecked(DropPendingReplies(c))
    /\ pending' = SelectSeq(DropPendingReplies(c), LAMBDA p : p.get # c)
    /\ debt' = {d \in debt : d[1] # c}
    /\ how' = "none"
    /\ UNCHANGED <<tx, toSend, out, flags, before, asked, failures, lasting>>

\* reply_timeout has passed since an entry was added
Elapse ==
    /\ ExpireAfter
    /\ ~tx.open /\ how # "damaged"
    /\ \E i \in DOMAIN pending :
          ~pending[i].late /\ pending' = [pending EXCEPT ![i].late = TRUE]
    /\ how' = "none"
    /\ UNCHANGED <<up, tx, toSend, out, timer, nameVars, before, asked, debt, failures, lasting>>

\* do_expiration_with_monotonic_time: the next interval; an OOM wait after a failure
TimerAfter(failed, rest) == failed \/ (ExpireAfter /\ rest # <<>>)

\* expire_timeout_handler: bus_pending_reply_expired for every entry whose time has come,
\* until one of them finds no memory
Expire(k) ==
    /\ ~tx.open /\ timer /\ how # "damaged"
    /\ LET due == {i \in DOMAIN pending : pending[i].late}
           first == {i \in due : Cardinality({j \in due : j < i}) < k}
           gone == {pending[i] : i \in first}
           left == SetToSortSeq(DOMAIN pending \ first, LAMBDA i, j : i < j)
       IN /\ k <= Cardinality(due)
          /\ k < Cardinality(due) => failures < MaxFailures
          /\ failures' = IF k < Cardinality(due) THEN failures + 1 ELSE failures
          /\ pending' = [j \in DOMAIN left |-> pending[left[j]]]
          /\ timer' = TimerAfter(k < Cardinality(due), pending')
          /\ out' = [c \in Conns |->
                        SetToSeq({Message("noreply", p.serial, Bus, c) :
                                    p \in {p \in gone : p.get = c}})]
          /\ debt' = debt \ {<<p.get, p.callee, p.serial>> : p \in gone}
    /\ how' = "expired"
    /\ UNCHANGED <<up, tx, toSend, nameVars, before, asked, lasting>>

ExpireAll == \E k \in 0 .. Len(pending) :
    k = Cardinality({i \in DOMAIN pending : pending[i].late}) /\ Expire(k)

Next ==
    \/ BeginRequest \/ TakeStep \/ Fail \/ Commit \/ Elapse
    \/ \E c \in Conns : Disconnect(c)
    \/ \E k \in 0 .. Len(pending) : Expire(k)

Spec == Init /\ [][Next]_vars

----------------------------------------------------------------------------
(* Properties.                                                             *)

TypeOK ==
    /\ up \subseteq Conns
    /\ tx.open => tx.from \in up
    /\ \A i \in DOMAIN pending : pending[i].get \in up /\ pending[i].snd \in up \cup {Nobody}
    /\ timer \in BOOLEAN
    /\ owners \in Seq(up)
    /\ refs \in [Conns -> 0 .. 2]
    /\ how \in {"none", "open", "executed", "cancelled", "damaged", "expired"}
    /\ lasting \subseteq Conns

\* A request that ran out of memory has changed neither the pending replies nor the owners of
\* the name, and nobody but its sender hears of it (bus_transaction_cancel_and_free).  The timer
\* is not taken back, so it may be enabled where it was not, and never the other way round.
\* What the request did to an owner in lasting stays: a change without a hook (new flags, a new
\* place or none in the queue), and one that the hook of a removal or a swap undoes wrongly.
\* Every other owner has its flags, its references and its count again, and its place among
\* the others.
AllOrNothing ==
    how \in {"cancelled", "damaged"} =>
        /\ Range(pending) = before.pending
        /\ before.timer => timer
        /\ LET Spared(L) == SelectSeq(L, LAMBDA o : o \notin lasting)
           IN /\ Spared(owners) = Spared(before.owners)
              /\ \A c \in Conns \ lasting :
                    /\ refs[c] = before.refs[c] /\ owned[c] = before.owned[c]
                    /\ HasOwner(c) => flags[c] = before.flags[c]
        /\ \A c \in Conns : \A i \in DOMAIN out[c] : out[c][i].k = "oom"
        /\ \A c \in Conns : toSend[c] = <<>>

\* A connection gets the messages of a transaction in the order in which they were sent to it,
\* although they are kept the newest first (connection_execute_transaction).
InOrder == how = "executed" => out = asked

\* Between requests, the replies that the daemon waits for are the calls that were delivered
\* and not answered (bus_connections_expect_reply, _check_reply and their hooks).
OwedIsPending ==
    ~tx.open =>
        /\ {<<p.get, p.callee, p.serial>> : p \in Range(pending)} = debt
        /\ Cardinality(debt) = Len(pending)

\* As long as an entry of the list can expire, the timeout that looks at it is enabled
\* (bus_expire_list_add, _recheck_immediately, bus_expirelist_expire).
TimerIsArmed ==
    (ExpireAfter /\ pending # <<>>) \/ (\E i \in DOMAIN pending : pending[i].late) => timer

\* Every call to a connection that is gone ends with an error
\* (bus_connection_drop_pending_replies, bus_pending_reply_expired).
Abandoned(c, s) ==
    \E i \in DOMAIN pending : pending[i].get = c /\ pending[i].serial = s /\ pending[i].snd = Nobody

\* The owners in the list are alive and none is listed twice, and a connection counts the name
\* exactly when it is in the list (bus_owner_unref).  After restore_ownership has run, this holds
\* of all but the one owner that it put back.
Sound(c) == how # "damaged" \/ c \notin lasting

OwnersAreAlive == \A i \in DOMAIN owners : Sound(owners[i]) => refs[owners[i]] > 0

OwnersAreListedOnce ==
    /\ \A i, j \in DOMAIN owners : owners[i] = owners[j] /\ Sound(owners[i]) => i = j
    /\ ~tx.open =>
          \A c \in Conns : Sound(c) => owned[c] = (IF HasOwner(c) THEN 1 ELSE 0)
=============================================================================
