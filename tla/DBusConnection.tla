--------------------------- MODULE DBusConnection ---------------------------
(***************************************************************************)
(* One DBusConnection shared by the threads of a process                   *)
(* (dbus-connection.c, dbus-pending-call.c): calls are sent and tracked in *)
(* pending_replies, messages are read into the incoming queue, one thread  *)
(* at a time dispatches them, other threads block for the reply to a call  *)
(* and take it out of the middle of the queue, timeouts and the loss of    *)
(* the connection put error replies there.                                 *)
(*                                                                         *)
(* A step is what a thread does between taking and dropping the lock of    *)
(* the connection; `lock' names a thread that has not dropped it yet.  The *)
(* lock is dropped around callbacks, while polling, between a reply being  *)
(* set and the call being marked complete, and once per call that is timed *)
(* out when the connection is lost.                                        *)
(***************************************************************************)
EXTENDS Naturals, Sequences, FiniteSets, SequencesExt

CONSTANTS
    Calls,          \* serials of the calls made
    Infinite,       \* the calls made with DBUS_TIMEOUT_INFINITE
    Untracked,      \* the calls made with pending_return = NULL
    Threads,
    Dispatchers,    \* threads that run the main loop: dispatch, timeouts
    Blockers,       \* threads that block for replies
    Borrowers,      \* threads that use borrow, steal, return and pop
    MaxSignals,     \* bound: messages of the peer that are no replies
    MaxReplies,     \* bound: replies of the peer to one call
    MaxOom          \* bound: dispatches that run out of memory

VARIABLES
    k,              \* the DBusConnection with its pending calls
    th,             \* what each thread is doing
    lock,           \* the thread inside the connection lock, or NoThread
    reader,         \* io_path_acquired, by whom
    holder,         \* dispatch_acquired, by whom
    borrowed,       \* message_borrowed
    wire,           \* messages of the peer that have not been read
    hung,           \* the peer has closed
    asked,          \* calls that have reached the peer
    sent,           \* number of replies and signals the peer has sent
    seen,           \* history: messages the application got
    oom, crashed

vars == <<k, th, lock, reader, holder, borrowed, wire, hung, asked, sent, seen, oom, crashed>>
peer == <<wire, hung, asked, sent>>

NoThread == "none"
Nothing == <<"nothing", 0>>
Reply(c) == <<"reply", c>>
NoReply(c) == <<"no reply", c>>             \* pending->timeout_link
LocalError(c) == <<"disconnected error", c>>
Disconnected == <<"Disconnected", 0>>
Signal(n) == <<"signal", n>>
Serial(m) == IF m[1] \in {"reply", "no reply", "disconnected error"} THEN m[2] ELSE 0

NewCall == [st |-> "new", link |-> FALSE, timer |-> FALSE, reply |-> Nothing, times |-> 0]
Idle == [pc |-> "idle", call |-> 0, msg |-> Nothing, aware |-> FALSE, next |-> "idle"]

Init ==
    /\ k = [incoming |-> <<>>, outgoing |-> <<>>, table |-> {}, connected |-> TRUE,
            discLink |-> TRUE, arrived |-> FALSE, processed |-> FALSE,
            call |-> [c \in Calls |-> NewCall]]
    /\ th = [t \in Threads |-> Idle]
    /\ lock = NoThread /\ reader = NoThread /\ holder = NoThread /\ borrowed = Nothing
    /\ wire = <<>> /\ hung = FALSE /\ asked = {}
    /\ sent = [r |-> [c \in Calls |-> 0], n |-> 0]
    /\ seen = <<>> /\ oom = 0 /\ crashed = FALSE

At(t, pc) == ~crashed /\ lock \in {NoThread, t} /\ th[t].pc = pc
Goto(t, pc) == th' = [th EXCEPT ![t].pc = pc]
-----------------------------------------------------------------------------
(* The parts that run with the lock held.                                  *)

\* _dbus_connection_queue_received_message_link that leaves the timeout alone.
QueueReceivedTicking(c, m) == [c EXCEPT !.incoming = Append(@, m)]

\* A reply stops the clock of its call as soon as it is queued.
QueueReceived(c, m) ==
    [c EXCEPT !.incoming = Append(@, m),
              !.call = IF Serial(m) \in c.table THEN [@ EXCEPT ![Serial(m)].timer = FALSE] ELSE @]

AttachPendingCall(c, s) ==
    [c EXCEPT !.table = @ \cup {s}, !.call[s].link = TRUE, !.call[s].timer = s \notin Infinite]

\* _dbus_pending_call_queue_timeout_error_unlocked: once.
QueueTimeoutError(c, s) ==
    IF c.call[s].link
    THEN [c EXCEPT !.incoming = Append(@, NoReply(s)), !.call[s].link = FALSE] ELSE c

DetachPendingCall(c, s) == [c EXCEPT !.table = @ \ {s}, !.call[s].timer = FALSE]

\* _dbus_pending_call_set_reply_unlocked; Nothing stands for NULL, the timeout error.
SetReply(c, s, m) ==
    IF m = Nothing THEN [c EXCEPT !.call[s].reply = NoReply(s), !.call[s].link = FALSE]
    ELSE [c EXCEPT !.call[s].reply = m]

PeekForReply(c, s) == \E i \in 1..Len(c.incoming) : Serial(c.incoming[i]) = s
FirstReply(c, s) ==
    CHOOSE i \in 1..Len(c.incoming) :
        Serial(c.incoming[i]) = s /\ \A j \in 1..i-1 : Serial(c.incoming[j]) # s

\* check_disconnected_message_arrived_unlocked, at the head of the queue.
DisconnectedArrived(c, m) == IF m = Disconnected /\ ~c.discLink THEN [c EXCEPT !.arrived = TRUE] ELSE c

\* _dbus_connection_update_dispatch_status_and_unlock.
UpdateDispatchStatus(c) == IF c.arrived THEN [c EXCEPT !.processed = TRUE] ELSE c

\* _dbus_connection_get_dispatch_status_unlocked has to tell the application that
\* the connection is lost: the queue is empty and the Disconnected signal not sent.
MustNotify(c) == c.incoming = <<>> /\ ~c.connected /\ c.discLink

\* notify_disconnected_unlocked: what could not be sent is dropped.
NotifyDisconnected(c) == [c EXCEPT !.outgoing = <<>>]

\* Get the dispatch status, and go on at `next'; times out all calls first when
\* the connection is lost.
StatusThen(t, c, next, rest) ==
    /\ IF MustNotify(c)
       THEN /\ k' = NotifyDisconnected(c)
            /\ th' = [th EXCEPT ![t] = [rest EXCEPT !.pc = "drain", !.next = next]]
            /\ lock' = t
       ELSE /\ k' = IF next = "idle" THEN UpdateDispatchStatus(c) ELSE c
            /\ th' = [th EXCEPT ![t] = [rest EXCEPT !.pc = next]]
            /\ lock' = IF next = "idle" THEN NoThread ELSE t

\* One round of connection_timeout_and_complete_all_pending_calls_unlocked.
TimeOutOne(c, s) == DetachPendingCall(QueueTimeoutError(c, s), s)

\* The rounds drop the lock; the last part queues Disconnected behind the errors.
DrainCall(t) ==
    /\ At(t, "drain") /\ k.table # {}
    /\ \E s \in k.table : k' = TimeOutOne(k, s)
    /\ lock' = NoThread
    /\ UNCHANGED <<th, reader, holder, borrowed, peer, seen, oom, crashed>>

NotifyDisconnectedAndDispatchComplete(t) ==
    /\ At(t, "drain") /\ k.table = {}
    /\ crashed' = ~k.discLink               \* a NULL link is queued
    /\ LET c == [k EXCEPT !.incoming = Append(@, Disconnected), !.discLink = FALSE]
       IN  k' = IF th[t].next = "idle" THEN UpdateDispatchStatus(c) ELSE c
    /\ Goto(t, th[t].next)
    /\ lock' = IF th[t].next = "idle" THEN NoThread ELSE t
    /\ UNCHANGED <<reader, holder, borrowed, peer, seen, oom>>
-----------------------------------------------------------------------------
(* Sending.                                                                *)

\* dbus_connection_send_with_reply.  Without a pending_return the call is
\* detached again at once.
SendWithReply(t, s) ==
    /\ At(t, "idle") /\ k.call[s].st = "new"
    /\ IF ~k.connected
       THEN k' = [k EXCEPT !.call[s].st = "refused"] /\ UNCHANGED <<th, lock>>
       ELSE LET c == [AttachPendingCall(k, s) EXCEPT !.call[s].st = "sent", !.outgoing = Append(@, s)]
            IN  StatusThen(t, IF s \in Untracked THEN DetachPendingCall(c, s) ELSE c, "idle", Idle)
    /\ UNCHANGED <<reader, holder, borrowed, peer, seen, oom, crashed>>

\* dbus_pending_call_cancel.
Cancel(t, s) ==
    /\ At(t, "idle") /\ k.call[s].st = "sent" /\ s \notin Untracked
    /\ \A u \in Threads : th[u].call # s
    /\ k' = [DetachPendingCall(k, s) EXCEPT !.call[s].st = "cancelled"]
    /\ UNCHANGED <<th, lock, reader, holder, borrowed, peer, seen, oom, crashed>>

\* The transport writes the oldest message (_dbus_connection_message_sent_unlocked).
Write ==
    /\ ~crashed /\ lock = NoThread /\ k.connected /\ k.outgoing # <<>>
    /\ k' = [k EXCEPT !.outgoing = Tail(@)]
    /\ asked' = asked \cup {Head(k.outgoing)}
    /\ UNCHANGED <<th, lock, reader, holder, borrowed, wire, hung, sent, seen, oom, crashed>>

\* What the transport reads: all that has arrived, else the end of the stream.
Read(c) ==
    IF wire # <<>> THEN FoldLeft(QueueReceived, c, wire)
    ELSE IF hung THEN [c EXCEPT !.connected = FALSE] ELSE c

\* The main loop handles the watch of the socket.
HandleWatch ==
    /\ ~crashed /\ lock = NoThread /\ reader = NoThread /\ k.connected
    /\ wire # <<>> \/ hung
    /\ k' = Read(k) /\ wire' = <<>>
    /\ UNCHANGED <<th, lock, reader, holder, borrowed, hung, asked, sent, seen, oom, crashed>>

\* reply_handler_timeout, in the main loop.
ReplyHandlerTimeout(t, s) ==
    /\ At(t, "idle") /\ t \in Dispatchers /\ k.call[s].timer
    /\ StatusThen(t, [QueueTimeoutError(k, s) EXCEPT !.call[s].timer = FALSE], "idle", Idle)
    /\ UNCHANGED <<reader, holder, borrowed, peer, seen, oom, crashed>>

\* dbus_connection_close.
Close(t) ==
    /\ At(t, "idle") /\ k.connected /\ hung
    /\ StatusThen(t, [k EXCEPT !.connected = FALSE], "idle", Idle)
    /\ UNCHANGED <<reader, holder, borrowed, peer, seen, oom, crashed>>
-----------------------------------------------------------------------------
(* dbus_connection_dispatch.                                               *)

Dispatch(t) ==
    /\ At(t, "idle") /\ t \in Dispatchers
    /\ k.incoming # <<>> \/ MustNotify(k)
    /\ StatusThen(t, k, "acquire", Idle)
    /\ UNCHANGED <<reader, holder, borrowed, peer, seen, oom, crashed>>

\* _dbus_connection_acquire_dispatch drops the lock while it waits.
YieldForDispatch(t) ==
    /\ lock = t /\ At(t, th[t].pc) /\ th[t].pc \in {"acquire", "acquire borrow", "acquire pop"}
    /\ lock' = NoThread
    /\ UNCHANGED <<k, th, reader, holder, borrowed, peer, seen, oom, crashed>>

Holds(t, pc) == At(t, pc) /\ lock = NoThread /\ holder = NoThread

\* Another thread has emptied the queue.
DispatchNothing(t) ==
    /\ Holds(t, "acquire") /\ k.incoming = <<>>
    /\ StatusThen(t, k, "idle", Idle)
    /\ UNCHANGED <<reader, holder, borrowed, peer, seen, oom, crashed>>

\* The reply to a waiting call goes to the call, before any filter.
DispatchReply(t) ==
    /\ Holds(t, "acquire") /\ k.incoming # <<>> /\ Serial(Head(k.incoming)) \in k.table
    /\ LET m == Head(k.incoming)
           c == SetReply([k EXCEPT !.incoming = Tail(@)], Serial(m), m)
       IN  /\ k' = DetachPendingCall(c, Serial(m))
           /\ th' = [th EXCEPT ![t] = [Idle EXCEPT !.pc = "complete", !.call = Serial(m),
                                                   !.next = "dispatched"]]
    /\ holder' = t
    /\ UNCHANGED <<lock, reader, borrowed, peer, seen, oom, crashed>>

DispatchToFilters(t) ==
    /\ Holds(t, "acquire") /\ k.incoming # <<>> /\ Serial(Head(k.incoming)) \notin k.table
    /\ k' = DisconnectedArrived([k EXCEPT !.incoming = Tail(@)], Head(k.incoming))
    /\ th' = [th EXCEPT ![t] = [Idle EXCEPT !.pc = "filters", !.msg = Head(k.incoming)]]
    /\ holder' = t
    /\ UNCHANGED <<lock, reader, borrowed, peer, seen, oom, crashed>>

\* No memory for the copy of the filter list: _dbus_connection_failed_pop.
FiltersNotCopied(t) ==
    /\ Holds(t, "acquire") /\ k.incoming # <<>> /\ Serial(Head(k.incoming)) \notin k.table
    /\ oom < MaxOom /\ oom' = oom + 1
    /\ k' = UpdateDispatchStatus(DisconnectedArrived(k, Head(k.incoming)))
    /\ th' = [th EXCEPT ![t] = Idle]
    /\ UNCHANGED <<lock, reader, holder, borrowed, peer, seen, crashed>>

\* Filters and object handlers run without the lock.
Handled(t) ==
    /\ ~crashed /\ th[t].pc = "filters"
    /\ seen' = Append(seen, th[t].msg)
    /\ th' = [th EXCEPT ![t].pc = "dispatched", ![t].msg = Nothing]
    /\ UNCHANGED <<k, lock, reader, holder, borrowed, peer, oom, crashed>>

Putback(c, m) == [c EXCEPT !.incoming = <<m>> \o @]

\* A handler returned NEED_MEMORY.
HandlerNeedsMemory(t) ==
    /\ At(t, "filters") /\ oom < MaxOom
    /\ oom' = oom + 1
    /\ k' = Putback(k, th[t].msg)
    /\ th' = [th EXCEPT ![t].pc = "dispatched", ![t].msg = Nothing]
    /\ UNCHANGED <<lock, reader, holder, borrowed, peer, seen, crashed>>

\* _dbus_connection_release_dispatch and the status afterwards.
Dispatched(t) ==
    /\ At(t, "dispatched")
    /\ holder' = NoThread
    /\ StatusThen(t, k, "idle", Idle)
    /\ UNCHANGED <<reader, borrowed, peer, seen, oom, crashed>>

\* _dbus_pending_call_complete, outside the lock.
Complete(t) ==
    /\ ~crashed /\ th[t].pc = "complete"
    /\ k' = [k EXCEPT !.call[th[t].call].times = @ + 1]
    /\ th' = [th EXCEPT ![t] = [Idle EXCEPT !.pc = th[t].next]]
    /\ UNCHANGED <<lock, reader, holder, borrowed, peer, seen, oom, crashed>>
-----------------------------------------------------------------------------
(* dbus_connection_borrow_message, _return_message, _steal_borrowed_message *)
(* and dbus_connection_pop_message.                                        *)

Borrow(t) ==
    /\ At(t, "idle") /\ t \in Borrowers /\ k.incoming # <<>>
    /\ Goto(t, "acquire borrow") /\ lock' = t
    /\ UNCHANGED <<k, reader, holder, borrowed, peer, seen, oom, crashed>>

BorrowFirst(t) ==
    /\ Holds(t, "acquire borrow")
    /\ IF k.incoming = <<>>
       THEN Goto(t, "idle") /\ UNCHANGED <<k, holder, borrowed>>
       ELSE /\ Goto(t, "borrowed") /\ holder' = t /\ borrowed' = Head(k.incoming)
            /\ k' = DisconnectedArrived(k, Head(k.incoming))
    /\ UNCHANGED <<lock, reader, peer, seen, oom, crashed>>

ReturnMessage(t) ==
    /\ At(t, "borrowed")
    /\ borrowed' = Nothing /\ holder' = NoThread
    /\ StatusThen(t, k, "idle", Idle)
    /\ UNCHANGED <<reader, peer, seen, oom, crashed>>

StealBorrowed(t) ==
    /\ At(t, "borrowed")
    /\ crashed' = (k.incoming = <<>> \/ Head(k.incoming) # borrowed)
    /\ seen' = Append(seen, borrowed)
    /\ borrowed' = Nothing /\ holder' = NoThread
    /\ StatusThen(t, [k EXCEPT !.incoming = IF @ = <<>> THEN @ ELSE Tail(@)], "idle", Idle)
    /\ UNCHANGED <<reader, peer, oom>>

Pop(t) ==
    /\ At(t, "idle") /\ t \in Borrowers /\ k.incoming # <<>>
    /\ Goto(t, "acquire pop") /\ lock' = t
    /\ UNCHANGED <<k, reader, holder, borrowed, peer, seen, oom, crashed>>

PopFirst(t) ==
    /\ Holds(t, "acquire pop")
    /\ IF k.incoming = <<>> THEN StatusThen(t, k, "idle", Idle) /\ UNCHANGED seen
       ELSE /\ StatusThen(t, DisconnectedArrived([k EXCEPT !.incoming = Tail(@)], Head(k.incoming)), "idle", Idle)
            /\ seen' = Append(seen, Head(k.incoming))
    /\ UNCHANGED <<reader, holder, borrowed, peer, oom, crashed>>
-----------------------------------------------------------------------------
(* _dbus_connection_block_pending_call.                                    *)

Block(t, s) ==
    /\ At(t, "idle") /\ t \in Blockers
    /\ k.call[s].st = "sent" /\ k.call[s].times = 0 /\ s \notin Untracked
    /\ th' = [th EXCEPT ![t] = [Idle EXCEPT !.pc = "flush", !.call = s]]
    /\ UNCHANGED <<k, lock, reader, holder, borrowed, peer, seen, oom, crashed>>

\* _dbus_connection_flush_unlocked.
Flushed(t) ==
    /\ At(t, "flush") /\ (k.outgoing = <<>> \/ ~k.connected)
    /\ StatusThen(t, k, "check", th[t])
    /\ UNCHANGED <<reader, holder, borrowed, peer, seen, oom, crashed>>

Completing(t, c, m, next) ==
    /\ k' = DetachPendingCall(SetReply(c, th[t].call, m), th[t].call)
    /\ th' = [th EXCEPT ![t].pc = "complete", ![t].next = next]
    /\ lock' = NoThread

\* check_for_reply_and_update_dispatch_unlocked: the reply may be anywhere in
\* the queue.
TakeReply(t) ==
    LET i == FirstReply(k, th[t].call)
    IN  /\ PeekForReply(k, th[t].call)
        /\ Completing(t, [k EXCEPT !.incoming = RemoveAt(@, i)], k.incoming[i], "returned")

Check(t) ==
    /\ At(t, "check")
    /\ \/ TakeReply(t)
       \/ /\ ~PeekForReply(k, th[t].call)
          /\ th' = [th EXCEPT ![t].pc = "want io", ![t].aware = TRUE]
          /\ lock' = NoThread /\ UNCHANGED k
    /\ UNCHANGED <<reader, holder, borrowed, peer, seen, oom, crashed>>

\* _dbus_connection_do_iteration_unlocked: with the I/O path acquired, a thread
\* that knows its call looks again before it polls.
AcquireIoPath(t) ==
    /\ At(t, "want io") /\ reader = NoThread
    /\ IF th[t].aware /\ (k.call[th[t].call].times > 0 \/ PeekForReply(k, th[t].call))
       THEN Goto(t, "recheck") /\ UNCHANGED reader
       ELSE Goto(t, "poll") /\ reader' = t
    /\ UNCHANGED <<k, lock, holder, borrowed, peer, seen, oom, crashed>>

\* Another thread has the I/O path: the wait for it times out.
IoPathTaken(t) ==
    /\ At(t, "want io") /\ reader # NoThread
    /\ Goto(t, "recheck")
    /\ UNCHANGED <<k, lock, reader, holder, borrowed, peer, seen, oom, crashed>>

\* A poll without the timeout of the call.
PollReturnsOnData(t) == wire # <<>> \/ hung \/ ~k.connected

\* _dbus_transport_do_iteration: poll returns when there is something to read,
\* or after the timeout.
PollReturns(t) == wire # <<>> \/ hung \/ ~k.connected \/ th[t].call \notin Infinite

Poll(t) ==
    /\ At(t, "poll") /\ PollReturns(t)
    /\ k' = (IF k.connected THEN Read(k) ELSE k)
    /\ wire' = (IF k.connected THEN <<>> ELSE wire)
    /\ reader' = NoThread /\ Goto(t, "recheck")
    /\ UNCHANGED <<lock, holder, borrowed, hung, asked, sent, seen, oom, crashed>>

Recheck(t) ==
    /\ At(t, "recheck")
    /\ StatusThen(t, k, "judge", th[t])
    /\ UNCHANGED <<reader, holder, borrowed, peer, seen, oom, crashed>>

\* The body of the loop after recheck_status.
AlreadyCompleted(t) ==
    /\ k.call[th[t].call].times > 0
    /\ k' = UpdateDispatchStatus(k) /\ th' = [th EXCEPT ![t] = Idle] /\ lock' = NoThread

IterateAgain(t) ==
    /\ k.connected
    /\ th' = [th EXCEPT ![t].pc = "want io", ![t].aware = th[t].call \in Infinite]
    /\ lock' = NoThread /\ UNCHANGED k

Judge(t) ==
    /\ At(t, "judge")
    /\ IF k.call[th[t].call].times > 0 THEN AlreadyCompleted(t) /\ UNCHANGED crashed
       ELSE IF PeekForReply(k, th[t].call) THEN TakeReply(t) /\ UNCHANGED crashed
       ELSE \/ /\ ~k.connected /\ UNCHANGED crashed
               /\ Completing(t, k, LocalError(th[t].call), "idle")
            \/ IterateAgain(t) /\ UNCHANGED crashed
            \/ /\ k.connected /\ th[t].call \notin Infinite       \* time is up
               /\ Completing(t, k, Nothing, "returned")
               /\ crashed' = ~k.call[th[t].call].link
    /\ UNCHANGED <<reader, holder, borrowed, peer, seen, oom>>

\* The status after a blocking call.
Returned(t) ==
    /\ At(t, "returned")
    /\ StatusThen(t, k, "idle", Idle)
    /\ UNCHANGED <<reader, holder, borrowed, peer, seen, oom, crashed>>
-----------------------------------------------------------------------------
(* The peer.                                                               *)

PeerReplies(s) ==
    /\ ~crashed /\ ~hung /\ s \in asked /\ sent.r[s] < MaxReplies
    /\ wire' = Append(wire, Reply(s)) /\ sent' = [sent EXCEPT !.r[s] = @ + 1]
    /\ UNCHANGED <<k, th, lock, reader, holder, borrowed, hung, asked, seen, oom, crashed>>

PeerSignals ==
    /\ ~crashed /\ ~hung /\ sent.n < MaxSignals
    /\ wire' = Append(wire, Signal(sent.n + 1)) /\ sent' = [sent EXCEPT !.n = @ + 1]
    /\ UNCHANGED <<k, th, lock, reader, holder, borrowed, hung, asked, seen, oom, crashed>>

PeerHangsUp ==
    /\ ~crashed /\ ~hung /\ hung' = TRUE
    /\ UNCHANGED <<k, th, lock, reader, holder, borrowed, wire, asked, sent, seen, oom, crashed>>

DispatchSteps(t) ==
    \/ Dispatch(t) \/ DispatchNothing(t) \/ DispatchReply(t) \/ DispatchToFilters(t)
    \/ FiltersNotCopied(t) \/ Handled(t) \/ HandlerNeedsMemory(t) \/ Dispatched(t)

BlockSteps(t) ==
    \/ Flushed(t) \/ Check(t) \/ AcquireIoPath(t) \/ IoPathTaken(t) \/ Poll(t)
    \/ Recheck(t) \/ Judge(t) \/ Returned(t)

BorrowSteps(t) ==
    Borrow(t) \/ BorrowFirst(t) \/ ReturnMessage(t) \/ StealBorrowed(t) \/ Pop(t) \/ PopFirst(t)

StatusSteps(t) ==
    DrainCall(t) \/ NotifyDisconnectedAndDispatchComplete(t) \/ YieldForDispatch(t) \/ Complete(t)

Next ==
    \/ \E t \in Threads :
          \/ DispatchSteps(t) \/ BlockSteps(t) \/ BorrowSteps(t) \/ StatusSteps(t)
          \/ Close(t)
          \/ \E s \in Calls :
                SendWithReply(t, s) \/ Cancel(t, s) \/ Block(t, s) \/ ReplyHandlerTimeout(t, s)
    \/ Write \/ HandleWatch
    \/ (\E s \in Calls : PeerReplies(s)) \/ PeerSignals \/ PeerHangsUp

Spec == Init /\ [][Next]_vars

\* The thread that waits looks again, and the reply it waits for is there.
JudgesReply(t) == Judge(t) /\ k.call'[th[t].call].reply # Nothing
AnyReplyTimeout(t) == \E s \in Calls : ReplyHandlerTimeout(t, s)
-----------------------------------------------------------------------------
\* Type invariant.
TypeOK ==
    /\ k.table \subseteq Calls
    /\ k.connected \in BOOLEAN /\ k.discLink \in BOOLEAN
    /\ reader \in Threads \cup {NoThread} /\ holder \in Threads \cup {NoThread}
    /\ \A c \in Calls : k.call[c].st \in {"new", "sent", "refused", "cancelled"}
    /\ \A t \in Threads : th[t].call \in Calls \cup {0}

\* A call gets a reply to itself, and no second one, although replies, late replies, timeouts and
\* the loss of the connection race.  With several threads at work a call may be completed again by
\* a thread that has blocked for it while another one was completing it (dbus-connection.c:2427):
\* with its timeout, with the error of a lost connection, or with another reply of a peer that sends
\* two.
OneReply ==
    \A c \in Calls :
        /\ k.call[c].reply # Nothing => Serial(k.call[c].reply) = c
        /\ k.call[c].times <= 1
              \/ /\ Cardinality(Threads) > 1
                 /\ k.call[c].reply \in {NoReply(c), LocalError(c)} \/ MaxReplies > 1

\* And it gets one: whoever takes a call out of pending_replies completes it.  Not so a call that is
\* cancelled, one nobody keeps (pending_return is NULL), and one that is pending when the connection
\* is lost, which the code forgets (dbus-connection.c:2313).
IsCompleting(t, c) == th[t].pc = "complete" /\ th[t].call = c
NoCallForgotten ==
    k.connected =>
        \A c \in Calls \ Untracked : k.call[c].st = "sent" /\ c \notin k.table =>
            k.call[c].times > 0 \/ \E t \in Threads : IsCompleting(t, c)

\* The clock of a call runs only as long as it waits and nothing has come for it:
\* a late reply never meets a timeout error of the same call in the queue.
NoTimeoutAfterReply ==
    \A c \in Calls :
        /\ k.call[c].timer => c \in k.table /\ ~PeekForReply(k, c)
        /\ MaxReplies = 1 /\ NoReply(c) \in Range(k.incoming) => ~ \E t \in Threads :
              th[t].call = c /\ th[t].pc = "complete" /\ k.call[c].reply = Reply(c)

Signals(q) == SelectSeq(q, LAMBDA m : m[1] = "signal")

\* The messages of the peer reach the application in the order in which they
\* were sent and each once, with threads that dispatch, borrow, steal and pop, and with
\* messages put back for lack of memory.
DeliveredInOrder ==
    \A i, j \in 1..Len(Signals(seen)) : i < j => Signals(seen)[i][2] < Signals(seen)[j][2]

\* "we want the Disconnected to be the last message, after these timeouts": the
\* application sees it once and nothing after it.  One thread.
DisconnectedIsLast ==
    ~crashed /\ \A i \in 1..Len(seen) : seen[i] = Disconnected => i = Len(seen) /\ k.incoming = <<>>

\* A thread that blocks for a call with a timeout returns, whatever the peer and
\* the thread that dispatches do, unless the process has crashed.
Blocks(t) == th[t].pc = "flush"
Returns(t) == th[t].pc = "idle" \/ crashed
=============================================================================
