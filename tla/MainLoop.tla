------------------------------ MODULE MainLoop ------------------------------
(***************************************************************************)
(* dbus/dbus-mainloop.c, the loop the daemon lives in: descriptors with    *)
(* their watches, timeouts, connections with messages to dispatch.  The    *)
(* handlers it calls may change all of these while it walks over them.  A  *)
(* handler that runs out of memory has its watch left out of one poll.     *)
(***************************************************************************)
EXTENDS Integers, Sequences, FiniteSets, SequencesExt

CONSTANTS
    Watches,        \* subset of AllWatches
    Timeouts,       \* subset of {"t1", "t2"}
    MaxOps,         \* bound on the changes made by handlers
    MaxOom,         \* bound on the handlers that run out of memory
    MaxEvents,      \* bound on the events that arrive
    MaxClosed       \* bound on the descriptors closed behind the loop's back

Fd == [r1 |-> 1, w1 |-> 1, r2 |-> 2]
Flag == [r1 |-> "r", w1 |-> "w", r2 |-> "r"]
Fds == {Fd[w] : w \in Watches}

VARIABLES
    watches,        \* per descriptor the list of its watches; <<>> is no entry in the table
    enabled, oom,   \* of the watches
    set,            \* the socket set: per descriptor the flags polled for, or {"absent"}
    timeouts,       \* the list of timeouts
    tenabled, due,  \* the timeouts enabled, and those whose interval is over
    need_dispatch,  \* a connection waits to be dispatched
    depth,          \* 1 while the loop runs, 0 after _dbus_loop_quit
    oom_watch_pending,
    changed,        \* callback_list_serial differs from its value after the poll
    it,             \* where the iteration stands
    ready,          \* the events pending on the descriptors
    closed,         \* descriptors that are not open any more
    ops, ooms, events
loopVars == <<watches, enabled, set, timeouts, tenabled, need_dispatch, depth, changed>>
envVars == <<ready, closed, due, events>>
vars == <<loopVars, oom, oom_watch_pending, it, envVars, ops, ooms>>

Start == [at |-> "poll", wait |-> 0, fds |-> <<>>, cond |-> [f \in {1, 2} |-> {}], fd |-> 0, links |-> <<>>,
          tlink |-> 0, any_oom |-> FALSE, called |-> "none"]

Init ==
    /\ watches = [f \in Fds |-> <<>>] /\ enabled = {} /\ oom = {} /\ set = [f \in Fds |-> {"absent"}]
    /\ timeouts = <<>> /\ tenabled = {} /\ due = {} /\ need_dispatch = FALSE /\ depth = 1
    /\ oom_watch_pending = FALSE /\ changed = FALSE /\ it = Start
    /\ ready = [f \in Fds |-> {}] /\ closed = {} /\ ops = 0 /\ ooms = 0 /\ events = 0

----------------------------------------------------------------------------
(* The operations handlers and their owners call                           *)

Interested(list, en, om) == {w \in Range(list) : w \in en /\ w \notin om}

\* refresh_watches_for_fd: what the socket set polls for
refresh_watches_for_fd(list, en, om) == {Flag[w] : w \in Interested(list, en, om)}

\* add: the first watch of a descriptor adds it to the set, a further one refreshes it
FlagsAfterAdd(list, w, en, om) ==
    IF Len(list) = 1 THEN IF w \in en THEN {Flag[w]} ELSE {} ELSE refresh_watches_for_fd(list, en, om)

AddWatch(w, on) ==
    LET f == Fd[w] IN
    /\ f \notin closed /\ \A g \in Fds : w \notin Range(watches[g])
    /\ watches' = [watches EXCEPT ![f] = Append(@, w)]
    /\ enabled' = IF on THEN enabled \cup {w} ELSE enabled \ {w}
    /\ set' = [set EXCEPT ![f] = FlagsAfterAdd(watches'[f], w, enabled', oom)]
    /\ changed' = TRUE
    /\ UNCHANGED <<timeouts, tenabled, need_dispatch, depth, oom>>

\* the watch is forgotten by the loop and dropped by its owner; only when it was the last one of its
\* descriptor is the socket set told
RemoveWatch(w) ==
    LET f == Fd[w] IN
    /\ w \in Range(watches[f])
    /\ watches' = [watches EXCEPT ![f] = SelectSeq(@, LAMBDA x : x # w)]
    /\ set' = [set EXCEPT ![f] = IF watches'[f] = <<>> THEN {"absent"} ELSE @]
    /\ oom' = oom \ {w}
    /\ changed' = TRUE
    /\ UNCHANGED <<enabled, timeouts, tenabled, need_dispatch, depth>>

\* a transport that is disconnected removes both its watches
RemoveBoth(f) ==
    /\ Len(watches[f]) = 2
    /\ watches' = [watches EXCEPT ![f] = <<>>] /\ set' = [set EXCEPT ![f] = {"absent"}]
    /\ oom' = oom \ Range(watches[f])
    /\ changed' = TRUE
    /\ UNCHANGED <<enabled, timeouts, tenabled, need_dispatch, depth>>

ToggleWatch(w) ==
    LET f == Fd[w] IN
    /\ w \in Range(watches[f])
    /\ enabled' = IF w \in enabled THEN enabled \ {w} ELSE enabled \cup {w}
    /\ set' = [set EXCEPT ![f] = refresh_watches_for_fd(watches[f], enabled', oom)]
    /\ UNCHANGED <<watches, timeouts, tenabled, need_dispatch, depth, changed, oom>>

AddTimeout(t) ==
    /\ t \notin Range(timeouts)
    /\ timeouts' = Append(timeouts, t) /\ tenabled' = tenabled \cup {t} /\ changed' = TRUE
    /\ UNCHANGED <<watches, enabled, set, need_dispatch, depth, oom>>

RemoveTimeout(t) ==
    /\ t \in Range(timeouts)
    /\ timeouts' = SelectSeq(timeouts, LAMBDA x : x # t) /\ changed' = TRUE
    /\ UNCHANGED <<watches, enabled, set, tenabled, need_dispatch, depth, oom>>

ToggleTimeout(t) ==
    /\ t \in Range(timeouts)
    /\ tenabled' = IF t \in tenabled THEN tenabled \ {t} ELSE tenabled \cup {t}
    /\ UNCHANGED <<watches, enabled, set, timeouts, need_dispatch, depth, changed, oom>>

QueueDispatch ==
    /\ ~need_dispatch /\ need_dispatch' = TRUE
    /\ UNCHANGED <<watches, enabled, set, timeouts, tenabled, depth, changed, oom>>

Quit ==
    /\ depth = 1 /\ depth' = 0
    /\ UNCHANGED <<watches, enabled, set, timeouts, tenabled, need_dispatch, changed, oom>>

Op == \/ \E w \in Watches : RemoveWatch(w) \/ ToggleWatch(w) \/ \E on \in BOOLEAN : AddWatch(w, on)
      \/ \E t \in Timeouts : AddTimeout(t) \/ RemoveTimeout(t) \/ ToggleTimeout(t)
      \/ \E f \in Fds : RemoveBoth(f)
      \/ QueueDispatch \/ Quit

NoOp == UNCHANGED <<loopVars, oom>>

----------------------------------------------------------------------------
(* One iteration                                                           *)

Enabled(t) == t \in Range(timeouts) /\ t \in tenabled

OomWait == 500
Interval == 1000

\* MIN (timeout, _dbus_get_oom_wait ()): -1, no limit, is less than any wait
WithOomWait(wait) == IF wait < OomWait THEN wait ELSE OomWait

\* the longest the poll may take; without watches and timeouts there is none
PollBegin ==
    /\ it.at = "poll" /\ depth = 1
    /\ IF (\A f \in Fds : watches[f] = <<>>) /\ timeouts = <<>>
         THEN it' = [Start EXCEPT !.at = "dispatch"]
         ELSE LET byTimeouts == IF \E t \in Timeouts : Enabled(t) /\ t \in due THEN 0
                                ELSE IF \E t \in Timeouts : Enabled(t) THEN Interval ELSE -1
                  wait == IF need_dispatch THEN 0 ELSE byTimeouts IN
              it' = [Start EXCEPT !.at = "polling", !.wait = IF oom_watch_pending THEN WithOomWait(wait) ELSE wait]
    /\ UNCHANGED <<loopVars, oom, oom_watch_pending, envVars, ops, ooms>>

\* what the kernel reports: pending events that are polled for, or a closed descriptor
Reported(f) == IF set[f] = {"absent"} THEN {} ELSE IF f \in closed THEN {"nval"} ELSE ready[f] \cap set[f]

Reenabled(om) == {}

\* _dbus_socket_set_poll returns; the watches skipped for want of memory are polled again from now on
PollEnd ==
    /\ it.at = "polling"
    /\ LET some == {f \in Fds : Reported(f) # {}} IN
       /\ some = {} => it.wait # -1
       /\ \E order \in {s \in [1 .. Cardinality(some) -> some] : Range(s) = some} :
            it' = [it EXCEPT !.at = "timeouts", !.fds = order, !.cond = [f \in {1, 2} |-> IF f \in some THEN Reported(f) ELSE {}]]
    /\ IF oom_watch_pending
         THEN /\ oom' = Reenabled(oom)
              /\ set' = [f \in Fds |-> IF \E w \in Range(watches[f]) : w \in oom
                                        THEN refresh_watches_for_fd(watches[f], enabled, oom') ELSE set[f]]
              /\ oom_watch_pending' = FALSE
         ELSE UNCHANGED <<oom, set, oom_watch_pending>>
    /\ changed' = FALSE
    /\ UNCHANGED <<watches, enabled, timeouts, tenabled, need_dispatch, depth, envVars, ops, ooms>>

\* Faulty variant: the walk goes on after the lists have changed.
StopDepthOnly(c, n) == n # 1

\* the walk ends when the lists changed or the loop was told to quit
Stop(c, n) == c \/ n # 1

\* the next timeout of the list; a due one is handled and starts its interval anew
HandleTimeout ==
    /\ it.at = "timeouts"
    /\ IF it.tlink >= Len(timeouts) THEN it' = [it EXCEPT !.at = "fds"] /\ NoOp /\ UNCHANGED <<due, ops>>
       ELSE IF Stop(changed, depth) THEN it' = [it EXCEPT !.at = "dispatch"] /\ NoOp /\ UNCHANGED <<due, ops>>
       ELSE LET t == timeouts[it.tlink + 1] IN
            IF Enabled(t) /\ t \in due
              THEN /\ it' = [it EXCEPT !.tlink = @ + 1, !.called = t]
                   /\ due' = due \ {t}
                   /\ \/ ops < MaxOps /\ ops' = ops + 1 /\ Op
                      \/ NoOp /\ UNCHANGED ops
              ELSE it' = [it EXCEPT !.tlink = @ + 1] /\ NoOp /\ UNCHANGED <<due, ops>>
    /\ UNCHANGED <<oom_watch_pending, ready, closed, events, ooms>>

\* cull_watches_for_invalid_fd: the entry goes; the socket set is not told
Cull(f) ==
    /\ watches' = [watches EXCEPT ![f] = <<>>]
    /\ oom' = oom \ Range(watches[f])
    /\ UNCHANGED <<enabled, set, timeouts, tenabled, need_dispatch, depth, changed>>

\* the next descriptor reported
NextFd ==
    /\ it.at = "fds"
    /\ IF it.fds = <<>> \/ Stop(changed, depth) THEN it' = [it EXCEPT !.at = "dispatch"] /\ NoOp
       ELSE LET f == Head(it.fds) IN
            IF it.cond[f] = {"nval"} THEN it' = [it EXCEPT !.at = "dispatch"] /\ Cull(f)
            ELSE it' = [it EXCEPT !.at = "watch", !.fds = Tail(@), !.fd = f, !.links = watches[f], !.any_oom = FALSE] /\ NoOp
    /\ UNCHANGED <<oom_watch_pending, envVars, ops, ooms>>

\* refreshing a descriptor whose entry has gone meets an assertion, and without assertions a null pointer
NothingToRefresh == it.any_oom /\ watches[it.fd] = <<>>

\* the end of the walk over a descriptor, or its abandonment after a handler, whatever that has left of it
LeaveFd(to) ==
    /\ it' = [it EXCEPT !.at = IF NothingToRefresh THEN "crashed" ELSE to, !.called = "none"]
    /\ set' = IF it.any_oom /\ ~NothingToRefresh
                THEN [set EXCEPT ![it.fd] = refresh_watches_for_fd(watches[it.fd], enabled, oom)] ELSE set
    /\ UNCHANGED <<watches, enabled, timeouts, tenabled, need_dispatch, depth, changed, oom>>

Handled(w) == ready' = [ready EXCEPT ![Fd[w]] = @ \ {Flag[w]}]

MayHandle(w) == w \in enabled

\* the next watch of the descriptor: dbus_watch_handle calls the handler when its condition is met;
\* a handler that runs out of memory has changed nothing and read nothing
HandleWatch ==
    /\ it.at = "watch"
    /\ UNCHANGED <<oom_watch_pending, closed, due, events, ooms>>
    /\ IF it.links = <<>> THEN LeaveFd("fds") /\ UNCHANGED <<ready, ops>>
       ELSE LET w == Head(it.links) IN
            IF MayHandle(w) /\ Flag[w] \in it.cond[it.fd]
              THEN /\ it' = [it EXCEPT !.at = "handled", !.called = w]
                   /\ Handled(w)
                   /\ \/ ops < MaxOps /\ ops' = ops + 1 /\ Op
                      \/ NoOp /\ UNCHANGED ops
              ELSE it' = [it EXCEPT !.links = Tail(@)] /\ NoOp /\ UNCHANGED <<ready, ops>>

HandleWatchOom ==
    /\ it.at = "watch" /\ it.links # <<>> /\ ooms < MaxOom
    /\ LET w == Head(it.links) IN
       /\ MayHandle(w) /\ Flag[w] \in it.cond[it.fd]
       /\ oom' = oom \cup {w}
       /\ it' = [it EXCEPT !.at = "handled", !.any_oom = TRUE, !.called = w]
    /\ oom_watch_pending' = TRUE /\ ooms' = ooms + 1
    /\ UNCHANGED <<loopVars, envVars, ops>>

\* after each handler the position in the list may be invalid
AfterHandler ==
    /\ it.at = "handled"
    /\ IF Stop(changed, depth) THEN LeaveFd("dispatch")
       ELSE it' = [it EXCEPT !.at = "watch", !.links = Tail(@), !.called = "none"] /\ NoOp
    /\ UNCHANGED <<oom_watch_pending, envVars, ops, ooms>>

\* _dbus_loop_dispatch, until the connection has nothing more
Dispatch ==
    /\ it.at = "dispatch"
    /\ IF ~need_dispatch THEN it' = Start /\ NoOp /\ UNCHANGED ops
       ELSE /\ \/ /\ ops < MaxOps /\ ops' = ops + 1
                  /\ \E w \in Watches : RemoveWatch(w) \/ ToggleWatch(w) \/ \E on \in BOOLEAN : AddWatch(w, on)
                  /\ UNCHANGED it
               \/ /\ need_dispatch' = FALSE /\ it' = Start
                  /\ UNCHANGED <<watches, enabled, set, timeouts, tenabled, depth, changed, oom, ops>>
    /\ UNCHANGED <<oom_watch_pending, envVars, ooms>>

----------------------------------------------------------------------------
(* The surroundings                                                        *)

Arrives(w) ==
    /\ events < MaxEvents /\ Flag[w] \notin ready[Fd[w]]
    /\ ready' = [ready EXCEPT ![Fd[w]] = @ \cup {Flag[w]}] /\ events' = events + 1
    /\ UNCHANGED <<loopVars, oom, oom_watch_pending, it, closed, due, ops, ooms>>

Expires(t) ==
    /\ t \in Range(timeouts) /\ t \notin due /\ events < MaxEvents
    /\ due' = due \cup {t} /\ events' = events + 1
    /\ UNCHANGED <<loopVars, oom, oom_watch_pending, it, ready, closed, ops, ooms>>

Closes(f) ==
    /\ it.at = "polling" /\ Cardinality(closed) < MaxClosed /\ f \notin closed
    /\ closed' = closed \cup {f}
    /\ UNCHANGED <<loopVars, oom, oom_watch_pending, it, ready, due, events, ops, ooms>>

\* the setting up before the loop runs
SetUp == it = Start /\ ops < MaxOps /\ ops' = ops + 1 /\ Op /\ UNCHANGED <<oom_watch_pending, it, envVars, ooms>>

Step == PollBegin \/ PollEnd \/ HandleTimeout \/ NextFd \/ HandleWatch \/ HandleWatchOom \/ AfterHandler \/ Dispatch
Next ==
    \/ Step
    \/ \E w \in Watches : Arrives(w)
    \/ \E t \in Timeouts : Expires(t)
    \/ \E f \in Fds : Closes(f)
    \/ SetUp
Spec == Init /\ [][Next]_vars

----------------------------------------------------------------------------

InHandling == it.at \in {"watch", "handled"} /\ it.any_oom

\* Between two handlers the set polls for everything an enabled watch with memory waits for, so no event goes
\* unnoticed, for as long as the loop runs; it ends by a crash only where a handler removes the last watch of
\* a descriptor after another handler of the same descriptor has run out of memory.
NothingUnpolled ==
    /\ it.at = "crashed" => ooms > 0 /\ changed /\ watches[it.fd] = <<>>
    /\ ~InHandling => \A f \in Fds \ closed : \A w \in Range(watches[f]) :
        (w \in enabled /\ w \notin oom) => Flag[w] \in set[f]

\* A handler is called only for a watch that is in the loop and enabled at that moment, also when the
\* handlers before it have changed the lists.
HandlersAreCurrent ==
    (it'.at = "handled" /\ it.at = "watch") => LET w == it'.called IN w \in Range(watches[Fd[w]]) /\ w \in enabled

\* Once the loop has been told to quit, no timeout and no watch is handled any more.
QuitIsFinal == depth = 0 => /\ ~(it'.at = "handled" /\ it.at = "watch")
                            /\ it.at = "timeouts" => due \subseteq due'

\* While a timeout bounds the poll, a watch left out for want of memory is polled again in the end.
LeftOut(w) == w \in oom /\ depth = 1
PolledAgain(w) == w \notin oom \/ depth = 0 \/ ~\E t \in Timeouts : Enabled(t)

\* An event on a descriptor whose watch stays enabled is handled in the end, whatever the handlers of
\* the other watches and timeouts change.
EventAt(w) == Flag[w] \in ready[Fd[w]] /\ w \in Range(watches[Fd[w]]) /\ w \in enabled
EventHandled(w) == ~EventAt(w) \/ depth = 0 \/ Fd[w] \in closed
=============================================================================
