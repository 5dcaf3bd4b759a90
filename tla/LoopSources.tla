-------------------- MODULE LoopSources --------------------
(***************************************************************************)
(* What a main loop works with: watch lists, timeouts and the set of polled*)
(* sockets.  The parts share no state; each has an Init and a Next.        *)
(***************************************************************************)
EXTENDS Integers, Sequences, FiniteSets, SequencesExt

-----------------------------------------------------------------------------
(***************************************************************************)
(* The watches and the timeouts of a connection (dbus/dbus-watch.c,        *)
(* dbus/dbus-timeout.c, and their use in dbus/dbus-connection.c): lists    *)
(* that are handed to the functions of a main loop, and from one main loop *)
(* to another when the application sets other functions.                   *)
(***************************************************************************)

CONSTANTS
    Items,          \* the watches, or the timeouts, of the connection
    Loops,          \* main loops the application may set
    MaxOps          \* bound on the operations
NoLoop == "none"
Kinds == {"watch", "timeout"}

VARIABLES
    list,           \* per kind the items of the connection in order
    functions,      \* per kind the loop whose functions are set
    held,           \* how often each loop has each item, per kind
    watch_enabled, watch_seen,  \* whether an item is enabled, and what each loop last heard of it
    owed, freed,    \* user data handed over with the functions and freed, per kind
    ops
watchVars == <<list, functions, held, watch_enabled, watch_seen, owed, freed, ops>>

WatchInit ==
    /\ list = [k \in Kinds |-> <<>>] /\ functions = [k \in Kinds |-> NoLoop]
    /\ held = [k \in Kinds |-> [l \in Loops |-> [i \in Items |-> 0]]]
    /\ watch_enabled = [k \in Kinds |-> {}] /\ watch_seen = [k \in Kinds |-> [l \in Loops |-> {}]]
    /\ owed = [k \in Kinds |-> 0] /\ freed = [k \in Kinds |-> 0] /\ ops = 0

Tick == ops < MaxOps /\ ops' = ops + 1

----------------------------------------------------------------------------

\* what the functions of a loop do (_dbus_loop_add_watch and its like)
LoopAdd(h, l, i) == IF l = NoLoop THEN h ELSE [h EXCEPT ![l][i] = @ + 1]
LoopRemove(h, l, i) == IF l = NoLoop THEN h ELSE [h EXCEPT ![l][i] = @ - 1]

\* the item is taken off again when the loop refuses it
ListAfterAdd(s, i, ok) == IF ok THEN Append(s, i) ELSE s

WatchAdd(k, i, on, ok) ==
    /\ Tick /\ i \notin Range(list[k]) /\ (~ok => functions[k] # NoLoop)
    /\ list' = [list EXCEPT ![k] = ListAfterAdd(@, i, ok)]
    /\ watch_enabled' = [watch_enabled EXCEPT ![k] = IF on THEN @ \cup {i} ELSE @ \ {i}]
    /\ IF ok
         THEN /\ held' = [held EXCEPT ![k] = LoopAdd(@, functions[k], i)]
              /\ watch_seen' = [watch_seen EXCEPT ![k] = [l \in Loops |-> IF l = functions[k] /\ on THEN @[l] \cup {i} ELSE @[l] \ {i}]]
         ELSE UNCHANGED <<held, watch_seen>>
    /\ UNCHANGED <<functions, owed, freed>>

HeldAfterRemove(h, l, i) == LoopRemove(h, l, i)

WatchRemove1(k, i) ==
    /\ Tick /\ i \in Range(list[k])
    /\ list' = [list EXCEPT ![k] = SelectSeq(@, LAMBDA x : x # i)]
    /\ held' = [held EXCEPT ![k] = HeldAfterRemove(@, functions[k], i)]
    /\ UNCHANGED <<functions, watch_enabled, watch_seen, owed, freed>>

Told(s, i, on) == IF on THEN s \cup {i} ELSE s \ {i}

\* nothing is reported when nothing changes
WatchToggle(k, i, on) ==
    /\ Tick /\ i \in Range(list[k]) /\ on # (i \in watch_enabled[k])
    /\ watch_enabled' = [watch_enabled EXCEPT ![k] = IF on THEN @ \cup {i} ELSE @ \ {i}]
    /\ watch_seen' = [watch_seen EXCEPT ![k] = [l \in Loops |-> IF l = functions[k] THEN Told(@[l], i, on) ELSE @[l]]]
    /\ UNCHANGED <<list, functions, held, owed, freed>>

\* add the first n items of the list to a loop
AddUpTo(h, l, s, n) == [h EXCEPT ![l] = [i \in Items |-> @[i] + Cardinality({j \in 1 .. n : s[j] = i})]]

\* the items added before the failure are removed again
BackOut(h, l, s, n) == [h EXCEPT ![l] = [i \in Items |-> @[i] - Cardinality({j \in 1 .. n : s[j] = i})]]

Freed(n, old, new) == IF old = NoLoop THEN n ELSE n + 1

ReleaseOld(h, l, s) == IF l = NoLoop THEN h ELSE [h EXCEPT ![l] = [i \in Items |-> @[i] - Cardinality({j \in DOMAIN s : s[j] = i})]]

\* set_functions: every item to the new loop, then from the old one, whose data is freed; fail is the
\* number of items added before the new loop ran out of memory, -1 for none
SetFunctions(k, l, fail) ==
    /\ Tick /\ (l = NoLoop => fail = -1) /\ fail < Len(list[k])
    /\ IF fail >= 0
         THEN /\ held' = [held EXCEPT ![k] = BackOut(AddUpTo(@, l, list[k], fail), l, list[k], fail)]
              /\ UNCHANGED <<functions, watch_seen, owed, freed>>
         ELSE /\ held' = [held EXCEPT ![k] = ReleaseOld(IF l = NoLoop THEN @ ELSE AddUpTo(@, l, list[k], Len(list[k])), functions[k], list[k])]
              /\ functions' = [functions EXCEPT ![k] = l]
              /\ watch_seen' = [watch_seen EXCEPT ![k] = [x \in Loops |-> IF x = l THEN watch_enabled[k] \cap Range(list[k]) ELSE {}]]
              /\ owed' = [owed EXCEPT ![k] = IF l = NoLoop THEN @ ELSE @ + 1]
              /\ freed' = [freed EXCEPT ![k] = Freed(@, functions[k], l)]
    /\ UNCHANGED <<list, watch_enabled>>

----------------------------------------------------------------------------
(* As the connection uses them, with its lock held also while the          *)
(* functions of the application run                                        *)

_dbus_watch_list_add_watch(i, on, ok) == WatchAdd("watch", i, on, ok)
_dbus_watch_list_remove_watch(i) == WatchRemove1("watch", i)
_dbus_watch_list_toggle_watch(i, on) == WatchToggle("watch", i, on)
_dbus_watch_list_set_functions(l, fail) == SetFunctions("watch", l, fail)
_dbus_timeout_list_add_timeout(i, ok) == WatchAdd("timeout", i, TRUE, ok)
_dbus_timeout_list_remove_timeout(i) == WatchRemove1("timeout", i)
_dbus_timeout_list_toggle_timeout(i, on) == WatchToggle("timeout", i, on)
_dbus_timeout_list_set_functions(l, fail) == SetFunctions("timeout", l, fail)

ChangeWatch == \E i \in Items : \/ \E on, ok \in BOOLEAN : _dbus_watch_list_add_watch(i, on, ok)
                                \/ _dbus_watch_list_remove_watch(i)
                                \/ \E on \in BOOLEAN : _dbus_watch_list_toggle_watch(i, on)
ChangeTimeout == \E i \in Items : \/ \E ok \in BOOLEAN : _dbus_timeout_list_add_timeout(i, ok)
                                  \/ _dbus_timeout_list_remove_timeout(i)
                                  \/ \E on \in BOOLEAN : _dbus_timeout_list_toggle_timeout(i, on)

AnyLoop == Loops \cup {NoLoop}
Failures == -1 .. Cardinality(Items) - 1
SetWatchFunctions == \E l \in AnyLoop, fail \in Failures : _dbus_watch_list_set_functions(l, fail)
SetTimeoutFunctions == \E l \in AnyLoop, fail \in Failures : _dbus_timeout_list_set_functions(l, fail)

WatchNext == ChangeWatch \/ ChangeTimeout \/ SetWatchFunctions \/ SetTimeoutFunctions
WatchSpec == WatchInit /\ [][WatchNext]_watchVars

----------------------------------------------------------------------------

\* The loop whose functions are set has every item of the connection exactly once, and no other loop
\* has any of them, also after setting functions has failed half way or the same loop was set again.
OneLoopHasAll ==
    \A k \in Kinds, l \in Loops, i \in Items :
        held[k][l][i] = IF l = functions[k] /\ i \in Range(list[k]) THEN 1 ELSE 0

\* The loop believes of every item it has what the connection believes.
LoopKnowsEnabled ==
    \A k \in Kinds, l \in Loops : l = functions[k] => \A i \in Range(list[k]) : (i \in watch_seen[k][l]) <=> (i \in watch_enabled[k])

\* The data given with functions that were accepted is freed once, when other functions take their place.
DataFreedOnce == \A k \in Kinds : owed[k] - freed[k] = IF functions[k] = NoLoop THEN 0 ELSE 1

-----------------------------------------------------------------------------
(***************************************************************************)
(* The timeouts of dbus/dbus-mainloop.c in time: check_timeout computes    *)
(* with seconds and microseconds how many milliseconds remain; the loop    *)
(* polls for at most the least of them and then handles what is due.  The  *)
(* clock may jump back where there is no monotonic one.  The units are     *)
(* scaled down: a second has MSec milliseconds of USec microseconds each.  *)
(***************************************************************************)

CONSTANTS
    MSec, USec,
    Intervals,      \* the intervals of the timeouts, in milliseconds
    MaxNow,         \* bound on the clock, in microseconds
    MaxJumps        \* bound on the jumps of the clock

Timeouts == {1, 2}

VARIABLES
    now,            \* the clock in microseconds
    interval, last, \* per timeout; last is when it was added or handled last
    timeout_enabled,
    at, wait,       \* the loop: "poll", "polling", "handle"; the limit of the poll, -1 for none
    todo,           \* timeouts not looked at yet in this iteration
    timeout_seen,           \* the clock as the iteration read it after the poll
    fired,          \* the timeout handled in the last step and how late it was, in microseconds
    jumps
timeoutVars == <<now, interval, last, timeout_enabled, at, wait, todo, timeout_seen, fired, jumps>>

PerSec == MSec * USec
NoneFired == [t |-> 0, late |-> 0]

TimeoutInit ==
    /\ now \in 0 .. PerSec /\ interval \in [Timeouts -> Intervals] /\ last = [t \in Timeouts |-> now]
    /\ timeout_enabled \in SUBSET Timeouts
    /\ at = "poll" /\ wait = -1 /\ todo = {} /\ timeout_seen = now /\ fired = NoneFired /\ jumps = 0

----------------------------------------------------------------------------

\* division in C rounds towards zero
Div(a, b) == IF a < 0 THEN -((-a) \div b) ELSE a \div b

\* tv_usec of the expiration, carried into the seconds
Carry(e) == IF e.usec >= PerSec THEN [sec |-> e.sec + 1, usec |-> e.usec - PerSec] ELSE e

\* when the interval ends
Expiration(l, i) == Carry([sec |-> (l \div PerSec) + (i \div MSec), usec |-> (l % PerSec) + (i % MSec) * USec])

\* what remains, with a negative rest of milliseconds borrowed from the seconds
Borrow(s, m) == IF m < 0 THEN (s - 1) * MSec + (m + MSec) ELSE s * MSec + m

\* the milliseconds that remain at a time, before they are compared with the interval
Remaining(time, l, i) ==
    LET e == Expiration(l, i)
        s == e.sec - (time \div PerSec)
        m == Div(e.usec - (time % PerSec), USec) IN
    IF s < 0 \/ (s = 0 /\ m < 0) THEN 0 ELSE Borrow(s, m)

\* Faulty variant: more than the interval is waited when the clock has gone back.
ClampNot(r, i) == r

\* more than the interval remains when the clock went back: the interval starts again
Clamp(r, i) == IF r > i THEN i ELSE r

check_timeout(time, t) == Clamp(Remaining(time, last[t], interval[t]), interval[t])

\* the interval starts again when the clock went back
LastAfterCheck(time, t) == IF Remaining(time, last[t], interval[t]) > interval[t] THEN time ELSE last[t]

----------------------------------------------------------------------------

Least(S) == CHOOSE x \in S : \A y \in S : x <= y

PollLimit(rests) == IF rests = {} THEN -1 ELSE Least(rests)

\* the limit of the poll; the first timeout found due ends the search
PollBegin ==
    /\ at = "poll"
    /\ wait' = PollLimit({check_timeout(now, t) : t \in timeout_enabled})
    /\ last' = [t \in Timeouts |-> IF t \in timeout_enabled THEN LastAfterCheck(now, t) ELSE last[t]]
    /\ at' = "polling" /\ fired' = NoneFired
    /\ UNCHANGED <<now, interval, timeout_enabled, todo, timeout_seen, jumps>>

\* the poll ends: exactly at its limit, or before it because of an event
PollEnd(n) ==
    /\ at = "polling" /\ n >= now /\ n <= MaxNow
    /\ wait >= 0 => n <= now + wait * USec
    /\ now' = n /\ timeout_seen' = n /\ at' = "handle" /\ todo' = timeout_enabled
    /\ UNCHANGED <<interval, last, timeout_enabled, wait, fired, jumps>>

\* the next timeout of the list
Handle(t) ==
    /\ at = "handle" /\ t \in todo
    /\ todo' = todo \ {t}
    /\ IF check_timeout(timeout_seen, t) = 0
         THEN /\ fired' = [t |-> t, late |-> timeout_seen - (last[t] + interval[t] * USec)]
              /\ last' = [last EXCEPT ![t] = timeout_seen]
         ELSE /\ last' = [last EXCEPT ![t] = LastAfterCheck(timeout_seen, t)]
              /\ fired' = NoneFired
    /\ UNCHANGED <<now, interval, timeout_enabled, at, wait, timeout_seen, jumps>>

IterationEnds == at = "handle" /\ todo = {} /\ at' = "poll" /\ fired' = NoneFired
                 /\ UNCHANGED <<now, interval, last, timeout_enabled, wait, todo, timeout_seen, jumps>>

TimeoutToggle(t) ==
    /\ at = "poll"
    /\ timeout_enabled' = IF t \in timeout_enabled THEN timeout_enabled \ {t} ELSE timeout_enabled \cup {t}
    /\ UNCHANGED <<now, interval, last, at, wait, todo, timeout_seen, fired, jumps>>

JumpBack(n) ==
    /\ jumps < MaxJumps /\ at = "poll" /\ n < now
    /\ now' = n /\ jumps' = jumps + 1
    /\ UNCHANGED <<interval, last, timeout_enabled, at, wait, todo, timeout_seen, fired>>

TimeoutNext ==
    \/ PollBegin
    \/ \E n \in 0 .. MaxNow : PollEnd(n) \/ JumpBack(n)
    \/ \E t \in Timeouts : Handle(t) \/ TimeoutToggle(t)
    \/ IterationEnds
TimeoutSpec == TimeoutInit /\ [][TimeoutNext]_timeoutVars

----------------------------------------------------------------------------

\* A timeout is handled less than a millisecond before its interval is over, never earlier, whatever
\* the two pairs of seconds and microseconds are.
NotEarly == (fired.t # 0 /\ jumps = 0) => fired.late > -USec

\* The poll is limited so that the loop neither sleeps past an interval by a millisecond nor wakes up
\* before there is something to do: at the limit, and not a millisecond later, some timeout is due.
WaitIsRight ==
    (at = "polling" /\ timeout_enabled # {} /\ jumps = 0) =>
        /\ \E t \in timeout_enabled : check_timeout(now + wait * USec, t) = 0
        /\ \A t \in timeout_enabled : (wait - 1) * USec < (last[t] + interval[t] * USec) - now \/ wait = 0

\* However the clock jumps, no poll is limited by more than the shortest interval enabled.
NeverLongerThanInterval == (at = "polling" /\ timeout_enabled # {}) => wait <= Least({interval[t] : t \in timeout_enabled})

\* Unless the clock jumps, only handling a timeout starts its interval again.
RestartedByHandling == \A t \in Timeouts : (last'[t] # last[t] /\ jumps = 0) => fired'.t = t

-----------------------------------------------------------------------------
(***************************************************************************)
(* dbus/dbus-socket-set-poll.c: the descriptors polled for, in an array    *)
(* that grows and shrinks; place is reserved for the ones not enabled, so  *)
(* enabling cannot fail.                                                   *)
(***************************************************************************)

CONSTANTS
    Fds, Flags,
    REALLOC_INCREMENT, MINIMUM_SIZE, SizeHint,
    max_events,     \* room for events in one poll
    MaxPolls        \* bound on the polls

VARIABLES
    fds,            \* the array up to n_fds: descriptor and events
    n_reserved, n_allocated,
    size,           \* the memory the array really has
    want,           \* what the loop asked for: {"absent"}, or the flags, {} when disabled
    ready,          \* descriptors with an event
    missed,         \* ready descriptors the last polls did not report, and how often in a row
    polls
pollVars == <<fds, n_reserved, n_allocated, size, want, ready, missed, polls>>

Absent == {"absent"}
PollInit ==
    /\ fds = <<>> /\ n_reserved = 0 /\ n_allocated = SizeHint /\ size = SizeHint
    /\ want = [f \in Fds |-> Absent] /\ ready = {} /\ missed = [f \in Fds |-> 0] /\ polls = 0

Places(f) == {i \in DOMAIN fds : fds[i].fd = f}
Member(f) == want[f] # Absent

MustGrow(r, a) == r >= a

\* add: a place is reserved, and used when the descriptor is enabled; realloc may fail
PollAdd(f, flags, enabled, ok) ==
    /\ ~Member(f)
    /\ (~ok => MustGrow(n_reserved, n_allocated))
    /\ IF ok
         THEN /\ IF MustGrow(n_reserved, n_allocated)
                   THEN n_allocated' = n_allocated + REALLOC_INCREMENT /\ size' = n_allocated'
                   ELSE UNCHANGED <<n_allocated, size>>
              /\ n_reserved' = n_reserved + 1
              /\ fds' = IF enabled THEN Append(fds, [fd |-> f, events |-> flags]) ELSE fds
              /\ want' = [want EXCEPT ![f] = IF enabled THEN flags ELSE {}]
         ELSE UNCHANGED <<fds, n_reserved, n_allocated, size, want>>
    /\ UNCHANGED <<ready, missed, polls>>

Enabled(f, flags) == IF Places(f) = {} THEN Append(fds, [fd |-> f, events |-> flags])
                     ELSE [i \in DOMAIN fds |-> IF i \in Places(f) THEN [fd |-> f, events |-> flags] ELSE fds[i]]
Enable(f, flags) ==
    /\ Member(f)
    /\ fds' = Enabled(f, flags)
    /\ want' = [want EXCEPT ![f] = flags]
    /\ UNCHANGED <<n_reserved, n_allocated, size, ready, missed, polls>>

\* the last entry takes the place
Disabled(f) ==
    LET n == Len(fds) IN
    IF Places(f) = {} THEN fds
    ELSE SubSeq([i \in DOMAIN fds |-> IF i \in Places(f) THEN fds[n] ELSE fds[i]], 1, n - 1)

Disable(f) ==
    /\ Member(f)
    /\ fds' = Disabled(f)
    /\ want' = [want EXCEPT ![f] = {}]
    /\ UNCHANGED <<n_reserved, n_allocated, size, ready, missed, polls>>

\* remove: much unused memory is given back, unless realloc fails
PollRemove1(f, ok) ==
    /\ Member(f)
    /\ fds' = Disabled(f)
    /\ want' = [want EXCEPT ![f] = Absent]
    /\ n_reserved' = n_reserved - 1
    /\ LET shrink == n_reserved' + MINIMUM_SIZE < n_allocated \div 2 IN
       /\ ~ok => shrink
       /\ IF shrink /\ ok THEN size' = n_reserved' + MINIMUM_SIZE /\ n_allocated' = n_reserved'
          ELSE UNCHANGED <<size, n_allocated>>
    /\ ready' = ready \ {f} /\ missed' = [missed EXCEPT ![f] = 0]
    /\ UNCHANGED polls

Becomes(f) == /\ f \notin ready /\ Places(f) # {} /\ polls < MaxPolls
              /\ ready' = ready \cup {f}
              /\ UNCHANGED <<fds, n_reserved, n_allocated, size, want, missed, polls>>

\* poll: the first events of the array, as many as there is room for, are reported and handled
Poll ==
    /\ polls < MaxPolls /\ polls' = polls + 1
    /\ LET live == {i \in DOMAIN fds : fds[i].fd \in ready}
           told == {fds[i].fd : i \in {j \in live : Cardinality({k \in live : k < j}) < max_events}} IN
       /\ ready' = ready \ told
       /\ missed' = [f \in Fds |-> IF f \in {fds[i].fd : i \in live} \ told THEN missed[f] + 1 ELSE 0]
    /\ UNCHANGED <<fds, n_reserved, n_allocated, size, want>>

PollNext ==
    \/ \E f \in Fds, s \in SUBSET Flags \ {{}}, e, ok \in BOOLEAN : PollAdd(f, s, e, ok)
    \/ \E f \in Fds, s \in SUBSET Flags \ {{}} : Enable(f, s)
    \/ \E f \in Fds : Disable(f) \/ Becomes(f)
    \/ \E f \in Fds, ok \in BOOLEAN : PollRemove1(f, ok)
    \/ Poll
PollSpec == PollInit /\ [][PollNext]_pollVars

----------------------------------------------------------------------------

\* The array never holds more entries than the memory it has, also after it has shrunk and when
\* everything reserved is enabled at once.
FitsInMemory == Len(fds) <= size /\ n_reserved <= size /\ n_allocated <= size

\* The array holds each enabled descriptor once, with what was asked for it last, and no other.
EntriesAgree ==
    /\ \A f \in Fds : Cardinality(Places(f)) = IF Member(f) /\ want[f] # {} THEN 1 ELSE 0
    /\ \A i \in DOMAIN fds : fds[i].events = want[fds[i].fd]
    /\ n_reserved = Cardinality({f \in Fds : Member(f)})
=============================================================================
