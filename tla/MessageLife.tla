----------------------------- MODULE MessageLife -----------------------------
(***************************************************************************)
(* dbus/dbus-message.c: the life of DBusMessage objects: made new or from  *)
(* the cache, copied, replied to, charged to counters, locked, and given   *)
(* back by the last of several threads that hold them.  Its size and its   *)
(* descriptors are counted.                                                *)
(***************************************************************************)
EXTENDS Integers, Sequences, FiniteSets, SequencesExt, FiniteSetsExt

CONSTANTS
    Msgs,           \* memory for messages
    Counters,
    MaxSize,        \* of a message; one of this size is too large for the cache
    MaxFds,
    MaxRefs,
    CacheSize,      \* MAX_MESSAGE_CACHE_SIZE
    MaxCharges,     \* bound on the counters of a message
    Uses            \* which of data, serial and lock the program uses

NULL == "null"
Fresh == [st |-> "live", refs |-> 1, locked |-> FALSE, serial |-> 0, size |-> 1, fds |-> 0, data |-> FALSE,
          counters |-> <<>>, size_counter_delta |-> 0, unix_fd_counter_delta |-> 0]
Nothing == [Fresh EXCEPT !.st = "free", !.refs = 0]

VARIABLES
    msg,            \* st: free, live, dying (its last reference is gone) or cached
    message_cache, message_cache_count, message_cache_shutdown_registered,
    counter,        \* size and fds charged to each counter
    open            \* descriptors open in the process
cache == <<message_cache, message_cache_count, message_cache_shutdown_registered>>
vars == <<msg, cache, counter, open>>

Init ==
    /\ msg = [m \in Msgs |-> Nothing]
    /\ message_cache = [i \in 1 .. CacheSize |-> NULL]
    /\ message_cache_count = 0 /\ message_cache_shutdown_registered = FALSE
    /\ counter = [c \in Counters |-> [size |-> 0, fds |-> 0]] /\ open = 0

Live(m) == msg[m].st = "live"

\* Faulty variant: the lock of the former life stays.
EmptyHeaderKept(old) == [Fresh EXCEPT !.locked = old.locked]

\* dbus_message_new_empty_header: a cached message keeps its buffers, and nothing else of its former life
EmptyHeader(old) == Fresh

FirstCached == CHOOSE i \in 1 .. CacheSize : message_cache[i] # NULL /\ \A j \in 1 .. i - 1 : message_cache[j] = NULL

\* where a new message comes from: the cache, or malloc
TakeCached(m) ==
    /\ message_cache_count > 0 /\ m = message_cache[FirstCached]
    /\ message_cache' = [message_cache EXCEPT ![FirstCached] = NULL]
    /\ message_cache_count' = message_cache_count - 1
    /\ UNCHANGED message_cache_shutdown_registered
Allocated(m) == message_cache_count = 0 /\ msg[m].st = "free" /\ UNCHANGED cache
Obtain(m) == IF message_cache_count > 0 THEN TakeCached(m) ELSE Allocated(m)

\* dbus_message_new, _new_method_call, _new_signal; when the header cannot be written the message is given
\* back with dbus_message_unref
New(m, ok) ==
    /\ Obtain(m)
    /\ msg' = [msg EXCEPT ![m] = IF ok THEN EmptyHeader(@) ELSE [EmptyHeader(@) EXCEPT !.refs = 0, !.st = "dying"]]
    /\ UNCHANGED <<counter, open>>

\* dbus_message_new_method_return and _new_error: the serial of the call must be known
NewReply(m, call, ok) ==
    /\ Live(call) /\ Obtain(m)
    /\ msg' = [msg EXCEPT ![m] = IF ok /\ msg[call].serial # 0 THEN EmptyHeader(@)
                                 ELSE [EmptyHeader(@) EXCEPT !.refs = 0, !.st = "dying"]]
    /\ UNCHANGED <<counter, open>>

\* close_unix_fds
OpenAfterFailedCopy(k) == open

\* dbus_message_copy, never from the cache; it can fail at the k-th descriptor
Copy(m, from, k, ok) ==
    /\ Live(from) /\ msg[m].st = "free"
    /\ IF ok THEN /\ k = msg[from].fds
                  /\ msg' = [msg EXCEPT ![m] = [Fresh EXCEPT !.size = msg[from].size, !.fds = k]]
                  /\ open' = open + k
       ELSE /\ k <= msg[from].fds
            /\ open' = OpenAfterFailedCopy(k)
            /\ UNCHANGED msg
    /\ UNCHANGED <<cache, counter>>

Ref(m) == /\ Live(m) /\ msg[m].refs < MaxRefs
          /\ msg' = [msg EXCEPT ![m].refs = @ + 1]
          /\ UNCHANGED <<cache, counter, open>>

\* the owner writes to it, while it is not locked
Append1(m) == /\ Live(m) /\ ~msg[m].locked /\ msg[m].size < MaxSize
              /\ msg' = [msg EXCEPT ![m].size = @ + 1]
              /\ UNCHANGED <<cache, counter, open>>
AppendFd(m) == /\ Live(m) /\ ~msg[m].locked /\ msg[m].fds < MaxFds
               /\ msg' = [msg EXCEPT ![m].fds = @ + 1] /\ open' = open + 1
               /\ UNCHANGED <<cache, counter>>
SetData(m) == /\ "data" \in Uses /\ Live(m) /\ msg' = [msg EXCEPT ![m].data = TRUE]
              /\ UNCHANGED <<cache, counter, open>>

\* dbus_message_set_serial, then dbus_message_lock when it is queued for sending
SetSerial(m) == /\ "serial" \in Uses /\ Live(m) /\ ~msg[m].locked /\ msg[m].serial = 0
                /\ msg' = [msg EXCEPT ![m].serial = 1]
                /\ UNCHANGED <<cache, counter, open>>
Lock(m) == /\ "lock" \in Uses /\ Live(m) /\ msg' = [msg EXCEPT ![m].locked = TRUE]
           /\ UNCHANGED <<cache, counter, open>>

Adjust(c, ds, df) == counter' = [counter EXCEPT ![c].size = @ + ds, ![c].fds = @ + df]

\* what is charged is measured for the first counter and stays, so that the same is given back
SizeCharged(r) == IF r.counters = <<>> THEN r.size ELSE r.size_counter_delta
FdsCharged(r) == IF r.counters = <<>> THEN r.fds ELSE r.unix_fd_counter_delta

\* _dbus_message_add_counter_link
AddCounter(m, c) ==
    /\ Live(m) /\ Len(msg[m].counters) < MaxCharges
    /\ msg' = [msg EXCEPT ![m].size_counter_delta = SizeCharged(msg[m]),
                          ![m].unix_fd_counter_delta = FdsCharged(msg[m]),
                          ![m].counters = Append(@, c)]
    /\ Adjust(c, SizeCharged(msg[m]), FdsCharged(msg[m]))
    /\ UNCHANGED <<cache, open>>

LastOf(s, c) == CHOOSE i \in DOMAIN s : s[i] = c /\ \A j \in i + 1 .. Len(s) : s[j] # c

\* _dbus_message_remove_counter, by the transport when the message has been written
RemoveCounter(m, c) ==
    /\ Live(m) /\ c \in ToSet(msg[m].counters)
    /\ msg' = [msg EXCEPT ![m].counters = RemoveAt(@, LastOf(@, c))]
    /\ Adjust(c, - msg[m].size_counter_delta, - msg[m].unix_fd_counter_delta)
    /\ UNCHANGED <<cache, open>>

\* dbus_message_unref: an atomic decrement; whoever had the last reference goes on
Unref(m) ==
    /\ Live(m)
    /\ msg' = [msg EXCEPT ![m].refs = @ - 1, ![m].st = IF msg[m].refs = 1 THEN "dying" ELSE "live"]
    /\ UNCHANGED <<cache, counter, open>>

\* free_counter for every counter it still carries
GiveBack(m) == [c \in Counters |->
    LET n == Cardinality({i \in DOMAIN msg[m].counters : msg[m].counters[i] = c}) IN
    [size |-> counter[c].size - n * msg[m].size_counter_delta, fds |-> counter[c].fds - n * msg[m].unix_fd_counter_delta]]

Cacheable(m) == msg[m].size < MaxSize /\ message_cache_count < CacheSize

FirstEmpty(s) == CHOOSE i \in 1 .. CacheSize : s[i] = NULL /\ \A j \in 1 .. i - 1 : s[j] # NULL

\* the slots are emptied when the shutdown function is registered
Slots == IF message_cache_shutdown_registered THEN message_cache ELSE [i \in 1 .. CacheSize |-> NULL]

\* dbus_message_cache_or_finalize; registering the shutdown function may fail
CacheOrFinalize(m, ok) ==
    /\ msg[m].st = "dying"
    /\ ~ok => ~message_cache_shutdown_registered
    /\ counter' = GiveBack(m)
    /\ open' = open - msg[m].fds
    /\ message_cache_shutdown_registered' = (message_cache_shutdown_registered \/ ok)
    /\ IF ok /\ Cacheable(m)
       THEN /\ msg' = [msg EXCEPT ![m] = [@ EXCEPT !.st = "cached", !.fds = 0, !.counters = <<>>, !.data = FALSE]]
            /\ message_cache' = [Slots EXCEPT ![FirstEmpty(Slots)] = m]
            /\ message_cache_count' = message_cache_count + 1
       ELSE /\ msg' = [msg EXCEPT ![m] = Nothing]
            /\ message_cache' = (IF ok THEN Slots ELSE message_cache)
            /\ UNCHANGED message_cache_count

CountAfterShutdown(n) == 0

\* dbus_shutdown, when the program has given back all messages; the slots keep their pointers
Shutdown ==
    /\ message_cache_shutdown_registered /\ \A m \in Msgs : msg[m].st \in {"free", "cached"}
    /\ msg' = [m \in Msgs |-> Nothing]
    /\ message_cache_count' = CountAfterShutdown(message_cache_count)
    /\ message_cache_shutdown_registered' = FALSE
    /\ UNCHANGED <<message_cache, counter, open>>

Next ==
    \/ \E m \in Msgs :
        \/ Ref(m) \/ Unref(m) \/ Append1(m) \/ AppendFd(m) \/ SetData(m) \/ SetSerial(m) \/ Lock(m)
        \/ \E c \in Counters : AddCounter(m, c) \/ RemoveCounter(m, c)
        \/ \E ok \in BOOLEAN : \/ New(m, ok) \/ CacheOrFinalize(m, ok)
                               \/ \E o \in Msgs : NewReply(m, o, ok) \/ \E k \in 0 .. MaxFds : Copy(m, o, k, ok)
    \/ Shutdown
Spec == Init /\ [][Next]_vars

----------------------------------------------------------------------------
Alive == {m \in Msgs : msg[m].st \in {"live", "dying"}}

\* A counter is charged exactly what the messages that carry it were charged with, although messages grow
\* after they were charged, and nothing is left when they are gone.
CountersAddUp == \A c \in Counters :
    /\ counter[c].size = FoldSet(LAMBDA m, acc : acc + msg[m].size_counter_delta
            * Cardinality({i \in DOMAIN msg[m].counters : msg[m].counters[i] = c}), 0, Alive)
    /\ counter[c].fds = FoldSet(LAMBDA m, acc : acc + msg[m].unix_fd_counter_delta
            * Cardinality({i \in DOMAIN msg[m].counters : msg[m].counters[i] = c}), 0, Alive)

\* Every open descriptor belongs to a message, also after a copy that failed half way.
DescriptorsBelong == open = FoldSet(LAMBDA m, acc : acc + msg[m].fds, 0, Alive)

\* The cache counts what it holds, holds only messages nobody refers to and that are not too large, and never
\* memory that was freed; after a shutdown its old pointers are not used.
CacheIsSound ==
    /\ message_cache_count > 0 =>
        /\ message_cache_shutdown_registered
        /\ \A i \in 1 .. CacheSize : message_cache[i] # NULL =>
              (msg[message_cache[i]].st = "cached" /\ msg[message_cache[i]].size < MaxSize)
    /\ message_cache_count = Cardinality({m \in Msgs : msg[m].st = "cached"})

\* A message that starts a life, from the cache or not, shows nothing of an earlier one.
NewLifeIsFresh == \A m \in Msgs : (msg[m].st # "live" /\ msg'[m].st = "live")
                    => (~msg'[m].locked /\ msg'[m].serial = 0 /\ msg'[m].counters = <<>> /\ ~msg'[m].data)
=============================================================================
