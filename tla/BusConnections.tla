--------------------------- MODULE BusConnections ---------------------------
(***************************************************************************)
(* The connections of dbus-daemon (bus/connection.c, with the limits of    *)
(* bus/bus.c and the Hello of bus/driver.c): a connection is incomplete    *)
(* from accept() to Hello, completed until it is gone; both lists, and the *)
(* completed connections of each user, are limited.  Incomplete            *)
(* connections have a time limit, and so have file descriptors whose       *)
(* message does not arrive.  At the limit of incomplete connections the    *)
(* daemon stops accepting.                                                 *)
(***************************************************************************)
EXTENDS Naturals, Sequences, FiniteSets, SequencesExt

CONSTANTS
    Conns,          \* connections that may be made; each is made once
    Root,           \* those that belong to one user; the others belong to another
    Limits,         \* values of max_incomplete_connections in the configuration
    MaxCompleted,   \* max_completed_connections
    MaxPerUser,     \* max_connections_per_user
    FailAt,         \* places where an allocation may fail
    FdCount         \* bound on the descriptors that wait for their message

\* set_limit of bus/config-parser.c: no limit is negative
ASSUME LimitsAssumption == Limits \subseteq Nat /\ MaxCompleted \in Nat /\ MaxPerUser \in Nat

Users == {"root", "user"}
Uid(c) == IF c \in Root THEN "root" ELSE "user"

VARIABLES
    limit,          \* max_incomplete_connections
    incomplete,     \* connections->incomplete, the oldest first
    completed,      \* connections->completed
    nIncomplete, nCompleted,
    byUser,         \* completed_by_user
    connected,      \* connections whose transport is connected
    seen,           \* connections that have been accepted
    named,          \* connections that own their unique name
    late,           \* incomplete connections that are older than auth_timeout
    timer,          \* expire_timeout is enabled
    accepting,      \* context->watches_enabled
    fds,            \* [Conns]: n_pending_unix_fds
    fdTimer         \* connections whose pending_unix_fds_timeout is enabled

vars == <<limit, incomplete, completed, nIncomplete, nCompleted, byUser, connected, seen,
          named, late, timer, accepting, fds, fdTimer>>

Init ==
    /\ limit \in Limits
    /\ incomplete = <<>> /\ completed = <<>>
    /\ nIncomplete = 0 /\ nCompleted = 0
    /\ byUser = [u \in Users |-> 0]
    /\ connected = {} /\ seen = {} /\ named = {} /\ late = {}
    /\ timer = FALSE
    /\ accepting = TRUE
    /\ fds = [c \in Conns |-> 0]
    /\ fdTimer = {}

\* _dbus_list_unlink of the link of c
Without(L, c) == RemoveAt(L, CHOOSE i \in DOMAIN L : L[i] = c)

\* bus_context_check_all_watches
CheckAllWatches == accepting' = (nIncomplete' < limit)

\* bus_connections_expire_incomplete: it closes the connections at the front of the list that
\* are too old, and waits for the next one
Expired(L) == Range(L) \cap late
NextTimer(L) == \E i \in DOMAIN L : L[i] \notin late

ExpireIncomplete(L) ==
    /\ connected' = connected \ Expired(L)
    /\ timer' = NextTimer(L)

\* bus_connections_setup_connection
Accept(c) ==
    /\ accepting /\ c \notin seen
    /\ seen' = seen \cup {c}
    /\ incomplete' = Append(incomplete, c)
    /\ nIncomplete' = nIncomplete + 1
    /\ connected' = (connected \ Expired(incomplete)) \cup {c}
    /\ timer' = NextTimer(incomplete')
    /\ CheckAllWatches
    /\ UNCHANGED <<limit, completed, nCompleted, byUser, named, late, fds, fdTimer>>

\* no memory for the new connection: new_connection_callback closes it
SetupFails(c) ==
    /\ "setup" \in FailAt
    /\ accepting /\ c \notin seen
    /\ seen' = seen \cup {c}
    /\ UNCHANGED <<limit, incomplete, completed, nIncomplete, nCompleted, byUser, connected,
                   named, late, timer, accepting, fds, fdTimer>>

Elapse ==
    /\ \E i \in DOMAIN incomplete :
          /\ incomplete[i] \notin late
          /\ \A j \in 1 .. (i - 1) : incomplete[j] \in late
          /\ late' = late \cup {incomplete[i]}
    /\ UNCHANGED <<limit, incomplete, completed, nIncomplete, nCompleted, byUser, connected,
                   seen, named, timer, accepting, fds, fdTimer>>

\* expire_incomplete_timeout
ExpireTimeout ==
    /\ timer
    /\ ExpireIncomplete(incomplete)
    /\ UNCHANGED <<limit, incomplete, completed, nIncomplete, nCompleted, byUser, seen, named,
                   late, accepting, fds, fdTimer>>

\* Faulty variant: the connections of a user are not limited.
WithinLimitsTotal(c) == nCompleted < MaxCompleted

\* bus_connections_check_limits
WithinLimits(c) == nCompleted < MaxCompleted /\ byUser[Uid(c)] < MaxPerUser

MayHello(c) == c \in connected /\ c \in Range(incomplete)

\* bus_driver_handle_hello, bus_connection_complete.  The unique name is acquired last: when
\* that fails the connection stays completed and a second Hello is refused.
Hello(c) ==
    /\ MayHello(c) /\ WithinLimits(c)
    /\ incomplete' = Without(incomplete, c)
    /\ nIncomplete' = nIncomplete - 1
    /\ completed' = Append(completed, c)
    /\ nCompleted' = nCompleted + 1
    /\ byUser' = [byUser EXCEPT ![Uid(c)] = @ + 1]
    /\ CheckAllWatches
    /\ ExpireIncomplete(incomplete')
    /\ \/ named' = named \cup {c}
       \/ "welcome" \in FailAt /\ named' = named
    /\ UNCHANGED <<limit, seen, late, fds, fdTimer>>

\* The connection is over a limit, or memory runs out: it stays incomplete.  The connections of
\* the user have been counted when the description of the peer cannot be stored.
HelloFails(c) ==
    /\ MayHello(c)
    /\ \/ ~WithinLimits(c) /\ UNCHANGED byUser
       \/ "policy" \in FailAt /\ UNCHANGED byUser
       \/ "loginfo" \in FailAt /\ WithinLimits(c) /\ byUser' = [byUser EXCEPT ![Uid(c)] = @ + 1]
    /\ UNCHANGED <<limit, incomplete, completed, nIncomplete, nCompleted, connected, seen,
                   named, late, timer, accepting, fds, fdTimer>>

Close(c) ==
    /\ c \in connected
    /\ connected' = connected \ {c}
    /\ UNCHANGED <<limit, incomplete, completed, nIncomplete, nCompleted, byUser, seen, named,
                   late, timer, accepting, fds, fdTimer>>

GoneIncomplete(c) ==
    /\ c \in Range(incomplete)
    /\ incomplete' = Without(incomplete, c)
    /\ nIncomplete' = nIncomplete - 1
    /\ CheckAllWatches
    /\ UNCHANGED <<completed, nCompleted, byUser>>

GoneCompleted(c) ==
    /\ c \in Range(completed)
    /\ completed' = Without(completed, c)
    /\ nCompleted' = nCompleted - 1
    /\ byUser' = [byUser EXCEPT ![Uid(c)] = @ - 1]
    /\ UNCHANGED <<incomplete, nIncomplete, accepting>>

\* bus_connection_disconnected, when Disconnected is dispatched
Disconnected(c) ==
    /\ c \notin connected
    /\ \/ GoneIncomplete(c)
       \/ GoneCompleted(c)
    /\ named' = named \ {c}
    /\ late' = late \ {c}
    /\ fds' = [fds EXCEPT ![c] = 0]
    /\ fdTimer' = fdTimer \ {c}
    /\ UNCHANGED <<limit, connected, seen, timer>>

\* check_pending_fds_cb
FdTimerAfter(c, old, new) ==
    IF old = 0 /\ new > 0 THEN fdTimer \cup {c}
    ELSE IF old > 0 /\ new = 0 THEN fdTimer \ {c} ELSE fdTimer

PendingFds(c, n) ==
    /\ c \in connected /\ n # fds[c]
    /\ fds' = [fds EXCEPT ![c] = n]
    /\ fdTimer' = FdTimerAfter(c, fds[c], n)
    /\ UNCHANGED <<limit, incomplete, completed, nIncomplete, nCompleted, byUser, connected,
                   seen, named, late, timer, accepting>>

\* pending_unix_fds_timeout_cb
FdTimeout(c) ==
    /\ c \in fdTimer /\ Close(c)

\* bus_context_reload_config: the limits change and the watches stay as they are
Reload ==
    /\ \E n \in Limits : n # limit /\ limit' = n
    /\ UNCHANGED <<incomplete, completed, nIncomplete, nCompleted, byUser, connected, seen,
                   named, late, timer, accepting, fds, fdTimer>>

Next ==
    \/ Elapse \/ ExpireTimeout \/ Reload
    \/ \E c \in Conns :
          \/ Accept(c) \/ SetupFails(c) \/ Hello(c) \/ HelloFails(c)
          \/ Close(c) \/ Disconnected(c) \/ FdTimeout(c)
          \/ \E n \in 0 .. FdCount : PendingFds(c, n)

Spec == Init /\ [][Next]_vars

----------------------------------------------------------------------------
(* Properties.                                                             *)

TypeOK ==
    /\ limit \in Limits
    /\ Range(incomplete) \cap Range(completed) = {}
    /\ nIncomplete \in Nat /\ nCompleted \in Nat
    /\ byUser \in [Users -> Nat]
    /\ named \subseteq Range(completed)
    /\ late \subseteq Range(incomplete) \cup Range(completed)
    /\ timer \in BOOLEAN /\ accepting \in BOOLEAN

\* max_completed_connections and max_connections_per_user hold, and the counters that they are
\* checked with are right (bus_connections_check_limits, bus_connection_disconnected).
LimitsHold ==
    /\ Len(completed) <= MaxCompleted
    /\ \A u \in Users : Cardinality({c \in Range(completed) : Uid(c) = u}) <= MaxPerUser
    /\ nIncomplete = Len(incomplete) /\ nCompleted = Len(completed)

\* The limit per user is reached by connections of the user only.
UserCountIsRight ==
    \A u \in Users : byUser[u] = Cardinality({c \in Range(completed) : Uid(c) = u})

\* The daemon accepts exactly while there is room (bus_context_check_all_watches).
AcceptsWhileRoom == Len(incomplete) <= limit /\ (accepting <=> Len(incomplete) < limit)

\* All of these.  The count of a user's connections is right unless the description of a peer
\* cannot be stored; the watches fit a limit that a reload does not change, and that is not 0
\* from the start, as then one connection is accepted before anything is counted.
ConnectionsAreCounted ==
    /\ TypeOK /\ LimitsHold
    /\ "loginfo" \notin FailAt => UserCountIsRight
    /\ Limits = {limit} /\ limit > 0 => AcceptsWhileRoom

\* When a reload changes the limit, the watches are those of a limit the configuration has had:
\* bus_context_reload_config does not look at them, so the daemon may accept one connection more
\* than a new, lower limit has room for (where bus_connections_setup_connection asserts that this
\* cannot be), or none although a new, higher one has room.
WatchesFitALimit ==
    \E l \in Limits : Len(incomplete) <= l /\ (accepting <=> Len(incomplete) < l)

\* The count of a user's connections is never too small, and never above the limit that it is
\* for, also when the description of a peer cannot be stored and it is too large for good
\* (bus_connection_complete).
UserCountIsEnough ==
    \A u \in Users :
        /\ byUser[u] >= Cardinality({c \in Range(completed) : Uid(c) = u})
        /\ byUser[u] <= MaxPerUser

\* A daemon that stopped accepting accepts again: connections that never say Hello are dropped.
\* It stays deaf where no connection is left to drop: the limit was 0 when the watches were last
\* looked at, and a reload that raises it does not look at them.
Deaf == ~accepting
Listens == accepting \/ incomplete = <<>>

\* A connection that does not say Hello is gone in the end (bus_connections_expire_incomplete).
Incomplete(c) == c \in Range(incomplete)

\* Descriptors do not wait for their message forever (check_pending_fds_cb).
HoldsFds(c) == fds[c] > 0
=============================================================================
