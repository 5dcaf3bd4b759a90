------------------------------ MODULE SharedBus ------------------------------
(***************************************************************************)
(* The connections to buses of a process: connections that threads share,  *)
(* and the calls to the daemon over them.  The two parts share no state;   *)
(* the second has its own CallInit and CallNext.                           *)
(***************************************************************************)
EXTENDS Integers, FiniteSets, FiniteSetsExt, Sequences

-----------------------------------------------------------------------------
(***************************************************************************)
(* Connections that the threads of a process share: dbus_bus_get           *)
(* (dbus/dbus-bus.c), the table of shared connections, references, and the *)
(* treatment of a disconnection (dbus/dbus-connection.c).                  *)
(*                                                                         *)
(* Each thread runs one call at a time; a step ends where the code waits   *)
(* for a lock.  A lock that is taken and released without a wait between   *)
(* is taken within one step.  The locks are recursive.  The application    *)
(* has switched exit_on_disconnect off; messages other than Disconnected   *)
(* are left out.                                                           *)
(***************************************************************************)

CONSTANTS
    Threads,
    Types,          \* subset of {"session", "system", "starter"}
    Starter,        \* activation_bus_type: "session", "system" or "starter"
    HasGuid,        \* the addresses name the guid of the server
    Calls,          \* subset of {"get", "private", "open", "unref", "dispatch", "shutdown"}
    MaxConns,       \* bound on the connections that are ever made
    MaxOwn          \* bound on the references of a thread to one connection

Conns == 1..MaxConns

VARIABLES
    conn,           \* the connections
    slot,           \* bus_connections: weak references
    table,          \* shared_connections: guid -> connection
    bus, shared, datas, \* the global locks: their holder, or "none"
    mutex,          \* the lock of each connection
    pc, own,        \* what each thread does; the references it owns
    missing         \* a connection was not in the shared table when it was forgotten
vars == <<conn, slot, table, bus, shared, datas, mutex, pc, own, missing>>

Fresh == [st |-> "none", refs |-> 0, connected |-> FALSE, disc |-> "unsent", hello |-> FALSE,
          shareable |-> FALSE, guid |-> "none", known |-> FALSE]

\* init_connections_unlocked: the addresses; a bus that starts us may be one of the others
Address(ty) == IF ty = "starter" THEN Starter ELSE ty
Guids == {Address(ty) : ty \in Types}

Idle == [at |-> "idle", call |-> "none", type |-> "none", c |-> 0]

Init ==
    /\ conn = [c \in Conns |-> Fresh]
    /\ slot = [ty \in Types |-> 0] /\ table = [g \in Guids |-> 0]
    /\ bus = "none" /\ shared = "none" /\ datas = "none"
    /\ mutex = [c \in Conns |-> "none"]
    /\ pc = [t \in Threads |-> Idle] /\ own = [t \in Threads |-> [c \in Conns |-> 0]]
    /\ missing = FALSE

At(t, where) == pc[t].at = where
Free(l, t) == l \in {"none", t}
Go(t, where) == pc' = [pc EXCEPT ![t].at = where]
GoWith(t, where, c) == pc' = [pc EXCEPT ![t].at = where, ![t].c = c]
Done(t) == pc' = [pc EXCEPT ![t] = Idle]
\* the weak references to c are cleared
Cleared(c) == [ty \in Types |-> IF slot[ty] = c THEN 0 ELSE slot[ty]]
Ref(c, n) == conn' = [conn EXCEPT ![c].refs = @ + n]
Own(t, c, n) == own' = [own EXCEPT ![t][c] = @ + n]

----------------------------------------------------------------------------
(* internal_bus_get.                                                       *)

Get(t, ty, private) ==
    /\ At(t, "idle") /\ (\A c \in Conns : own[t][c] < MaxOwn) /\ (IF private THEN "private" ELSE "get") \in Calls
    /\ pc' = [pc EXCEPT ![t] = [at |-> "get", call |-> IF private THEN "private" ELSE "get",
                                \* the real type, if its address is known
                                type |-> IF ty = "starter" /\ Starter \in Types THEN Starter ELSE ty, c |-> 0]]
    /\ UNCHANGED <<conn, slot, table, bus, shared, datas, mutex, own, missing>>

HandOut(t, c) == Ref(c, 1) /\ Own(t, c, 1)

GetLocked(t) ==
    LET c == slot[pc[t].type] IN
    /\ At(t, "get") /\ Free(bus, t)
    /\ IF pc[t].call = "get" /\ c # 0
         THEN HandOut(t, c) /\ Done(t) /\ UNCHANGED bus
         ELSE /\ bus' = t /\ Go(t, IF pc[t].call = "private" THEN "connect" ELSE "lookup")
              /\ UNCHANGED <<conn, own>>
    /\ UNCHANGED <<slot, table, shared, datas, mutex, missing>>

\* dbus_bus_register: the data of the connection are locked while Hello is under way
Register(t) ==
    LET c == pc[t].c IN
    /\ At(t, "register") /\ Free(datas, t)
    /\ IF conn[c].hello THEN Go(t, "store") /\ UNCHANGED datas ELSE Go(t, "hello") /\ datas' = t
    /\ UNCHANGED <<conn, slot, table, bus, shared, mutex, own, missing>>

HelloUnlocks(ok) == "none"

Hello(t, ok) ==
    LET c == pc[t].c IN
    /\ At(t, "hello") /\ Free(mutex[c], t)
    /\ ok => conn[c].connected
    /\ conn' = [conn EXCEPT ![c].hello = ok]
    /\ datas' = HelloUnlocks(ok)
    /\ Go(t, IF ok THEN "store" ELSE "close")
    /\ UNCHANGED <<slot, table, bus, shared, mutex, own, missing>>

Store(t) ==
    LET c == pc[t].c IN
    /\ At(t, "store") /\ Free(datas, t)
    /\ slot' = IF pc[t].call = "get" THEN [slot EXCEPT ![pc[t].type] = c] ELSE slot
    /\ conn' = [conn EXCEPT ![c].known = TRUE]
    /\ bus' = "none"
    /\ Done(t)
    /\ UNCHANGED <<table, shared, datas, mutex, own, missing>>

----------------------------------------------------------------------------
(* _dbus_connection_open_internal.                                         *)

Open(t, ty) ==
    /\ At(t, "idle") /\ (\A c \in Conns : own[t][c] < MaxOwn) /\ "open" \in Calls
    /\ pc' = [pc EXCEPT ![t] = [at |-> "lookup", call |-> "open", type |-> ty, c |-> 0]]
    /\ UNCHANGED <<conn, slot, table, bus, shared, datas, mutex, own, missing>>

Opened(t, c) == IF pc[t].call = "open" THEN Done(t) ELSE GoWith(t, "register", c)

\* connection_lookup_shared
Lookup(t) ==
    LET c == table[Address(pc[t].type)] IN
    /\ At(t, "lookup") /\ Free(shared, t)
    /\ IF HasGuid /\ c # 0 THEN shared' = t /\ GoWith(t, "found", c) ELSE UNCHANGED shared /\ Go(t, "connect")
    /\ UNCHANGED <<conn, slot, table, bus, datas, mutex, own, missing>>

\* it is not returned when it is disconnected and only Disconnected has not been processed
Usable(c) == conn[c].connected

Found(t) ==
    LET c == pc[t].c IN
    /\ At(t, "found") /\ Free(mutex[c], t)
    /\ shared' = "none"
    /\ IF Usable(c) THEN Ref(c, 1) /\ Own(t, c, 1) /\ Opened(t, c)
       ELSE UNCHANGED <<conn, own>> /\ GoWith(t, "connect", 0)
    /\ UNCHANGED <<slot, table, bus, datas, mutex, missing>>

Unused == {c \in Conns : conn[c].st = "none"}

\* connection_try_from_address_entry
Connect(t) ==
    /\ At(t, "connect") /\ Unused # {}
    /\ LET c == Min(Unused) IN
       /\ conn' = [conn EXCEPT ![c] = [Fresh EXCEPT !.st = "live", !.refs = 1, !.connected = TRUE,
                                                    !.shareable = pc[t].call # "private"]]
       /\ Own(t, c, 1)
       /\ IF pc[t].call = "private" THEN Opened(t, c) /\ UNCHANGED mutex
          ELSE GoWith(t, "record", c) /\ mutex' = [mutex EXCEPT ![c] = t]
    /\ UNCHANGED <<slot, table, bus, shared, datas, missing>>

ConnectFails(t) ==
    /\ At(t, "connect")
    /\ bus' = IF bus = t THEN "none" ELSE bus
    /\ Done(t)
    /\ UNCHANGED <<conn, slot, table, shared, datas, mutex, own, missing>>

\* Faulty variant: the table has no reference of its own.
RecordWeak(c) == 0

RecordRefs(c) == 1

\* connection_record_shared_unlocked: an entry of the same guid is replaced
Record(t) ==
    LET c == pc[t].c
        g == Address(pc[t].type) IN
    /\ At(t, "record") /\ Free(shared, t)
    /\ conn' = [conn EXCEPT ![c].refs = @ + RecordRefs(c), ![c].guid = IF HasGuid THEN g ELSE @]
    /\ table' = IF HasGuid THEN [table EXCEPT ![g] = c] ELSE table
    /\ mutex' = [mutex EXCEPT ![c] = "none"]
    /\ Opened(t, c)
    /\ UNCHANGED <<slot, bus, shared, datas, own, missing>>

----------------------------------------------------------------------------
(* Disconnection.  disc follows the message Disconnected: unsent, queued,  *)
(* arrived (popped), processed.                                            *)

\* the peer hangs up, and somebody's read or write notices
HangUp(c) ==
    /\ conn[c].connected /\ mutex[c] = "none"
    /\ conn' = [conn EXCEPT ![c].connected = FALSE]
    /\ UNCHANGED <<slot, table, bus, shared, datas, mutex, pc, own, missing>>

Dispatch(t, c) ==
    /\ At(t, "idle") /\ "dispatch" \in Calls /\ own[t][c] > 0
    /\ pc' = [pc EXCEPT ![t] = [at |-> "dispatch", call |-> "dispatch", type |-> "none", c |-> c]]
    /\ UNCHANGED <<conn, slot, table, bus, shared, datas, mutex, own, missing>>

\* Disconnected is popped, with a reference for the time of its handlers
Popped(t, c) ==
    /\ conn' = [conn EXCEPT ![c].refs = @ + 1, ![c].disc = "arrived"]
    /\ Go(t, "handlers") /\ mutex' = [mutex EXCEPT ![c] = "none"]

\* dbus_connection_dispatch: the dispatch status, a message, its handlers without the lock
DispatchLocked(t) ==
    LET c == pc[t].c IN
    /\ At(t, "dispatch") /\ Free(mutex[c], t)
    /\ CASE conn[c].disc = "queued" -> Popped(t, c)
         [] conn[c].disc # "queued" /\ conn[c].connected -> Done(t) /\ UNCHANGED <<conn, mutex>>
         [] OTHER -> Go(t, "notify") /\ mutex' = [mutex EXCEPT ![c] = t] /\ UNCHANGED conn
    /\ UNCHANGED <<slot, table, bus, shared, datas, own, missing>>

\* _dbus_bus_notify_shared_connection_disconnected_unlocked
NotifyDisconnected(c) == Cleared(c)

\* notify_disconnected_unlocked before the message, the connection being locked
Notify(t) ==
    LET c == pc[t].c IN
    /\ At(t, "notify") /\ Free(bus, t)
    /\ slot' = NotifyDisconnected(c)
    /\ IF conn[c].disc = "unsent" THEN Popped(t, c) ELSE Go(t, "update") /\ UNCHANGED <<conn, mutex>>
    /\ UNCHANGED <<table, bus, shared, datas, own, missing>>

HandlersDone(t) ==
    LET c == pc[t].c IN
    /\ At(t, "handlers") /\ Free(mutex[c], t)
    /\ mutex' = [mutex EXCEPT ![c] = t]
    /\ Go(t, "notify2")
    /\ UNCHANGED <<conn, slot, table, bus, shared, datas, own, missing>>

\* the status after the message
Notify2(t) ==
    /\ At(t, "notify2") /\ Free(bus, t)
    /\ slot' = NotifyDisconnected(pc[t].c)
    /\ Go(t, "forget")
    /\ UNCHANGED <<conn, table, bus, shared, datas, mutex, own, missing>>

\* connection_forget_shared_unlocked drops the reference of the table
ForgetDrops(c) == 1

\* _dbus_connection_update_dispatch_status_and_unlock, once, when Disconnected has arrived
Forget(t) ==
    LET c == pc[t].c
        g == conn[c].guid
        once == conn[c].disc = "arrived" IN
    /\ At(t, "forget")
    /\ (once /\ conn[c].shareable) => Free(shared, t)
    /\ IF once /\ conn[c].shareable
         THEN /\ conn' = [conn EXCEPT ![c].disc = "processed", ![c].guid = "none", ![c].refs = @ - ForgetDrops(c)]
              /\ table' = IF g # "none" THEN [table EXCEPT ![g] = 0] ELSE table
              /\ missing' = (missing \/ (g # "none" /\ table[g] = 0))
         ELSE /\ conn' = [conn EXCEPT ![c].disc = "processed"]
              /\ UNCHANGED <<table, missing>>
    /\ mutex' = [mutex EXCEPT ![c] = "none"]
    /\ Go(t, "unref")
    /\ UNCHANGED <<slot, bus, shared, datas, own>>

\* another thread has the message, or it has been processed before
Update(t) ==
    LET c == pc[t].c IN
    /\ At(t, "update")
    /\ mutex' = [mutex EXCEPT ![c] = "none"]
    /\ Done(t)
    /\ UNCHANGED <<conn, slot, table, bus, shared, datas, own, missing>>

\* _dbus_connection_close_possibly_shared after a failed Hello, by the holder of the lock bus
Close(t) ==
    LET c == pc[t].c IN
    /\ At(t, "close") /\ Free(mutex[c], t)
    /\ conn' = [conn EXCEPT ![c].connected = FALSE, ![c].disc = IF @ = "unsent" THEN "queued" ELSE @]
    /\ slot' = IF conn[c].disc = "queued" THEN slot ELSE NotifyDisconnected(c)
    /\ Own(t, c, -1)
    /\ Go(t, "unref")
    /\ UNCHANGED <<table, bus, shared, datas, mutex, missing>>

\* dbus_connection_close, of a private connection
ClosePrivate(t, c) ==
    /\ At(t, "idle") /\ own[t][c] > 0 /\ ~conn[c].shareable /\ conn[c].connected
    /\ Free(mutex[c], t) /\ Free(bus, t)
    /\ conn' = [conn EXCEPT ![c].connected = FALSE, ![c].disc = IF @ = "unsent" THEN "queued" ELSE @]
    /\ UNCHANGED <<slot, table, bus, shared, datas, mutex, pc, own, missing>>

----------------------------------------------------------------------------
(* References.                                                             *)

\* the application drops a reference; a private connection it has closed before the last one
Unref(t, c) ==
    /\ At(t, "idle") /\ "unref" \in Calls /\ own[t][c] > 0
    /\ ~conn[c].shareable => (conn[c].connected => conn[c].refs > 1)
    /\ Own(t, c, -1)
    /\ pc' = [pc EXCEPT ![t] = [at |-> "unref", call |-> "unref", type |-> "none", c |-> c]]
    /\ UNCHANGED <<conn, slot, table, bus, shared, datas, mutex, missing>>

\* dbus_connection_unref; the last reference of a connected connection is not dropped
DropRef(t) ==
    LET c == pc[t].c IN
    /\ At(t, "unref")
    /\ Ref(c, -1)
    /\ IF conn[c].refs = 1 /\ ~conn[c].connected
         THEN Go(t, "free") /\ UNCHANGED bus
         ELSE Done(t) /\ bus' = IF bus = t THEN "none" ELSE bus
    /\ UNCHANGED <<slot, table, shared, datas, mutex, own, missing>>

\* bus_data_free
FreedClears(c) == IF conn[c].known THEN Cleared(c) ELSE slot

\* _dbus_connection_last_unref
LastUnref(t) ==
    LET c == pc[t].c IN
    /\ At(t, "free")
    /\ conn[c].known => Free(bus, t)
    /\ slot' = FreedClears(c)
    /\ conn' = [conn EXCEPT ![c].st = "freed"]
    /\ bus' = IF bus = t THEN "none" ELSE bus
    /\ Done(t)
    /\ UNCHANGED <<table, shared, datas, mutex, own, missing>>

\* shared_connections_shutdown: one connection of the table is closed and its messages are popped.
\* dbus_shutdown is for one thread only.
Shutdown(t) ==
    /\ "shutdown" \in Calls /\ \A u \in Threads : At(u, "idle")
    /\ \E g \in Guids : table[g] # 0 /\
         LET c == table[g] IN
         /\ conn' = [conn EXCEPT ![c].connected = FALSE, ![c].disc = "processed", ![c].guid = "none",
                                 ![c].refs = @ - 1, ![c].st = IF conn[c].refs = 1 THEN "freed" ELSE @]
         /\ slot' = Cleared(c)
         /\ table' = [table EXCEPT ![g] = 0]
    /\ UNCHANGED <<bus, shared, datas, mutex, pc, own, missing>>

Next ==
    \/ \E t \in Threads :
         \/ \E ty \in Types : Get(t, ty, FALSE) \/ Get(t, ty, TRUE) \/ Open(t, ty)
         \/ GetLocked(t) \/ Register(t) \/ Hello(t, TRUE) \/ Hello(t, FALSE) \/ Store(t)
         \/ Lookup(t) \/ Found(t) \/ Connect(t) \/ ConnectFails(t) \/ Record(t)
         \/ \E c \in Conns : Dispatch(t, c) \/ Unref(t, c) \/ ClosePrivate(t, c)
         \/ DispatchLocked(t) \/ Notify(t) \/ HandlersDone(t) \/ Notify2(t) \/ Forget(t) \/ Update(t)
         \/ Close(t) \/ DropRef(t) \/ LastUnref(t) \/ Shutdown(t)
    \/ \E c \in Conns : HangUp(c)

Spec == Init /\ [][Next]_vars

\* The threads go on with the calls they have begun; what the application does next is up to it.
Continue(t) ==
    \/ GetLocked(t) \/ Register(t) \/ Hello(t, TRUE) \/ Hello(t, FALSE) \/ Store(t)
    \/ Lookup(t) \/ Found(t) \/ Connect(t) \/ ConnectFails(t) \/ Record(t)
    \/ DispatchLocked(t) \/ Notify(t) \/ HandlersDone(t) \/ Notify2(t) \/ Forget(t) \/ Update(t)
    \/ Close(t) \/ DropRef(t) \/ LastUnref(t)

----------------------------------------------------------------------------
(* Properties.                                                             *)

Owners(c) == MapThenSumSet(LAMBDA t : own[t][c], Threads)

\* No thread owns or uses a connection that has been freed, and no table leads to one: the weak
\* references of dbus_bus_get are cleared before the last strong one goes.
NoUseAfterFree ==
    /\ \A t \in Threads, c \in Conns :
         (own[t][c] > 0 \/ (pc[t].c = c /\ ~At(t, "idle"))) => conn[c].st # "freed"
    /\ \A ty \in Types : slot[ty] # 0 => conn[slot[ty]].st # "freed"
    /\ \A g \in Guids : table[g] # 0 => conn[table[g]].st # "freed"

\* As long as a shared connection is connected, libdbus owns a reference: whoever drops his own never
\* drops the last one.
LibraryKeepsConnected ==
    \A c \in Conns : (conn[c].connected /\ conn[c].shareable /\ \A t \in Threads : ~(At(t, "record") /\ pc[t].c = c))
                        => conn[c].refs > Owners(c)

\* When no call is under way, every reference has its owner: the application's, or the table's for a
\* connection whose Disconnected has not been processed.
NoLeak ==
    (\A t \in Threads : At(t, "idle")) =>
        \A c \in Conns : conn[c].st = "live" =>
            conn[c].refs = Owners(c) + IF conn[c].shareable /\ conn[c].disc # "processed" THEN 1 ELSE 0

\* What dbus_bus_get hands out has said Hello, whoever made the connection and whoever registered it.
HandedOutIsRegistered ==
    \A ty \in Types : slot[ty] # 0 => conn[slot[ty]].hello /\ conn[slot[ty]].known

\* Every call returns.  A thread that waits for a lock that is free again and again gets it (SF).
InCall(t) == ~At(t, "idle")

\* But the locks are taken in two orders: one thread holds the lock of a connection whose
\* disconnection it dispatches and waits for the lock bus or that of the table, which another
\* thread holds that waits for the connection (internal_bus_get, connection_lookup_shared).
DeadlyEmbrace ==
    \E t, u \in Threads, c \in Conns :
        /\ mutex[c] = t /\ pc[u].c = c /\ pc[u].at \in {"found", "hello", "close"}
        /\ \/ pc[t].at \in {"notify", "notify2"} /\ bus = u
           \/ pc[t].at = "forget" /\ shared = u

-----------------------------------------------------------------------------
(***************************************************************************)
(* The calls of dbus/dbus-bus.c to the daemon: each makes a message,       *)
(* appends its arguments, sends it and waits, and reads the reply.  Any of *)
(* these steps may fail; the models of the daemon say what it answers.     *)
(***************************************************************************)

CONSTANTS
    Ops,            \* subset of AllOps
    MaxCalls        \* bound on the calls one after the other

VARIABLES
    op, at,         \* the call and where it stands
    wantsError,     \* the caller passed a place for the error
    msg, reply,     \* references owned by the call; -1 for NULL
    error,          \* the error of the caller is set
    failed,         \* the call returned its value for a failure
    answered,       \* the daemon answered what was asked
    async,          \* the message was sent without waiting
    warned,         \* a function was called with a NULL message
    calls
callVars == <<op, at, wantsError, msg, reply, error, failed, answered, async, warned, calls>>

CallInit ==
    /\ op = "none" /\ at = "idle" /\ wantsError = TRUE /\ msg = 0 /\ reply = 0
    /\ error = FALSE /\ failed = FALSE /\ answered = FALSE /\ async = FALSE /\ warned = FALSE /\ calls = 0

HasArgs(o) == o # "GetId"
Matches(o) == o \in {"AddMatch", "RemoveMatch"}

\* Begin a call; the functions for match rules may be called without a place for the error.
Begin(o, e) ==
    /\ at = "idle" /\ calls < MaxCalls /\ (e \/ Matches(o))
    /\ op' = o /\ wantsError' = e /\ at' = "new" /\ calls' = calls + 1
    /\ msg' = 0 /\ reply' = 0 /\ error' = FALSE /\ failed' = FALSE /\ answered' = FALSE /\ async' = FALSE
    /\ UNCHANGED warned

Return(bad) == at' = "done" /\ failed' = bad
SetError == error' = wantsError

\* dbus_message_new_method_call; not every function asks whether it worked
ChecksNew(o) == o \notin {"StartServiceByName", "RemoveMatch"}
NewMessage(ok) ==
    /\ at = "new"
    /\ IF ok THEN msg' = 1 /\ at' = (IF HasArgs(op) THEN "append" ELSE "send") /\ UNCHANGED <<error, failed>>
       ELSE IF ChecksNew(op) THEN SetError /\ Return(TRUE) /\ UNCHANGED msg
       ELSE msg' = -1 /\ at' = "append" /\ UNCHANGED <<error, failed>>
    /\ UNCHANGED <<op, wantsError, reply, answered, async, warned, calls>>

\* the message after a failure to append
AppendFailed(m) == IF m = -1 THEN -1 ELSE m - 1

Append1(ok) ==
    /\ at = "append" /\ (msg = -1 => ~ok)
    /\ warned' = (warned \/ msg = -1)
    /\ IF ok THEN at' = "send" /\ UNCHANGED <<msg, error, failed>>
       ELSE msg' = AppendFailed(msg) /\ SetError /\ Return(TRUE)
    /\ UNCHANGED <<op, wantsError, reply, answered, async, calls>>

\* send_no_return_values: no wait when nobody wants the error
Waits(e) == e

\* dbus_connection_send_with_reply_and_block: an error reply becomes the error; NULL is returned
Send(outcome) ==
    /\ at = "send"
    /\ IF Waits(wantsError)
         THEN /\ IF outcome = "reply" THEN reply' = 1 /\ error' = error ELSE reply' = 0 /\ SetError
              /\ answered' = (outcome = "reply")
              /\ UNCHANGED async
         ELSE async' = TRUE /\ UNCHANGED <<reply, error, answered>>
    /\ msg' = 0
    /\ at' = "read"
    /\ UNCHANGED <<op, wantsError, failed, warned, calls>>

\* dbus_message_get_args sets the error
ReadError(ok) == ~ok

DropReply(ok) == 0

\* the arguments of the reply; the match rules have none
Read(ok) ==
    /\ at = "read" /\ (Matches(op) => ok)
    /\ IF reply = 0 THEN Return(error) /\ UNCHANGED <<reply, error, answered>>
       ELSE /\ reply' = DropReply(ok)
            /\ error' = (error \/ ReadError(ok))
            /\ answered' = ok
            /\ Return(~ok)
    /\ UNCHANGED <<op, wantsError, msg, async, warned, calls>>

Finish == at = "done" /\ at' = "idle" /\ UNCHANGED <<op, wantsError, msg, reply, error, failed, answered, async, warned, calls>>

CallNext ==
    \/ \E o \in Ops, e \in BOOLEAN : Begin(o, e)
    \/ \E ok \in BOOLEAN : NewMessage(ok) \/ Append1(ok) \/ Read(ok)
    \/ \E outcome \in {"reply", "error", "timeout"} : Send(outcome)
    \/ Finish
CallSpec == CallInit /\ [][CallNext]_callVars

----------------------------------------------------------------------------

\* On every way out of a call its message and its reply have been dropped exactly once.
NothingKept == at = "done" => msg \in {0, -1} /\ reply = 0

\* A caller who wants to know learns of a failure from the value and from the error alike, and of a success only when the
\* daemon answered; the value FALSE of dbus_bus_name_has_owner alone does not say which it was.
ErrorMeansFailure == (at = "done" /\ wantsError) => /\ error <=> failed
                                                    /\ ~failed => answered

\* A rule is sent without waiting exactly when nobody wants its error.
AsyncForRulesOnly == at = "done" => (async => Matches(op) /\ ~wantsError)
                                    /\ (Matches(op) /\ ~wantsError /\ ~error /\ ~failed => async)
=============================================================================
