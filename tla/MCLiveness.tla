---------------------------- MODULE MCLiveness ----------------------------
(***************************************************************************)
(* What must happen in the end, for every component that waits for         *)
(* something: small instances, with the fairness of the processes, threads *)
(* and main loops that run them.                                           *)
(*                                                                         *)
(* A behaviour is one of the component named by focus, chosen at the start *)
(* with one of the sets of bounds below; the other components stand still. *)
(* So the states are the sum, never the product, of those of the components.*)
(* Each component is instantiated with the bounds that make its own hard   *)
(* cases happen; a part of a property is about the component it names.     *)
(***************************************************************************)
EXTENDS Naturals, Sequences

VARIABLES
    focus,      \* the component of this behaviour
    k, th, lock, reader, holder, borrowed, conn_wire, hung, conn_asked, conn_sent, conn_seen,
    conn_oom, crashed,
    step, transport_open, readWatch, writeWatch, transport_toServer, transport_toClient,
    transport_sent, outgoing, written, authBuffer, loader, loaderFds, received, gotFds, live,
    undispatched, max, needMemory, replies, transport_failures, transport_allowed,
    client, server, auth_toServer, auth_toClient, creds, auth_allowed, fdPossible, auth_oom,
    lines, eaten,
    loader_sent, loader_wire, data, loader_fds, messages, popped, corrupted, maxSize, loading,
    loader_closed, gone, loader_oom,
    library_conn, slot, table, bus, shared, datas, mutex, library_pc, own, missing,
    registry_conn, registry_owners, registry_owned, announced, registry_told, last,
    up, tx, toSend, out, tx_pending, tx_timer, tx_owners, refs, flags, tx_owned, before,
    tx_asked, how, debt, tx_failures, lasting,
    activation_pending, nPending, activation_owned, activation_connected, activation_child, req,
    answers, activation_oom, forgot,
    limit, incomplete, completed, nIncomplete, nCompleted, byUser, accept_connected,
    accept_seen, named, late, accept_timer, accepting, accept_fds, fdTimer,
    reload_file, reload_told, pipe, signals, terminated, phase, parser, caller, part, freed,
    reload_error, returned,
    inode, inodes, removed, list, wds, kernel, watch_events, hup, watch_changed, watch_seen,
    content, stack, config_error, outcome,
    watches, enabled, loop_oom, set, loop_timeouts, tenabled, due, need_dispatch, depth,
    oom_watch_pending, loop_changed, it, ready, loop_closed, ops, ooms, loop_events,
    clock, keyring_file, lockedBy, ring, keyring_pc, keyring_timeouts, now, fresh, offers, stolen,
    parent, polled, spawn_open, have, spawn_asked, result, spawn_sitter, spawn_child,
    spawn_ended, sock, err, errWriters, handler, sigs, reused, killedOther,
    launch_pc, joined, tools_sitter, launch_mode, launch_bus, window, tools_file, piped, sighup,
    tools_seen, handed, xup, ttyup,
    run_pc, run_bus, app, strangers, known, tools_ended, status, killed

connVars == <<k, th, lock, reader, holder, borrowed, conn_wire, hung, conn_asked, conn_sent, conn_seen,
    conn_oom, crashed>>
transportVars == <<step, transport_open, readWatch, writeWatch, transport_toServer, transport_toClient,
    transport_sent, outgoing, written, authBuffer, loader, loaderFds, received, gotFds, live,
    undispatched, max, needMemory, replies, transport_failures, transport_allowed>>
authVars == <<client, server, auth_toServer, auth_toClient, creds, auth_allowed, fdPossible, auth_oom,
    lines, eaten>>
loaderVars == <<loader_sent, loader_wire, data, loader_fds, messages, popped, corrupted, maxSize, loading,
    loader_closed, gone, loader_oom>>
libraryVars == <<library_conn, slot, table, bus, shared, datas, mutex, library_pc, own, missing>>
registryVars == <<registry_conn, registry_owners, registry_owned, announced, registry_told, last>>
txVars == <<up, tx, toSend, out, tx_pending, tx_timer, tx_owners, refs, flags, tx_owned, before,
    tx_asked, how, debt, tx_failures, lasting>>
activationVars == <<activation_pending, nPending, activation_owned, activation_connected, activation_child, req,
    answers, activation_oom, forgot>>
acceptVars == <<limit, incomplete, completed, nIncomplete, nCompleted, byUser, accept_connected,
    accept_seen, named, late, accept_timer, accepting, accept_fds, fdTimer>>
reloadVars == <<reload_file, reload_told, pipe, signals, terminated, phase, parser, caller, part, freed,
    reload_error, returned>>
watchVars == <<inode, inodes, removed, list, wds, kernel, watch_events, hup, watch_changed, watch_seen>>
configVars == <<content, stack, config_error, outcome>>
loopVars == <<watches, enabled, loop_oom, set, loop_timeouts, tenabled, due, need_dispatch, depth,
    oom_watch_pending, loop_changed, it, ready, loop_closed, ops, ooms, loop_events>>
keyringVars == <<clock, keyring_file, lockedBy, ring, keyring_pc, keyring_timeouts, now, fresh, offers, stolen>>
spawnVars == <<parent, polled, spawn_open, have, spawn_asked, result, spawn_sitter, spawn_child,
    spawn_ended, sock, err, errWriters, handler, sigs, reused, killedOther>>
launchVars == <<launch_pc, joined, tools_sitter, launch_mode, launch_bus, window, tools_file, piped, sighup,
    tools_seen, handed, xup, ttyup>>
runVars == <<run_pc, run_bus, app, strangers, known, tools_ended, status, killed>>
vars == <<focus, connVars, transportVars, authVars, loaderVars, libraryVars, registryVars, txVars,
    activationVars, acceptVars, reloadVars, watchVars, configVars, loopVars, keyringVars,
    spawnVars, launchVars, runVars>>

Conn == INSTANCE DBusConnection WITH
    Calls <- {1}, Infinite <- {}, Untracked <- {}, Threads <- {"main", "worker"},
    Dispatchers <- {"main"}, Blockers <- {"worker", "main"}, Borrowers <- {}, MaxSignals <- 0,
    MaxReplies <- 1, MaxOom <- 0, wire <- conn_wire, asked <- conn_asked, sent <- conn_sent,
    seen <- conn_seen, oom <- conn_oom
Transport1 == INSTANCE DBusTransport WITH
    NMessages <- 2, SocketSize <- 3, MaxRead <- 3, Maxes <- {1}, Allowed <- {TRUE, FALSE},
    InDispatch <- TRUE, MayClose <- TRUE, NReplies <- 0, MaxFailures <- 1,
    open <- transport_open, toServer <- transport_toServer, toClient <- transport_toClient,
    sent <- transport_sent, failures <- transport_failures, allowed <- transport_allowed
Transport2 == INSTANCE DBusTransport WITH
    NMessages <- 2, SocketSize <- 3, MaxRead <- 3, Maxes <- {1, 2}, Allowed <- {TRUE},
    InDispatch <- FALSE, MayClose <- TRUE, NReplies <- 1, MaxFailures <- 0,
    open <- transport_open, toServer <- transport_toServer, toClient <- transport_toClient,
    sent <- transport_sent, failures <- transport_failures, allowed <- transport_allowed
Auth == INSTANCE DBusAuth WITH
    Users <- {"alice", "bob"}, Me <- "alice", SocketUsers <- {"alice", "anonymous"}, Wild <- {},
    MaxFailures <- 3, MaxOom <- 1, MaxLines <- 5, MaxListed <- 0, toServer <- auth_toServer,
    toClient <- auth_toClient, allowed <- auth_allowed, oom <- auth_oom
Loader == INSTANCE MessageLoader WITH
    NMessages <- 2, Types <- {"other"}, Codes <- {}, Values <- {}, MaxFields <- 0,
    Flaws <- {"none", "order"}, Bodies <- {0, 1}, Fds <- {0, 1}, Missing <- {0}, MaxSizes <- {},
    MaxFds <- 1, MaxMessageLength <- 6, OomAt <- {}, sent <- loader_sent, wire <- loader_wire,
    fds <- loader_fds, closed <- loader_closed, oom <- loader_oom
Library == INSTANCE SharedBus WITH
    Threads <- {"t1", "t2"}, Types <- {"session"}, Starter <- "session", HasGuid <- TRUE,
    Calls <- {"get", "unref", "dispatch"}, MaxConns <- 2, MaxOwn <- 2, conn <- library_conn,
    pc <- library_pc, Ops <- {}, MaxCalls <- 0, op <- 0, at <- 0, wantsError <- 0, msg <- 0,
    reply <- 0, error <- 0, failed <- 0, answered <- 0, async <- 0, warned <- 0, calls <- 0
Registry == INSTANCE BusRegistry WITH
    Conns <- {"c1", "c2"}, Names <- {"n1"}, MaxOwned <- 2, conn <- registry_conn,
    owners <- registry_owners, owned <- registry_owned, told <- registry_told
Tx == INSTANCE BusTransactions WITH
    Conns <- {"a", "b"}, Monitors <- {}, Serials <- {1, 2}, Ops <- {"call", "reply"},
    Flags <- {{}}, MaxReplies <- 1, ExpireAfter <- FALSE, MaxFailures <- 1,
    pending <- tx_pending, timer <- tx_timer, owners <- tx_owners, owned <- tx_owned,
    asked <- tx_asked, failures <- tx_failures
Activation == INSTANCE BusActivation WITH
    Services <- {"A", "systemd"}, Files <- {"A", "systemd"}, Shared <- {}, Units <- {"A"},
    UseSystemd <- TRUE, Requests <- {1, 2}, Clients <- {"c"}, MaxPending <- 2, MaxOom <- 0,
    pending <- activation_pending, owned <- activation_owned, connected <- activation_connected,
    child <- activation_child, oom <- activation_oom
Accept1 == INSTANCE BusConnections WITH
    Conns <- {"c1", "c2", "c3"}, Root <- {"c1"}, Limits <- {0, 2}, MaxCompleted <- 3,
    MaxPerUser <- 2, FailAt <- {"setup"}, FdCount <- 0, connected <- accept_connected,
    seen <- accept_seen, timer <- accept_timer, fds <- accept_fds
Accept2 == INSTANCE BusConnections WITH
    Conns <- {"c1", "c2"}, Root <- {"c1"}, Limits <- {2}, MaxCompleted <- 3, MaxPerUser <- 2,
    FailAt <- {}, FdCount <- 2, connected <- accept_connected, seen <- accept_seen,
    timer <- accept_timer, fds <- accept_fds
Reload1 == INSTANCE BusReload WITH
    MaxVersion <- 2, Broken <- {1}, PipeSize <- 1, MaxSignals <- 4,
    Failures <- {"clients", "address", "servicehelper", "activation", "contexts", "dirs"},
    file <- reload_file, told <- reload_told, error <- reload_error
Reload2 == INSTANCE BusReload WITH
    MaxVersion <- 2, Broken <- {}, PipeSize <- 2, MaxSignals <- 4, Failures <- {},
    file <- reload_file, told <- reload_told, error <- reload_error
Config == INSTANCE BusConfig WITH
    Files <- {"main", "a"}, InDir <- {"a"}, Plain <- {}, Users <- {}, Dirs <- {},
    Addresses <- {}, Limits <- {}, Rules <- {}, Contexts <- {}, Includes <- {"a", "main"},
    Optional <- {"main"}, DirIncludes <- {"d"}, MaxLen <- 2, error <- config_error,
    Directories <- {"x", "y"}, Kind <- "inotify", Again <- FALSE, MaxInode <- 2,
    Errors <- {"nospace"}, events <- watch_events, changed <- watch_changed, seen <- watch_seen
Loop1 == INSTANCE MainLoop WITH
    Watches <- {"r1", "w1"}, Timeouts <- {"t1"}, MaxOps <- 2, MaxOom <- 2, MaxEvents <- 2,
    MaxClosed <- 0, oom <- loop_oom, timeouts <- loop_timeouts, changed <- loop_changed,
    closed <- loop_closed, events <- loop_events
Loop2 == INSTANCE MainLoop WITH
    Watches <- {"r1", "w1"}, Timeouts <- {}, MaxOps <- 3, MaxOom <- 0, MaxEvents <- 2,
    MaxClosed <- 0, oom <- loop_oom, timeouts <- loop_timeouts, changed <- loop_changed,
    closed <- loop_closed, events <- loop_events
Keyring == INSTANCE Identities WITH
    UsersKinds <- {}, Ids <- {}, Names <- {}, Self <- 0, MaxEdits <- 0, MayRename <- FALSE,
    Objects <- {}, Values <- {}, Audits <- {}, files <- 0, edits <- 0, flushed <- 0, system <- 0,
    info <- 0, byId <- 0, byName <- 0, process <- 0, answer <- 0, cred <- 0, copied <- 0,
    merged <- 0, failed <- 0,
    Servers <- {"s1", "s2"}, NoServer <- "nobody", New <- 1, Expire <- 2, Travel <- 1,
    MaxLockTimeouts <- 1, MaxKeys <- 4, IntBits <- 1, SlowHolders <- TRUE, Crashing <- {"s1", "s2"},
    MaxTime <- 0, file <- keyring_file, pc <- keyring_pc, timeouts <- keyring_timeouts
Spawn == INSTANCE Babysitter WITH
    BabysitterMayFail <- TRUE, DaemonKills <- TRUE, open <- spawn_open, asked <- spawn_asked,
    sitter <- spawn_sitter, child <- spawn_child, ended <- spawn_ended
Tools == INSTANCE SessionTools WITH
    Launchers <- {1, 2}, Auto <- {1}, Stay <- {2}, UserBus <- FALSE, Tty <- TRUE,
    LaunchFaults <- {"exec", "x", "sitter"}, None <- 0, User <- 9, Strangers <- {"s1", "s2"},
    Statuses <- {0, 3}, RunFaults <- {"daemon exec", "setenv", "fork", "exec", "crash"},
    Texts <- {}, MaxText <- {}, MaxOther <- {}, MaxWords <- {}, MaxWord <- {},
    sitter <- tools_sitter, file <- tools_file, seen <- tools_seen, ended <- tools_ended,
    text <- 0, other <- 0, words <- 0

-----------------------------------------------------------------------------
Init ==
    /\ focus \in {"two threads", "transport", "kept", "auth", "loader", "shared bus", "registry",
                  "replies", "activation", "accept", "descriptors", "full pipe", "terminated",
                  "directories", "includes", "loop oom", "loop events", "keyring", "babysitter",
                  "launch", "run session"}
    /\ Conn!Init
    /\ IF focus = "transport" THEN Transport1!Init
       ELSE IF focus = "kept" THEN Transport2!Init
       ELSE step = 0 /\ transport_open = 0 /\ readWatch = 0 /\ writeWatch = 0
            /\ transport_toServer = 0 /\ transport_toClient = 0 /\ transport_sent = 0
            /\ outgoing = 0 /\ written = 0 /\ authBuffer = 0 /\ loader = 0 /\ loaderFds = 0
            /\ received = 0 /\ gotFds = 0 /\ live = 0 /\ undispatched = 0 /\ max = 0
            /\ needMemory = 0 /\ replies = 0 /\ transport_failures = 0 /\ transport_allowed = 0
    /\ IF focus = "auth" THEN Auth!Init
       ELSE client = 0 /\ server = 0 /\ auth_toServer = 0 /\ auth_toClient = 0 /\ creds = 0
            /\ auth_allowed = 0 /\ fdPossible = 0 /\ auth_oom = 0 /\ lines = 0 /\ eaten = 0
    /\ IF focus = "loader" THEN Loader!Init
       ELSE loader_sent = 0 /\ loader_wire = 0 /\ data = 0 /\ loader_fds = 0 /\ messages = 0
            /\ popped = 0 /\ corrupted = 0 /\ maxSize = 0 /\ loading = 0 /\ loader_closed = 0
            /\ gone = 0 /\ loader_oom = 0
    /\ Library!Init
    /\ Registry!Init
    /\ Tx!Init
    /\ Activation!Init
    /\ IF focus = "accept" THEN Accept1!Init
       ELSE IF focus = "descriptors" THEN Accept2!Init
       ELSE limit = 0 /\ incomplete = 0 /\ completed = 0 /\ nIncomplete = 0 /\ nCompleted = 0
            /\ byUser = 0 /\ accept_connected = 0 /\ accept_seen = 0 /\ named = 0 /\ late = 0
            /\ accept_timer = 0 /\ accepting = 0 /\ accept_fds = 0 /\ fdTimer = 0
    /\ IF focus = "terminated" THEN Reload2!Init
       ELSE Reload1!Init
    /\ Config!WatchInit
    /\ IF focus = "includes" THEN Config!Init
       ELSE content = 0 /\ stack = 0 /\ config_error = 0 /\ outcome = 0
    /\ IF focus = "loop events" THEN Loop2!Init
       ELSE Loop1!Init
    /\ Keyring!KeyringInit
    /\ Spawn!Init
    /\ Tools!LaunchInit
    /\ IF focus = "run session" THEN Tools!RunInit
       ELSE run_pc = 0 /\ run_bus = 0 /\ app = 0 /\ strangers = 0 /\ known = 0
            /\ tools_ended = 0 /\ status = 0 /\ killed = 0

Next ==
    /\ UNCHANGED focus
    /\ IF focus = "two threads" THEN Conn!Next ELSE UNCHANGED connVars
    /\ IF focus = "transport" THEN Transport1!Next
       ELSE IF focus = "kept" THEN Transport2!Next ELSE UNCHANGED transportVars
    /\ IF focus = "auth" THEN Auth!Next ELSE UNCHANGED authVars
    /\ IF focus = "loader" THEN Loader!Consume ELSE UNCHANGED loaderVars
    /\ IF focus = "shared bus" THEN Library!Next ELSE UNCHANGED libraryVars
    /\ IF focus = "registry" THEN Registry!Next ELSE UNCHANGED registryVars
    /\ IF focus = "replies" THEN Tx!Next ELSE UNCHANGED txVars
    /\ IF focus = "activation" THEN Activation!Next ELSE UNCHANGED activationVars
    /\ IF focus = "accept" THEN Accept1!Next
       ELSE IF focus = "descriptors" THEN Accept2!Next ELSE UNCHANGED acceptVars
    /\ IF focus = "full pipe" THEN Reload1!Next
       ELSE IF focus = "terminated" THEN Reload2!Next ELSE UNCHANGED reloadVars
    /\ IF focus = "directories" THEN Config!WatchNext ELSE UNCHANGED watchVars
    /\ IF focus = "includes" THEN Config!Next ELSE UNCHANGED configVars
    /\ IF focus = "loop oom" THEN Loop1!Next
       ELSE IF focus = "loop events" THEN Loop2!Next ELSE UNCHANGED loopVars
    /\ IF focus = "keyring" THEN Keyring!KeyringNext ELSE UNCHANGED keyringVars
    /\ IF focus = "babysitter" THEN Spawn!Next ELSE UNCHANGED spawnVars
    /\ IF focus = "launch" THEN Tools!LaunchNext ELSE UNCHANGED launchVars
    /\ IF focus = "run session" THEN Tools!RunNext ELSE UNCHANGED runVars

Spec == Init /\ [][Next]_vars

-----------------------------------------------------------------------------
(* Fairness.  Fair(i) is the i-th step that the component in focus is       *)
(* assumed to come to when it stays possible, Strong(i) when it is possible *)
(* again and again: as focus never changes, one fairness condition on       *)
(* Fair(i) is one for every component.                                      *)

Thread == <<"main", "worker">>
Caller == <<"t1", "t2">>
Client == <<"c1", "c2", "c3">>
Service == <<"A", "systemd">>
Server == <<"s1", "s2">>

\* Main loops write and read what is ready, threads run, timeouts expire; a thread
\* that finds the connection's lock free again and again gets it.
ConnFair(i) ==
    \/ i = 1 /\ Conn!Write
    \/ i = 2 /\ Conn!HandleWatch
    \/ i \in 3 .. 4 /\ Conn!BlockSteps(Thread[i - 2])
    \/ i \in 5 .. 6 /\ Conn!StatusSteps(Thread[i - 4])
    \/ i \in 7 .. 8 /\ Conn!AnyReplyTimeout(Thread[i - 6])
ConnStrong(i) ==
    \/ i \in 1 .. 2 /\ Conn!DispatchSteps(Thread[i])
    \/ i \in 3 .. 4 /\ Conn!JudgesReply(Thread[i - 2])

\* Main loops run what is ready, applications dispatch and free, memory comes back.
TransportFair(i) ==
    /\ \/ i = 1 /\ Transport1!ClientWrites
       \/ i = 2 /\ Transport1!ClientReads
       \/ i = 3 /\ Transport1!ServerAuthReads
       \/ i = 4 /\ Transport1!ServerWrites
       \/ i = 5 /\ Transport1!ServerReads
       \/ i = 6 /\ Transport1!Retry
       \/ i = 7 /\ Transport1!Dispatch
       \/ i = 8 /\ Transport1!Free
    /\ UNCHANGED transport_allowed
KeptFair(i) ==
    /\ \/ i = 1 /\ Transport2!ClientWrites
       \/ i = 2 /\ Transport2!ClientReads
       \/ i = 3 /\ Transport2!ServerAuthReads
       \/ i = 4 /\ Transport2!ServerWrites
       \/ i = 5 /\ Transport2!ServerReads
       \/ i = 7 /\ Transport2!Dispatch
       \/ i = 8 /\ Transport2!Free
    /\ UNCHANGED transport_allowed

\* Both ends of an authentication work through what has arrived.
AuthFair(i) ==
    \/ i = 1 /\ Auth!ServerStep
    \/ i = 2 /\ Auth!ClientStep

\* The transport is polled, the loader runs on and the connection dispatches.
LoaderFair(i) ==
    \/ i = 1 /\ Loader!QueueMessages
    \/ i = 2 /\ Loader!AnyRead
    \/ i = 3 /\ Loader!PopMessage

\* The daemon does not stop in the middle of bus_connection_disconnected.
RegistryFair(i) ==
    i \in 1 .. 2 /\ (Registry!DropService(Client[i]) \/ Registry!Disconnected(Client[i]))

\* A transaction runs to its end; for the timeout of the replies memory comes back in the end.
TxFair(i) ==
    \/ i = 1 /\ Tx!TakeStep
    \/ i = 2 /\ Tx!Commit

\* The timeout of a pending activation is in the main loop.
ActivationFair(i) == i \in 1 .. 2 /\ Activation!TimedOut(Service[i])

\* Time passes, the main loop runs its timeouts and dispatches Disconnected.
AcceptFair(i) ==
    \/ i = 1 /\ Accept1!Elapse
    \/ i = 2 /\ Accept1!ExpireTimeout
    \/ i \in 3 .. 5 /\ Accept1!Disconnected(Client[i - 2])
FdsFair(i) ==
    \/ i \in 1 .. 2 /\ Accept2!Disconnected(Client[i])
    \/ i \in 3 .. 4 /\ Accept2!FdTimeout(Client[i - 2])

\* The main loop serves the pipe, the signals and the watch on the directories.
WatchFair(i) ==
    \/ i = 1 /\ Config!HandleWatch
    \/ i = 2 /\ Config!SetWatchedDirs
PipeFair(i) ==
    \/ i = 1 /\ Reload1!Daemon
    \/ i = 2 /\ Reload1!TellDaemon

\* waitpid gives every ended child in time, and a signalled daemon ends.
RunFair(i) ==
    \/ i = 1 /\ Tools!StartSteps
    \/ i = 2 /\ Tools!BusReady
    \/ i = 3 /\ Tools!ReapBus
    \/ i = 4 /\ Tools!ReapProgram
    \/ i = 5 /\ Tools!SignalledBusEnds

\* Processes that can run do; nothing obliges the user to end the session.
LaunchFair(i) ==
    \/ i \in 1 .. 2 /\ Tools!Launch(i)
    \/ i \in 3 .. 4 /\ Tools!Babysit(i - 2)

\* The daemon's main loop and the babysitter run on; nothing is assumed of the service.
SpawnFair(i) ==
    \/ i = 1 /\ Spawn!ParentSteps
    \/ i = 2 /\ Spawn!SitterSteps

\* The variables of the component in focus.
focusVars ==
    CASE focus = "two threads" -> connVars
      [] focus \in {"transport", "kept"} -> transportVars
      [] focus = "auth" -> authVars
      [] focus = "loader" -> loaderVars
      [] focus = "shared bus" -> libraryVars
      [] focus = "registry" -> registryVars
      [] focus = "replies" -> txVars
      [] focus = "activation" -> activationVars
      [] focus \in {"accept", "descriptors"} -> acceptVars
      [] focus \in {"full pipe", "terminated"} -> reloadVars
      [] focus = "directories" -> watchVars
      [] focus = "includes" -> configVars
      [] focus \in {"loop oom", "loop events"} -> loopVars
      [] focus = "keyring" -> keyringVars
      [] focus = "babysitter" -> spawnVars
      [] focus = "launch" -> launchVars
      [] focus = "run session" -> runVars

Fair(i) ==
    /\ UNCHANGED focus
    /\ \/ focus = "two threads" /\ ConnFair(i)
       \/ focus = "transport" /\ TransportFair(i)
       \/ focus = "kept" /\ KeptFair(i)
       \/ focus = "auth" /\ AuthFair(i)
       \/ focus = "loader" /\ LoaderFair(i)
       \/ focus = "registry" /\ RegistryFair(i)
       \/ focus = "replies" /\ TxFair(i)
       \/ focus = "activation" /\ ActivationFair(i)
       \/ focus = "accept" /\ AcceptFair(i)
       \/ focus = "descriptors" /\ FdsFair(i)
       \/ focus = "full pipe" /\ PipeFair(i)
       \/ focus = "terminated" /\ i = 1 /\ Reload2!Daemon
       \/ focus = "directories" /\ WatchFair(i)
       \/ focus = "includes" /\ i = 1 /\ Config!Next
       \/ focus = "loop oom" /\ i = 1 /\ Loop1!Step
       \/ focus = "loop events" /\ i = 1 /\ Loop2!Step
       \/ focus = "keyring" /\ i \in 1 .. 2 /\ Keyring!Work(Server[i])
       \/ focus = "babysitter" /\ SpawnFair(i)
       \/ focus = "launch" /\ LaunchFair(i)
       \/ focus = "run session" /\ RunFair(i)

\* A thread that waits for a lock that is free again and again gets it (dbus-bus.c holds two).
Strong(i) ==
    /\ UNCHANGED focus
    /\ \/ focus = "two threads" /\ ConnStrong(i)
       \/ focus = "shared bus" /\ i \in 1 .. 2 /\ Library!Continue(Caller[i])
       \/ focus = "replies" /\ i = 1 /\ Tx!ExpireAll

FairSpec == Spec /\ (\A i \in 1 .. 8 : WF_focusVars(Fair(i))) /\ (\A i \in 1 .. 4 : SF_focusVars(Strong(i)))

-----------------------------------------------------------------------------
(* Properties.                                                             *)

\* what is waited for, i numbers the waits of a component
Waits(i) ==
    \/ focus = "two threads" /\ i \in 1 .. 2 /\ Conn!Blocks(Thread[i])
    \/ focus = "transport" /\ i \in 1 .. 2 /\ Transport1!Written(i)
    \/ focus = "kept" /\ i \in 1 .. 2 /\ Transport2!Written(i)
    \/ focus = "auth"
    \/ focus = "loader" /\ i \in 1 .. 2 /\ Loader!Good(i)
    \/ focus = "shared bus" /\ i \in 1 .. 2 /\ Library!InCall(Caller[i])
    \/ focus = "registry" /\ i \in 1 .. 2 /\ Registry!Closing(Client[i])
    \/ focus = "replies" /\ i \in 1 .. 2 /\ Tx!Abandoned("a", i)
    \/ focus = "activation" /\ i \in 1 .. 2 /\ Activation!Waiting(i)

Comes(i) ==
    \/ focus = "two threads" /\ i \in 1 .. 2 /\ Conn!Returns(Thread[i])
    \/ focus = "transport" /\ i \in 1 .. 2 /\ Transport1!Received(i)
    \/ focus = "kept" /\ i \in 1 .. 2 /\ (Transport2!Received(i) \/ Transport2!LeftLying)
    \/ focus = "auth" /\ Auth!ConversationEnds
    \/ focus = "loader" /\ i \in 1 .. 2 /\ Loader!Popped(i)
    \/ focus = "shared bus" /\ i \in 1 .. 2 /\ (~Library!InCall(Caller[i]) \/ Library!DeadlyEmbrace)
    \/ focus = "registry" /\ i \in 1 .. 2 /\ Registry!Gone(Client[i])
    \/ focus = "replies" /\ i \in 1 .. 2 /\ ~Tx!Abandoned("a", i)
    \/ focus = "activation" /\ i \in 1 .. 2 /\ ~Activation!Waiting(i)

Happens(i) ==
    \/ focus = "accept" /\ i \in 1 .. 2 /\ <<Accept1!Deaf, Accept1!Incomplete("c2")>>[i]
    \/ focus = "descriptors" /\ i \in 1 .. 2 /\ Accept2!HoldsFds(Client[i])
    \/ focus = "full pipe" /\ i \in 1 .. 2 /\ Reload1!Told(i)
    \/ focus = "terminated" /\ i = 1 /\ Reload2!TermWritten
    \/ focus = "directories" /\ i \in 1 .. 2 /\ Config!Changed(<<"x", "y">>[i])
    \/ focus = "includes"
    \/ focus = "loop oom" /\ i \in 1 .. 2 /\ Loop1!LeftOut(<<"r1", "w1">>[i])
    \/ focus = "loop events" /\ i \in 1 .. 2 /\ Loop2!EventAt(<<"r1", "w1">>[i])
    \/ focus = "keyring" /\ i \in 1 .. 2 /\ Keyring!NeedsKey(<<"s1", "s2">>[i])
    \/ focus = "babysitter" /\ i = 1 /\ Spawn!Died
    \/ focus = "launch" /\ i = 1 /\ Tools!SessionEnded
    \/ focus = "run session" /\ i = 1 /\ Tools!ProgramEnded

Served(i) ==
    \/ focus = "accept" /\ i \in 1 .. 2 /\ <<Accept1!Listens, ~Accept1!Incomplete("c2")>>[i]
    \/ focus = "descriptors" /\ i \in 1 .. 2 /\ ~Accept2!HoldsFds(Client[i])
    \/ focus = "full pipe" /\ i \in 1 .. 2 /\ Reload1!TakenOver(i)
    \/ focus = "terminated" /\ i = 1 /\ Reload2!Exited
    \/ focus = "directories" /\ i \in 1 .. 2 /\ Config!Reloaded(<<"x", "y">>[i])
    \/ focus = "includes" /\ Config!LoadingEnds
    \/ focus = "loop oom" /\ i \in 1 .. 2 /\ Loop1!PolledAgain(<<"r1", "w1">>[i])
    \/ focus = "loop events" /\ i \in 1 .. 2 /\ Loop2!EventHandled(<<"r1", "w1">>[i])
    \/ focus = "keyring" /\ i \in 1 .. 2 /\ Keyring!KeyOrError(<<"s1", "s2">>[i])
    \/ focus = "babysitter" /\ i = 1 /\ Spawn!DeathReported
    \/ focus = "launch" /\ i = 1 /\ Tools!BusesKilled
    \/ focus = "run session" /\ i = 1 /\ Tools!DaemonEnded

\* Whoever waits gets an end: a written message its reader, a conversation its verdict,
\* whole messages their dispatch, a leaving client its removal, an abandoned call its error,
\* an activation its outcome (services.c, connection.c, activation.c).  Three ends are not
\* what the caller hopes for:
\*   - a blocked thread returns, or the process ends with the failed assertion of
\*     dbus-connection.c:2427, when another thread has dispatched what it still looks for;
\*   - a message is received or lies for good in one of the states of LeftLying
\*     (dbus-transport.c:1103 and 1252, dbus-transport-socket.c:924), which "kept" reaches;
\*   - a call on the shared bus returns, unless a thread that dispatches the disconnection
\*     and one that opens or closes a connection hold the lock the other one waits for
\*     (DeadlyEmbrace, dbus-connection.c:1673 and dbus-bus.c:391).
WaitingEnds == \A i \in 1 .. 2 : Waits(i) ~> Comes(i)

\* What happened is acted upon: a bus that is full listens again, incomplete and stuck
\* connections are dropped, a changed file or directory is taken over even when the pipe is
\* full, SIGTERM ends the daemon, loading ends, a watch left out for memory is polled again,
\* a ready one is handled, a key comes or an error, a dead child is reported, and the end of
\* a session ends its bus.  The code does not do it always, and the property says no more:
\*   - a bus that met the limit 0 listens again only if a connection is left to drop
\*     (bus.c:527 raises the limit and does not look at the watches);
\*   - a reload that runs out of memory takes over the limits, sets the error and is not
\*     repeated (bus.c:538); not while the address is copied, where the next reload frees
\*     what is freed already, which ConfigurationIsWhole names;
\*   - a SIGTERM ends the daemon once its byte is in the pipe: a full pipe loses it
\*     (main.c:108);
\*   - a watch left out for memory is polled again while a timeout bounds the poll, not
\*     without one (dbus-mainloop.c:652);
\*   - a bus stays when its babysitter could not be forked and nobody was told its pid
\*     (dbus-launch.c:1261).
EventsAreServed == \A i \in 1 .. 2 : Happens(i) ~> Served(i)

-----------------------------------------------------------------------------
=============================================================================
