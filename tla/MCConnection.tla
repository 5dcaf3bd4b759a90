---------------------------- MODULE MCConnection ----------------------------
(***************************************************************************)
(* Small instances of the connection half of libdbus: authentication,      *)
(* connection, transport, shared buses, object tree, servers, keyring and  *)
(* the databases of users.                                                 *)
(*                                                                         *)
(* A behaviour is one of the component named by focus, chosen at the start *)
(* with one of the sets of bounds below; the other components stand still. *)
(* So the states are the sum, never the product, of those of the components.*)
(* Each component is instantiated with the bounds that make its own hard   *)
(* cases happen; a part of a property is about the component it names.     *)
(* The server that meets an arbitrary client is extended directly, so that *)
(* the property its theorem states is checked on the same definition.      *)
(***************************************************************************)
EXTENDS DBusAuth

VARIABLES
    focus,      \* the component of this behaviour
    k, th, conn_lock, reader, holder, borrowed, wire, hung, asked, conn_sent, seen, conn_oom,
    crashed,
    step, open, readWatch, writeWatch, transport_toServer, transport_toClient, transport_sent,
    outgoing, written, authBuffer, loader, loaderFds, received, gotFds, live, undispatched, max,
    needMemory, replies, transport_failures, transport_allowed,
    op, blocking_at, wantsError, msg, reply, blocking_error, blocking_failed, answered, async,
    blocking_warned, calls,
    conn, slot, table, bus, shared, datas, mutex, shared_pc, own, missing,
    node, regs, owed, d, count, tree_failed, alive,
    entries, e, server_at, held, uninit, server_warned, handled, first, server_error,
    listen_server, server_failures, listen_pc,
    dir, server_file, nonce_server, nonce_nonce, server_sent, net, pieces, p, buffer, verdict,
    server_lock, ref, listAway, inList, listening, disconnected, finalized, handler, freed,
    server_client, life_pc, arg,
    clock, keyring_file, lockedBy, ring, keyring_pc, timeouts, now, fresh, offers, stolen,
    files, edits, flushed, system, info, byId, byName, process, answer,
    cred, copied, merged, identity_failed

connVars == <<k, th, conn_lock, reader, holder, borrowed, wire, hung, asked, conn_sent, seen, conn_oom,
    crashed>>
transportVars == <<step, open, readWatch, writeWatch, transport_toServer, transport_toClient, transport_sent,
    outgoing, written, authBuffer, loader, loaderFds, received, gotFds, live, undispatched, max,
    needMemory, replies, transport_failures, transport_allowed>>
blockingVars == <<op, blocking_at, wantsError, msg, reply, blocking_error, blocking_failed, answered, async,
    blocking_warned, calls>>
sharedVars == <<conn, slot, table, bus, shared, datas, mutex, shared_pc, own, missing>>
treeVars == <<node, regs, owed, d, count, tree_failed, alive>>
listenVars == <<entries, e, server_at, held, uninit, server_warned, handled, first, server_error,
    listen_server, server_failures, listen_pc>>
nonceVars == <<dir, server_file, nonce_server, nonce_nonce, server_sent, net, pieces, p, buffer, verdict>>
lifeVars == <<server_lock, ref, listAway, inList, listening, disconnected, finalized, handler, freed,
    server_client, life_pc, arg>>
keyringVars == <<clock, keyring_file, lockedBy, ring, keyring_pc, timeouts, now, fresh, offers, stolen>>
usersVars == <<files, edits, flushed, system, info, byId, byName, process, answer>>
credVars == <<cred, copied, merged, identity_failed>>
suiteVars == <<focus, vars, connVars, transportVars, blockingVars, sharedVars, treeVars, listenVars,
    nonceVars, lifeVars, keyringVars, usersVars, credVars>>

Auth2 == INSTANCE DBusAuth WITH SocketUsers <- {"alice"}, Wild <- {"server"}, MaxLines <- 5
Auth3 == INSTANCE DBusAuth WITH Wild <- {}, MaxFailures <- 6, MaxOom <- 2
Conn1 == INSTANCE DBusConnection WITH
    Calls <- {1, 2}, Infinite <- {}, Untracked <- {}, Threads <- {"main"},
    Dispatchers <- {"main"}, Blockers <- {"main"}, Borrowers <- {}, MaxSignals <- 0,
    MaxReplies <- 1, MaxOom <- 0, lock <- conn_lock, sent <- conn_sent, oom <- conn_oom
Conn2 == INSTANCE DBusConnection WITH
    Calls <- {1}, Infinite <- {}, Untracked <- {}, Threads <- {"main"}, Dispatchers <- {"main"},
    Blockers <- {"main"}, Borrowers <- {}, MaxSignals <- 1, MaxReplies <- 2, MaxOom <- 1,
    lock <- conn_lock, sent <- conn_sent, oom <- conn_oom
Conn3 == INSTANCE DBusConnection WITH
    Calls <- {}, Infinite <- {}, Untracked <- {}, Threads <- {"main", "worker"},
    Dispatchers <- {"main"}, Blockers <- {}, Borrowers <- {"worker", "main"}, MaxSignals <- 3,
    MaxReplies <- 1, MaxOom <- 2, lock <- conn_lock, sent <- conn_sent, oom <- conn_oom
Conn4 == INSTANCE DBusConnection WITH
    Calls <- {1}, Infinite <- {}, Untracked <- {}, Threads <- {"main", "worker"},
    Dispatchers <- {"main"}, Blockers <- {"worker"}, Borrowers <- {}, MaxSignals <- 0,
    MaxReplies <- 2, MaxOom <- 0, lock <- conn_lock, sent <- conn_sent, oom <- conn_oom
Transport1 == INSTANCE DBusTransport WITH
    NMessages <- 3, SocketSize <- 3, MaxRead <- 2, Maxes <- {1, 2}, Allowed <- {TRUE, FALSE},
    InDispatch <- FALSE, MayClose <- FALSE, NReplies <- 1, MaxFailures <- 1,
    toServer <- transport_toServer, toClient <- transport_toClient, sent <- transport_sent,
    failures <- transport_failures, allowed <- transport_allowed
Transport2 == INSTANCE DBusTransport WITH
    NMessages <- 3, SocketSize <- 3, MaxRead <- 3, Maxes <- {1, 2}, Allowed <- {TRUE, FALSE},
    InDispatch <- TRUE, MayClose <- TRUE, NReplies <- 0, MaxFailures <- 1,
    toServer <- transport_toServer, toClient <- transport_toClient, sent <- transport_sent,
    failures <- transport_failures, allowed <- transport_allowed
Shared1 == INSTANCE SharedBus WITH
    Threads <- {"t1"}, Types <- {"session", "starter"}, Starter <- "session", HasGuid <- TRUE,
    Calls <- {"get", "private", "open", "unref", "dispatch", "shutdown"}, MaxConns <- 2,
    MaxOwn <- 2, pc <- shared_pc,
    Ops <- {"GetConnectionUnixUser", "GetId", "RequestName", "ReleaseName", "NameHasOwner", "StartServiceByName", "AddMatch", "RemoveMatch"},
    MaxCalls <- 2, at <- blocking_at, error <- blocking_error, failed <- blocking_failed,
    warned <- blocking_warned
Shared2 == INSTANCE SharedBus WITH
    Threads <- {"t1", "t2"}, Types <- {"session"}, Starter <- "session", HasGuid <- TRUE,
    Calls <- {"get", "unref", "dispatch"}, MaxConns <- 2, MaxOwn <- 2, pc <- shared_pc,
    Ops <- {}, MaxCalls <- 0, at <- blocking_at, error <- blocking_error, failed <- blocking_failed,
    warned <- blocking_warned
Tree1 == INSTANCE ObjectTree WITH
    Names <- {"a", "ab", "b"}, MaxDepth <- 1, MaxNodes <- 7, MaxRegs <- 3, MaxDispatch <- 0,
    MayFail <- FALSE, failed <- tree_failed
Tree2 == INSTANCE ObjectTree WITH
    Names <- {"a"}, MaxDepth <- 2, MaxNodes <- 7, MaxRegs <- 2, MaxDispatch <- 1,
    MayFail <- FALSE, failed <- tree_failed
Tree3 == INSTANCE ObjectTree WITH
    Names <- {"a", "b"}, MaxDepth <- 2, MaxNodes <- 7, MaxRegs <- 2, MaxDispatch <- 0,
    MayFail <- TRUE, failed <- tree_failed
Tree4 == INSTANCE ObjectTree WITH
    Names <- {"a"}, MaxDepth <- 2, MaxNodes <- 7, MaxRegs <- 2, MaxDispatch <- 1,
    MayFail <- TRUE, failed <- tree_failed
Server1 == INSTANCE DBusServer WITH
    Methods <- {"tcp", "nonce-tcp", "path", "abstract", "tmpdir", "runtime", "systemd", "badunix", "unknown"},
    MaxEntries <- 2, MaxFailures <- 2, NonceLength <- 4, Bytes <- {0, 1}, UseSubdir <- FALSE,
    Threads <- {"t1", "t2"}, NoThread <- "none", NumWatches <- 2, Clients <- {"c1"},
    Flags <- {"readable"}, MaxSets <- 2, NonblockingFails <- TRUE, ReplacesWatches <- TRUE,
    at <- server_at, warned <- server_warned, error <- server_error,
    failures <- server_failures, file <- server_file, sent <- server_sent, lock <- server_lock,
    client <- server_client
Server2 == INSTANCE DBusServer WITH
    Methods <- {"tcp", "nonce-tcp", "path", "abstract", "tmpdir", "runtime", "systemd", "badunix", "unknown"},
    MaxEntries <- 2, MaxFailures <- 2, NonceLength <- 4, Bytes <- {0, 1}, UseSubdir <- TRUE,
    Threads <- {"t1", "t2"}, NoThread <- "none", NumWatches <- 1, Clients <- {"c1", "c2"},
    Flags <- {"readable"}, MaxSets <- 2, NonblockingFails <- FALSE, ReplacesWatches <- TRUE,
    at <- server_at, warned <- server_warned, error <- server_error,
    failures <- server_failures, file <- server_file, sent <- server_sent, lock <- server_lock,
    client <- server_client
Identity1 == INSTANCE Identities WITH
    UsersKinds <- {"users"}, Ids <- {0, 1}, Names <- {"ann", "bob", "cat", "1"}, Self <- 0,
    MaxEdits <- 2, MayRename <- TRUE, Objects <- {"p", "q"}, Values <- {1, 2}, Audits <- {1},
    failed <- identity_failed,
    Servers <- {"s1", "s2"}, NoServer <- "nobody", New <- 1, Expire <- 2, Travel <- 1,
    MaxLockTimeouts <- 1, MaxKeys <- 4, IntBits <- 2, SlowHolders <- TRUE, Crashing <- {"s1"},
    MaxTime <- 1, file <- keyring_file, pc <- keyring_pc
Identity2 == INSTANCE Identities WITH
    UsersKinds <- {"users", "groups"}, Ids <- {0, 1}, Names <- {"ann", "bob", "1"}, Self <- 0,
    MaxEdits <- 1, MayRename <- FALSE, Objects <- {"p", "q"}, Values <- {1, 2}, Audits <- {1},
    failed <- identity_failed,
    Servers <- {"s1", "s2"}, NoServer <- "nobody", New <- 1, Expire <- 2, Travel <- 1,
    MaxLockTimeouts <- 1, MaxKeys <- 4, IntBits <- 1, SlowHolders <- FALSE, Crashing <- {},
    MaxTime <- 3, file <- keyring_file, pc <- keyring_pc

-----------------------------------------------------------------------------
ConnectionInit ==
    /\ focus \in {"auth server", "auth client", "auth pair", "one thread", "connection lost",
                  "two threads", "queue", "stream", "watches", "bus calls", "shared one", "shared two",
                  "tree wide", "tree deep", "tree memory", "tree retry", "listen", "nonce", "nonce unix",
                  "server", "clients", "keyring", "old keys", "users", "groups",
                  "credentials"}
    /\ IF focus = "auth client" THEN Auth2!Init
       ELSE IF focus = "auth pair" THEN Auth3!Init
       ELSE Init /\ (focus # "auth server" => creds = Me /\ allowed = {} /\ fdPossible = {})
    /\ IF focus = "connection lost" THEN Conn2!Init
       ELSE IF focus = "queue" THEN Conn3!Init
       ELSE IF focus = "two threads" THEN Conn4!Init
       ELSE Conn1!Init
    /\ IF focus = "stream" THEN Transport1!Init
       ELSE IF focus = "watches" THEN Transport2!Init
       ELSE step = 0 /\ open = 0 /\ readWatch = 0 /\ writeWatch = 0 /\ transport_toServer = 0
            /\ transport_toClient = 0 /\ transport_sent = 0 /\ outgoing = 0 /\ written = 0
            /\ authBuffer = 0 /\ loader = 0 /\ loaderFds = 0 /\ received = 0 /\ gotFds = 0
            /\ live = 0 /\ undispatched = 0 /\ max = 0 /\ needMemory = 0 /\ replies = 0
            /\ transport_failures = 0 /\ transport_allowed = 0
    /\ Shared1!CallInit
    /\ IF focus = "shared two" THEN Shared2!Init
       ELSE Shared1!Init
    /\ IF focus = "tree deep" THEN Tree2!Init
       ELSE IF focus = "tree memory" THEN Tree3!Init
       ELSE IF focus = "tree retry" THEN Tree4!Init
       ELSE Tree1!Init
    /\ IF focus = "listen" THEN Server1!ListenInit
       ELSE entries = 0 /\ e = 0 /\ server_at = 0 /\ held = 0 /\ uninit = 0
            /\ server_warned = 0 /\ handled = 0 /\ first = 0 /\ server_error = 0
            /\ listen_server = 0 /\ server_failures = 0 /\ listen_pc = 0
    /\ Server1!NonceInit
    /\ IF focus = "clients" THEN Server2!LifeInit
       ELSE Server1!LifeInit
    /\ Identity1!KeyringInit
    /\ IF focus = "groups" THEN Identity2!UsersInit
       ELSE Identity1!UsersInit
    /\ Identity1!CredInit

ConnectionNext ==
    /\ UNCHANGED focus
    /\ IF focus = "auth server" THEN Next
       ELSE IF focus = "auth client" THEN Auth2!Next
       ELSE IF focus = "auth pair" THEN Auth3!Next ELSE UNCHANGED vars
    /\ IF focus = "one thread" THEN Conn1!Next
       ELSE IF focus = "connection lost" THEN Conn2!Next
       ELSE IF focus = "queue" THEN Conn3!Next
       ELSE IF focus = "two threads" THEN Conn4!Next ELSE UNCHANGED connVars
    /\ IF focus = "stream" THEN Transport1!Next
       ELSE IF focus = "watches" THEN Transport2!Next ELSE UNCHANGED transportVars
    /\ IF focus = "bus calls" THEN Shared1!CallNext ELSE UNCHANGED blockingVars
    /\ IF focus = "shared one" THEN Shared1!Next
       ELSE IF focus = "shared two" THEN Shared2!Next ELSE UNCHANGED sharedVars
    /\ IF focus = "tree wide" THEN Tree1!Next
       ELSE IF focus = "tree deep" THEN Tree2!Next
       ELSE IF focus = "tree memory" THEN Tree3!Next
       ELSE IF focus = "tree retry" THEN Tree4!Next ELSE UNCHANGED treeVars
    /\ IF focus = "listen" THEN Server1!ListenNext ELSE UNCHANGED listenVars
    /\ IF focus = "nonce" THEN Server1!NonceNext
       ELSE IF focus = "nonce unix" THEN Server2!NonceNext ELSE UNCHANGED nonceVars
    /\ IF focus = "server" THEN Server1!LifeNext
       ELSE IF focus = "clients" THEN Server2!LifeNext ELSE UNCHANGED lifeVars
    /\ IF focus = "keyring" THEN Identity1!KeyringNext
       ELSE IF focus = "old keys" THEN Identity2!KeyringNext ELSE UNCHANGED keyringVars
    /\ IF focus = "users" THEN Identity1!UsersNext
       ELSE IF focus = "groups" THEN Identity2!UsersNext ELSE UNCHANGED usersVars
    /\ IF focus = "credentials" THEN Identity1!CredNext ELSE UNCHANGED credVars

ConnectionSpec == ConnectionInit /\ [][ConnectionNext]_suiteVars

-----------------------------------------------------------------------------

\* A call gets one reply, the peer's, the timeout's or, for a thread that blocks, that of the lost
\* connection, unless it is pending when the connection is lost; two only where a thread blocks for
\* it beside one that dispatches (dbus-connection.c; OneReply and NoCallForgotten name the cases);
\* messages and their descriptors arrive once and in order
\* (dbus-transport-socket.c), a reader of the bus eats no message of another, and a message
\* goes to the handlers of its path, the innermost first (dbus-object-tree.c).
MessagesArriveOnce ==
    /\ focus = "one thread" => Conn1!TypeOK /\ Conn1!OneReply /\ Conn1!NoCallForgotten
            /\ Conn1!NoTimeoutAfterReply
    /\ focus = "two threads" => Conn4!OneReply /\ Conn4!NoCallForgotten
    /\ focus = "connection lost" => Conn2!DisconnectedIsLast
    /\ focus = "queue" => Conn3!DeliveredInOrder
    /\ focus = "stream" => Transport1!TypeOK /\ Transport1!StreamIsFaithful /\ Transport1!FdsArriveWithTheirs
    /\ focus = "watches" => Transport2!SomeoneIsToAct
    /\ focus = "bus calls" => Shared1!NothingKept /\ Shared1!ErrorMeansFailure /\ Shared1!AsyncForRulesOnly
    /\ focus = "tree wide" => Tree1!DataOfPath /\ Tree1!ListedAreRegistered
    /\ focus = "tree deep" => Tree2!InnermostFirst /\ Tree2!NobodySkipped
    /\ focus = "tree memory" => Tree3!DataOfPath
    /\ focus = "tree retry" => Tree4!NobodySkipped

\* Two libdbus ends end their conversation in agreement (dbus-auth.c); a client finds a cookie with
\* which to answer for the time it is promised, until a lock is taken from a server at work, and
\* cookies are told apart by their numbers always (dbus-keyring.c); cached users, groups and
\* credentials are those of one lookup, except of a name the files have given away since the last
\* flush (dbus-userdb.c, dbus-credentials.c).
PeersAreWhoTheySay ==
    /\ focus = "auth pair" => Auth3!ConversationIsSound
    /\ focus = "nonce" => Server1!OneReadDecides
    /\ focus = "nonce unix" => Server2!OneReadDecides
    /\ focus = "keyring" => Identity1!ClientHasItsWindow /\ Identity1!IdsAreUnique
    /\ focus = "old keys" => Identity2!ClientHasItsWindow /\ Identity2!IdsAreUnique
    /\ focus = "users" => Identity1!AnswersAreFresh /\ Identity1!NamesPointToEntries
    /\ focus = "groups" => Identity2!AnswersAreFresh /\ Identity2!NamesPointToEntries
    /\ focus = "credentials" => Identity1!CopiesAreTheSame /\ Identity1!MergeIsComplete
            /\ Identity1!SupersetIsTheSameUser

\* Shared connections, object tree nodes, servers, their watches and sockets are released
\* exactly once, by whoever is last, and never used after it (dbus-bus.c, dbus-connection.c,
\* dbus-object-tree.c, dbus-server.c).  The file of a nonce goes when its creation fails, and with its
\* server on Windows only; a client is left open with nobody to serve it only where its socket cannot
\* be made nonblocking.
NothingIsFreedTwice ==
    /\ focus = "shared one" => Shared1!LibraryKeepsConnected /\ Shared1!NoLeak /\ Shared1!HandedOutIsRegistered
    /\ focus = "shared two" => Shared2!NoUseAfterFree /\ Shared2!LibraryKeepsConnected
            /\ Shared2!HandedOutIsRegistered
    /\ focus = "tree deep" => Tree2!TreeShape /\ Tree2!UnregisteredOnce
    /\ focus = "tree memory" => Tree3!TreeShape
    /\ focus = "tree retry" => Tree4!TreeShape
    /\ focus = "listen" => Server1!NothingLeftOpen /\ Server1!ServerOrFirstError
    /\ focus = "nonce" => Server1!NoFileLeft
    /\ focus = "nonce unix" => Server2!NoFileLeft
    /\ focus = "server" => Server1!DisconnectedBeforeFinalized /\ Server1!DataFreedOnce
    /\ focus = "clients" => Server2!NoClientLost
    /\ focus = "users" => Identity1!EntriesAreOwned
    /\ focus = "groups" => Identity2!EntriesAreOwned

\* Every attempt of a client uses up one of the mechanisms the server has listed for it, so that it
\* runs out of them, against libdbus after trying each once; and a failed conversation stays failed
\* (dbus-auth.c).  A transport that has stopped reading reads again as messages are freed, whatever
\* fails meanwhile, until its maximum is raised (dbus-transport.c).  A handler is called only while it
\* is registered (dbus-object-tree.c); merging credentials never takes one away.
DecisionsAreFinal ==
    [][/\ focus = "auth server" => FailuresAreFinal
       /\ focus = "auth client" => Auth2!MechanismsInOrder
       /\ focus = "auth pair" => Auth3!MechanismsInOrder
       /\ focus = "watches" => Transport2!ReadingResumes
       /\ focus = "tree deep" => Tree2!CalledAreLive
       /\ focus = "credentials" => Identity1!MergeNeverDeletes]_suiteVars
=============================================================================
