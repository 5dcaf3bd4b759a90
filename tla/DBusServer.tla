-------------------- MODULE DBusServer --------------------
(***************************************************************************)
(* Servers of libdbus: how one comes to listen, the nonce of a nonce-tcp   *)
(* server, and the life of a server several threads use.  The parts share no*)
(* state; each has an Init and a Next of its own.                          *)
(***************************************************************************)
EXTENDS Integers, Sequences, FiniteSets, SequencesExt

-----------------------------------------------------------------------------
(***************************************************************************)
(* dbus_server_listen and the constructors it calls (dbus-server.c,        *)
(* dbus-server-socket.c, dbus-server-unix.c): the entries of an address    *)
(* are tried in turn, and a constructor that fails half way undoes what it *)
(* has done by jumping to one of its labels.  Every call that allocates or *)
(* opens something is a step that may fail.                                *)
(***************************************************************************)

CONSTANTS
    Methods,        \* kinds of address entry, see Steps
    MaxEntries,     \* entries of an address
    MaxFailures     \* calls that fail in one dbus_server_listen

Clear == 0
BadAddr == 0 - 1

VARIABLES
    entries,        \* the address
    e,              \* the entry being tried
    at,             \* the step of its constructor that is next
    held,           \* what the constructor has allocated or opened
    uninit,         \* a string was freed that had never been initialised
    warned,         \* a watch was dropped that had not been invalidated
    handled,        \* handled_once
    first,          \* first_connect_error: Clear, or that of the entry of this number
    error,          \* the caller's DBusError: Clear, BadAddr, or that of the entry of this number
    listen_server,         \* the server is returned
    failures, listen_pc
listenVars == <<entries, e, at, held, uninit, warned, handled, first, error, listen_server, failures, listen_pc>>

ListenInit ==
    /\ entries \in UNION {[1 .. n -> Methods] : n \in 0 .. MaxEntries}
    /\ e = 1 /\ at = 1 /\ held = {} /\ uninit = FALSE /\ warned = FALSE
    /\ handled = FALSE /\ first = Clear /\ error = Clear /\ listen_server = FALSE /\ failures = 0 /\ listen_pc = "try"

-----------------------------------------------------------------------------
(* The constructors: what each step takes, and what is given back when it  *)
(* fails.                                                                  *)

Strings == {"address", "port", "fullpath", "filename"}
ListenWatches == {"watch1", "watch2"}
Fds == {"fd1", "fd2"}
\* what the finished server owns; the socket file is removed when it is disconnected
Owned == {"server", "fdcopy", "watcharray", "base", "noncemem", "noncefile", "pathcopy", "file"} \cup ListenWatches \cup Fds

Take(r, back) == [take |-> r, back |-> back]

\* the labels of _dbus_server_new_for_socket
Failed_0 == {"server"}
Failed_1 == Failed_0 \cup {"fdcopy"}
Failed_2 == Failed_1 \cup {"watcharray"} \cup ListenWatches

\* _dbus_server_init_base gives back what it made; when a watch cannot be added finalize_base does
NewForSocket(fds, outer) ==
    LET watches == IF Cardinality(fds) = 2 THEN <<"watch1", "watch2">> ELSE <<"watch1">>
        w == Len(watches)
    IN  << Take({"server"}, Failed_0 \cup outer), Take({"fdcopy"}, Failed_0 \cup outer),
           Take({"watcharray"}, Failed_1 \cup outer) >>
        \o [i \in 1 .. w |-> Take({watches[i]}, Failed_2 \cup outer)]
        \o << Take({"base"}, Failed_2 \cup outer) >>
        \o [i \in 1 .. w |-> Take({}, {"base"} \cup Failed_2 \cup outer)]

\* the labels of _dbus_server_new_for_tcp_socket
TcpFailed_1 == {"port", "address"}
TcpFailed_2 == TcpFailed_1 \cup {"fdarray"} \cup Fds
TcpFailed_4 == TcpFailed_2 \cup {"noncemem", "noncefile"}

NewForTcpSocket(nonce) ==
    << Take({"address"}, {}), Take({"port"}, {"address"}),
       Take({"fdarray"} \cup Fds, TcpFailed_1), Take({}, TcpFailed_2) >>
    \o (IF nonce THEN << Take({"noncemem"}, TcpFailed_2), Take({"noncefile"}, TcpFailed_2 \cup {"noncemem"}),
                         Take({}, TcpFailed_4) >> ELSE <<>>)
    \o NewForSocket(Fds, IF nonce THEN TcpFailed_4 ELSE TcpFailed_2)

\* _dbus_server_new_for_domain_socket, between what its caller allocated and frees in every case
NewForDomainSocket(abstract, mine) ==
    << Take({"address"}, mine), Take({}, {"address"} \cup mine) >>
    \o (IF abstract THEN <<>> ELSE << Take({"pathcopy"}, {"address"} \cup mine) >>)
    \o << Take({"fd1"} \cup (IF abstract THEN {} ELSE {"file"}), {"pathcopy", "address"} \cup mine) >>
    \o NewForSocket({"fd1"}, {"fd1", "pathcopy", "address"} \cup mine)

\* the label systemd_err frees the address although its initialisation may be what failed
ListenSystemd ==
    << Take({"fdarray"} \cup Fds, {}), Take({"address"}, {"fdarray", "address"} \cup Fds),
       Take({}, {"fdarray", "address"} \cup Fds) >>
    \o NewForSocket(Fds, {"fdarray", "address"} \cup Fds)

Steps(m) ==
    CASE m = "tcp"       -> NewForTcpSocket(FALSE)
      [] m = "nonce-tcp" -> NewForTcpSocket(TRUE)
      [] m = "path"      -> NewForDomainSocket(FALSE, {})
      [] m = "abstract"  -> NewForDomainSocket(TRUE, {})
      [] m = "tmpdir"    -> << Take({"fullpath"}, {}), Take({"filename"}, {"fullpath"}),
                               Take({}, {"fullpath", "filename"}) >>
                            \o NewForDomainSocket(TRUE, {"fullpath", "filename"})
      [] m = "runtime"   -> << Take({}, {}), Take({"fullpath"}, {}), Take({}, {"fullpath"}) >>
                            \o NewForDomainSocket(FALSE, {"fullpath"})
      [] m = "systemd"   -> ListenSystemd
      [] OTHER           -> <<>>

\* what is kept of the scaffolding when the server is there: ListenSystemd does not free its address
Scaffold(m) == {"port", "fdarray", "fullpath", "filename"} \cup (IF m = "systemd" THEN {} ELSE {"address"})

-----------------------------------------------------------------------------
(* dbus_server_listen.                                                     *)

Remembered == IF first = Clear THEN e ELSE first

StepOK ==
    /\ listen_pc = "try" /\ e <= Len(entries) /\ at <= Len(Steps(entries[e]))
    /\ held' = held \cup Steps(entries[e])[at].take
    /\ at' = at + 1
    /\ UNCHANGED <<entries, e, uninit, warned, handled, first, error, listen_server, failures, listen_pc>>

\* DBUS_SERVER_LISTEN_DID_NOT_CONNECT: the next entry is tried
StepFails ==
    /\ listen_pc = "try" /\ e <= Len(entries) /\ at <= Len(Steps(entries[e])) /\ failures < MaxFailures
    /\ LET back == Steps(entries[e])[at].back IN
       /\ held' = held \ back
       /\ uninit' = (uninit \/ (back \cap Strings) \ held # {})
       /\ warned' = (warned \/ back \cap ListenWatches \cap held # {})
    /\ failures' = failures + 1
    /\ first' = Remembered
    /\ handled' = TRUE /\ e' = e + 1 /\ at' = 1
    /\ UNCHANGED <<entries, error, listen_server, listen_pc>>

\* DBUS_SERVER_LISTEN_OK
Built ==
    /\ listen_pc = "try" /\ e <= Len(entries)
    /\ Steps(entries[e]) # <<>> /\ at > Len(Steps(entries[e]))
    /\ listen_server' = TRUE /\ handled' = TRUE /\ listen_pc' = "out"
    /\ held' = held \ Scaffold(entries[e])
    /\ UNCHANGED <<entries, e, at, uninit, warned, first, error, failures>>

\* DBUS_SERVER_LISTEN_BAD_ADDRESS: no key of a unix address, or two; runtime is not "yes"
BadAddress ==
    /\ listen_pc = "try" /\ e <= Len(entries) /\ entries[e] = "badunix"
    /\ error' = BadAddr /\ handled' = TRUE /\ listen_pc' = "out"
    /\ UNCHANGED <<entries, e, at, held, uninit, warned, first, listen_server, failures>>

\* DBUS_SERVER_LISTEN_NOT_HANDLED by every listen function
NotHandled ==
    /\ listen_pc = "try" /\ e <= Len(entries) /\ entries[e] = "unknown"
    /\ e' = e + 1
    /\ UNCHANGED <<entries, at, held, uninit, warned, handled, first, error, listen_server, failures, listen_pc>>

NoMoreEntries ==
    /\ listen_pc = "try" /\ e > Len(entries)
    /\ listen_pc' = "out"
    /\ UNCHANGED <<entries, e, at, held, uninit, warned, handled, first, error, listen_server, failures>>

\* the label out
Out ==
    /\ listen_pc = "out"
    /\ listen_pc' = "returned"
    /\ LET err == IF handled THEN error ELSE BadAddr IN
       IF ~listen_server /\ err = Clear
       THEN error' = first /\ first' = Clear
       ELSE error' = err /\ UNCHANGED first
    /\ UNCHANGED <<entries, e, at, held, uninit, warned, handled, listen_server, failures>>

ListenNext == StepOK \/ StepFails \/ Built \/ BadAddress \/ NotHandled \/ NoMoreEntries \/ Out
ListenSpec == ListenInit /\ [][ListenNext]_listenVars

-----------------------------------------------------------------------------

Taken(m) == UNION {Steps(m)[i].take : i \in DOMAIN Steps(m)}

(* When no server is returned no socket, watch, nonce file or memory is    *)
(* left behind, whatever call failed; when one is, it has all its parts    *)
(* and nothing else is left but an address string                          *)
(* (dbus-server-socket.c:356, 503, dbus-server-unix.c:249, 365).  The file *)
(* of a unix socket that was already bound stays.                          *)
NothingLeftOpen ==
    listen_pc = "returned" =>
        IF listen_server THEN Taken(entries[e]) \cap Owned \subseteq held /\ held \subseteq Owned \cup {"address"}
        ELSE held \subseteq {"file"}

(* "Returns NULL and sets error if listening fails for any reason.         *)
(* Otherwise returns a new DBusServer" (dbus-server.c:541): the error is   *)
(* that of the first entry that could not be used, unless an entry is bad. *)
ServerOrFirstError ==
    listen_pc = "returned" =>
        /\ listen_server <=> error = Clear
        /\ error > 0 => /\ Steps(entries[error]) # <<>>
                        /\ \A i \in 1 .. error - 1 : Steps(entries[i]) = <<>>

-----------------------------------------------------------------------------
(***************************************************************************)
(* dbus/dbus-nonce.c: the nonce of a nonce-tcp server is written to a file *)
(* when the server starts, a client sends it over the socket, the server   *)
(* compares what arrives, in as many pieces as the network makes of it,    *)
(* and the file is deleted when the server is.                             *)
(***************************************************************************)

CONSTANTS
    NonceLength,        \* 16 in the code
    Bytes,              \* values of a byte
    UseSubdir           \* Unix: the file has a directory of its own; Windows: it has not

VARIABLES
    dir, file,          \* the directory exists; the contents of the file, <<>> when there is none
    nonce_server,             \* "down", "failed", "listening", "checking", "deleted"
    nonce_nonce,              \* what the server read from the file before it accepted
    sent,               \* what the client has sent
    net,                \* of this, what the server has not read
    pieces,             \* reads the server has needed
    p, buffer,          \* the strings of do_check_nonce
    verdict             \* "none", "accepted", "dropped"
nonceVars == <<dir, file, nonce_server, nonce_nonce, sent, net, pieces, p, buffer, verdict>>

Nonces == [1 .. NonceLength -> Bytes]

NonceInit ==
    /\ dir = FALSE /\ file = <<>> /\ nonce_server = "down" /\ nonce_nonce = <<>> /\ sent = <<>> /\ net = <<>>
    /\ pieces = 0 /\ p = <<>> /\ buffer = <<>> /\ verdict = "none"

\* do_noncefile_create: a random name, the directory, then generate_and_write_nonce
Create(n) ==
    /\ nonce_server = "down"
    /\ dir' = UseSubdir /\ file' = n /\ nonce_server' = "listening"
    /\ UNCHANGED <<nonce_nonce, sent, net, pieces, p, buffer, verdict>>

\* the label on_error, reached after the directory was made or not: it is removed, being empty
CreateFails ==
    /\ nonce_server = "down"
    /\ nonce_server' = "failed" /\ dir' = FALSE
    /\ UNCHANGED <<file, nonce_nonce, sent, net, pieces, p, buffer, verdict>>

\* _dbus_send_nonce writes once and takes anything but -1 for success
SendNonce(k) ==
    /\ nonce_server \in {"listening", "checking"} /\ sent = <<>> /\ file # <<>>
    /\ sent' = SubSeq(file, 1, k) /\ net' = sent'
    /\ UNCHANGED <<dir, file, nonce_server, nonce_nonce, pieces, p, buffer, verdict>>

\* a client that has not read the file
SendOther(n) ==
    /\ nonce_server \in {"listening", "checking"} /\ sent = <<>> /\ n # file
    /\ sent' = n /\ net' = n
    /\ UNCHANGED <<dir, file, nonce_server, nonce_nonce, pieces, p, buffer, verdict>>

\* _dbus_accept_with_noncefile: _dbus_read_nonce comes before the accept
Accept ==
    /\ nonce_server = "listening" /\ verdict = "none" /\ file # <<>>
    /\ nonce_nonce' = file /\ nonce_server' = "checking" /\ p' = <<>> /\ buffer' = <<>>
    /\ UNCHANGED <<dir, file, sent, net, pieces, verdict>>

\* do_check_nonce: _dbus_read_socket appends what it reads to p
\* and as many bytes are appended to buffer from the start of p
ReadPiece(n) ==
    /\ nonce_server = "checking" /\ Len(buffer) < NonceLength
    /\ n \in 1 .. Len(net)
    /\ net' = SubSeq(net, n + 1, Len(net))
    /\ p' = p \o SubSeq(net, 1, n)
    /\ buffer' = buffer \o SubSeq(p', 1, n)
    /\ pieces' = pieces + 1
    /\ UNCHANGED <<dir, file, nonce_server, nonce_nonce, sent, verdict>>

\* the client has closed its end, or reading fails
ReadEnds ==
    /\ nonce_server = "checking" /\ Len(buffer) < NonceLength /\ sent # <<>> /\ net = <<>>
    /\ verdict' = "dropped" /\ nonce_server' = "listening"
    /\ UNCHANGED <<dir, file, nonce_nonce, sent, net, pieces, p, buffer>>

Equal == buffer = nonce_nonce

Compare ==
    /\ nonce_server = "checking" /\ Len(buffer) = NonceLength
    /\ verdict' = (IF Equal THEN "accepted" ELSE "dropped") /\ nonce_server' = "listening"
    /\ UNCHANGED <<dir, file, nonce_nonce, sent, net, pieces, p, buffer>>

\* _dbus_delete_directory fails when the directory is not empty; on Windows the file is deleted
Deleted == IF UseSubdir THEN dir' = (file # <<>>) /\ file' = file ELSE dir' = FALSE /\ file' = <<>>

\* _dbus_noncefile_delete, when the server is finalized
Delete ==
    /\ nonce_server = "listening"
    /\ nonce_server' = "deleted" /\ Deleted
    /\ UNCHANGED <<nonce_nonce, sent, net, pieces, p, buffer, verdict>>

NonceNext ==
    \/ \E n \in Nonces : Create(n) \/ SendOther(n)
    \/ CreateFails \/ Accept \/ ReadEnds \/ Compare \/ Delete
    \/ \E k \in 1 .. NonceLength : SendNonce(k) \/ ReadPiece(k)
NonceSpec == NonceInit /\ [][NonceNext]_nonceVars

-----------------------------------------------------------------------------
(* A client whose bytes arrive in one read is accepted if and only if they *)
(* are the nonce of the file (dbus-nonce.c:92).                            *)
OneReadDecides ==
    pieces = 1 /\ verdict # "none" => (verdict = "accepted" <=> sent = nonce_nonce)

(* Nothing of a nonce whose creation failed is on the disk afterwards, and *)
(* on Windows nothing of one that was deleted (dbus-nonce.c:368).  On Unix *)
(* the deletion leaves both the file and its directory (line 408), though  *)
(* it "deletes the noncefile and frees the DBusNonceFile object" (395).    *)
NoFileLeft ==
    nonce_server = "failed" \/ (nonce_server = "deleted" /\ ~UseSubdir) => file = <<>> /\ ~dir

-----------------------------------------------------------------------------
(***************************************************************************)
(* The life of a listening DBusServer (dbus-server.c and                   *)
(* dbus-server-socket.c) used by several threads: clients are accepted,    *)
(* the server is disconnected, its functions are replaced and the          *)
(* references to it are given up, under a lock that is released around     *)
(* every call into the application.                                        *)
(***************************************************************************)

CONSTANTS
    Threads,            \* each has one reference to the server
    NoThread,
    NumWatches,         \* one per listening socket
    Clients,            \* connections that arrive
    Flags,              \* what the main loop reports: "readable", "error"
    MaxSets,            \* calls of dbus_server_set_new_connection_function
    NonblockingFails,   \* _dbus_set_socket_nonblocking may fail
    ReplacesWatches     \* dbus_server_set_watch_functions is called

LifeWatches == 1 .. NumWatches
Idle == "idle"

VARIABLES
    lock,               \* the thread that has the server's lock
    ref,                \* refcount
    listAway,           \* server->watches is NULL because a thread works on the list
    inList,             \* the watches in that list
    listening,          \* the sockets that are open
    disconnected, finalized,
    handler, freed,     \* the number of the new-connection function set; the data freed, in order
    client,             \* of each client: "outside", "accepting", "served", "closed", "lost"
    life_pc, arg             \* of each thread: where it is, and the watch, client or handler it is about
lifeVars == <<lock, ref, listAway, inList, listening, disconnected, finalized, handler, freed, client, life_pc, arg>>

LifeInit ==
    /\ lock = NoThread /\ ref = Cardinality(Threads) /\ listAway = FALSE /\ inList = LifeWatches
    /\ listening = LifeWatches /\ disconnected = FALSE /\ finalized = FALSE /\ handler = 0 /\ freed = <<>>
    /\ client = [c \in Clients |-> "outside"]
    /\ life_pc = [t \in Threads |-> Idle] /\ arg = [t \in Threads |-> 0]

Goto(t, l) == life_pc' = [life_pc EXCEPT ![t] = l]
About(t, x) == arg' = [arg EXCEPT ![t] = x]
Unlocked == lock = NoThread

\* no free function comes with the NULL the server starts with
Freed(data) == IF data = 0 THEN freed ELSE Append(freed, data)

\* dbus_server_unref: the last reference runs socket_finalize, whose finalize_base frees the data of the
\* new-connection function
Unref ==
    /\ ref' = ref - 1
    /\ finalized' = (ref = 1)
    /\ (IF ref = 1 THEN freed' = Freed(handler) /\ handler' = 0 ELSE UNCHANGED <<freed, handler>>)

-----------------------------------------------------------------------------
(* socket_handle_watch.                                                    *)

\* the lock is taken, the client accepted; without the flag for readable nothing is done but logging
HandleWatch(t, flag, w, c) ==
    /\ life_pc[t] = Idle /\ Unlocked /\ w \in inList \cap listening
    /\ IF flag = "readable" THEN
          /\ client[c] = "outside"
          /\ client' = [client EXCEPT ![c] = "accepting"] /\ Goto(t, "accepted") /\ About(t, c)
       ELSE UNCHANGED <<client, life_pc, arg>>
    /\ lock' = t
    /\ UNCHANGED <<ref, listAway, inList, listening, disconnected, finalized, handler, freed>>

\* handle_new_client_fd_and_unlock: the socket cannot be made nonblocking, and nobody closes it
NonblockingFailed(t) ==
    /\ life_pc[t] = "accepted" /\ NonblockingFails
    /\ client' = [client EXCEPT ![arg[t]] = "lost"]
    /\ lock' = NoThread /\ Goto(t, Idle)
    /\ UNCHANGED <<ref, listAway, inList, listening, disconnected, finalized, handler, freed, arg>>

Closed(c) == [client EXCEPT ![c] = "closed"]

\* no memory for the transport, its mechanisms or the connection: the socket is closed
NewClientFails(t) ==
    /\ life_pc[t] = "accepted"
    /\ client' = Closed(arg[t])
    /\ lock' = NoThread /\ Goto(t, Idle)
    /\ UNCHANGED <<ref, listAway, inList, listening, disconnected, finalized, handler, freed, arg>>

\* the function and its data are read, the server referenced and the lock released
NewClient(t) ==
    /\ life_pc[t] = "accepted"
    /\ ref' = ref + 1 /\ lock' = NoThread /\ Goto(t, IF handler > 0 THEN "calling" ELSE "no function")
    /\ UNCHANGED <<listAway, inList, listening, disconnected, finalized, handler, freed, client, arg>>

\* the application keeps a reference to the connection, or it is closed
\* (_dbus_connection_close_if_only_one_ref)
Called(t, keeps) ==
    /\ life_pc[t] \in {"calling", "no function"} /\ (keeps => life_pc[t] = "calling")
    /\ client' = (IF keeps THEN [client EXCEPT ![arg[t]] = "served"] ELSE Closed(arg[t]))
    /\ Unref /\ Goto(t, Idle)
    /\ UNCHANGED <<lock, listAway, inList, listening, disconnected, arg>>

-----------------------------------------------------------------------------
(* dbus_server_disconnect and socket_disconnect.                           *)

Disconnect(t) ==
    /\ life_pc[t] = Idle /\ Unlocked
    /\ ~disconnected                    \* otherwise the reference is given back at once
    /\ ref' = ref + 1 /\ lock' = t /\ disconnected' = TRUE
    /\ Goto(t, "remove") /\ About(t, 1)
    /\ UNCHANGED <<listAway, inList, listening, finalized, handler, freed, client>>

\* protected_change_watch takes the list away and releases the lock; when another thread has
\* the list it returns FALSE, which _dbus_server_remove_watch does not look at
RemoveWatch(t) ==
    /\ life_pc[t] = "remove"
    /\ IF listAway THEN Goto(t, "close") /\ UNCHANGED <<lock, ref, listAway>>
       ELSE listAway' = TRUE /\ ref' = ref + 1 /\ lock' = NoThread /\ Goto(t, "removing")
    /\ UNCHANGED <<inList, listening, disconnected, finalized, handler, freed, client, arg>>

Removing(t) ==
    /\ life_pc[t] = "removing" /\ Unlocked
    /\ inList' = inList \ {arg[t]} /\ listAway' = FALSE /\ ref' = ref - 1
    /\ lock' = t /\ Goto(t, "close")
    /\ UNCHANGED <<listening, disconnected, finalized, handler, freed, client, arg>>

ClosesSocket(t) == listening' = listening \ {arg[t]}

\* the watch is invalidated, its socket closed; after the last one the socket file is deleted
CloseSocket(t) ==
    /\ life_pc[t] = "close"
    /\ ClosesSocket(t)
    /\ (IF arg[t] < NumWatches THEN About(t, arg[t] + 1) /\ Goto(t, "remove") /\ UNCHANGED lock
        ELSE lock' = NoThread /\ Goto(t, "leave") /\ UNCHANGED arg)
    /\ UNCHANGED <<ref, listAway, inList, disconnected, finalized, handler, freed, client>>

Leave(t) ==
    /\ life_pc[t] = "leave"
    /\ Unref /\ Goto(t, Idle)
    /\ UNCHANGED <<lock, listAway, inList, listening, disconnected, client, arg>>

-----------------------------------------------------------------------------
(* dbus_server_set_watch_functions, dbus_server_set_new_connection_function *)
(* and the end of a thread's use of the server.                            *)

\* the list is taken away and the lock released while the watches go to the new functions
SetWatchFunctions(t) ==
    /\ ReplacesWatches /\ life_pc[t] = Idle /\ Unlocked
    /\ ~listAway                        \* otherwise "Re-entrant call", and nothing happens
    /\ listAway' = TRUE /\ Goto(t, "setting")
    /\ UNCHANGED <<lock, ref, inList, listening, disconnected, finalized, handler, freed, client, arg>>

FunctionsSet(t) ==
    /\ life_pc[t] = "setting" /\ Unlocked
    /\ listAway' = FALSE /\ Goto(t, Idle)
    /\ UNCHANGED <<lock, ref, inList, listening, disconnected, finalized, handler, freed, client, arg>>

OldData(t) == arg[t]

\* the data of the function are exchanged under the lock and the old ones freed after it
SetNewConnectionFunction(t) ==
    /\ life_pc[t] = Idle /\ Unlocked /\ handler < MaxSets
    /\ handler' = handler + 1 /\ About(t, handler) /\ Goto(t, "free old")
    /\ UNCHANGED <<lock, ref, listAway, inList, listening, disconnected, finalized, freed, client>>

FreeOldData(t) ==
    /\ life_pc[t] = "free old"
    /\ freed' = Freed(OldData(t)) /\ Goto(t, Idle)
    /\ UNCHANGED <<lock, ref, listAway, inList, listening, disconnected, finalized, handler, client, arg>>

\* the application gives up its reference; "the server must be disconnected before the
\* refcount reaches zero"
GiveUp(t) ==
    /\ life_pc[t] = Idle /\ disconnected
    /\ Unref /\ Goto(t, "gone")
    /\ UNCHANGED <<lock, listAway, inList, listening, disconnected, client, arg>>

LifeNext ==
    \E t \in Threads :
        \/ \E flag \in Flags, w \in LifeWatches, c \in Clients : HandleWatch(t, flag, w, c)
        \/ NonblockingFailed(t) \/ NewClientFails(t) \/ NewClient(t)
        \/ \E keeps \in BOOLEAN : Called(t, keeps)
        \/ Disconnect(t) \/ RemoveWatch(t) \/ Removing(t) \/ CloseSocket(t) \/ Leave(t)
        \/ SetWatchFunctions(t) \/ FunctionsSet(t) \/ SetNewConnectionFunction(t) \/ FreeOldData(t)
        \/ GiveUp(t)
LifeSpec == LifeInit /\ [][LifeNext]_lifeVars

-----------------------------------------------------------------------------
(* "Releases the server's address and stops listening for new clients"     *)
(* (dbus-server.c:769): when no thread is inside disconnect any more, all  *)
(* sockets are closed, and the server is never finalized before that nor   *)
(* while a thread is inside one of its functions.                          *)
DisconnectedBeforeFinalized ==
    /\ disconnected /\ (\A t \in Threads : life_pc[t] \notin {"remove", "removing", "close"}) => listening = {}
    /\ finalized => /\ disconnected /\ listening = {}
                    /\ \A t \in Threads : life_pc[t] = "gone"

(* The data of every function set are freed once, after a later function   *)
(* was set or with the server, and only those (dbus-server.c:896, 214).    *)
DataFreedOnce ==
    /\ IsInjective(freed)
    /\ handler > 0 => handler \notin Range(freed)
    /\ finalized => \E n \in 0 .. MaxSets : Range(freed) = 1 .. n

(* "If the new connection function increments the connection's reference   *)
(* count, the connection will stay alive. Otherwise, the connection will   *)
(* be unreferenced and closed" (dbus-server.c:879): no accepted client is  *)
(* left open with nobody to serve it, as long as its socket can be made    *)
(* nonblocking: where that fails nobody closes it                          *)
(* (dbus-server-socket.c:99).  Once the calls are over every client is     *)
(* served or closed.                                                       *)
NoClientLost ==
    /\ ~NonblockingFails => \A c \in Clients : client[c] # "lost"
    /\ (\A t \in Threads : life_pc[t] = Idle) =>
          \A c \in Clients : client[c] \in {"outside", "served", "closed", "lost"}
=============================================================================
