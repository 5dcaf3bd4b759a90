--------------------------- MODULE DBusTransport ---------------------------
(***************************************************************************)
(* Two transports of libdbus (dbus/dbus-transport.c and                    *)
(* dbus-transport-socket.c, with the counters of dbus-resources.c) at the  *)
(* ends of a socket: a client that authenticates and sends messages, and   *)
(* the server that reads them and may send answers.  The socket holds a    *)
(* few units: the byte of credentials, lines of the authentication, and    *)
(* the halves of a message, header and body.  Messages with an odd number  *)
(* carry a file descriptor.                                                *)
(*                                                                         *)
(* Both sides are driven by their watches.  The conversation has four      *)
(* steps, "cred", "AUTH", "OK" and "BEGIN"; what each side is to do at a   *)
(* step is the state of its DBusAuth.                                      *)
(***************************************************************************)
EXTENDS Naturals, Sequences, FiniteSets, SequencesExt

CONSTANTS
    NMessages,      \* messages the client sends, 1 .. NMessages
    SocketSize,     \* units the socket holds
    MaxRead,        \* max_bytes_read_per_iteration, in units
    Maxes,          \* values of max_live_messages_size, in messages
    Allowed,        \* what the server's user function may say of the client
    InDispatch,     \* TRUE: messages are freed while they are dispatched
    MayClose,       \* TRUE: the client may close the connection
    NReplies,       \* messages the server may send
    MaxFailures     \* bound on failed allocations

VARIABLES
    step,           \* [side]: steps of the authentication that are over
    open,           \* [side]: transport->disconnected is FALSE
    readWatch, writeWatch,      \* [side]: enabled
    toServer, toClient,         \* the socket's two directions
    sent,           \* number of messages that the client has queued
    outgoing,       \* those of them that are not sent
    written,        \* message_bytes_written of the first of them
    authBuffer,     \* units that the server's DBusAuth has read
    loader,         \* units that the server's message loader has read
    loaderFds,      \* descriptors it has read
    received,       \* messages queued on the server's connection, ever
    gotFds,         \* those of them that got their descriptor
    live,           \* received messages that are not finalized
    undispatched,   \* received messages that are not dispatched
    max,            \* max_live_messages_size of the server
    needMemory,     \* the server's dispatch status is NEED_MEMORY
    replies,        \* messages queued by the server
    failures,
    allowed         \* what the user function says

changing == <<step, open, readWatch, writeWatch, toServer, toClient, sent, outgoing,
              written, authBuffer, loader, loaderFds, received, gotFds, live, undispatched,
              max, needMemory, replies, failures>>
vars == <<changing, allowed>>

Sides == {"client", "server"}
Line(k) == [m |-> 0, part |-> k, fd |-> FALSE]
Unit(m, part, fd) == [m |-> m, part |-> part, fd |-> fd]

HasFd(m) == m % 2 = 1

\* who writes at a step
Writer(k) == IF k = 3 THEN "server" ELSE "client"

\* _dbus_auth_do_work: AUTHENTICATED, HAVE_BYTES_TO_SEND, WAITING_FOR_INPUT
AuthDone(s) == step[s] = 4
AuthWrites(s) == step[s] < 4 /\ Writer(step[s] + 1) = s
AuthReads(s) == step[s] < 4 /\ Writer(step[s] + 1) # s

\* check_write_watch: a side that has come to step k has messages to send, or its line
WriteNeeded(s, k, has) == IF k = 4 THEN has ELSE Writer(k + 1) = s

\* check_read_watch: n messages are live
ReadNeeded(s, k, n) == IF k = 4 THEN s = "client" \/ n < max ELSE Writer(k + 1) # s

SetRead(s, k, n) == readWatch' = [readWatch EXCEPT ![s] = ReadNeeded(s, k, n)]
SetWrite(s, k, has) == writeWatch' = [writeWatch EXCEPT ![s] = WriteNeeded(s, k, has)]

Init ==
    /\ step = [s \in Sides |-> 0]
    /\ open = [s \in Sides |-> TRUE]
    /\ readWatch = [s \in Sides |-> s = "server"]
    /\ writeWatch = [s \in Sides |-> s = "client"]
    /\ toServer = <<>> /\ toClient = <<>>
    /\ sent = 0 /\ outgoing = <<>> /\ written = 0
    /\ authBuffer = <<>> /\ loader = <<>> /\ loaderFds = 0
    /\ received = <<>> /\ gotFds = {}
    /\ live = {} /\ undispatched = <<>>
    /\ max \in Maxes
    /\ needMemory = FALSE
    /\ replies = 0
    /\ failures = 0
    /\ allowed \in Allowed

----------------------------------------------------------------------------
(* The server's loader.                                                    *)

\* _dbus_message_loader_queue_messages: the first message is complete
LoadOne(st) ==
    LET m == st.loader[1].m
    IN [st EXCEPT !.loader = SubSeq(@, 3, Len(@)),
                  !.fds = IF HasFd(m) THEN @ - 1 ELSE @,
                  !.gotFds = IF HasFd(m) THEN @ \cup {m} ELSE @,
                  !.received = Append(@, m), !.live = @ \cup {m}, !.todo = Append(@, m)]

\* _dbus_transport_get_dispatch_status and _dbus_transport_queue_messages: messages are
\* queued until the live ones reach the maximum
Queue(st) ==
    LET Pass(s, i) == IF Len(s.loader) < 2 \/ Cardinality(s.live) >= max THEN s ELSE LoadOne(s)
    IN FoldLeft(Pass, st, [i \in 1 .. NMessages |-> i])

Loading(l, f) == [loader |-> l, fds |-> f, received |-> received, gotFds |-> gotFds,
                  live |-> live, todo |-> undispatched]

Loaded(st) ==
    /\ loader' = st.loader /\ loaderFds' = st.fds
    /\ received' = st.received /\ gotFds' = st.gotFds
    /\ live' = st.live /\ undispatched' = st.todo

loadVars == <<loader, loaderFds, received, gotFds, live, undispatched>>

FdsIn(us) == Len(SelectSeq(us, LAMBDA u : u.fd))

\* Messages are queued, or there is no memory for that and it is tried again later.
QueueOrFail(st) ==
    \/ /\ Loaded(Queue(st))
       /\ needMemory' = FALSE
       /\ UNCHANGED failures
    \/ /\ failures < MaxFailures
       /\ failures' = failures + 1
       /\ Loaded(st)
       /\ needMemory' = TRUE

\* dispatch after NEED_MEMORY
Retry ==
    /\ needMemory
    /\ QueueOrFail(Loading(loader, loaderFds))
    /\ IF open["server"] THEN SetRead("server", 4, Cardinality(live')) ELSE UNCHANGED readWatch
    /\ UNCHANGED <<step, open, writeWatch, toServer, toClient, sent, outgoing, written,
                   authBuffer, max, replies>>

----------------------------------------------------------------------------
(* The client.                                                             *)

\* dbus_connection_send
Send ==
    /\ open["client"] /\ sent < NMessages
    /\ sent' = sent + 1
    /\ outgoing' = Append(outgoing, sent + 1)
    /\ SetWrite("client", step["client"], TRUE)
    /\ UNCHANGED <<step, open, readWatch, toServer, toClient, written, authBuffer,
                   loadVars, max, needMemory, replies, failures>>

\* Descriptors are sent with the first byte of a message.
UnitsOf(m) == <<Unit(m, 1, HasFd(m)), Unit(m, 2, FALSE)>>

\* do_writing: as many units as the socket takes, the first message from where it was left
Stream(q, w) == SubSeq(FlattenSeq([i \in DOMAIN q |-> UnitsOf(q[i])]), w + 1, 2 * Len(q))

ClientWrites ==
    /\ open["client"] /\ writeWatch["client"] /\ open["server"]
    /\ Len(toServer) < SocketSize
    /\ IF step["client"] < 4
       THEN /\ AuthWrites("client")
            /\ toServer' = Append(toServer, Line(step["client"] + 1))
            /\ step' = [step EXCEPT !["client"] = @ + 1]
            /\ UNCHANGED <<outgoing, written>>
       ELSE /\ outgoing # <<>>
            /\ \E n \in 1 .. (SocketSize - Len(toServer)) :
                  LET all == Stream(outgoing, written)
                      total == written + n
                  IN /\ n <= Len(all)
                     /\ toServer' = toServer \o SubSeq(all, 1, n)
                     /\ outgoing' = SubSeq(outgoing, 1 + total \div 2, Len(outgoing))
                     /\ written' = total % 2
            /\ UNCHANGED <<step>>
    /\ SetWrite("client", step'["client"], outgoing' # <<>>)
    /\ SetRead("client", step'["client"], 0)
    /\ UNCHANGED <<open, sent, toClient, authBuffer, loadVars, max, needMemory, replies, failures>>

\* the client reads the line of the server, or a message that is of no interest here
ClientReads ==
    /\ open["client"] /\ readWatch["client"] /\ toClient # <<>>
    /\ toClient' = Tail(toClient)
    /\ IF step["client"] < 4
       THEN /\ AuthReads("client")
            /\ step' = [step EXCEPT !["client"] = @ + 1]
            /\ SetWrite("client", step'["client"], FALSE)
            /\ SetRead("client", step'["client"], 0)
       ELSE UNCHANGED <<step, writeWatch, readWatch>>
    /\ UNCHANGED <<open, toServer, sent, outgoing, written, authBuffer, loadVars, max,
                   needMemory, replies, failures>>

\* the client closes its end when it has written everything, or finds the server's end closed
ClientCloses ==
    /\ open["client"]
    /\ (MayClose /\ outgoing = <<>> /\ step["client"] = 4) \/ ~open["server"]
    /\ open' = [open EXCEPT !["client"] = FALSE]
    /\ readWatch' = [readWatch EXCEPT !["client"] = FALSE]
    /\ writeWatch' = [writeWatch EXCEPT !["client"] = FALSE]
    /\ UNCHANGED <<step, toServer, toClient, sent, outgoing, written, authBuffer,
                   loadVars, max, needMemory, replies, failures>>

----------------------------------------------------------------------------
(* The server.                                                             *)

\* _dbus_auth_do_work: complete lines are taken from the front of the buffer
Lead(buf, k) == IF k < 4 /\ buf # <<>> /\ Writer(k + 1) = "client" /\ Head(buf) = Line(k + 1)
                THEN 1 ELSE 0

Work(buf, k) ==
    LET Pass(p, i) == IF Lead(p.buf, p.k) = 1 THEN [buf |-> Tail(p.buf), k |-> p.k + 1] ELSE p
    IN FoldLeft(Pass, [buf |-> buf, k |-> k], <<1, 2, 3, 4>>)

\* _dbus_transport_disconnect, socket_disconnect: the watches go with the socket
ServerDisconnects ==
    /\ open' = [open EXCEPT !["server"] = FALSE]
    /\ readWatch' = [readWatch EXCEPT !["server"] = FALSE]
    /\ writeWatch' = [writeWatch EXCEPT !["server"] = FALSE]

\* recover_unused_bytes
Recovered(buf) == Loading(loader \o buf, loaderFds + FdsIn(buf))

\* socket_handle_watch: do_authentication; when it ends, the bytes that belong to messages are
\* recovered and nothing else is read
ServerAuthReads ==
    /\ open["server"] /\ readWatch["server"] /\ step["server"] < 4 /\ toServer # <<>>
    /\ \E n \in 1 .. Len(toServer) :
          /\ n <= MaxRead
          /\ step["server"] = 0 => n = 1      \* the credentials are read by themselves
          /\ toServer' = SubSeq(toServer, n + 1, Len(toServer))
          /\ LET w == Work(authBuffer \o SubSeq(toServer, 1, n), step["server"])
             IN /\ step' = [step EXCEPT !["server"] = w.k]
                /\ IF w.k = 4 /\ allowed
                   THEN /\ authBuffer' = <<>>
                        /\ QueueOrFail(Recovered(w.buf))
                        /\ SetRead("server", 4, Cardinality(live')) /\ SetWrite("server", 4, FALSE)
                        /\ UNCHANGED open
                   ELSE /\ authBuffer' = w.buf
                        /\ IF w.k = 4 THEN ServerDisconnects
                           ELSE /\ SetRead("server", w.k, 0) /\ SetWrite("server", w.k, FALSE)
                                /\ UNCHANGED open
                        /\ UNCHANGED <<loadVars, needMemory, failures>>
    /\ UNCHANGED <<toClient, sent, outgoing, written, max, replies>>

\* the line of the server, or an answer; to a closed end nothing is written, and the transport
\* is not disconnected as long as there may be data to read (EPIPE)
ServerWrites ==
    /\ open["server"] /\ writeWatch["server"] /\ open["client"]
    /\ Len(toClient) < SocketSize
    /\ IF step["server"] < 4
       THEN /\ AuthWrites("server")
            /\ toClient' = Append(toClient, Line(step["server"] + 1))
            /\ step' = [step EXCEPT !["server"] = @ + 1]
            /\ SetRead("server", step'["server"], 0) /\ SetWrite("server", step'["server"], FALSE)
            /\ UNCHANGED replies
       ELSE /\ replies > 0
            /\ toClient' = Append(toClient, Unit(NMessages + replies, 1, FALSE))
            /\ replies' = replies - 1
            /\ SetWrite("server", 4, replies' > 0)
            /\ UNCHANGED <<step, readWatch>>
    /\ UNCHANGED <<open, toServer, sent, outgoing, written, authBuffer, loadVars, max,
                   needMemory, failures>>

\* do_reading: check_read_watch before every read, messages queued after it
ServerReads ==
    /\ open["server"] /\ readWatch["server"] /\ step["server"] = 4 /\ toServer # <<>>
    /\ \E n \in 1 .. Len(toServer) :
          /\ n <= MaxRead
          /\ LET us == SubSeq(toServer, 1, n)
             IN QueueOrFail(Loading(loader \o us, loaderFds + FdsIn(us)))
          /\ toServer' = SubSeq(toServer, n + 1, Len(toServer))
    /\ SetRead("server", 4, Cardinality(live'))
    /\ UNCHANGED <<step, open, writeWatch, toClient, sent, outgoing, written,
                   authBuffer, max, replies>>

\* unix_error_with_read_to_come: a hangup is left to the read watch if that is enabled; there
\* it ends the connection when nothing is readable
HangupEnds ==
    \/ readWatch["server"] /\ toServer = <<>>
    \/ ~readWatch["server"] /\ writeWatch["server"]

Hangup ==
    /\ open["server"] /\ ~open["client"]
    /\ HangupEnds
    /\ ServerDisconnects
    /\ UNCHANGED <<step, toServer, toClient, sent, outgoing, written, authBuffer,
                   loadVars, max, needMemory, replies, failures>>

\* the server's application wants to send something
Reply ==
    /\ open["server"] /\ step["server"] = 4
    /\ replies + Len(SelectSeq(toClient, LAMBDA u : u.m > NMessages)) < NReplies
    /\ replies' = replies + 1
    /\ SetWrite("server", 4, TRUE)
    /\ UNCHANGED <<step, open, readWatch, toServer, toClient, sent, outgoing, written,
                   authBuffer, loadVars, max, needMemory, failures>>

\* _dbus_counter_adjust_size, _dbus_counter_notify, live_messages_notify: the read watch is
\* looked at when the live messages cross the maximum
Notified(n) ==
    IF n + 1 >= max /\ n < max /\ open["server"] /\ step["server"] = 4
    THEN [readWatch EXCEPT !["server"] = TRUE]
    ELSE readWatch

\* dbus_connection_dispatch; the status is computed again at the end: if nothing is left to
\* dispatch, messages are queued, of a disconnected transport too
Dispatch ==
    /\ undispatched # <<>>
    /\ LET m == Head(undispatched)
           st == [Loading(loader, loaderFds) EXCEPT !.todo = Tail(@),
                     !.live = IF InDispatch THEN @ \ {m} ELSE @]
       IN /\ Loaded(IF st.todo = <<>> THEN Queue(st) ELSE st)
          /\ readWatch' = IF ~InDispatch THEN readWatch
                          ELSE IF Cardinality(live') >= max
                          THEN [Notified(Cardinality(st.live)) EXCEPT !["server"] = FALSE]
                          ELSE Notified(Cardinality(st.live))
    /\ UNCHANGED <<step, open, writeWatch, toServer, toClient, sent, outgoing, written,
                   authBuffer, max, needMemory, replies, failures>>

\* a message that was kept is finalized
Free ==
    /\ \E m \in live :
          /\ m \notin Range(undispatched)
          /\ live' = live \ {m}
    /\ readWatch' = Notified(Cardinality(live'))
    /\ UNCHANGED <<step, open, writeWatch, toServer, toClient, sent, outgoing, written,
                   authBuffer, loader, loaderFds, received, gotFds, undispatched, max, needMemory,
                   replies, failures>>

\* _dbus_transport_set_max_received_size
SetMax ==
    /\ \E n \in Maxes : n # max /\ max' = n
    /\ UNCHANGED <<step, open, readWatch, writeWatch, toServer, toClient, sent, outgoing,
                   written, authBuffer, loadVars, needMemory, replies, failures>>

Step ==
    \/ Send \/ ClientWrites \/ ClientReads \/ ClientCloses
    \/ ServerAuthReads \/ ServerWrites \/ ServerReads \/ Hangup \/ Retry
    \/ Reply \/ Dispatch \/ Free \/ SetMax

Next == Step /\ UNCHANGED allowed

Spec == Init /\ [][Next]_vars

----------------------------------------------------------------------------
(* Properties.                                                             *)

TypeOK ==
    /\ step \in [Sides -> 0 .. 4]
    /\ \A s \in Sides : readWatch[s] \/ writeWatch[s] => open[s]
    /\ Len(toServer) <= SocketSize /\ Len(toClient) <= SocketSize
    /\ written \in 0 .. 1 /\ (outgoing = <<>> => written = 0)
    /\ live \subseteq Range(received)
    /\ Range(undispatched) \subseteq live

\* Messages arrive once and in the order in which they were sent, however reads and writes cut
\* them, and whatever of them was read as part of the authentication.
StreamIsFaithful == received = [i \in 1 .. Len(received) |-> i]

\* A descriptor arrives with its own message (do_writing, the loader).
FdsArriveWithTheirs ==
    /\ gotFds = {m \in Range(received) : HasFd(m)}
    /\ loaderFds = FdsIn(loader)

\* A side that has something to do while it authenticates has the watch for it, and never does
\* everyone wait for everyone (check_read_watch, check_write_watch).
SomeoneIsToAct ==
    (\E s \in Sides : ~AuthDone(s)) /\ (\A s \in Sides : open[s]) =>
        \/ writeWatch["client"] \/ writeWatch["server"]
        \/ readWatch["server"] /\ toServer # <<>>
        \/ readWatch["client"] /\ toClient # <<>>

\* A server that is below its maximum of live messages after a step reads (live_messages_notify), or it
\* has not read before the step and was below the maximum then, too.  Only raising the maximum can
\* bring it there: the code forgets the watch then (dbus-transport.c:1252), until a message crosses
\* the new maximum.
BelowMax == open["server"] /\ step["server"] = 4 /\ Cardinality(live) < max /\ ~needMemory
ReadingResumes ==
    BelowMax' /\ ~readWatch'["server"] =>
        ~readWatch["server"] /\ (BelowMax \/ (max' > max /\ Cardinality(live) >= max))

\* What the client has written is received in the end, although the server stops reading at
\* times, and the client may have closed its end by then.
Written(m) == Unit(m, 2, FALSE) \in Range(toServer) /\ allowed
Received(m) == m \in Range(received)

\* Three states in which the code leaves a message lying, and in which nothing but the peer or the
\* application may ever move it.  Reading stopped and the maximum was raised above what is live
\* (_dbus_transport_set_max_received_size); whole messages stayed in the loader at the maximum and
\* the live ones were finalized outside dispatch (live_messages_notify); the server had something
\* to write, to an end that had been closed, while it did not read (unix_error_with_read_to_come).
ReadingForgotten == BelowMax /\ ~readWatch["server"]
LoaderForgotten == BelowMax /\ Len(loader) > 1 /\ undispatched = <<>> /\ ~InDispatch
HungUpUnread == ~open["server"] /\ replies > 0
LeftLying == ReadingForgotten \/ LoaderForgotten \/ HungUpUnread
=============================================================================
