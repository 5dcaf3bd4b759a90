------------------------------ MODULE DBusAuth ------------------------------
(***************************************************************************)
(* The SASL conversation of dbus-auth.c that opens every connection:       *)
(* client and server exchange lines, the server may ask for data, may      *)
(* reject and lets the client try its next mechanism, and after BEGIN the  *)
(* same stream carries messages.  Each side may run out of memory in a     *)
(* handler: the line then stays in the buffer and is handled again, with   *)
(* whatever the first attempt has already stored.                          *)
(*                                                                         *)
(* Wild names the sides that are not libdbus but a peer that sends any     *)
(* line it can make up.  A line is [cmd, mech, data]; the data of a cookie *)
(* response is the challenge it answers and the user whose cookie was used,*)
(* that of a rejection the list of mechanisms the server offers.           *)
(***************************************************************************)
EXTENDS Naturals, Sequences, FiniteSets, SequencesExt

CONSTANTS
    Users,          \* users of the machine
    Me,             \* the user the client runs as
    SocketUsers,    \* what the socket may tell the server of its peer: users, Anon
    Wild,           \* the sides played by an arbitrary peer
    MaxFailures,    \* rejections after which the server disconnects
    MaxOom,         \* bound: handlers that run out of memory
    MaxLines,       \* bound: lines of an arbitrary peer
    MaxListed       \* bound: the mechanisms an arbitrary server lists

\* "anonymous" and "none" are no users; max_failures is 6.
ASSUME AuthAssumption ==
    /\ Me \in Users /\ "anonymous" \notin Users /\ "none" \notin Users
    /\ SocketUsers \subseteq Users \cup {"anonymous"}
    /\ MaxFailures \in Nat \ {0} /\ MaxListed \in Nat

Sides == {"client", "server"}
Anon == "anonymous"
None == "none"

VARIABLES
    client, server, \* the two DBusAuth objects
    toServer,       \* lines on their way; the receiver's incoming buffer included
    toClient,
    creds,          \* auth->credentials: what the socket says of the peer
    allowed,        \* auth->allowed_mechs of the server
    fdPossible,     \* the sides that can pass file descriptors
    oom, lines,     \* spent bounds
    eaten           \* history: the server took a message for a command

config == <<creds, allowed, fdPossible>>
vars == <<client, server, toServer, toClient, config, oom, lines, eaten>>

Mechanisms == <<"EXTERNAL", "COOKIE", "ANONYMOUS">>     \* all_mechanisms
MechSet == {Mechanisms[i] : i \in 1..3}
Words == MechSet \cup {"unknown"}           \* what a server may name
Line(cmd, mech, data) == [cmd |-> cmd, mech |-> mech, data |-> data]
NoData == <<"empty">>
User(u) == <<"user", u>>
Challenge(n) == <<"challenge", n>>
Answer(n, u) == <<"answer", n, u>>
Listed(q) == <<"mechanisms", q>>
Bad == <<"bad">>                            \* not hex, not UTF-8, no blank...

Outcome(s, out) == [s |-> s, out |-> out, done |-> TRUE]
-----------------------------------------------------------------------------
(* Server.                                                                 *)

NewServer == [state |-> "auth", mech |-> None, identity |-> None, asked |-> FALSE,
              desired |-> None, authorized |-> None, cookie |-> FALSE,
              challenge |-> 0, failures |-> 0, fds |-> FALSE]

\* shutdown_mech that leaves the identities alone.
ShutdownMechKeeping(s) ==
    [s EXCEPT !.asked = FALSE,
              !.cookie = IF s.mech = "COOKIE" THEN FALSE ELSE @, !.mech = None]

\* shutdown_mech: forget what the mechanism has learned; the cookie id is the
\* mechanism's own to forget.
ShutdownMech(s) ==
    [s EXCEPT !.asked = FALSE, !.identity = None, !.authorized = None, !.desired = None,
              !.cookie = IF s.mech = "COOKIE" THEN FALSE ELSE @, !.mech = None]

\* A rejection lists all mechanisms, also those the server does not allow.
RejectedLine == Line("REJECTED", None, Listed(Mechanisms))

\* send_rejected that never gives up.
SendRejectedForever(s) ==
    Outcome([ShutdownMech(s) EXCEPT !.state = "auth", !.failures = @ + 1],
            <<RejectedLine>>)

SendRejected(s) ==
    LET t == [ShutdownMech(s) EXCEPT !.failures = @ + 1]
    IN  Outcome([t EXCEPT !.state = IF t.failures >= MaxFailures THEN "disconnect" ELSE "auth"],
                <<RejectedLine>>)

SendError(s) == Outcome(s, <<Line("ERROR", None, NoData)>>)
SendOk(s) == Outcome([s EXCEPT !.state = "begin"], <<Line("OK", None, User(Me))>>)
AskData(s, data) == Outcome([s EXCEPT !.state = "data"], <<Line("DATA", None, data)>>)

\* Is the identity repeated, and is it now known?
Repeated(s, data) == data # NoData /\ s.identity # None
Identified(s, data) == IF data = NoData THEN s ELSE [s EXCEPT !.identity = IF data[1] = "user" THEN data[2] ELSE "nobody"]

ServerExternal(s0, data) ==
    LET s == Identified(s0, data)
        want == IF s.identity = None THEN creds ELSE s.identity
    IN  IF creds = Anon \/ Repeated(s0, data) THEN SendRejected(s0)
        ELSE IF s.identity = None /\ ~s.asked THEN AskData([s EXCEPT !.asked = TRUE], NoData)
        ELSE IF want \in Users /\ want = creds
             THEN SendOk([s EXCEPT !.desired = want, !.authorized = want])
        ELSE SendRejected(s)

\* sha1_handle_first_client_response: a user of the machine gets a fresh challenge.
CookieFirst(s0, data) ==
    LET s == Identified(s0, data)
    IN  IF Repeated(s0, data) \/ data = NoData \/ s.identity \notin Users THEN SendRejected(s)
        ELSE AskData([s EXCEPT !.desired = s.identity, !.cookie = TRUE, !.challenge = @ + 1],
                     Challenge(s.challenge + 1))

\* sha1_handle_second_client_response: the hash must be over this challenge and
\* the cookie of the desired user.
CookieSecond(s, data) ==
    IF data = Answer(s.challenge, s.desired)
    THEN SendOk([s EXCEPT !.authorized = s.desired])
    ELSE SendRejected(s)

ServerCookie(s, data) == IF s.cookie THEN CookieSecond(s, data) ELSE CookieFirst(s, data)

ServerAnonymous(s, data) ==
    IF data = Bad THEN SendRejected(s)
    ELSE SendOk([s EXCEPT !.desired = None, !.authorized = Anon])

\* process_data with server_data_func; what is no hex is no data.
ServerData(s, data) ==
    IF data = Bad /\ s.mech # "ANONYMOUS" THEN SendError(s)
    ELSE CASE s.mech = "EXTERNAL" -> ServerExternal(s, data)
           [] s.mech = "COOKIE" -> ServerCookie(s, data)
           [] OTHER -> ServerAnonymous(s, data)

HandleAuth(s, l) ==
    IF l.mech \in allowed THEN ServerData([s EXCEPT !.mech = l.mech], l.data) ELSE SendRejected(s)

Disconnect(s) == Outcome([s EXCEPT !.state = "disconnect"], <<>>)

ServerWaitingForAuth(s, l) ==
    CASE l.cmd = "AUTH" -> HandleAuth(s, l)
      [] l.cmd = "BEGIN" -> Disconnect(s)
      [] l.cmd = "ERROR" -> SendRejected(s)
      [] OTHER -> SendError(s)

ServerWaitingForData(s, l) ==
    CASE l.cmd \in {"CANCEL", "ERROR"} -> SendRejected(s)
      [] l.cmd = "DATA" -> ServerData(s, l.data)
      [] l.cmd = "BEGIN" -> Disconnect(s)
      [] OTHER -> SendError(s)

ServerWaitingForBegin(s, l) ==
    CASE l.cmd = "BEGIN" -> Outcome([s EXCEPT !.state = "authenticated"], <<>>)
      [] l.cmd = "NEGOTIATE" /\ "server" \in fdPossible ->
             Outcome([s EXCEPT !.fds = TRUE], <<Line("AGREE", None, NoData)>>)
      [] l.cmd \in {"CANCEL", "ERROR"} -> SendRejected(s)
      [] OTHER -> SendError(s)

ServerHandle(s, l) ==
    CASE s.state = "auth" -> ServerWaitingForAuth(s, l)
      [] s.state = "data" -> ServerWaitingForData(s, l)
      [] s.state = "begin" -> ServerWaitingForBegin(s, l)

\* Out of memory while the reply is appended: the state and the outgoing buffer
\* are as before, but what the mechanism has stored stays; handle_auth forgets
\* the mechanism.
ServerOutOfMemory(s, l) ==
    LET t == ServerHandle(s, l).s
        stored == IF t.failures > s.failures THEN s
                  ELSE [t EXCEPT !.state = s.state, !.asked = s.asked,
                                 !.mech = IF s.state = "auth" THEN None ELSE @]
    IN  [s |-> stored, out |-> <<>>, done |-> FALSE]
-----------------------------------------------------------------------------
(* Client.                                                                 *)

\* The identity a mechanism's initial response claims.
InitialResponse(m) == IF m = "ANONYMOUS" THEN NoData ELSE User(Me)

SendAuth(c, m) == Outcome([c EXCEPT !.state = "data", !.mech = m],
                          <<Line("AUTH", m, InitialResponse(m))>>)

NewClient == [state |-> "data", mech |-> "EXTERNAL", got |-> FALSE, try |-> <<>>, fds |-> FALSE]

SendBegin(c) == Outcome([c EXCEPT !.state = "authenticated"], <<Line("BEGIN", None, NoData)>>)

\* process_ok: a GUID that is not hex ends the conversation.
ProcessOk(c, l) ==
    CASE l.data = Bad -> Disconnect(c)
      [] l.data # Bad /\ "client" \in fdPossible ->
             Outcome([c EXCEPT !.state = "agree"], <<Line("NEGOTIATE", None, NoData)>>)
      [] OTHER -> SendBegin(c)

\* The places of a server's list with a mechanism to try: one the client knows, and not the first of
\* its own, with which it has begun.  The order is the server's, and what it names twice counts twice.
Worth(list) == {i \in DOMAIN list : list[i] \in MechSet \ {Mechanisms[1]}}

\* record_mechanisms: the first list a server sends is kept, later ones are not looked at.  (The words
\* that are not worth a try are passed over when the next one is taken, not when the list is stored.)
RecordMechanisms(c, l) ==
    IF c.got THEN c ELSE [c EXCEPT !.got = TRUE, !.try = l.data[2]]

\* process_rejected: go on with the next mechanism of the list, or give up.
ProcessRejected(c, l) ==
    LET d == RecordMechanisms(c, l)
        next == Min(Worth(d.try))
    IN  IF Worth(d.try) = {} THEN Disconnect(d)
        ELSE SendAuth([d EXCEPT !.try = SubSeq(@, next + 1, Len(@))], d.try[next])

\* client_data_func: only the cookie mechanism answers data.
ClientData(c, data) ==
    IF c.mech # "COOKIE" THEN Outcome(c, <<>>)
    ELSE IF data[1] = "challenge" THEN Outcome(c, <<Line("DATA", None, Answer(data[2], Me))>>)
    ELSE SendError(c)

ClientWaitingForData(c, l) ==
    CASE l.cmd = "DATA" -> ClientData(c, l.data)
      [] l.cmd = "REJECTED" -> ProcessRejected(c, l)
      [] l.cmd = "OK" -> ProcessOk(c, l)
      [] l.cmd = "ERROR" -> Outcome([c EXCEPT !.state = "reject"], <<Line("CANCEL", None, NoData)>>)
      [] OTHER -> SendError(c)

ClientWaitingForReject(c, l) == IF l.cmd = "REJECTED" THEN ProcessRejected(c, l) ELSE Disconnect(c)

ClientWaitingForAgree(c, l) ==
    IF l.cmd \in {"AGREE", "ERROR"} THEN SendBegin([c EXCEPT !.fds = l.cmd = "AGREE"])
    ELSE SendError(c)

ClientHandle(c, l) ==
    CASE c.state = "data" -> ClientWaitingForData(c, l)
      [] c.state = "reject" -> ClientWaitingForReject(c, l)
      [] c.state = "agree" -> ClientWaitingForAgree(c, l)

\* Out of memory in a handler of the client: mechanisms once recorded are kept.
ClientOutOfMemory(c, l) ==
    [s |-> IF c.state # "agree" /\ l.cmd = "REJECTED" THEN RecordMechanisms(c, l)
           ELSE IF c.state = "agree" /\ l.cmd = "AGREE" THEN [c EXCEPT !.fds = TRUE] ELSE c,
     out |-> <<>>, done |-> FALSE]
-----------------------------------------------------------------------------
Ended(s) == s.state \in {"authenticated", "disconnect"}

Init ==
    /\ client = NewClient /\ server = NewServer
    /\ toServer = IF "client" \in Wild THEN <<>> ELSE <<Line("AUTH", "EXTERNAL", User(Me))>>
    /\ toClient = <<>>
    /\ creds \in SocketUsers /\ allowed \in SUBSET MechSet /\ fdPossible \in SUBSET Sides
    /\ oom = 0 /\ lines = 0 /\ eaten = FALSE

\* The first message follows BEGIN at once, in the same stream.
WithMessage(c, out) == IF c.state = "authenticated" THEN Append(out, Line("message", None, NoData)) ELSE out

\* process_command, called by _dbus_auth_do_work until an end state: one line is
\* handled, and dropped unless memory ran out.
ServerStep ==
    /\ "server" \notin Wild /\ ~Ended(server) /\ toServer # <<>>
    /\ \E r \in {ServerHandle(server, Head(toServer))}
                \cup (IF oom < MaxOom THEN {ServerOutOfMemory(server, Head(toServer))} ELSE {}) :
          /\ server' = r.s
          /\ toClient' = toClient \o r.out
          /\ toServer' = IF r.done THEN Tail(toServer) ELSE toServer
          /\ oom' = IF r.done THEN oom ELSE oom + 1
          /\ eaten' = (eaten \/ (Head(toServer).cmd = "message" /\ r.done))
    /\ UNCHANGED <<client, config, lines>>

ClientStep ==
    /\ "client" \notin Wild /\ ~Ended(client) /\ toClient # <<>>
    /\ \E r \in {ClientHandle(client, Head(toClient))}
                \cup (IF oom < MaxOom THEN {ClientOutOfMemory(client, Head(toClient))} ELSE {}) :
          /\ client' = r.s
          /\ toServer' = toServer \o WithMessage(r.s, r.out)
          /\ toClient' = IF r.done THEN Tail(toClient) ELSE toClient
          /\ oom' = IF r.done THEN oom ELSE oom + 1
    /\ UNCHANGED <<server, config, lines, eaten>>

\* What an arbitrary peer can put into a line: it knows the cookies of Me only,
\* and of the others their answers to challenge 0, of an earlier conversation.
Guesses == {NoData, Bad} \cup {User(u) : u \in Users \cup {"nobody"}}
           \cup {Answer(n, u) : n \in 0..server.challenge, u \in {Me}}
           \cup {Answer(n, u) : n \in {0}, u \in Users}

WildClient ==
    /\ "client" \in Wild /\ lines < MaxLines /\ toServer = <<>>
    /\ lines' = lines + 1
    /\ toServer' \in {<<Line("AUTH", m, d)>> : m \in MechSet, d \in Guesses}
                     \cup {<<Line("DATA", None, d)>> : d \in Guesses}
                     \cup {<<Line(c, None, NoData)>> : c \in {"CANCEL", "BEGIN", "ERROR", "NEGOTIATE", "OK"}}
    /\ toClient' = <<>>
    /\ UNCHANGED <<client, server, config, oom, eaten>>

Offers == UNION {[1..n -> Words] : n \in 0..MaxListed}

WildServer ==
    /\ "server" \in Wild /\ lines < MaxLines /\ toClient = <<>>
    /\ lines' = lines + 1
    /\ toClient' \in {<<Line(c, None, NoData)>> : c \in {"ERROR", "AGREE", "CANCEL"}}
                     \cup {<<Line("REJECTED", None, Listed(q))>> : q \in Offers}
                     \cup {<<Line("OK", None, d)>> : d \in {Bad, User(Me)}}
                     \cup {<<Line("DATA", None, d)>> : d \in {NoData, Bad, Challenge(1)}}
    /\ toServer' = <<>>
    /\ UNCHANGED <<client, server, config, oom, eaten>>

Next == ServerStep \/ ClientStep \/ WildClient \/ WildServer

Spec == Init /\ [][Next]_vars
-----------------------------------------------------------------------------
\* Type invariant of the two DBusAuth objects.
TypeOK ==
    /\ client.state \in {"data", "reject", "agree", "authenticated", "disconnect"}
    /\ server.state \in {"auth", "data", "begin", "authenticated", "disconnect"}
    /\ server.mech \in MechSet \cup {None} /\ server.authorized \in Users \cup {Anon, None}
    /\ server.failures \in Nat

\* Whatever a peer sends, and wherever memory runs out, a server that lets it in
\* as a user has a proof: the socket belongs to that user, or this conversation's
\* challenge was answered with a cookie the peer can read.
IdentityIsProven ==
    server.state \in {"begin", "authenticated"} =>
        /\ server.authorized # None
        /\ server.authorized \in Users => server.authorized \in {creds, Me}

\* A rejected attempt leaves nothing behind that a later one could use, unless
\* the attempt stopped for lack of memory.
RejectionForgets ==
    server.state = "auth" /\ oom = 0 =>
        /\ server.authorized = None /\ server.identity = None /\ server.desired = None
        /\ ~server.cookie

\* A peer has no more than MaxFailures attempts.
FailuresAreFinal == server.failures = MaxFailures => UNCHANGED server

\* Whatever lists and rejections a server sends, the client never goes back to the mechanism it
\* has begun with, and every other attempt uses up an entry of the first list: a server that goes
\* on rejecting and offering is given up in the end.  The list may name a mechanism twice, and then
\* it is tried twice; only against a libdbus server the attempts follow the client's own order,
\* each mechanism once.
Rank(m) == CHOOSE i \in 1..3 : Mechanisms[i] = m
Attempt == Len(toServer') > Len(toServer) /\ toServer'[Len(toServer')].cmd = "AUTH"
MechanismsInOrder ==
    "client" \notin Wild /\ Attempt =>
        /\ client'.mech # Mechanisms[1] /\ client'.got
        /\ client.got => Len(client'.try) < Len(client.try)
        /\ Wild = {} => Rank(client'.mech) > Rank(client.mech)

\* Both ends that reach the end of the conversation agree whether file
\* descriptors may be passed.
FdsAgree ==
    client.state = "authenticated" /\ server.state = "authenticated" => client.fds = server.fds

\* The messages behind BEGIN are left for the transport: the server never takes
\* them for a line of the conversation.
NoMessageEaten == ~eaten

\* All of these: nobody gets in without a proof, a rejected attempt is forgotten, no message is
\* taken for a command, and two ends that are both libdbus agree on what they negotiated.
ConversationIsSound ==
    /\ TypeOK /\ IdentityIsProven /\ RejectionForgets /\ NoMessageEaten
    /\ Wild = {} => FdsAgree

\* A libdbus client and a libdbus server come to an end together: both are
\* authenticated, or both have given up.
ConversationEnds == Ended(client) /\ (client.state = "authenticated" => server.state = "authenticated")
=============================================================================
