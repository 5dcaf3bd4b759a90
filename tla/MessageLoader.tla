---------------------------- MODULE MessageLoader ----------------------------
(***************************************************************************)
(* The loader of incoming messages (dbus/dbus-message.c) with the checks   *)
(* on their headers (dbus/dbus-marshal-header.c).  A peer has written some *)
(* messages; the transport reads them in pieces of any size, with the file *)
(* descriptors that came along, into the loader, which cuts the stream     *)
(* into messages.                                                          *)
(*                                                                         *)
(* Bytes are counted in blocks of eight: the fixed part of a header is two *)
(* blocks, each header field one more.  A block is <<i, k>>, the k-th of   *)
(* message i.  The checks on the contents of a body are in SignatureText   *)
(* and Marshalling; here a body is good or bad.                            *)
(***************************************************************************)
EXTENDS Integers, Sequences, FiniteSets, SequencesExt

CONSTANTS
    NMessages,      \* number of messages in the stream
    Types,          \* message types: "call", "return", "error", "signal", "other", "invalid"
    Codes,          \* codes of header fields: "PATH", ..., "unknown", "INVALID"
    Values,         \* of a field: "good", "bad", "type", "local", "locally"
    MaxFields,      \* bound on the header fields of a message
    Flaws,          \* flaws outside the fields: "none", "order", "version", "serial", "padding", "body"
    Bodies,         \* lengths of bodies
    Fds,            \* numbers of descriptors that a message announces
    Missing,        \* how many of them are not sent
    MaxSizes,       \* what set_max_message_size is called with
    MaxFds,         \* max_message_unix_fds
    MaxMessageLength,
    OomAt           \* where an allocation may fail, once: "header", "signature", "fds", "list", "body"

MinHeader == 2
Fields == Codes \X Values
FieldLists == UNION {[1 .. n -> Fields] : n \in 0 .. MaxFields}
Messages == [type : Types, fields : FieldLists, flaw : Flaws, body : Bodies, fds : Fds, missing : Missing]

VARIABLES
    sent,           \* the messages the peer wrote
    wire,           \* blocks not read yet
    data,           \* loader->data
    fds,            \* loader->unix_fds: <<i, j>> is the j-th descriptor of message i
    messages,       \* loader->messages: <<i, descriptors>>
    popped,         \* messages given to the connection
    corrupted,      \* corruption_reason, "VALID" if not corrupted
    maxSize,        \* max_message_size
    loading,        \* queue_messages is running
    closed,         \* descriptors that were closed
    gone,           \* the transport is disconnected
    oom             \* allocations may still fail

vars == <<sent, wire, data, fds, messages, popped, corrupted, maxSize, loading, closed, gone, oom>>

HeaderLen(m) == MinHeader + Len(m.fields)
Size(m) == HeaderLen(m) + m.body
Blocks(s, i) == [k \in 1 .. Size(s[i]) |-> <<i, k>>]
Attached(m) == IF m.fds > m.missing THEN m.fds - m.missing ELSE 0

Init ==
    /\ sent \in [1 .. NMessages -> Messages]
    /\ wire = FlattenSeq([i \in 1 .. NMessages |-> Blocks(sent, i)])
    /\ data = <<>> /\ fds = <<>> /\ messages = <<>> /\ popped = <<>>
    /\ corrupted = "VALID" /\ maxSize = MaxMessageLength
    /\ loading = FALSE /\ closed = {} /\ gone = FALSE /\ oom = (OomAt # {})

----------------------------------------------------------------------------
(* The header.                                                             *)

TooLong(m) == Size(m) > maxSize

\* _dbus_header_have_message_untrusted, on the first sixteen bytes
EarlyValidity(m) ==
    IF m.flaw = "order" THEN "BAD_BYTE_ORDER"
    ELSE IF Len(m.fields) > maxSize THEN "INSANE_FIELDS_ARRAY_LENGTH"
    ELSE IF m.body > maxSize THEN "INSANE_BODY_LENGTH"
    ELSE IF TooLong(m) THEN "MESSAGE_TOO_LONG"
    ELSE "VALID"

Repeated(m, n) == \E k \in 1 .. n - 1 : m.fields[k][1] = m.fields[n][1]

\* field_code > DBUS_HEADER_FIELD_LAST
Ignored(code) == code = "unknown"

\* load_and_validate_field, for the n-th field.  The reserved names are compared
\* with as many characters as they have themselves.
FieldValidity(m, n) ==
    LET code == m.fields[n][1]
        value == m.fields[n][2] IN
    IF code = "INVALID" THEN "HEADER_FIELD_CODE"
    ELSE IF Ignored(code) THEN "VALID"
    ELSE IF value = "type" THEN "HEADER_FIELD_HAS_WRONG_TYPE"
    ELSE IF Repeated(m, n) THEN "HEADER_FIELD_APPEARS_TWICE"
    ELSE IF code \in {"INTERFACE", "PATH"} /\ value \in {"local", "locally"} THEN "USES_LOCAL"
    ELSE IF value = "bad" /\ code # "UNIX_FDS" THEN "BAD_FIELD"
    ELSE "VALID"

\* check_mandatory_fields: REQUIRE_FIELD of each message type; a signal falls through
Mandatory(type) ==
    CASE type = "signal" -> {"INTERFACE", "PATH", "MEMBER"}
      [] type = "call" -> {"PATH", "MEMBER"}
      [] type = "error" -> {"ERROR_NAME", "REPLY_SERIAL"}
      [] type = "return" -> {"REPLY_SERIAL"}
      [] OTHER -> {}

\* _dbus_header_load: the fixed part, then the fields in order, then the mandatory ones
HeaderValidity(m) ==
    LET bad == {n \in DOMAIN m.fields : FieldValidity(m, n) # "VALID"} IN
    IF m.flaw = "padding" THEN "ALIGNMENT_PADDING_NOT_NUL"
    ELSE IF m.type = "invalid" THEN "BAD_MESSAGE_TYPE"
    ELSE IF m.flaw = "version" THEN "BAD_PROTOCOL_VERSION"
    ELSE IF m.flaw = "serial" THEN "BAD_SERIAL"
    ELSE IF bad # {} THEN FieldValidity(m, CHOOSE n \in bad : \A k \in bad : n <= k)
    ELSE IF \E c \in Mandatory(m.type) : \A n \in DOMAIN m.fields : m.fields[n][1] # c THEN "MISSING_FIELD"
    ELSE "VALID"

----------------------------------------------------------------------------
(* The transport: reading, and acting on what the loader says.             *)

Prefix(s, n) == SubSeq(s, 1, n)

\* max_n_fds of get_unix_fds
Fits(come) == Len(fds) + Len(come) <= MaxFds

\* get_buffer, return_buffer, get_unix_fds and return_unix_fds around a recvmsg of
\* n blocks.  The kernel hands the descriptors over with the block they were sent
\* with and reads no further than the next such block.  When they do not fit the
\* transport disconnects.
Read(n) ==
    /\ ~loading /\ ~gone /\ corrupted = "VALID"
    /\ n \in 1 .. Len(wire)
    /\ \A k \in 2 .. n : ~(wire[k][2] = 1 /\ Attached(sent[wire[k][1]]) > 0)
    /\ LET i == wire[1][1]
           come == IF wire[1][2] = 1 THEN [j \in 1 .. Attached(sent[i]) |-> <<i, j>>] ELSE <<>> IN
       IF ~Fits(come)
       THEN gone' = TRUE /\ closed' = closed \cup ToSet(come) /\ UNCHANGED <<data, fds, loading>>
       ELSE /\ data' = data \o Prefix(wire, n) /\ fds' = fds \o come
            /\ loading' = TRUE /\ UNCHANGED <<gone, closed>>
    /\ wire' = SubSeq(wire, n + 1, Len(wire))
    /\ UNCHANGED <<sent, messages, popped, corrupted, maxSize, oom>>

\* The connection tries again after an allocation failed: DBUS_DISPATCH_NEED_MEMORY
TryAgain ==
    /\ ~loading /\ ~gone /\ corrupted = "VALID" /\ Len(data) >= MinHeader
    /\ loading' = TRUE
    /\ UNCHANGED <<sent, wire, data, fds, messages, popped, corrupted, maxSize, closed, gone, oom>>

SetMaxMessageSize(s) ==
    /\ ~loading /\ corrupted = "VALID"
    /\ maxSize' = IF s > MaxMessageLength THEN MaxMessageLength ELSE s
    /\ UNCHANGED <<sent, wire, data, fds, messages, popped, corrupted, loading, closed, gone, oom>>

PopMessage ==
    /\ ~loading /\ messages # <<>>
    /\ popped' = Append(popped, Head(messages)) /\ messages' = Tail(messages)
    /\ UNCHANGED <<sent, wire, data, fds, corrupted, maxSize, loading, closed, gone, oom>>

\* Faulty variant: the message is put back behind the others.
PutbackMessageLinkLast ==
    /\ ~loading /\ popped # <<>>
    /\ messages' = Append(messages, Last(popped)) /\ popped' = Front(popped)
    /\ UNCHANGED <<sent, wire, data, fds, corrupted, maxSize, loading, closed, gone, oom>>

PutbackMessageLink ==
    /\ ~loading /\ popped # <<>>
    /\ messages' = <<Last(popped)>> \o messages /\ popped' = Front(popped)
    /\ UNCHANGED <<sent, wire, data, fds, corrupted, maxSize, loading, closed, gone, oom>>

----------------------------------------------------------------------------
(* _dbus_message_loader_queue_messages, one turn of its loop at a time.    *)

\* The message that the data begins with; a cut inside a message shows as a bad
\* byte order.
Garbage == [type |-> "other", fields |-> <<>>, flaw |-> "order", body |-> 0, fds |-> 0, missing |-> 0]
First == IF data[1][2] = 1 THEN sent[data[1][1]] ELSE Garbage

\* A message that does not come through is unreferenced: its descriptors are closed.
Fails(at, why, kept, lost) ==
    /\ corrupted' = why /\ fds' = kept /\ closed' = closed \cup ToSet(lost)
    /\ oom' = (oom /\ at = "") /\ loading' = FALSE
    /\ UNCHANGED <<sent, wire, data, messages, popped, maxSize, gone>>

Oom(at) == oom /\ at \in OomAt

\* how many descriptors a message takes: _dbus_header_get_field_basic of UNIX_FDS
Take(m) == m.fds

BadBody(m) == m.flaw = "body"

\* _dbus_string_delete
DataAfter(m) == SubSeq(data, Size(m) + 1, Len(data))

\* load_message: header, body, descriptors, list, data, in this order.  An
\* allocation that fails while the body is checked is taken for a bad body.
LoadMessage(m) ==
    LET n == Take(m)
        rest == SubSeq(fds, n + 1, Len(fds)) IN
    \/ Oom("header") /\ Fails("header", "VALID", fds, <<>>)
    \/ /\ HeaderValidity(m) # "VALID" /\ Fails("", HeaderValidity(m), fds, <<>>)
    \/ /\ HeaderValidity(m) = "VALID"
       /\ \/ Oom("signature") /\ Fails("signature", "OOM", fds, <<>>)
          \/ BadBody(m) /\ Fails("", "BAD_BODY", fds, <<>>)
          \/ ~BadBody(m) /\ n > Len(fds) /\ Fails("", "MISSING_UNIX_FDS", fds, <<>>)
          \/ /\ ~BadBody(m) /\ n <= Len(fds)
             /\ \/ Oom("fds") /\ n > 0 /\ Fails("fds", "VALID", fds, <<>>)
                \/ Oom("list") /\ Fails("list", "VALID", rest, Prefix(fds, n))
                \/ Oom("body") /\ Fails("body", "VALID", rest, Prefix(fds, n))
                \/ /\ messages' = Append(messages, <<data[1][1], Prefix(fds, n)>>)
                   /\ data' = DataAfter(m) /\ fds' = rest
                   /\ UNCHANGED <<sent, wire, popped, corrupted, maxSize, loading, closed, gone, oom>>

Enough == Len(data) >= MinHeader

QueueMessages ==
    /\ loading
    /\ \/ /\ Enough /\ EarlyValidity(First) # "VALID"
          /\ Fails("", EarlyValidity(First), fds, <<>>)
       \/ /\ Enough /\ EarlyValidity(First) = "VALID" /\ Size(First) <= Len(data)
          /\ LoadMessage(First)
       \/ /\ Enough => EarlyValidity(First) = "VALID" /\ Size(First) > Len(data)
          /\ loading' = FALSE
          /\ UNCHANGED <<sent, wire, data, fds, messages, popped, corrupted, maxSize, closed, gone, oom>>

\* Faulty variant: the descriptors stay open.
DisconnectLeaks ==
    /\ ~loading /\ corrupted # "VALID" /\ ~gone
    /\ gone' = TRUE /\ fds' = <<>>
    /\ UNCHANGED <<sent, wire, data, messages, popped, corrupted, maxSize, loading, closed, oom>>

\* _dbus_transport_get_dispatch_status: a corrupted stream is disconnected.  What
\* is left of the descriptors goes with the loader, _dbus_message_loader_unref.
Disconnect ==
    /\ ~loading /\ corrupted # "VALID" /\ ~gone
    /\ gone' = TRUE /\ fds' = <<>> /\ closed' = closed \cup ToSet(fds)
    /\ UNCHANGED <<sent, wire, data, messages, popped, corrupted, maxSize, loading, oom>>

Next ==
    \/ \E n \in 1 .. Len(wire) : Read(n)
    \/ TryAgain \/ PopMessage \/ PutbackMessageLink \/ QueueMessages \/ Disconnect
    \/ \E s \in MaxSizes : SetMaxMessageSize(s)

\* A transport that reads on, and a connection that pops and never puts back.
AnyRead == \E n \in 1 .. Len(wire) : Read(n)
Consume == QueueMessages \/ PopMessage \/ Disconnect \/ AnyRead

Spec == Init /\ [][Next]_vars

----------------------------------------------------------------------------
(* dbus_message_demarshal and dbus_message_demarshal_bytes_needed.         *)

\* dbus_message_demarshal_bytes_needed of the first n blocks: -1 for bad data
BytesNeeded(n) ==
    IF n < MinHeader THEN 0
    ELSE IF First.flaw = "order" \/ Size(First) > MaxMessageLength THEN -1
    ELSE Size(First)

\* dbus_message_demarshal of the first n blocks: a loader of its own, no descriptors
Demarshal(n) ==
    IF n < MinHeader THEN "NoMemory"
    ELSE IF First.flaw = "order" \/ Size(First) > MaxMessageLength THEN "InvalidArgs"
    ELSE IF Size(First) > n THEN "NoMemory"
    ELSE IF HeaderValidity(First) # "VALID" \/ First.flaw = "body" \/ First.fds > 0 THEN "InvalidArgs"
    ELSE "message"

----------------------------------------------------------------------------
(* Properties.                                                             *)

Descriptors == UNION {{<<i, j>> : j \in 1 .. Attached(sent[i])} : i \in 1 .. NMessages}
Reasons == {"VALID", "OOM", "BAD_BYTE_ORDER", "INSANE_FIELDS_ARRAY_LENGTH", "INSANE_BODY_LENGTH",
            "MESSAGE_TOO_LONG", "HEADER_FIELD_CODE", "HEADER_FIELD_HAS_WRONG_TYPE",
            "HEADER_FIELD_APPEARS_TWICE", "USES_LOCAL", "BAD_FIELD", "ALIGNMENT_PADDING_NOT_NUL",
            "BAD_MESSAGE_TYPE", "BAD_PROTOCOL_VERSION", "BAD_SERIAL", "MISSING_FIELD", "BAD_BODY",
            "MISSING_UNIX_FDS"}

\* The parts of the loader have their types, and the array of descriptors holds no
\* more than it has room for.
TypeOK ==
    /\ corrupted \in Reasons /\ maxSize \in 0 .. MaxMessageLength
    /\ loading \in BOOLEAN /\ gone \in BOOLEAN /\ oom \in BOOLEAN
    /\ Len(fds) <= MaxFds /\ ToSet(fds) \subseteq Descriptors /\ closed \subseteq Descriptors

Loaded == popped \o messages

\* Memory ran out after a message had taken its descriptors: they are closed with it, although it
\* will be loaded again (dbus-message.c:4246).
LostDescriptors(i) == i <= Len(Loaded) + 1 /\ \E j \in 1 .. sent[i].fds : <<i, j>> \in closed /\ ~oom

\* However the stream is cut into reads, and whatever is popped and put back, the
\* messages come out as they were sent: in order, none twice, none left out, each
\* with as many descriptors as it announces, and with its own, until one has lost
\* them to a failure: it then takes those of the messages behind it.
AsSent ==
    \A k \in 1 .. Len(Loaded) :
        /\ Loaded[k][1] = k /\ Len(Loaded[k][2]) = sent[k].fds
        /\ \/ \A j \in 1 .. sent[k].fds : Loaded[k][2][j] = <<k, j>>
           \/ \E i \in 1 .. k : LostDescriptors(i)

\* The table of header fields in the specification: what is required for which type.
Required(type) ==
    {c \in {"PATH", "INTERFACE", "MEMBER", "ERROR_NAME", "REPLY_SERIAL"} :
        \/ c \in {"PATH", "MEMBER"} /\ type \in {"call", "signal"}
        \/ c = "INTERFACE" /\ type = "signal"
        \/ c = "ERROR_NAME" /\ type = "error"
        \/ c = "REPLY_SERIAL" /\ type \in {"error", "return"}}

\* Which messages the D-Bus specification allows: each field at most once, of its
\* type and form; the fields of the message type; no reserved name.
WellFormed(m) ==
    /\ m.flaw = "none" /\ m.type # "invalid"
    /\ \A n \in DOMAIN m.fields :
         /\ m.fields[n][1] # "INVALID"
         /\ m.fields[n][1] # "unknown" =>
              /\ m.fields[n][2] \in {"good", "locally"} \/ m.fields[n] = <<"UNIX_FDS", "bad">>
                 \/ (m.fields[n][2] = "local" /\ m.fields[n][1] \notin {"PATH", "INTERFACE"})
              /\ \A k \in DOMAIN m.fields : m.fields[k][1] = m.fields[n][1] => k = n
    /\ \A c \in Required(m.type) : \E n \in DOMAIN m.fields : m.fields[n][1] = c

ReservedPrefix(m) ==
    \E n \in DOMAIN m.fields : m.fields[n][1] \in {"PATH", "INTERFACE"} /\ m.fields[n][2] = "locally"

Acceptable(m) == WellFormed(m) /\ ~ReservedPrefix(m) /\ Attached(m) = m.fds

\* Only messages that the specification allows come out, and nothing after one that
\* it does not allow.
OnlyWellFormed == \A k \in 1 .. Len(Loaded) : \A i \in 1 .. Loaded[k][1] : WellFormed(sent[i])

\* A stream is given up only if its next message is not allowed, is longer than the
\* limit, or lacks descriptors; and then the loader still holds that message.  A good
\* one is given up where memory runs out during the check of its body (dbus-message.c:4206),
\* and where it, or one before it, has lost its descriptors to a failure.
CorruptedIsBad ==
    corrupted # "VALID" =>
        /\ data # <<>> /\ data[1] = <<Len(Loaded) + 1, 1>>
        /\ \/ ~Acceptable(First) \/ Size(First) > maxSize
           \/ corrupted = "OOM" /\ ~oom
           \/ corrupted = "MISSING_UNIX_FDS" /\ \E i \in 1 .. Len(Loaded) + 1 : LostDescriptors(i)

\* Each descriptor that was read is in one place: with the loader, with a message,
\* or closed; only those the loader could not take or gave up are closed, and those
\* of the one message that has lost them to a failure.
DescriptorsAccounted ==
    LET held == FlattenSeq([k \in 1 .. Len(Loaded) |-> Loaded[k][2]]) \o fds
        read == {d \in Descriptors : \A k \in 1 .. Len(wire) : wire[k] # <<d[1], 1>>} IN
    /\ IsInjective(held) /\ ToSet(held) \cap closed = {} /\ ToSet(held) \cup closed = read
    /\ ~gone => \E i \in 1 .. NMessages : LostDescriptors(i) \/ closed = {}
    /\ ~gone => \A d, e \in closed : d[1] = e[1]

\* A buffer with as many bytes as dbus_message_demarshal_bytes_needed asks for is
\* enough for dbus_message_demarshal to decide, and one with fewer never is.
NeededIsEnough ==
    data # <<>> =>
        LET n == BytesNeeded(Len(data)) IN
        /\ n > 0 => Demarshal(n) # "NoMemory"
        /\ \A k \in 0 .. n - 1 : Demarshal(k) = "NoMemory"
        /\ (n = -1) <=> (Len(data) >= MinHeader /\ Demarshal(Len(data)) = "InvalidArgs"
                         /\ EarlyValidity(First) # "VALID")

\* A message that is allowed, after others that are, comes out.
Good(i) == \A k \in 1 .. i : Acceptable(sent[k]) /\ Size(sent[k]) <= maxSize /\ sent[k].fds <= MaxFds
Popped(i) == \E k \in 1 .. Len(popped) : popped[k][1] = i
=============================================================================
