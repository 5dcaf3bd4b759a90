------------------------------ MODULE BusDriver ------------------------------
(***************************************************************************)
(* The driver of the bus, org.freedesktop.DBus (bus/driver.c): Hello and   *)
(* the unique names, the questions about names and their owners, the       *)
(* environment of activated services, BecomeMonitor, and the lookup of the *)
(* method that a message calls.                                            *)
(*                                                                         *)
(* A call is one transaction of the dispatcher.  When an allocation fails  *)
(* the transaction is cancelled, which restores the registry and takes     *)
(* back the answers; a connection that has its name, and variables that    *)
(* are set, stay.  Names are pairs of numbers: <<0, 0>> is the bus,        *)
(* <<0, k>> a well-known name, <<major, minor>> a unique one.              *)
(***************************************************************************)
EXTENDS Integers, Sequences, FiniteSets, SequencesExt

CONSTANTS
    Conns,          \* connections, which come and go
    Privileged,     \* connections of root or of the daemon's user
    Unknown,        \* connections whose user and process are not known
    WellKnown,      \* number of well-known names
    IntMax,         \* largest int
    MaxMajor,       \* bound on the major numbers that are used
    Keys,           \* names of environment variables
    Members,        \* methods that are called by name, of the tables or not
    Systemd,        \* TRUE with systemd activation
    NoMemory        \* TRUE if allocations may fail

Bus == <<0, 0>>
WellKnownNames == {<<0, k>> : k \in 1 .. WellKnown}
Unique == (1 .. MaxMajor) \X (0 .. IntMax)
NoName == <<>>

VARIABLES
    conn,           \* [connection]: "none", "incomplete", "active" or "monitor"
    uname,          \* [connection]: its unique name, or NoName
    registered,     \* connections whose unique name is in the registry
    owners,         \* [well-known name]: queue of connections, the owner first
    nextMajor, nextMinor,
    used,           \* unique names given so far
    env,            \* [variable]: the value activated services get
    told,           \* [variable]: the value systemd was told
    failed,         \* the last call was answered with an error
    handled         \* <<interface, method, signature, outcome>> of the last call by name

vars == <<conn, uname, registered, owners, nextMajor, nextMinor, used, env, told, failed, handled>>
names == <<conn, uname, registered, owners, nextMajor, nextMinor, used>>

Init ==
    /\ conn = [c \in Conns |-> "none"] /\ uname = [c \in Conns |-> NoName]
    /\ registered = {} /\ owners = [n \in WellKnownNames |-> <<>>]
    /\ nextMajor = 0 /\ nextMinor = 0 /\ used = {}
    /\ env = [k \in Keys |-> ""] /\ told = [k \in Keys |-> ""]
    /\ failed = FALSE /\ handled = <<"", "", "", "">>

----------------------------------------------------------------------------
(* Questions.                                                              *)

\* bus_registry_lookup: the owners of the service, none if there is no service
Lookup(n) ==
    IF n \in WellKnownNames THEN owners[n]
    ELSE LET cs == {c \in registered : uname[c] = n} IN SetToSeq(cs)

\* bus_driver_get_conn_helper: "self", "peer" or "error"
ConnHelper(n) == IF n = Bus THEN "self" ELSE IF Lookup(n) = <<>> THEN "error" ELSE "peer"

NameHasOwner(n) == n = Bus \/ Lookup(n) # <<>>

ListNames == {Bus} \cup {n \in WellKnownNames \cup Unique : Lookup(n) # <<>>}

\* GetNameOwner: NoName stands for the error
GetNameOwner(n) ==
    IF Lookup(n) # <<>> THEN uname[Head(Lookup(n))]
    ELSE IF n = Bus THEN Bus ELSE NoName

\* ListQueuedOwners: the empty sequence stands for the error
ListQueuedOwners(n) ==
    IF Lookup(n) # <<>> THEN LET q == Lookup(n) IN [i \in 1 .. Len(q) |-> uname[q[i]]]
    ELSE IF n = Bus THEN <<Bus>> ELSE <<>>

\* the user or process of a connection, as the answer of the driver: "error" or whose it is
Identity(found, c) ==
    IF found = "self" THEN "bus" ELSE IF found = "peer" /\ c \notin Unknown THEN c ELSE "error"
OwnerOf(n) == IF Lookup(n) = <<>> THEN "nobody" ELSE Head(Lookup(n))

GetConnectionUnixUser(n) == Identity(ConnHelper(n), OwnerOf(n))
GetConnectionUnixProcessID(n) == Identity(ConnHelper(n), OwnerOf(n))

\* GetAdtAuditSessionData, GetConnectionSELinuxSecurityContext: the bus has none
GetSecurityData(n) == IF ConnHelper(n) = "self" THEN "error" ELSE Identity(ConnHelper(n), OwnerOf(n))

\* GetConnectionCredentials: what is not known is left out of the answer
GetConnectionCredentials(n) ==
    IF ConnHelper(n) = "error" THEN {"error"}
    ELSE {Identity(ConnHelper(n), OwnerOf(n))} \ {"error"}

----------------------------------------------------------------------------
(* Connections and names.                                                  *)

Connect(c) ==
    /\ conn[c] = "none"
    /\ conn' = [conn EXCEPT ![c] = "incomplete"]
    /\ UNCHANGED <<uname, registered, owners, nextMajor, nextMinor, used, env, told, failed, handled>>

\* Faulty variant: the major number is kept when the minor one starts again.
FreshNameWraps == <<IF nextMajor = 0 THEN 1 ELSE nextMajor,
                    IF nextMinor <= 0 THEN 0 ELSE nextMinor>>

\* create_unique_client_name: the name; it is never in the registry already
FreshName == IF nextMinor <= 0 THEN <<nextMajor + 1, 0>> ELSE <<nextMajor, nextMinor>>

\* next_minor_number += 1, and the number after IntMax is negative
Increment(k) == IF k = IntMax THEN -IntMax - 1 ELSE k + 1

Without(c, q) == SelectSeq(q, LAMBDA x : x # c)

\* bus_driver_handle_hello: fail is "" or where an allocation fails
Hello(c, fail) ==
    /\ conn[c] \in {"incomplete", "active"}
    /\ FreshName[1] <= MaxMajor
    /\ fail \in IF NoMemory THEN {"", "early", "late"} ELSE {""}
    /\ IF conn[c] = "active"
       THEN failed' = TRUE /\ UNCHANGED names
       ELSE /\ failed' = (fail # "")
            /\ nextMajor' = FreshName[1] /\ nextMinor' = Increment(FreshName[2])
            /\ IF fail = "early"
               THEN UNCHANGED <<conn, uname, registered, used>>
               ELSE /\ conn' = [conn EXCEPT ![c] = "active"]
                    /\ uname' = [uname EXCEPT ![c] = FreshName]
                    /\ used' = used \cup {FreshName}
                    /\ registered' = IF fail = "late" THEN registered ELSE registered \cup {c}
            /\ UNCHANGED owners
    /\ UNCHANGED <<env, told, handled>>

\* bus_driver_handle_acquire_service; the flags are BusRegistry's concern
RequestName(c, n) ==
    /\ conn[c] = "active"
    /\ owners' = [owners EXCEPT ![n] = IF c \in Range(@) THEN @ ELSE Append(@, c)]
    /\ failed' = FALSE
    /\ UNCHANGED <<conn, uname, registered, nextMajor, nextMinor, used, env, told, handled>>

\* bus_driver_handle_release_service
ReleaseName(c, n) ==
    /\ conn[c] = "active"
    /\ owners' = [owners EXCEPT ![n] = Without(c, @)]
    /\ failed' = FALSE
    /\ UNCHANGED <<conn, uname, registered, nextMajor, nextMinor, used, env, told, handled>>

Drop(c) ==
    /\ registered' = registered \ {c}
    /\ owners' = [n \in WellKnownNames |-> Without(c, owners[n])]

\* bus_driver_handle_become_monitor: with ok false the path, the flags or a rule is wrong, or an
\* allocation fails; bus_connection_be_monitor gives up the names of the connection
BecomeMonitor(c, ok) ==
    /\ conn[c] = "active"
    /\ failed' = ~(ok /\ c \in Privileged)
    /\ IF failed' THEN UNCHANGED <<conn, registered, owners>>
       ELSE conn' = [conn EXCEPT ![c] = "monitor"] /\ Drop(c)
    /\ UNCHANGED <<uname, nextMajor, nextMinor, used, env, told, handled>>

Disconnect(c) ==
    /\ conn[c] # "none"
    /\ conn' = [conn EXCEPT ![c] = "none"] /\ uname' = [uname EXCEPT ![c] = NoName]
    /\ Drop(c)
    /\ UNCHANGED <<nextMajor, nextMinor, used, env, told, failed, handled>>

----------------------------------------------------------------------------
(* The environment of activated services.                                  *)

\* bus_driver_send_or_activate: systemd is there, or will be started
SystemdReached == Systemd

\* bus_driver_handle_update_activation_environment: variables S get value v; those of done are
\* set when an allocation fails, and with sent false the message to systemd cannot be sent
UpdateEnvironment(c, S, v, done, sent) ==
    LET complete == done = S /\ (Systemd => sent)
        allowed == c \in Privileged IN
    /\ conn[c] = "active"
    /\ done \subseteq S /\ (~NoMemory => done = S)
    /\ failed' = ~(allowed /\ complete)
    /\ env' = [k \in Keys |-> IF allowed /\ k \in done THEN v ELSE env[k]]
    /\ told' = [k \in Keys |-> IF allowed /\ complete /\ k \in S /\ SystemdReached THEN v ELSE told[k]]
    /\ UNCHANGED <<names, handled>>

----------------------------------------------------------------------------
(* Which method a message calls.                                           *)

\* interface_handlers and the tables of methods: interface, method, signature
Handlers == <<
    <<"DBus", "Hello", "">>, <<"DBus", "RequestName", "su">>, <<"DBus", "ReleaseName", "s">>,
    <<"DBus", "StartServiceByName", "su">>, <<"DBus", "UpdateActivationEnvironment", "a{ss}">>,
    <<"DBus", "NameHasOwner", "s">>, <<"DBus", "ListNames", "">>,
    <<"DBus", "ListActivatableNames", "">>, <<"DBus", "AddMatch", "s">>,
    <<"DBus", "RemoveMatch", "s">>, <<"DBus", "GetNameOwner", "s">>,
    <<"DBus", "ListQueuedOwners", "s">>, <<"DBus", "GetConnectionUnixUser", "s">>,
    <<"DBus", "GetConnectionUnixProcessID", "s">>, <<"DBus", "GetAdtAuditSessionData", "s">>,
    <<"DBus", "GetConnectionSELinuxSecurityContext", "s">>, <<"DBus", "ReloadConfig", "">>,
    <<"DBus", "GetId", "">>, <<"DBus", "GetConnectionCredentials", "s">>,
    <<"Introspectable", "Introspect", "">>, <<"Monitoring", "BecomeMonitor", "asu">>,
    <<"Verbose", "EnableVerbose", "">>, <<"Verbose", "DisableVerbose", "">>,
    <<"Stats", "GetStats", "">>, <<"Stats", "GetConnectionStats", "s">>,
    <<"Stats", "GetAllMatchRules", "">> >>

\* bus_driver_handle_message: interface "" matches every interface
HandleMessage(iface, member, sig) ==
    LET here == SelectSeq(Handlers, LAMBDA h : iface \in {"", h[1]})
        i == SelectInSeq(here, LAMBDA h : h[2] = member) IN
    IF here = <<>> THEN "UnknownInterface"
    ELSE IF i = 0 THEN "UnknownMethod"
    ELSE IF here[i][3] # sig THEN "InvalidArgs" ELSE here[i][2]

\* a message with such an interface, member and signature reaches the driver
Call(c, iface, member, sig) ==
    /\ conn[c] = "active"
    /\ handled' = <<iface, member, sig, HandleMessage(iface, member, sig)>>
    /\ UNCHANGED <<names, env, told, failed>>

Interfaces == {Handlers[j][1] : j \in DOMAIN Handlers} \cup {"", "Other"}

Next ==
    \/ \E c \in Conns, i \in Interfaces, m \in Members, sig \in {"", "s", "asu"} : Call(c, i, m, sig)
    \/ \E c \in Conns : Connect(c) \/ Disconnect(c)
    \/ \E c \in Conns, fail \in {"", "early", "late"} : Hello(c, fail)
    \/ \E c \in Conns, n \in WellKnownNames : RequestName(c, n) \/ ReleaseName(c, n)
    \/ \E c \in Conns, ok \in BOOLEAN : BecomeMonitor(c, ok)
    \/ \E c \in Conns, S \in SUBSET Keys, done \in SUBSET Keys, v \in {"x", "y"}, sent \in BOOLEAN :
          UpdateEnvironment(c, S, v, done, sent)

Spec == Init /\ [][Next]_vars

----------------------------------------------------------------------------
(* Properties.                                                             *)

TypeOK ==
    /\ conn \in [Conns -> {"none", "incomplete", "active", "monitor"}]
    /\ uname \in [Conns -> Unique \cup {NoName}]
    /\ registered \subseteq {c \in Conns : conn[c] = "active"}
    /\ nextMajor \in 0 .. MaxMajor /\ nextMinor \in (-IntMax - 1) .. IntMax

\* The answers of the driver about a name agree, whoever owns it and however it was lost.
QueriesAgree ==
    \A n \in {Bus} \cup WellKnownNames \cup Unique :
        /\ NameHasOwner(n) <=> n \in ListNames
        /\ NameHasOwner(n) <=> GetNameOwner(n) # NoName
        /\ NameHasOwner(n) <=> ListQueuedOwners(n) # <<>>
        /\ NameHasOwner(n) => Head(ListQueuedOwners(n)) = GetNameOwner(n)
        /\ NameHasOwner(n) => GetConnectionCredentials(n) # {"error"}
        /\ GetConnectionUnixUser(n) # "error"
              => GetConnectionCredentials(n) = {GetConnectionUnixUser(n)}
        /\ GetSecurityData(n) # "error" => GetSecurityData(n) = GetConnectionUnixProcessID(n)
        /\ n \in Unique /\ NameHasOwner(n) => GetNameOwner(n) = n

\* A unique name leads to one application for ever: it is not given a second time, not even
\* when the numbers run out of an int.
NamesNeverReused ==
    \A c \in Conns : uname'[c] \notin {uname[c], NoName} => uname'[c] \notin used

\* The owner of a name that the driver tells can answer: it is connected, and has a unique name
\* that leads to it (unless its Hello failed half way).
OwnersCanBeReached ==
    ~NoMemory => \A n \in WellKnownNames : Lookup(n) # <<>> =>
        LET o == GetNameOwner(n) IN o # NoName /\ Lookup(o) = <<Head(Lookup(n))>>

\* A method is found without its interface as it is with it, never under another one, and only
\* with its own signature.
LookupIsUnambiguous ==
    LET h == SelectSeq(Handlers, LAMBDA x : x[2] = handled[2]) IN
    handled[2] # "" =>
        (handled[4] = handled[2]
            <=> h # <<>> /\ handled[1] \in {"", h[1][1]} /\ handled[3] = h[1][3])
=============================================================================
