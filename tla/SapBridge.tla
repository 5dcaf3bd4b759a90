----------------------------- MODULE SapBridge -----------------------------
(***************************************************************************)
(* The path of a query from a Qt program to SAP and back:                  *)
(*                                                                         *)
(*   SAPDBLib (sapdblib.cpp)  --call-->  dbus-daemon  --call-->            *)
(*   SapNetConn (Program.cs, SapQuery.cs, dbus-sharp)  --RFC-->  SAP       *)
(*                                                                         *)
(* A member of Clients is one run of a program that links SAPDBLib, a      *)
(* member of Servers one run of the C# server: the bus never hands out a   *)
(* unique name twice, so a restarted program is another member.  Every     *)
(* connection is a pair of FIFO byte streams, toBus[p] and fromBus[p].     *)
(*                                                                         *)
(* SAP, sapnco and QtDBus are not in the repository; they are modelled     *)
(* from how the code uses them.                                            *)
(***************************************************************************)
EXTENDS Naturals, Sequences, FiniteSets, SequencesExt

CONSTANTS
    Clients,      \* runs of a program that uses SAPDBLib
    Servers,      \* runs of the C# server SapNetConn
    Args,         \* what a caller may pass as order or material number
    Wellformed,   \* the members of Args that pass the library's input checks
    Empty,        \* the empty input; also what ping carries for an argument
    UsedMethods,  \* the library functions the callers use
    MaxReplies,   \* max_replies_per_connection of the bus configuration
    MaxCalls,     \* bound: calls per client
    MaxChanges,   \* bound: changes of one row in SAP
    MaxToggles    \* bound: how often SAP goes away or comes back

\* The functions of SAPDBLib that make a call on the bus.
Methods == {"ping", "getMKT", "getOrderTypeNr", "getOrderQty",
            "getOrderFailQty", "getOrderType", "getValueFromTable"}

\* ping has no argument and getValueFromTable passes its own unchecked.
Unchecked == {"ping", "getValueFromTable"}

ASSUME SetsAssumption == Clients \cap Servers = {}
ASSUME InputAssumption == /\ Wellformed \subseteq Args /\ Empty \in Args \ Wellformed
                          /\ UsedMethods \subseteq Methods
ASSUME BoundsAssumption == /\ MaxReplies \in Nat /\ MaxCalls \in Nat
                           /\ MaxChanges \in Nat /\ MaxToggles \in Nat

Procs == Clients \cup Servers

\* will_send_reply = NULL in a pending reply whose replier has gone.
Gone == "gone"

ASSUME GoneAssumption == Gone \notin Servers

VARIABLES
    lib,          \* [Clients]: the SAPDBLib object, see LibStates
    lastError,    \* [Clients]: m_lastError
    qtOwner,      \* [Clients]: QtDBus believes that the service has an owner
    pc,           \* [Clients]: "idle" or "waiting" in a blocking call
    calls,        \* [Clients]: calls made, the serial of the latest one
    cur,          \* [Clients]: method and argument of the latest call
    since,        \* [Clients]: history of SAP since the latest call: the version
                  \*   of its row when it was made, and whether SAP was ever up
    ret,          \* [Clients]: what the latest call returned
    out,          \* [Clients]: the value it stored in its out parameter
    spc,          \* [Servers]: where Main is, see ServerStates
    configured,   \* [Servers]: m_destconfig and m_rfcdestination are set
    serving,      \* [Servers]: the calls being executed (at most one)
    busUp,        \* the daemon runs
    attached,     \* the connections the daemon knows
    owners,       \* queue of owners of the name com.swissbit.sap
    pending,      \* pending replies of the daemon
    toBus,        \* [Procs]: written by the process, not yet read by the bus
    fromBus,      \* [Procs]: written by the bus, not yet read by the process
    sap,          \* [Args]: version of the row in SAP, 0 if there is none
    sapUp,        \* SAP answers
    toggles       \* how often sapUp has changed

libVars    == <<lib, lastError, qtOwner>>
callVars   == <<pc, calls, cur, since, ret, out>>
serverVars == <<spc, configured, serving>>
busVars    == <<busUp, attached, owners, pending>>
chanVars   == <<toBus, fromBus>>
sapVars    == <<sap, sapUp, toggles>>
vars == <<libVars, callVars, serverVars, busVars, chanVars, sapVars>>

LibStates == {"none",       \* not constructed
              "nopointer",  \* constructed, m_remoteApp was never assigned
              "ready",      \* constructed, m_remoteApp points to an interface
              "undefined",  \* m_remoteApp was used without being assigned
              "exited"}     \* the process has ended

ServerStates == {"off",         \* not started
                 "requesting",  \* Main blocks in bus.RequestName
                 "running",     \* Main is in bus.Iterate
                 "serving",     \* a method of SapServerQuery runs
                 "dead"}        \* the process has ended

----------------------------------------------------------------------------
(* Messages.  A return carries what was read: the column (given by the     *)
(* method), the key, and the version of the row.                           *)

Call(c, k, m, a) ==
    [type |-> "call", client |-> c, serial |-> k, method |-> m, arg |-> a]

Return(q, v) ==
    [type |-> "return", client |-> q.client, serial |-> q.serial,
     method |-> q.method, arg |-> q.arg, val |-> v]

Error(c, k) == [type |-> "error", client |-> c, serial |-> k]

\* The caller's variable behind the out parameter, before it is assigned.
Untouched == [type |-> "untouched"]

RequestName == [type |-> "RequestName"]
NameReply == [type |-> "NameReply"]
NameAcquired == [type |-> "NameAcquired"]
OwnerChanged(b) == [type |-> "NameOwnerChanged", owned |-> b]

Calls   == [type : {"call"}, client : Clients, serial : Nat,
            method : Methods, arg : Args]
Returns == [type : {"return"}, client : Clients, serial : Nat,
            method : Methods, arg : Args, val : Nat]
Errors  == [type : {"error"}, client : Clients, serial : Nat]
Signals == [type : {"NameOwnerChanged"}, owned : BOOLEAN]
           \cup {NameAcquired}
Messages == Calls \cup Returns \cup Errors \cup Signals
            \cup {RequestName, NameReply}

PendingReplies == [caller : Clients, serial : Nat, callee : Servers \cup {Gone}]

Alive(p) == IF p \in Clients THEN lib[p] \in {"ready", "undefined"}
            ELSE spc[p] \in {"requesting", "running", "serving"}

\* The bus writes m to p.  What is written to a process that has ended is lost.
Deliver(q, p, m) == IF Alive(p) THEN [q EXCEPT ![p] = Append(@, m)] ELSE q

\* The clients that watch the service's owner: QDBusInterface adds a match rule.
Watching(c) == c \in Clients \cap attached /\ Alive(c)

\* The bus writes NameOwnerChanged(b) to every watching client.
Broadcast(q, b) ==
    [p \in Procs |-> IF Watching(p) THEN Append(q[p], OwnerChanged(b)) ELSE q[p]]

----------------------------------------------------------------------------
(* SAPDBLib: construction.                                                 *)

\* SAPDBLib(connection, name): connectToBus succeeded; QDBusInterface looks
\* the owner of the service up.
Construct(c) ==
    /\ lib[c] = "none"
    /\ busUp
    /\ lib' = [lib EXCEPT ![c] = "ready"]
    /\ attached' = attached \cup {c}
    /\ qtOwner' = [qtOwner EXCEPT ![c] = owners # <<>>]
    /\ lastError' = [lastError EXCEPT ![c] = IF owners # <<>> THEN @ ELSE "interface"]
    /\ UNCHANGED <<callVars, serverVars, busUp, owners, pending, chanVars, sapVars>>

\* SAPDBLib(connection, name): connectToBus failed, m_remoteApp stays as it is.
ConstructNoBus(c) ==
    /\ lib[c] = "none"
    /\ lib' = [lib EXCEPT ![c] = "nopointer"]
    /\ lastError' = [lastError EXCEPT ![c] = "bus"]
    /\ UNCHANGED <<qtOwner, callVars, serverVars, busVars, chanVars, sapVars>>

\* SAPDBLib(): sets neither m_remoteApp nor m_lastError.
ConstructDefault(c) ==
    /\ lib[c] = "none"
    /\ lib' = [lib EXCEPT ![c] = "nopointer"]
    /\ UNCHANGED <<lastError, qtOwner, callVars, serverVars, busVars, chanVars, sapVars>>

----------------------------------------------------------------------------
(* SAPDBLib: calls.                                                        *)

\* Record a call that returned false without sending anything.
Refuse(c, m, a) ==
    /\ cur' = [cur EXCEPT ![c] = [method |-> m, arg |-> a]]
    /\ ret' = [ret EXCEPT ![c] = "false"]
    /\ out' = [out EXCEPT ![c] = Untouched]
    /\ since' = [since EXCEPT ![c] = [row |-> sap[a], up |-> sapUp]]
    /\ UNCHANGED <<pc, libVars, serverVars, busVars, chanVars, sapVars>>

\* m_remoteApp->call(...): the message is written and the caller blocks.
Send(c, m, a) ==
    /\ cur' = [cur EXCEPT ![c] = [method |-> m, arg |-> a]]
    /\ pc' = [pc EXCEPT ![c] = "waiting"]
    /\ ret' = [ret EXCEPT ![c] = "none"]
    /\ out' = [out EXCEPT ![c] = Untouched]
    /\ since' = [since EXCEPT ![c] = [row |-> sap[a], up |-> sapUp]]
    /\ toBus' = [toBus EXCEPT ![c] = Append(@, Call(c, calls'[c], m, a))]
    /\ UNCHANGED <<libVars, serverVars, busVars, fromBus, sapVars>>

\* m_remoteApp is read although no constructor assigned it.  The program
\* may end, or go on with anything; nothing is claimed of it any more.
UseOfUnassigned(c) ==
    /\ lib' = [lib EXCEPT ![c] = "undefined"]
    /\ UNCHANGED <<lastError, qtOwner, pc, cur, since, ret, out, serverVars,
                   busVars, chanVars, sapVars>>

\* The common shape of the library's functions: check the input, call, block.
LibCall(c, m, a) ==
    /\ pc[c] = "idle"
    /\ calls[c] < MaxCalls
    /\ m \in UsedMethods
    /\ calls' = [calls EXCEPT ![c] = @ + 1]
    /\ \/ /\ lib[c] \in {"ready", "nopointer"}
          /\ m \notin Unchecked /\ a \notin Wellformed
          /\ Refuse(c, m, a)
       \/ /\ lib[c] = "ready"
          /\ m \in Unchecked \/ a \in Wellformed
          /\ IF busUp THEN Send(c, m, a) ELSE Refuse(c, m, a)
       \/ /\ lib[c] = "nopointer"
          /\ m \in Unchecked \/ a \in Wellformed
          /\ UseOfUnassigned(c)

ping(c)                 == LibCall(c, "ping", Empty)
getMKT(c, a)            == LibCall(c, "getMKT", a)
getOrderTypeNr(c, a)    == LibCall(c, "getOrderTypeNr", a)
getOrderQty(c, a)       == LibCall(c, "getOrderQty", a)
getOrderFailQty(c, a)   == LibCall(c, "getOrderFailQty", a)
getOrderType(c, a)      == LibCall(c, "getOrderType", a)
getValueFromTable(c, a) == LibCall(c, "getValueFromTable", a)

\* Faulty variant: reply.value() is used without asking reply.isValid().
EndCallUnchecked(c, r) ==
    /\ pc' = [pc EXCEPT ![c] = "idle"]
    /\ ret' = [ret EXCEPT ![c] = "true"]
    /\ out' = [out EXCEPT ![c] = IF r.type = "return" THEN r ELSE @]
    /\ UNCHANGED <<calls, cur, since>>

\* The blocking call ends: with a valid reply the value is stored and true
\* returned, with an error the out parameter is left alone.
EndCall(c, r) ==
    /\ pc' = [pc EXCEPT ![c] = "idle"]
    /\ ret' = [ret EXCEPT ![c] = IF r.type = "return" THEN "true" ELSE "false"]
    /\ out' = [out EXCEPT ![c] = IF r.type = "return" THEN r ELSE @]
    /\ UNCHANGED <<calls, cur, since>>

\* Faulty variant: any reply ends the call, also one to an earlier call.
AnswersAnySerial(c, m) == m.type \in {"return", "error"} /\ pc[c] = "waiting"

\* The reply to the call that c waits for.
Answers(c, m) ==
    m.type \in {"return", "error"} /\ pc[c] = "waiting" /\ m.serial = calls[c]

\* QtDBus reads one message: the awaited reply ends the call, a reply to a
\* call that has been given up is dropped, NameOwnerChanged updates isValid().
Receive(c) ==
    /\ lib[c] = "ready"
    /\ fromBus[c] # <<>>
    /\ LET m == Head(fromBus[c]) IN
         /\ fromBus' = [fromBus EXCEPT ![c] = Tail(@)]
         /\ IF Answers(c, m) THEN EndCall(c, m) ELSE UNCHANGED callVars
         /\ qtOwner' = IF m.type = "NameOwnerChanged"
                       THEN [qtOwner EXCEPT ![c] = m.owned] ELSE qtOwner
    /\ UNCHANGED <<lib, lastError, serverVars, busVars, toBus, sapVars>>

\* QtDBus gives a blocking call up after its default timeout.
Timeout(c) ==
    /\ lib[c] = "ready"
    /\ pc[c] = "waiting"
    /\ EndCall(c, Error(c, calls[c]))
    /\ UNCHANGED <<libVars, serverVars, busVars, chanVars, sapVars>>

\* QtDBus reads the end of the stream while a call blocks.
LostBus(c) ==
    /\ lib[c] = "ready"
    /\ pc[c] = "waiting"
    /\ ~busUp /\ fromBus[c] = <<>>
    /\ EndCall(c, Error(c, calls[c]))
    /\ UNCHANGED <<libVars, serverVars, busVars, chanVars, sapVars>>

isDBusConnected(c) == lib[c] = "ready" /\ busUp

isInterfaceConnected(c) == qtOwner[c]

\* isConnected and isInterfaceConnected read m_remoteApp too.
CheckInterface(c) ==
    /\ pc[c] = "idle"
    /\ lib[c] = "nopointer"
    /\ UseOfUnassigned(c)
    /\ UNCHANGED calls

\* The program ends, at any point.
Exit(c) ==
    /\ lib[c] \in {"ready", "nopointer", "undefined"}
    /\ lib' = [lib EXCEPT ![c] = "exited"]
    /\ pc' = [pc EXCEPT ![c] = "idle"]
    /\ fromBus' = [fromBus EXCEPT ![c] = <<>>]
    /\ UNCHANGED <<lastError, qtOwner, calls, cur, since, ret, out, serverVars,
                   busVars, toBus, sapVars>>

----------------------------------------------------------------------------
(* SapNetConn: Main, and the dispatch of dbus-sharp it runs in.            *)

\* Main up to bus.RequestName: the object is registered, the request written.
ServerStart(s) ==
    /\ spc[s] = "off"
    /\ busUp
    /\ spc' = [spc EXCEPT ![s] = "requesting"]
    /\ attached' = attached \cup {s}
    /\ toBus' = [toBus EXCEPT ![s] = Append(@, RequestName)]
    /\ UNCHANGED <<libVars, callVars, configured, serving, busUp, owners, pending,
                   fromBus, sapVars>>

\* Faulty variant: the first message that arrives is taken for the reply, and
\* the fields are set only by the real one.
ServerAwaitAnything(s) ==
    /\ spc[s] = "requesting"
    /\ fromBus[s] # <<>>
    /\ fromBus' = [fromBus EXCEPT ![s] = Tail(@)]
    /\ spc' = [spc EXCEPT ![s] = "running"]
    /\ configured' = [configured EXCEPT ![s] = Head(fromBus[s]).type = "NameReply"]
    /\ UNCHANGED <<libVars, callVars, serving, busVars, toBus, sapVars>>

\* SendWithReplyAndBlock waits for the reply to RequestName on the main thread
\* by handling whatever arrives: a method call is executed on the spot, here
\* against m_destconfig = null, so that its NullReferenceException goes back
\* as an error; signals are queued.  With the reply Main sets the fields.
ServerAwaitName(s) ==
    /\ spc[s] = "requesting"
    /\ fromBus[s] # <<>>
    /\ LET m == Head(fromBus[s]) IN
         /\ fromBus' = [fromBus EXCEPT ![s] = Tail(@)]
         /\ IF m.type = "NameReply"
            THEN /\ spc' = [spc EXCEPT ![s] = "running"]
                 /\ configured' = [configured EXCEPT ![s] = TRUE]
            ELSE UNCHANGED <<spc, configured>>
         /\ toBus' = IF m.type = "call"
                     THEN [toBus EXCEPT ![s] = Append(@, Error(m.client, m.serial))]
                     ELSE toBus
    /\ UNCHANGED <<libVars, callVars, serving, busVars, sapVars>>

\* bus.Iterate reads one message.  A method call enters SapServerQuery;
\* signals and replies nobody waits for have no handler.
ServerIterate(s) ==
    /\ spc[s] = "running"
    /\ fromBus[s] # <<>>
    /\ LET m == Head(fromBus[s]) IN
         /\ fromBus' = [fromBus EXCEPT ![s] = Tail(@)]
         /\ IF m.type = "call"
            THEN /\ spc' = [spc EXCEPT ![s] = "serving"]
                 /\ serving' = [serving EXCEPT ![s] = {m}]
            ELSE UNCHANGED <<spc, serving>>
    /\ UNCHANGED <<libVars, callVars, configured, busVars, toBus, sapVars>>

\* pingSapDest returns the text of the exception when SAP does not answer:
\* either way the reply is a method return.
PingResult(q) == Return(q, IF sapUp THEN 1 ELSE 0)

\* RFC_READ_TABLE: the row's content, version 0 standing for the empty string
\* that is returned without a row.
QueryResult(q) == Return(q, sap[q.arg])

\* Invoke throws if SAP does not answer, or does not understand what
\* getValueFromTable was given; a null field throws before that.
Throws(s, q) ==
    \/ ~configured[s]
    \/ q.method # "ping" /\ ~sapUp
    \/ q.method = "getValueFromTable" /\ q.arg \notin Wellformed

Result(s, q) == IF Throws(s, q) THEN Error(q.client, q.serial)
                ELSE IF q.method = "ping" THEN PingResult(q) ELSE QueryResult(q)

\* The method returns or throws, the reply is written; writing to a closed
\* connection throws out of Iterate and ends Main.
ServerReply(s) ==
    /\ spc[s] = "serving"
    /\ serving' = [serving EXCEPT ![s] = {}]
    /\ IF busUp
       THEN /\ spc' = [spc EXCEPT ![s] = "running"]
            /\ \E q \in serving[s] :
                  toBus' = [toBus EXCEPT ![s] = Append(@, Result(s, q))]
            /\ UNCHANGED fromBus
       ELSE /\ spc' = [spc EXCEPT ![s] = "dead"]
            /\ fromBus' = [fromBus EXCEPT ![s] = <<>>]
            /\ UNCHANGED toBus
    /\ UNCHANGED <<libVars, callVars, configured, busVars, sapVars>>

\* The server process is killed, at any point.
ServerCrash(s) ==
    /\ spc[s] \in {"requesting", "running", "serving"}
    /\ spc' = [spc EXCEPT ![s] = "dead"]
    /\ serving' = [serving EXCEPT ![s] = {}]
    /\ fromBus' = [fromBus EXCEPT ![s] = <<>>]
    /\ UNCHANGED <<libVars, callVars, configured, busVars, toBus, sapVars>>

----------------------------------------------------------------------------
(* dbus-daemon: one message, one disconnection or one expiry at a time.    *)

PrimaryOwner == Head(owners)

\* Faulty variant: a call without an owner is dropped, not answered.
DispatchCallSilently(c, m) ==
    IF owners = <<>>
    THEN UNCHANGED <<pending, owners, fromBus>>
    ELSE /\ pending' = pending \cup
              {[caller |-> c, serial |-> m.serial, callee |-> PrimaryOwner]}
         /\ fromBus' = Deliver(fromBus, PrimaryOwner, m)
         /\ UNCHANGED owners

\* A method call for com.swissbit.sap: without an owner, or with too many
\* calls outstanding, the caller gets an error; otherwise the daemon notes
\* that a reply is expected and forwards the call to the primary owner.
DispatchCall(c, m) ==
    IF owners = <<>>
       \/ Cardinality({r \in pending : r.caller = c}) >= MaxReplies
    THEN /\ fromBus' = Deliver(fromBus, c, Error(c, m.serial))
         /\ UNCHANGED <<pending, owners>>
    ELSE /\ pending' = pending \cup
              {[caller |-> c, serial |-> m.serial, callee |-> PrimaryOwner]}
         /\ fromBus' = Deliver(fromBus, PrimaryOwner, m)
         /\ UNCHANGED owners

\* RequestName with no flags: the first owner hears NameAcquired and everybody
\* NameOwnerChanged before the reply; a later one is queued and only replied to.
DispatchRequestName(s) ==
    /\ owners' = Append(owners, s)
    /\ fromBus' = IF owners = <<>>
                  THEN Deliver(Deliver(Broadcast(fromBus, TRUE), s, NameAcquired),
                               s, NameReply)
                  ELSE Deliver(fromBus, s, NameReply)
    /\ UNCHANGED pending

\* Faulty variant: the reply goes through but stays expected.
DispatchReplyKept(s, m) ==
    /\ fromBus' = IF m.client \in attached THEN Deliver(fromBus, m.client, m)
                  ELSE Deliver(fromBus, s, Error(m.client, m.serial))
    /\ UNCHANGED <<pending, owners>>

\* A reply from s is no longer expected and goes to the caller; the policy of
\* the session bus lets an unexpected one through as well.  If the caller has
\* gone its unique name has no owner, and s gets an error it discards.
DispatchReply(s, m) ==
    /\ pending' = pending \ {[caller |-> m.client, serial |-> m.serial, callee |-> s]}
    /\ fromBus' = IF m.client \in attached THEN Deliver(fromBus, m.client, m)
                  ELSE Deliver(fromBus, s, Error(m.client, m.serial))
    /\ UNCHANGED owners

\* bus_dispatch of the oldest message of connection p.
Dispatch(p) ==
    /\ busUp
    /\ p \in attached
    /\ toBus[p] # <<>>
    /\ LET m == Head(toBus[p]) IN
         \/ m.type = "call" /\ DispatchCall(p, m)
         \/ m.type = "RequestName" /\ DispatchRequestName(p)
         \/ m.type \in {"return", "error"} /\ DispatchReply(p, m)
    /\ toBus' = [toBus EXCEPT ![p] = Tail(@)]
    /\ UNCHANGED <<libVars, callVars, serverVars, busUp, attached, sapVars>>

\* _bus_service_find_owner_link
FindOwnerLink(s) == CHOOSE i \in DOMAIN owners : owners[i] = s

\* Faulty variant: a connection that has gone stays in the queue.
UnlinkNobody(s) == owners

\* The owners without the link of s.
Unlink(s) == IF Contains(owners, s) THEN RemoveAt(owners, FindOwnerLink(s))
             ELSE owners

\* Faulty variant: the last owner leaves without NameOwnerChanged.
RemoveOwnerQuietly(s) ==
    /\ owners' = Unlink(s)
    /\ fromBus' = IF Unlink(s) = <<>> \/ Head(owners) # s THEN fromBus
                  ELSE Deliver(Broadcast(fromBus, TRUE), Head(Unlink(s)), NameAcquired)

\* Leaving the queue: if s was the primary owner, the next one hears
\* NameAcquired and everybody NameOwnerChanged.
RemoveOwner(s) ==
    /\ owners' = Unlink(s)
    /\ fromBus' = IF owners = <<>> \/ Head(owners) # s THEN fromBus
                  ELSE IF Unlink(s) = <<>> THEN Broadcast(fromBus, FALSE)
                  ELSE Deliver(Broadcast(fromBus, TRUE), Head(Unlink(s)), NameAcquired)

\* Faulty variant: the replies p owes are forgotten too.
DropAllPendingReplies(p) ==
    pending' = {r \in pending : r.caller # p /\ r.callee # p}

\* Faulty variant: will_get_reply is cleared where will_send_reply should be.
DropSwappedReplies(p) ==
    pending' = {IF r.caller = p THEN [r EXCEPT !.caller = Gone] ELSE r :
                  r \in {q \in pending : q.callee # p}}

\* Replies that p waits for are forgotten, those it owes will be expired.
DropPendingReplies(p) ==
    pending' = {IF r.callee = p THEN [r EXCEPT !.callee = Gone] ELSE r :
                  r \in {q \in pending : q.caller # p}}

\* bus_connection_disconnected: the daemon reads the end of p's stream,
\* after everything p had written.
Disconnected(p) ==
    /\ busUp
    /\ p \in attached
    /\ ~Alive(p)
    /\ toBus[p] = <<>>
    /\ attached' = attached \ {p}
    /\ RemoveOwner(p)
    /\ DropPendingReplies(p)
    /\ UNCHANGED <<libVars, callVars, serverVars, busUp, toBus, sapVars>>

\* bus_pending_reply_expired: the caller gets the error NoReply.  The daemon
\* has no reply timeout of its own in its default configuration.
Expire(r) ==
    /\ busUp
    /\ r \in pending
    /\ r.callee = Gone
    /\ pending' = pending \ {r}
    /\ fromBus' = Deliver(fromBus, r.caller, Error(r.caller, r.serial))
    /\ UNCHANGED <<libVars, callVars, serverVars, busUp, attached, owners, toBus, sapVars>>

\* The daemon ends.  What it had written can still be read.
BusEnds ==
    /\ busUp
    /\ busUp' = FALSE
    /\ attached' = {}
    /\ owners' = <<>>
    /\ pending' = {}
    /\ toBus' = [p \in Procs |-> <<>>]
    /\ UNCHANGED <<libVars, callVars, serverVars, fromBus, sapVars>>

----------------------------------------------------------------------------
(* SAP.                                                                    *)

\* Somebody changes the row of a in SAP.
SapChange(a) ==
    /\ sap[a] < MaxChanges
    /\ sap' = [sap EXCEPT ![a] = @ + 1]
    /\ UNCHANGED <<libVars, callVars, serverVars, busVars, chanVars, sapUp, toggles>>

\* SAP goes away or comes back.
SapToggle ==
    /\ toggles < MaxToggles
    /\ toggles' = toggles + 1
    /\ sapUp' = ~sapUp
    /\ since' = [c \in Clients |-> [since[c] EXCEPT !.up = @ \/ ~sapUp]]
    /\ UNCHANGED <<libVars, pc, calls, cur, ret, out, serverVars, busVars, chanVars, sap>>

----------------------------------------------------------------------------
Init ==
    /\ lib = [c \in Clients |-> "none"]
    /\ lastError = [c \in Clients |-> "none"]
    /\ qtOwner = [c \in Clients |-> FALSE]
    /\ pc = [c \in Clients |-> "idle"]
    /\ calls = [c \in Clients |-> 0]
    /\ cur = [c \in Clients |-> [method |-> "ping", arg |-> Empty]]
    /\ since = [c \in Clients |-> [row |-> 0, up |-> FALSE]]
    /\ ret = [c \in Clients |-> "none"]
    /\ out = [c \in Clients |-> Untouched]
    /\ spc = [s \in Servers |-> "off"]
    /\ configured = [s \in Servers |-> FALSE]
    /\ serving = [s \in Servers |-> {}]
    /\ busUp = TRUE
    /\ attached = {}
    /\ owners = <<>>
    /\ pending = {}
    /\ toBus = [p \in Procs |-> <<>>]
    /\ fromBus = [p \in Procs |-> <<>>]
    /\ sap = [a \in Args |-> 0]
    /\ sapUp = TRUE
    /\ toggles = 0

\* What the program behind client c does with the library.
Library(c) ==
    \/ Construct(c) \/ ConstructNoBus(c) \/ ConstructDefault(c)
    \/ ping(c)
    \/ \E a \in Args : \/ getMKT(c, a) \/ getOrderTypeNr(c, a) \/ getOrderQty(c, a)
                       \/ getOrderFailQty(c, a) \/ getOrderType(c, a)
                       \/ getValueFromTable(c, a)
    \/ CheckInterface(c)

ServerStep(s) ==
    \/ ServerStart(s) \/ ServerAwaitName(s) \/ ServerIterate(s)
    \/ ServerReply(s) \/ ServerCrash(s)

Bus ==
    \/ \E p \in Procs : Dispatch(p) \/ Disconnected(p)
    \/ \E r \in pending : Expire(r)
    \/ BusEnds

\* Everything but the timeout of QtDBus.
NextPrompt ==
    \/ \E c \in Clients : Library(c) \/ Receive(c) \/ LostBus(c) \/ Exit(c)
    \/ \E s \in Servers : ServerStep(s)
    \/ Bus
    \/ \E a \in Args : SapChange(a)
    \/ SapToggle

Next == NextPrompt \/ \E c \in Clients : Timeout(c)

Spec == Init /\ [][Next]_vars

\* The event loops run: QtDBus reads its socket, the daemon its connections
\* and its expire list, Main iterates, and an RFC call returns or throws.
\* Nothing is assumed of the programs' calls, of crashes, of SAP's changes.
Fairness ==
    /\ \A c \in Clients : WF_vars(Receive(c)) /\ WF_vars(LostBus(c))
    /\ \A s \in Servers : /\ WF_vars(ServerAwaitName(s)) /\ WF_vars(ServerIterate(s))
                          /\ WF_vars(ServerReply(s))
    /\ \A p \in Procs : WF_vars(Dispatch(p)) /\ WF_vars(Disconnected(p))
    /\ WF_vars(\E r \in pending : Expire(r))

\* A timeout may come at any time and is never counted on.
FairSpec == Spec /\ Fairness

----------------------------------------------------------------------------
(* Properties.                                                             *)

\* The type invariant: every variable of the library, the server, the daemon
\* and SAP holds a value of its type.
TypeOK ==
    /\ lib \in [Clients -> LibStates]
    /\ lastError \in [Clients -> {"none", "bus", "interface"}]
    /\ qtOwner \in [Clients -> BOOLEAN]
    /\ pc \in [Clients -> {"idle", "waiting"}]
    /\ calls \in [Clients -> Nat]
    /\ cur \in [Clients -> [method : Methods, arg : Args]]
    /\ since \in [Clients -> [row : Nat, up : BOOLEAN]]
    /\ ret \in [Clients -> {"none", "true", "false"}]
    /\ out \in [Clients -> Returns \cup {Untouched}]
    /\ spc \in [Servers -> ServerStates]
    /\ configured \in [Servers -> BOOLEAN]
    /\ serving \in [Servers -> SUBSET Calls]
    /\ busUp \in BOOLEAN
    /\ attached \subseteq Procs
    /\ owners \in Seq(Servers)
    /\ pending \subseteq PendingReplies
    /\ toBus \in [Procs -> Seq(Messages)]
    /\ fromBus \in [Procs -> Seq(Messages)]
    /\ sap \in [Args -> Nat]
    /\ sapUp \in BOOLEAN
    /\ toggles \in Nat

\* What a successful call hands out belongs to this very call: the column and
\* the key it asked for, as they were in SAP at some moment between the call
\* and its return (sapdblib.cpp, QDBusReply of m_remoteApp->call).
AnswerIsMine ==
    \A c \in Clients : ret[c] = "true" =>
        /\ out[c].client = c /\ out[c].serial = calls[c]
        /\ out[c].method = cur[c].method /\ out[c].arg = cur[c].arg
        /\ cur[c].method # "ping" =>
             since[c].row <= out[c].val /\ out[c].val <= sap[cur[c].arg]

\* Positions of the messages in queue q that satisfy P.
Where(q, P(_)) == {i \in DOMAIN q : P(q[i])}

\* The trace of the call with serial k of client c: its message on the way to
\* the daemon, the daemon's pending reply, its answer on the way back.
Trace(c, k) ==
      Cardinality(Where(toBus[c], LAMBDA m : m.type = "call" /\ m.serial = k))
    + Cardinality({r \in pending : r.caller = c /\ r.serial = k})
    + Cardinality(Where(fromBus[c],
                        LAMBDA m : m.type \in {"return", "error"} /\ m.serial = k))

\* No call is lost and none is answered twice: while a caller blocks and the
\* daemon runs, its call is in exactly one place, whatever crashed meanwhile;
\* a call given up leaves at most one trace (bus_connections_expect_reply,
\* bus_connections_check_reply, bus_connection_drop_pending_replies).
NoLostCall ==
    \A c \in Clients : lib[c] = "ready" /\ busUp =>
        /\ pc[c] = "waiting" => Trace(c, calls[c]) = 1
        /\ \A k \in 1 .. calls[c] : Trace(c, k) <= 1

\* The call or the reply of r at server s.
AtServer(s, r) ==
      Cardinality(Where(fromBus[s], LAMBDA m : m.type = "call" /\ m.client = r.caller
                                               /\ m.serial = r.serial))
    + Cardinality({q \in serving[s] : q.client = r.caller /\ q.serial = r.serial})
    + Cardinality(Where(toBus[s], LAMBDA m : m.type \in {"return", "error"}
                                             /\ m.client = r.caller /\ m.serial = r.serial))

\* Every reply the daemon still expects is really on its way: the replier is
\* connected and, while it lives, has the call or its reply exactly once; so
\* the pending replies of a caller that gave up do not pile up for ever.
PendingIsOwed ==
    \A r \in pending : r.callee # Gone =>
        /\ r.callee \in attached
        /\ Alive(r.callee) => AtServer(r.callee, r) = 1

\* No method of SapServerQuery runs before Main has set m_destconfig and
\* m_rfcdestination, although the name is requested before they are set:
\* the reply to RequestName is always ahead of the first call.
ConfiguredBeforeCalls ==
    \A s \in Servers :
        /\ spc[s] = "serving" => configured[s]
        /\ spc[s] = "requesting" =>
             \A i \in DOMAIN fromBus[s] : fromBus[s][i].type = "call" =>
                 \E j \in 1 .. i - 1 : fromBus[s][j].type = "NameReply"

\* What QtDBus will believe of the owner once it has read its queue.
Believed(c) ==
    LET S == Where(fromBus[c], LAMBDA m : m.type = "NameOwnerChanged")
    IN  IF S = {} THEN isInterfaceConnected(c)
        ELSE fromBus[c][CHOOSE i \in S : \A j \in S : j <= i].owned

\* isInterfaceConnected lags behind the bus but is never wrong for good: after
\* the signals in the queue it says whether the service has an owner, through
\* every start, crash and takeover of the two servers.
CacheCoherent ==
    \A c \in Clients : isDBusConnected(c) => Believed(c) = (owners # <<>>)

\* Only connected servers own or wait for the name, each once; the primary
\* owner calls are sent to has asked for the name (bus/services.c owners list).
OwnersAreConnected ==
    /\ \A i \in DOMAIN owners : owners[i] \in attached
    /\ \A i, j \in DOMAIN owners : owners[i] = owners[j] => i = j

\* The version of its row when the latest call began, the one it handed out.
StartedAt == [c \in Clients |-> since[c].row]
HandedOut == [c \in Clients |-> IF out[c] = Untouched THEN 0 ELSE out[c].val]

\* What a caller of the library may rely on, see SapRpc: the module's calls,
\* SAP's row versions and the values handed out, with the server, the daemon
\* and every queue hidden.
Rpc == INSTANCE SapRpc WITH start <- StartedAt, val <- HandedOut

\* The bridge implements remote reads: each call returns at most once, with a
\* value its row had during the call, or fails (sapdblib.cpp down to SAP).
ImplementsRpc == Rpc!Spec

\* Every blocking call ends even without its timeout, when SAP never hangs:
\* answered, or failed because of a crash of the server or of the daemon.
EveryCallEnds == Rpc!EveryCallEnds

----------------------------------------------------------------------------
(* What the comments, the tests and the design text say of the program and *)
(* the program does not do.                                                *)

\* Entwurf.tex: with the ping button one can check whether the SAP
\* destination can be reached.  A ping that returned true met a running SAP.
PingMeansReachable ==
    \A c \in Clients : ret[c] = "true" /\ cur[c].method = "ping" => since[c].up

\* sapdblib.cpp, comment of lastError: "return last error".  After a call that
\* was sent and failed there is an error to return.
LastErrorIsKept ==
    \A c \in Clients : /\ lib[c] = "ready" /\ pc[c] = "idle"
                       /\ ret[c] = "false" /\ cur[c].arg \in Wellformed
                       => lastError[c] # "none"

\* sapdblib.cpp, comments of isInterfaceConnected and of the query functions:
\* they return whether the interface is connected, or the query successful;
\* none of them works with an object that was never assigned.
PointerIsAssigned == \A c \in Clients : lib[c] # "undefined"
============================================================================
