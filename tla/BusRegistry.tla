---------------------------- MODULE BusRegistry ----------------------------
(***************************************************************************)
(* The registry of bus names of dbus-daemon (bus/services.c), with the     *)
(* part of bus/connection.c that drops a connection's names.  The C# server *)
(* finds its callers through it: com.swissbit.sap is one of the Names.     *)
(*                                                                         *)
(* The daemon is single-threaded and applies each request as one           *)
(* transaction; only the loop of bus_connection_disconnected commits one   *)
(* transaction per name, and nothing else runs between them.               *)
(***************************************************************************)
EXTENDS Naturals, Sequences, SequencesExt

CONSTANTS
    Conns,      \* connections; a unique name is never used again
    Names,      \* well-known bus names
    MaxOwned    \* max_services_per_connection

\* DBUS_NAME_FLAG_ALLOW_REPLACEMENT, _REPLACE_EXISTING, _DO_NOT_QUEUE
Flags == {"allow", "replace", "noqueue"}

\* The unique name of a connection, the first service it owns.
Base == "base"

Nobody == "nobody"

ASSUME NamesAssumption == Base \notin Names
ASSUME ConnsAssumption == Nobody \notin Conns
ASSUME MaxOwnedAssumption == MaxOwned \in Nat

VARIABLES
    conn,       \* [Conns]: "new", "active", "closing" or "gone"
    owners,     \* [Names]: service->owners, the first one is the primary owner
    owned,      \* [Conns]: services_owned, in the order of acquisition
    announced,  \* [Names]: the latest NameOwnerChanged
    told,       \* [Conns]: names acquired and not lost, by NameAcquired, NameLost
    last        \* the latest request and the code of its reply

vars == <<conn, owners, owned, announced, told, last>>

Owners == [conn : Conns, allow : BOOLEAN, noqueue : BOOLEAN]

\* bus_owner_new, bus_owner_set_flags
Owner(c, f) == [conn |-> c, allow |-> "allow" \in f, noqueue |-> "noqueue" \in f]

Codes == {"none", "primary", "already", "exists", "queued", "limit",
          "released", "nonexistent", "notowner"}

Requests == [conn : Conns \cup {Nobody}, name : Names \cup {Base},
             flags : SUBSET Flags, code : Codes]

Init ==
    /\ conn = [c \in Conns |-> "new"]
    /\ owners = [n \in Names |-> <<>>]
    /\ owned = [c \in Conns |-> <<>>]
    /\ announced = [n \in Names |-> [old |-> Nobody, new |-> Nobody]]
    /\ told = [c \in Conns |-> {}]
    /\ last = [conn |-> Nobody, name |-> Base, flags |-> {}, code |-> "none"]

----------------------------------------------------------------------------
(* The owners list of one service.                                         *)

PrimaryOwner(n) == IF owners[n] = <<>> THEN Nobody ELSE Head(owners[n]).conn

\* bus_service_has_owner
HasOwner(n, c) == \E i \in DOMAIN owners[n] : owners[n][i].conn = c

\* _bus_service_find_owner_link
FindOwnerLink(n, c) == CHOOSE i \in DOMAIN owners[n] : owners[n][i].conn = c

\* Faulty variant: a queued owner that asks again is moved forward in any case.
AddOwnerForward(n, c, f) ==
    IF HasOwner(n, c)
    THEN InsertAt(RemoveAt(owners[n], FindOwnerLink(n, c)), 2, Owner(c, f))
    ELSE IF "replace" \in f THEN InsertAt(owners[n], 2, Owner(c, f))
    ELSE Append(owners[n], Owner(c, f))

\* bus_service_add_owner, for a service that has a primary owner other than c:
\* a new owner is appended, or with REPLACE_EXISTING put behind the primary
\* owner; one that is queued already is reflagged, and moved in the same way.
AddOwner(n, c, f) ==
    LET q == owners[n]
        o == Owner(c, f)
        i == FindOwnerLink(n, c)
    IN  IF HasOwner(n, c)
        THEN IF "replace" \in f THEN InsertAt(RemoveAt(q, i), 2, o) ELSE ReplaceAt(q, i, o)
        ELSE IF "replace" \in f THEN InsertAt(q, 2, o) ELSE Append(q, o)

\* Faulty variant: the service is listed at every request.
AddOwnedAgain(n, c) == [owned EXCEPT ![c] = Append(@, n)]

\* bus_service_swap_owner: the primary owner becomes the second one.
SwapOwner(q) == InsertAt(Tail(q), 2, Head(q))

\* bus_connection_add_owned_service, unless c was queued before.
AddOwned(n, c) ==
    IF HasOwner(n, c) THEN owned ELSE [owned EXCEPT ![c] = Append(@, n)]

\* bus_connection_remove_owned_service
RemoveOwned(n, c) ==
    [owned EXCEPT ![c] = RemoveAt(@, CHOOSE i \in DOMAIN @ : @[i] = n)]

\* Faulty variant: the old owner does not hear NameLost.
HandoverSilently(n, old, new) ==
    /\ announced' = [announced EXCEPT ![n] = [old |-> old, new |-> new]]
    /\ told' = [c \in Conns |-> IF c = new THEN told[c] \cup {n} ELSE told[c]]

\* bus_driver_send_service_lost, _owner_changed and _acquired in the order of
\* the code; nothing is sent to a connection that is being closed.
Handover(n, old, new) ==
    /\ announced' = [announced EXCEPT ![n] = [old |-> old, new |-> new]]
    /\ told' = [c \in Conns |->
                  IF c = new THEN told[c] \cup {n}
                  ELSE IF c = old /\ conn[c] = "active" THEN told[c] \ {n}
                  ELSE told[c]]

\* Faulty variant: the signal names the successor as the old owner.
RemoveOwnerMisnamed(n, c) ==
    LET q == RemoveAt(owners[n], FindOwnerLink(n, c))
        next == IF q = <<>> THEN Nobody ELSE Head(q).conn
    IN  /\ owners' = [owners EXCEPT ![n] = q]
        /\ owned' = RemoveOwned(n, c)
        /\ IF PrimaryOwner(n) = c THEN Handover(n, next, next)
           ELSE UNCHANGED <<announced, told>>

\* bus_service_remove_owner: a primary owner is followed by the next in the
\* queue, anybody else just leaves the queue.
RemoveOwner(n, c) ==
    LET i == FindOwnerLink(n, c)
        q == RemoveAt(owners[n], i)
    IN  /\ owners' = [owners EXCEPT ![n] = q]
        /\ owned' = RemoveOwned(n, c)
        /\ IF PrimaryOwner(n) = c
           THEN Handover(n, c, IF q = <<>> THEN Nobody ELSE Head(q).conn)
           ELSE UNCHANGED <<announced, told>>

----------------------------------------------------------------------------
(* RequestName: bus_registry_acquire_service.                              *)

\* Nobody owns the name: bus_registry_ensure.
Ensure(n, c, f) ==
    /\ owners[n] = <<>>
    /\ owners' = [owners EXCEPT ![n] = <<Owner(c, f)>>]
    /\ owned' = [owned EXCEPT ![c] = Append(@, n)]
    /\ Handover(n, Nobody, c)

\* c is the primary owner: only its flags change.
Reflag(n, c, f) ==
    /\ PrimaryOwner(n) = c
    /\ owners' = [owners EXCEPT ![n][1] = Owner(c, f)]
    /\ UNCHANGED <<owned, announced, told>>

Other(n, c) == PrimaryOwner(n) \notin {c, Nobody}

\* bus_service_get_allow_replacement, and the request wants it.
MayReplace(n, f) == Head(owners[n]).allow /\ "replace" \in f

\* Faulty variant: a queued owner that no longer wants to wait stays queued.
DeclineStays(n, c, f) ==
    /\ Other(n, c)
    /\ "noqueue" \in f /\ ~MayReplace(n, f)
    /\ UNCHANGED <<owners, owned, announced, told>>

\* c does not want to wait, and leaves the queue if it is in it.
Decline(n, c, f) ==
    /\ Other(n, c)
    /\ "noqueue" \in f /\ ~MayReplace(n, f)
    /\ IF HasOwner(n, c) THEN RemoveOwner(n, c)
       ELSE UNCHANGED <<owners, owned, announced, told>>

\* c waits for the name.
Enqueue(n, c, f) ==
    /\ Other(n, c)
    /\ "noqueue" \notin f /\ ~MayReplace(n, f)
    /\ owners' = [owners EXCEPT ![n] = AddOwner(n, c, f)]
    /\ owned' = AddOwned(n, c)
    /\ UNCHANGED <<announced, told>>

\* Faulty variant: the old owner is always made the second one.
ReplaceSwaps(n, c, f) ==
    /\ Other(n, c)
    /\ MayReplace(n, f)
    /\ LET q == AddOwner(n, c, f)
       IN  /\ owners' = [owners EXCEPT ![n] = SwapOwner(q)]
           /\ owned' = AddOwned(n, c)
           /\ Handover(n, Head(q).conn, c)

\* c takes the name over: it is put behind the primary owner, which is then
\* removed (bus_service_remove_owner) if it does not want to wait, or else
\* made the second one (bus_service_swap_owner).
Replace(n, c, f) ==
    /\ Other(n, c)
    /\ MayReplace(n, f)
    /\ LET q == AddOwner(n, c, f)
           old == Head(q)
       IN  IF old.noqueue
           THEN /\ owners' = [owners EXCEPT ![n] = Tail(q)]
                /\ owned' = [AddOwned(n, c) EXCEPT
                               ![old.conn] = RemoveAt(@, CHOOSE i \in DOMAIN @ : @[i] = n)]
                /\ Handover(n, old.conn, c)
           ELSE /\ owners' = [owners EXCEPT ![n] = SwapOwner(q)]
                /\ owned' = AddOwned(n, c)
                /\ Handover(n, old.conn, c)

\* The daemon handles nothing else while it drops a connection.
Idle == \A c \in Conns : conn[c] # "closing"

Reply(c, n, f, code) == last' = [conn |-> c, name |-> n, flags |-> f, code |-> code]

RequestName(c, n, f) ==
    /\ Idle
    /\ conn[c] = "active"
    /\ IF Len(owned[c]) >= MaxOwned
       THEN UNCHANGED <<owners, owned, announced, told>> /\ Reply(c, n, f, "limit")
       ELSE \/ Ensure(n, c, f) /\ Reply(c, n, f, "primary")
            \/ Reflag(n, c, f) /\ Reply(c, n, f, "already")
            \/ Decline(n, c, f) /\ Reply(c, n, f, "exists")
            \/ Enqueue(n, c, f) /\ Reply(c, n, f, "queued")
            \/ Replace(n, c, f) /\ Reply(c, n, f, "primary")
    /\ UNCHANGED conn

\* ReleaseName: bus_registry_release_service.
ReleaseName(c, n) ==
    /\ Idle
    /\ conn[c] = "active"
    /\ \/ /\ owners[n] = <<>>
          /\ UNCHANGED <<owners, owned, announced, told>>
          /\ Reply(c, n, {}, "nonexistent")
       \/ /\ owners[n] # <<>> /\ ~HasOwner(n, c)
          /\ UNCHANGED <<owners, owned, announced, told>>
          /\ Reply(c, n, {}, "notowner")
       \/ /\ HasOwner(n, c)
          /\ RemoveOwner(n, c)
          /\ Reply(c, n, {}, "released")
    /\ UNCHANGED conn

----------------------------------------------------------------------------
(* Connections.                                                            *)

\* bus_driver_handle_hello: the unique name is the first service owned.
Hello(c) ==
    /\ Idle
    /\ conn[c] = "new"
    /\ conn' = [conn EXCEPT ![c] = "active"]
    /\ owned' = [owned EXCEPT ![c] = Append(@, Base)]
    /\ UNCHANGED <<owners, announced, told, last>>

\* bus_connection_disconnected begins.
Disconnect(c) ==
    /\ Idle
    /\ conn[c] = "active"
    /\ conn' = [conn EXCEPT ![c] = "closing"]
    /\ UNCHANGED <<owners, owned, announced, told, last>>

\* One turn of its loop: the service acquired last is dropped.
DropService(c) ==
    /\ conn[c] = "closing"
    /\ owned[c] # <<>>
    /\ IF Last(owned[c]) = Base
       THEN /\ owned' = [owned EXCEPT ![c] = Front(@)]
            /\ UNCHANGED <<owners, announced, told>>
       ELSE RemoveOwner(Last(owned[c]), c)
    /\ UNCHANGED <<conn, last>>

\* The loop has ended: the rest of bus_connection_disconnected.
Disconnected(c) ==
    /\ conn[c] = "closing"
    /\ owned[c] = <<>>
    /\ conn' = [conn EXCEPT ![c] = "gone"]
    /\ UNCHANGED <<owners, owned, announced, told, last>>

Next ==
    \E c \in Conns :
        \/ Hello(c) \/ Disconnect(c) \/ DropService(c) \/ Disconnected(c)
        \/ \E n \in Names : ReleaseName(c, n) \/ \E f \in SUBSET Flags : RequestName(c, n, f)

Spec == Init /\ [][Next]_vars

----------------------------------------------------------------------------
(* Properties.                                                             *)

\* The type invariant of the registry's lists and of the signals sent.
TypeOK ==
    /\ conn \in [Conns -> {"new", "active", "closing", "gone"}]
    /\ owners \in [Names -> Seq(Owners)]
    /\ owned \in [Conns -> Seq(Names \cup {Base})]
    /\ announced \in [Names -> [old : Conns \cup {Nobody}, new : Conns \cup {Nobody}]]
    /\ told \in [Conns -> SUBSET Names]
    /\ last \in Requests

\* No connection is twice in the owners of a name, however it was queued,
\* reflagged, moved forward, swapped or replaced (bus/services.c).
NoDuplicateOwner ==
    \A n \in Names : \A i, j \in DOMAIN owners[n] :
        owners[n][i].conn = owners[n][j].conn => i = j

\* services_owned and the owners lists say the same: a connection lists a name
\* once if it owns or waits for it and else not at all, so that the loop of
\* bus_connection_disconnected finds them all, the unique name at the end.
OwnedMatchesOwners ==
    \A c \in Conns :
        /\ \A i, j \in DOMAIN owned[c] : owned[c][i] = owned[c][j] => i = j
        /\ \A n \in Names : HasOwner(n, c) <=> \E i \in DOMAIN owned[c] : owned[c][i] = n
        /\ owned[c] # <<>> => owned[c][1] = Base

\* No name is listed twice on either side, and both sides say the same.
OwnershipAgrees == NoDuplicateOwner /\ OwnedMatchesOwners

\* Only a primary owner may have DO_NOT_QUEUE: nobody who refused to wait is
\* left in the queue, neither when it asks again nor when it is replaced.
WaitersAgreedToWait ==
    \A n \in Names : \A i \in DOMAIN owners[n] : i > 1 => ~owners[n][i].noqueue

\* The latest NameOwnerChanged names the primary owner, and NameAcquired and
\* NameLost have told every connection exactly which names are its own.
SignalsTellTheTruth ==
    /\ \A n \in Names : announced[n].new = PrimaryOwner(n)
    /\ \A c \in Conns : conn[c] = "active" => told[c] = {n \in Names : PrimaryOwner(n) = c}

\* c is at place i of the queue q.
At(q, c, i) == i \in DOMAIN q /\ q[i].conn = c

\* The code a request is answered with says where its sender is in the queue
\* that the request leaves behind: at its head, waiting in it, or not in it.
\* Callers act on it and ask nothing further (DBUS_REQUEST_NAME_REPLY_*).
ReplyIsTrue ==
    [][LET q == owners'[last'.name]
           c == last'.conn
       IN  last' # last =>
             /\ last'.code \in {"primary", "already"} => At(q, c, 1)
             /\ last'.code = "queued" => \E i \in 2 .. Len(q) : At(q, c, i)
             /\ last'.code \in {"exists", "released", "nonexistent", "notowner"} =>
                  ~ \E i \in DOMAIN q : At(q, c, i)]_vars

\* NameOwnerChanged signals form a chain: the old owner of each is the new
\* owner of the one before, through every handover.
OwnerChangesChain ==
    [][\A n \in Names : announced'[n] # announced[n] =>
           announced'[n].old = announced[n].new]_vars

\* x waits before y in q.
Before(q, x, y) ==
    \E i, j \in DOMAIN q : 1 < i /\ i < j /\ q[i].conn = x /\ q[j].conn = y

\* A waiting connection is overtaken by another waiting one only if that one
\* asks with REPLACE_EXISTING; a dropped connection never disturbs the order.
NoOvertaking ==
    [][\A n \in Names : \A x, y \in Conns :
           Before(owners[n], x, y) /\ Before(owners'[n], y, x) =>
               last'.conn = y /\ last'.name = n /\ "replace" \in last'.flags]_vars

\* The loop of bus_connection_disconnected ends: every turn takes a name off
\* services_owned.
Closing(c) == conn[c] = "closing"
Gone(c) == conn[c] = "gone"
============================================================================
