--------------------------- MODULE BusActivation ----------------------------
(***************************************************************************)
(* Starting services on demand (bus/activation.c).  A request to start a   *)
(* service, or a message to a name nobody owns, waits in the pending       *)
(* activation of that name until the name is taken, the child fails, the   *)
(* systemd unit fails or the time is up.  Requests for one name share one  *)
(* pending activation; services may share an executable; some are started  *)
(* by asking systemd, which may have to be waited for itself.              *)
(***************************************************************************)
EXTENDS Naturals, Sequences, FiniteSets, SequencesExt, FiniteSetsExt

CONSTANTS
    Services,       \* names, "systemd" among them
    Files,          \* those that have a service file
    Shared,         \* those that are started by one and the same executable
    Units,          \* those that have a systemd unit
    UseSystemd,     \* systemd activation is configured
    Requests,       \* numbers of the requests that are made, in this order
    Clients,
    MaxPending,     \* limit: waiting requests
    MaxOom          \* bound: times that memory runs out

Systemd == "systemd"

VARIABLES
    pending,        \* pending_activations: a function of the names that are waited for
    nPending,       \* n_pending_activations
    owned,          \* names that somebody owns
    connected,      \* clients
    child,          \* names whose child runs
    req,            \* what was asked: client, service, auto-activation
    answers,        \* history: what each request got
    oom,            \* spent bound
    forgot          \* history: requests that were thrown away unanswered

vars == <<pending, nPending, owned, connected, child, req, answers, oom, forgot>>

NoRequest == [client |-> "nobody", service |-> "none", auto |-> FALSE]
SystemdRequest(r) == 100 + r               \* the ActivationRequest signal for r
Exec(s) == IF s \in Shared THEN "shared" ELSE s

Init ==
    /\ pending = <<>> /\ nPending = 0 /\ owned = {} /\ connected = Clients /\ child = {}
    /\ req = [r \in Requests |-> NoRequest]
    /\ answers = [r \in Requests |-> <<>>]
    /\ oom = 0 /\ forgot = {}

Without(p, s) == [n \in DOMAIN p \ {s} |-> p[n]]
With(p, s, e) == [n \in DOMAIN p \cup {s} |-> IF n = s THEN e ELSE p[n]]
Waiters(ss) == MapThenSumSet(LAMBDA s : Len(pending[s]), ss)
-----------------------------------------------------------------------------
(* bus_activation_activate_service.                                        *)

Refused(r, how) ==
    /\ answers' = [answers EXCEPT ![r] = Append(@, how)]
    /\ UNCHANGED <<pending, nPending, owned, connected, child, oom, forgot>>

Room == nPending < MaxPending

\* Memory runs out: nothing is remembered, the client gets an error.  If others
\* wait for the same name, their pending activation is thrown away with it, and
\* they are told nothing.
ActivateOutOfMemory(r, s) ==
    /\ oom < MaxOom /\ oom' = oom + 1
    /\ answers' = [answers EXCEPT ![r] = Append(@, "error")]
    /\ \/ UNCHANGED <<pending, nPending, forgot>>
       \/ /\ s \in DOMAIN pending               \* add_cancel_pending_to_transaction
          /\ nPending' = nPending - Len(pending[s])
          /\ pending' = Without(pending, s)
          /\ forgot' = forgot \cup Range(pending[s])
    /\ UNCHANGED <<owned, connected, child>>

\* The name is being waited for.
JoinPending(r, s) ==
    /\ pending' = [pending EXCEPT ![s] = Append(@, r)]
    /\ nPending' = nPending + 1
    /\ UNCHANGED <<owned, connected, child, answers, oom, forgot>>

\* The nested call of bus_activation_activate_service for systemd.
CanWaitForSystemd == nPending + 1 < MaxPending /\ Systemd \in Files

\* With a systemd unit: the signal goes to systemd, or waits for it to come.
AskSystemd(r, s) ==
    /\ IF Systemd \in owned
       THEN /\ pending' = With(pending, s, <<r>>) /\ nPending' = nPending + 1
       ELSE /\ CanWaitForSystemd
            /\ nPending' = nPending + 2
            /\ LET p == With(pending, s, <<r>>)
               IN  pending' = IF Systemd \in DOMAIN p
                              THEN [p EXCEPT ![Systemd] = Append(@, SystemdRequest(r))]
                              ELSE With(p, Systemd, <<SystemdRequest(r)>>)
    /\ UNCHANGED <<owned, connected, child, answers, oom, forgot>>

\* Systemd cannot be waited for, or the child cannot be spawned: the request
\* fails and leaves nothing.
StartFails(r, s) == Refused(r, "error")

Spawn(r, s) ==
    /\ pending' = With(pending, s, <<r>>) /\ nPending' = nPending + 1
    /\ child' = child \cup {s}
    /\ UNCHANGED <<owned, connected, answers, oom, forgot>>

\* systemd itself is not spawned, only waited for.
WaitForSystemd(r, s) ==
    /\ pending' = With(pending, s, <<r>>) /\ nPending' = nPending + 1
    /\ UNCHANGED <<owned, connected, child, answers, oom, forgot>>

Activate(r, s) ==
    IF ~Room THEN Refused(r, "limit")
    ELSE IF s \notin Files THEN Refused(r, "unknown")
    ELSE IF s \in owned /\ ~req'[r].auto THEN Refused(r, "already running")
    ELSE \/ ActivateOutOfMemory(r, s)
         \/ /\ s \in DOMAIN pending /\ JoinPending(r, s)
         \/ /\ s \notin DOMAIN pending
            /\ IF UseSystemd /\ s = Systemd THEN WaitForSystemd(r, s)
               ELSE IF UseSystemd /\ s \in Units
                    THEN AskSystemd(r, s)
                         \/ (Systemd \notin owned /\ ~CanWaitForSystemd /\ StartFails(r, s))
               ELSE Spawn(r, s) \/ StartFails(r, s)

\* StartServiceByName, or a message to a name that nobody owns.
Request(r, c, s, auto) ==
    /\ req[r] = NoRequest /\ \A q \in Requests : q < r => req[q] # NoRequest
    /\ c \in connected
    /\ auto => s \notin owned
    /\ req' = [req EXCEPT ![r] = [client |-> c, service |-> s, auto |-> auto]]
    /\ Activate(r, s)
-----------------------------------------------------------------------------
(* The ways out.                                                           *)

\* try_send_activation_failure: those that are still connected get the error.
FailureAnswer(r) == IF req[r].client \in connected THEN <<"error">> ELSE <<>>

\* pending_activation_failed, for a set of names; it waits for memory.
Fail(ss) ==
    /\ answers' = [r \in Requests |->
                      IF \E s \in ss : r \in Range(pending[s]) THEN answers[r] \o FailureAnswer(r) ELSE answers[r]]
    /\ nPending' = nPending - Waiters(ss)
    /\ pending' = [n \in DOMAIN pending \ ss |-> pending[n]]

\* All that wait for the same executable fail with it.
FailingWith(s) == {n \in DOMAIN pending : n = s \/ Exec(n) = Exec(s)}

\* The child exits with an error or is killed.
ChildFails(s) ==
    /\ s \in child /\ child' = child \ {s}
    /\ IF s \in DOMAIN pending THEN Fail(FailingWith(s)) ELSE UNCHANGED <<answers, nPending, pending>>
    /\ UNCHANGED <<owned, connected, req, oom, forgot>>

\* Exit code 0: a service may run on in the background.
ChildExits(s) ==
    /\ s \in child /\ child' = child \ {s}
    /\ UNCHANGED <<pending, nPending, owned, connected, req, answers, oom, forgot>>

TimedOut(s) ==
    /\ s \in DOMAIN pending
    /\ child' = child \ {s}
    /\ Fail({s})
    /\ UNCHANGED <<owned, connected, req, oom, forgot>>

\* dbus_activation_systemd_failure.
SystemdFailure(s) ==
    /\ UseSystemd /\ Systemd \in owned /\ s \in Units \cap DOMAIN pending
    /\ Fail({s})
    /\ UNCHANGED <<owned, connected, child, req, oom, forgot>>

\* bus_activation_service_created answers the requests to start it;
\* bus_activation_send_pending_auto_activation_messages delivers the messages, or
\* the policy forbids it.
CreatedAnswer(denied, e) ==
    IF req[e].client \notin connected THEN <<>>
    ELSE IF ~req[e].auto THEN <<"success">>
    ELSE IF e \in denied THEN <<"denied">> ELSE <<"delivered">>

\* The pending activation is forgotten only with what it has brought.
ServiceCreated(s) ==
    /\ s \notin owned /\ owned' = owned \cup {s}
    /\ IF s \notin DOMAIN pending
       THEN UNCHANGED <<pending, nPending, answers>>
       ELSE \E denied \in SUBSET (Range(pending[s]) \cap Requests) :
              /\ answers' = [r \in Requests |->
                    IF r \in Range(pending[s]) THEN answers[r] \o CreatedAnswer(denied, r) ELSE answers[r]]
              /\ nPending' = nPending - Len(pending[s])
              /\ pending' = Without(pending, s)
    /\ UNCHANGED <<connected, child, req, oom, forgot>>

RestorePending(s) == UNCHANGED <<pending, nPending>>

\* The name is requested and memory runs out before the transaction is complete.
ServiceCreatedOutOfMemory(s) ==
    /\ s \in DOMAIN pending /\ s \notin owned
    /\ oom < MaxOom /\ oom' = oom + 1
    /\ RestorePending(s)
    /\ UNCHANGED <<owned, connected, child, req, answers, forgot>>

ServiceGone(s) ==
    /\ s \in owned /\ owned' = owned \ {s}
    /\ UNCHANGED <<pending, nPending, connected, child, req, answers, oom, forgot>>

ClientGone(c) ==
    /\ c \in connected /\ connected' = connected \ {c}
    /\ UNCHANGED <<pending, nPending, owned, child, req, answers, oom, forgot>>

Next ==
    \/ \E r \in Requests, c \in Clients, s \in Services, auto \in BOOLEAN : Request(r, c, s, auto)
    \/ \E s \in Services :
          \/ ChildFails(s) \/ ChildExits(s) \/ TimedOut(s) \/ SystemdFailure(s)
          \/ ServiceCreated(s) \/ ServiceCreatedOutOfMemory(s) \/ ServiceGone(s)
    \/ \E c \in Clients : ClientGone(c)

Spec == Init /\ [][Next]_vars
-----------------------------------------------------------------------------
Waiting(r) == \E s \in DOMAIN pending : r \in Range(pending[s])

\* Type invariant.
TypeOK ==
    /\ DOMAIN pending \subseteq Services /\ nPending \in Nat
    /\ owned \subseteq Services /\ child \subseteq Services
    /\ \A s \in DOMAIN pending : pending[s] # <<>>

\* Whoever asked and is still there waits or has got exactly one answer, whichever
\* of timeout, failing child, failing unit, cancelled transaction and success comes
\* (pending_activation_failed, bus_activation_service_created).  The exception is
\* exact: those who waited for a name when memory ran out for one who joined them
\* get nothing (cancel_pending_activation), and nobody else is treated so.
NobodyIsForgotten ==
    \A r \in Requests : req[r] # NoRequest =>
        /\ Waiting(r) => answers[r] = <<>> /\ r \notin forgot
        /\ IF r \in forgot THEN answers[r] = <<>>
           ELSE /\ Len(answers[r]) <= 1
                /\ req[r].client \in connected => Waiting(r) \/ answers[r] # <<>>

\* The number of waiting requests is counted right, through failures of several
\* names at once, and respects its limit.
CountIsRight ==
    /\ nPending = Waiters(DOMAIN pending)
    /\ nPending <= MaxPending
=============================================================================
