----------------------------- MODULE BusPolicy ------------------------------
(***************************************************************************)
(* The policy of the bus (bus/policy.c, bus_context_check_security_policy  *)
(* of bus/bus.c, <allow> and <deny> of bus/config-parser.c).  A policy     *)
(* keeps rules by section; a connection that says Hello gets a copy of     *)
(* those that concern it, in the order default, groups, user, console,     *)
(* mandatory, without the rules that a later one makes needless.  The last *)
(* rule that applies decides.  A reload gives every connection a new copy. *)
(***************************************************************************)
EXTENDS Naturals, Sequences, FiniteSets, SequencesExt, FiniteSetsExt

CONSTANTS
    Conns,
    Members,                    \* connections whose user is in the group that has rules
    AtConsole,                  \* connections whose user is at the console
    Sections,                   \* sections that rules are written in
    Kinds, RTypes, RIfaces, RNames, RReqs, REaves,    \* fields of rules
    MaxRules                    \* bound: rules of the configuration

Order == <<"default", "group", "user", "console", "no console", "mandatory">>
Every == ""
NoPolicy == <<[kind |-> "none"]>>
NameText == [n \in {"n", "nx", "n.x"} |->           \* the characters of bus names
    CASE n = "n" -> <<"n">> [] n = "nx" -> <<"n", "x">> [] n = "n.x" -> <<"n", ".", "x">>]

VARIABLES
    written,        \* the configuration file: rules by section
    loaded,         \* context->policy
    order,          \* connections->completed, in this order
    policy,         \* the copy of every connection
    previous,       \* history: context->policy before the last reload
    reloadFailed,   \* history: the last reload failed half way
    owners          \* who owns, or waits for, the name "n"

vars == <<written, loaded, order, policy, previous, reloadFailed, owners>>
-----------------------------------------------------------------------------
(* Rules: append_rule_from_element and bus_policy_rule_new.                *)

\* "allow" passes requested replies only, "deny" stops unrequested ones only,
\* unless the element says otherwise.
Requested(allow, req) == IF req = "default" THEN allow ELSE req = "true"

NewRule(kind, allow, type, iface, name, eav, req, prefix) ==
    [kind |-> kind, allow |-> allow, type |-> type, iface |-> iface, name |-> name,
     eav |-> eav, req |-> Requested(allow, req), prefix |-> prefix]

Rules ==
    {NewRule(k, a, t, i, n, e, q, FALSE) : k \in Kinds \ {"own"}, a \in BOOLEAN, t \in RTypes,
                                           i \in RIfaces, n \in RNames, e \in REaves, q \in RReqs}
    \cup (IF "own" \notin Kinds THEN {}
          ELSE {NewRule("own", a, Every, Every, n, FALSE, "default", p) : a \in BOOLEAN,
                     n \in DOMAIN NameText \cup {Every}, p \in BOOLEAN}
               \ {NewRule("own", a, Every, Every, Every, FALSE, "default", TRUE) : a \in BOOLEAN})

Messages == [type : {"call", "reply"}, iface : {Every, "I"}, dest : BOOLEAN]
-----------------------------------------------------------------------------
(* The copy of a connection.                                               *)

SectionsOf(c) ==
    <<"default">> \o (IF c \in Members THEN <<"group">> ELSE <<>>) \o <<"user">>
        \o (IF c \in AtConsole THEN <<"console">> ELSE <<"no console">>) \o <<"mandatory">>

\* A rule without conditions: what comes before it is deleted.
RemovesPreceding(r) ==
    IF r.kind = "own" THEN r.name = Every /\ ~r.prefix
    ELSE r.type = Every /\ r.iface = Every /\ r.name = Every


Optimize(rules) ==
    LET without(out, k) == SelectSeq(out, LAMBDA r : r.kind # k)
        step(out, r) == Append(IF RemovesPreceding(r) THEN without(out, r.kind) ELSE out, r)
    IN  FoldLeft(step, <<>>, rules)

AllRulesOf(p, c) == FoldLeft(LAMBDA out, s : out \o p[s], <<>>, SectionsOf(c))
CreateClientPolicy(p, c) == Optimize(AllRulesOf(p, c))
-----------------------------------------------------------------------------
(* Decisions.                                                              *)

\* The rule asks for a reply that was, or was not, requested.
ReplyApplies(r, m, requested) ==
    m.type = "reply" => /\ ~(~requested /\ r.allow /\ r.req /\ ~r.eav)
                        /\ ~(requested /\ ~r.allow /\ ~r.req)

IfaceApplies(r, m) == r.iface # Every => IF m.iface = Every THEN ~r.allow ELSE m.iface = r.iface

SendRuleApplies(r, m, receiver, requested) ==
    /\ r.kind = "send" /\ r.type \in {Every, m.type}
    /\ ReplyApplies(r, m, requested) /\ IfaceApplies(r, m)
    /\ r.name # Every => receiver \in owners

ReceiveRuleApplies(r, m, sender, requested, eavesdropping) ==
    /\ r.kind = "receive" /\ r.type \in {Every, m.type}
    /\ ~(eavesdropping /\ r.allow /\ ~r.eav) /\ ~(~eavesdropping /\ ~r.allow /\ r.eav)
    /\ ReplyApplies(r, m, requested) /\ IfaceApplies(r, m)
    /\ r.name # Every => sender \in owners

OwnRuleApplies(r, n) ==
    /\ r.kind = "own"
    /\ IF r.prefix
       THEN LET p == NameText[r.name]
            IN  /\ IsPrefix(p, NameText[n])
                /\ n = r.name \/ NameText[n][Len(p) + 1] = "."
       ELSE r.name \in {Every, n}

\* The last rule that applies decides; without one the answer is no.
Decide(rules, Applies(_)) ==
    LET at == {i \in DOMAIN rules : Applies(rules[i])}
    IN  at # {} /\ rules[Max(at)].allow

CheckCanSend(rules, m, receiver, requested) ==
    Decide(rules, LAMBDA r : SendRuleApplies(r, m, receiver, requested))

CheckCanReceive(rules, m, sender, requested, eavesdropping) ==
    Decide(rules, LAMBDA r : ReceiveRuleApplies(r, m, sender, requested, eavesdropping))

CheckCanOwn(rules, n) == Decide(rules, LAMBDA r : OwnRuleApplies(r, n))

\* bus_context_check_security_policy for a message from s to t, which is proposed to p.
Allows(s, t, p, m, requested) ==
    /\ CheckCanSend(policy[s], m, p, requested /\ p = t)
    /\ CheckCanReceive(policy[p], m, s, requested /\ p = t, m.dest /\ p # t)
-----------------------------------------------------------------------------
Init ==
    /\ written = [s \in Range(Order) |-> <<>>] /\ loaded = written /\ previous = written
    /\ order = <<>> /\ policy = [c \in Conns |-> NoPolicy] /\ reloadFailed = FALSE
    /\ owners \in {{}, {CHOOSE c \in Conns : TRUE}}

\* The administrator adds a rule to the configuration file.
AddRule(s, r) ==
    /\ MapThenSumSet(LAMBDA x : Len(written[x]), Range(Order)) < MaxRules
    /\ written' = [written EXCEPT ![s] = Append(@, r)]
    /\ UNCHANGED <<loaded, order, policy, previous, reloadFailed, owners>>

\* bus_connection_complete.
Hello(c) ==
    /\ c \notin Range(order) /\ order' = Append(order, c)
    /\ policy' = [policy EXCEPT ![c] = CreateClientPolicy(loaded, c)]
    /\ UNCHANGED <<written, loaded, previous, reloadFailed, owners>>

\* bus_connection_disconnected.
Disconnect(c) ==
    /\ c \in Range(order) /\ order' = SelectSeq(order, LAMBDA d : d # c)
    /\ policy' = [policy EXCEPT ![c] = NoPolicy]
    /\ owners' = owners \ {c}
    /\ UNCHANGED <<written, loaded, previous, reloadFailed>>

\* bus_connections_reload_policy, for the first k connections.
Reloaded(k) ==
    [c \in Conns |-> IF \E i \in 1..k : order[i] = c
                     THEN CreateClientPolicy(written, c) ELSE policy[c]]

\* While a connection has no policy the process ends by looking at it, in the next
\* reload or at its next message: that is not modelled.
Reload ==
    /\ loaded # written /\ loaded' = written /\ previous' = loaded
    /\ \A c \in Range(order) : policy[c] # NoPolicy
    /\ policy' = Reloaded(Len(order)) /\ reloadFailed' = FALSE
    /\ UNCHANGED <<written, order, owners>>

\* The groups of a user cannot be found, or memory runs out: the old copy is
\* gone, there is no new one, and the rest of the connections keep the old one.
ReloadFails(k) ==
    /\ loaded # written /\ loaded' = written /\ previous' = loaded /\ k \in DOMAIN order
    /\ ~reloadFailed /\ reloadFailed' = TRUE
    /\ policy' = [Reloaded(k - 1) EXCEPT ![order[k]] = NoPolicy]
    /\ UNCHANGED <<written, order, owners>>

Next ==
    \/ \E s \in Sections, r \in Rules : AddRule(s, r)
    \/ \E c \in Conns : Hello(c) \/ Disconnect(c)
    \/ Reload
    \/ \E k \in 1..Cardinality(Conns) : ReloadFails(k)

Spec == Init /\ [][Next]_vars
-----------------------------------------------------------------------------
(* Properties.                                                             *)

TypeOK ==
    /\ \A s \in Range(Order) : written[s] \in Seq(Rules) /\ loaded[s] \in Seq(Rules)
    /\ \A c \in Conns : policy[c] # NoPolicy => c \in Range(order) /\ policy[c] \in Seq(Rules)
    /\ Range(order) \subseteq Conns /\ owners \subseteq Conns

\* After a reload that succeeded, and until the next one, everybody is judged by the
\* configuration that is loaded.  After one that failed at a connection, that one is
\* judged by nothing, those before it and those that came later by the new
\* configuration, the others after it by the one before
\* (bus_connection_complete, bus_connections_reload_policy).
PoliciesAreCurrent ==
    LET Current(c) == policy[c] = CreateClientPolicy(loaded, c)
        Old(c) == policy[c] = CreateClientPolicy(previous, c)
        Bare(i) == policy[order[i]] = NoPolicy
    IN  /\ ~reloadFailed => \A c \in Range(order) : Current(c)
        /\ \A i \in DOMAIN order : Bare(i) =>
               /\ \A j \in 1 .. i - 1 : Current(order[j])
               /\ \A j \in i + 1 .. Len(order) : Current(order[j]) \/ Old(order[j])
        /\ \A i, j \in DOMAIN order : i < j /\ ~Bare(i) /\ ~Current(order[i]) =>
               Old(order[i]) /\ ~Bare(j)

\* A mandatory rule that applies is obeyed, whatever other sections say; if none
\* applies the rules of the user decide, then those of the groups, then the
\* default ones.
MandatoryWins ==
    \A c \in Conns, d \in Conns, m \in Messages : m.type # "reply" =>
        LET in(s) == \E i \in DOMAIN written[s] : SendRuleApplies(written[s][i], m, d, FALSE)
            last == SelectLastInSeq(<<"default", "group", "user", "mandatory">>,
                                    LAMBDA s : (s = "group" => c \in Members) /\ in(s))
            judge == <<"default", "group", "user", "mandatory">>[IF last = 0 THEN 1 ELSE last]
        IN  CheckCanSend(CreateClientPolicy(written, c), m, d, FALSE)
                = CheckCanSend(written[judge], m, d, FALSE)

\* Deleting the rules before a rule without conditions changes no decision about
\* a message or a name that all such rules apply to.  They apply to every call and every
\* name; what is not promised are replies and eavesdropped messages, which such a rule
\* may be skipped for after it has removed the others (bus_client_policy_optimize).
OptimizeIsSafe ==
    \A c \in Conns :
        LET rules == AllRulesOf(written, c)
            Safe(kind, Applies(_)) ==
                (\A i \in DOMAIN rules :
                    rules[i].kind = kind /\ RemovesPreceding(rules[i]) => Applies(rules[i]))
                => Decide(Optimize(rules), Applies) = Decide(rules, Applies)
        IN  /\ \A d \in Conns, m \in Messages, q \in BOOLEAN :
                   /\ Safe("send", LAMBDA r : SendRuleApplies(r, m, d, q))
                   /\ m.type # "reply" =>
                         CheckCanSend(Optimize(rules), m, d, q) = CheckCanSend(rules, m, d, q)
                   /\ \A e \in BOOLEAN :
                         Safe("receive", LAMBDA r : ReceiveRuleApplies(r, m, d, q, e))
            /\ \A n \in DOMAIN NameText : CheckCanOwn(Optimize(rules), n) = CheckCanOwn(rules, n)

\* As long as no element says anything about replies, a reply that nobody asked
\* for never passes, and one that was asked for passes if anything allows it.
RepliesFollowRequests ==
    \A c \in Conns, d \in Conns, m \in Messages : m.type = "reply" =>
        LET rules == AllRulesOf(written, c) IN
        /\ ~CheckCanSend(rules, m, d, FALSE)
        /\ CheckCanSend(rules, m, d, TRUE) =
               \E i \in DOMAIN rules : rules[i].allow /\ SendRuleApplies(rules[i], m, d, TRUE)

\* Who may receive a message that is addressed to another is told so by a rule
\* that speaks of eavesdropping (bus_client_policy_check_can_receive), whatever
\* else the sender and the receiver are allowed.
EavesdroppersAreNamed ==
    \A s, t, p \in Range(order), m \in Messages, q \in BOOLEAN :
        m.dest /\ p # t /\ policy[s] # NoPolicy /\ policy[p] # NoPolicy /\ Allows(s, t, p, m, q) =>
            \E i \in DOMAIN policy[p] : policy[p][i].kind = "receive" /\ policy[p][i].eav

\* A name that may be owned with a prefix rule is the prefix or below it.
PrefixesEndAtDots ==
    \A c \in Conns : LET rules == AllRulesOf(written, c) IN
        (\A i \in DOMAIN rules : rules[i].kind = "own" => rules[i].name = "n") =>
            ~CheckCanOwn(rules, "nx")
=============================================================================
