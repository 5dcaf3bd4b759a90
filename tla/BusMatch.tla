-------------------- MODULE BusMatch --------------------
(***************************************************************************)
(* Match rules (bus/signals.c): the matchmaker, which decides who gets a   *)
(* message, and below it the text of a rule.                               *)
(***************************************************************************)
EXTENDS Naturals, Sequences, FiniteSets, SequencesExt, FiniteSetsExt, Functions

-----------------------------------------------------------------------------
(***************************************************************************)
(* The matchmaker of the bus (bus/signals.c with AddMatch, RemoveMatch and *)
(* BecomeMonitor of bus/driver.c): which connections get a message that is *)
(* not, or not only, addressed to them.  Rules are indexed by the message  *)
(* type and the interface they ask for; there is one matchmaker for the    *)
(* connections and one for the monitors.                                   *)
(***************************************************************************)

CONSTANTS
    Conns, Names,               \* unique names of connections; well-known names
    RTypes, RIfaces, RSenders, RDests, RPaths, RSpaces, REaves,   \* fields of rules
    MTypes, MIfaces, MDests, MPaths,                              \* fields of messages
    MaxRules,                   \* limit: rules of a connection
    Monitors                    \* connections that may become monitors

Dbus == "dbus"                  \* org.freedesktop.DBus, the daemon itself
None == ""                      \* a field that is absent
Text == [p \in {"/", "/a", "/ab", "/a/b"} |->      \* the characters of object paths
    CASE p = "/" -> <<"/">> [] p = "/a" -> <<"/", "a">> [] p = "/ab" -> <<"/", "a", "b">>
      [] p = "/a/b" -> <<"/", "a", "/", "b">>]

VARIABLES
    pool,           \* rules_by_type of the two matchmakers: lists of rules
    nRules,         \* n_match_rules
    alive, monitors,
    owner,          \* primary owners of the well-known names
    by, answers     \* history: who made the last request, and the replies to it

matchVars == <<pool, nRules, alive, monitors, owner, by, answers>>

Rules == {r \in [conn : Conns, type : RTypes, iface : RIfaces, sender : RSenders, dest : RDests,
                 path : RPaths, ns : RSpaces, eav : REaves] : r.path = None => ~r.ns}
Messages == [type : MTypes, iface : MIfaces, dest : MDests, path : MPaths]

Makers == {"main", "monitor"}
Keyless == {<<t, None>> : t \in MTypes \cup RTypes \cup {None}}     \* rules_without_iface
NoRules == [l \in Keyless |-> <<>>]

MatchInit ==
    /\ pool = [k \in Makers |-> NoRules] /\ nRules = [c \in Conns |-> 0]
    /\ alive = Conns /\ monitors = {} /\ owner = [n \in Names |-> None]
    /\ by = None /\ answers = <<>>

ListOf(r) == <<r.type, r.iface>>
-----------------------------------------------------------------------------
(* Lists of rules.  A list for an interface exists while it has rules.     *)

GetRules(p, l) == IF l \in DOMAIN p THEN p[l] ELSE <<>>

PutRules(p, l, rules) ==                            \* bus_matchmaker_gc_rules
    [k \in IF rules = <<>> /\ l \notin Keyless THEN DOMAIN p \ {l} ELSE DOMAIN p \cup {l} |->
        IF k = l THEN rules ELSE p[k]]

AddRule(p, r) == PutRules(p, ListOf(r), Append(GetRules(p, ListOf(r)), r))

MatchRuleEqual(a, b) ==
    /\ \A f \in {"type", "iface", "sender", "dest", "path"} : (a[f] = None) = (b[f] = None)
    /\ a.eav = b.eav /\ a.ns = b.ns                                          \* flags
    /\ a.conn = b.conn
    /\ \A f \in {"type", "iface", "sender", "dest"} : a[f] = b[f]
    /\ ~a.ns => a.path = b.path                 \* not when it is a path namespace

EqualPlaces(p, r) ==
    {i \in DOMAIN GetRules(p, ListOf(r)) : MatchRuleEqual(GetRules(p, ListOf(r))[i], r)}

\* The one that was added last goes.
RemoveRuleByValue(p, r) ==
    PutRules(p, ListOf(r), RemoveAt(GetRules(p, ListOf(r)), Max(EqualPlaces(p, r))))

\* A plausible bug: the rules that name the connection go, its own do not.
StaysUnlessNamed(r, c) == ~(r.sender = c \/ r.dest = c)

\* A connection is gone: its rules go, and the rules of others that name it.
Stays(r, c) == r.conn # c /\ ~(r.sender = c \/ r.dest = c)

RuleListRemoveByConnection(rules, c) == SelectSeq(rules, LAMBDA r : Stays(r, c))

Disconnected(p, c) ==
    LET left == [l \in DOMAIN p |-> RuleListRemoveByConnection(p[l], c)]
    IN  [l \in {k \in DOMAIN p : k \in Keyless \/ left[k] # <<>>} |-> left[l]]

\* bus_connection_remove_match_rule for every rule that went from p to q.
CountRemoved(n, p, q, c) ==
    LET of(x, d) == MapThenSumSet(LAMBDA l : Len(SelectSeq(x[l], LAMBDA r : r.conn = d)), DOMAIN x)
    IN  [d \in Conns |-> n[d] - (of(p, d) - of(q, d))]
-----------------------------------------------------------------------------
(* Matching.                                                               *)

Active(c) == c \in alive \ monitors
IsPrimaryOwner(c, n) == IF n \in Conns THEN n = c /\ Active(c) ELSE n \in Names /\ owner[n] = c

InSpace(path, space) ==
    LET n == Len(Text[space])
    IN  /\ IsPrefix(Text[space], Text[path])
        /\ n > 1 => Len(Text[path]) = n \/ Text[path][n + 1] = "/"

SenderMatches(r, sender) ==
    \/ r.sender = None
    \/ IF sender = Dbus THEN r.sender = Dbus ELSE IsPrimaryOwner(sender, r.sender)

DestinationMatches(r, addressed, m) ==
    IF r.dest = None THEN r.eav \/ m.dest = None
    ELSE /\ m.dest # None /\ r.eav
         /\ IF addressed = None THEN r.dest = Dbus ELSE IsPrimaryOwner(addressed, r.dest)

PathMatches(r, m) ==
    \/ r.path = None
    \/ m.path # None /\ IF r.ns THEN InSpace(m.path, r.path) ELSE m.path = r.path

\* Type and interface are taken as matched: the list was chosen by them.
MatchRuleMatches(r, sender, addressed, m) ==
    SenderMatches(r, sender) /\ DestinationMatches(r, addressed, m) /\ PathMatches(r, m)

\* Every connection is stamped when it is put on the list.
FromList(rules, sender, addressed, m, done) ==
    LET add(out, r) == IF r.conn \in Range(out) \cup {addressed}
                       THEN out
                       ELSE IF MatchRuleMatches(r, sender, addressed, m) THEN Append(out, r.conn) ELSE out
    IN  FoldLeft(add, done, rules)

ListsFor(m) ==
    <<<<None, None>>>> \o (IF m.iface # None THEN <<<<None, m.iface>>>> ELSE <<>>)
        \o <<<<m.type, None>>>> \o (IF m.iface # None THEN <<<<m.type, m.iface>>>> ELSE <<>>)

GetRecipients(p, sender, addressed, m) ==
    FoldLeft(LAMBDA done, l : FromList(GetRules(p, l), sender, addressed, m, done), <<>>, ListsFor(m))
-----------------------------------------------------------------------------
(* Requests and events.                                                    *)

\* Bus rules name connections by unique names that are known to be given.
AddMatch(c, r) ==
    /\ Active(c) /\ r.conn = c /\ by' = c
    /\ IF nRules[c] >= MaxRules
       THEN answers' = <<"limits">> /\ UNCHANGED <<pool, nRules>>
       ELSE \/ /\ pool' = [pool EXCEPT !["main"] = AddRule(@, r)]
               /\ nRules' = [nRules EXCEPT ![c] = @ + 1] /\ answers' = <<"ack">>
            \/ answers' = <<"no memory">> /\ UNCHANGED <<pool, nRules>>   \* the rule is taken back
    /\ UNCHANGED <<alive, monitors, owner>>

\* The ack is sent first, "since the ack is undone on transaction cancel".
RemoveMatch(c, r) ==
    /\ Active(c) /\ r.conn = c /\ by' = c
    /\ IF EqualPlaces(pool["main"], r) = {}
       THEN answers' = <<"ack", "not found">> /\ UNCHANGED <<pool, nRules>>
       ELSE /\ pool' = [pool EXCEPT !["main"] = RemoveRuleByValue(@, r)]
            /\ nRules' = CountRemoved(nRules, pool["main"], pool'["main"], c)
            /\ answers' = <<"ack">>
    /\ UNCHANGED <<alive, monitors, owner>>

\* Its rules are added to the matchmaker of monitors, always eavesdropping; its
\* names and its other rules go.
BecomeMonitor(c, r) ==
    /\ Active(c) /\ c \in Monitors /\ r.conn = c /\ by' = c /\ answers' = <<"ack">>
    /\ LET main == Disconnected(pool["main"], c) IN
       /\ pool' = [main |-> main, monitor |-> AddRule(pool["monitor"], [r EXCEPT !.eav = TRUE])]
       /\ nRules' = [CountRemoved(nRules, pool["main"], main, c) EXCEPT ![c] = @ + 1]
    /\ monitors' = monitors \cup {c}
    /\ owner' = [n \in Names |-> IF owner[n] = c THEN None ELSE owner[n]]
    /\ UNCHANGED alive

Disconnect(c) ==
    /\ c \in alive /\ alive' = alive \ {c} /\ monitors' = monitors \ {c} /\ by' = c /\ answers' = <<>>
    /\ LET main == IF nRules[c] > 0 THEN Disconnected(pool["main"], c) ELSE pool["main"]
           n == CountRemoved(nRules, pool["main"], main, c)
           mon == IF c \in monitors THEN Disconnected(pool["monitor"], c) ELSE pool["monitor"]
       IN  /\ pool' = [main |-> main, monitor |-> mon]
           /\ nRules' = CountRemoved(n, pool["monitor"], mon, c)
    /\ owner' = [n \in Names |-> IF owner[n] = c THEN None ELSE owner[n]]

\* See BusRegistry.
ChangeOwner(n, c) ==
    /\ c = None \/ Active(c)
    /\ owner[n] # c
    /\ owner' = [owner EXCEPT ![n] = c] /\ by' = None /\ answers' = <<>>
    /\ UNCHANGED <<pool, nRules, alive, monitors>>

Addressed(m) ==
    CASE m.dest \in {None, Dbus} -> None
      [] m.dest \in Conns -> IF Active(m.dest) THEN m.dest ELSE None
      [] m.dest \in Names -> owner[m.dest]

\* bus_dispatch: whether a message is passed on.  Dispatching changes nothing here.
Passes(sender, m) ==
    /\ sender = Dbus \/ Active(sender)
    /\ m.dest \in {None, Dbus} \/ Addressed(m) # None

\* Who gets it, in this order (bus_dispatch_matches).
Delivered(sender, m) ==
    (IF Addressed(m) = None THEN <<>> ELSE <<Addressed(m)>>)
        \o GetRecipients(pool["main"], sender, Addressed(m), m)

\* Which monitors see it (bus_transaction_capture).
Captured(sender, m) ==
    IF monitors = {} THEN <<>> ELSE GetRecipients(pool["monitor"], sender, None, m)

MatchNext ==
    \/ \E c \in Conns, r \in Rules : AddMatch(c, r) \/ RemoveMatch(c, r) \/ BecomeMonitor(c, r)
    \/ \E c \in Conns : Disconnect(c)
    \/ \E n \in Names, c \in Conns \cup {None} : ChangeOwner(n, c)

MatchSpec == MatchInit /\ [][MatchNext]_matchVars
-----------------------------------------------------------------------------
(* Properties.                                                             *)

MatchTypeOK ==
    /\ \A k \in Makers : \A l \in DOMAIN pool[k] : \A i \in DOMAIN pool[k][l] :
           ListOf(pool[k][l][i]) = l
    /\ \A k \in Makers : \A l \in DOMAIN pool[k] \ Keyless : pool[k][l] # <<>>
    /\ nRules \in [Conns -> Nat] /\ monitors \subseteq alive /\ alive \subseteq Conns

AllRules(k) == UNION {{l} \X DOMAIN pool[k][l] : l \in DOMAIN pool[k]}
RuleAt(k, x) == pool[k][x[1]][x[2]]

\* The meaning of a rule, all of it, on a message from sender to addressed.
Below(path, space) == path = space \/ space = "/" \/ IsPrefix(Append(Text[space], "/"), Text[path])
Means(r, sender, addressed, m) ==
    /\ r.type \in {None, m.type} /\ r.iface \in {None, m.iface}
    /\ r.sender # None => IF sender = Dbus THEN r.sender = Dbus ELSE IsPrimaryOwner(sender, r.sender)
    /\ m.dest # None => r.eav
    /\ r.dest # None => /\ m.dest # None
                        /\ IF addressed = None THEN r.dest = Dbus ELSE IsPrimaryOwner(addressed, r.dest)
    /\ r.path # None => m.path # None /\ IF r.ns THEN Below(m.path, r.path) ELSE m.path = r.path

\* The look-up in four lists, with type and interface taken as matched, finds
\* exactly the connections that have a rule which means the message, and each
\* one gets it once, the one it is addressed to as well
\* (bus_matchmaker_get_recipients, bus_dispatch_matches).
EachRecipientOnce ==
    \A s \in Conns \cup {Dbus}, m \in Messages : Passes(s, m) =>
        /\ IsInjective(Delivered(s, m))
        /\ Range(Delivered(s, m)) = ({Addressed(m)} \ {None})
               \cup {RuleAt("main", x).conn : x \in {y \in AllRules("main") :
                                                       Means(RuleAt("main", y), s, Addressed(m), m)}}

\* The count that the limit is about is the number of rules that are kept.
CountsAreRight ==
    \A c \in Conns :
        nRules[c] = Cardinality({x \in AllRules("main") : RuleAt("main", x).conn = c})
                    + Cardinality({x \in AllRules("monitor") : RuleAt("monitor", x).conn = c})

\* What one connection adds and removes leaves the rules of the others alone; its
\* end, or its becoming a monitor, takes of theirs only rules that name it.
NamesIt(r, c) == r.sender = c \/ r.dest = c
OthersKeepTheirRules ==
    \A c \in Conns \ {by'}, k \in Makers : \A l \in DOMAIN pool[k] :
        LET kept(rules) == SelectSeq(rules, LAMBDA r : r.conn = c /\ ~NamesIt(r, by'))
        IN  c \in alive' => kept(GetRules(pool'[k], l)) = kept(pool[k][l])

\* Rules do not go to connections that are gone.
NobodyIsDead ==
    \A k \in Makers : \A x \in AllRules(k) :
        /\ RuleAt(k, x).conn \in alive
        /\ RuleAt(k, x).conn \in monitors <=> k = "monitor"

\* Rules of others that name a connection may outlive it (bus_connection_disconnected
\* looks at them only when it had rules itself, connection.c:216).  They count for
\* those who made them, and match nothing any more.
LeftRulesAreSilent ==
    \A k \in Makers : \A x \in AllRules(k), c \in Conns \ alive : NamesIt(RuleAt(k, x), c) =>
        \A s \in Conns \cup {Dbus}, m \in Messages : Passes(s, m) =>
            ~MatchRuleMatches(RuleAt(k, x), s, IF k = "main" THEN Addressed(m) ELSE None, m)

-----------------------------------------------------------------------------
(***************************************************************************)
(* The text of a match rule (bus/signals.c): find_key and find_value cut   *)
(* it into at most MAX_RULE_TOKENS keys and values, bus_match_rule_parse   *)
(* makes a rule of them, match_rule_to_string writes a rule as text again  *)
(* (GetAllMatchRules).  A symbol of a text is a quote, a backslash, a      *)
(* comma, a blank, "=", or a run of ordinary characters.                   *)
(***************************************************************************)

CONSTANTS
    Keys,           \* keys that are typed, known ones and others
    Chars,          \* symbols that are typed for values
    MAX_RULE_TOKENS,
    MaxPieces       \* bound: length of a text

VARIABLE text

Quote == "'"
Backslash == "backslash"
Blank == " "
Pieces == {<<k, "=">> : k \in Keys} \cup {<<c>> : c \in Chars}

\* The rules for one thing: at most one of these keys may be given.
SameField(k) ==
    CASE k \in {"path", "path_namespace"} -> {"path", "path_namespace"}
      [] k \in {"arg0", "arg0path", "arg0namespace"} -> {"arg0", "arg0path", "arg0namespace"}
      [] OTHER -> {k}

Named(v) == Len(v) = 1 /\ v[1] \notin {Quote, Backslash, ",", Blank, "="}
Anything(v) == TRUE
Known == {"type", "member", "path", "path_namespace", "eavesdrop",
          "arg0", "arg0path", "arg0namespace", "arg1"}

Valid(k, v) ==
    CASE k = "type" -> v = <<"signal">>
      [] k = "eavesdrop" -> v \in {<<"true">>, <<"false">>}
      [] k \in {"member", "path", "path_namespace", "arg0namespace"} -> Named(v)
      [] k \in {"arg0", "arg0path", "arg1"} -> Anything(v)

NoRule == [invalid |-> <<>>]
EmptyRule == [k \in {} |-> <<>>]
-----------------------------------------------------------------------------
(* Cutting the text into tokens.                                           *)

\* One symbol of a value: q is the quote that is open.
ValueStep(st, c) ==
    IF st.done THEN st
    ELSE LET then == [st EXCEPT !.used = @ + 1] IN
         CASE st.q = "" /\ c \in {Quote, Backslash} -> [then EXCEPT !.q = c]
           [] st.q = "" /\ c = "," -> [then EXCEPT !.done = TRUE]
           [] st.q = Backslash -> [then EXCEPT !.q = "",
                  !.out = @ \o (IF c = Quote THEN <<c>> ELSE <<Backslash, c>>)]
           [] st.q = Quote /\ c = Quote -> [then EXCEPT !.q = ""]
           [] OTHER -> [then EXCEPT !.out = Append(@, c)]

FindValue(s) ==
    LET end == FoldLeft(ValueStep, [q |-> "", out |-> <<>>, used |-> 0, done |-> FALSE], s)
    IN  [ok |-> end.q # Quote,                       \* unbalanced quotation marks
         value |-> IF end.q = Backslash THEN Append(end.out, Backslash) ELSE end.out,
         rest |-> SubSeq(s, end.used + 1, Len(s))]

KeyStep(st, c) ==
    IF st.done THEN st
    ELSE IF c = Blank THEN [st EXCEPT !.used = @ + 1, !.ended = @ \/ st.key # <<>>]
    ELSE IF c = "=" \/ st.ended THEN [st EXCEPT !.done = TRUE]
    ELSE [st EXCEPT !.used = @ + 1, !.key = Append(@, c)]

FindKey(s) ==
    LET end == FoldLeft(KeyStep, [key |-> <<>>, used |-> 0, ended |-> FALSE, done |-> FALSE], s)
        eq == end.used < Len(s) /\ s[end.used + 1] = "="
    IN  [ok |-> end.key = <<>> \/ eq, key |-> end.key,
         rest |-> SubSeq(s, end.used + (IF eq /\ end.key # <<>> THEN 2 ELSE 1), Len(s))]

\* A key that is empty leaves a hole, and stays where it is: nothing follows it.
RECURSIVE TokenizeRule(_, _)
TokenizeRule(s, i) ==
    IF i = MAX_RULE_TOKENS \/ s = <<>> THEN [ok |-> TRUE, tokens |-> <<>>, rest |-> s]
    ELSE LET k == FindKey(s)
             v == FindValue(k.rest)
             more == TokenizeRule(v.rest, i + 1)
         IN  IF ~k.ok THEN [ok |-> FALSE, tokens |-> <<>>, rest |-> <<>>]
             ELSE IF k.key = <<>> THEN [ok |-> TRUE, tokens |-> <<>>, rest |-> k.rest]
             ELSE IF ~v.ok THEN [ok |-> FALSE, tokens |-> <<>>, rest |-> <<>>]
             ELSE [more EXCEPT !.tokens = <<[key |-> k.key, value |-> v.value]>> \o @]
-----------------------------------------------------------------------------
(* A rule is a function of the keys that it has.                           *)

SetKey(r, k, v) ==
    IF DOMAIN r \cap SameField(k) # {} THEN NoRule           \* specified twice
    ELSE [n \in DOMAIN r \cup {k} |-> IF n = k THEN v ELSE r[n]]

\* Only "true" is kept; the last one counts.
SetEavesdrop(r, v) ==
    IF v = <<"true">> THEN [n \in DOMAIN r \cup {"eavesdrop"} |-> IF n = "eavesdrop" THEN v ELSE r[n]]
    ELSE Restrict(r, DOMAIN r \ {"eavesdrop"})

ParseToken(r, t) ==
    IF r = NoRule \/ Len(t.key) # 1 THEN NoRule
    ELSE IF t.key[1] \notin Known \/ ~Valid(t.key[1], t.value) THEN NoRule
    ELSE IF t.key[1] = "eavesdrop" THEN SetEavesdrop(r, t.value)
    ELSE SetKey(r, t.key[1], t.value)

ParseTokens(tokens) == FoldLeft(ParseToken, EmptyRule, tokens)

BusMatchRuleParse(s) ==
    LET t == TokenizeRule(s, 0) IN IF t.ok THEN ParseTokens(t.tokens) ELSE NoRule
-----------------------------------------------------------------------------
(* Writing a rule.                                                         *)

EscapedValue(v) ==
    LET esc(out, c) == IF c = Quote THEN out \o <<Quote, Backslash, Quote, Quote>> ELSE Append(out, c)
    IN  Append(FoldLeft(esc, <<Quote>>, v), Quote)

Order == <<"type", "member", "path", "path_namespace", "eavesdrop", "arg0", "arg0path",
           "arg0namespace", "arg1">>

MatchRuleToString(r) ==
    LET add(out, k) == IF k \notin DOMAIN r THEN out
                       ELSE (IF out = <<>> THEN out ELSE Append(out, ",")) \o <<k, "=">> \o EscapedValue(r[k])
    IN  FoldLeft(add, <<>>, Order)
-----------------------------------------------------------------------------
(* A client types a rule.                                                  *)

TextInit == text = <<>>

Type(p) == Len(text) < MaxPieces /\ text' = text \o p

TextNext == \E p \in Pieces : Type(p)

TextSpec == TextInit /\ [][TextNext]_text
-----------------------------------------------------------------------------
(* Properties.                                                             *)

\* What GetAllMatchRules shows of a rule that was accepted means that rule,
\* whatever quotes and backslashes its values hold: match_rule_to_string and
\* bus_match_rule_parse are inverse.
RoundTrip ==
    LET r == BusMatchRuleParse(text)
    IN  r # NoRule => BusMatchRuleParse(MatchRuleToString(r)) = r

\* Rules are compared by meaning (dbus_bus_remove_match): the keys may come in
\* any order, and a key that is refused is refused wherever it stands.
OrderIsFree ==
    LET t == TokenizeRule(text, 0)
    IN  t.ok => ParseTokens(Reverse(t.tokens)) = ParseTokens(t.tokens)
=============================================================================
