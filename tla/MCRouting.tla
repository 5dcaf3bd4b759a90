---------------------------- MODULE MCRouting ----------------------------
(***************************************************************************)
(* Small instances of the daemon's routing: transactions, the driver, match*)
(* rules and policies.                                                     *)
(*                                                                         *)
(* A behaviour is one of the component named by focus, chosen at the start *)
(* with one of the sets of bounds below; the other components stand still. *)
(* So the states are the sum, never the product, of those of the components.*)
(* Each component is instantiated with the bounds that make its own hard   *)
(* cases happen; a part of a property is about the component it names.     *)
(***************************************************************************)
EXTENDS BusRegistry

VARIABLES
    focus,      \* the component of this behaviour
    up, tx, toSend, out, pending, timer, tx_owners, refs, tx_flags, tx_owned, before, asked,
    how, debt, failures, lasting,
    driver_conn, uname, registered, driver_owners, nextMajor, nextMinor, used, env, driver_told,
    failed, handled,
    pool, nRules, alive, monitors, owner, by, answers,
    text,
    written, loaded, order, policy, previous, reloadFailed, policy_owners

txVars == <<up, tx, toSend, out, pending, timer, tx_owners, refs, tx_flags, tx_owned, before, asked,
    how, debt, failures, lasting>>
driverVars == <<driver_conn, uname, registered, driver_owners, nextMajor, nextMinor, used, env, driver_told,
    failed, handled>>
matchVars == <<pool, nRules, alive, monitors, owner, by, answers>>
textVars == <<text>>
policyVars == <<written, loaded, order, policy, previous, reloadFailed, policy_owners>>
suiteVars == <<focus, vars, txVars, driverVars, matchVars, textVars, policyVars>>

Tx1 == INSTANCE BusTransactions WITH
    Conns <- {"a", "b", "m"}, Monitors <- {"m"}, Serials <- {1, 2}, Ops <- {"call", "reply"},
    Flags <- {{}}, MaxReplies <- 1, ExpireAfter <- TRUE, MaxFailures <- 1, owners <- tx_owners,
    flags <- tx_flags, owned <- tx_owned
Tx2 == INSTANCE BusTransactions WITH
    Conns <- {"a", "b"}, Monitors <- {}, Serials <- {1, 2}, Ops <- {"call", "reply"},
    Flags <- {{}}, MaxReplies <- 2, ExpireAfter <- TRUE, MaxFailures <- 0, owners <- tx_owners,
    flags <- tx_flags, owned <- tx_owned
Tx3 == INSTANCE BusTransactions WITH
    Conns <- {"a", "b"}, Monitors <- {}, Serials <- {1, 2}, Ops <- {"call", "reply"},
    Flags <- {{}}, MaxReplies <- 2, ExpireAfter <- FALSE, MaxFailures <- 2, owners <- tx_owners,
    flags <- tx_flags, owned <- tx_owned
Tx4 == INSTANCE BusTransactions WITH
    Conns <- {"a", "b", "c"}, Monitors <- {}, Serials <- {1}, Ops <- {"request", "release"},
    Flags <- {{"allow"}, {"replace"}}, MaxReplies <- 1, ExpireAfter <- TRUE,
    MaxFailures <- 1, owners <- tx_owners, flags <- tx_flags, owned <- tx_owned
Tx5 == INSTANCE BusTransactions WITH
    Conns <- {"a", "b"}, Monitors <- {}, Serials <- {1}, Ops <- {"request", "release"},
    Flags <- {{}, {"allow"}, {"replace"}, {"noqueue"}, {"allow", "noqueue"}}, MaxReplies <- 1,
    ExpireAfter <- TRUE, MaxFailures <- 1, owners <- tx_owners, flags <- tx_flags,
    owned <- tx_owned
Driver1 == INSTANCE BusDriver WITH
    Conns <- {"c1", "c2", "c3"}, Privileged <- {"c1"}, Unknown <- {"c2"}, WellKnown <- 1,
    IntMax <- 1, MaxMajor <- 3, Keys <- {}, Members <- {}, Systemd <- FALSE, NoMemory <- FALSE,
    conn <- driver_conn, owners <- driver_owners, told <- driver_told
Driver2 == INSTANCE BusDriver WITH
    Conns <- {"c1", "c2"}, Privileged <- {"c1"}, Unknown <- {}, WellKnown <- 1, IntMax <- 1,
    MaxMajor <- 1, Keys <- {"k", "l"}, Members <- {}, Systemd <- TRUE, NoMemory <- TRUE,
    conn <- driver_conn, owners <- driver_owners, told <- driver_told
Driver3 == INSTANCE BusDriver WITH
    Conns <- {"c1"}, Privileged <- {"c1"}, Unknown <- {}, WellKnown <- 1, IntMax <- 1,
    MaxMajor <- 2, Keys <- {},
    Members <- {"Hello", "NameHasOwner", "BecomeMonitor", "GetStats", "Other"},
    Systemd <- FALSE, NoMemory <- FALSE, conn <- driver_conn, owners <- driver_owners,
    told <- driver_told
Match1 == INSTANCE BusMatch WITH
    Conns <- {":1", ":2"}, Names <- {"n"}, RTypes <- {"", "signal"}, RIfaces <- {"", "I"},
    RSenders <- {""}, RDests <- {""}, RPaths <- {""}, RSpaces <- {FALSE}, REaves <- {TRUE},
    MTypes <- {"signal", "call"}, MIfaces <- {"", "I"}, MDests <- {"", ":1"}, MPaths <- {"/a"},
    MaxRules <- 2, Monitors <- {}, Keys <- {"arg0", "arg0path", "member", "eavesdrop"},
    Chars <- {"x", "true", "'", "backslash", ",", " "}, MAX_RULE_TOKENS <- 3, MaxPieces <- 5
Match2 == INSTANCE BusMatch WITH
    Conns <- {":1", ":2"}, Names <- {"n"}, RTypes <- {""}, RIfaces <- {""},
    RSenders <- {"", ":1", "n"}, RDests <- {"", "n"}, RPaths <- {""}, RSpaces <- {FALSE},
    REaves <- {TRUE, FALSE}, MTypes <- {"signal"}, MIfaces <- {"I"}, MDests <- {"", ":2", "n"},
    MPaths <- {"/a"}, MaxRules <- 1, Monitors <- {":1"},
    Keys <- {"arg0", "arg0path", "member", "path", "path_namespace"},
    Chars <- {"x", "signal", ","}, MAX_RULE_TOKENS <- 3, MaxPieces <- 7
Match3 == INSTANCE BusMatch WITH
    Conns <- {":1", ":2"}, Names <- {}, RTypes <- {""}, RIfaces <- {""}, RSenders <- {""},
    RDests <- {""}, RPaths <- {"/", "/a"}, RSpaces <- {TRUE, FALSE}, REaves <- {FALSE},
    MTypes <- {"signal"}, MIfaces <- {"I"}, MDests <- {""}, MPaths <- {"", "/a", "/ab", "/a/b"},
    MaxRules <- 2, Monitors <- {},
    Keys <- {"arg0", "arg0path", "member", "path", "path_namespace"},
    Chars <- {"x", "signal", ","}, MAX_RULE_TOKENS <- 3, MaxPieces <- 7
Policy1 == INSTANCE BusPolicy WITH
    Conns <- {"c", "d"}, Members <- {"c"}, AtConsole <- {"d"},
    Sections <- {"default", "group", "console"}, Kinds <- {"send"}, RTypes <- {""},
    RIfaces <- {"", "I"}, RNames <- {""}, RReqs <- {"default"}, REaves <- {FALSE},
    MaxRules <- 2, owners <- policy_owners
Policy2 == INSTANCE BusPolicy WITH
    Conns <- {"c"}, Members <- {"c"}, AtConsole <- {},
    Sections <- {"default", "group", "user", "mandatory"}, Kinds <- {"send"}, RTypes <- {""},
    RIfaces <- {""}, RNames <- {"", "n"}, RReqs <- {"default"}, REaves <- {FALSE},
    MaxRules <- 2, owners <- policy_owners
Policy3 == INSTANCE BusPolicy WITH
    Conns <- {"c"}, Members <- {"c"}, AtConsole <- {}, Sections <- {"default"},
    Kinds <- {"send", "own"}, RTypes <- {""}, RIfaces <- {"", "I"}, RNames <- {""},
    RReqs <- {"default"}, REaves <- {FALSE}, MaxRules <- 2, owners <- policy_owners
Policy4 == INSTANCE BusPolicy WITH
    Conns <- {"c"}, Members <- {"c"}, AtConsole <- {}, Sections <- {"default", "mandatory"},
    Kinds <- {"send"}, RTypes <- {"", "reply"}, RIfaces <- {"", "I"}, RNames <- {""},
    RReqs <- {"default"}, REaves <- {FALSE}, MaxRules <- 2, owners <- policy_owners
Policy5 == INSTANCE BusPolicy WITH
    Conns <- {"c", "d"}, Members <- {}, AtConsole <- {}, Sections <- {"default"},
    Kinds <- {"send", "receive"}, RTypes <- {""}, RIfaces <- {""}, RNames <- {""},
    RReqs <- {"default"}, REaves <- {TRUE, FALSE}, MaxRules <- 2, owners <- policy_owners
Policy6 == INSTANCE BusPolicy WITH
    Conns <- {"c"}, Members <- {}, AtConsole <- {}, Sections <- {"default"},
    Kinds <- {"send", "receive"}, RTypes <- {""}, RIfaces <- {""}, RNames <- {""},
    RReqs <- {"default"}, REaves <- {TRUE, FALSE}, MaxRules <- 2, owners <- policy_owners

-----------------------------------------------------------------------------
RoutingInit ==
    /\ focus \in {"registry", "replies", "owed", "reply timer", "names", "flags", "driver",
                  "driver oom", "calls", "lists", "name rules", "path rules", "rule text",
                  "rule order", "reload", "sections", "optimize", "policy of replies", "eavesdrop",
                  "receive rules"}
    /\ Init
    /\ IF focus = "owed" THEN Tx2!Init
       ELSE IF focus = "reply timer" THEN Tx3!Init
       ELSE IF focus = "names" THEN Tx4!Init
       ELSE IF focus = "flags" THEN Tx5!Init
       ELSE Tx1!Init
    /\ IF focus = "driver oom" THEN Driver2!Init
       ELSE IF focus = "calls" THEN Driver3!Init
       ELSE Driver1!Init
    /\ IF focus = "name rules" THEN Match2!MatchInit
       ELSE IF focus = "path rules" THEN Match3!MatchInit
       ELSE Match1!MatchInit
    /\ IF focus = "rule order" THEN Match2!TextInit
       ELSE Match1!TextInit
    /\ IF focus = "reload" THEN Policy1!Init
       ELSE IF focus = "sections" THEN Policy2!Init
       ELSE IF focus = "optimize" THEN Policy3!Init
       ELSE IF focus = "policy of replies" THEN Policy4!Init
       ELSE IF focus = "eavesdrop" THEN Policy5!Init
       ELSE IF focus = "receive rules" THEN Policy6!Init
       ELSE written = 0 /\ loaded = 0 /\ order = 0 /\ policy = 0 /\ previous = 0
            /\ reloadFailed = 0 /\ policy_owners = 0

RoutingNext ==
    /\ UNCHANGED focus
    /\ IF focus = "registry" THEN Next ELSE UNCHANGED vars
    /\ IF focus = "replies" THEN Tx1!Next
       ELSE IF focus = "owed" THEN Tx2!Next
       ELSE IF focus = "reply timer" THEN Tx3!Next
       ELSE IF focus = "names" THEN Tx4!Next
       ELSE IF focus = "flags" THEN Tx5!Next ELSE UNCHANGED txVars
    /\ IF focus = "driver" THEN Driver1!Next
       ELSE IF focus = "driver oom" THEN Driver2!Next
       ELSE IF focus = "calls" THEN Driver3!Next ELSE UNCHANGED driverVars
    /\ IF focus = "lists" THEN Match1!MatchNext
       ELSE IF focus = "name rules" THEN Match2!MatchNext
       ELSE IF focus = "path rules" THEN Match3!MatchNext ELSE UNCHANGED matchVars
    /\ IF focus = "rule text" THEN Match1!TextNext
       ELSE IF focus = "rule order" THEN Match2!TextNext ELSE UNCHANGED textVars
    /\ IF focus = "reload" THEN Policy1!Next
       ELSE IF focus = "sections" THEN Policy2!Next
       ELSE IF focus = "optimize" THEN Policy3!Next
       ELSE IF focus = "policy of replies" THEN Policy4!Next
       ELSE IF focus = "eavesdrop" THEN Policy5!Next
       ELSE IF focus = "receive rules" THEN Policy6!Next ELSE UNCHANGED policyVars

RoutingSpec == RoutingInit /\ [][RoutingNext]_suiteVars

-----------------------------------------------------------------------------

\* The tables of the bus agree with each other over requests, departures and one failure of
\* memory at any step of a transaction: an owner of a name is a live connection, is listed once
\* and counts the name once, and the queries of the driver about a name agree (services.c,
\* driver.c).  Two things are not promised.  When a cancelled transaction runs
\* restore_ownership, the one owner that it puts back is freed or listed twice, or an assertion
\* ends the process (services.c:930, 975, 1093); the property still holds of all others.  And a
\* connection whose Hello failed after it got its name owns names that do not lead to it, so
\* OwnersCanBeReached is about the instance without failures.
NamesResolve ==
    /\ focus = "names" => Tx4!TypeOK /\ Tx4!OwnersAreListedOnce /\ Tx4!OwnersAreAlive
    /\ focus = "flags" => Tx5!OwnersAreListedOnce /\ Tx5!OwnersAreAlive
    /\ focus = "driver" => Driver1!TypeOK /\ Driver1!QueriesAgree /\ Driver1!OwnersCanBeReached
    /\ focus = "driver oom" => Driver2!QueriesAgree
    /\ focus = "calls" => Driver3!LookupIsUnambiguous

\* A transaction that is cancelled in the middle leaves the pending replies as they were, and
\* of the names and queues everything but the owners whose change no hook undoes: those that a
\* request gave new flags, moved or took out of the queue, and the old owner of a handover or of
\* a ReleaseName, which restore_ownership puts back wrongly (services.c:930, 975, 1093).  The
\* timer may stay enabled and is never lost.  A transaction that is executed sends everything,
\* in order; policies refuse nothing here but replies that nobody waits for (connection.c).
TransactionsAreWhole ==
    /\ focus = "replies" => Tx1!TypeOK /\ Tx1!AllOrNothing /\ Tx1!InOrder
    /\ focus = "owed" => Tx2!OwedIsPending
    /\ focus = "reply timer" => Tx3!TimerIsArmed
    /\ focus = "names" => Tx4!AllOrNothing
    /\ focus = "flags" => Tx5!AllOrNothing


\* A unique name is never given twice, not when the numbers run out of an int and not after a
\* Hello that failed; a connection that adds or removes rules, becomes a monitor or leaves takes
\* none of the rules of others, but those that name it (driver.c, signals.c).
DriverKeepsItsWord ==
    [][/\ focus = "driver" => Driver1!NamesNeverReused
       /\ focus = "driver oom" => Driver2!NamesNeverReused
       /\ focus = "name rules" => Match2!OthersKeepTheirRules
       /\ focus = "path rules" => Match3!OthersKeepTheirRules]_suiteVars
=============================================================================
