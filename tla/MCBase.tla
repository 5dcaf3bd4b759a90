---------------------------- MODULE MCBase ----------------------------
(***************************************************************************)
(* Small instances of the base library (containers, strings, main loop), of*)
(* the start and end of daemons, of the tools that start buses, and of the *)
(* comparison window of SAPDBLibTest.                                      *)
(*                                                                         *)
(* A behaviour is one of the component named by focus, chosen at the start *)
(* with one of the sets of bounds below; the other components stand still. *)
(* So the states are the sum, never the product, of those of the components.*)
(* Each component is instantiated with the bounds that make its own hard   *)
(* cases happen; a part of a property is about the component it names.     *)
(***************************************************************************)
EXTENDS BusContext, Sequences

VARIABLES
    focus,      \* the component of this behaviour
    head, prev, next, list_data, seq, used, walk, data_ops,
    buckets, n_entries, hi_rebuild_size, lo_rebuild_size, elements, preallocated, iter, owned,
    hash_badFree, ref,
    blocks, block_size, free_elements, in_use, allocated_elements, dead,
    allocated_slots, n_used_slots, slot, refs, slots, live, slot_badFree, sets,
    watches, enabled, oom, set, timeouts, tenabled, due, need_dispatch, depth,
    oom_watch_pending, changed, it, loop_ready, closed, loop_ops, ooms, events,
    list, functions, held, watch_enabled, watch_seen, owed, freed, sources_ops,
    now, interval, last, timeout_enabled, at, wait, todo, timeout_seen, fired, jumps,
    fds, n_reserved, n_allocated, size, want, sources_ready, missed, polls,
    str, mode, wanted, promised, given, failed,
    source, dest, lines, string_text, call,
    check_a, check_b,
    sap, flash, bus, fieldSap, fieldFlash, red, window_status, orderType, busy, shown,
    window_seen, changes,
    launch_pc, joined, tools_sitter, launch_mode, launch_bus, window, file, piped, sighup,
    tools_seen, handed, xup, ttyup,
    run_pc, run_bus, app, strangers, known, tools_ended, tools_status, run_killed,
    tools_text, other, words,
    parent, polled, open, have, asked, result, spawn_sitter, child, spawn_ended, sock, err,
    errWriters, handler, sigs, reused, killedOther

listVars == <<head, prev, next, list_data, seq, used, walk, data_ops>>
hashVars == <<buckets, n_entries, hi_rebuild_size, lo_rebuild_size, elements, preallocated, iter, owned,
    hash_badFree, ref>>
poolVars == <<blocks, block_size, free_elements, in_use, allocated_elements, dead>>
slotVars == <<allocated_slots, n_used_slots, slot, refs, slots, live, slot_badFree, sets>>
loopVars == <<watches, enabled, oom, set, timeouts, tenabled, due, need_dispatch, depth,
    oom_watch_pending, changed, it, loop_ready, closed, loop_ops, ooms, events>>
watchVars == <<list, functions, held, watch_enabled, watch_seen, owed, freed, sources_ops>>
timeoutVars == <<now, interval, last, timeout_enabled, at, wait, todo, timeout_seen, fired, jumps>>
pollVars == <<fds, n_reserved, n_allocated, size, want, sources_ready, missed, polls>>
bufVars == <<str, mode, wanted, promised, given, failed>>
editVars == <<source, dest, lines, string_text, call>>
checkVars == <<check_a, check_b>>
windowVars == <<sap, flash, bus, fieldSap, fieldFlash, red, window_status, orderType, busy, shown,
    window_seen, changes>>
launchVars == <<launch_pc, joined, tools_sitter, launch_mode, launch_bus, window, file, piped, sighup,
    tools_seen, handed, xup, ttyup>>
runVars == <<run_pc, run_bus, app, strangers, known, tools_ended, tools_status, run_killed>>
shellVars == <<tools_text, other, words>>
spawnVars == <<parent, polled, open, have, asked, result, spawn_sitter, child, spawn_ended, sock, err,
    errWriters, handler, sigs, reused, killedOther>>
baseVars == <<focus, vars, listVars, hashVars, poolVars, slotVars, loopVars, watchVars, timeoutVars, pollVars,
    bufVars, editVars, checkVars, windowVars, launchVars, runVars, shellVars, spawnVars>>

Data1 == INSTANCE Containers WITH
    Links <- {1, 2, 3, 4}, Data <- {1, 2}, MaxOps <- 5, Keys <- {1, 2, 5}, Copies <- {1},
    Values <- {1, 2}, SMALL <- 1, MULTIPLIER <- 2, HashMayFail <- TRUE, Lookups <- FALSE,
    FirstSize <- 1, MaxElements <- 5, MaxBlocks <- 3, PoolMayFail <- FALSE,
    Users <- {"u", "w", "x"}, Objects <- {"o"}, MaxRefs <- 2, MaxSets <- 2, ObjectsEnd <- TRUE,
    ops <- data_ops
Data2 == INSTANCE Containers WITH
    Links <- {1, 2, 3, 4}, Data <- {1, 2}, MaxOps <- 5, Keys <- {1, 2}, Copies <- {1, 2},
    Values <- {1, 2}, SMALL <- 1, MULTIPLIER <- 2, HashMayFail <- TRUE, Lookups <- TRUE,
    FirstSize <- 1, MaxElements <- 5, MaxBlocks <- 3, PoolMayFail <- FALSE,
    Users <- {"u", "w", "x"}, Objects <- {"o"}, MaxRefs <- 2, MaxSets <- 2, ObjectsEnd <- TRUE,
    ops <- data_ops
Data3 == INSTANCE Containers WITH
    Links <- {1, 2, 3, 4}, Data <- {1, 2}, MaxOps <- 5, Keys <- 1 .. 7, Copies <- {1},
    Values <- {1}, SMALL <- 1, MULTIPLIER <- 2, HashMayFail <- FALSE, Lookups <- FALSE,
    FirstSize <- 1, MaxElements <- 5, MaxBlocks <- 3, PoolMayFail <- FALSE,
    Users <- {"u", "w", "x"}, Objects <- {"o"}, MaxRefs <- 2, MaxSets <- 2, ObjectsEnd <- TRUE,
    ops <- data_ops
Loop1 == INSTANCE MainLoop WITH
    Watches <- {"r1", "w1", "r2"}, Timeouts <- {"t1"}, MaxOps <- 3, MaxOom <- 0, MaxEvents <- 2,
    MaxClosed <- 0, ready <- loop_ready, ops <- loop_ops
Loop2 == INSTANCE MainLoop WITH
    Watches <- {"r1", "w1"}, Timeouts <- {"t1"}, MaxOps <- 3, MaxOom <- 2, MaxEvents <- 2,
    MaxClosed <- 1, ready <- loop_ready, ops <- loop_ops
Sources1 == INSTANCE LoopSources WITH
    Items <- {"x", "y", "z"}, Loops <- {"A", "B"}, MaxOps <- 4, MSec <- 3, USec <- 2,
    Intervals <- {1, 4}, MaxNow <- 12, MaxJumps <- 0, Fds <- {1, 2, 3, 4, 5}, Flags <- {"r"},
    REALLOC_INCREMENT <- 2, MINIMUM_SIZE <- 1, SizeHint <- 1, max_events <- 2, MaxPolls <- 0,
    ops <- sources_ops, ready <- sources_ready
Sources2 == INSTANCE LoopSources WITH
    Items <- {"x", "y", "z"}, Loops <- {"A", "B"}, MaxOps <- 4, MSec <- 3, USec <- 2,
    Intervals <- {1, 4}, MaxNow <- 7, MaxJumps <- 1, Fds <- {1, 2, 3}, Flags <- {"r", "w"},
    REALLOC_INCREMENT <- 2, MINIMUM_SIZE <- 1, SizeHint <- 1, max_events <- 2, MaxPolls <- 1,
    ops <- sources_ops, ready <- sources_ready
String1 == INSTANCE DBusString WITH
    Align <- 2, Padding <- 2, MaxLength <- 3, BufBytes <- {"a", "b"}, Alignments <- {2},
    MaxWaste <- 1, TestBuild <- FALSE, EditBytes <- {97, 98, 64}, MaxSource <- 3, MaxDest <- 2,
    CheckBytes <- {0, 65, 128, 143, 144, 159, 160, 191, 193, 194, 224, 237, 239, 240, 244, 245},
    MaxA <- 4, MaxB <- 0, text <- string_text
String2 == INSTANCE DBusString WITH
    Align <- 4, Padding <- 4, MaxLength <- 3, BufBytes <- {"a"}, Alignments <- {2},
    MaxWaste <- 1, TestBuild <- TRUE, EditBytes <- {97, 10, 13}, MaxSource <- 4, MaxDest <- 0,
    CheckBytes <- {65, 128, 191, 248, 252, 254}, MaxA <- 5, MaxB <- 0, text <- string_text
String3 == INSTANCE DBusString WITH
    Align <- 4, Padding <- 4, MaxLength <- 3, BufBytes <- {"a"}, Alignments <- {2},
    MaxWaste <- 1, TestBuild <- TRUE, EditBytes <- {97, 10, 13}, MaxSource <- 4, MaxDest <- 0,
    CheckBytes <- {0, 65, 66}, MaxA <- 3, MaxB <- 3, text <- string_text
Window == INSTANCE CompareWindow WITH
    MaxValue <- 2, MaxChanges <- 1, status <- window_status, seen <- window_seen
Tools1 == INSTANCE SessionTools WITH
    Launchers <- {1, 2, 3}, Auto <- {1, 2, 3}, Stay <- {}, UserBus <- FALSE, Tty <- FALSE,
    LaunchFaults <- {"exec", "x"}, None <- 0, User <- 9, Strangers <- {"s1", "s2"},
    Statuses <- {0, 1, 3}, RunFaults <- {"daemon exec", "setenv", "fork", "exec", "crash"},
    Texts <- {"a", " ", "newline", "'", "dquote", "backslash", "#"}, MaxText <- 5,
    MaxOther <- 0, MaxWords <- 0, MaxWord <- 0, sitter <- tools_sitter, seen <- tools_seen,
    ended <- tools_ended, status <- tools_status, killed <- run_killed, text <- tools_text
Tools2 == INSTANCE SessionTools WITH
    Launchers <- {1, 2}, Auto <- {1}, Stay <- {2}, UserBus <- FALSE, Tty <- TRUE,
    LaunchFaults <- {"exec", "fork", "memory", "x"}, None <- 0, User <- 9,
    Strangers <- {"s1", "s2"}, Statuses <- {0, 1, 3},
    RunFaults <- {"daemon exec", "setenv", "fork", "exec", "crash"},
    Texts <- {"a", " ", "newline", "'", "dquote", "backslash"}, MaxText <- 3, MaxOther <- 3,
    MaxWords <- 0, MaxWord <- 0, sitter <- tools_sitter, seen <- tools_seen,
    ended <- tools_ended, status <- tools_status, killed <- run_killed, text <- tools_text
Tools3 == INSTANCE SessionTools WITH
    Launchers <- {1, 2}, Auto <- {1, 2}, Stay <- {}, UserBus <- FALSE, Tty <- TRUE,
    LaunchFaults <- {"signal", "x"}, None <- 0, User <- 9, Strangers <- {"s1", "s2"},
    Statuses <- {0, 1, 3}, RunFaults <- {"daemon exec", "setenv", "fork", "exec", "crash"},
    Texts <- {"a", " ", "'", "dquote", "backslash"}, MaxText <- 0, MaxOther <- 0, MaxWords <- 2,
    MaxWord <- 3, sitter <- tools_sitter, seen <- tools_seen, ended <- tools_ended,
    status <- tools_status, killed <- run_killed, text <- tools_text
Tools4 == INSTANCE SessionTools WITH
    Launchers <- {1, 2, 3}, Auto <- {1, 2}, Stay <- {}, UserBus <- TRUE, Tty <- FALSE,
    LaunchFaults <- {"exec", "x", "memory"}, None <- 0, User <- 9, Strangers <- {"s1", "s2"},
    Statuses <- {0, 1, 3}, RunFaults <- {"daemon exec", "setenv", "fork", "exec", "crash"},
    Texts <- {"a", " ", "'", "dquote", "backslash"}, MaxText <- 0, MaxOther <- 0, MaxWords <- 2,
    MaxWord <- 3, sitter <- tools_sitter, seen <- tools_seen, ended <- tools_ended,
    status <- tools_status, killed <- run_killed, text <- tools_text
Context == INSTANCE BusContext WITH Forks <- FALSE
Spawn == INSTANCE Babysitter WITH
    BabysitterMayFail <- FALSE, DaemonKills <- TRUE, sitter <- spawn_sitter,
    ended <- spawn_ended

-----------------------------------------------------------------------------
BaseInit ==
    /\ focus \in {"list", "hash", "hash keys", "hash size", "pool", "slots", "loop", "loop oom",
                  "watches", "timeouts", "clock jump", "set memory", "set", "string",
                  "test build", "edits", "lines", "utf8", "long utf8", "compare", "window",
                  "launch race", "launch session", "launch signals", "user bus", "run session",
                  "scanners", "splits", "quoting", "spawn", "one daemon", "forked daemon"}
    /\ Init
    /\ Data1!ListInit
    /\ IF focus = "hash keys" THEN Data2!HashInit
       ELSE IF focus = "hash size" THEN Data3!HashInit
       ELSE Data1!HashInit
    /\ Data1!PoolInit
    /\ Data1!SlotInit
    /\ IF focus = "loop oom" THEN Loop2!Init
       ELSE Loop1!Init
    /\ Sources1!WatchInit
    /\ IF focus = "timeouts" THEN Sources1!TimeoutInit
       ELSE IF focus = "clock jump" THEN Sources2!TimeoutInit
       ELSE now = 0 /\ interval = 0 /\ last = 0 /\ timeout_enabled = 0 /\ at = 0 /\ wait = 0
            /\ todo = 0 /\ timeout_seen = 0 /\ fired = 0 /\ jumps = 0
    /\ IF focus = "set" THEN Sources2!PollInit
       ELSE Sources1!PollInit
    /\ IF focus = "test build" THEN String2!BufInit
       ELSE String1!BufInit
    /\ IF focus = "edits" THEN String1!EditInit
       ELSE IF focus = "lines" THEN String2!EditInit
       ELSE source = 0 /\ dest = 0 /\ lines = 0 /\ string_text = 0 /\ call = 0
    /\ IF focus = "long utf8" THEN String2!CheckInit
       ELSE IF focus = "compare" THEN String3!CheckInit
       ELSE String1!CheckInit
    /\ IF focus = "window" THEN Window!Init
       ELSE sap = 0 /\ flash = 0 /\ bus = 0 /\ fieldSap = 0 /\ fieldFlash = 0 /\ red = 0
            /\ window_status = 0 /\ orderType = 0 /\ busy = 0 /\ shown = 0 /\ window_seen = 0
            /\ changes = 0
    /\ IF focus = "launch session" THEN Tools2!LaunchInit
       ELSE IF focus = "launch signals" THEN Tools3!LaunchInit
       ELSE IF focus = "user bus" THEN Tools4!LaunchInit
       ELSE Tools1!LaunchInit
    /\ IF focus = "run session" THEN Tools1!RunInit
       ELSE run_pc = 0 /\ run_bus = 0 /\ app = 0 /\ strangers = 0 /\ known = 0
            /\ tools_ended = 0 /\ tools_status = 0 /\ run_killed = 0
    /\ IF focus = "splits" THEN Tools2!ShellInit
       ELSE IF focus = "quoting" THEN Tools3!ShellInit
       ELSE Tools1!ShellInit
    /\ Spawn!Init

BaseNext ==
    /\ UNCHANGED focus
    /\ IF focus = "forked daemon" THEN Next
       ELSE IF focus = "one daemon" THEN Context!Next ELSE UNCHANGED vars
    /\ IF focus = "list" THEN Data1!ListNext ELSE UNCHANGED listVars
    /\ IF focus = "hash" THEN Data1!HashNext
       ELSE IF focus = "hash keys" THEN Data2!HashNext
       ELSE IF focus = "hash size" THEN Data3!HashNext ELSE UNCHANGED hashVars
    /\ IF focus = "pool" THEN Data1!PoolNext ELSE UNCHANGED poolVars
    /\ IF focus = "slots" THEN Data1!SlotNext ELSE UNCHANGED slotVars
    /\ IF focus = "loop" THEN Loop1!Next
       ELSE IF focus = "loop oom" THEN Loop2!Next ELSE UNCHANGED loopVars
    /\ IF focus = "watches" THEN Sources1!WatchNext ELSE UNCHANGED watchVars
    /\ IF focus = "timeouts" THEN Sources1!TimeoutNext
       ELSE IF focus = "clock jump" THEN Sources2!TimeoutNext ELSE UNCHANGED timeoutVars
    /\ IF focus = "set memory" THEN Sources1!PollNext
       ELSE IF focus = "set" THEN Sources2!PollNext ELSE UNCHANGED pollVars
    /\ IF focus = "string" THEN String1!BufNext
       ELSE IF focus = "test build" THEN String2!BufNext ELSE UNCHANGED bufVars
    /\ IF focus = "edits" THEN String1!EditNext
       ELSE IF focus = "lines" THEN String2!EditNext ELSE UNCHANGED editVars
    /\ IF focus = "utf8" THEN String1!CheckNext
       ELSE IF focus = "long utf8" THEN String2!CheckNext
       ELSE IF focus = "compare" THEN String3!CheckNext ELSE UNCHANGED checkVars
    /\ IF focus = "window" THEN Window!Next ELSE UNCHANGED windowVars
    /\ IF focus = "launch race" THEN Tools1!LaunchNext
       ELSE IF focus = "launch session" THEN Tools2!LaunchNext
       ELSE IF focus = "launch signals" THEN Tools3!LaunchNext
       ELSE IF focus = "user bus" THEN Tools4!LaunchNext ELSE UNCHANGED launchVars
    /\ IF focus = "run session" THEN Tools1!RunNext ELSE UNCHANGED runVars
    /\ IF focus = "scanners" THEN Tools1!ShellNext
       ELSE IF focus = "splits" THEN Tools2!ShellNext
       ELSE IF focus = "quoting" THEN Tools3!ShellNext ELSE UNCHANGED shellVars
    /\ IF focus = "spawn" THEN Spawn!Next ELSE UNCHANGED spawnVars

BaseSpec == BaseInit /\ [][BaseNext]_baseVars

-----------------------------------------------------------------------------

\* The data structures hold what was put in, each thing once, and give all of it back:
\* lists and their iteration (dbus-list.c), hash tables that grow and shrink under their
\* iterators (dbus-hash.c), pools of blocks (dbus-mempool.c), data slots that two owners
\* allocate (dbus-dataslot.c), strings that move, grow, split and give their buffer away
\* (dbus-string.c), UTF-8 checks, and words that are quoted and parsed (dbus-shell.c).
DataIsExact ==
    /\ focus = "list" => Data1!PointersAreTheList /\ Data1!WalkVisitsAll
    /\ focus = "hash" => Data1!LookupRight /\ Data1!FreedOnce
    /\ focus = "hash keys" => Data2!FreedOnce
    /\ focus = "hash size" => Data3!ChainsStayShort /\ Data3!IterationComplete
    /\ focus = "pool" => Data1!WithinBlock /\ Data1!EachOnce /\ Data1!StatsAddUp
    /\ focus = "slots" => Data1!SlotsAreDistinct /\ Data1!DataFreedOnce
    /\ focus = "watches" => Sources1!DataFreedOnce
    /\ focus = "string" => String1!BufTypeOK /\ String1!HoldsWhatWasWritten /\ String1!StaysInsideItsBlock
            /\ String1!SpaceIsKept /\ String1!StolenWhole
    /\ focus = "test build" => String2!StaysInsideItsBlock /\ String2!HoldsWhatWasWritten
    /\ focus = "edits" => String1!EditsAreExact /\ String1!SplitsOnce /\ String1!HexIsInverted
    /\ focus = "lines" => String2!NoLineIsLost /\ String2!EndsOfLinesAreWhole /\ String2!ChopsBothEnds
    /\ focus = "utf8" => String1!ChecksAgree /\ String1!Utf8IsExact
    /\ focus = "long utf8" => String2!Utf8IsExact
    /\ focus = "compare" => String3!ComparisonsAreExact /\ String3!CStringsAreWhole
    /\ focus = "scanners" => Tools1!TokensUnquote
    /\ focus = "splits" => Tools2!SplitsAtBlanks
    /\ focus = "quoting" => Tools3!QuotedWordsReturn

\* Between two polls the loop never works with a stale set: every enabled watch is polled unless it
\* waits for memory, until the loop crashes where a handler has removed the last watches of a
\* descriptor that another handler left out for want of memory (dbus-mainloop.c:840);
\* a timeout is neither early nor forgotten when the clock is set back (dbus-mainloop.c),
\* a watch list and its loop agree after a failed change of functions (dbus-watch.c), and
\* the poll set matches its array (dbus-socket-set-poll.c).
LoopIsCurrent ==
    /\ focus = "loop" => Loop1!NothingUnpolled
    /\ focus = "loop oom" => Loop2!NothingUnpolled
    /\ focus = "watches" => Sources1!OneLoopHasAll /\ Sources1!LoopKnowsEnabled
    /\ focus = "timeouts" => Sources1!NotEarly /\ Sources1!WaitIsRight
    /\ focus = "clock jump" => Sources2!NeverLongerThanInterval
    /\ focus = "set memory" => Sources1!FitsInMemory
    /\ focus = "set" => Sources2!EntriesAgree

\* What the comparison window shows is of one query; the colours of the text and of the type number
\* are the verdict on the two rows of that query, and the colour of the quantity says only that the
\* flash database has an entry (sapdblibexample.cpp: getMKTTest, getOrderTypeNrTest, getOrderQty).
WindowTellsTheTruth ==
    /\ focus = "window" => Window!TypeOK /\ Window!ColourIsVerdict /\ Window!OneQueryShown

\* However launchers race and sessions and programs end, one bus serves a session, a bus that
\* lost the race is killed, no bus is left without somebody to end it (dbus-launch.c,
\* dbus-run-session.c), and what the babysitter reports of a child is what happened to it
\* (dbus-spawn.c).
BusesHaveAnOwner ==
    /\ focus = "launch race" => Tools1!LaunchTypeOK /\ Tools1!OneBus /\ Tools1!LoserIsKilled /\ Tools1!NoOrphan
    /\ focus = "launch session" => Tools2!LaunchTypeOK /\ Tools2!NoOrphan /\ Tools2!FileFollowsWindow
    /\ focus = "launch signals" => Tools3!OneBus /\ Tools3!NoOrphan
    /\ focus = "user bus" => Tools4!FileFollowsWindow
    /\ focus = "run session" => Tools1!RunTypeOK /\ Tools1!StatusIsThePrograms /\ Tools1!NobodyElseIsKilled
            /\ Tools1!ChildrenLeft
    /\ focus = "spawn" => Spawn!ReportsWhatHappened

\* The loop calls a handler only for a watch that is still registered and enabled when it
\* is called, not only when the poll returned (_dbus_loop_iterate); a loop that was told to
\* quit stays so; a timeout restarts from its handling; dbus-launch hands out the address
\* of a bus that lives.
HandlersAreCurrent ==
    [][/\ focus = "loop" => Loop1!HandlersAreCurrent /\ Loop1!QuitIsFinal
       /\ focus = "loop oom" => Loop2!HandlersAreCurrent /\ Loop2!QuitIsFinal
       /\ focus = "timeouts" => Sources1!RestartedByHandling
       /\ focus = "launch race" => Tools1!HandedAlive
       /\ focus = "launch signals" => Tools3!HandedAlive]_baseVars
=============================================================================
