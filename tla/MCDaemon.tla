---------------------------- MODULE MCDaemon ----------------------------
(***************************************************************************)
(* Small instances of the daemon around the routing: connections and their *)
(* limits, activation, configuration and its reload, watched directories,  *)
(* service files and the activation helper.                                *)
(*                                                                         *)
(* A behaviour is one of the component named by focus, chosen at the start *)
(* with one of the sets of bounds below; the other components stand still. *)
(* So the states are the sum, never the product, of those of the components.*)
(* Each component is instantiated with the bounds that make its own hard   *)
(* cases happen; a part of a property is about the component it names.     *)
(***************************************************************************)
EXTENDS BusConnections

VARIABLES
    focus,      \* the component of this behaviour
    conn, owners, registry_owned, announced, registry_told, last,
    reset_limit, reset_incomplete, reset_completed, reset_nIncomplete, reset_nCompleted,
    reset_byUser, reset_connected, reset_seen, reset_named, reset_late, reset_timer,
    reset_accepting, reset_fds, reset_fdTimer,
    pending, nPending, activation_owned, activation_connected, child, req, answers, oom, forgot,
    file, reload_told, pipe, signals, terminated, phase, parser, reload_caller, part, freed,
    reload_error, returned,
    content, stack, config_error, outcome,
    inode, inodes, removed, list, wds, kernel, events, hup, changed, watch_seen,
    disk, cache, now, found,
    text, pos, file_file, cap, live, twice, status,
    services_pc, dirs, services_caller, setuid, env, ids, groups, helper_dir, services_error,
    code, report

registryVars == <<conn, owners, registry_owned, announced, registry_told, last>>
resetVars == <<reset_limit, reset_incomplete, reset_completed, reset_nIncomplete, reset_nCompleted,
    reset_byUser, reset_connected, reset_seen, reset_named, reset_late, reset_timer,
    reset_accepting, reset_fds, reset_fdTimer>>
activationVars == <<pending, nPending, activation_owned, activation_connected, child, req, answers, oom, forgot>>
reloadVars == <<file, reload_told, pipe, signals, terminated, phase, parser, reload_caller, part, freed,
    reload_error, returned>>
configVars == <<content, stack, config_error, outcome>>
watchVars == <<inode, inodes, removed, list, wds, kernel, events, hup, changed, watch_seen>>
dirVars == <<disk, cache, now, found>>
fileVars == <<text, pos, file_file, cap, live, twice, status>>
helperVars == <<services_pc, dirs, services_caller, setuid, env, ids, groups, helper_dir, services_error,
    code, report>>
daemonVars == <<focus, vars, registryVars, resetVars, activationVars, reloadVars, configVars,
    watchVars, dirVars, fileVars, helperVars>>

Registry == INSTANCE BusRegistry WITH
    Conns <- {"c1", "c2"}, Names <- {"n1", "n2"}, MaxOwned <- 2, owned <- registry_owned,
    told <- registry_told
Reset == INSTANCE BusConnections WITH
    Conns <- {"c1", "c2", "c3"}, Root <- {"c1"}, Limits <- {2, 3}, MaxCompleted <- 2,
    MaxPerUser <- 2, FailAt <- {"setup", "policy", "welcome", "loginfo"}, FdCount <- 0,
    limit <- reset_limit, incomplete <- reset_incomplete, completed <- reset_completed,
    nIncomplete <- reset_nIncomplete, nCompleted <- reset_nCompleted, byUser <- reset_byUser,
    connected <- reset_connected, seen <- reset_seen, named <- reset_named, late <- reset_late,
    timer <- reset_timer, accepting <- reset_accepting, fds <- reset_fds,
    fdTimer <- reset_fdTimer
Activation1 == INSTANCE BusActivation WITH
    Services <- {"A", "B"}, Files <- {"A", "B"}, Shared <- {"A", "B"}, Units <- {},
    UseSystemd <- FALSE, Requests <- {1, 2, 3}, Clients <- {"c"}, MaxPending <- 2, MaxOom <- 1,
    owned <- activation_owned, connected <- activation_connected
Activation2 == INSTANCE BusActivation WITH
    Services <- {"A", "systemd", "X"}, Files <- {"A", "systemd"}, Shared <- {}, Units <- {"A"},
    UseSystemd <- TRUE, Requests <- {1, 2}, Clients <- {"c", "d"}, MaxPending <- 3, MaxOom <- 0,
    owned <- activation_owned, connected <- activation_connected
Reload1 == INSTANCE BusReload WITH
    MaxVersion <- 3, Broken <- {2}, PipeSize <- 3, MaxSignals <- 4,
    Failures <- {"contexts", "clients"}, told <- reload_told, caller <- reload_caller,
    error <- reload_error
Reload2 == INSTANCE BusReload WITH
    MaxVersion <- 3, Broken <- {2}, PipeSize <- 3, MaxSignals <- 4, Failures <- {},
    told <- reload_told, caller <- reload_caller, error <- reload_error
Reload3 == INSTANCE BusReload WITH
    MaxVersion <- 3, Broken <- {2}, PipeSize <- 2, MaxSignals <- 4,
    Failures <- {"copy", "clients", "address", "servicehelper", "activation", "contexts", "dirs"},
    told <- reload_told, caller <- reload_caller, error <- reload_error
Config1 == INSTANCE BusConfig WITH
    Files <- {"main", "a", "b"}, InDir <- {"b"}, Plain <- {}, Users <- {}, Dirs <- {},
    Addresses <- {"addr"}, Limits <- {"large"}, Rules <- {}, Contexts <- {}, Includes <- {"a"},
    Optional <- {"missing"}, DirIncludes <- {"d"}, MaxLen <- 2, error <- config_error,
    Directories <- {"x", "y"}, Kind <- "inotify", Again <- FALSE, MaxInode <- 2,
    Errors <- {"oom"}, seen <- watch_seen
Config2 == INSTANCE BusConfig WITH
    Files <- {"main", "a"}, InDir <- {"a"}, Plain <- {"fork", "stray"}, Users <- {"u", "v"},
    Dirs <- {}, Addresses <- {"addr"}, Limits <- {}, Rules <- {}, Contexts <- {},
    Includes <- {"a"}, Optional <- {}, DirIncludes <- {"d", "missing"}, MaxLen <- 2,
    error <- config_error,
    Directories <- {"x", "y"}, Kind <- "kqueue", Again <- FALSE, MaxInode <- 2,
    Errors <- {"oom"}, seen <- watch_seen
Config3 == INSTANCE BusConfig WITH
    Files <- {"main", "a"}, InDir <- {"a"}, Plain <- {}, Users <- {"u", "v"}, Dirs <- {"x"},
    Addresses <- {"addr"}, Limits <- {}, Rules <- {"r", "s"}, Contexts <- {"k"},
    Includes <- {"a"}, Optional <- {}, DirIncludes <- {"d"}, MaxLen <- 2, error <- config_error,
    Directories <- {}, Kind <- "inotify", Again <- FALSE, MaxInode <- 0, Errors <- {},
    seen <- watch_seen
Services1 == INSTANCE ServiceDescriptions WITH
    LineKinds <- {"[A]", "[B]", "bad header", "blank", "comment", "k=", "l=", "locale", "no equals", "odd key", "no key", "bad escape"},
    MaxLines <- 3, MayRefuse <- TRUE, Files <- {"f1", "f2"}, DirOf <- [f \in {"f1", "f2"} |-> 1],
    Names <- {"A", "B"}, MaxTime <- 3, NDirs <- 2,
    HelperKinds <- {"absent", "broken", "no memory", "other name", "no name", "no exec", "no user", "good"},
    Callers <- {"messagebus", "root", "someone"},
    Steps <- {"env", "name", "config", "user", "keys", "groups", "gid", "uid", "argv", "exec"},
    pc <- services_pc, caller <- services_caller, error <- services_error
Services2 == INSTANCE ServiceDescriptions WITH
    LineKinds <- {"[A]", "[B]", "k=", "l=", "locale"}, MaxLines <- 5, MayRefuse <- FALSE,
    Files <- {"f1", "f2", "g"}, DirOf <- [f \in {"f1", "f2", "g"} |-> IF f = "g" THEN 2 ELSE 1],
    Names <- {"A"}, MaxTime <- 2, NDirs <- 2,
    HelperKinds <- {"absent", "broken", "no memory", "other name", "no name", "no exec", "no user", "good"},
    Callers <- {"messagebus", "root", "someone"},
    Steps <- {"env", "name", "config", "user", "keys", "groups", "gid", "uid", "argv", "exec"},
    pc <- services_pc, caller <- services_caller, error <- services_error

-----------------------------------------------------------------------------
DaemonInit ==
    /\ focus \in {"owned names", "limits", "reset limits", "activation", "systemd",
                  "reload", "whole reload", "failed reload", "files", "merge", "dirs",
                  "inotify", "kqueue", "service files", "directories",
                  "lines", "lookup", "helper"}
    /\ Registry!Init
    /\ Init
    /\ IF focus = "reset limits" THEN Reset!Init
       ELSE reset_limit = 0 /\ reset_incomplete = 0 /\ reset_completed = 0
            /\ reset_nIncomplete = 0 /\ reset_nCompleted = 0 /\ reset_byUser = 0
            /\ reset_connected = 0 /\ reset_seen = 0 /\ reset_named = 0 /\ reset_late = 0
            /\ reset_timer = 0 /\ reset_accepting = 0 /\ reset_fds = 0 /\ reset_fdTimer = 0
    /\ IF focus = "systemd" THEN Activation2!Init
       ELSE Activation1!Init
    /\ IF focus = "whole reload" THEN Reload2!Init
       ELSE IF focus = "failed reload" THEN Reload3!Init
       ELSE Reload1!Init
    /\ IF focus = "files" THEN Config1!Init
       ELSE IF focus = "merge" THEN Config2!Init
       ELSE IF focus = "dirs" THEN Config3!Init
       ELSE content = 0 /\ stack = 0 /\ config_error = 0 /\ outcome = 0
    /\ IF focus = "kqueue" THEN Config2!WatchInit
       ELSE Config1!WatchInit
    /\ IF focus = "directories" THEN Services2!DirInit
       ELSE Services1!DirInit
    /\ IF focus = "lines" THEN Services1!FileInit
       ELSE IF focus = "lookup" THEN Services2!FileInit
       ELSE text = 0 /\ pos = 0 /\ file_file = 0 /\ cap = 0 /\ live = 0 /\ twice = 0
            /\ status = 0
    /\ IF focus = "helper" THEN Services1!HelperInit
       ELSE services_pc = 0 /\ dirs = 0 /\ services_caller = 0 /\ setuid = 0 /\ env = 0
            /\ ids = 0 /\ groups = 0 /\ helper_dir = 0 /\ services_error = 0 /\ code = 0
            /\ report = 0

DaemonNext ==
    /\ UNCHANGED focus
    /\ IF focus = "owned names" THEN Registry!Next ELSE UNCHANGED registryVars
    /\ IF focus = "limits" THEN Next ELSE UNCHANGED vars
    /\ IF focus = "reset limits" THEN Reset!Next ELSE UNCHANGED resetVars
    /\ IF focus = "activation" THEN Activation1!Next
       ELSE IF focus = "systemd" THEN Activation2!Next ELSE UNCHANGED activationVars
    /\ IF focus = "reload" THEN Reload1!Next
       ELSE IF focus = "whole reload" THEN Reload2!Next
       ELSE IF focus = "failed reload" THEN Reload3!Next ELSE UNCHANGED reloadVars
    /\ IF focus = "files" THEN Config1!Next
       ELSE IF focus = "merge" THEN Config2!Next
       ELSE IF focus = "dirs" THEN Config3!Next ELSE UNCHANGED configVars
    /\ IF focus = "inotify" THEN Config1!WatchNext
       ELSE IF focus = "kqueue" THEN Config2!WatchNext ELSE UNCHANGED watchVars
    /\ IF focus = "service files" THEN Services1!DirNext
       ELSE IF focus = "directories" THEN Services2!DirNext ELSE UNCHANGED dirVars
    /\ IF focus = "lines" THEN Services1!FileNext
       ELSE IF focus = "lookup" THEN Services2!FileNext ELSE UNCHANGED fileVars
    /\ IF focus = "helper" THEN Services1!HelperNext ELSE UNCHANGED helperVars

DaemonSpec == DaemonInit /\ [][DaemonNext]_daemonVars

-----------------------------------------------------------------------------

\* Whoever waits for a service waits on or gets one answer, whichever of its ends comes, unless
\* memory runs out for one who joins him, when he gets none; the count of those who wait is
\* right (activation.c; where systemd starts the services, memory lasts).  A name leads to its
\* owners (services.c) and to a file that gives it, read from arrays as large as their use
\* (desktop-file.c); the helper runs the program of the first file that loads, as its user, and
\* the daemon reports why it did not, but for the two errors it takes for others
\* (activation-helper.c).
ServicesAreFound ==
    /\ focus = "activation" => Activation1!TypeOK /\ Activation1!CountIsRight /\ Activation1!NobodyIsForgotten
    /\ focus = "systemd" => Activation2!TypeOK /\ Activation2!CountIsRight /\ Activation2!NobodyIsForgotten
    /\ focus = "owned names" => Registry!TypeOK /\ Registry!OwnershipAgrees
    /\ focus = "service files" => Services1!DirTypeOK /\ Services1!NamesLeadToEntries
    /\ focus = "directories" => Services2!NamesLeadToEntries
    /\ focus = "lines" => Services1!FileTypeOK /\ Services1!ArraysAreLargeEnough /\ Services1!NothingStaysBehind
    /\ focus = "lookup" => Services2!ArraysAreLargeEnough /\ Services2!FirstKeyIsFound
    /\ focus = "helper" => Services1!HelperTypeOK /\ Services1!RunsAsTheService /\ Services1!FirstFileRuns
            /\ Services1!FailuresAreHeard


\* What a look-up finds is a file that is there, and what it says now, unless the file was
\* written again within the second, does not parse or gives a name that another file has; after
\* a reload it is a file of the first directory that has the name, until a file changes
\* (activation.c).
AnswersAreFresh ==
    [][/\ focus = "service files" => Services1!FoundIsFresh
       /\ focus = "directories" => Services2!FoundIsFresh /\ Services2!FirstDirectoryWins]_daemonVars
=============================================================================
