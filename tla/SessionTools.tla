-------------------- MODULE SessionTools --------------------
(***************************************************************************)
(* The tools that start buses, dbus-launch and dbus-run-session, and the   *)
(* splitting of command lines (dbus/dbus-shell.c).  The parts share no state;*)
(* each has an Init and a Next of its own.                                 *)
(***************************************************************************)
EXTENDS Naturals, FiniteSets, Sequences, SequencesExt

-----------------------------------------------------------------------------
(***************************************************************************)
(* dbus-launch: several launchers on one X display.  Each forks a          *)
(* babysitter and a bus, reads the bus's address and pid from pipes,       *)
(* advertises them as an X selection and in a file, forwards the pid to    *)
(* the babysitter and hands the address out.  A launcher's X connection is *)
(* shared by fork with its babysitter, so its window lives as long as one  *)
(* of the two does.                                                        *)
(***************************************************************************)

CONSTANTS Launchers,  \* the processes started as dbus-launch
          Auto,       \* those given --autolaunch
          Stay,       \* those given --exit-with-session
          UserBus,    \* a bus in XDG_RUNTIME_DIR serves the user already
          Tty,        \* standard input is a terminal
          LaunchFaults,     \* what may go wrong
          None, User

VARIABLES launch_pc,       \* each launcher's place in main
          joined,   \* launchers whose xdisplay is set
          sitter,   \* each babysitter's place
          launch_mode,     \* what a babysitter watches
          launch_bus,      \* each launcher's bus process
          window,   \* the window that last took the selection
          file,     \* the bus the session file names
          piped,    \* babysitters whose pid pipe holds a pid
          sighup,   \* babysitters whose got_sighup is set
          seen,     \* the address a losing launcher read
          handed,   \* the address a launcher handed out
          xup, ttyup
launchVars == <<launch_pc, joined, sitter, launch_mode, launch_bus, window, file, piped, sighup, seen,
          handed, xup, ttyup>>

Ended == {"done", "failed"}
Asleep == {"none", "gone"}

LaunchTypeOK ==
  /\ launch_pc \in [Launchers -> Ended \cup {"start", "fork", "waiting", "saving",
                                     "filing", "again", "told", "forward"}]
  /\ sitter \in [Launchers -> Asleep \cup {"reading", "opening", "top",
                                           "select", "woken", "killing"}]
  /\ launch_mode \in [Launchers -> {"none", "x", "tty"}]
  /\ launch_bus \in [Launchers -> {"none", "starting", "running", "user", "dead"}]
  /\ {window, file} \subseteq Launchers \cup {None}
  /\ \A S \in {joined, piped, sighup} : S \subseteq Launchers
  /\ \A f \in {seen, handed} : f \in [Launchers -> Launchers \cup {None, User}]
  /\ xup \in BOOLEAN /\ ttyup \in BOOLEAN

LaunchInit ==
  /\ launch_pc = [i \in Launchers |-> "start"]
  /\ sitter = [i \in Launchers |-> "none"]
  /\ launch_mode = [i \in Launchers |-> "none"]
  /\ launch_bus = [i \in Launchers |-> "none"]
  /\ window = None /\ file = None
  /\ joined = {} /\ piped = {} /\ sighup = {}
  /\ seen = [i \in Launchers |-> None]
  /\ handed = [i \in Launchers |-> None]
  /\ xup = TRUE /\ ttyup = Tty

(***************************************************************************)
(* What X answers: a window is there while a process keeps the connection  *)
(* that made it.                                                           *)
(***************************************************************************)
Selection ==
  IF window # None /\ (launch_pc[window] \notin Ended \/ sitter[window] \notin Asleep)
  THEN window ELSE None

Lives(i) == i \in Auto \cup Stay  \* exit_with_session
OwnAddress(i) == IF launch_bus[i] = "user" THEN User ELSE i

\* kill_bus: nothing for a pid of zero.
LaunchKilled(i) == IF launch_bus[i] = "running" THEN [launch_bus EXCEPT ![i] = "dead"] ELSE launch_bus

Leave(i, how) == launch_pc' = [launch_pc EXCEPT ![i] = how]

-----------------------------------------------------------------------------
(* The launcher. *)

\* The option --autolaunch first asks the display for a bus.
Look(i) ==
  /\ launch_pc[i] = "start"
  /\ IF i \in Auto
     THEN IF ~xup THEN Leave(i, "failed") /\ UNCHANGED <<joined, handed>>
          ELSE /\ joined' = joined \cup {i}
               /\ IF Selection = None THEN Leave(i, "fork") /\ UNCHANGED handed
                  ELSE /\ Leave(i, "done")
                       /\ handed' = [handed EXCEPT ![i] = OwnAddress(Selection)]
     ELSE /\ joined' = IF xup THEN joined \cup {i} ELSE joined
          /\ Leave(i, "fork") /\ UNCHANGED handed
  /\ UNCHANGED <<sitter, launch_mode, launch_bus, window, file, piped, sighup, seen, xup, ttyup>>

\* The two forks; the babysitter's own second fork may fail as well, which the
\* launcher's waitpid does not look at.
Fork(i) ==
  /\ launch_pc[i] = "fork"
  /\ \/ /\ "fork" \in LaunchFaults
        /\ Leave(i, "failed") /\ UNCHANGED <<sitter, launch_bus>>
     \/ /\ Leave(i, "waiting")
        /\ launch_bus' = [launch_bus EXCEPT ![i] = "starting"]
        /\ \/ sitter' = [sitter EXCEPT ![i] = "reading"]
           \/ "sitter" \in LaunchFaults /\ sitter' = [sitter EXCEPT ![i] = "gone"]
  /\ UNCHANGED <<joined, launch_mode, window, file, piped, sighup, seen, handed, xup, ttyup>>

\* The bus process: the user's bus is named instead of a new one.
LaunchStartBus(i) ==
  /\ launch_bus[i] = "starting"
  /\ \/ launch_bus' = [launch_bus EXCEPT ![i] = IF i \in Auto /\ UserBus THEN "user" ELSE "running"]
     \/ "exec" \in LaunchFaults /\ launch_bus' = [launch_bus EXCEPT ![i] = "dead"]
  /\ UNCHANGED <<launch_pc, joined, sitter, launch_mode, window, file, piped, sighup, seen, handed, xup, ttyup>>

\* read_line of the address and of the pid; end of file when the exec failed.
ReadBus(i) ==
  /\ launch_pc[i] = "waiting" /\ launch_bus[i] # "starting"
  /\ Leave(i, IF launch_bus[i] = "dead" THEN "failed"
              ELSE IF i \in joined THEN "saving" ELSE "forward")
  /\ UNCHANGED <<joined, sitter, launch_mode, launch_bus, window, file, piped, sighup, seen, handed, xup, ttyup>>

\* x_io_error_handler, the end of any X call on a lost connection.
XError(i) ==
  /\ launch_pc[i] \in {"saving", "again"} /\ ~xup
  /\ launch_bus' = LaunchKilled(i) /\ Leave(i, "failed")
  /\ UNCHANGED <<joined, sitter, launch_mode, window, file, piped, sighup, seen, handed, xup, ttyup>>

Unsaved(i) == IF i \in Auto THEN "again" ELSE "forward"

SaveInXUnlocked(i) ==
  /\ launch_pc[i] = "saving" /\ xup
  /\ window' = i /\ Leave(i, "filing")
  /\ UNCHANGED <<joined, sitter, launch_mode, launch_bus, file, piped, sighup, seen, handed, xup, ttyup>>
\* set_address_in_x11, under XGrabServer.
SaveInX(i) ==
  /\ launch_pc[i] = "saving" /\ xup
  /\ IF Selection = None
     THEN window' = i /\ Leave(i, "filing")
     ELSE UNCHANGED window /\ Leave(i, Unsaved(i))
  /\ UNCHANGED <<joined, sitter, launch_mode, launch_bus, file, piped, sighup, seen, handed, xup, ttyup>>

\* set_address_in_file
SaveInFile(i) ==
  /\ launch_pc[i] = "filing"
  /\ \/ file' = i /\ Leave(i, "forward")
     \/ "file" \in LaunchFaults /\ UNCHANGED file /\ Leave(i, Unsaved(i))
  /\ UNCHANGED <<joined, sitter, launch_mode, launch_bus, window, piped, sighup, seen, handed, xup, ttyup>>

GiveWay(i) ==
  /\ launch_pc[i] = "again" /\ xup
  /\ IF Selection = None
     THEN Leave(i, "forward") /\ UNCHANGED <<launch_bus, seen>>
     ELSE /\ seen' = [seen EXCEPT ![i] = OwnAddress(Selection)]
          /\ launch_bus' = LaunchKilled(i)
          /\ Leave(i, "told")
  /\ UNCHANGED <<joined, sitter, launch_mode, window, file, piped, sighup, handed, xup, ttyup>>

\* pass_info after the three seconds of kill_bus
PassOther(i) ==
  /\ launch_pc[i] = "told"
  /\ Leave(i, "done") /\ handed' = [handed EXCEPT ![i] = seen[i]]
  /\ UNCHANGED <<joined, sitter, launch_mode, launch_bus, window, file, piped, sighup, seen, xup, ttyup>>

\* write_pid, then pass_info; without a reader the write ends the launcher.
Forward(i) ==
  /\ launch_pc[i] = "forward"
  /\ IF sitter[i] = "gone"
     THEN Leave(i, "failed") /\ UNCHANGED <<piped, handed>>
     ELSE /\ piped' = piped \cup {i}
          /\ \/ Leave(i, "done") /\ handed' = [handed EXCEPT ![i] = OwnAddress(i)]
             \/ "memory" \in LaunchFaults /\ Leave(i, "failed") /\ UNCHANGED handed
  /\ UNCHANGED <<joined, sitter, launch_mode, launch_bus, window, file, sighup, seen, xup, ttyup>>

-----------------------------------------------------------------------------
(* The babysitter. *)

Sits(i, where) == sitter' = [sitter EXCEPT ![i] = where]

\* read_pid; end of file when the launcher ended without writing one.
ReadPid(i) ==
  /\ sitter[i] = "reading"
  /\ \/ i \in piped /\ Sits(i, IF Lives(i) THEN "opening" ELSE "gone")
     \/ i \notin piped /\ launch_pc[i] \in Ended /\ Sits(i, "gone")
  /\ UNCHANGED <<launch_pc, joined, launch_mode, launch_bus, window, file, piped, sighup, seen, handed, xup, ttyup>>

\* The session is X's if there is an X, or else the terminal's.
OpenX(i) ==
  /\ sitter[i] = "opening"
  /\ IF xup \/ ttyup
     THEN /\ launch_mode' = [launch_mode EXCEPT ![i] = IF xup THEN "x" ELSE "tty"]
          /\ Sits(i, "top") /\ UNCHANGED launch_bus
     ELSE Sits(i, "killing") /\ launch_bus' = LaunchKilled(i) /\ UNCHANGED launch_mode
  /\ UNCHANGED <<launch_pc, joined, window, file, piped, sighup, seen, handed, xup, ttyup>>

\* x11_handle_event, on the way to select
HandleEvents(i) ==
  /\ sitter[i] = "top"
  /\ IF launch_mode[i] = "x" /\ ~xup
     THEN Sits(i, "killing") /\ launch_bus' = LaunchKilled(i)
     ELSE Sits(i, "select") /\ UNCHANGED launch_bus
  /\ UNCHANGED <<launch_pc, joined, launch_mode, window, file, piped, sighup, seen, handed, xup, ttyup>>

\* select returns for a lost connection, a hung up terminal or typed input.
Wake(i) ==
  /\ sitter[i] = "select"
  /\ \/ launch_mode[i] = "x" /\ ~xup
     \/ launch_mode[i] = "tty"
  /\ Sits(i, "woken")
  /\ UNCHANGED <<launch_pc, joined, launch_mode, launch_bus, window, file, piped, sighup, seen, handed, xup, ttyup>>

\* What the loop does when select has returned
Check(i) ==
  /\ sitter[i] = "woken"
  /\ IF i \in sighup \/ (launch_mode[i] = "tty" /\ ~ttyup)
     THEN Sits(i, "killing") /\ launch_bus' = LaunchKilled(i)
     ELSE Sits(i, "top") /\ UNCHANGED launch_bus
  /\ UNCHANGED <<launch_pc, joined, launch_mode, window, file, piped, sighup, seen, handed, xup, ttyup>>

\* The exit after kill_bus's three seconds
Exit(i) ==
  /\ sitter[i] = "killing" /\ Sits(i, "gone")
  /\ UNCHANGED <<launch_pc, joined, launch_mode, launch_bus, window, file, piped, sighup, seen, handed, xup, ttyup>>

\* signal_handler, which interrupts select but not the way to it
Signal(i) ==
  /\ "signal" \in LaunchFaults /\ i \notin sighup
  /\ sitter[i] \in {"top", "select", "woken"}
  /\ sighup' = sighup \cup {i}
  /\ Sits(i, IF sitter[i] = "select" THEN "woken" ELSE sitter[i])
  /\ UNCHANGED <<launch_pc, joined, launch_mode, launch_bus, window, file, piped, seen, handed, xup, ttyup>>

-----------------------------------------------------------------------------
(* The session. *)

EndX == /\ "x" \in LaunchFaults /\ xup /\ xup' = FALSE
        /\ UNCHANGED <<launch_pc, joined, sitter, launch_mode, launch_bus, window, file, piped, sighup, seen, handed, ttyup>>
EndTty == /\ ~xup /\ ttyup /\ ttyup' = FALSE
          /\ UNCHANGED <<launch_pc, joined, sitter, launch_mode, launch_bus, window, file, piped, sighup, seen, handed, xup>>

Launch(i) == \/ Look(i) \/ Fork(i) \/ LaunchStartBus(i) \/ ReadBus(i) \/ XError(i)
             \/ SaveInX(i) \/ SaveInFile(i) \/ GiveWay(i) \/ PassOther(i) \/ Forward(i)
Babysit(i) == \/ ReadPid(i) \/ OpenX(i) \/ HandleEvents(i) \/ Wake(i) \/ Check(i) \/ Exit(i)

LaunchNext == (\E i \in Launchers : Launch(i) \/ Babysit(i) \/ Signal(i)) \/ EndX \/ EndTty
LaunchSpec == LaunchInit /\ [][LaunchNext]_launchVars

-----------------------------------------------------------------------------
AliveBus(a) == a = User \/ (a \in Launchers /\ launch_bus[a] = "running")

(***************************************************************************)
(* An address is handed out (pass_info) only for a bus that is alive, as   *)
(* long as X is up and no babysitter is in kill_bus's three seconds for it.*)
(***************************************************************************)
HandedAlive ==
  \A i \in Launchers :
    handed'[i] # handed[i] /\ xup =>
      \/ AliveBus(handed[i])'
      \/ handed'[i] \in Launchers /\ sitter[handed'[i]] \in {"killing", "gone"}

(***************************************************************************)
(* Autolaunched programs of one display talk to one bus: no two addresses  *)
(* handed out by autolaunching are both alive (main, x11_save_address).    *)
(***************************************************************************)
OneBus ==
  \A i, j \in Auto :
    AliveBus(handed[i]) /\ AliveBus(handed[j]) => handed[i] = handed[j]

(***************************************************************************)
(* A bus of a launcher with exit_with_session always has a process left    *)
(* that knows to kill it: its launcher, or a babysitter that has or will   *)
(* get its pid (babysit, bus_pid_to_kill).                                 *)
(***************************************************************************)
NoOrphan ==
  \A i \in Auto \cup Stay :
    launch_bus[i] = "running" =>
      \/ launch_pc[i] \notin Ended
      \/ sitter[i] \notin Asleep /\ i \in piped

(***************************************************************************)
(* The losing bus of a race is gone when its launcher hands out another    *)
(* address (kill_bus in main).                                             *)
(***************************************************************************)
LoserIsKilled ==
  \A i \in Launchers : handed[i] \notin {None, OwnAddress(i)} => launch_bus[i] # "running"

(***************************************************************************)
(* The session file names the bus of the window that has the selection, up *)
(* to the launcher that is about to write it (x11_save_address).           *)
(***************************************************************************)
FileFollowsWindow ==
  window # None /\ launch_pc[window] # "filing" => file = window

(***************************************************************************)
(* The end of the session, X and terminal, ends every bus that was to      *)
(* live with it (kill_bus_when_session_ends), unless the babysitter could  *)
(* not be forked and nobody has got the pid.                               *)
(***************************************************************************)
SessionEnded == ~xup /\ ~ttyup
Unsat(i) == sitter[i] = "gone" /\ i \notin piped
BusesKilled ==
    \A i \in Auto \cup Stay : launch_bus[i] \in {"starting", "running"} => Unsat(i)

-----------------------------------------------------------------------------
(***************************************************************************)
(* dbus-run-session: a bus daemon and a program as children of one         *)
(* process, which waits for whichever of its children ends, the ones it    *)
(* got from a shell that exec'd it included.                               *)
(***************************************************************************)

CONSTANTS Strangers,  \* children inherited through exec
          Statuses,   \* exit statuses of a program
          RunFaults      \* calls that may fail

VARIABLES run_pc, run_bus, app, strangers, known, ended, status, killed
runVars == <<run_pc, run_bus, app, strangers, known, ended, status, killed>>

RunKilled == 137  \* 128 + SIGKILL, for a program that a signal ended
Life == {"none", "starting", "running", "zombie", "reaped"}

RunTypeOK ==
  /\ run_pc \in {"start", "reading", "program", "waiting", "exited"}
  /\ run_bus \in Life /\ app \in Life
  /\ strangers \in [Strangers -> {"running", "zombie", "reaped"}]
  /\ known \in BOOLEAN             \* bus_pid is not zero
  /\ ended \in Statuses \cup {RunKilled}
  /\ status \in Statuses \cup {1, 127, RunKilled}
  /\ killed \in {"no", "bus", "nobody"}

RunInit ==
  /\ run_pc = "start" /\ run_bus = "none" /\ app = "none"
  /\ strangers = [s \in Strangers |-> "running"]
  /\ known = FALSE /\ ended \in Statuses \cup {RunKilled}
  /\ status \in Statuses /\ killed = "no"

ExitWith(s) == run_pc' = "exited" /\ status' = s

\* The first fork; the daemon does not fork again.
RunStartBus ==
  /\ run_pc = "start" /\ run_pc' = "reading"
  /\ run_bus' = "starting" /\ known' = TRUE
  /\ UNCHANGED <<app, strangers, ended, status, killed>>

\* exec_dbus_daemon and the address the daemon prints
BusReady ==
  /\ run_bus = "starting"
  /\ \/ run_bus' = "running"
     \/ "daemon exec" \in RunFaults /\ run_bus' = "zombie"
  /\ UNCHANGED <<run_pc, app, strangers, known, ended, status, killed>>

\* read_line; end of file when the daemon is gone
ReadAddress ==
  /\ run_pc = "reading" /\ run_bus # "starting"
  /\ IF run_bus = "zombie" THEN ExitWith(127) ELSE run_pc' = "program" /\ UNCHANGED status
  /\ UNCHANGED <<run_bus, app, strangers, known, ended, killed>>

\* The environment, then the second fork
StartProgram ==
  /\ run_pc = "program"
  /\ \/ "setenv" \in RunFaults /\ ExitWith(1) /\ UNCHANGED app
     \/ "fork" \in RunFaults /\ ExitWith(127) /\ UNCHANGED app
     \/ run_pc' = "waiting" /\ app' = "running" /\ UNCHANGED status
  /\ UNCHANGED <<run_bus, strangers, known, ended, killed>>

-----------------------------------------------------------------------------
(* The children. *)
ProgramEnds ==
  /\ app = "running" /\ app' = "zombie"
  /\ UNCHANGED <<run_pc, run_bus, strangers, known, ended, status, killed>>
\* exec_app fails
ProgramFails ==
  /\ "exec" \in RunFaults /\ app = "running"
  /\ app' = "zombie" /\ ended' = 1
  /\ UNCHANGED <<run_pc, run_bus, strangers, known, status, killed>>
BusEnds ==
  /\ run_bus = "running" /\ ("crash" \in RunFaults \/ killed = "bus")
  /\ run_bus' = "zombie"
  /\ UNCHANGED <<run_pc, app, strangers, known, ended, status, killed>>
StrangerEnds(s) ==
  /\ strangers[s] = "running" /\ strangers' = [strangers EXCEPT ![s] = "zombie"]
  /\ UNCHANGED <<run_pc, run_bus, app, known, ended, status, killed>>

-----------------------------------------------------------------------------
ReapBus ==
  /\ run_pc = "waiting" /\ run_bus = "zombie" /\ run_bus' = "reaped" /\ known' = FALSE
  /\ UNCHANGED <<run_pc, app, strangers, ended, status, killed>>

Signalled == IF ~known THEN "no" ELSE IF run_bus = "reaped" THEN "nobody" ELSE "bus"
ReapProgram ==
  /\ run_pc = "waiting" /\ app = "zombie" /\ app' = "reaped"
  /\ killed' = Signalled
  /\ ExitWith(ended)
  /\ UNCHANGED <<run_bus, strangers, known, ended>>

ReapStranger(s) ==
  /\ run_pc = "waiting" /\ strangers[s] = "zombie"
  /\ strangers' = [strangers EXCEPT ![s] = "reaped"]
  /\ UNCHANGED <<run_pc, run_bus, app, known, ended, status, killed>>

RunNext == \/ RunStartBus \/ BusReady \/ ReadAddress \/ StartProgram
        \/ ProgramEnds \/ ProgramFails \/ BusEnds
        \/ ReapBus \/ ReapProgram
        \/ \E s \in Strangers : StrangerEnds(s) \/ ReapStranger(s)
RunSpec == RunInit /\ [][RunNext]_runVars
StartSteps == RunStartBus \/ ReadAddress \/ StartProgram
SignalledBusEnds == BusEnds /\ killed = "bus"

-----------------------------------------------------------------------------
(***************************************************************************)
(* A program that ran gives its own status, whatever else ended before it  *)
(* (the loop over waitpid in main).                                        *)
(***************************************************************************)
StatusIsThePrograms ==
  run_pc = "exited" /\ app # "none" => app = "reaped" /\ status = ended

(***************************************************************************)
(* SIGTERM goes to the daemon while it is this process's child and to      *)
(* nobody else: a pid that was reaped may belong to another process        *)
(* (bus_pid in main).                                                      *)
(***************************************************************************)
NobodyElseIsKilled == killed # "nobody"

(***************************************************************************)
(* waitpid never fails for want of children, as the comment beside it has  *)
(* it: the loop is left before the last child is reaped.                   *)
(***************************************************************************)
ChildrenLeft ==
  run_pc = "waiting" => run_bus \in {"running", "zombie"} \/ app \in {"running", "zombie"}
                    \/ \E s \in Strangers : strangers[s] # "reaped"

(***************************************************************************)
(* The daemon ends once the program has (dbus-run-session's man page).     *)
(***************************************************************************)
ProgramEnded == app \in {"zombie", "reaped"}
DaemonEnded == run_bus \in {"zombie", "reaped"}

-----------------------------------------------------------------------------
(***************************************************************************)
(* dbus-shell.c: a service file's command line split into tokens           *)
(* (tokenize_command_line), and each token unquoted (_dbus_shell_unquote). *)
(* Two scanners that each have their own idea of a quote.  Memory that is  *)
(* refused ends either with the same refusal and is left out.              *)
(***************************************************************************)

CONSTANTS Texts,      \* the characters command lines are made of
          MaxText,
          MaxOther,   \* length of a second line, put behind the first
          MaxWords,   \* words to be quoted into a line
          MaxWord

VARIABLES text, other, words
shellVars == <<text, other, words>>

Quotes == {"'", "dquote"}
Escapable == {"dquote", "backslash", "newline"}

-----------------------------------------------------------------------------
(* tokenize_command_line.  "quote" is current_quote, "odd" the parity of    *)
(* backslashes the code calls quoted; "comment" is a comment under way.     *)

Delimited(t) == [t EXCEPT !.out = Append(@, t.token), !.token = <<>>]
Put(t, s) == [t EXCEPT !.token = @ \o s]

Unquoted(t, c) ==
  CASE c = "newline"        -> Delimited(t)
    [] c = " "              -> IF t.token = <<>> THEN t ELSE Delimited(t)
    [] c \in Quotes         -> [Put(t, <<c>>) EXCEPT !.quote = c]
    [] c \in {"#", "backslash"}    -> [t EXCEPT !.quote = c]
    [] OTHER                -> Put(t, <<c>>)

InQuotes(t, c) ==
  [Put(t, <<c>>) EXCEPT !.quote =
     IF c = @ /\ ~(c = "dquote" /\ t.odd) THEN "none" ELSE @]

Scan(t, c) ==
  LET u == CASE t.quote = "backslash" ->
                [(IF c = "newline" THEN t ELSE Put(t, <<"backslash", c>>)) EXCEPT !.quote = "none"]
             [] t.quote \in {"#", "comment"} ->
                [t EXCEPT !.quote = IF c = "newline" THEN "none" ELSE "comment"]
             [] t.quote \in Quotes -> InQuotes(t, c)
             [] OTHER -> Unquoted(t, c)
  IN [u EXCEPT !.odd = (c = "backslash") /\ ~t.odd]

Start == [quote |-> "none", odd |-> FALSE, token |-> <<>>, out |-> <<>>]

\* The last token is delimited whether there is one or not.
Tokenize(s) == Delimited(FoldLeft(Scan, Start, s))
Accepted(s) == Tokenize(s).quote \in {"none", "comment"}

-----------------------------------------------------------------------------
(* _dbus_shell_unquote and unquote_string_inplace *)

Outside(u, c) ==
  IF u.mode = "escaped"
  THEN [mode |-> "plain", out |-> IF c = "newline" THEN u.out ELSE Append(u.out, c)]
  ELSE CASE c = "backslash"       -> [u EXCEPT !.mode = "escaped"]
         [] c \in Quotes          -> [u EXCEPT !.mode = c]
         [] OTHER                 -> [u EXCEPT !.out = Append(@, c)]

Inside(u, c) ==
  CASE u.mode = "in dquote escaped" ->
         [mode |-> "dquote",
          out |-> IF c \in Escapable THEN Append(u.out, c) ELSE u.out \o <<"backslash", c>>]
    [] c = u.mode                     -> [u EXCEPT !.mode = "plain"]
    [] c = "backslash" /\ u.mode = "dquote"  -> [u EXCEPT !.mode = "in dquote escaped"]
    [] OTHER                          -> [u EXCEPT !.out = Append(@, c)]

Unquote(s) ==
  FoldLeft(LAMBDA u, c : IF u.mode \in {"plain", "escaped"} THEN Outside(u, c) ELSE Inside(u, c),
           [mode |-> "plain", out |-> <<>>], s)
Unquotes(s) == Unquote(s).mode \in {"plain", "escaped"}

\* _dbus_shell_parse_argv, for a line that is accepted
Argv(s) == LET tokens == Tokenize(s).out
           IN [i \in DOMAIN tokens |-> Unquote(tokens[i]).out]

-----------------------------------------------------------------------------
Strings(n) == UNION {[1..k -> Texts] : k \in 0..n}

ShellInit == /\ text = <<>> /\ other = <<>> /\ words = <<>>

TypeOne == /\ Len(text) < MaxText /\ other = <<>>
           /\ \E c \in Texts : text' = Append(text, c)
           /\ UNCHANGED <<other, words>>
TypeOther == /\ Len(other) < MaxOther
             /\ \E c \in Texts : other' = Append(other, c)
             /\ UNCHANGED <<text, words>>
AddWord == /\ Len(words) < MaxWords
           /\ \E w \in Strings(MaxWord) : words' = Append(words, w)
           /\ UNCHANGED <<text, other>>
ShellNext == TypeOne \/ TypeOther \/ AddWord
ShellSpec == ShellInit /\ [][ShellNext]_shellVars

-----------------------------------------------------------------------------
(***************************************************************************)
(* The two scanners agree on quotes: a token of an accepted line always    *)
(* unquotes.  _dbus_shell_parse_argv takes a failure there for memory that *)
(* ran out, so a bad service file would be reported as a lack of memory.   *)
(***************************************************************************)
TokensUnquote ==
  Accepted(text) => \A i \in DOMAIN Tokenize(text).out : Unquotes(Tokenize(text).out[i])

(***************************************************************************)
(* A blank between two lines splits there and nowhere else: what the first *)
(* line leaves in the scanner (a quote, a backslash, half a token) never   *)
(* reaches the second (tokenize_command_line).                             *)
(***************************************************************************)
SplitsAtBlanks ==
  LET both == text \o <<" ">> \o other
      last == Tokenize(text).out
  IN Accepted(text) /\ Accepted(other) /\ ~Contains(text, "#") /\ last[Len(last)] # <<>>
     => Accepted(both) /\ Argv(both) = Argv(text) \o Argv(other)

QuoteWord(w) ==
  <<"'">> \o FlattenSeq([i \in DOMAIN w |->
               IF w[i] = "'" THEN <<"'", "backslash", "'", "'">> ELSE <<w[i]>>]) \o <<"'">>
Line(ws) == FlattenSeq([i \in DOMAIN ws |->
              IF i = 1 THEN QuoteWord(ws[i]) ELSE <<" ">> \o QuoteWord(ws[i])])

(***************************************************************************)
(* Words quoted the way the comment of unquote_string_inplace tells come   *)
(* back as they were, whatever is in them.                                 *)
(***************************************************************************)
QuotedWordsReturn ==
  words # <<>> => Accepted(Line(words)) /\ Argv(Line(words)) = words
=============================================================================
