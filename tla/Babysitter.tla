----------------------------- MODULE Babysitter -----------------------------
(***************************************************************************)
(* dbus/dbus-spawn.c: the daemon starts a service through a babysitter     *)
(* process, which forks the service, tells the daemon its PID and, when it *)
(* has died, its status over a socket; the service itself reports a failed *)
(* exec over a pipe that is closed when exec succeeds.  Three processes,   *)
(* two channels and a signal.                                              *)
(***************************************************************************)
EXTENDS Integers, Sequences, FiniteSets, SequencesExt

CONSTANTS
    BabysitterMayFail,      \* the babysitter may have no descriptor for its pipe
    DaemonKills             \* an activation may time out, and the daemon kills the service

VARIABLES
    parent,         \* the daemon: "start", "loop", "iterate", "kill", "gone", "failed"
    polled,         \* what its poll found ready: "sock", "err"
    open,           \* its ends that are open: "sock" (socket_to_babysitter), "err" (error_pipe_from_child)
    have,           \* what it was told: "pid", "exec", "fork", or "status"
    asked,          \* it has asked for the service to be killed
    result,         \* what the finished function was called with, "none" before
    sitter,         \* the babysitter: "none", "forked", "pipe", "pid", "check", "poll", "dead", "reaped"
    child,          \* the service: "none", "forked", "running", "zombie", "reaped"
    ended,          \* what has become of it: "no", "exec", "fork", "status"
    sock, err,      \* the messages on their way
    errWriters,     \* who has the writing end of the error pipe
    handler, sigs,  \* the babysitter has its SIGCHLD handler; the bytes this has written
    reused,         \* the PID of the service is that of another process
    killedOther
vars == <<parent, polled, open, have, asked, result, sitter, child, ended, sock, err, errWriters, handler, sigs, reused, killedOther>>

Init ==
    /\ parent = "start" /\ polled = {} /\ open = {} /\ have = {} /\ asked = FALSE /\ result = "none"
    /\ sitter = "none" /\ child = "none" /\ ended = "no" /\ sock = <<>> /\ err = <<>> /\ errWriters = {}
    /\ handler = FALSE /\ sigs = 0 /\ reused = FALSE /\ killedOther = FALSE

ParentVars == <<parent, polled, open, have, asked, result>>
SitterVars == <<sitter, handler, sigs>>
ChildVars == <<child, ended, reused, killedOther>>
Alive == sitter \notin {"none", "dead", "reaped"}

-----------------------------------------------------------------------------
(* _dbus_spawn_async_with_babysitter.                                      *)

Spawn ==
    /\ parent = "start"
    /\ parent' = "loop" /\ open' = {"sock", "err"} /\ sitter' = "forked" /\ errWriters' = {"sitter"}
    /\ UNCHANGED <<polled, have, result, sock, err, handler, sigs, child, ended, reused, killedOther, asked>>

\* memory, descriptors or the fork: everything is closed again
SpawnFails ==
    /\ parent = "start" /\ parent' = "failed"
    /\ UNCHANGED <<polled, open, have, result, sitter, child, ended, sock, err, errWriters, handler, sigs, reused, killedOther, asked>>

\* the babysitter forks and closes its end of the error pipe
Fork ==
    /\ sitter = "forked"
    /\ sitter' = "pipe" /\ child' = "forked" /\ errWriters' = {"child"}
    /\ UNCHANGED <<ParentVars, ended, sock, err, handler, sigs, reused, killedOther>>

ForkFails ==
    /\ sitter = "forked"
    /\ sock' = Append(sock, "fork") /\ sitter' = "dead" /\ ended' = "fork" /\ errWriters' = {}
    /\ UNCHANGED <<ParentVars, child, err, handler, sigs, reused, killedOther>>

-----------------------------------------------------------------------------
(* babysit.                                                                *)

MakePipe ==
    /\ sitter = "pipe"
    /\ sitter' = "pid" /\ handler' = TRUE
    /\ UNCHANGED <<ParentVars, ChildVars, sock, err, errWriters, sigs>>

\* "Not enough file descriptors": exit (1); a service that has died is now the child of init
PipeFails ==
    /\ sitter = "pipe" /\ BabysitterMayFail
    /\ sitter' = "dead" /\ child' = (IF child = "zombie" THEN "reaped" ELSE child)
    /\ UNCHANGED <<ParentVars, ended, reused, killedOther, sock, err, errWriters, handler, sigs>>

WritePid ==
    /\ sitter = "pid"
    /\ sock' = Append(sock, "pid") /\ sitter' = "check"
    /\ UNCHANGED <<ParentVars, ChildVars, err, errWriters, handler, sigs>>

\* check_babysit_events: waitpid without blocking, then the status is sent and the babysitter ends
Check ==
    IF child = "zombie"
    THEN child' = "reaped" /\ sock' = Append(sock, "status") /\ sitter' = "dead"
    ELSE sitter' = "poll" /\ UNCHANGED <<child, sock>>

\* the service may have died before the handler was there
FirstCheck ==
    /\ sitter = "check" /\ Check
    /\ UNCHANGED <<ParentVars, ended, reused, killedOther, err, errWriters, handler, sigs>>

\* the socket is looked at first
Wake ==
    /\ sitter = "poll" /\ "sock" \in open /\ sigs > 0
    /\ sigs' = sigs - 1 /\ Check
    /\ UNCHANGED <<ParentVars, ended, reused, killedOther, err, errWriters, handler>>

\* POLLHUP: the daemon has gone or dropped the babysitter
ParentGone ==
    /\ sitter = "poll" /\ "sock" \notin open
    /\ sitter' = "dead" /\ child' = (IF child = "zombie" THEN "reaped" ELSE child)
    /\ UNCHANGED <<ParentVars, ended, reused, killedOther, sock, err, errWriters, handler, sigs>>

-----------------------------------------------------------------------------
(* The service.                                                            *)

Dies(how) ==
    /\ ended' = how
    /\ child' = (IF Alive THEN "zombie" ELSE "reaped")
    /\ sigs' = (IF handler /\ Alive THEN sigs + 1 ELSE sigs)
    /\ errWriters' = errWriters \ {"child"}

Exec ==
    /\ child = "forked"
    /\ child' = "running" /\ errWriters' = errWriters \ {"child"}
    /\ UNCHANGED <<ParentVars, SitterVars, ended, sock, err, reused, killedOther>>

\* write_err_and_exit
ExecFails ==
    /\ child = "forked"
    /\ err' = Append(err, "exec") /\ Dies("exec")
    /\ UNCHANGED <<ParentVars, sitter, handler, sock, reused, killedOther>>

Exit ==
    /\ child = "running" /\ Dies("status")
    /\ UNCHANGED <<ParentVars, sitter, handler, sock, err, reused, killedOther>>

PidReused ==
    /\ child = "reaped" /\ ~reused /\ reused' = TRUE
    /\ UNCHANGED <<ParentVars, SitterVars, child, ended, sock, err, errWriters, killedOther>>

-----------------------------------------------------------------------------
(* The daemon.                                                             *)

Writers(fd) == IF fd = "sock" THEN Alive ELSE errWriters # {}
Channel(fd) == IF fd = "sock" THEN sock ELSE err
Ready == {fd \in open : Channel(fd) # <<>> \/ ~Writers(fd)}

\* a watch calls handle_watch
WatchFires ==
    /\ parent = "loop" /\ Ready # {}
    /\ \E fd \in Ready : polled' = {fd}
    /\ parent' = "iterate"
    /\ UNCHANGED <<open, have, result, SitterVars, ChildVars, sock, err, errWriters, asked>>

\* babysitter_iteration goes through what poll found from the last to the first: the socket,
\* then the error pipe
First == IF "sock" \in polled THEN "sock" ELSE "err"

\* read_data: one message, or the end of the channel, which is closed
Handle ==
    /\ parent \in {"iterate", "kill"} /\ polled # {}
    /\ LET fd == First IN
       /\ polled' = polled \ {fd}
       /\ IF Channel(fd) # <<>>
          THEN /\ have' = have \cup {Head(Channel(fd))}
               /\ sock' = (IF fd = "sock" THEN Tail(sock) ELSE sock)
               /\ err' = (IF fd = "err" THEN Tail(err) ELSE err)
               /\ UNCHANGED open
          ELSE open' = open \ {fd} /\ UNCHANGED <<have, sock, err>>
    /\ UNCHANGED <<parent, result, SitterVars, ChildVars, errWriters, asked>>

\* while there is more to read
PollAgain ==
    /\ parent = "iterate" /\ polled = {} /\ Ready # {}
    /\ polled' = Ready
    /\ UNCHANGED <<parent, open, have, result, SitterVars, ChildVars, sock, err, errWriters, asked>>

\* _dbus_babysitter_set_child_exit_error
Reported ==
    IF "exec" \in have THEN "exec"
    ELSE IF "fork" \in have THEN "fork"
    ELSE IF "status" \in have THEN "status"
    ELSE "unknown"

\* nothing is ready: the finished function is called once when the socket is closed
Finish ==
    /\ parent = "iterate" /\ polled = {} /\ Ready = {}
    /\ result' = (IF "sock" \notin open /\ result = "none" THEN Reported ELSE result)
    /\ parent' = "loop"
    /\ UNCHANGED <<polled, open, have, SitterVars, ChildVars, sock, err, errWriters, asked>>

\* _dbus_babysitter_kill_child: wait for the PID, then kill whoever has it
KillBegins ==
    /\ DaemonKills /\ parent = "loop" /\ result = "none" /\ ~asked /\ asked' = TRUE /\ parent' = "kill"
    /\ UNCHANGED <<polled, open, have, result, SitterVars, ChildVars, sock, err, errWriters>>

KillWaits ==
    /\ parent = "kill" /\ polled = {} /\ open # {} /\ "pid" \notin have /\ Ready # {}
    /\ polled' = Ready
    /\ UNCHANGED <<parent, open, have, result, SitterVars, ChildVars, sock, err, errWriters, asked>>

KillChild ==
    /\ parent = "kill" /\ polled = {} /\ (open = {} \/ "pid" \in have)
    /\ parent' = "loop"
    /\ IF "pid" \in have /\ child \in {"forked", "running"}
       THEN Dies("status") /\ UNCHANGED killedOther
       ELSE /\ killedOther' = (killedOther \/ ("pid" \in have /\ reused))
            /\ UNCHANGED <<ended, child, sigs, errWriters>>
    /\ UNCHANGED <<polled, open, have, result, sitter, handler, sock, err, reused, asked>>

\* _dbus_babysitter_unref: the ends are closed and the babysitter is waited for or killed
Unref ==
    /\ parent = "loop" /\ result # "none"
    /\ parent' = "gone" /\ open' = {} /\ sitter' = "reaped"
    /\ UNCHANGED <<polled, have, result, ChildVars, sock, err, errWriters, handler, sigs, asked>>

\* the daemon ends, and does not wait for its babysitter
DaemonExits ==
    /\ parent = "loop" /\ Alive /\ parent' = "gone" /\ open' = {}
    /\ UNCHANGED <<polled, have, result, SitterVars, ChildVars, sock, err, errWriters, asked>>

ParentSteps == WatchFires \/ Handle \/ PollAgain \/ Finish \/ KillWaits \/ KillChild
SitterSteps == Fork \/ ForkFails \/ MakePipe \/ PipeFails \/ WritePid \/ FirstCheck \/ Wake \/ ParentGone
Next ==
    \/ Spawn \/ SpawnFails \/ ParentSteps \/ KillBegins \/ Unref \/ DaemonExits
    \/ SitterSteps
    \/ Exec \/ ExecFails \/ Exit \/ PidReused
Spec == Init /\ [][Next]_vars

-----------------------------------------------------------------------------
(* What the finished function is told is what happened: a failed exec, a   *)
(* failed fork, or the status of a service that ran, although the report   *)
(* of the exec and the status come over different channels (765).          *)
ReportsWhatHappened == result # "none" => result = ended

(* The babysitter "tracks the status of the child process, advising the    *)
(* parent if the child exits" (1195): a service that has died, before or   *)
(* after the babysitter was ready for the signal, is reported, unless the  *)
(* daemon found out when it wanted to kill it (or has ended itself).       *)
Died == ended # "no"
DeathReported == result # "none" \/ open = {}
=============================================================================
