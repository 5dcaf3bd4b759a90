----------------------------- MODULE BusContext -----------------------------
(***************************************************************************)
(* Starting and ending the daemon (bus/main.c, bus_context_new and         *)
(* bus_context_unref of bus/bus.c, _dbus_become_daemon and the pid file of *)
(* dbus/dbus-sysdeps-util-unix.c): daemons with the same configuration,    *)
(* and so with the same pid file and the same socket path, are started,    *)
(* fail at any point of their start, fork, end and are killed.             *)
(*                                                                         *)
(* A daemon is one process, or two once it has forked: the first one       *)
(* writes the pid file and ends, the child becomes the daemon.  A step is  *)
(* what a process does up to the next access to the file system.           *)
(***************************************************************************)
EXTENDS Naturals, FiniteSets

CONSTANTS
    Daemons,        \* the times the daemon is started
    Forks,          \* TRUE if the configuration has <fork/>
    Together        \* TRUE if a daemon may be started while another one starts or ends

Processes == Daemons \X {"first", "child"}
Daemon(p) == p[1]
First(d) == <<d, "first">>
Child(d) == <<d, "child">>
Garbled == <<"", "">>

VARIABLES
    pc,             \* [process]: how far its start has come, or its end
    servers,        \* [process]: TRUE if context->servers holds the listening server
    pidfile,        \* [process]: TRUE if context->pidfile is set
    slotRefs,       \* [process]: references to server_data_slot
    pidOnDisk,      \* {the process the pid file names}, {Garbled}, or {} if there is no file
    socketOnDisk,   \* the daemon whose socket the path leads to, or "none"
    killed          \* processes that ended without ending their context

vars == <<pc, servers, pidfile, slotRefs, pidOnDisk, socketOnDisk, killed>>

Starting == {"checked", "listening", "configured", "named", "ready"}
Ending == {"closing", "deleting"}
Gone == {"off", "ended"}

Init ==
    /\ pc = [p \in Processes |-> "off"]
    /\ servers = [p \in Processes |-> FALSE]
    /\ pidfile = [p \in Processes |-> FALSE]
    /\ slotRefs = [p \in Processes |-> 0]
    /\ pidOnDisk = {} /\ socketOnDisk = "none"
    /\ killed = {}

Goto(p, to) == pc' = [pc EXCEPT ![p] = to]

----------------------------------------------------------------------------
(* The start.                                                              *)

\* main, bus_context_new, process_config_first_time_only: with a pid file there already the
\* start ends, before context->pidfile is set
Start(d) ==
    LET p == First(d) IN
    /\ pc[p] = "off" /\ pc[Child(d)] = "off"
    /\ Together \/ \A q \in Processes : pc[q] \in Gone \cup {"running"}
    /\ slotRefs' = [slotRefs EXCEPT ![p] = 1]
    /\ IF pidOnDisk # {}
       THEN Goto(p, "closing") /\ UNCHANGED pidfile
       ELSE Goto(p, "checked") /\ pidfile' = [pidfile EXCEPT ![p] = TRUE]
    /\ UNCHANGED <<servers, pidOnDisk, socketOnDisk, killed>>

\* bus_context_new: an allocation or the configuration fails before anything is set
StartFails(d) ==
    LET p == First(d) IN
    /\ pc[p] = "off" /\ pc[Child(d)] = "off"
    /\ Together \/ \A q \in Processes : pc[q] \in Gone \cup {"running"}
    /\ slotRefs' = [slotRefs EXCEPT ![p] = 1]
    /\ Goto(p, "closing")
    /\ UNCHANGED <<servers, pidfile, pidOnDisk, socketOnDisk, killed>>

\* process_config_first_time_only: dbus_server_listen takes over the path; a server that
\* setup_server refuses is not in context->servers, and nobody disconnects it
Listen(p) ==
    /\ pc[p] = "checked"
    /\ \/ /\ Goto(p, "listening") /\ socketOnDisk' = Daemon(p)
          /\ servers' = [servers EXCEPT ![p] = TRUE]
       \/ /\ Goto(p, "closing") /\ socketOnDisk' = Daemon(p)
          /\ UNCHANGED servers
       \/ Goto(p, "closing") /\ UNCHANGED <<socketOnDisk, servers>>
    /\ UNCHANGED <<pidfile, slotRefs, pidOnDisk, killed>>

\* process_config_every_time; then the second reference to the slot, the address is printed,
\* and the other parts of the context are made
Configure(p) ==
    /\ pc[p] = "listening"
    /\ \/ Goto(p, "closing") /\ UNCHANGED slotRefs
       \/ /\ pc' \in {[pc EXCEPT ![p] = "configured"], [pc EXCEPT ![p] = "closing"]}
          /\ slotRefs' = [slotRefs EXCEPT ![p] = @ + 1]
    /\ UNCHANGED <<servers, pidfile, pidOnDisk, socketOnDisk, killed>>

\* _dbus_become_daemon: fork; the child has a copy of the context
Fork(d) ==
    LET p == First(d)
        c == Child(d)
        Copy(f) == [f EXCEPT ![c] = f[p]] IN
    /\ Forks /\ pc[p] = "configured" /\ pc[c] = "off"
    /\ \/ /\ pc' = [pc EXCEPT ![p] = "parent", ![c] = "named"]
          /\ servers' = Copy(servers) /\ pidfile' = Copy(pidfile) /\ slotRefs' = Copy(slotRefs)
       \/ Goto(p, "closing") /\ UNCHANGED <<servers, pidfile, slotRefs>>
    /\ UNCHANGED <<pidOnDisk, socketOnDisk, killed>>

\* _dbus_write_pid_file: the file must be new, and writing it may fail
WritesPid(q, ok) ==
    IF pidOnDisk # {} THEN ~ok /\ UNCHANGED pidOnDisk
    ELSE pidOnDisk' = {IF ok THEN q ELSE Garbled}

\* kill (child_pid, SIGTERM): the child ends its context only if its handler is there
Terminated(c) == IF pc[c] = "running" THEN "closing" ELSE "ended"

\* _dbus_become_daemon in the parent: on success it ends without ending its context
ParentWrites(d, ok) ==
    LET p == First(d)
        c == Child(d) IN
    /\ pc[p] = "parent"
    /\ WritesPid(c, ok)
    /\ IF ok
       THEN Goto(p, "ended") /\ UNCHANGED killed
       ELSE IF pc[c] \in Ending \cup Gone
       THEN Goto(p, "closing") /\ UNCHANGED killed
       ELSE /\ pc' = [pc EXCEPT ![p] = "closing", ![c] = Terminated(c)]
            /\ killed' = IF Terminated(c) = "ended" THEN killed \cup {c} ELSE killed
    /\ UNCHANGED <<servers, pidfile, slotRefs, socketOnDisk>>

\* bus_context_new without <fork/>
WritePid(p, ok) ==
    /\ ~Forks /\ pc[p] = "configured"
    /\ WritesPid(p, ok)
    /\ Goto(p, IF ok THEN "named" ELSE "closing")
    /\ UNCHANGED <<servers, pidfile, slotRefs, socketOnDisk, killed>>

\* process_config_postinit, _dbus_change_to_daemon_user; the second reference is given back
Postinit(p) ==
    /\ pc[p] = "named"
    /\ \/ Goto(p, "closing") /\ UNCHANGED slotRefs
       \/ Goto(p, "ready") /\ slotRefs' = [slotRefs EXCEPT ![p] = @ - 1]
    /\ UNCHANGED <<servers, pidfile, pidOnDisk, socketOnDisk, killed>>

\* main: setup_reload_pipe and the signal handlers, then the main loop; without the pipe main
\* calls exit and the context stays
Run(p) ==
    /\ pc[p] = "ready"
    /\ \/ Goto(p, "running") /\ UNCHANGED killed
       \/ Goto(p, "ended") /\ killed' = killed \cup {p}
    /\ UNCHANGED <<servers, pidfile, slotRefs, pidOnDisk, socketOnDisk>>

----------------------------------------------------------------------------
(* The end.                                                                *)

\* handle_reload_watch: ACTION_QUIT leaves the main loop
Quit(p) ==
    /\ pc[p] = "running"
    /\ Goto(p, "closing")
    /\ UNCHANGED <<servers, pidfile, slotRefs, pidOnDisk, socketOnDisk, killed>>

\* bus_context_shutdown: each server of the context is disconnected, and deletes its socket
Shutdown(p) ==
    /\ pc[p] = "closing"
    /\ Goto(p, "deleting")
    /\ servers' = [servers EXCEPT ![p] = FALSE]
    /\ socketOnDisk' = IF servers[p] THEN "none" ELSE socketOnDisk
    /\ UNCHANGED <<pidfile, slotRefs, pidOnDisk, killed>>

\* Faulty variant: the pid file is left.
UnrefLeavesPid(p) ==
    /\ pc[p] = "deleting"
    /\ Goto(p, "ended")
    /\ pidfile' = [pidfile EXCEPT ![p] = FALSE]
    /\ slotRefs' = [slotRefs EXCEPT ![p] = 0]
    /\ UNCHANGED <<servers, pidOnDisk, socketOnDisk, killed>>

\* bus_context_unref: deletes the pid file, whatever it says, and gives back a reference to the
\* slot; bus_context_new, if it has failed, gives back the other one if there is one
Unref(p) ==
    LET left == slotRefs[p] - 1 IN
    /\ pc[p] = "deleting"
    /\ Goto(p, "ended")
    /\ pidfile' = [pidfile EXCEPT ![p] = FALSE]
    /\ pidOnDisk' = IF pidfile[p] THEN {} ELSE pidOnDisk
    /\ slotRefs' = [slotRefs EXCEPT ![p] = IF left > 0 THEN left - 1 ELSE 0]
    /\ UNCHANGED <<servers, socketOnDisk, killed>>

\* a signal that is not handled: the process ends where it is
Kill(p) ==
    /\ pc[p] \notin Gone
    /\ Goto(p, "ended")
    /\ killed' = killed \cup {p}
    /\ UNCHANGED <<servers, pidfile, slotRefs, pidOnDisk, socketOnDisk>>

\* "if the message bus is not running, remove this file"
RemovePidFile ==
    /\ pidOnDisk # {} /\ \A p \in Processes : pc[p] \in Gone
    /\ pidOnDisk' = {}
    /\ UNCHANGED <<pc, servers, pidfile, slotRefs, socketOnDisk, killed>>

Next ==
    \/ \E d \in Daemons : Start(d) \/ StartFails(d) \/ Fork(d)
    \/ \E d \in Daemons, ok \in BOOLEAN : ParentWrites(d, ok)
    \/ \E p \in Processes :
          Listen(p) \/ Configure(p) \/ Postinit(p) \/ Run(p) \/ Quit(p) \/ Shutdown(p)
          \/ Unref(p) \/ Kill(p)
    \/ \E p \in Processes, ok \in BOOLEAN : WritePid(p, ok)
    \/ RemovePidFile

Spec == Init /\ [][Next]_vars

----------------------------------------------------------------------------
(* Properties.                                                             *)

TypeOK ==
    /\ pc \in [Processes -> Starting \cup Ending \cup Gone \cup {"parent", "running"}]
    /\ servers \in [Processes -> BOOLEAN] /\ pidfile \in [Processes -> BOOLEAN]
    /\ slotRefs \in [Processes -> 0 .. 2]
    /\ pidOnDisk \in {{}} \cup {{q} : q \in Processes \cup {Garbled}}
    /\ socketOnDisk \in Daemons \cup {"none"}
    /\ killed \subseteq Processes

\* No daemon was killed after it had forked and before it had written its child's pid file.
ParentsFinish == \A d \in Daemons : pc[Child(d)] = "off" \/ First(d) \notin killed

\* A daemon that runs, and whose parent has ended, is the one the pid file names: no start
\* that fails beside it, at whatever point, takes its pid file away.  (A parent that was killed
\* wrote no file, and its child's end takes away whatever file is there then.)
PidFileNamesDaemon ==
    ParentsFinish =>
        \A d \in Daemons, r \in {"first", "child"} :
            LET p == <<d, r>> IN
            (pc[p] = "running" /\ (r = "child" => pc[First(d)] = "ended")) => pidOnDisk = {p}

\* A daemon that runs can be reached: the path leads to its socket.
DaemonIsReachable ==
    ParentsFinish => \A p \in Processes : pc[p] = "running" => socketOnDisk = Daemon(p)

\* A daemon that ended its context, after a failed start too, leaves no pid file that would
\* keep the next one from starting, but for a child that ended before its parent wrote its pid.
NoStalePidFile ==
    (killed = {} /\ \A p \in Processes : pc[p] \in Gone) =>
        \A q \in pidOnDisk : \E d \in Daemons : q = Child(d)

\* The references to the server data slot balance at every point where a start can fail; the
\* parent of a daemon that forked ends with its context, as exit leaves it.
SlotsBalance ==
    \A p \in Processes :
        /\ pc[p] = "running" => slotRefs[p] = 1
        /\ pc[p] = "ended" /\ p \notin killed => 
              slotRefs[p] = 0 \/ \E d \in Daemons : p = First(d) /\ pc[Child(d)] # "off"

\* All of these; the pid file and the socket are the daemon's as long as no daemon is started
\* while another one starts or ends: two that start at once both find no pid file, and the one
\* that comes second takes away the first one's.
FilesAreTheDaemons ==
    /\ TypeOK /\ SlotsBalance /\ NoStalePidFile
    /\ ~Together => PidFileNamesDaemon /\ DaemonIsReachable
=============================================================================
