------------------------------ MODULE BusConfig ------------------------------
(***************************************************************************)
(* The configuration of the daemon: loading it, and watching the           *)
(* directories it names.  The two parts share no state; the second has its *)
(* own WatchInit and WatchNext.                                            *)
(***************************************************************************)
EXTENDS Naturals, Sequences, FiniteSets, SequencesExt

-----------------------------------------------------------------------------
(***************************************************************************)
(* Loading of the daemon's configuration (bus/config-parser.c,             *)
(* config-loader-expat.c): files of elements, which may include other      *)
(* files and the files of a directory, each read by a parser of its own    *)
(* that is merged into the parser of the including file.  The parser of    *)
(* the activation helper (config-parser-trivial.c) reads the same file.    *)
(*                                                                         *)
(* An element is handled by one step: its start, its content and its end.  *)
(***************************************************************************)

CONSTANTS
    Files,          \* files that exist; "main" is the one the daemon is started with
    InDir,          \* those that are in the directory of <includedir>
    Plain,          \* names of elements without an argument, of {"fork", "syslog", "stray", ...}
    Users, Dirs, Addresses, Limits, Rules, Contexts,    \* contents of elements
    Includes,       \* files that <include> may name, "missing" among them
    Optional,       \* files that <include ignore_missing="yes"> may name
    DirIncludes,    \* directories that <includedir> may name
    MaxLen          \* bound on the elements of a file

VARIABLES
    content,        \* [file]: its elements
    stack,          \* the parsers at work, the including one below the included one
    error,          \* the error of the topmost parser, or ""
    outcome         \* "", "loaded" or "failed"

vars == <<content, stack, error, outcome>>

El(t, S) == {[el |-> t, arg |-> a] : a \in S}
Items ==
    UNION {El(e, {""}) : e \in Plain} \cup El("user", Users) \cup El("servicedir", Dirs)
    \cup El("listen", Addresses) \cup El("limit", Limits) \cup El("rule", Rules)
    \cup El("associate", Contexts) \cup El("include", Includes)
    \cup El("optional", Optional) \cup El("includedir", DirIncludes)

Flags == {"fork", "keep_umask", "allow_anonymous"}

\* <limit>: set_limit accepts these
ValidLimit(a) == a \in {"10", "20"}

\* bus_config_parser_new: the limits, and nothing else, come from the including parser
New(limits) ==
    [flags |-> {}, syslog |-> FALSE, user |-> "", listen |-> <<>>, dirs |-> <<>>,
     limits |-> limits, rules |-> <<>>, contexts |-> <<>>, confDirs |-> {}]

Frame(f, via, limits) ==
    [file |-> f, via |-> via, pos |-> 1, left |-> {}, reading |-> FALSE,
     p |-> New(limits), from |-> limits, trace |-> <<>>]

Init ==
    /\ content \in [Files -> UNION {[1 .. n -> Items] : n \in 0 .. MaxLen}]
    /\ stack = <<Frame("main", "top", "default")>>
    /\ error = "" /\ outcome = ""

----------------------------------------------------------------------------
(* Elements.                                                               *)

\* service_dirs_append_unique_or_free
AddDir(dirs, d) == IF d \in Range(dirs) THEN dirs ELSE Append(dirs, d)

\* merge_service_context_hash, start_selinux_child: the last one wins
AddContext(cs, c) == Append(SelectSeq(cs, LAMBDA x : x # c), c)

\* start_busconfig_child: an element that is not known, or whose attributes are not, is an
\* error, as is a limit that does not exist or is negative or too large
Refuses(i) == i.el = "stray" \/ (i.el = "limit" /\ ~ValidLimit(i.arg))

\* start_busconfig_child: elements that are there or not
ApplyFlag(p, i) == IF i.el = "syslog" THEN [p EXCEPT !.syslog = TRUE]
                   ELSE [p EXCEPT !.flags = @ \cup {i.el}]

\* bus_config_parser_content: elements that are their text
ApplyContent(p, i) ==
    CASE i.el = "user" -> [p EXCEPT !.user = i.arg]
      [] i.el = "listen" -> [p EXCEPT !.listen = Append(@, i.arg)]
      [] i.el = "servicedir" -> [p EXCEPT !.dirs = AddDir(@, i.arg)]
      [] i.el = "limit" -> [p EXCEPT !.limits = i.arg]

\* start_policy_child, start_selinux_child
ApplyChild(p, i) == IF i.el = "rule" THEN [p EXCEPT !.rules = Append(@, i.arg)]
                    ELSE [p EXCEPT !.contexts = AddContext(@, i.arg)]

\* start_busconfig_child: what an element does
Apply(p, i) ==
    CASE i.el \in Flags \cup {"syslog"} -> ApplyFlag(p, i)
      [] i.el \in {"user", "listen", "servicedir", "limit"} -> ApplyContent(p, i)
      [] i.el \in {"rule", "associate"} -> ApplyChild(p, i)

Top == stack[Len(stack)]
SetTop(f) == stack' = [stack EXCEPT ![Len(stack)] = f]
Running == stack # <<>> /\ error = "" /\ outcome = ""
Item == content[Top.file][Top.pos]
Reads == Running /\ ~Top.reading /\ Top.pos <= Len(content[Top.file])

Element ==
    /\ Reads /\ Item.el \notin {"include", "optional", "includedir"}
    /\ IF Refuses(Item)
       THEN error' = "failed" /\ UNCHANGED stack
       ELSE /\ SetTop([Top EXCEPT !.pos = @ + 1, !.p = Apply(@, Item),
                                  !.trace = Append(@, Item)])
            /\ UNCHANGED error
    /\ UNCHANGED <<content, outcome>>

----------------------------------------------------------------------------
(* Inclusion.                                                              *)

\* seen_include: the files that are being included; the first file is not among them
Seen(f) == \E k \in 2 .. Len(stack) : stack[k].file = f

\* include_file for the frame t, which has gone past what names f
IncludeFile(t, f, via, ignoreMissing) ==
    LET here == [stack EXCEPT ![Len(stack)] = t]
    IN CASE Seen(f) -> stack' = here /\ error' = IF via = "dir" THEN "" ELSE "failed"
         [] ~Seen(f) /\ f \notin Files ->
                stack' = here /\ error' = IF ignoreMissing THEN "" ELSE "failed"
         [] OTHER -> error' = "" /\ stack' = Append(here, Frame(f, via, t.p.limits))

Include ==
    /\ Reads /\ Item.el \in {"include", "optional"}
    /\ IncludeFile([Top EXCEPT !.pos = @ + 1], Item.arg, "include", Item.el = "optional")
    /\ UNCHANGED <<content, outcome>>

\* include_dir: a directory that does not exist is no error
OpenDir ==
    /\ Reads /\ Item.el = "includedir"
    /\ SetTop(IF Item.arg = "missing" THEN [Top EXCEPT !.pos = @ + 1]
              ELSE [Top EXCEPT !.reading = TRUE, !.left = InDir])
    /\ UNCHANGED <<content, error, outcome>>

\* its files, in any order
NextFile ==
    /\ Running /\ Top.reading /\ Top.left # {}
    /\ \E f \in Top.left :
          IncludeFile([Top EXCEPT !.left = @ \ {f}], f, "dir", TRUE)
    /\ UNCHANGED <<content, outcome>>

CloseDir ==
    /\ Running /\ Top.reading /\ Top.left = {}
    /\ SetTop([Top EXCEPT !.reading = FALSE, !.pos = @ + 1,
                          !.p.confDirs = @ \cup {Item.arg}])
    /\ UNCHANGED <<content, error, outcome>>

\* merge_included, bus_policy_merge, and the limits, which include_file takes over
Merge(p, q) ==
    [p EXCEPT !.flags = @ \cup q.flags,
              !.user = IF q.user = "" THEN @ ELSE q.user,
              !.listen = @ \o q.listen,
              !.dirs = FoldLeft(AddDir, @, q.dirs),
              !.rules = @ \o q.rules,
              !.contexts = FoldLeft(AddContext, @, q.contexts),
              !.confDirs = @ \cup q.confDirs,
              !.limits = q.limits]

\* bus_config_parser_finished: the first file must have an address to listen on
Finish ==
    /\ Running /\ ~Top.reading /\ Top.pos > Len(content[Top.file])
    /\ IF Len(stack) = 1
       THEN IF Top.p.listen = <<>> THEN error' = "failed" /\ UNCHANGED <<stack, outcome>>
            ELSE outcome' = "loaded" /\ UNCHANGED <<stack, error>>
       ELSE LET below == stack[Len(stack) - 1]
            IN /\ stack' = Append(SubSeq(stack, 1, Len(stack) - 2),
                              [below EXCEPT !.p = Merge(@, Top.p),
                                            !.trace = @ \o Top.trace])
               /\ UNCHANGED <<error, outcome>>
    /\ UNCHANGED content

\* the parser of a file that failed is freed
Drop(below, t) == below

\* bus_config_load fails: the including file fails too, but for a file of a directory the
\* error is logged and reading goes on
Fail ==
    /\ error # "" /\ outcome = ""
    /\ IF Len(stack) = 1
       THEN outcome' = "failed" /\ UNCHANGED <<stack, error>>
       ELSE /\ stack' = Append(SubSeq(stack, 1, Len(stack) - 2),
                               Drop(stack[Len(stack) - 1], Top))
            /\ error' = IF Top.via = "dir" THEN "" ELSE error
            /\ UNCHANGED outcome
    /\ UNCHANGED content

Next == Element \/ Include \/ OpenDir \/ NextFile \/ CloseDir \/ Finish \/ Fail

Spec == Init /\ [][Next]_vars

----------------------------------------------------------------------------
(* The parser of the activation helper.                                    *)

\* bus_config_parser_content of config-parser-trivial.c: the text is inserted before what the
\* string holds; elements that are of no interest, errors among them, are passed over
TrivialApply(p, i) ==
    CASE i.el = "user" -> [p EXCEPT !.user = <<i.arg>> \o @]
      [] i.el = "servicedir" -> [p EXCEPT !.dirs = @ \cup {i.arg}]
      [] OTHER -> p

Helper == FoldLeft(TrivialApply, [user |-> <<>>, dirs |-> {}], content["main"])

----------------------------------------------------------------------------
(* Properties.                                                             *)

TypeOK ==
    /\ stack # <<>> /\ Len(stack) <= Cardinality(Files) + 1
    /\ stack[1].file = "main" /\ stack[1].via = "top"
    /\ error \in {"", "failed"} /\ outcome \in {"", "loaded", "failed"}
    /\ \A k \in DOMAIN stack : stack[k].p.limits \in {"default", "10", "20"}

\* Whatever way files include each other, a parser holds what its own file and the files that
\* it has included so far would give if they were one file, the later ones winning
\* (merge_included); a file that failed has given nothing.
AsOneFile ==
    \A k \in DOMAIN stack :
        LET inline == FoldLeft(Apply, New(stack[k].from), stack[k].trace)
        IN stack[k].p = [inline EXCEPT !.confDirs = stack[k].p.confDirs]

\* A directory lists a service directory once (service_dirs_append_link_unique_or_free).
DirsAreUnique == \A k \in DOMAIN stack : IsInjective(stack[k].p.dirs)

\* Loading comes to an end, although files include each other (seen_include).
LoadingEnds == outcome # ""

\* A configuration that is loaded has all the files of the first one: only the files of a
\* directory, and missing ones where that was said, may be left out (include_file).
NothingIsSkipped ==
    outcome = "loaded" =>
        \A i \in DOMAIN content["main"] :
            LET x == content["main"][i]
            IN x.el = "include" =>
                  x.arg \in Files /\ \A j \in DOMAIN content[x.arg] : ~Refuses(content[x.arg][j])

\* The helper and the daemon read the same user and service directories from a file that
\* includes nothing and names one user (config-parser-trivial.c).
HelperAgrees ==
    LET c == content["main"]
        users == {i \in DOMAIN c : c[i].el = "user"}
    IN outcome = "loaded" /\ Cardinality(users) <= 1
       /\ (\A i \in DOMAIN c : c[i].el \notin {"include", "optional", "includedir"})
       => /\ Range(stack[1].p.dirs) = Helper.dirs
          /\ Helper.user = IF users = {} THEN <<>> ELSE <<stack[1].p.user>>

-----------------------------------------------------------------------------
(***************************************************************************)
(* The watches on the directories of the configuration                     *)
(* (bus/dir-watch-inotify.c, bus/dir-watch-kqueue.c): at each reload the   *)
(* list of directories is compared with the one of the last reload, and    *)
(* the watches of directories that stay are moved over.  A change in a     *)
(* watched directory sends the daemon a SIGHUP, and so reloads.            *)
(*                                                                         *)
(* A directory that is removed and made again has another inode.  With     *)
(* inotify a watch is the inode's and ends with it; with kqueue it is an   *)
(* open file descriptor, which outlives the directory.                     *)
(***************************************************************************)

CONSTANTS
    Directories,    \* names of directories
    Kind,           \* "inotify" or "kqueue"
    Again,          \* TRUE if a directory that was removed may be made again
    MaxInode,       \* bound on the inodes that are ever made
    Errors          \* errors of the system other than a missing directory, of {"nospace", "oom"}

VARIABLES
    inode,          \* [directory]: its inode, or 0 if it does not exist
    inodes,         \* number of inodes made so far
    removed,        \* directories that were removed
    list,           \* the directories of the configuration
    wds,            \* the arrays wds and dirs: sequence of [dir, h], h = NoWatch if not watched
    kernel,         \* watches the kernel has: [ino, n]
    events,         \* an event can be read
    hup,            \* a SIGHUP has not been acted upon
    changed,        \* directories with a change no reload has seen
    seen            \* [directory]: its inode when the last reload listed it, or 0

watchVars == <<inode, inodes, removed, list, wds, kernel, events, hup, changed, seen>>

NoWatch == [ino |-> 0, n |-> 0]
Lists == {SetToSeq(S) : S \in SUBSET Directories}

WatchInit ==
    /\ inode = [d \in Directories |-> 0] /\ inodes = 0 /\ removed = {}
    /\ list = <<>> /\ wds = <<>> /\ kernel = {}
    /\ events = FALSE /\ hup = FALSE /\ changed = {}
    /\ seen = [d \in Directories |-> 0]

Watched(d) == inode[d] # 0 /\ \E h \in kernel : h.ino = inode[d]

----------------------------------------------------------------------------
(* The file system and the administrator.                                  *)

MakeDir(d) ==
    /\ inode[d] = 0 /\ inodes < MaxInode
    /\ Again \/ d \notin removed
    /\ inodes' = inodes + 1
    /\ inode' = [inode EXCEPT ![d] = inodes + 1]
    /\ UNCHANGED <<removed, list, wds, kernel, events, hup, changed, seen>>

\* inotify: IN_IGNORED; kqueue: NOTE_DELETE
RemoveDir(d) ==
    /\ inode[d] # 0
    /\ events' = (events \/ Watched(d))
    /\ kernel' = IF Kind = "inotify" THEN {h \in kernel : h.ino # inode[d]} ELSE kernel
    /\ inode' = [inode EXCEPT ![d] = 0]
    /\ removed' = removed \cup {d} /\ changed' = changed \ {d}
    /\ UNCHANGED <<inodes, list, wds, hup, seen>>

\* a file of the directory is written, deleted or moved
Touch(d) ==
    /\ inode[d] # 0
    /\ events' = (events \/ Watched(d))
    /\ changed' = changed \cup {d}
    /\ UNCHANGED <<inode, inodes, removed, list, wds, kernel, hup, seen>>

\* the configuration is edited, and the daemon is told
Edit(l) ==
    /\ l # list
    /\ list' = l /\ hup' = TRUE
    /\ UNCHANGED <<inode, inodes, removed, wds, kernel, events, changed, seen>>

----------------------------------------------------------------------------
(* The daemon.                                                             *)

\* _handle_inotify_watch, _handle_kqueue_watch
HandleWatch ==
    /\ events
    /\ events' = FALSE /\ hup' = TRUE
    /\ UNCHANGED <<inode, inodes, removed, list, wds, kernel, changed, seen>>

\* the first loop: the watch the last reload left for directory d
Kept(d) == LET i == SelectInSeq(wds, LAMBDA w : w.dir = d /\ w.h # NoWatch)
           IN IF i = 0 THEN NoWatch ELSE wds[i].h

\* the second loop: watches nobody moved over are removed
Dropped == {w.h : w \in {x \in Range(wds) : x.dir \notin Range(list)}}

\* inotify_add_watch, open and kevent on directory d: with kqueue a descriptor that is free
NewWatch(d) ==
    [ino |-> inode[d],
     n |-> IF Kind = "inotify" THEN 0
           ELSE CHOOSE k \in 1 .. Cardinality(kernel) + 1 : \A h \in kernel : h.n # k]

\* the third loop: what it adds for directory d
Added(d) == IF Kept(d) = NoWatch /\ inode[d] # 0 THEN NewWatch(d) ELSE NoWatch

\* _set_watched_dirs_internal, bus_set_watched_dirs of kqueue: directories that are not there
\* are passed over
SetWatchedDirs ==
    /\ hup /\ hup' = FALSE
    /\ wds' = SelectSeq([i \in 1 .. Len(list) |->
                  [dir |-> list[i],
                   h |-> IF Kept(list[i]) # NoWatch THEN Kept(list[i]) ELSE Added(list[i])]],
                  LAMBDA w : w.h # NoWatch)
    /\ kernel' = ((kernel \ Dropped) \cup {Added(d) : d \in Range(list)}) \ {NoWatch}
    /\ changed' = {}
    /\ seen' = [d \in Directories |-> IF d \in Range(list) THEN inode[d] ELSE 0]
    /\ UNCHANGED <<inode, inodes, removed, list, events>>

\* the same when the system refuses a watch for directory d: the rest of the list is given up,
\* and the arrays are left without the watches that were moved
SetWatchedDirsFails(d) ==
    /\ "nospace" \in Errors
    /\ hup /\ hup' = FALSE
    /\ d \in Range(list) /\ Kept(d) = NoWatch /\ inode[d] # 0
    /\ LET before == {e \in Range(list) : \E i, j \in DOMAIN list :
                                            i < j /\ list[i] = e /\ list[j] = d}
       IN kernel' = ((kernel \ Dropped) \cup {Added(e) : e \in before}) \ {NoWatch}
    /\ wds' = <<>>
    /\ changed' = {}
    /\ seen' = [e \in Directories |-> 0]
    /\ UNCHANGED <<inode, inodes, removed, list, events>>

\* strdup fails for directory d: its watch is given back
SetWatchedDirsNoMemory(d) ==
    /\ "oom" \in Errors
    /\ hup /\ hup' = FALSE
    /\ d \in Range(list) /\ Kept(d) = NoWatch /\ inode[d] # 0
    /\ LET kept == SelectSeq(list, LAMBDA e : e # d) IN
       /\ wds' = SelectSeq([i \in 1 .. Len(kept) |->
                     [dir |-> kept[i],
                      h |-> IF Kept(kept[i]) # NoWatch THEN Kept(kept[i]) ELSE Added(kept[i])]],
                     LAMBDA w : w.h # NoWatch)
       /\ kernel' = ((kernel \ Dropped) \cup {Added(e) : e \in Range(kept)}) \ {NoWatch}
       /\ seen' = [e \in Directories |-> IF e \in Range(kept) THEN inode[e] ELSE 0]
    /\ changed' = {}
    /\ UNCHANGED <<inode, inodes, removed, list, events>>

\* _shutdown_inotify, _shutdown_kqueue, and the start of the next daemon, which lists nothing yet
Restart ==
    /\ wds # <<>> \/ kernel # {}
    /\ wds' = <<>> /\ kernel' = {} /\ events' = FALSE /\ hup' = TRUE
    /\ seen' = [d \in Directories |-> 0]
    /\ UNCHANGED <<inode, inodes, removed, list, changed>>

Reload == SetWatchedDirs \/ \E d \in Directories : SetWatchedDirsFails(d) \/ SetWatchedDirsNoMemory(d)

WatchNext ==
    \/ \E d \in Directories : MakeDir(d) \/ RemoveDir(d) \/ Touch(d)
    \/ \E l \in Lists : Edit(l)
    \/ HandleWatch \/ Reload \/ Restart

WatchSpec == WatchInit /\ [][WatchNext]_watchVars

----------------------------------------------------------------------------
(* Properties.                                                             *)

Watches == [ino : 1 .. MaxInode, n : 0 .. MaxInode + Cardinality(Directories)]
WatchTypeOK ==
    /\ inode \in [Directories -> 0 .. MaxInode] /\ seen \in [Directories -> 0 .. MaxInode]
    /\ list \in Lists /\ kernel \subseteq Watches
    /\ \A w \in Range(wds) : w.dir \in Directories /\ w.h \in Watches

\* A directory that was there at the last reload, and still is, is watched.
ListedIsWatched ==
    \A d \in Directories : (seen[d] # 0 /\ inode[d] = seen[d]) => Watched(d)

\* Reloading again and again does not pile up watches: the kernel has only those in the arrays,
\* at most one for a directory.
NoWatchIsForgotten ==
    /\ kernel \subseteq {w.h : w \in Range(wds)}
    /\ \A v, w \in DOMAIN wds : wds[v].dir = wds[w].dir => v = w

\* A change in a directory that the last reload has seen is followed by another reload.
Changed(d) == d \in changed /\ seen[d] = inode[d]
Reloaded(d) == d \notin changed
=============================================================================
