-------------------- MODULE ServiceDescriptions --------------------
(***************************************************************************)
(* Service files: their syntax (bus/desktop-file.c), the daemon's table of *)
(* them (bus/activation.c), and the helper that starts a service of the    *)
(* system bus (bus/activation-helper.c).  The parts share no state.        *)
(***************************************************************************)
EXTENDS Naturals, Sequences, FiniteSets, SequencesExt

-----------------------------------------------------------------------------
(***************************************************************************)
(* desktop-file.c: a service file parsed line by line into sections and    *)
(* key/value lines, with every allocation the parser makes and may be      *)
(* refused.  A line is one of the kinds the parser tells apart; the value  *)
(* of a key is the number of its line.                                     *)
(***************************************************************************)

CONSTANTS LineKinds, MaxLines,
          MayRefuse   \* memory may run out

VARIABLES text, pos,
          file_file,      \* sections: a name and lines, a line is a key and a value
          cap,       \* n_allocated_sections, and n_allocated_lines of each
          live,      \* what is allocated
          twice,     \* something was freed that was not allocated
          status
fileVars == <<text, pos, file_file, cap, live, twice, status>>

Headers == {"[A]", "[B]"}
Keys == {"k=", "l="}
NoKey == "null"

\* What an allocation is for: a kind, a section and a line.
File == <<"file", 0, 0>>
Data == <<"data", 0, 0>>
Array == <<"sections", 0, 0>>
NameOf(i) == <<"name", i, 0>>
LinesOf(i) == <<"lines", i, 0>>
KeyOf(i, j) == <<"key", i, j>>
ValueOf(i, j) == <<"value", i, j>>
FileKinds == {"file", "data", "sections", "name", "lines", "key", "value"}

N == Len(file_file)
NLines(i) == Len(file_file[i].lines)

FileTypeOK ==
  /\ text \in Seq(LineKinds) /\ pos \in 0..Len(text)
  /\ \A i \in 1..N : /\ file_file[i].name \in Headers
                     /\ \A j \in 1..NLines(i) :
                          /\ file_file[i].lines[j].key \in Keys \cup {NoKey}
                          /\ file_file[i].lines[j].value \in 0..Len(text)
  /\ cap.sections \in 0..(2 * MaxLines)
  /\ \A i \in DOMAIN cap.lines : cap.lines[i] \in 1..(2 * MaxLines)
  /\ live \subseteq FileKinds \X (0..MaxLines) \X (0..MaxLines)
  /\ twice \in BOOLEAN
  /\ status \in {"parsing", "loaded", "refused", "stray key"}

\* bus_desktop_file_load before its loop
FileInit ==
  /\ text \in UNION {[1..n -> LineKinds] : n \in 0..MaxLines}
  /\ pos = 0 /\ file_file = <<>> /\ cap = [sections |-> 0, lines |-> <<>>]
  /\ live = {File, Data} /\ twice = FALSE /\ status = "parsing"

\* What bus_desktop_file_free and parser_free can reach.
ReachableFrom(f) ==
  {File}
  \cup (IF cap.sections > 0 THEN {Array} ELSE {})
  \cup {NameOf(i) : i \in DOMAIN f} \cup {LinesOf(i) : i \in DOMAIN f}
  \cup UNION {{KeyOf(i, j) : j \in {j \in DOMAIN f[i].lines : f[i].lines[j].key # NoKey}}
              \cup {ValueOf(i, j) : j \in {j \in DOMAIN f[i].lines : f[i].lines[j].value # 0}}
              : i \in DOMAIN f}

\* Free a set of things and give up.
Refuse(things) ==
  /\ live' = live \ things
  /\ twice' = (twice \/ ~(things \subseteq live))
  /\ status' = "refused"
  /\ UNCHANGED <<text, pos, file_file, cap>>
ParserFree(f) == ReachableFrom(f) \cup {Data}

NextLine == pos' = pos + 1
Here == text[pos + 1]
More == status = "parsing" /\ pos < Len(text)

Doubled(n) == IF n = 0 THEN 1 ELSE n * 2

-----------------------------------------------------------------------------
BlankOrComment ==
  /\ More /\ Here \in {"blank", "comment"} /\ NextLine
  /\ UNCHANGED <<text, file_file, cap, live, twice, status>>

\* A header that is no header, or a name that does not unescape
BadSection ==
  /\ More /\ Here = "bad header"
  /\ Refuse(ParserFree(file_file))

GrownSections == IF cap.sections = N THEN Doubled(cap.sections) ELSE cap.sections

SectionStart ==
  /\ More /\ Here \in Headers
  /\ file_file' = Append(file_file, [name |-> Here, lines |-> <<>>])
  /\ cap' = [sections |-> GrownSections, lines |-> Append(cap.lines, 1)]
  /\ live' = live \cup {Array, NameOf(N + 1), LinesOf(N + 1)}
  /\ NextLine /\ UNCHANGED <<text, twice, status>>

SectionRefused ==
  /\ MayRefuse /\ More /\ Here \in Headers
  /\ Refuse(ParserFree(file_file))

\* A key where there is no section yet: nothing is freed.
StrayKey ==
  /\ More /\ N = 0 /\ Here \notin Headers \cup {"bad header", "blank", "comment"}
  /\ status' = "stray key"
  /\ UNCHANGED <<text, pos, file_file, cap, live, twice>>

InSection == More /\ N > 0

LocaleKey ==
  /\ InSection /\ Here = "locale" /\ NextLine
  /\ UNCHANGED <<text, file_file, cap, live, twice, status>>

BadKey ==
  /\ InSection /\ Here \in {"no equals", "odd key", "no key", "bad escape"}
  /\ Refuse(ParserFree(file_file))

GrownLines == IF cap.lines[N] = NLines(N) THEN Doubled(cap.lines[N]) ELSE cap.lines[N]
WithLine(k, v) == [file_file EXCEPT ![N].lines = Append(@, [key |-> k, value |-> v])]

\* parse_key_value
KeyValue ==
  /\ InSection /\ Here \in Keys
  /\ LET j == NLines(N) + 1
     IN /\ file_file' = WithLine(Here, pos + 1)
        /\ live' = live \cup {KeyOf(N, j), ValueOf(N, j)}
        /\ cap' = [cap EXCEPT !.lines[N] = GrownLines]
  /\ NextLine /\ UNCHANGED <<text, twice, status>>

KeyRefused ==
  /\ MayRefuse /\ InSection /\ Here \in Keys
  /\ \E f \in {file_file, WithLine(NoKey, 0)} : Refuse(ParserFree(f))

\* The end of the file: the text is freed, the sections are the caller's.
Loaded ==
  /\ status = "parsing" /\ pos = Len(text)
  /\ status' = "loaded" /\ live' = live \ {Data}
  /\ UNCHANGED <<text, pos, file_file, cap, twice>>

FileNext == \/ BlankOrComment \/ BadSection \/ SectionStart \/ SectionRefused \/ StrayKey
        \/ LocaleKey \/ BadKey \/ KeyValue \/ KeyRefused \/ Loaded
FileSpec == FileInit /\ [][FileNext]_fileVars

-----------------------------------------------------------------------------
(* lookup_section, lookup_line, bus_desktop_file_get_raw; 0 is "no key". *)
FirstOf(S) == CHOOSE i \in S : \A j \in S : i <= j
Found(section, key) ==
  LET named == {i \in 1..N : file_file[i].name = section}
      lines == IF named = {} THEN {}
               ELSE {j \in 1..NLines(FirstOf(named)) :
                       file_file[FirstOf(named)].lines[j].key = key}
  IN IF lines = {} THEN 0 ELSE file_file[FirstOf(named)].lines[FirstOf(lines)].value

(***************************************************************************)
(* A key is found where the text first has it: in the first section of the *)
(* name, up to the next header, and never in a second section of the same  *)
(* name (parse_section_start, bus_desktop_file_get_raw).                   *)
(***************************************************************************)
FirstKeyIsFound ==
  status = "loaded" =>
    \A s \in Headers, k \in Keys :
      LET heads == {n \in DOMAIN text : text[n] = s}
          head == FirstOf(heads)
          body == {n \in (head + 1)..Len(text) :
                     \A m \in (head + 1)..n : text[m] \notin Headers}
          here == {n \in body : text[n] = k}
      IN Found(s, k) = IF heads = {} \/ here = {} THEN 0 ELSE FirstOf(here)

(***************************************************************************)
(* Whatever allocation is refused and whatever line is bad, nothing is     *)
(* freed twice, nothing stays behind a refusal and nothing but the file    *)
(* behind a success (parser_free).  A key before the first section is left *)
(* out: there the parser frees nothing.                                    *)
(***************************************************************************)
NothingStaysBehind ==
  /\ ~twice
  /\ status = "refused" => live = {}
  /\ status = "loaded" => live = ReachableFrom(file_file)

(***************************************************************************)
(* No line or section is written past the end of its array                 *)
(* (grow_lines_in_section, grow_sections).                                 *)
(***************************************************************************)
ArraysAreLargeEnough ==
  /\ N <= cap.sections
  /\ \A i \in 1..N : NLines(i) <= cap.lines[i]

-----------------------------------------------------------------------------
(***************************************************************************)
(* The daemon's cache of the .service files (bus/activation.c): a table of *)
(* entries by bus name and one by file name, brought up to date when a     *)
(* name is looked up, by the modification times of the files.  Meanwhile   *)
(* the administrator writes and removes files.                             *)
(***************************************************************************)

CONSTANTS
    Files,      \* service files
    DirOf,      \* the position of a file's directory in the configuration
    Names,      \* bus names they may give
    MaxTime     \* bound: seconds that pass

VARIABLES
    disk,       \* what the file says and when it was written
    cache,      \* [dir: entries by file, entries: the file of a name]
    now,
    found       \* the last look-up and its result

dirVars == <<disk, cache, now, found>>

None == "none"
Invalid == "invalid"            \* a file that does not parse, or lacks Name or Exec
Missing == [name |-> None, mtime |-> 0]
NoEntry == Missing
FileStates == [name : Names \cup {Invalid}, mtime : 1..MaxTime]

DirInit ==
    /\ disk = [f \in Files |-> Missing]
    /\ cache = [dir |-> [f \in Files |-> NoEntry], entries |-> [n \in Names |-> None]]
    /\ now = 1
    /\ found = [name |-> None, file |-> None]

Exists(f) == disk[f] # Missing

\* update_desktop_file_entry, for a file not seen before: the first one that
\* gives a name wins.
NewEntry(c, f) ==
    IF c.entries[disk[f].name] # None THEN c
    ELSE [c EXCEPT !.dir[f] = disk[f], !.entries[disk[f].name] = f]

\* update_desktop_file_entry, for a file that has changed: the old name is taken
\* out first, whoever has it now; a name that is taken leaves the entry as it was.
ChangedEntry(c, f) ==
    LET d == [c EXCEPT !.entries[c.dir[f].name] = None]
    IN  IF d.entries[disk[f].name] # None THEN d
        ELSE [d EXCEPT !.dir[f] = disk[f], !.entries[disk[f].name] = f]

UpdateDesktopFileEntry(c, f) == IF c.dir[f] = NoEntry THEN NewEntry(c, f) ELSE ChangedEntry(c, f)

\* check_service_file that does not mind that a file is gone.
CheckServiceFileThere(c, f) ==
    IF Exists(f) /\ disk[f].mtime > c.dir[f].mtime /\ disk[f].name # Invalid
    THEN UpdateDesktopFileEntry(c, f) ELSE c

\* check_service_file: a file that is gone is forgotten, a newer one read again.
CheckServiceFile(c, f) ==
    IF ~Exists(f) THEN [c EXCEPT !.entries[c.dir[f].name] = None, !.dir[f] = NoEntry]
    ELSE IF disk[f].mtime > c.dir[f].mtime /\ disk[f].name # Invalid
         THEN UpdateDesktopFileEntry(c, f)
    ELSE c

\* update_directory, for one file of the listing.
UpdateFile(c, f) ==
    IF ~Exists(f) THEN c
    ELSE IF c.dir[f] # NoEntry THEN CheckServiceFile(c, f)
    ELSE IF disk[f].name = Invalid THEN c
    ELSE UpdateDesktopFileEntry(c, f)

\* The files one after the other; a directory lists its files in any order.
UpdateFiles(c, order) == FoldLeft(UpdateFile, c, order)

\* The directories are read whole, one after the other: in any order when the
\* cache is brought up to date (update_service_cache walks a hash table), in that
\* of the configuration when it is built anew (bus_activation_reload).
Orders ==
    {s \in [1..Cardinality(Files) -> Files] :
        /\ IsInjective(s)
        /\ \A i, j, k \in DOMAIN s :
              i < j /\ j < k /\ DirOf[s[i]] = DirOf[s[k]] => DirOf[s[j]] = DirOf[s[i]]}
ConfiguredOrders == {s \in Orders : \A i, j \in DOMAIN s : i < j => DirOf[s[i]] <= DirOf[s[j]]}

\* activation_find_entry.
FindEntry(n) ==
    /\ IF cache.entries[n] = None
       THEN \E order \in Orders : cache' = UpdateFiles(cache, order)
       ELSE cache' = CheckServiceFile(cache, cache.entries[n])
    /\ LET f == IF cache.entries[n] = None THEN cache'.entries[n] ELSE cache.entries[n]
       IN  found' = [name |-> n, file |-> IF f = None \/ cache'.dir[f] = NoEntry THEN None ELSE f]
    /\ UNCHANGED <<disk, now>>

\* bus_activation_reload: the tables are built anew.
Reload ==
    /\ \E order \in ConfiguredOrders :
          cache' = UpdateFiles([dir |-> [f \in Files |-> NoEntry],
                                entries |-> [n \in Names |-> None]], order)
    /\ UNCHANGED <<disk, now, found>>

\* The administrator.
WriteFile(f) ==
    /\ \E n \in Names \cup {Invalid} : disk' = [disk EXCEPT ![f] = [name |-> n, mtime |-> now]]
    /\ UNCHANGED <<cache, now, found>>

RemoveFile(f) ==
    /\ Exists(f)
    /\ disk' = [disk EXCEPT ![f] = Missing]
    /\ UNCHANGED <<cache, now, found>>

Tick == now < MaxTime /\ now' = now + 1 /\ UNCHANGED <<disk, cache, found>>

DirNext ==
    \/ \E n \in Names : FindEntry(n)
    \/ Reload
    \/ \E f \in Files : WriteFile(f) \/ RemoveFile(f)
    \/ Tick

DirSpec == DirInit /\ [][DirNext]_dirVars
-----------------------------------------------------------------------------
\* Type invariant: a cached entry is something a file once said.
DirTypeOK ==
    /\ \A f \in Files : disk[f] \in FileStates \cup {Missing}
    /\ \A f \in Files : cache.dir[f] \in FileStates \cup {NoEntry} /\ cache.dir[f].name # Invalid
    /\ \A n \in Names : cache.entries[n] \in Files \cup {None}

\* The table by name leads to the entry of that name, after any sequence of
\* renamed, clashing and removed files.
NamesLeadToEntries ==
    \A n \in Names : cache.entries[n] # None => cache.dir[cache.entries[n]].name = n

\* A look-up never yields a file that is gone (check_service_file), and yields what
\* a file says now, unless it was written again within the second, does not parse,
\* or gives a name that another file has.  What the file says now may be another
\* name than the one looked up: activation_find_entry does not compare them.
FoundIsFresh ==
    \A n \in Names : FindEntry(n) /\ found'.file # None =>
       LET f == found'.file
       IN  /\ Exists(f)
           /\ \/ cache'.dir[f] = disk[f]
              \/ disk[f].mtime = cache'.dir[f].mtime
              \/ disk[f].name = Invalid
              \/ cache.entries[disk[f].name] \notin {None, f}

\* After a reload a name leads to a file of the first directory of the configuration
\* that has one for it, and to none only if there is none (bus_activation_reload).
\* This lasts only until a file changes: a later look-up takes the directories in
\* the order of a hash table, and a file that comes late never displaces another.
FirstDirectoryWins ==
    Reload => \A n \in Names :
        LET having == {f \in Files : disk[f].name = n}
        IN  IF having = {} THEN cache'.entries[n] = None
            ELSE /\ cache'.entries[n] \in having
                 /\ \A f \in having : DirOf[cache'.entries[n]] <= DirOf[f]

-----------------------------------------------------------------------------
(***************************************************************************)
(* dbus-daemon-launch-helper: the setuid program the system bus runs to    *)
(* start a service as the user its service file names, and how the daemon  *)
(* reads the helper's exit status (handle_servicehelper_exit_error).       *)
(***************************************************************************)

CONSTANTS NDirs,     \* service directories of the system configuration
          HelperKinds,     \* what a directory holds for the name asked for
          Callers,   \* who runs the helper
          Steps      \* the steps that may fail

VARIABLES pc, dirs, caller, setuid, env, ids, groups, helper_dir, error, code, report
helperVars == <<pc, dirs, caller, setuid, env, ids, groups, helper_dir, error, code, report>>

Loadable == HelperKinds \ {"absent", "broken", "no memory"}
Errors == {"none", "NoMemory", "ConfigInvalid", "SetupFailed", "ServiceInvalid",
           "ServiceNotFound", "PermissionsInvalid", "FileInvalid", "ExecFailed",
           "InvalidArgs", "ChildSignaled", "ChildExited", "Failed"}

HelperTypeOK ==
  /\ pc \in {"env", "name", "config", "user", "find", "keys", "groups", "gid", "uid",
             "argv", "exec", "running", "failed", "exited"}
  /\ dirs \in [1..NDirs -> HelperKinds] /\ caller \in Callers /\ setuid \in BOOLEAN
  /\ env \in {"caller's", "clean"} /\ groups \in {"caller's", "service's"}
  /\ ids \in [{"real", "effective", "saved", "gid"} -> Callers \cup {"root", "service"}]
  /\ helper_dir \in 0..NDirs
  /\ error \in Errors /\ report \in Errors /\ code \in 0..11

HelperInit ==
  /\ pc = "env" /\ dirs \in [1..NDirs -> HelperKinds] /\ caller \in Callers
  /\ setuid \in BOOLEAN
  /\ env = "caller's" /\ groups = "caller's" /\ helper_dir = 0
  /\ ids = [real |-> caller, effective |-> IF setuid THEN "root" ELSE caller,
            saved |-> IF setuid THEN "root" ELSE caller, gid |-> caller]
  /\ error = "none" /\ code = 0 /\ report = "none"

Fail(e) == pc' = "failed" /\ error' = e
Go(where) == pc' = where /\ UNCHANGED error
MayFail(step) == step \in Steps
World == <<dirs, caller, setuid, code, report>>

-----------------------------------------------------------------------------
ClearEnvironment ==
  /\ pc = "env"
  /\ \/ env' = "clean" /\ Go("name")
     \/ MayFail("env") /\ Fail("SetupFailed") /\ UNCHANGED env
  /\ UNCHANGED <<World, ids, groups, helper_dir>>

CheckBusName ==
  /\ pc = "name"
  /\ Go("config") \/ (MayFail("name") /\ Fail("ServiceInvalid"))
  /\ UNCHANGED <<World, env, ids, groups, helper_dir>>

\* get_correct_parser: memory, or a configuration file that cannot be loaded
LoadConfig ==
  /\ pc = "config"
  /\ \/ Go("user")
     \/ MayFail("config") /\ \E e \in {"NoMemory", "Failed"} : Fail(e)
  /\ UNCHANGED <<World, env, ids, groups, helper_dir>>

\* check_dbus_user and check_permissions
CheckUser ==
  /\ pc = "user"
  /\ \/ MayFail("user") /\ \E e \in {"ConfigInvalid", "PermissionsInvalid"} : Fail(e)
     \/ IF ids["real"] # "messagebus" \/ ids["effective"] # "root"
        THEN Fail("PermissionsInvalid") ELSE Go("find")
  /\ UNCHANGED <<World, env, ids, groups, helper_dir>>

FindFile ==
  /\ pc = "find"
  /\ IF helper_dir = NDirs THEN Fail("ServiceNotFound") /\ UNCHANGED helper_dir
     ELSE /\ helper_dir' = helper_dir + 1
          /\ CASE dirs[helper_dir + 1] \in Loadable   -> Go("keys")
               [] dirs[helper_dir + 1] = "no memory"  -> Fail("NoMemory")
               [] OTHER                        -> Go("find")
  /\ UNCHANGED <<World, env, ids, groups>>

\* get_parameters_for_service and check_service_name
GetParameters ==
  /\ pc = "keys"
  /\ \/ CASE dirs[helper_dir] = "good"       -> Go("groups")
          [] dirs[helper_dir] = "other name" -> Fail("FileInvalid")
          [] OTHER                    -> Fail("Failed")
     \/ MayFail("keys") /\ Fail("NoMemory")
  /\ UNCHANGED <<World, env, ids, groups, helper_dir>>

\* switch_user, three calls that need the rights they give away
InitGroups ==
  /\ pc = "groups"
  /\ \/ ids["effective"] = "root" /\ groups' = "service's" /\ Go("gid")
     \/ MayFail("groups") /\ Fail("SetupFailed") /\ UNCHANGED groups
  /\ UNCHANGED <<World, env, ids, helper_dir>>
SetGidUnchecked ==
  /\ pc = "gid" /\ Go("uid")
  /\ \/ ids' = [ids EXCEPT !["gid"] = "service"]
     \/ MayFail("gid") /\ UNCHANGED ids
  /\ UNCHANGED <<World, env, groups, helper_dir>>
SetGid ==
  /\ pc = "gid"
  /\ \/ /\ ids["effective"] = "root"
        /\ ids' = [ids EXCEPT !["gid"] = "service"] /\ Go("uid")
     \/ MayFail("gid") /\ Fail("SetupFailed") /\ UNCHANGED ids
  /\ UNCHANGED <<World, env, groups, helper_dir>>
SetUid ==
  /\ pc = "uid"
  /\ \/ /\ ids["effective"] = "root"
        /\ ids' = [i \in DOMAIN ids |-> IF i = "gid" THEN ids[i] ELSE "service"] /\ Go("argv")
     \/ MayFail("uid") /\ Fail("SetupFailed") /\ UNCHANGED ids
  /\ UNCHANGED <<World, env, groups, helper_dir>>

ParseArgv ==
  /\ pc = "argv"
  /\ \/ Go("exec")
     \/ MayFail("argv") /\ \E e \in {"NoMemory", "InvalidArgs"} : Fail(e)
  /\ UNCHANGED <<World, env, ids, groups, helper_dir>>

Exec ==
  /\ pc = "exec"
  /\ Go("running") \/ (MayFail("exec") /\ Fail("ExecFailed"))
  /\ UNCHANGED <<World, env, ids, groups, helper_dir>>

CodeOf(e) ==
  CASE e = "NoMemory"           -> 2
    [] e = "ConfigInvalid"      -> 3
    [] e = "SetupFailed"        -> 4
    [] e = "ServiceInvalid"     -> 5
    [] e = "ServiceNotFound"    -> 6
    [] e = "PermissionsInvalid" -> 7
    [] e = "FileInvalid"        -> 8
    [] e = "ExecFailed"         -> 9
    [] e = "InvalidArgs"        -> 10
    [] e = "ChildSignaled"      -> 11
    [] OTHER                    -> 1

ReportOf(c) ==
  CASE c = 0  -> "none"
    [] c = 2  -> "NoMemory"
    [] c = 3  -> "ConfigInvalid"
    [] c = 4  -> "SetupFailed"
    [] c = 5  -> "ServiceInvalid"
    [] c = 6  -> "ServiceNotFound"
    [] c = 7  -> "PermissionsInvalid"
    [] c = 8  -> "PermissionsInvalid"
    [] c = 9  -> "ExecFailed"
    [] c = 10 -> "InvalidArgs"
    [] c = 11 -> "ChildSignaled"
    [] OTHER  -> "ChildExited"

HelperExits ==
  /\ pc = "failed" /\ pc' = "exited"
  /\ code' = CodeOf(error)
  /\ report' = ReportOf(code')
  /\ UNCHANGED <<dirs, caller, setuid, env, ids, groups, helper_dir, error>>

HelperNext == \/ ClearEnvironment \/ CheckBusName \/ LoadConfig \/ CheckUser \/ FindFile
        \/ GetParameters \/ InitGroups \/ SetGid \/ SetUid \/ ParseArgv \/ Exec
        \/ HelperExits
HelperSpec == HelperInit /\ [][HelperNext]_helperVars

-----------------------------------------------------------------------------
(***************************************************************************)
(* The program that runs has no right left of root or of the caller: all   *)
(* of its ids, its groups and its environment are the service's, and it    *)
(* was the bus that asked for it (exec_for_correct_user, switch_user).     *)
(***************************************************************************)
RunsAsTheService ==
  pc = "running" => /\ \A i \in DOMAIN ids : ids[i] = "service"
                    /\ groups = "service's" /\ env = "clean"
                    /\ caller = "messagebus" /\ setuid

(***************************************************************************)
(* What runs comes from the first service file that loads, and that file   *)
(* is for the name asked for: a later directory never stands in for an     *)
(* earlier one with a wrong name (desktop_file_for_name,                   *)
(* check_service_name).                                                    *)
(***************************************************************************)
FirstFileRuns ==
  pc = "running" => /\ dirs[helper_dir] = "good"
                    /\ \A d \in 1..(helper_dir - 1) : dirs[d] \notin Loadable

(***************************************************************************)
(* A helper that failed is never taken for one that ran, and the daemon    *)
(* reports the error the helper met (convert_error_to_exit_code and        *)
(* handle_servicehelper_exit_error), except for two that it cannot tell    *)
(* from others: a service file for another name is reported as wrong       *)
(* permissions, one without a needed key as an unknown exit code.          *)
(***************************************************************************)
FailuresAreHeard ==
  pc = "exited" => /\ code # 0
                   /\ report = CASE error = "FileInvalid" -> "PermissionsInvalid"
                                 [] error = "Failed"      -> "ChildExited"
                                 [] OTHER                 -> error
=============================================================================
