------------------------------ MODULE Identities ------------------------------
(***************************************************************************)
(* Who somebody is: the cache of users and groups, the credentials of a    *)
(* peer, and the cookies of a keyring.  The parts share no state; each has *)
(* an Init and a Next of its own.                                          *)
(***************************************************************************)
EXTENDS Integers, FiniteSets, FiniteSetsExt, Functions, Sequences, SequencesExt

-----------------------------------------------------------------------------
(***************************************************************************)
(* The cache of users and groups (dbus/dbus-userdb.c, dbus-userdb-util.c). *)
(* An entry found in the system's files is kept under its number, where it *)
(* is owned, and under its name, where it is only pointed to.  Every call  *)
(* holds the lock of the database from its first to its last line, so that *)
(* a call is one step; an allocation may fail at each place the code asks  *)
(* for one.  Users and groups go through the same two tables each.         *)
(***************************************************************************)

CONSTANTS
    UsersKinds,       \* "users", "groups"
    Ids,         \* user or group numbers
    Names,       \* user or group names
    Self,        \* the number of the user of this process
    MaxEdits,    \* bound: changes of the system's files
    MayRename    \* the files may give an entry another name

VARIABLES
    files,    \* the system's entries: for each kind and number a name and an edition, and (history)
              \* the names it had before, with the edition that changed them
    edits,    \* changes of the files so far
    flushed,  \* the editions in the files at the last flush
    system,   \* whether system_db exists
    info,     \* per kind: the DBusUserInfos by the numbers of their blocks, Free for none
    byId,     \* per kind: number -> block
    byName,   \* per kind: name -> block
    process,  \* the edition of process_username and process_homedir, -1 before
    answer    \* the last answer

usersVars == <<files, edits, flushed, system, info, byId, byName, process, answer>>

Free   == [id |-> -1, name |-> "", edition |-> -1]
Blocks == 1 .. Cardinality(Ids) + 1
NoAnswer == [kind |-> "users", by |-> "none", info |-> Free]

Empty == [x \in {} |-> 0]

---------------------------------------------------------------------------
(* the system's files *)

\* Names that are numbers are looked up as numbers (_dbus_is_a_number).
Number(name) == IF name = "1" THEN 1 ELSE -1

\* getpwuid and getpwnam.
FilesById(kind, id) ==
    {[id |-> id, name |-> files[kind][id].name, edition |-> files[kind][id].edition]}

FilesByName(kind, name) ==
    {f \in UNION {FilesById(kind, id) : id \in Ids} : f.name = name}

Edit(kind, id, name) ==
    /\ edits < MaxEdits
    /\ name # files[kind][id].name =>
         MayRename /\ \A other \in Ids : files[kind][other].name # name
    /\ edits' = edits + 1
    /\ files' = [files EXCEPT ![kind][id] =
                    [name |-> name, edition |-> edits + 1,
                     past |-> IF name = @.name THEN @.past
                              ELSE @.past \cup {[name |-> @.name, edition |-> edits + 1]}]]
    /\ UNCHANGED <<flushed, system, info, byId, byName, process, answer>>

---------------------------------------------------------------------------
(* lookup: its outcomes from the tables t *)

Tables(kind) == [info |-> info[kind], byId |-> byId[kind], byName |-> byName[kind]]

Result(t, found) == [tables |-> t, found |-> found]
Failed(t) == Result(t, Free)

Without(f, x) == Restrict(f, DOMAIN f \ {x})
With(f, x, y) == [z \in DOMAIN f \cup {x} |-> IF z = x THEN y ELSE f[z]]

\* _dbus_hash_table_insert_uintptr frees the entry it replaces.
InsertId(t, id, block) ==
    LET freed == IF id \in DOMAIN t.byId THEN [t.info EXCEPT ![t.byId[id]] = Free] ELSE t.info
    IN  [t EXCEPT !.info = freed, !.byId = With(@, id, block)]

RemoveId(t, id) ==
    [t EXCEPT !.info[t.byId[id]] = Free, !.byId = Without(@, id)]

\* The entry is new: allocated, filled in, then put in both tables.
FillFrom(t, entries) ==
    LET block == CHOOSE b \in Blocks : t.info[b] = Free
        filled(e) == [t EXCEPT !.info[block] = e]
        owned(e)  == InsertId(filled(e), e.id, block)
        named(e)  == [owned(e) EXCEPT !.byName = With(@, e.name, block)]
    IN  {Failed(t)}
          \cup {Failed(RemoveId(owned(e), e.id)) : e \in entries}
          \cup {Result(named(e), e) : e \in entries}

LookupById(kind, t, id) ==
    IF id \in DOMAIN t.byId THEN {Result(t, t.info[t.byId[id]])}
    ELSE FillFrom(t, FilesById(kind, id))

LookupByName(kind, t, name) ==
    IF Number(name) # -1 THEN LookupById(kind, t, Number(name))
    ELSE IF name \in DOMAIN t.byName THEN {Result(t, t.info[t.byName[name]])}
    ELSE FillFrom(t, FilesByName(kind, name))

\* _dbus_user_database_lookup_group, given one of the two.
LookupGroup(t, gid, name) ==
    IF gid # -1 THEN LookupById("groups", t, gid) ELSE LookupByName("groups", t, name)

\* What is left of the tables when an entry is freed with its owner.
NoEntries == [info |-> [b \in Blocks |-> Free], byId |-> Empty, byName |-> Empty]

Put(tables) ==
    /\ info' = [k \in UsersKinds |-> tables[k].info]
    /\ byId' = [k \in UsersKinds |-> tables[k].byId]
    /\ byName' = [k \in UsersKinds |-> tables[k].byName]

---------------------------------------------------------------------------
(* the calls *)

Editions == [k \in UsersKinds |-> [id \in Ids |-> files[k][id].edition]]

UsersInit ==
    /\ files = [k \in UsersKinds |-> [id \in Ids |->
                    [name |-> IF id = Self THEN "ann" ELSE "bob", edition |-> 0, past |-> {}]]]
    /\ edits = 0 /\ flushed = Editions /\ system = FALSE /\ process = -1
    /\ info = [k \in UsersKinds |-> NoEntries.info]
    /\ byId = [k \in UsersKinds |-> Empty] /\ byName = [k \in UsersKinds |-> Empty]
    /\ answer = NoAnswer

\* init_system_db: the user of this process is looked up in the new tables,
\* and everything is taken back when that or a later step fails.
InitSystemDb ==
    IF system
    THEN {[ok |-> TRUE, process |-> process, tables |-> [k \in UsersKinds |-> Tables(k)]]}
    ELSE {[ok |-> FALSE, process |-> -1, tables |-> [k \in UsersKinds |-> NoEntries]]} \cup
         {[ok |-> TRUE, process |-> r.found.edition,
           tables |-> [k \in UsersKinds |-> IF k = "users" THEN r.tables ELSE NoEntries]] :
            r \in {x \in LookupById("users", NoEntries, Self) : x.found # Free}}

\* A call that asks for an entry: the lock, the database, the lookup.  The
\* caller's own copy may fail afterwards.
Ask(kind, by, Lookup(_)) ==
    /\ \E o \in InitSystemDb :
         /\ system' = o.ok /\ process' = o.process
         /\ IF ~o.ok THEN Put(o.tables) /\ answer' = NoAnswer
            ELSE \E r \in Lookup(o.tables[kind]) :
                   /\ Put([o.tables EXCEPT ![kind] = r.tables])
                   /\ answer' \in {[kind |-> kind, by |-> by, info |-> r.found], NoAnswer}
    /\ UNCHANGED <<files, edits, flushed>>

HomedirFromUid(id)      == Ask("users", "id", LAMBDA t : LookupById("users", t, id))
GroupsFromUid(id)       == Ask("users", "id", LAMBDA t : LookupById("users", t, id))
IsConsoleUser(id)       == Ask("users", "id", LAMBDA t : LookupById("users", t, id))
HomedirFromUsername(n)  == Ask("users", n, LAMBDA t : LookupByName("users", t, n))
GetUserId(n)            == Ask("users", n, LAMBDA t : LookupByName("users", t, n))
AddFromUser(n)          == Ask("users", n, LAMBDA t : LookupByName("users", t, n))
GetGroupId(n)           == Ask("groups", n, LAMBDA t : LookupGroup(t, -1, n))
GetGid(id)              == Ask("groups", "id", LAMBDA t : LookupGroup(t, id, ""))

\* _dbus_username_from_current_process, _dbus_homedir_from_current_process.
ProcessUser ==
    /\ \E o \in InitSystemDb :
         system' = o.ok /\ process' = o.process /\ Put(o.tables)
    /\ answer' = NoAnswer
    /\ UNCHANGED <<files, edits, flushed>>

\* _dbus_user_database_flush empties the tables of names, then the owners.
Flush == Put([k \in UsersKinds |-> NoEntries])

FlushSystem ==
    /\ IF system THEN Flush ELSE UNCHANGED <<info, byId, byName>>
    /\ flushed' = Editions /\ answer' = NoAnswer
    /\ UNCHANGED <<files, edits, system, process>>

Unref == Put([k \in UsersKinds |-> NoEntries])

\* shutdown_system_db.
Shutdown ==
    /\ system
    /\ Unref
    /\ system' = FALSE /\ process' = -1
    /\ flushed' = Editions /\ answer' = NoAnswer
    /\ UNCHANGED <<files, edits>>

UsersNext ==
    \/ \E id \in Ids : \/ HomedirFromUid(id) \/ GroupsFromUid(id) \/ IsConsoleUser(id)
                       \/ "groups" \in UsersKinds /\ GetGid(id)
    \/ \E n \in Names : \/ HomedirFromUsername(n) \/ GetUserId(n) \/ AddFromUser(n)
                        \/ "groups" \in UsersKinds /\ GetGroupId(n)
    \/ ProcessUser
    \/ FlushSystem
    \/ Shutdown
    \/ \E k \in UsersKinds, id \in Ids, n \in Names : Number(n) = -1 /\ Edit(k, id, n)

UsersSpec == UsersInit /\ [][UsersNext]_usersVars

---------------------------------------------------------------------------
(* properties *)

\* The name was taken from an entry since the last flush: what it points to has been freed when
\* the entry was found under its new name (dbus-userdb.c:198).
TakenAway(k, n) ==
    \E id \in Ids : \E p \in files[k][id].past : p.name = n /\ p.edition > flushed[k][id]

\* The table of names points only to entries that still exist, whatever was
\* looked up before in whatever order and however often memory ran out; except
\* under a name that the files have taken away from its entry meanwhile.
NamesPointToEntries ==
    \A k \in UsersKinds : \A n \in DOMAIN byName[k] :
        \/ info[k][byName[k][n]] # Free /\ info[k][byName[k][n]].name = n
        \/ TakenAway(k, n)

\* Every entry is owned by the table of numbers, once, under its number: an
\* entry that could not be put under its name as well is gone again.  (One whose
\* name was taken away has lost its place in the table of names to the next one.)
EntriesAreOwned ==
    \A k \in UsersKinds : \A b \in Blocks :
        info[k][b] # Free =>
            /\ {id \in DOMAIN byId[k] : byId[k][id] = b} = {info[k][b].id}
            /\ (\E n \in DOMAIN byName[k] : byName[k][n] = b) \/ TakenAway(k, info[k][b].name)

\* An answer is about what was asked, and it is not older than the last
\* flush: after _dbus_flush_caches nobody is told what the files said before.
\* Somebody asked for by a name that was taken away may be another one.
AnswersAreFresh ==
    answer.info # Free =>
        /\ answer.info.edition >= flushed[answer.kind][answer.info.id]
        /\ answer.by \notin {"id", "none"} =>
              \/ answer.info.name = answer.by
              \/ answer.info.id = Number(answer.by)
              \/ TakenAway(answer.kind, answer.by)

-----------------------------------------------------------------------------
(***************************************************************************)
(* DBusCredentials (dbus/dbus-credentials.c): who a peer is, as far as it  *)
(* is known.  An object holds for each kind of credential nothing or one   *)
(* value; audit data is a block of bytes with its own length.  The module  *)
(* follows three objects of one owner, the way an authentication uses      *)
(* them: what the socket says, what the peer asks for, what is granted.    *)
(***************************************************************************)

CONSTANTS
    Objects,     \* the credentials objects
    Values,      \* users, processes, SIDs and labels, as small numbers
    Audits       \* lengths of audit data

VARIABLES
    cred,    \* object -> kind -> value
    copied,  \* the copy just made and its original as it was
    merged,  \* the merge just completed: target, source and the target before
    failed   \* the last call ran out of memory

credVars == <<cred, copied, merged, failed>>

Unset == -1

\* The kinds in the order in which add_credentials merges them.
Order == <<"pid", "uid", "audit", "label", "sid">>
CredKinds == Range(Order)

\* Audit data is told by its length; the shorter is the beginning of the
\* longer.  Of processes and labels one is enough.
ValuesOf(kind) ==
    CASE kind = "audit"          -> Audits
      [] kind \in {"uid", "sid"} -> Values
      [] OTHER                   -> {1}

\* The kinds whose value is copied to the heap.
OnHeap == {"audit", "label", "sid"}

Nobody == [k \in CredKinds |-> Unset]

---------------------------------------------------------------------------
(* questions *)

\* memcmp over the length of the second block: block x begins with block y.
SameBytes(x, y) == x >= y

AreSuperset(c, sub) ==
    \A k \in CredKinds :
        \/ sub[k] = Unset
        \/ k \in {"pid", "uid"} /\ sub[k] = c[k]
        \/ k \in {"sid", "label"} /\ c[k] # Unset /\ sub[k] = c[k]
        \/ k = "audit" /\ c[k] # Unset /\ SameBytes(sub[k], c[k])

AreEmpty(c) == \A k \in CredKinds : c[k] = Unset

AreAnonymous(c) == c["uid"] = Unset /\ c["sid"] = Unset

SameUser(c, d) == c["uid"] = d["uid"] /\ c["sid"] = d["sid"]

\* _dbus_credentials_to_string_append: whether a blank precedes each part.
\* join only remembers the part before.
Parts == <<"uid", "pid", "sid", "label">>

Joined(c, i) ==
    /\ i > 1
    /\ LET before == Parts[i - 1] IN c[before] # Unset

---------------------------------------------------------------------------
(* operations *)

CredInit ==
    /\ cred = [o \in Objects |-> Nobody]
    /\ copied = <<>> /\ merged = <<>>
    /\ failed = FALSE

\* The add functions for one kind: a copy on the heap may fail, and then the
\* old value stays.
Add(o, kind, value) ==
    /\ \/ /\ cred' = [cred EXCEPT ![o][kind] = value]
          /\ failed' = FALSE
       \/ kind \in OnHeap /\ failed' = TRUE /\ UNCHANGED cred
    /\ copied' = <<>> /\ merged' = <<>>

\* The result of merging the first n kinds of d into c.
MergedUpTo(c, d, n) ==
    [k \in CredKinds |-> IF d[k] # Unset /\ \E i \in 1 .. n : Order[i] = k THEN d[k] ELSE c[k]]

\* add_credentials stops at the first kind there is no memory for; those
\* before it stay merged.
MergeOutcomes(c, d) ==
    {[ok |-> TRUE, cred |-> MergedUpTo(c, d, Len(Order))]} \cup
    {[ok |-> FALSE, cred |-> MergedUpTo(c, d, i - 1)] :
        i \in {j \in 1 .. Len(Order) : Order[j] \in OnHeap /\ d[Order[j]] # Unset}}

AddCredentials(o, p) ==
    /\ o # p
    /\ \E r \in MergeOutcomes(cred[o], cred[p]) :
         /\ cred' = [cred EXCEPT ![o] = r.cred]
         /\ failed' = ~r.ok
         /\ merged' = IF r.ok THEN <<o, p, cred[o]>> ELSE <<>>
    /\ copied' = <<>>

\* _dbus_credentials_add_credential for a single kind.
AddCredential(o, kind, p) ==
    /\ o # p
    /\ IF cred[p][kind] = Unset
       THEN failed' = FALSE /\ copied' = <<>> /\ merged' = <<>> /\ UNCHANGED cred
       ELSE Add(o, kind, cred[p][kind])

Clear(o) ==
    /\ cred' = [cred EXCEPT ![o] = Nobody]
    /\ copied' = <<>> /\ merged' = <<>> /\ failed' = FALSE

\* _dbus_credentials_copy into a new object; the half of a copy is dropped.
Copy(o, p) ==
    /\ o # p
    /\ \E r \in MergeOutcomes(Nobody, cred[p]) :
         IF r.ok
         THEN /\ cred' = [cred EXCEPT ![o] = r.cred]
              /\ copied' = <<o, cred[p]>>
              /\ failed' = FALSE
         ELSE /\ cred' = [cred EXCEPT ![o] = Nobody]
              /\ copied' = <<>>
              /\ failed' = TRUE
    /\ merged' = <<>>

CredNext ==
    \E o \in Objects :
        \/ \E k \in CredKinds : \E v \in ValuesOf(k) : Add(o, k, v)
        \/ \E p \in Objects : AddCredentials(o, p) \/ Copy(o, p)
        \/ \E p \in Objects, k \in CredKinds : AddCredential(o, k, p)
        \/ Clear(o)

CredSpec == CredInit /\ [][CredNext]_credVars

---------------------------------------------------------------------------
(* properties *)

\* "will never delete a credential from the first object": merging, complete
\* or cut short by memory, only sets or replaces; only clear and the reuse of
\* an object for a copy take something away.
MergeNeverDeletes ==
    \A o \in Objects : (\E k \in CredKinds : cred[o][k] # Unset /\ cred'[o][k] = Unset) =>
        \A p \in Objects : ~AddCredentials(o, p)

\* After a merge the target holds everything of the source, and of its own
\* whatever the source did not have.
MergeIsComplete ==
    merged # <<>> =>
        LET c == cred[merged[1]]
            d == cred[merged[2]]
        IN  /\ AreSuperset(c, d)
            /\ \A k \in CredKinds : d[k] = Unset => c[k] = merged[3][k]

\* A copy is its original in every respect the library can ask about.
CopiesAreTheSame ==
    copied # <<>> =>
        LET c == cred[copied[1]]
            d == copied[2]
        IN  /\ AreSuperset(c, d) /\ AreSuperset(d, c)
            /\ SameUser(c, d)
            /\ AreAnonymous(c) = AreAnonymous(d) /\ AreEmpty(c) = AreEmpty(d)

\* Somebody whose credentials are all contained in another's is the same user
\* or has not said who he is.
SupersetIsTheSameUser ==
    \A o, p \in Objects :
        AreSuperset(cred[o], cred[p]) /\ cred[p]["uid"] # Unset => cred[o]["uid"] = cred[p]["uid"]

-----------------------------------------------------------------------------
(***************************************************************************)
(* dbus/dbus-keyring.c: the cookies that DBUS_COOKIE_SHA1 is built on.     *)
(* Servers share a cookie file; one that has no recent cookie locks the    *)
(* file with a lock file, adds a cookie, drops the expired ones and saves. *)
(* A lock that stays too long is taken for stale and deleted.  A server    *)
(* may crash anywhere; clients read the file without the lock.             *)
(***************************************************************************)

CONSTANTS
    Servers, NoServer,
    New, Expire, Travel,    \* NEW_KEY_TIMEOUT_SECONDS, EXPIRE_KEYS_..., MAX_TIME_TRAVEL_SECONDS, in ticks
    MaxLockTimeouts,        \* MAX_LOCK_TIMEOUTS
    MaxKeys,                \* MAX_KEYS_IN_FILE
    IntBits,                \* width of an int: 32
    SlowHolders,            \* a live server may hold the lock longer than all the timeouts together
    Crashing,               \* servers that may crash
    MaxTime

VARIABLES
    clock,
    file,               \* the cookies in the file: [id, time]
    lockedBy,           \* who created the lock file that exists; NoServer when there is none
    ring,               \* keyring->keys of each server
    pc, timeouts, now,  \* of each server: where it is, n_timeouts, the time read when the reload began
    fresh,              \* of each server: the keys it is about to save
    offers,             \* history: the last challenge with each cookie, [id, at], while its window lasts
    stolen              \* history: the lock of a server at work was deleted as stale
keyringVars == <<clock, file, lockedBy, ring, pc, timeouts, now, fresh, offers, stolen>>

Ints == 0 - 2^(IntBits - 1) .. 2^(IntBits - 1) - 1

KeyringInit ==
    /\ clock = 0 /\ file = <<>> /\ lockedBy = NoServer
    /\ ring = [s \in Servers |-> <<>>] /\ pc = [s \in Servers |-> "no ring"]
    /\ timeouts = [s \in Servers |-> 0] /\ now = [s \in Servers |-> 0]
    /\ fresh = [s \in Servers |-> <<>>] /\ offers = {} /\ stolen = FALSE

IdsOf(keys) == {keys[i].id : i \in DOMAIN keys}

Loaded(f, time, max) ==
    LET good == SelectSeq(f, LAMBDA k : k.id >= 0 /\ k.time <= time + Travel /\ k.time >= time - Expire)
    IN  SubSeq(good, 1, IF Len(good) < max THEN Len(good) ELSE max)

\* find_recent_key
Recent(keys) == {i \in DOMAIN keys : clock - New < keys[i].time}
HasRecent(keys) == Recent(keys) # {}
BestId(keys) == keys[CHOOSE i \in Recent(keys) : \A j \in Recent(keys) : i <= j].id

\* the random number, made positive as far as the width of an int allows
Positive(r) == IF r < 0 /\ 0 - r \in Ints THEN 0 - r ELSE r

NewId(keys, id) == id \notin IdsOf(keys)

Goto(s, l) == pc' = [pc EXCEPT ![s] = l]
\* the keyring is of one conversation
Forget(s) ==
    /\ ring' = [ring EXCEPT ![s] = <<>>] /\ now' = [now EXCEPT ![s] = 0] /\ timeouts' = [timeouts EXCEPT ![s] = 0]

\* "the minimum time window a client has to complete authentication" (dbus-keyring.c:70)
InWindow(offer, time) == time <= offer.at + (Expire - New)

\* a reload takes less time than a key may be in the future
Tick ==
    /\ clock < MaxTime
    /\ \A s \in Servers : pc[s] \in {"no ring", "ready", "reloaded", "failed"} \/ clock < now[s] + Travel
    /\ clock' = clock + 1
    /\ offers' = {o \in offers : InWindow(o, clock')}
    /\ UNCHANGED <<file, lockedBy, ring, pc, timeouts, now, fresh, stolen>>

-----------------------------------------------------------------------------
\* _dbus_keyring_new_for_credentials: the file is read without a lock
NewRing(s) ==
    /\ pc[s] = "no ring"
    /\ ring' = [ring EXCEPT ![s] = Loaded(file, clock, MaxKeys)]
    /\ Goto(s, "ready")
    /\ UNCHANGED <<clock, file, lockedBy, timeouts, now, fresh, offers, stolen>>

\* _dbus_keyring_get_best_key with a recent key; its caller takes a negative number for a failure
Answer(s) ==
    /\ pc[s] \in {"ready", "reloaded"} /\ HasRecent(ring[s])
    /\ LET id == BestId(ring[s]) IN
       offers' = IF id < 0 THEN offers ELSE {o \in offers : o.id # id} \cup {[id |-> id, at |-> clock]}
    /\ Goto(s, "no ring") /\ Forget(s)
    /\ UNCHANGED <<clock, file, lockedBy, fresh, stolen>>

\* _dbus_keyring_reload (keyring, TRUE) begins
Reload(s) ==
    /\ pc[s] = "ready" /\ ~HasRecent(ring[s])
    /\ now' = [now EXCEPT ![s] = clock] /\ timeouts' = [timeouts EXCEPT ![s] = 0] /\ Goto(s, "lock")
    /\ UNCHANGED <<clock, file, lockedBy, ring, fresh, offers, stolen>>

\* "No recent-enough key found", or the reload failed
NoKey(s) ==
    /\ \/ pc[s] = "failed"
       \/ pc[s] = "reloaded" /\ ~HasRecent(ring[s])
    /\ Goto(s, "no ring") /\ Forget(s)
    /\ UNCHANGED <<clock, file, lockedBy, fresh, offers, stolen>>

-----------------------------------------------------------------------------
(* _dbus_keyring_lock.                                                     *)

Lock(s) ==
    /\ pc[s] = "lock" /\ timeouts[s] < MaxLockTimeouts /\ lockedBy = NoServer
    /\ lockedBy' = s /\ Goto(s, "load")
    /\ UNCHANGED <<clock, file, ring, timeouts, now, fresh, offers, stolen>>

AtWork(s) == pc[s] \in {"load", "save", "unlock", "unlock failed"}

\* the lock file is there: sleep; the last timeout passes while a live holder has
\* the lock only where such holders are assumed
Wait(s) ==
    /\ pc[s] = "lock" /\ timeouts[s] < MaxLockTimeouts /\ lockedBy # NoServer
    /\ timeouts[s] + 1 < MaxLockTimeouts \/ SlowHolders \/ ~AtWork(lockedBy)
    /\ timeouts' = [timeouts EXCEPT ![s] = @ + 1]
    /\ UNCHANGED <<clock, file, lockedBy, ring, pc, now, fresh, offers, stolen>>

\* the lock file, taken for stale, is deleted; when it has just gone the lock fails
BreakLock(s) ==
    /\ pc[s] = "lock" /\ timeouts[s] = MaxLockTimeouts
    /\ (IF lockedBy = NoServer THEN Goto(s, "failed") ELSE Goto(s, "relock"))
    /\ lockedBy' = NoServer
    /\ stolen' = (stolen \/ (lockedBy # NoServer /\ AtWork(lockedBy)))
    /\ UNCHANGED <<clock, file, ring, timeouts, now, fresh, offers>>

Relock(s) ==
    /\ pc[s] = "relock"
    /\ (IF lockedBy = NoServer THEN lockedBy' = s /\ Goto(s, "load") ELSE Goto(s, "failed") /\ UNCHANGED lockedBy)
    /\ UNCHANGED <<clock, file, ring, timeouts, now, fresh, offers, stolen>>

-----------------------------------------------------------------------------
(* _dbus_keyring_reload under the lock.                                    *)

\* A plausible bug: a key is added to those that were read before the file was locked.
LoadEarlier(s, r) ==
    /\ pc[s] = "load"
    /\ NewId(ring[s], Positive(r))
    /\ fresh' = [fresh EXCEPT ![s] = Append(ring[s], [id |-> Positive(r), time |-> clock])]
    /\ Goto(s, "save")
    /\ UNCHANGED <<clock, file, lockedBy, ring, timeouts, now, offers, stolen>>

\* the file is read and a key added (add_new_key); memory or random bytes may fail
Load(s, r) ==
    /\ pc[s] = "load"
    /\ LET keys == Loaded(file, now[s], MaxKeys - 1) IN
       /\ NewId(keys, Positive(r))
       /\ fresh' = [fresh EXCEPT ![s] = Append(keys, [id |-> Positive(r), time |-> clock])]
    /\ Goto(s, "save")
    /\ UNCHANGED <<clock, file, lockedBy, ring, timeouts, now, offers, stolen>>

LoadFails(s) ==
    /\ pc[s] = "load"
    /\ Goto(s, "unlock failed")
    /\ UNCHANGED <<clock, file, lockedBy, ring, timeouts, now, fresh, offers, stolen>>

\* _dbus_string_save_to_file: a temporary file renamed over the old one
Save(s) ==
    /\ pc[s] = "save"
    /\ file' = fresh[s] /\ ring' = [ring EXCEPT ![s] = fresh[s]]
    /\ fresh' = [fresh EXCEPT ![s] = <<>>] /\ Goto(s, "unlock")
    /\ UNCHANGED <<clock, lockedBy, timeouts, now, offers, stolen>>

SaveFails(s) ==
    /\ pc[s] = "save"
    /\ fresh' = [fresh EXCEPT ![s] = <<>>] /\ Goto(s, "unlock failed")
    /\ UNCHANGED <<clock, file, lockedBy, ring, timeouts, now, offers, stolen>>

\* _dbus_keyring_unlock deletes the lock file, whoever created it
Unlock(s) ==
    /\ pc[s] \in {"unlock", "unlock failed"}
    /\ lockedBy' = NoServer
    /\ Goto(s, IF pc[s] = "unlock" THEN "reloaded" ELSE "failed")
    /\ UNCHANGED <<clock, file, ring, timeouts, now, fresh, offers, stolen>>

\* the process ends, leaving its lock file, and another one is started
Crash(s) ==
    /\ s \in Crashing /\ pc[s] # "no ring"
    /\ Goto(s, "no ring") /\ Forget(s) /\ fresh' = [fresh EXCEPT ![s] = <<>>]
    /\ UNCHANGED <<clock, file, lockedBy, offers, stolen>>

\* what a server does once it needs a key
Work(s) ==
    \/ Answer(s) \/ Reload(s) \/ NoKey(s) \/ Lock(s) \/ Wait(s) \/ BreakLock(s) \/ Relock(s)
    \/ (\E r \in Ints : Load(s, r)) \/ LoadFails(s) \/ Save(s) \/ SaveFails(s) \/ Unlock(s)

KeyringNext == Tick \/ \E s \in Servers : NewRing(s) \/ Work(s) \/ Crash(s)
KeyringSpec == KeyringInit /\ [][KeyringNext]_keyringVars

-----------------------------------------------------------------------------
(* "The EXPIRE_KEYS_TIMEOUT_SECONDS - NEW_KEY_TIMEOUT_SECONDS is the       *)
(* minimum time window a client has to complete authentication"            *)
(* (dbus-keyring.c:70): for that long after a challenge a client that      *)
(* reads the file finds the cookie, whatever other servers do meanwhile    *)
(* and wherever they crash, provided a reload takes less than the time a   *)
(* key may be in the future, and until a server deletes the lock of one    *)
(* that is at work: as happens where two have waited for a lock that was   *)
(* left behind, or a server works longer than the others wait              *)
(* (dbus-keyring.c:225).                                                   *)
ClientHasItsWindow ==
    ~stolen => \A o \in offers : InWindow(o, clock) => o.id \in IdsOf(Loaded(file, clock, MaxKeys))

(* The ID "may not be used twice in the same file"                         *)
(* (doc/dbus-specification.xml:2935), with servers crashing anywhere.      *)
IdsAreUnique == Cardinality(IdsOf(file)) = Len(file)

(* A server that needs a key gets one or an error: a lock left by a crash  *)
(* does not stop the others for ever (dbus-keyring.c:218).                 *)
NeedsKey(s) == pc[s] = "ready"
KeyOrError(s) == pc[s] = "no ring"
=============================================================================
