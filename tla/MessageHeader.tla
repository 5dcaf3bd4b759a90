---------------------------- MODULE MessageHeader ----------------------------
(***************************************************************************)
(* dbus/dbus-marshal-header.c and the accessors of dbus/dbus-message.c:    *)
(* the fields of a message header in the bytes of the message.  A field    *)
(* that is changed or deleted has everything behind it written again, at   *)
(* the alignment it then needs, and where the values are is remembered     *)
(* until the next change.  A value stands for its length; positions count  *)
(* from the first field.                                                   *)
(***************************************************************************)
EXTENDS Integers, Sequences, FiniteSets, SequencesExt

CONSTANTS
    Used,           \* the fields that are set
    Lengths,        \* lengths of strings
    MayFail         \* "reserve", "write": where memory may be missing

NULL == -1
UNKNOWN == -1
NONEXISTENT == -2
MAX_PADDING == 7
AllFields == {"path", "interface", "member", "error_name", "reply_serial", "destination", "sender", "signature", "unix_fds"}
Types == [f \in AllFields |-> CASE f \in {"reply_serial", "unix_fds"} -> "u" [] f = "signature" -> "g" [] OTHER -> "s"]

VARIABLES
    fields,         \* in order: code, value, and where the field and its value really are
    array_len,      \* the length of the array of fields, as written in the header
    length,         \* bytes of the header without padding
    padding,
    cache,          \* value_pos of each field, UNKNOWN or NONEXISTENT
    got,            \* what a getter has returned last, for which field
    ref             \* what was set and not deleted
vars == <<fields, array_len, length, padding, cache, got, ref>>

Align(n, a) == ((n + a - 1) \div a) * a
Size(f, v) == CASE Types[f] = "s" -> 4 + v + 1 [] Types[f] = "g" -> 1 + v + 1 [] Types[f] = "u" -> 4

Init ==
    /\ fields = <<>> /\ array_len = 0 /\ length = 0 /\ padding = 0
    /\ cache = [f \in AllFields |-> UNKNOWN] /\ got = [field |-> "none", value |-> NULL]
    /\ ref = [f \in AllFields |-> NULL]

\* a field is a struct, so it starts at a multiple of 8: its code, the type of the value, and the value
ValuePos(start) == start + 4
Cell(f, v, start) == [code |-> f, value |-> v, start |-> start]
End(c) == ValuePos(c.start) + Size(c.code, c.value)
EndOf(s) == IF s = <<>> THEN 0 ELSE End(Last(s))

\* replacement_block_init: the block is as far from a multiple of 8 as the place it will replace
BlockPadding(pos) == pos % 8

\* writer_write_reader_helper: the fields of rest are written again, from offset "at" of a block that replaces the
\* bytes from position pos on
Rewritten(rest, pos, at) ==
    LET place == FoldLeft(LAMBDA acc, c :
                     LET s == Align(acc.at, 8)
                         new == Cell(c.code, c.value, pos - BlockPadding(pos) + s) IN
                     [at |-> s + 4 + Size(c.code, c.value), done |-> Append(acc.done, new)],
                     [at |-> at, done |-> <<>>], rest) IN
    place

\* the bytes before, the new value and the bytes written after it
FixedUpLen(pos, newlen, after) == pos + newlen + after

\* the field at place k gets value v
Replaced(k, v) ==
    LET c == fields[k]
        pos == ValuePos(c.start)
        new == Cell(c.code, v, c.start)
        from == BlockPadding(pos) + Size(c.code, v)
        rest == Rewritten(SubSeq(fields, k + 1, Len(fields)), pos, from) IN
    [fields |-> SubSeq(fields, 1, k - 1) \o <<new>> \o rest.done,
     len |-> FixedUpLen(pos, Size(c.code, v), rest.at - from)]

\* the field at place k goes; the reader stands at the end of the field before
Deleted(k) ==
    LET pos == EndOf(SubSeq(fields, 1, k - 1))
        rest == Rewritten(SubSeq(fields, k + 1, Len(fields)), pos, BlockPadding(pos)) IN
    [fields |-> SubSeq(fields, 1, k - 1) \o rest.done, len |-> FixedUpLen(pos, 0, rest.at - BlockPadding(pos))]

\* write_basic_field at the end of the array
Added(f, v) ==
    LET new == Append(fields, Cell(f, v, Align(EndOf(fields), 8))) IN
    [fields |-> new, len |-> EndOf(new)]

Place(f) == CHOOSE k \in DOMAIN fields : fields[k].code = f /\ \A j \in 1 .. k - 1 : fields[j].code # f
Present(f) == \E k \in DOMAIN fields : fields[k].code = f

\* _dbus_header_cache_revalidate
Revalidated == [f \in AllFields |-> IF Present(f) THEN ValuePos(fields[Place(f)].start) ELSE NONEXISTENT]

\* _dbus_header_cache_check: the cache as it is afterwards
Checked(f) == IF cache[f] = UNKNOWN THEN Revalidated ELSE cache

Invalidated(f) == [g \in AllFields |-> UNKNOWN]

\* correct_header_padding
PaddingFor(n) == Align(n, 8) - n

Becomes(f, r) ==
    /\ fields' = r.fields /\ array_len' = r.len /\ length' = EndOf(r.fields)
    /\ padding' = PaddingFor(EndOf(r.fields))
    /\ cache' = Invalidated(f)

\* _dbus_header_set_field_basic; fails: "" or where memory is missing.  When it is missing after the padding was
\* reserved, the padding stays reserved.
SetField(f, v, fails) ==
    /\ fails \in MayFail \cup {""}
    /\ fails = "write" => ~(Types[f] = "u" /\ Present(f))
    /\ CASE fails = "reserve" -> UNCHANGED <<fields, array_len, length, padding, cache, ref>>
         [] fails = "write" ->
                /\ padding' = MAX_PADDING /\ cache' = Checked(f) /\ UNCHANGED <<fields, array_len, length, ref>>
         [] fails = "" ->
                /\ IF Checked(f)[f] # NONEXISTENT
                   THEN Becomes(f, IF Types[f] = "u" THEN [fields |-> [fields EXCEPT ![Place(f)].value = v], len |-> array_len]
                                   ELSE Replaced(Place(f), v))
                   ELSE Becomes(f, Added(f, v))
                /\ ref' = [ref EXCEPT ![f] = v]
    /\ UNCHANGED got

\* _dbus_header_delete_field; a field known not to be there, or not found, is not an error
DeleteField(f, fails) ==
    /\ fails = "" \/ (fails \in MayFail /\ Present(f))
    /\ CASE cache[f] = NONEXISTENT \/ ~Present(f) \/ fails = "reserve" ->
                fails # "write" /\ UNCHANGED <<fields, array_len, length, padding, cache, ref>>
         [] OTHER ->
                IF fails = "write" THEN padding' = MAX_PADDING /\ UNCHANGED <<fields, array_len, length, cache, ref>>
                ELSE Becomes(f, Deleted(Place(f))) /\ ref' = [ref EXCEPT ![f] = NULL]
    /\ UNCHANGED got

\* what lies at a position: the value that is really there
At(pos) == LET hit == {k \in DOMAIN fields : ValuePos(fields[k].start) = pos} IN
           IF hit = {} THEN -9 ELSE fields[CHOOSE k \in hit : TRUE].value

\* _dbus_header_get_field_basic and _dbus_header_get_field_raw
GetField(f) ==
    /\ cache' = Checked(f)
    /\ got' = [field |-> f, value |-> IF Checked(f)[f] = NONEXISTENT THEN NULL ELSE At(Checked(f)[f])]
    /\ UNCHANGED <<fields, array_len, length, padding, ref>>

\* set_or_delete_string_field
SetOrDelete(f, v, fails) == f \in Used /\ IF v = NULL THEN DeleteField(f, fails) ELSE SetField(f, v, fails)
GetUsed(f) == f \in Used /\ GetField(f)

set_path(v, fails) == SetOrDelete("path", v, fails)
set_interface(v, fails) == SetOrDelete("interface", v, fails)
set_member(v, fails) == SetOrDelete("member", v, fails)
set_error_name(v, fails) == SetOrDelete("error_name", v, fails)
set_destination(v, fails) == SetOrDelete("destination", v, fails)
set_sender(v, fails) == SetOrDelete("sender", v, fails)
set_reply_serial(v, fails) == v > 0 /\ "reply_serial" \in Used /\ SetField("reply_serial", v, fails)
set_signature(v, fails) == v # NULL /\ "signature" \in Used /\ SetField("signature", v, fails)
set_unix_fds(v, fails) == v > 0 /\ "unix_fds" \in Used /\ SetField("unix_fds", v, fails)
get_path == GetUsed("path")
get_interface == GetUsed("interface")
get_member == GetUsed("member")
get_error_name == GetUsed("error_name")
get_destination == GetUsed("destination")
get_sender == GetUsed("sender")
get_reply_serial == GetUsed("reply_serial")
get_signature == GetUsed("signature")

Next ==
    \/ \E v \in Lengths \cup {NULL}, fails \in MayFail \cup {""} :
        \/ set_path(v, fails) \/ set_interface(v, fails) \/ set_member(v, fails) \/ set_error_name(v, fails)
        \/ set_destination(v, fails) \/ set_sender(v, fails) \/ set_reply_serial(v, fails)
        \/ set_signature(v, fails) \/ set_unix_fds(v, fails)
    \/ get_path \/ get_interface \/ get_member \/ get_error_name \/ get_destination \/ get_sender
    \/ get_reply_serial \/ get_signature
Spec == Init /\ [][Next]_vars

----------------------------------------------------------------------------
\* After every sequence of changes the bytes can be read again from the start: each field begins at the multiple
\* of 8 after the one before, and the array ends where its length says.
StillReadable ==
    /\ \A k \in DOMAIN fields : fields[k].start = Align(EndOf(SubSeq(fields, 1, k - 1)), 8)
    /\ array_len = EndOf(fields)

\* A getter returns what was set last and not deleted, whatever moved in between and whether or not a change failed.
GettersTellTheTruth == got' # got => got'.value = ref[got'.field]

\* What the specification of the protocol says: with its padding the header's length is a multiple of 8.
HeaderIsAligned == (length + padding) % 8 = 0
=============================================================================
