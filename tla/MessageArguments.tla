-------------------- MODULE MessageArguments --------------------
(***************************************************************************)
(* The arguments of a message (dbus/dbus-message.c): appending them with an*)
(* iterator, and reading them into variables.  The parts share no state.   *)
(***************************************************************************)
EXTENDS Integers, Sequences, FiniteSets, SequencesExt

-----------------------------------------------------------------------------
(***************************************************************************)
(* dbus/dbus-message.c: the append iterators.  The signature of the body   *)
(* is kept in a string of its own while something is being appended, and   *)
(* becomes the header's field when the outermost operation is closed.  Any *)
(* allocation may fail; the program then abandons what it has opened, and  *)
(* the message.                                                            *)
(***************************************************************************)

CONSTANTS
    Basics,         \* basic types; "h" is a descriptor
    Containers,     \* "a" (of Element), "(" and "v"
    Element,        \* the type of array elements
    MaxBody,        \* bound on the values
    MaxDepth,       \* bound on the nesting
    MaxFds,         \* bound on the descriptors
    Fails           \* what may fail: "alloc", "dup", "write", "recurse", "field"

NULL == <<"null">>

VARIABLES
    header,         \* the fields signature and unix_fds
    body,           \* the types of the values the body really holds, as a signature
    str,            \* the signature string of the outermost iterator, or NULL
    iters,          \* the iterators, outermost first: kind and sig_refcount
    n_unix_fds,
    append_open,           \* descriptors opened for the message
    state,          \* "building", "failed" (an operation returned FALSE) or "given up"
    left            \* history: the outermost iterator has failed and not closed the signature it had opened
appendVars == <<header, body, str, iters, n_unix_fds, append_open, state, left>>

AppendInit ==
    /\ header = [signature |-> <<>>, unix_fds |-> 0] /\ body = <<>> /\ str = NULL
    /\ iters = <<[kind |-> "top", sig_refcount |-> 0]>>
    /\ n_unix_fds = 0 /\ append_open = 0 /\ state = "building" /\ left = FALSE

Depth == Len(iters)
Real == Last(iters)
May(what) == what \in Fails
Fail == state' = "failed"

\* _dbus_message_iter_open_signature: the new values of str and of the count of iterator i
OpenedStr == IF str # NULL THEN str ELSE header.signature
OpenedCount == IF Real.sig_refcount = 0 THEN 1 ELSE Real.sig_refcount + 1
\* it allocates only for the outermost iterator
Allocates == str = NULL

\* _dbus_message_iter_close_signature does something when the count is back at nothing
ClosesSignature(count) == count = 0

\* the outcome of closing with the string s: set says whether the field could be set
Close(count, s, set) ==
    /\ iters' = [iters EXCEPT ![Depth].sig_refcount = count]
    /\ IF ClosesSignature(count)
       THEN /\ header' = (IF set THEN [header EXCEPT !.signature = s] ELSE header)
            /\ str' = NULL
       ELSE /\ header' = header
            /\ str' = s

\* a value of type t goes into the string, except within an array, where it is only verified, and within
\* a variant, whose own signature is part of its value
Typed(s, t) == IF \E i \in DOMAIN iters : iters[i].kind \in {"a", "v"} THEN s ELSE s \o t

CanAppend(t) == /\ state = "building" /\ Len(body) < MaxBody
                /\ Real.kind = "a" => t = Element

\* dbus_message_iter_append_basic for any type but "h"; write: whether _dbus_type_writer_write_basic had memory
AppendBasic(t, alloc, write, field) ==
    /\ CanAppend(t) /\ t # "h"
    /\ ~alloc => (May("alloc") /\ Allocates) /\ write /\ field
    /\ ~write => May("write")
    /\ ~field => (May("field") /\ ClosesSignature(OpenedCount - 1))
    /\ IF ~alloc
       THEN Fail /\ UNCHANGED <<header, body, str, iters>>
       ELSE /\ Close(OpenedCount - 1, IF write THEN Typed(OpenedStr, <<t>>) ELSE OpenedStr, field)
            /\ body' = (IF write THEN Typed(body, <<t>>) ELSE body)
            /\ state' = (IF write /\ field THEN "building" ELSE "failed")
    /\ UNCHANGED <<n_unix_fds, append_open, left>>

OpenAfterWrite == append_open

\* ... for a descriptor: it is duplicated first, and a failure returns at once
Early == /\ str' = OpenedStr
         /\ iters' = [iters EXCEPT ![Depth].sig_refcount = OpenedCount]
         /\ Fail /\ left' = (Depth = 1) /\ UNCHANGED <<header, body, n_unix_fds>>
AppendFd(alloc, dup, write, field) ==
    /\ "h" \in Basics /\ CanAppend("h") /\ n_unix_fds < MaxFds
    /\ ~alloc => (May("alloc") /\ Allocates) /\ dup /\ write /\ field
    /\ ~dup => May("dup") /\ write /\ field
    /\ ~write => May("write") /\ field
    /\ ~field => May("field")
    /\ CASE ~alloc -> Fail /\ UNCHANGED <<header, body, str, iters, n_unix_fds, append_open, left>>
         [] alloc /\ ~dup -> Early /\ append_open' = append_open
         [] alloc /\ dup /\ ~write -> Early /\ append_open' = OpenAfterWrite
         [] OTHER ->
            /\ n_unix_fds' = n_unix_fds + 1 /\ append_open' = append_open + 1
            /\ body' = Typed(body, <<"h">>)
            /\ LET s == Typed(OpenedStr, <<"h">>)
                   closes == ClosesSignature(OpenedCount - 1) IN
               /\ header' = [signature |-> IF closes THEN s ELSE header.signature,
                             unix_fds |-> IF field THEN n_unix_fds + 1 ELSE header.unix_fds]
               /\ str' = (IF closes THEN NULL ELSE s)
               /\ iters' = [iters EXCEPT ![Depth].sig_refcount = OpenedCount - 1]
            /\ state' = (IF field THEN "building" ELSE "failed")
            /\ UNCHANGED left

\* dbus_message_iter_append_fixed_array, within an array
AppendFixedArray(write) ==
    /\ state = "building" /\ Real.kind = "a" /\ Element = "i"
    /\ ~write => May("write")
    /\ state' = (IF write THEN "building" ELSE "failed")
    /\ UNCHANGED <<header, body, str, iters, n_unix_fds, append_open, left>>

Opening(k) == CASE k = "a" -> <<"a", Element>> [] k = "v" -> <<"v">> [] k = "(" -> <<"(">>

\* dbus_message_iter_open_container: the new iterator is a copy of the outer one
OpenContainer(k, alloc, recurse) ==
    /\ state = "building" /\ Depth < MaxDepth /\ Real.kind # "a" /\ Len(body) < MaxBody
    /\ ~alloc => (May("alloc") /\ Allocates) /\ recurse
    /\ ~recurse => May("recurse")
    /\ left' = (~recurse /\ Depth = 1)
    /\ IF ~alloc THEN Fail /\ UNCHANGED <<header, body, str, iters>>
       ELSE LET opened == [iters EXCEPT ![Depth].sig_refcount = OpenedCount] IN
            /\ IF recurse
               THEN /\ iters' = Append(opened, [kind |-> k, sig_refcount |-> OpenedCount])
                    /\ str' = Typed(OpenedStr, Opening(k))
                    /\ body' = Typed(body, Opening(k))
                    /\ state' = state
               ELSE /\ iters' = opened /\ str' = OpenedStr /\ Fail /\ UNCHANGED body
            /\ UNCHANGED header
    /\ UNCHANGED <<n_unix_fds, append_open>>

CountAfterClose(outer, inner) == outer.sig_refcount - 1

\* dbus_message_iter_close_container; the end of a struct is written to the string
CloseContainer(write, field) ==
    /\ state = "building" /\ Depth > 1
    /\ ~write => May("write") /\ Real.kind = "("
    /\ LET outer == iters[Depth - 1]
           count == CountAfterClose(outer, Real)
           rest == Front(iters)
           inner == \E i \in 1 .. Depth - 1 : iters[i].kind \in {"a", "v"}
           end == IF Real.kind = "(" /\ write /\ ~inner THEN <<")">> ELSE <<>> IN
       /\ ~field => (May("field") /\ ClosesSignature(count))
       /\ iters' = [rest EXCEPT ![Depth - 1].sig_refcount = count]
       /\ body' = body \o end
       /\ IF ClosesSignature(count)
          THEN /\ header' = (IF field THEN [header EXCEPT !.signature = str \o end] ELSE header)
               /\ str' = NULL
          ELSE str' = str \o end /\ UNCHANGED header
    /\ state' = (IF write /\ field THEN "building" ELSE "failed")
    /\ UNCHANGED <<n_unix_fds, append_open, left>>

StrAfterAbandon(count) == IF count = 0 THEN NULL ELSE str

\* dbus_message_iter_abandon_container, after a failure within the container; the message is of no use afterwards
Abandon ==
    /\ state = "failed" /\ Depth > 1
    /\ LET count == iters[Depth - 1].sig_refcount - 1 IN
       /\ iters' = [Front(iters) EXCEPT ![Depth - 1].sig_refcount = count]
       /\ str' = StrAfterAbandon(count)
    /\ UNCHANGED <<header, body, n_unix_fds, append_open, state, left>>

\* nothing is open any more, and the program drops the message
GiveUp == /\ state = "failed" /\ Depth = 1 /\ state' = "given up"
          /\ UNCHANGED <<header, body, str, iters, n_unix_fds, append_open, left>>

\* dbus_message_append_args_valist and other programs: one operation after the other, until one fails
AppendNext ==
    \/ \E a, w, f \in BOOLEAN :
        \/ \E t \in Basics : AppendBasic(t, a, w, f)
        \/ \E d \in BOOLEAN : AppendFd(a, d, w, f)
    \/ \E a, r \in BOOLEAN, k \in Containers : OpenContainer(k, a, r)
    \/ \E w, f \in BOOLEAN : CloseContainer(w, f)
    \/ \E w \in BOOLEAN : AppendFixedArray(w)
    \/ Abandon \/ GiveUp
AppendSpec == AppendInit /\ [][AppendNext]_appendVars

----------------------------------------------------------------------------
\* Whenever nothing is open and nothing has failed, the header says exactly what the body holds, and how many
\* descriptors go with it; while a container is open the header says what it said before.
HeaderTellsTheBody ==
    state = "building" =>
        /\ Depth = 1 => header.signature = body
        /\ Depth > 1 => (str = body /\ IsPrefix(header.signature, body) /\ header.signature # body)
        /\ header.unix_fds = n_unix_fds

\* What the comment in dbus_message_iter_append_basic says: whatever fails, no descriptors are leaked, the message's
\* own go with it; and no memory, the string is gone, unless a descriptor could not be duplicated or written
\* (dbus-message.c:2751) or a container could not be begun (line 2925) outside every container, where it is never freed.
NothingLeaked == state = "given up" => append_open = n_unix_fds /\ (str = NULL <=> ~left)

-----------------------------------------------------------------------------
(***************************************************************************)
(* dbus/dbus-message.c: _dbus_message_iter_get_args_valist reads the       *)
(* arguments of a message into the variables of the caller, who says which *)
(* types it expects, and takes back what it has handed out when a later    *)
(* argument cannot be read.                                                *)
(***************************************************************************)

CONSTANTS
    ArgTypes,       \* of the message: "i", "h", "H" (a descriptor the message does not have), "as", "ai", "(i)"
    SpecTypes,      \* what callers ask for: "i", "h", "as", "ai", "(i)" (which is not supported)
    MaxArgs,
    MayFail         \* memory and descriptors may run out

Range1(S, n) == UNION {[1 .. k -> S] : k \in 0 .. n}

VARIABLES
    args, spec,     \* the types in the message, and those asked for
    get_i,              \* arguments read
    at,             \* the reader's place: the argument it stands on, 0 when it is at the end
    out,            \* the caller's variables
    get_open,           \* descriptors duplicated for the caller
    arrays,         \* arrays of strings allocated for the caller
    j,              \* arguments taken back
    pc, oom
getVars == <<args, spec, get_i, at, out, get_open, arrays, j, pc, oom>>

GetInit ==
    /\ args \in Range1(ArgTypes, MaxArgs) /\ spec \in Range1(SpecTypes, MaxArgs)
    /\ get_i = 0 /\ at = (IF args = <<>> THEN 0 ELSE 1)
    /\ out = [k \in DOMAIN spec |-> "unset"]
    /\ get_open = 0 /\ arrays = 0 /\ j = 0 /\ pc = "read" /\ oom = FALSE

\* dbus_message_iter_get_arg_type and the type of array elements; a descriptor is one whether it is there or not
ArgType == IF at = 0 THEN "invalid" ELSE IF args[at] = "H" THEN "h" ELSE args[at]

Matches(t) == ArgType = t

Out(k, v) == out' = [out EXCEPT ![k] = v]
ToCleanup == pc' = "clean" /\ UNCHANGED <<get_i, at, out, get_open, arrays, j>>

EndsHere == at = Len(args) /\ get_i + 1 < Len(spec)

\* the reader goes to the next argument, which must be there when another one is asked for
Advance ==
    /\ get_i' = get_i + 1
    /\ at' = (IF at = Len(args) THEN 0 ELSE at + 1)
    /\ pc' = (IF EndsHere THEN "clean" ELSE "read")
    /\ UNCHANGED j

\* the types differ, the type is not supported, or the message has no such descriptor
Refuse ==
    /\ pc = "read" /\ get_i < Len(spec)
    /\ LET t == spec[get_i + 1] IN ~Matches(t) \/ t = "(i)" \/ (t = "h" /\ Matches("h") /\ args[at] = "H")
    /\ ToCleanup /\ UNCHANGED <<args, spec, oom>>

ReadBasic ==
    /\ pc = "read" /\ get_i < Len(spec) /\ spec[get_i + 1] = "i" /\ Matches("i")
    /\ Out(get_i + 1, "value") /\ Advance
    /\ UNCHANGED <<args, spec, get_open, arrays, oom>>

\* a pointer into the message
ReadFixedArray ==
    /\ pc = "read" /\ get_i < Len(spec) /\ spec[get_i + 1] = "ai" /\ Matches("ai")
    /\ Out(get_i + 1, "inside") /\ Advance
    /\ UNCHANGED <<args, spec, get_open, arrays, oom>>

\* _dbus_dup may fail
ReadFd(ok) ==
    /\ pc = "read" /\ get_i < Len(spec) /\ spec[get_i + 1] = "h" /\ Matches("h") /\ args[at] # "H"
    /\ ok \/ MayFail
    /\ IF ok THEN Out(get_i + 1, "fd") /\ get_open' = get_open + 1 /\ Advance /\ UNCHANGED <<arrays, oom>>
       ELSE ToCleanup /\ oom' = TRUE
    /\ UNCHANGED <<args, spec>>

ArraysAfterFailedCopy == arrays

\* the array, and a copy of each string; ok: nothing, "array" or "string" fails
ReadStringArray(fails) ==
    /\ pc = "read" /\ get_i < Len(spec) /\ spec[get_i + 1] = "as" /\ Matches("as")
    /\ fails # "none" => MayFail
    /\ IF fails = "none" THEN Out(get_i + 1, "array") /\ arrays' = arrays + 1 /\ Advance /\ UNCHANGED <<get_open, oom>>
       ELSE /\ arrays' = (IF fails = "string" THEN ArraysAfterFailedCopy ELSE arrays)
            /\ oom' = TRUE /\ pc' = "clean" /\ UNCHANGED <<get_i, at, out, get_open, j>>
    /\ UNCHANGED <<args, spec>>

Done ==
    /\ pc = "read" /\ get_i = Len(spec)
    /\ pc' = "true" /\ UNCHANGED <<args, spec, get_i, at, out, get_open, arrays, j, oom>>

ToTakeBack == j < get_i

\* what was handed out is taken back, argument by argument along the list of types
TakeBack ==
    /\ pc = "clean" /\ ToTakeBack
    /\ j' = j + 1
    /\ LET t == spec[j + 1] IN
       /\ get_open' = (IF t = "h" THEN get_open - 1 ELSE get_open)
       /\ arrays' = (IF t = "as" THEN arrays - 1 ELSE arrays)
       /\ out' = [out EXCEPT ![j + 1] = CASE t = "h" -> "-1" [] t = "as" -> "null" [] OTHER -> @]
    /\ UNCHANGED <<args, spec, get_i, at, pc, oom>>
CleanedUp ==
    /\ pc = "clean" /\ ~ToTakeBack
    /\ pc' = "false" /\ UNCHANGED <<args, spec, get_i, at, out, get_open, arrays, j, oom>>

GetNext == \/ Refuse \/ ReadBasic \/ ReadFixedArray \/ Done \/ TakeBack \/ CleanedUp
        \/ \E ok \in BOOLEAN : ReadFd(ok)
        \/ \E f \in {"none", "array", "string"} : ReadStringArray(f)
GetSpec == GetInit /\ [][GetNext]_getVars

----------------------------------------------------------------------------
\* When the call fails, whichever argument could not be read, the caller is left with nothing to close and
\* nothing to free.
FailureTakesAllBack ==
    pc = "false" => (get_open = 0 /\ arrays = 0 /\ \A k \in DOMAIN out : out[k] \notin {"fd", "array"})

\* The call succeeds exactly when the message starts with arguments of the types asked for, all of them readable,
\* and there was memory; then every variable of the caller is set.
SucceedsWhenItShould ==
    /\ pc = "true" => (IsPrefix(spec, args) /\ \A k \in DOMAIN out : out[k] # "unset")
    /\ pc = "false" => (oom \/ "(i)" \in ToSet(spec) \/ ~IsPrefix(spec, args))
=============================================================================
