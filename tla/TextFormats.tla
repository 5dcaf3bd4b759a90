-------------------- MODULE TextFormats --------------------
(***************************************************************************)
(* Texts of the protocol: signatures, paths and names, and addresses.  The *)
(* parts share no state; each has an Init and a Next of its own.           *)
(***************************************************************************)
EXTENDS Integers, Sequences, SequencesExt, FiniteSets, FiniteSetsExt

-----------------------------------------------------------------------------
(***************************************************************************)
(* Type signatures: the check of a signature                               *)
(* (dbus/dbus-marshal-validate.c), skipping one complete type              *)
(* (dbus/dbus-marshal-recursive.c) and the iterators over signatures       *)
(* (dbus/dbus-signature.c), against the grammar of the specification.      *)
(*                                                                         *)
(* The signature grows character by character, so that the reachable       *)
(* states are all texts over Chars up to MaxLen.  "i" stands for every     *)
(* basic type, "x" for every other character.                              *)
(***************************************************************************)

CONSTANTS
    SigChars,          \* subset of {"i", "v", "a", "(", ")", "{", "}", "x"}
    MaxLen,         \* bound on the length of a text
    MaxSigLen,      \* DBUS_MAXIMUM_SIGNATURE_LENGTH
    MaxDepth        \* DBUS_MAXIMUM_TYPE_RECURSION_DEPTH

VARIABLE sig

SigInit == sig = <<>>
SigNext == Len(sig) < MaxLen /\ \E c \in SigChars : sig' = Append(sig, c)
SigSpec == SigInit /\ [][SigNext]_sig

\* the character at position i, "" (nul) behind the end
At(i) == IF i \in DOMAIN sig THEN sig[i] ELSE ""

----------------------------------------------------------------------------
(* _dbus_validate_signature_with_reason.                                   *)

Start == [struct |-> 0, array |-> 0, dict |-> 0, last |-> "", counts |-> <<0>>, why |-> "VALID"]

Bump(counts) == [counts EXCEPT ![Len(counts)] = @ + 1]

\* why a dict entry may not have n fields
EntryFields(n) == n # 2

\* The switch on the character at p: the depths, the counts and the first error.
Switch(s, c) ==
    CASE c = "a" -> [s EXCEPT !.array = @ + 1,
                              !.why = IF s.array + 1 > MaxDepth THEN "ARRAY_RECURSION" ELSE @]
      [] c = "(" -> [s EXCEPT !.struct = @ + 1, !.counts = Append(@, 0),
                              !.why = IF s.struct + 1 > MaxDepth THEN "STRUCT_RECURSION" ELSE @]
      [] c = ")" -> IF s.struct = 0 THEN [s EXCEPT !.why = "STRUCT_ENDED_BUT_NOT_STARTED"]
                    ELSE IF s.last = "(" THEN [s EXCEPT !.why = "STRUCT_HAS_NO_FIELDS"]
                    ELSE [s EXCEPT !.struct = @ - 1, !.counts = Front(@)]
      [] c = "{" -> IF s.last # "a" THEN [s EXCEPT !.why = "DICT_ENTRY_NOT_INSIDE_ARRAY"]
                    ELSE [s EXCEPT !.dict = @ + 1, !.counts = Append(@, 0),
                                   !.why = IF s.dict + 1 > MaxDepth THEN "DICT_ENTRY_RECURSION" ELSE @]
      [] c = "}" -> IF s.dict = 0 THEN [s EXCEPT !.why = "DICT_ENTRY_ENDED_BUT_NOT_STARTED"]
                    ELSE [s EXCEPT !.dict = @ - 1, !.counts = Front(@),
                                   !.why = IF EntryFields(Last(s.counts)) THEN "DICT_ENTRY_FIELDS" ELSE @]
      [] c \in {"i", "v"} -> s
      [] OTHER -> [s EXCEPT !.why = "UNKNOWN_TYPECODE"]

\* if (array_depth > 0): an array needs an element, anything else ends the arrays
ArrayDepth(s, i) ==
    IF s.array = 0 THEN s
    ELSE IF At(i) # "a" THEN [s EXCEPT !.array = 0]
    ELSE IF At(i + 1) \in {")", "}"} THEN [s EXCEPT !.why = "MISSING_ARRAY_ELEMENT_TYPE"]
    ELSE s

\* What follows the switch for the character at i.
AfterSwitch(s, i) ==
    LET c == At(i)
        counted == IF c \in {"a", "{", "("} \/ s.counts = <<>> THEN s
                   ELSE [s EXCEPT !.counts = Bump(@)]
        arrays == ArrayDepth(counted, i) IN
    IF arrays.why # "VALID" THEN arrays
    ELSE IF s.last = "{" /\ c # "i" THEN [arrays EXCEPT !.why = "DICT_KEY_MUST_BE_BASIC_TYPE"]
    ELSE [arrays EXCEPT !.last = c]

\* the state of the scan after i characters; an error stays
Scan[i \in 0 .. MaxLen] ==
    IF i = 0 THEN Start
    ELSE LET before == Scan[i - 1]
             switched == Switch(before, At(i)) IN
         IF before.why # "VALID" THEN before
         ELSE IF switched.why # "VALID" THEN switched
         ELSE AfterSwitch(switched, i)

ValidateSignature ==
    LET s == Scan[Len(sig)] IN
    IF Len(sig) > MaxSigLen THEN "SIGNATURE_TOO_LONG"
    ELSE IF s.why # "VALID" THEN s.why
    ELSE IF s.array > 0 THEN "MISSING_ARRAY_ELEMENT_TYPE"
    ELSE IF s.struct > 0 THEN "STRUCT_STARTED_BUT_NOT_ENDED"
    ELSE IF s.dict > 0 THEN "DICT_ENTRY_STARTED_BUT_NOT_ENDED"
    ELSE "VALID"

Valid == ValidateSignature = "VALID"

----------------------------------------------------------------------------
(* Skipping and iterating.  Position 0 stands for a failed assertion.      *)

\* the position behind the closing character that makes the depth zero
CloseOf(i, open, close) ==
    LET depth[j \in i .. MaxLen + 1] ==
            IF j = i THEN 1
            ELSE depth[j - 1] + (IF At(j) = open THEN 1 ELSE IF At(j) = close THEN -1 ELSE 0)
        ends == {j \in i + 1 .. Len(sig) : At(j) = close /\ depth[j] = 0} IN
    IF ends = {} THEN 0 ELSE (CHOOSE j \in ends : \A k \in ends : j <= k) + 1

\* _dbus_type_signature_next: arrays first, then one container or one character
SignatureNext(i) ==
    LET k == CHOOSE k \in i .. Len(sig) + 1 : At(k) # "a" /\ \A j \in i .. k - 1 : At(j) = "a" IN
    IF At(i) \in {")", "}"} \/ At(k) \in {")", "}"} THEN 0
    ELSE IF At(k) = "(" THEN CloseOf(k, "(", ")")
    ELSE IF At(k) = "{" THEN CloseOf(k, "{", "}")
    ELSE k + 1

\* dbus_signature_iter_next at position i: the next position, 0 at the end of the
\* level.  An array has one element type.
IterNext(i, inArray) ==
    LET j == SignatureNext(i) IN
    IF inArray \/ j = 0 \/ At(j) \in {")", "}", ""} THEN 0 ELSE j

\* dbus_signature_validate_single
ValidateSingle == Valid /\ At(1) # "" /\ IterNext(1, FALSE) = 0

\* dbus_signature_iter_recurse: the position and in_array of the sub-iterator
Recurse(i) == <<i + 1, At(i) = "a">>

\* The positions visited by a walk through a level and all levels under it.
Walk[p \in (1 .. MaxLen + 2) \X BOOLEAN] ==
    LET i == p[1]
        j == IterNext(i, p[2])
        below == IF At(i) \in {"a", "(", "{"} /\ i <= MaxLen THEN Walk[Recurse(i)] ELSE <<>> IN
    IF At(i) = "" THEN <<>>
    ELSE <<i>> \o below \o (IF j = 0 THEN <<>> ELSE Walk[<<j, p[2]>>])

----------------------------------------------------------------------------
(* The grammar of the specification.                                       *)

\* The position behind the complete type that begins at i, 0 if there is none.
\* Inside, fields and entry run over the fields of a container and count them.
Parse[i \in 1 .. MaxLen + 1] ==
    LET fields[j \in i + 1 .. MaxLen + 2, n \in 0 .. MaxLen + 1] ==
            IF j > Len(sig) THEN <<0, 0>>
            ELSE IF At(j) \in {")", "}"} THEN <<j, n>>
            ELSE IF Parse[j] = 0 THEN <<0, 0>> ELSE fields[Parse[j], n + 1] IN
    CASE At(i) \in {"i", "v"} -> i + 1
      [] At(i) = "a" /\ i < Len(sig) ->
            IF At(i + 1) # "{" THEN Parse[i + 1]
            ELSE LET entry[j \in i + 2 .. MaxLen + 2, n \in 0 .. MaxLen + 1] ==
                         IF j > Len(sig) THEN <<0, 0>>
                         ELSE IF At(j) \in {")", "}"} THEN <<j, n>>
                         ELSE IF Parse[j] = 0 THEN <<0, 0>> ELSE entry[Parse[j], n + 1]
                     e == entry[i + 2, 0] IN
                 IF e[1] # 0 /\ At(e[1]) = "}" /\ e[2] = 2 /\ At(i + 2) = "i" THEN e[1] + 1 ELSE 0
      [] At(i) = "(" ->
            LET e == fields[i + 1, 0] IN
            IF e[1] # 0 /\ At(e[1]) = ")" /\ e[2] > 0 THEN e[1] + 1 ELSE 0
      [] OTHER -> 0

\* the number of complete types that the text from i on is made of, -1 if it is not
Types[i \in 1 .. MaxLen + 2] ==
    IF i > Len(sig) THEN 0
    ELSE IF Parse[i] = 0 THEN -1
    ELSE LET n == Types[Parse[i]] IN IF n = -1 THEN -1 ELSE n + 1

\* how deep c is nested: openings of containers of one kind around a position
Depth(open, close) ==
    LET at[i \in 0 .. MaxLen] ==
        IF i = 0 THEN 0 ELSE at[i - 1] + (IF At(i) = open THEN 1 ELSE IF At(i) = close THEN -1 ELSE 0) IN
    {at[i] : i \in 0 .. Len(sig)}

Shallow == \A d \in Depth("(", ")") \cup Depth("{", "}") : d <= MaxDepth

\* the arrays around the character at i, that character with them
ArraysAround(i) == {k \in 1 .. i : At(k) = "a" /\ Parse[k] > i}
ArraysInARow(n) == \E i \in 1 .. Len(sig) - n + 1 : \A j \in i .. i + n - 1 : At(j) = "a"

\* A container ends with the bracket of the other kind.
Overlap ==
    LET open[i \in 0 .. MaxLen] ==
            IF i = 0 THEN <<>>
            ELSE IF At(i) \in {"(", "{"} THEN Append(open[i - 1], At(i))
            ELSE IF At(i) \in {")", "}"} /\ open[i - 1] # <<>> THEN Front(open[i - 1])
            ELSE open[i - 1]
    IN  \E i \in 1 .. Len(sig) :
            open[i - 1] # <<>> /\ <<Last(open[i - 1]), At(i)>> \in {<<"(", "}">>, <<"{", ")">>}

\* "The maximum depth of container type nesting is 32 array type codes and 32 open parentheses"
\* (doc/dbus-specification.xml:652)
WithinDepth == Shallow /\ \A i \in 1 .. Len(sig) : Cardinality(ArraysAround(i)) <= MaxDepth

Complete == Types[1] # -1 /\ Len(sig) <= MaxSigLen

----------------------------------------------------------------------------
(* Properties.                                                             *)

\* A signature is accepted if it is made of complete types within the limits of the specification
\* on its length and its nesting, and only then, but for two faults of the check: it counts arrays in
\* a row only, so that deeper ones pass with something between them (dbus-marshal-validate.c:247), and
\* it takes a container for closed by whichever bracket comes (line 154).
ScanAgrees ==
    /\ Complete /\ WithinDepth => Valid
    /\ Valid => Len(sig) <= MaxSigLen /\ ~ArraysInARow(MaxDepth + 1)
    /\ Valid /\ ~Overlap => Complete /\ Shallow

\* In an accepted signature every complete type is skipped as a whole.
SkipsWhole == Valid => \A i \in 1 .. Len(sig) : Parse[i] # 0 => SignatureNext(i) = Parse[i]

\* dbus_signature_validate_single accepts the signatures of one complete type.
SingleIsOne == ValidateSingle <=> (Valid /\ Types[1] = 1)

\* A walk with the iterators over an accepted signature visits every type in it
\* once, from left to right, at its own level (unless its containers overlap).
WalkVisitsAll ==
    Valid /\ ~Overlap => Walk[<<1, FALSE>>] = SelectSeq([i \in 1 .. Len(sig) |-> i], LAMBDA i : At(i) \notin {")", "}"})

-----------------------------------------------------------------------------
(***************************************************************************)
(* The checks on object paths and on interface, member, error and bus      *)
(* names (dbus/dbus-marshal-validate.c) and their public forms             *)
(* (dbus/dbus-syntax.c), against the rules of the specification.           *)
(*                                                                         *)
(* The text grows character by character.  "A" stands for letters and the  *)
(* underscore, "0" for digits, "x" for other ASCII characters and "u" for  *)
(* a byte that is not valid UTF-8.                                         *)
(***************************************************************************)

CONSTANTS
    NameChars,          \* subset of {"A", "0", "-", ".", "/", ":", "x", "u"}
    MaxText,        \* bound on the length of a text
    MaxNameLen      \* DBUS_MAXIMUM_NAME_LENGTH

VARIABLE name_text

NameInit == name_text = <<>>
NameNext == Len(name_text) < MaxText /\ \E c \in NameChars : name_text' = Append(name_text, c)
NameSpec == NameInit /\ [][NameNext]_name_text

----------------------------------------------------------------------------
(* The loops of the checks.  A loop that looks one character ahead skips   *)
(* two, so the positions it stops at are computed first.                   *)

Initial(c) == c = "A"
Name(c) == c \in {"A", "0"}
BusInitial(c) == c \in {"A", "-"}
BusName(c) == c \in {"A", "0", "-"}

\* (end - last_slash) < 2 && len > 1
LastSlash(slashes) ==
    ~(Len(name_text) > 1 /\ \E i \in slashes : (\A k \in slashes : k <= i) /\ Len(name_text) + 1 - i < 2)

\* _dbus_validate_path: the distance between two slashes is at least two
ValidatePath ==
    LET slashes == {i \in DOMAIN name_text : name_text[i] = "/"} IN
    /\ name_text # <<>> /\ name_text[1] = "/"
    /\ \A i \in slashes \ {1} : name_text[i - 1] # "/"
    /\ \A i \in DOMAIN name_text \ slashes : Name(name_text[i])
    /\ LastSlash(slashes)

\* Whether the loop from position i on, with the checks First after a dot and Other
\* elsewhere, comes to the end; a dot and the character behind it are one turn.
Dotted(i, First(_), Other(_)) ==
    LET run[j \in i .. Len(name_text) + 2] ==
        IF j > Len(name_text) THEN j = Len(name_text) + 1
        ELSE IF name_text[j] = "."
             THEN j < Len(name_text) /\ First(name_text[j + 1]) /\ run[j + 2]
             ELSE Other(name_text[j]) /\ run[j + 1] IN
    run[i]

HasDot(i) == \E j \in i .. Len(name_text) : name_text[j] = "."

Fits == name_text # <<>> /\ Len(name_text) <= MaxNameLen

\* _dbus_validate_interface, and _dbus_validate_error_name, which calls it
ValidateInterface ==
    Fits /\ Initial(name_text[1]) /\ Dotted(2, Initial, Name) /\ HasDot(2)

ValidateMember == Fits /\ Initial(name_text[1]) /\ \A i \in DOMAIN name_text : Name(name_text[i])

\* _dbus_validate_bus_name_full
ValidateBusNameFull(isNamespace) ==
    /\ Fits
    /\ \/ name_text[1] = ":" /\ Dotted(2, BusName, BusName)
       \/ /\ name_text[1] # ":" /\ BusInitial(name_text[1])
          /\ Dotted(2, BusInitial, BusName)
          /\ isNamespace \/ HasDot(2)

ValidateBusName == ValidateBusNameFull(FALSE)
ValidateBusNamespace == ValidateBusNameFull(TRUE)

Utf8 == \A i \in DOMAIN name_text : name_text[i] # "u"

\* dbus_validate_path and its siblings: the error message quotes the text only if
\* that is UTF-8
ErrorText(valid) == IF valid THEN "none" ELSE IF Utf8 THEN "quoted" ELSE "plain"

----------------------------------------------------------------------------
(* The rules of the specification.                                         *)

\* The parts of the text from position i on, as pairs of first and last position.
Parts(i, sep) ==
    LET seps == {j \in i .. Len(name_text) : name_text[j] = sep} \cup {i - 1, Len(name_text) + 1} IN
    {<<p + 1, q - 1>> : <<p, q>> \in {<<p, q>> \in seps \X seps : p < q /\ \A r \in seps : r <= p \/ r >= q}}

\* Every part is nonempty, of the allowed characters, and does not begin with one
\* of the characters in notFirst.
GoodParts(i, sep, allowed, notFirst) ==
    \A p \in Parts(i, sep) :
        /\ p[1] <= p[2] /\ name_text[p[1]] \notin notFirst
        /\ \A j \in p[1] .. p[2] : name_text[j] \in allowed

Limited == Len(name_text) \in 1 .. MaxNameLen

IsPath == name_text = <<"/">> \/ (Len(name_text) > 1 /\ name_text[1] = "/" /\ GoodParts(2, "/", {"A", "0"}, {}))
IsInterface == Limited /\ GoodParts(1, ".", {"A", "0"}, {"0"}) /\ Cardinality(Parts(1, ".")) > 1
IsMember == Limited /\ GoodParts(1, ".", {"A", "0"}, {"0"}) /\ Cardinality(Parts(1, ".")) = 1
IsWellKnown == Limited /\ GoodParts(1, ".", {"A", "0", "-"}, {"0"}) /\ Cardinality(Parts(1, ".")) > 1
IsUnique == Limited /\ name_text[1] = ":" /\ GoodParts(2, ".", {"A", "0", "-"}, {}) /\ Cardinality(Parts(2, ".")) > 1

----------------------------------------------------------------------------
(* Properties.                                                             *)

\* Of a unique name only the characters behind the colon are looked at: it need not have a dot, and
\* its first element may be empty (dbus-marshal-validate.c:1117).
AfterColon ==
    Len(name_text) = 1 \/ GoodParts(IF name_text[2] = "." THEN 3 ELSE 2, ".", {"A", "0", "-"}, {})

\* The checks accept what the specification allows, of names that begin with a colon more than that.
PathsAgree == ValidatePath <=> IsPath
NamesAgree ==
    /\ ValidateInterface <=> IsInterface
    /\ ValidateMember <=> IsMember
    /\ name_text # <<>> /\ name_text[1] # ":" => (ValidateBusName <=> IsWellKnown)
    /\ name_text # <<>> /\ name_text[1] = ":" => (ValidateBusName <=> Limited /\ AfterColon)
    /\ IsUnique => ValidateBusName

\* A text is a prefix for arg0namespace if and only if a part can be put behind it
\* that makes it a name on the bus: name, dot, letter.
PrefixesAgree ==
    name_text # <<>> /\ name_text[1] # ":" /\ Len(name_text) + 2 <= MaxNameLen =>
        (ValidateBusNamespace <=> (Limited /\ GoodParts(1, ".", {"A", "0", "-"}, {"0"})))

\* A text is quoted in an error only if it is valid UTF-8, "since a DBusError also
\* needs to be valid UTF-8"; no check accepts a text that is not.
ErrorsAreText ==
    \A valid \in {ValidatePath, ValidateInterface, ValidateMember, ValidateBusName} :
        /\ ErrorText(valid) = "quoted" => Utf8
        /\ valid => Utf8

-----------------------------------------------------------------------------
(***************************************************************************)
(* Server addresses (dbus/dbus-address.c): "method:key=value,key=value",   *)
(* several of them separated by semicolons, values with %xx for bytes that *)
(* need it.  dbus_parse_address works with positions in the text; its      *)
(* reference here cuts the text at its separators.                         *)
(***************************************************************************)

CONSTANTS
    AddrChars,      \* characters of texts: one-character strings
    MaxLength   \* bound: characters in a text

VARIABLES
    addr_text,    \* the address so far
    result,  \* of the last call of dbus_parse_address
    lost     \* blocks of memory that call allocated and nobody can free

addrVars == <<addr_text, result, lost>>

---------------------------------------------------------------------------
(* characters *)

Plain  == {"a", "b", "4", "1", "/"}
HexDigits == [d \in {"1", "4", "a", "b"} |->
                 CASE d = "1" -> 1 [] d = "4" -> 4 [] d = "a" -> 10 [] d = "b" -> 11]
IsHex(c) == c \in DOMAIN HexDigits
HexOf(c) == HexDigits[c]

Optional(c) == c \in Plain

\* _dbus_string_find_to for one character: its place, or end.
FindTo(t, start, end, c) == Min({i \in start .. end - 1 : t[i + 1] = c} \cup {end})

\* The steps through an escaped value: from position i of v to the next.
\* -1: a percent sign without two digits or a character that needs one.
StepAt(v, i) ==
    IF Optional(v[i + 1]) THEN i + 1
    ELSE IF v[i + 1] = "%" /\ i + 3 <= Len(v) /\ IsHex(v[i + 2]) /\ IsHex(v[i + 3]) THEN i + 3
    ELSE -1

\* append_unescaped_value; a decoded byte is told by its number.
Unescape(v) ==
    LET from[i \in 0 .. Len(v)] ==
            IF i = Len(v) THEN [ok |-> TRUE, bytes |-> <<>>]
            ELSE IF StepAt(v, i) \notin 1 .. Len(v) THEN [ok |-> FALSE, bytes |-> <<>>]
            ELSE LET rest == from[StepAt(v, i)]
                     here == IF v[i + 1] # "%" THEN v[i + 1]
                             ELSE ToString(HexOf(v[i + 2]) * 16 + HexOf(v[i + 3]))
                 IN  [ok |-> rest.ok, bytes |-> <<here>> \o rest.bytes]
    IN  from[0]

---------------------------------------------------------------------------
(* dbus_parse_address *)

BadAddress == [ok |-> FALSE, entries |-> <<>>]

\* The pairs between pos and end; the loop over commas.
Pairs(t, first, end) ==
    LET from[pos \in 0 .. Len(t) + 1] ==
            IF pos >= end THEN [ok |-> TRUE, pairs |-> <<>>]
            ELSE LET comma  == FindTo(t, pos, end, ",")
                     equals == FindTo(t, pos, comma, "=")
                     value  == Unescape(SubSeq(t, equals + 2, comma))
                     rest   == from[comma + 1]
                 IN  IF equals = comma \/ equals = pos \/ equals + 1 = comma \/ ~value.ok
                     THEN [ok |-> FALSE, pairs |-> <<>>]
                     ELSE [ok |-> rest.ok,
                           pairs |-> <<[key |-> SubSeq(t, pos + 1, equals), value |-> value.bytes]>>
                                       \o rest.pairs]
    IN  from[first]

\* The loop over semicolons.
Parsed(t) ==
    LET from[pos \in 0 .. Len(t) + 1] ==
            IF pos >= Len(t) THEN [ok |-> TRUE, entries |-> <<>>]
            ELSE LET end   == FindTo(t, pos, Len(t), ";")
                     colon == FindTo(t, pos, end, ":")
                     pairs == Pairs(t, colon + 1, end)
                     rest  == from[end + 1]
                 IN  IF colon = end \/ ~pairs.ok THEN BadAddress
                     ELSE [ok |-> rest.ok,
                           entries |-> <<[method |-> SubSeq(t, pos + 1, colon), pairs |-> pairs.pairs]>>
                                         \o rest.entries]
    IN  IF t = <<>> \/ ~from[0].ok THEN BadAddress ELSE from[0]

---------------------------------------------------------------------------
(* memory: the eight steps with which a pair becomes part of an entry *)

\* The blocks that exist when the step fails: the two structures, their
\* buffers; those in a list are freed with the entry.
Held(step) ==
    {b \in {"key", "value", "keyText", "valueText"} :
        CASE b = "key" -> step > 1 [] b = "value" -> step > 2
          [] b = "keyText" -> step > 3 [] b = "valueText" -> step > 4}

InEntry(step) == IF step > 7 THEN {"key", "keyText"} ELSE {}

\* What the branch for each failure frees itself.
Freed(step) ==
    CASE step = 1 -> {}
      [] step = 2 -> {"key"}
      [] step = 3 -> {"key", "value"}
      [] step = 4 -> {"key", "value", "keyText"}
      [] step \in 5 .. 7 -> {"key", "value", "keyText", "valueText"}
      [] step = 8 -> {"value", "valueText"}

---------------------------------------------------------------------------
AddrInit == addr_text = <<>> /\ result = BadAddress /\ lost = {}

Type(c) ==
    /\ Len(addr_text) < MaxLength
    /\ addr_text' = Append(addr_text, c)
    /\ result' = Parsed(addr_text') /\ lost' = {}

\* dbus_parse_address runs out of memory at some step of its last pair.
NoMemory(step) ==
    /\ result.ok /\ \E e \in Range(result.entries) : e.pairs # <<>>
    /\ result' = BadAddress
    /\ lost' = Held(step) \ (Freed(step) \cup InEntry(step))
    /\ UNCHANGED addr_text

AddrNext == (\E c \in AddrChars : Type(c)) \/ (\E step \in 1 .. 8 : NoMemory(step))

AddrSpec == AddrInit /\ [][AddrNext]_addrVars

---------------------------------------------------------------------------
(* properties *)

\* The pieces of s between the separators c.
Cut(s, c) ==
    LET ends == {i \in 1 .. Len(s) : s[i] = c} \cup {Len(s) + 1}
        order == [k \in 1 .. Cardinality(ends) |->
                     CHOOSE e \in ends : Cardinality({x \in ends : x < e}) = k - 1]
    IN  [i \in 1 .. Len(order) |->
            SubSeq(s, IF i = 1 THEN 1 ELSE order[i - 1] + 1, order[i] - 1)]

\* A last empty piece is the end of the text and no piece.
Pieces(s, c) ==
    IF Last(Cut(s, c)) = <<>> THEN Front(Cut(s, c)) ELSE Cut(s, c)

GoodValue(v) == v # <<>> /\ Unescape(v).ok
GoodPair(p) ==
    /\ "=" \in Range(p) /\ p[1] # "="
    /\ GoodValue(SubSeq(p, Len(Cut(p, "=")[1]) + 2, Len(p)))

GoodEntry(e) ==
    /\ ":" \in Range(e)
    /\ \A i \in DOMAIN Pieces(SubSeq(e, Len(Cut(e, ":")[1]) + 2, Len(e)), ",") :
         GoodPair(Pieces(SubSeq(e, Len(Cut(e, ":")[1]) + 2, Len(e)), ",")[i])

\* dbus_parse_address accepts exactly the lists of entries of the documented
\* form, and gives as many entries and pairs as the text has.
ParsesTheGrammar ==
    lost = {} /\ (result.ok \/ Parsed(addr_text) = result) =>
        LET es == Pieces(addr_text, ";")
        IN  /\ result.ok <=> addr_text # <<>> /\ \A i \in DOMAIN es : GoodEntry(es[i])
            /\ result.ok => /\ Len(result.entries) = Len(es)
                            /\ \A i \in DOMAIN es : result.entries[i].method = Cut(es[i], ":")[1]

\* No value of an accepted address holds a separator that was not escaped,
\* and a percent sign is never cut by the end of its value.
ValuesAreClean ==
    result.ok =>
        \A e \in Range(result.entries) : \A p \in Range(e.pairs) :
            /\ p.value # <<>> /\ p.key # <<>>
            /\ Range(p.value) \cap {",", ";", ":", "=", "%", " "} = {}
            /\ ~("," \in Range(p.key) \/ ";" \in Range(p.key) \/ "=" \in Range(p.key))

\* Whichever allocation fails, the error path frees every block.
NothingIsLost == lost = {}
=============================================================================
