---------------------------- MODULE Marshalling ----------------------------
(***************************************************************************)
(* The wire format: writing a body value by value                          *)
(* (dbus/dbus-marshal-recursive.c, dbus/dbus-marshal-basic.c), reading and *)
(* skipping it, the check of a body (dbus/dbus-marshal-validate.c) and the *)
(* change of its byte order (dbus/dbus-marshal-byteswap.c).                *)
(*                                                                         *)
(* A body is a sequence of octets and positions count from 0 as in the     *)
(* code.  A value is the sequence of its octets, the most significant      *)
(* first; a signature is a sequence of type codes.  "u" stands for the     *)
(* types of four octets, "t" for those of eight, "s" for strings and paths.*)
(***************************************************************************)
EXTENDS Integers, Sequences, SequencesExt

CONSTANTS
    Basics,         \* subset of {"y", "b", "u", "h", "t", "s", "g"}
    Containers,     \* subset of {"a", "v", "(", "{"}
    Orders,         \* subset of {"l", "B"}
    StringLens,     \* the lengths of strings
    MaxTypeLen,     \* bound on the type of an element or of a variant's value
    MaxValues,      \* bound on the values and containers written
    MaxDepth        \* twice DBUS_MAXIMUM_TYPE_RECURSION_DEPTH

VARIABLES
    order,          \* the byte order of the writer
    sig, body,      \* what has been written
    stack,          \* the open writers, the innermost last
    values          \* history: what the caller wrote
vars == <<order, sig, body, stack, values>>

----------------------------------------------------------------------------
(* Types.                                                                  *)

\* _dbus_type_get_alignment
Alignment(t) ==
    CASE t \in {"y", "v", "g"} -> 1
      [] t \in {"b", "u", "h", "s", "a"} -> 4
      [] OTHER -> 8

Fixed(t) == t \in {"y", "b", "u", "h", "t"}

RECURSIVE TypeLen(_)
\* find_len_of_complete_type
TypeLen(ts) ==
    CASE ts[1] = "a" -> 1 + TypeLen(Tail(ts))
      [] ts[1] \in {"(", "{"} ->
            CHOOSE n \in 1..Len(ts) :
                LET Open(k) == Len(SelectSeq(SubSeq(ts, 1, k), LAMBDA c : c \in {"(", "{"}))
                    Shut(k) == Len(SelectSeq(SubSeq(ts, 1, k), LAMBDA c : c \in {")", "}"})) IN
                Open(n) = Shut(n) /\ \A k \in 1..(n - 1) : Open(k) # Shut(k)
      [] OTHER -> 1

Drop(ts, n) == SubSeq(ts, n + 1, Len(ts))
First(ts) == SubSeq(ts, 1, TypeLen(ts))

RECURSIVE TypesUpTo(_)
\* the complete types of at most n codes that a caller asks for
TypesUpTo(n) ==
    IF n = 0 THEN {}
    ELSE LET inner == TypesUpTo(n - 1) IN
         {ts \in {<<t>> : t \in Basics \union (Containers \intersect {"v"})}
                 \union {<<"a">> \o ts : ts \in IF "a" \in Containers THEN inner ELSE {}}
                 \union {<<"(">> \o ts \o <<")">> : ts \in IF "(" \in Containers THEN inner ELSE {}}
                 \union {<<"(", t>> \o ts \o <<")">> :
                            t \in Basics, ts \in IF "(" \in Containers THEN inner ELSE {}}
                 \union {<<"a", "{", t>> \o ts \o <<"}">> :
                            t \in Basics, ts \in IF "{" \in Containers THEN inner ELSE {}} :
            Len(ts) <= n}
Types == TypesUpTo(MaxTypeLen)
ElementTypes == Types \union {Drop(ts, 1) : ts \in {x \in TypesUpTo(MaxTypeLen + 1) : x[1] = "a"}}

\* type codes as they stand in a body
Code(t) == CASE t = "y" -> 121 [] t = "b" -> 98 [] t = "u" -> 117 [] t = "h" -> 104 [] t = "t" -> 116
             [] t = "s" -> 115 [] t = "g" -> 103 [] t = "a" -> 97 [] t = "v" -> 118
             [] t = "(" -> 40 [] t = ")" -> 41 [] t = "{" -> 123 [] t = "}" -> 125
Codes == {"y", "b", "u", "h", "t", "s", "g", "a", "v", "(", ")", "{", "}"}
Coded(ts) == [i \in DOMAIN ts |-> Code(ts[i])]
Decoded(bs) == [i \in DOMAIN bs |-> CHOOSE t \in Codes : Code(t) = bs[i]]
IsCoded(bs) == \A i \in DOMAIN bs : \E t \in Codes : Code(t) = bs[i]

----------------------------------------------------------------------------
(* Octets.                                                                 *)

Align(p, a) == ((p + a - 1) \div a) * a
Zeros(n) == [i \in 1..n |-> 0]
Pad(p, a) == Zeros(Align(p, a) - p)

\* pack_2_octets .. pack_8_octets and the reverse
Pack(o, v) == IF o = "B" THEN v ELSE Reverse(v)
Uint32(n) == <<0, 0, n \div 256, n % 256>>

\* behind the end of a body there is the nul of DBusString
Octet(b, p) == IF p < Len(b) THEN b[p + 1] ELSE 0
Octets(b, p, n) == IF p + n <= Len(b) THEN SubSeq(b, p + 1, p + n) ELSE [i \in 1..n |-> Octet(b, p + i - 1)]
Unpack(b, o, p, n) == Pack(o, Octets(b, p, n))
\* _dbus_unpack_uint32; every number too large for the bodies of the model is 65536
ReadUint32(b, o, p) ==
    LET v == Unpack(b, o, p, 4) IN IF v[1] + v[2] > 0 THEN 65536 ELSE v[3] * 256 + v[4]

\* the values a caller writes
Value(t) ==
    CASE t = "y" -> {<<7>>}
      [] t = "b" -> {<<0, 0, 0, 0>>, <<0, 0, 0, 1>>}
      [] t \in {"u", "h"} -> {<<0, 0, 1, 2>>}
      [] t = "t" -> {<<0, 0, 0, 0, 0, 0, 1, 2>>}
      [] t = "s" -> {[i \in 1..n |-> 65] : n \in StringLens}
      [] t = "g" -> {<<121>>}

\* _dbus_marshal_write_basic at position p
Marshalled(o, t, v, p) ==
    CASE t = "s" -> Pad(p, 4) \o Pack(o, Uint32(Len(v))) \o v \o <<0>>
      [] t = "g" -> <<Len(v)>> \o v \o <<0>>
      [] OTHER -> Pad(p, Alignment(t)) \o Pack(o, v)

----------------------------------------------------------------------------
(* Writers.                                                                *)

Writer(kind, known, expect, lenPos, start) ==
    [kind |-> kind, known |-> known, expect |-> expect, lenPos |-> lenPos, start |-> start]
Top == IF stack = <<>> THEN Writer("", FALSE, <<>>, -1, 0) ELSE Last(stack)

\* the checks of write_or_verify_typecode and writer_recurse_init_and_check
Expects(w, ts) == w.known => Len(w.expect) >= Len(ts) /\ SubSeq(w.expect, 1, Len(ts)) = ts

\* the writer has moved past a type; inside an array the expected type stays
Past(w, n) == IF w.known /\ w.kind # "a" THEN [w EXCEPT !.expect = Drop(@, n)] ELSE w
Replace(w) == IF stack = <<>> THEN <<>> ELSE Append(Front(stack), w)
Typed(w, ts) == IF w.known THEN sig ELSE sig \o ts

More == Len(values) < MaxValues
Note(t, v) == values' = Append(values, [t |-> t, v |-> v])

\* _dbus_type_writer_write_basic
WriteBasic(t, v) ==
    /\ More /\ Expects(Top, <<t>>)
    /\ body' = body \o Marshalled(order, t, v, Len(body))
    /\ sig' = Typed(Top, <<t>>)
    /\ stack' = Replace(Past(Top, 1))
    /\ Note(t, v)
    /\ UNCHANGED order

\* the length, to be filled in later, and the padding before the first element
ArrayHead(c, p) ==
    LET len == Pad(p, 4) \o Uint32(0) IN len \o Pad(p + Len(len), Alignment(c[1]))

\* writer_recurse_array
OpenArray(c) ==
    LET w == Top
        head == ArrayHead(c, Len(body)) IN
    /\ More /\ Expects(w, <<"a">> \o c)
    /\ body' = body \o head
    /\ sig' = Typed(w, <<"a">> \o c)
    /\ stack' = Append(Replace(Past(w, 1 + Len(c))),
                       Writer("a", TRUE, c, Align(Len(body), 4), Len(body) + Len(head)))
    /\ Note("a", Coded(c))
    /\ UNCHANGED order

VariantHead(c, p) ==
    LET head == <<Len(c)>> \o Coded(c) \o <<0>> IN head \o Pad(p + Len(head), Alignment(c[1]))

\* writer_recurse_variant
OpenVariant(c) ==
    /\ More /\ Expects(Top, <<"v">>)
    /\ body' = body \o VariantHead(c, Len(body))
    /\ sig' = Typed(Top, <<"v">>)
    /\ stack' = Append(Replace(Past(Top, 1)), Writer("v", TRUE, c, -1, 0))
    /\ Note("v", Coded(c))
    /\ UNCHANGED order

\* writer_recurse_struct_or_dict_entry; a dict entry stands in an array only
OpenStruct(k) ==
    /\ More /\ Expects(Top, <<k>>)
    /\ k = "{" => Top.kind = "a"
    /\ body' = body \o Pad(Len(body), 8)
    /\ sig' = Typed(Top, <<k>>)
    /\ stack' = Append(stack, Writer("(", Top.known, Drop(Top.expect, 1), -1, 0))
    /\ Note(k, <<>>)
    /\ UNCHANGED order

\* writer_get_array_len
ArrayLen(w) == Len(body) - w.start

\* _dbus_type_writer_unrecurse.  A variant holds one value and a struct is not empty:
\* the callers see to that.
Close ==
    LET sub == Top
        rest == Front(stack)
        parent == IF rest = <<>> THEN Writer("", FALSE, <<>>, -1, 0) ELSE Last(rest) IN
    /\ stack # <<>>
    /\ CASE sub.kind = "a" ->
              /\ body' = [i \in DOMAIN body |->
                            IF i - 1 \in sub.lenPos..(sub.lenPos + 3)
                              THEN Pack(order, Uint32(ArrayLen(sub)))[i - sub.lenPos] ELSE body[i]]
              /\ stack' = rest /\ UNCHANGED sig
         [] sub.kind = "v" ->
              sub.expect = <<>> /\ stack' = rest /\ UNCHANGED <<body, sig>>
         [] sub.kind = "(" ->
              /\ IF sub.known THEN sub.expect[1] \in {")", "}"} ELSE Last(sig) # "("
              /\ sig' = Typed(sub, <<")">>)
              /\ stack' = IF rest = <<>> \/ parent.kind = "a" THEN rest
                          ELSE Append(Front(rest), [parent EXCEPT
                                 !.expect = IF parent.known THEN Drop(sub.expect, 1) ELSE @])
              /\ UNCHANGED body
    /\ Note("end", <<>>)
    /\ UNCHANGED order

\* _dbus_type_writer_append_array: the only array of a body is opened again at its start.
AppendArray ==
    LET c == Drop(sig, 1)
        start == Align(4, Alignment(c[1])) IN
    /\ More /\ stack = <<>> /\ sig # <<>> /\ sig[1] = "a" /\ TypeLen(sig) = Len(sig)
    /\ stack' = <<Writer("a", TRUE, c, 0, start)>>
    /\ start + ReadUint32(body, order, 0) = Len(body)
    /\ values' = Front(values)
    /\ UNCHANGED <<order, sig, body>>

Init == order \in Orders /\ sig = <<>> /\ body = <<>> /\ stack = <<>> /\ values = <<>>

Next ==
    \/ \E t \in Basics : \E v \in Value(t) : WriteBasic(t, v)
    \/ "a" \in Containers /\ \E c \in ElementTypes : OpenArray(c)
    \/ "v" \in Containers /\ \E c \in Types : OpenVariant(c)
    \/ \E k \in Containers \intersect {"(", "{"} : OpenStruct(k)
    \/ Close
    \/ AppendArray

Spec == Init /\ [][Next]_vars

----------------------------------------------------------------------------
(* Readers.                                                                *)

\* _dbus_marshal_read_basic
ReadBasic(b, o, t, p) ==
    LET q == Align(p, Alignment(t)) IN
    CASE t = "s" -> Octets(b, q + 4, ReadUint32(b, o, q))
      [] t = "g" -> Octets(b, p + 1, Octet(b, p))
      [] OTHER -> Unpack(b, o, q, Alignment(t))

\* _dbus_marshal_skip_basic
SkipBasic(b, o, t, p) ==
    LET q == Align(p, Alignment(t)) IN
    CASE t = "s" -> q + 4 + ReadUint32(b, o, q) + 1
      [] t = "g" -> p + Octet(b, p) + 2
      [] OTHER -> q + Alignment(t)

\* array_reader_recurse
ArrayStart(ts, p) == Align(Align(p, 4) + 4, Alignment(ts[2]))

\* variant_reader_recurse
VariantTypes(b, p) == Decoded(Octets(b, p + 1, Octet(b, p)))
VariantStart(b, p) == Align(p + Octet(b, p) + 2, Alignment(VariantTypes(b, p)[1]))

\* _dbus_marshal_skip_array
SkipArray(b, o, t, p) ==
    LET i == Align(p, 4) IN Align(i + 4, Alignment(t)) + ReadUint32(b, o, i)

RECURSIVE Skip(_, _, _, _), SkipFields(_, _, _, _)
\* base_reader_next and array_reader_next: the position behind the first value of ts
Skip(b, o, ts, p) ==
    CASE ts[1] = "a" -> SkipArray(b, o, ts[2], p)
      [] ts[1] = "v" -> Skip(b, o, VariantTypes(b, p), VariantStart(b, p))
      [] ts[1] \in {"(", "{"} -> SkipFields(b, o, Drop(ts, 1), Align(p, 8))
      [] OTHER -> SkipBasic(b, o, ts[1], p)
\* struct_reader_next: until the end of the signature or of the struct
SkipFields(b, o, ts, p) ==
    IF ts = <<>> \/ ts[1] \in {")", "}"} THEN p
    ELSE SkipFields(b, o, Drop(ts, TypeLen(ts)), Skip(b, o, ts, p))

Event(t, v) == <<[t |-> t, v |-> v]>>
End == Event("end", <<>>)

RECURSIVE Read(_, _, _, _), ReadFields(_, _, _, _), ReadElements(_, _, _, _, _)
\* what a caller sees that recurses into every container
Read(b, o, ts, p) ==
    CASE ts[1] = "a" -> Event("a", Coded(Drop(First(ts), 1)))
                        \o ReadElements(b, o, Drop(ts, 1), ArrayStart(ts, p),
                                        ArrayStart(ts, p) + ReadUint32(b, o, Align(p, 4))) \o End
      [] ts[1] = "v" -> Event("v", Octets(b, p + 1, Octet(b, p)))
                        \o Read(b, o, VariantTypes(b, p), VariantStart(b, p)) \o End
      [] ts[1] \in {"(", "{"} -> Event(ts[1], <<>>) \o ReadFields(b, o, Drop(ts, 1), Align(p, 8)) \o End
      [] OTHER -> Event(ts[1], ReadBasic(b, o, ts[1], p))
ReadFields(b, o, ts, p) ==
    IF ts = <<>> \/ ts[1] \in {")", "}"} THEN <<>>
    ELSE Read(b, o, ts, p) \o ReadFields(b, o, Drop(ts, TypeLen(ts)), Skip(b, o, ts, p))
ReadElements(b, o, ts, p, end) ==
    IF p >= end THEN <<>> ELSE Read(b, o, ts, p) \o ReadElements(b, o, ts, Skip(b, o, ts, p), end)

----------------------------------------------------------------------------
(* validate_body_helper.  The end is Len(b).                               *)

Nul(b, p, q) == \A i \in (p + 1)..q : b[i] = 0
Ok(p) == [why |-> "VALID", p |-> p]
No(why) == [why |-> why, p |-> 0]

\* a fixed value starts inside the body; whether it ends there is asked after the switch
FixedFits(b, q, t) == q < Len(b) /\ q + Alignment(t) <= Len(b)

Padding(b, p, q) == Nul(b, p, q)

ValidFixed(b, o, t, p) ==
    LET q == Align(p, Alignment(t)) IN
    IF q >= Len(b) THEN No("NOT_ENOUGH_DATA")
    ELSE IF ~Padding(b, p, q) THEN No("ALIGNMENT_PADDING_NOT_NUL")
    ELSE IF ~FixedFits(b, q, t) THEN No("NOT_ENOUGH_DATA")
    ELSE IF t = "b" /\ ReadUint32(b, o, q) \notin {0, 1} THEN No("BOOLEAN_NOT_ZERO_OR_ONE")
    ELSE Ok(q + Alignment(t))

\* the nul does not fit
EndsWithin(b, end) == end >= Len(b)

ValidString(b, o, p) ==
    LET q == Align(p, 4) IN
    IF q + 4 > Len(b) THEN No("NOT_ENOUGH_DATA")
    ELSE IF ~Padding(b, p, q) THEN No("ALIGNMENT_PADDING_NOT_NUL")
    ELSE LET end == q + 4 + ReadUint32(b, o, q) IN
         IF end > Len(b) THEN No("LENGTH_OUT_OF_BOUNDS")
         ELSE IF EndsWithin(b, end) THEN No("NOT_ENOUGH_DATA")
         ELSE IF Octet(b, end) # 0 THEN No("STRING_MISSING_NUL") ELSE Ok(end + 1)

\* the signature of a value or of a variant
ValidSignature(b, p) ==
    LET n == b[p + 1] IN
    IF n + 1 > Len(b) - (p + 1) THEN No("SIGNATURE_LENGTH_OUT_OF_BOUNDS")
    ELSE IF ~IsCoded(Octets(b, p + 1, n)) THEN No("UNKNOWN_TYPECODE")
    ELSE IF b[p + n + 2] # 0 THEN No("SIGNATURE_MISSING_NUL") ELSE Ok(p + n + 2)

RECURSIVE Valid(_, _, _, _, _), ValidFields(_, _, _, _, _), ValidElements(_, _, _, _, _, _)

ValidArray(b, o, ts, p, depth) ==
    LET q == Align(p, 4) IN
    IF q + 4 > Len(b) THEN No("NOT_ENOUGH_DATA")
    ELSE IF ~Padding(b, p, q) THEN No("ALIGNMENT_PADDING_NOT_NUL")
    ELSE LET start == Align(q + 4, Alignment(ts[2]))
             end == start + ReadUint32(b, o, q) IN
         IF start > Len(b) THEN No("NOT_ENOUGH_DATA")
         ELSE IF ~Padding(b, q + 4, start) THEN No("ALIGNMENT_PADDING_NOT_NUL")
         ELSE IF end > Len(b) THEN No("LENGTH_OUT_OF_BOUNDS")
         ELSE IF Fixed(ts[2]) /\ ts[2] # "b" THEN Ok(end)
         ELSE ValidElements(b, o, Drop(ts, 1), start, end, depth + 1)

\* Faulty variant: the value of a variant starts at the top again.
VariantDepthFresh(depth) == 0

\* total_depth for the value of a variant
VariantDepth(depth) == depth + 1

ValidVariant(b, o, p, depth) ==
    LET s == ValidSignature(b, p) IN
    IF s.why # "VALID" THEN s
    ELSE IF Octet(b, p) = 0 THEN No("VARIANT_SIGNATURE_EMPTY")
    ELSE LET ts == VariantTypes(b, p)
             q == VariantStart(b, p) IN
         IF q > Len(b) THEN No("NOT_ENOUGH_DATA")
         ELSE IF ~Padding(b, s.p, q) THEN No("ALIGNMENT_PADDING_NOT_NUL")
         ELSE IF Len(ts) # TypeLen(ts) THEN No("VARIANT_SIGNATURE_SPECIFIES_MULTIPLE_VALUES")
         ELSE Valid(b, o, ts, q, VariantDepth(depth))

\* one value; a level of its own for the value of a variant and for an element
Valid(b, o, ts, p, depth) ==
    IF depth > MaxDepth THEN No("NESTED_TOO_DEEPLY")
    ELSE IF p = Len(b) THEN No("NOT_ENOUGH_DATA")
    ELSE CASE ts[1] = "y" -> Ok(p + 1)
           [] ts[1] \in {"b", "u", "h", "t"} -> ValidFixed(b, o, ts[1], p)
           [] ts[1] = "s" -> ValidString(b, o, p)
           [] ts[1] = "g" -> ValidSignature(b, p)
           [] ts[1] = "a" -> ValidArray(b, o, ts, p, depth)
           [] ts[1] = "v" -> ValidVariant(b, o, p, depth)
           [] OTHER -> LET q == Align(p, 8) IN
                       IF q > Len(b) THEN No("NOT_ENOUGH_DATA")
                       ELSE IF ~Padding(b, p, q) THEN No("ALIGNMENT_PADDING_NOT_NUL")
                       ELSE ValidFields(b, o, Drop(ts, 1), q, depth + 1)
\* walk_reader_to_end
ValidFields(b, o, ts, p, depth) ==
    IF depth > MaxDepth THEN No("NESTED_TOO_DEEPLY")
    ELSE IF ts = <<>> \/ ts[1] \in {")", "}"} THEN Ok(p)
    ELSE LET v == Valid(b, o, ts, p, depth) IN
         IF v.why # "VALID" THEN v ELSE ValidFields(b, o, Drop(ts, TypeLen(ts)), v.p, depth)
ValidElements(b, o, ts, p, end, depth) ==
    IF p > end THEN No("ARRAY_LENGTH_INCORRECT")
    ELSE IF p = end THEN Ok(p)
    ELSE LET v == Valid(b, o, ts, p, depth) IN
         IF v.why # "VALID" THEN v ELSE ValidElements(b, o, ts, v.p, end, depth)

\* _dbus_validate_body_with_reason
ValidBody(b, o) ==
    LET v == ValidFields(b, o, sig, 0, 0) IN
    IF v.why # "VALID" THEN v.why ELSE IF v.p < Len(b) THEN "TOO_MUCH_DATA" ELSE "VALID"

----------------------------------------------------------------------------
(* byteswap_body_helper.                                                   *)

Swapped(b, p, n) ==
    IF p + n <= Len(b) THEN SubSeq(b, 1, p) \o Reverse(Octets(b, p, n)) \o Drop(b, p + n) ELSE b

\* the length is read before it is swapped
Length(b, o, p) == ReadUint32(b, o, p)

RECURSIVE Swap(_, _, _, _), SwapFields(_, _, _, _), SwapElements(_, _, _, _, _), SwapItems(_, _, _, _)
Swap(b, o, ts, p) ==
    LET t == ts[1]
        q == Align(p, Alignment(t)) IN
    CASE t = "y" -> [b |-> b, p |-> p + 1]
      [] t \in {"b", "u", "t"} -> [b |-> Swapped(b, q, Alignment(t)), p |-> q + Alignment(t)]
      [] t = "s" -> [b |-> Swapped(b, q, 4), p |-> q + 4 + Length(b, o, q) + 1]
      [] t = "g" -> [b |-> b, p |-> p + Octet(b, p) + 2]
      [] t = "a" -> LET start == Align(q + 4, Alignment(ts[2]))
                        n == Length(b, o, q) IN
                    IF Fixed(ts[2])
                      THEN [b |-> SwapItems(Swapped(b, q, 4), start, n \div Alignment(ts[2]), Alignment(ts[2])),
                            p |-> start + n]
                      ELSE SwapElements(Swapped(b, q, 4), o, Drop(ts, 1), start, start + n)
      [] t = "v" -> Swap(b, o, VariantTypes(b, p), VariantStart(b, p))
      [] t \in {"(", "{"} -> SwapFields(b, o, Drop(ts, 1), q)
      [] OTHER -> [b |-> b, p |-> p]        \* a descriptor: "makes no sense"
SwapFields(b, o, ts, p) ==
    IF ts = <<>> \/ ts[1] \in {")", "}"} THEN [b |-> b, p |-> p]
    ELSE LET s == Swap(b, o, ts, p) IN SwapFields(s.b, o, Drop(ts, TypeLen(ts)), s.p)
SwapElements(b, o, ts, p, end) ==
    IF p >= end THEN [b |-> b, p |-> p]
    ELSE LET s == Swap(b, o, ts, p) IN SwapElements(s.b, o, ts, s.p, end)

\* _dbus_swap_array
SwapItems(b, p, n, a) == IF n = 0 THEN b ELSE SwapItems(Swapped(b, p, a), p + a, n - 1, a)

Other(o) == IF o = "l" THEN "B" ELSE "l"
\* _dbus_marshal_byteswap
ByteSwap(b, o) == SwapFields(b, o, sig, 0).b

----------------------------------------------------------------------------
(* Properties.                                                             *)

Complete == stack = <<>> /\ sig # <<>>

\* A reader that recurses into every container gets back exactly what was written, in either byte order.
RoundTrip == Complete => ReadFields(body, order, sig, 0) = values

\* Skipping the values one after the other ends where the body ends, so that a skipped value and a value
\* that was read leave the reader at the same place.
SkipsToTheEnd == Complete => SkipFields(body, order, sig, 0) = Len(body)

\* The check of a body accepts what the writer wrote, and refuses it when octets are missing or left over.
ChecksTheWhole ==
    Complete => /\ ValidBody(body, order) = "VALID"
                /\ \A n \in 1..(Len(body) - 1) : ValidBody(SubSeq(body, 1, n), order) # "VALID"
                /\ ValidBody(Append(body, 0), order) = "TOO_MUCH_DATA"

\* Values have one encoding only: of two bodies that differ in one octet and that a reader cannot tell
\* apart, the check refuses one.
OneEncoding ==
    Complete => \A i \in DOMAIN body :
        LET other == [body EXCEPT ![i] = (@ + 1) % 256] IN
        ValidBody(other, order) = "VALID" => ReadFields(other, order, sig, 0) # values

\* After a change of the byte order the same values are read in the other order, and a second change
\* restores the body.
SwapKeepsValues ==
    Complete => LET swapped == ByteSwap(body, order) IN
                /\ ReadFields(swapped, Other(order), sig, 0) = values
                /\ ByteSwap(swapped, Other(order)) = body

\* In bodies of structs and variants, where every level is a level of the check: a body is refused as
\* nested too deeply exactly when a value stands inside more containers than twice the limit of a
\* signature, however the levels are shared out between structs and variants.
DepthLimited ==
    LET Opens(i) == Len(SelectSeq(SubSeq(values, 1, i - 1), LAMBDA e : e.t \in {"v", "("}))
        Shuts(i) == Len(SelectSeq(SubSeq(values, 1, i - 1), LAMBDA e : e.t = "end")) IN
    Complete => (ValidBody(body, order) = "NESTED_TOO_DEEPLY"
                   <=> \E i \in DOMAIN values : values[i].t # "end" /\ Opens(i) - Shuts(i) > MaxDepth)
=============================================================================
