-------------------- MODULE DBusString --------------------
(***************************************************************************)
(* DBusString (dbus/dbus-string.c): its memory, its editing calls and its  *)
(* questions.  The parts share no state; each has an Init and a Next.      *)
(***************************************************************************)
EXTENDS Integers, Sequences, SequencesExt, FiniteSetsExt

-----------------------------------------------------------------------------
(***************************************************************************)
(* The memory of one DBusString (dbus/dbus-string.c).  The string lives in *)
(* a block from malloc whose address is arbitrary modulo Align; its first  *)
(* byte is kept on a multiple of Align, so that it may begin some bytes    *)
(* after the start of the block, and every reallocation can move it to     *)
(* another place in the new block.  The padding of an allocation is what   *)
(* pays for that displacement and for the closing NUL.                     *)
(*                                                                         *)
(* Every call is an operator that gives the set of its outcomes, since an  *)
(* allocation may fail and may land on any address.                        *)
(***************************************************************************)

CONSTANTS
    Align,      \* 8 in the code
    Padding,    \* _DBUS_STRING_ALLOCATION_PADDING
    MaxLength,  \* _DBUS_STRING_MAX_LENGTH
    BufBytes,      \* the bytes callers write
    Alignments, \* the alignments callers ask for
    MaxWaste,   \* MAX_WASTE
    TestBuild   \* built with the embedded tests: blocks are never doubled

VARIABLES
    str,       \* the DBusRealString and its block
    mode,      \* "none" | "open" | "locked"
    wanted,    \* the bytes the calls so far should have produced
    promised,  \* a length that alloc_space has promised
    given,     \* the bytes steal_data has just handed out, and what they should be
    failed     \* the last call returned FALSE

bufVars == <<str, mode, wanted, promised, given, failed>>

\* A byte nobody has written, and the closing one.
Junk == "junk"
Nul  == "nul"

---------------------------------------------------------------------------
(* memory *)

Cell(b, i) == IF i \in DOMAIN b THEN b[i] ELSE Junk

\* memmove within a block.
Moved(b, to, from, n) ==
    [i \in DOMAIN b |-> IF i \in to .. to + n - 1 THEN Cell(b, i - to + from)
                                                   ELSE b[i]]

\* memcpy and memset of the bytes s.
Written(b, at, s) ==
    [i \in DOMAIN b |-> IF i \in at .. at + Len(s) - 1 THEN s[i - at + 1]
                                                        ELSE b[i]]

AlignUp(n, a) == ((n + a - 1) \div a) * a

Fixup(s) ==
    LET new == AlignUp(s.base, Align) - s.base
    IN  [s EXCEPT !.off = new,
                  !.blk = IF new = s.off THEN @ ELSE Moved(@, new, s.off, s.len + 1)]

UndoAlignment(s) ==
    [s EXCEPT !.off = 0,
              !.blk = IF s.off = 0 THEN @ ELSE Moved(@, 0, s.off, s.len + 1)]

Done(s)  == [ok |-> TRUE, str |-> s]
Fails(s) == [ok |-> FALSE, str |-> s]

\* dbus_realloc keeps what fits, at any address, or fails.
Realloc(s, n) ==
    {Fails(s)} \cup
    {Done(Fixup([s EXCEPT !.base = r,
                          !.alloc = n,
                          !.blk = [i \in 0 .. n - 1 |-> Cell(s.blk, i)]])) :
        r \in 0 .. Align - 1}

Preallocated(size) ==
    LET n == Padding + size
    IN  {Fixup([base |-> r, alloc |-> n, off |-> 0, len |-> 0,
                blk |-> [i \in 0 .. n - 1 |-> IF i = 0 THEN Nul ELSE Junk]]) :
            r \in 0 .. Align - 1}

Compacted(s, waste) ==
    IF s.alloc - (s.len + Padding) <= waste THEN {Done(s)}
    ELSE Realloc(s, s.len + Padding)

ReallocateForLength(s, n) ==
    LET doubled == IF TestBuild THEN 0
                   ELSE IF s.alloc > (MaxLength + Padding) \div 2
                        THEN MaxLength + Padding
                        ELSE s.alloc * 2
    IN  Realloc(s, Max({doubled, n + Padding}))

SetLength(s, n) ==
    LET ready == IF n > s.alloc - Padding THEN ReallocateForLength(s, n)
                 ELSE {Done(s)}
        ended(t) == [t EXCEPT !.len = n,
                              !.blk = Written(@, t.off + n, <<Nul>>)]
    IN  IF n > MaxLength THEN {Fails(s)}
        ELSE {IF o.ok THEN Done(ended(o.str)) ELSE o : o \in ready}

BufOpenGap(n, s, at) ==
    LET opened(t) ==
            [t EXCEPT !.blk = Moved(@, t.off + at + n, t.off + at, t.len - n - at)]
    IN  IF n = 0 THEN {Done(s)}
        ELSE IF n > MaxLength - s.len THEN {Fails(s)}
        ELSE {IF o.ok THEN Done(opened(o.str)) ELSE o : o \in SetLength(s, s.len + n)}

Lengthen(s, n) ==
    IF n > MaxLength - s.len THEN {Fails(s)} ELSE SetLength(s, s.len + n)

\* The outcomes of a call that writes the bytes b at position at when it
\* has found room for them.
Filled(outcomes, at, b) ==
    {IF o.ok THEN Done([o.str EXCEPT !.blk = Written(@, o.str.off + at, b)])
     ELSE o : o \in outcomes}

InsertBytes(s, at, b) == Filled(BufOpenGap(Len(b), s, at), at, b)

\* append, _dbus_string_append_len, _dbus_string_append_printf.
Appended(s, b) ==
    IF b = <<>> THEN {Done(s)} ELSE Filled(Lengthen(s, Len(b)), s.len, b)

AppendByte(s, b) == Filled(SetLength(s, s.len + 1), s.len, <<b>>)

Zeros(n) == [i \in 1 .. n |-> Nul]

\* align_insert_point_then_open_gap, and the octets written into the gap.
AlignInsertPoint(s, at, alignment, octets) ==
    LET pos  == AlignUp(at, alignment)
        new  == s.len + (pos - at) + Len(octets)
        gap  == Filled(BufOpenGap(new - s.len, s, at), at, Zeros(pos - at))
    IN  IF new > MaxLength THEN {Fails(s)}
        ELSE IF new = s.len THEN {Done(s)}
        ELSE Filled(gap, pos, octets)

---------------------------------------------------------------------------
(* the calls of the string's owner *)

\* Nobody reads the cells behind the closing NUL or before the string.
Forget(s) ==
    [s EXCEPT !.blk = [i \in DOMAIN @ |->
                          IF i \in s.off .. s.off + s.len THEN @[i] ELSE Junk]]

Nothing == [bytes |-> <<>>, owed |-> <<>>]

NoString == [base |-> 0, alloc |-> 0, off |-> 0, len |-> 0, blk |-> <<>>]

BufInit ==
    /\ str = NoString /\ mode = "none" /\ wanted = <<>> /\ promised = 0
    /\ given = Nothing /\ failed = FALSE

InitString(size) ==
    /\ mode = "none"
    /\ \E s \in Preallocated(size) : str' = Forget(s)
    /\ mode' = "open" /\ wanted' = <<>> /\ promised' = size /\ failed' = FALSE
    /\ UNCHANGED given

\* A call with the given outcomes, which should turn the string into result.
Call(outcomes, result) ==
    /\ mode = "open"
    /\ \E o \in outcomes :
         /\ str' = Forget(o.str)
         /\ failed' = ~o.ok
         /\ wanted' = IF o.ok THEN result ELSE wanted
    /\ given' = Nothing
    /\ UNCHANGED mode

Insert(at, b) ==
    /\ Call(InsertBytes(str, at, b), SubSeq(wanted, 1, at) \o b \o SubSeq(wanted, at + 1, Len(wanted)))
    /\ UNCHANGED promised

Append1(b) ==
    /\ Call(AppendByte(str, b), wanted \o <<b>>)
    /\ UNCHANGED promised

AppendAll(b) ==
    /\ Call(Appended(str, b), wanted \o b)
    /\ UNCHANGED promised

InsertAligned(at, alignment, octets) ==
    /\ Call(AlignInsertPoint(str, at, alignment, octets),
            SubSeq(wanted, 1, at) \o Zeros(AlignUp(at, alignment) - at) \o octets
                \o SubSeq(wanted, at + 1, Len(wanted)))
    /\ UNCHANGED promised

AlignLength(alignment) == InsertAligned(str.len, alignment, <<>>)

\* The bytes set_length adds are whatever was there.
ChangeLength(n) ==
    /\ Call(SetLength(str, n), [i \in 1 .. n |-> IF i <= Len(wanted) THEN wanted[i] ELSE Junk])
    /\ UNCHANGED promised

AllocSpace(n) ==
    LET shortened(o) == IF o.ok THEN SetLength(o.str, str.len) ELSE {o}
    IN  /\ Call(UNION {shortened(o) : o \in Lengthen(str, n)}, wanted)
        /\ promised' = IF failed' THEN promised ELSE Max({promised, str.len + n})

Compact(waste) ==
    /\ Call(Compacted(str, waste), wanted)
    /\ promised' = 0

\* The failure of compact is ignored.
Lock ==
    /\ mode = "open"
    /\ \E o \in Compacted(str, MaxWaste) : str' = Forget(o.str)
    /\ mode' = "locked" /\ failed' = FALSE /\ promised' = 0
    /\ UNCHANGED <<wanted, given>>

\* steal_data: the new block is tried first and the old one is put back
\* when there is none.
StealData ==
    /\ mode = "open"
    /\ LET whole == UndoAlignment(str)
       IN  \/ \E s \in Preallocated(0) :
                /\ str' = Forget(s)
                /\ given' = [bytes |-> [i \in 1 .. whole.len + 1 |-> Cell(whole.blk, i - 1)],
                             owed |-> wanted \o <<Nul>>]
                /\ wanted' = <<>> /\ promised' = 0 /\ failed' = FALSE
           \/ /\ str' = Forget(Fixup(whole))
              /\ failed' = TRUE
              /\ UNCHANGED <<given, wanted, promised>>
    /\ UNCHANGED mode

Free ==
    /\ mode \in {"open", "locked"}
    /\ str' = NoString /\ mode' = "none" /\ wanted' = <<>> /\ promised' = 0
    /\ given' = Nothing /\ failed' = FALSE

BufNext ==
    \/ \E n \in 0 .. 2 : InitString(n)
    \/ \E at \in 0 .. str.len, b \in BufBytes, n \in 0 .. 2 : Insert(at, [i \in 1 .. n |-> b])
    \/ \E b \in BufBytes : Append1(b)
    \/ \E b, c \in BufBytes : b # c /\ AppendAll(<<b, c>>)
    \/ \E at \in 0 .. str.len, a \in Alignments, b \in BufBytes :
         \/ InsertAligned(at, a, [i \in 1 .. a |-> b])
         \/ InsertAligned(at, a, <<>>)
    \/ \E a \in Alignments : AlignLength(a)
    \/ \E n \in 0 .. MaxLength + 1 : ChangeLength(n)
    \/ \E n \in 1 .. 3 : AllocSpace(n)
    \/ \E w \in 0 .. 1 : Compact(w)
    \/ TestBuild /\ Lock
    \/ StealData
    \/ Free

BufSpec == BufInit /\ [][BufNext]_bufVars

---------------------------------------------------------------------------
(* properties *)

BufTypeOK ==
    /\ mode \in {"none", "open", "locked"}
    /\ str.off \in 0 .. Align - 1 /\ str.len \in 0 .. MaxLength
    /\ DOMAIN str.blk = 0 .. str.alloc - 1
    /\ failed \in BOOLEAN

\* The bytes s are what the calls asked for; a byte nobody wrote may be
\* anything.
Agrees(s, asked) ==
    /\ Len(s) = Len(asked)
    /\ \A i \in 1 .. Len(s) : asked[i] # Junk => s[i] = asked[i]

\* Whatever blocks the allocator returns and however often it fails, the
\* string holds exactly the bytes its successful calls wrote, in order, and
\* the byte after them is NUL (reallocate_for_length, fixup_alignment).
HoldsWhatWasWritten ==
    mode # "none" =>
        Agrees([i \in 1 .. str.len + 1 |-> Cell(str.blk, str.off + i - 1)], wanted \o <<Nul>>)

\* The string, its closing NUL and its displacement lie inside the block,
\* on an aligned address, and the size of a block fits in an int.
StaysInsideItsBlock ==
    mode # "none" =>
        /\ str.off + str.len + 1 <= str.alloc
        /\ (str.base + str.off) % Align = 0
        /\ str.alloc <= MaxLength + Padding

\* alloc_space: "a future lengthening of the string by extra_bytes is
\* guaranteed to succeed without an out of memory error", until the string
\* is compacted or gives its block away.
SpaceIsKept ==
    mode = "open" =>
        \A n \in 0 .. promised : \A o \in SetLength(str, n) : o.ok

\* steal_data hands out the whole string from the start of its block, where
\* free can take it.
StolenWhole == Agrees(given.bytes, given.owed)

-----------------------------------------------------------------------------
(***************************************************************************)
(* What the calls of dbus/dbus-string.c do with the bytes of a source and  *)
(* of a destination string: moving, replacing and splitting, taking lines  *)
(* off the front, hexadecimal text.  The operators follow the code's index *)
(* arithmetic and its order of steps; the properties compare them with     *)
(* what the calls say they do.  Positions count from 0, as in the code.    *)
(***************************************************************************)

CONSTANTS
    EditBytes,      \* the bytes of strings
    MaxSource,  \* bound: bytes in the first source
    MaxDest     \* bound: bytes in the destination

VARIABLES
    source, dest,  \* the two strings
    lines,         \* what pop_line has taken off the first source, with the ends of lines
    text,          \* the first source
    call           \* the last call: its name, arguments, strings before it and result

editVars == <<source, dest, lines, text, call>>

LF == 10
CR == 13
Whitespace == {9, 10, 13, 32}

---------------------------------------------------------------------------
(* algorithms *)

\* open_gap: the bytes in the gap are left from before.
EditOpenGap(d, n, at) ==
    [i \in 1 .. Len(d) + n |-> IF i <= at + n /\ i <= Len(d) THEN d[i]
                               ELSE IF i > at + n THEN d[i - n] ELSE 0]

\* memmove of n bytes of s from start to position at of d.
Overlay(d, at, s, start, n) ==
    [i \in 1 .. Len(d) |-> IF i \in at + 1 .. at + n THEN s[i - at + start] ELSE d[i]]

Delete(d, start, n) ==
    IF n = 0 THEN d
    ELSE [i \in 1 .. Len(d) - n |-> IF i <= start THEN d[i] ELSE d[i + n]]

Copy(s, start, n, d, at) ==
    IF n = 0 THEN d ELSE Overlay(EditOpenGap(d, n, at), at, s, start, n)

\* _dbus_string_move_len swaps the two when all of the source goes to an
\* empty destination.
MoveLen(s, start, n, d, at) ==
    IF n = 0 THEN <<s, d>>
    ELSE IF start = 0 /\ n = Len(s) /\ d = <<>> THEN <<d, s>>
    ELSE <<Delete(s, start, n), Copy(s, start, n, d, at)>>

ReplaceLen(s, start, n, d, at, len) ==
    IF n <= len
    THEN Delete(Overlay(d, at, s, start, n), at + n, len - n)
    ELSE Overlay(Copy(s, start + len, n - len, d, at + len), at, s, start, len)

\* _dbus_string_find_to: the first i where the inner loop has come to the
\* end of sub; the answer is end otherwise.
FindTo(s, start, end, sub) ==
    LET stops(i, j) == j = end \/ j - i >= Len(sub) \/ s[j + 1] # sub[j - i + 1]
        stop(i)     == Min({j \in i + 1 .. end : stops(i, j) \/ j = end})
        hits(i)     == s[i + 1] = sub[1] /\ stop(i) - i >= Len(sub)
        at          == {i \in start .. end - 1 : hits(i)}
    IN  IF sub = <<>> THEN [found |-> TRUE, at |-> start]
        ELSE IF at = {} THEN [found |-> FALSE, at |-> end]
        ELSE [found |-> TRUE, at |-> Min(at)]

Find(s, start, sub) == FindTo(s, start, Len(s), sub)

\* _dbus_string_find_eol.
FindEol(s, start) ==
    LET ends == {i \in start .. Len(s) - 1 : s[i + 1] \in {CR, LF}}
        i    == Min(ends)
        two  == s[i + 1] = CR /\ i + 1 < Len(s) /\ s[i + 2] = LF
    IN  IF ends = {} THEN [found |-> FALSE, at |-> Len(s), len |-> 0]
        ELSE [found |-> TRUE, at |-> i, len |-> IF two THEN 2 ELSE 1]

SkipWhite(s, start) ==
    Min({i \in start .. Len(s) : i = Len(s) \/ s[i + 1] \notin Whitespace} \cup {Len(s)})

SkipWhiteReverse(s, end) ==
    Max({i \in 0 .. end : i > 0 /\ s[i] \notin Whitespace} \cup {0})

ChopWhite(s) ==
    LET front == Delete(s, 0, SkipWhite(s, 0))
    IN  SubSeq(front, 1, SkipWhiteReverse(front, Len(front)))

\* _dbus_string_hex_encode: two digits of a byte, the high one first.
HexDigit(v) == IF v < 10 THEN 48 + v ELSE 97 + v - 10

HexEncode(s) ==
    [i \in 1 .. 2 * Len(s) |->
        LET b == s[(i + 1) \div 2] IN HexDigit(IF i % 2 = 1 THEN b \div 16 ELSE b % 16)]

HexValue(c) ==
    CASE c \in 48 .. 57  -> c - 48
      [] c \in 97 .. 102 -> c - 97 + 10
      [] c \in 65 .. 70  -> c - 65 + 10
      [] OTHER           -> 16

\* _dbus_string_hex_decode: the digits up to the first byte that is none; a
\* last single digit is the high half of a byte.
HexDecode(s, start) ==
    LET end   == Min({i \in start .. Len(s) : i = Len(s) \/ HexValue(s[i + 1]) = 16})
        count == end - start
        value(k) == IF k > count THEN 0 ELSE HexValue(s[start + k])
    IN  [bytes |-> [i \in 1 .. (count + 1) \div 2 |-> value(2 * i - 1) * 16 + value(2 * i)],
         end |-> end]

---------------------------------------------------------------------------
(* calls *)

Strings(n) == UNION {[1 .. k -> EditBytes] : k \in 0 .. n}

None == [op |-> "none", args |-> <<>>, s |-> <<>>, d |-> <<>>, ok |-> TRUE]

EditInit ==
    /\ source \in Strings(MaxSource) /\ dest \in Strings(MaxDest)
    /\ lines = <<>> /\ text = source /\ call = None

\* The strings after a call are pair when there was memory, else as before.
Calls(op, args, pair) ==
    /\ call = None
    /\ \E ok \in BOOLEAN :
         /\ source' = IF ok THEN pair[1] ELSE source
         /\ dest' = IF ok THEN pair[2] ELSE dest
         /\ call' = [op |-> op, args |-> args, s |-> source, d |-> dest, ok |-> ok]
    /\ UNCHANGED <<lines, text>>

DoMove(start, n, at)  == Calls("move", <<start, n, at>>, MoveLen(source, start, n, dest, at))

DoCopy(start, n, at) ==
    Calls("copy", <<start, n, at>>, <<source, Copy(source, start, n, dest, at)>>)

DoReplace(start, n, at, len) ==
    Calls("replace", <<start, n, at, len>>, <<source, ReplaceLen(source, start, n, dest, at, len)>>)

\* _dbus_string_split_on_byte: shortening the source cannot fail.
DoSplit(byte) ==
    LET hit   == Find(source, 0, <<byte>>)
        moved == MoveLen(source, hit.at + 1, Len(source) - hit.at - 1, dest, 0)
    IN  IF hit.found THEN Calls("split", <<byte>>, <<SubSeq(moved[1], 1, hit.at), moved[2]>>)
        ELSE /\ call = None
             /\ call' = [op |-> "absent", args |-> <<byte>>, s |-> source, d |-> dest, ok |-> FALSE]
             /\ UNCHANGED <<source, dest, lines, text>>

DoChop == Calls("chop", <<>>, <<ChopWhite(source), dest>>)

DoHex(start, at) ==
    \/ Calls("encode", <<start, at>>,
             <<source, Copy(HexEncode(SubSeq(source, start + 1, Len(source))), 0,
                            2 * (Len(source) - start), dest, at)>>)
    \/ LET r == HexDecode(source, start)
       IN  Calls("decode", <<start, at, r.end>>, <<source, Copy(r.bytes, 0, Len(r.bytes), dest, at)>>)

\* _dbus_string_pop_line: the destination is emptied first, whatever
\* happens next; the end of the line goes with the line and is cut off.
PopLine ==
    LET eol   == FindEol(source, 0)
        moved == MoveLen(source, 0, eol.at + eol.len, <<>>, 0)
    IN  /\ call.op \in {"none", "line"}
        /\ IF ~eol.found /\ eol.at = 0
           THEN /\ dest' = <<>>
                /\ call' = [op |-> "line", args |-> <<>>, s |-> source, d |-> dest, ok |-> FALSE]
                /\ UNCHANGED <<source, lines>>
           ELSE \E ok \in BOOLEAN :
                  /\ source' = IF ok THEN moved[1] ELSE source
                  /\ dest' = IF ok THEN SubSeq(moved[2], 1, eol.at) ELSE <<>>
                  /\ lines' = IF ok THEN lines \o moved[2] ELSE lines
                  /\ call' = [op |-> "line", args |-> SubSeq(moved[2], eol.at + 1, Len(moved[2])),
                              s |-> source, d |-> <<>>, ok |-> ok]
        /\ UNCHANGED text

EditNext ==
    \/ \E start \in 0 .. Len(source), at \in 0 .. Len(dest) :
         \/ DoHex(start, at)
         \/ \E n \in 0 .. Len(source) - start :
              \/ DoMove(start, n, at)
              \/ DoCopy(start, n, at)
              \/ \E len \in 0 .. Len(dest) - at : DoReplace(start, n, at, len)
    \/ \E b \in EditBytes : DoSplit(b)
    \/ DoChop
    \/ PopLine

EditSpec == EditInit /\ [][EditNext]_editVars

---------------------------------------------------------------------------
(* properties *)

Took(s, start, n) == SubSeq(s, start + 1, start + n)
Put(d, at, len, b) == SubSeq(d, 1, at) \o b \o SubSeq(d, at + len + 1, Len(d))

\* What a call says it makes of the source and the destination.
Asked ==
    LET s == call.s
        d == call.d
        a == call.args
    IN  CASE call.op = "copy"    -> <<s, Put(d, a[3], 0, Took(s, a[1], a[2]))>>
          [] call.op = "move"    -> <<Put(s, a[1], a[2], <<>>), Put(d, a[3], 0, Took(s, a[1], a[2]))>>
          [] call.op = "replace" -> <<s, Put(d, a[3], a[4], Took(s, a[1], a[2]))>>
          [] OTHER               -> <<source, dest>>

\* Moving, copying and replacing a segment puts exactly the bytes of that
\* segment in exactly its place, including when the two strings are simply
\* swapped, and a call that finds no memory changes neither string.
EditsAreExact ==
    call.op \in {"copy", "move", "replace"} =>
        <<source, dest>> = IF call.ok THEN Asked ELSE <<call.s, call.d>>

\* _dbus_string_split_on_byte cuts at the first such byte and drops only it.
SplitsOnce ==
    call.op = "split" /\ call.ok =>
        \E k \in 1 .. Len(call.s) :
            /\ call.s[k] = call.args[1] /\ ~Contains(source, call.args[1])
            /\ source = SubSeq(call.s, 1, k - 1)
            /\ dest = SubSeq(call.s, k + 1, Len(call.s)) \o call.d

\* Lines popped one after the other, some of them with no memory in between,
\* are together the text they were taken from; nothing but the end of a line
\* is cut off, and no line holds one.
NoLineIsLost ==
    call.op = "line" =>
        /\ lines \o source = text
        /\ \A i \in 1 .. Len(dest) : dest[i] \notin {CR, LF}
        /\ \A i \in 1 .. Len(call.args) : call.args[i] \in {CR, LF}

\* One end of line is never taken for two: popping only leaves a source that
\* begins with LF when the text had two ends of lines there.
EndsOfLinesAreWhole ==
    call.op = "line" /\ lines # <<>> /\ source # <<>> =>
        ~(Last(lines) = CR /\ Head(source) = LF)

\* Text that was encoded is decoded to the same bytes, and decoding stops at
\* the first byte that is no digit.
HexIsInverted ==
    /\ call.op = "encode" /\ call.ok =>
         LET n == Len(call.s) - call.args[1]
             h == SubSeq(dest, call.args[2] + 1, call.args[2] + 2 * n)
         IN  /\ HexDecode(h, 0).bytes = SubSeq(call.s, call.args[1] + 1, Len(call.s))
             /\ HexDecode(h, 0).end = 2 * n
    /\ call.op = "decode" /\ call.ok =>
         LET used == call.args[3]
         IN  /\ \A i \in call.args[1] + 1 .. used : HexValue(call.s[i]) < 16
             /\ used < Len(call.s) => HexValue(call.s[used + 1]) = 16
             /\ 2 * (Len(dest) - Len(call.d)) \in {used - call.args[1], used - call.args[1] + 1}

\* chop_white leaves the text between the first and the last byte that is
\* not white.
ChopsBothEnds ==
    call.op = "chop" /\ call.ok =>
        /\ source # <<>> => Head(source) \notin Whitespace /\ Last(source) \notin Whitespace
        /\ \E i \in 0 .. Len(call.s) : source = Took(call.s, i, Len(source))
        /\ Len(SelectSeq(source, LAMBDA b : b \notin Whitespace)) =
           Len(SelectSeq(call.s, LAMBDA b : b \notin Whitespace))

-----------------------------------------------------------------------------
(***************************************************************************)
(* The questions one asks about strings (dbus/dbus-string.c): whether a    *)
(* range of bytes is ASCII, UTF-8 or NUL, and whether two strings, or a    *)
(* string and a C string, are equal.  Strings may hold NUL bytes, C        *)
(* strings end at one.  The bytes of a string arrive one by one, so that   *)
(* every prefix of a string is asked about too.                            *)
(***************************************************************************)

CONSTANTS
    CheckBytes,    \* the bytes of strings
    MaxA,     \* bound: bytes of the first string
    MaxB      \* bound: bytes of the second string

VARIABLES check_a, check_b

checkVars == <<check_a, check_b>>

---------------------------------------------------------------------------
(* validation *)

\* UTF8_COMPUTE: the length that the first byte announces, 0 for none.
Utf8Compute(c) ==
    CASE c < 128               -> 1
      [] c \div 32 = 6         -> 2
      [] c \div 16 = 14        -> 3
      [] c \div 8 = 30         -> 4
      [] c \div 4 = 62         -> 5
      [] c \div 2 = 126        -> 6
      [] OTHER                 -> 0

Mask == <<128, 32, 16, 8, 4, 2>>

\* UTF8_GET: the character, or -1 when a continuation byte is none.
Utf8Get(p, len) ==
    IF \E i \in 2 .. len : p[i] \div 64 # 2 THEN -1
    ELSE FoldLeftDomain(LAMBDA r, i : IF i = 1 THEN p[1] % Mask[len]
                                      ELSE r * 64 + (p[i] % 64),
                        0, SubSeq(p, 1, len))

\* UTF8_LENGTH: as an unsigned number -1 is the largest of all.
Utf8Length(c) ==
    IF c = -1 THEN 6
    ELSE IF c < 128 THEN 1 ELSE IF c < 2048 THEN 2 ELSE IF c < 65536 THEN 3
    ELSE IF c < 2097152 THEN 4 ELSE IF c < 67108864 THEN 5 ELSE 6

UnicodeValid(c) == c # -1 /\ c < 1114112 /\ c \div 2048 # 27

\* One turn of the loop of _dbus_string_validate_utf8: how far p moves, 0
\* when the loop is left.
Advance(p) ==
    LET n == Utf8Compute(p[1])
        c == Utf8Get(p, n)
    IN  IF p[1] = 0 THEN 0
        ELSE IF p[1] < 128 THEN 1
        ELSE IF n = 0 \/ Len(p) < n THEN 0
        ELSE IF Utf8Length(c) # n \/ ~UnicodeValid(c) THEN 0
        ELSE n

ValidateUtf8(s, start, len) ==
    LET r == SubSeq(s, start + 1, start + len)
        at[i \in 0 .. len] ==
            IF i = len \/ Advance(SubSeq(r, i + 1, len)) = 0 THEN i
            ELSE at[i + Advance(SubSeq(r, i + 1, len))]
    IN  len <= Len(s) - start /\ at[0] = len

ValidateAscii(s, start, len) ==
    len <= Len(s) - start /\ \A i \in start + 1 .. start + len : s[i] < 128

ValidateNul(s, start, len) ==
    len <= Len(s) - start /\ \A i \in start + 1 .. start + len : s[i] = 0

---------------------------------------------------------------------------
(* comparison *)

\* The loops that stop at the first difference within n bytes.
SameFor(x, y, n) == \A i \in 1 .. n : i <= Len(y) /\ x[i] = y[i]

EqualLen(x, y, len) ==
    /\ Len(x) # Len(y) => Len(x) >= len /\ Len(y) >= len
    /\ SameFor(x, y, Min({Len(x), len}))

EqualSubstring(x, xStart, xLen, y, yStart) ==
    /\ xLen <= Len(y) - yStart
    /\ SameFor(SubSeq(x, xStart + 1, xStart + xLen), SubSeq(y, yStart + 1, Len(y)), xLen)

\* The bytes of a C string: those before its first NUL.
CString(y) ==
    LET ends == {i \in 1 .. Len(y) : y[i] = 0}
    IN  IF ends = {} THEN y ELSE SubSeq(y, 1, Min(ends) - 1)

\* The loop of equal_c_str and starts_with_c_str: the position where the
\* string or the C string ends, or the two differ.
Stop(x, c) ==
    Min({i \in 0 .. Len(x) : i = Len(x) \/ i >= Len(c) \/ x[i + 1] # c[i + 1]})

EqualCStr(x, y) ==
    LET c == CString(y)
    IN  Stop(x, c) = Len(x) /\ Stop(x, c) >= Len(c)

StartsWithCStr(x, y) == Stop(x, CString(y)) >= Len(CString(y))

---------------------------------------------------------------------------
CheckInit == check_a = <<>> /\ check_b = <<>>

AddA(byte) == Len(check_a) < MaxA /\ check_a' = Append(check_a, byte) /\ UNCHANGED check_b
AddB(byte) == Len(check_b) < MaxB /\ check_b' = Append(check_b, byte) /\ UNCHANGED check_a

CheckNext == \E byte \in CheckBytes : AddA(byte) \/ AddB(byte)

CheckSpec == CheckInit /\ [][CheckNext]_checkVars

---------------------------------------------------------------------------
(* properties *)

\* The well-formed byte sequences of one character as the standard lists
\* them, NUL excepted.
WellFormed(c) ==
    LET tail(i) == \A j \in i .. Len(c) : c[j] \in 128 .. 191
    IN  \/ Len(c) = 1 /\ c[1] \in 1 .. 127
        \/ Len(c) = 2 /\ c[1] \in 194 .. 223 /\ tail(2)
        \/ /\ Len(c) = 3 /\ tail(3)
           /\ \/ c[1] = 224 /\ c[2] \in 160 .. 191
              \/ c[1] \in (225 .. 239) \ {237} /\ c[2] \in 128 .. 191
              \/ c[1] = 237 /\ c[2] \in 128 .. 159
        \/ /\ Len(c) = 4 /\ tail(3)
           /\ \/ c[1] = 240 /\ c[2] \in 144 .. 191
              \/ c[1] \in 241 .. 243 /\ c[2] \in 128 .. 191
              \/ c[1] = 244 /\ c[2] \in 128 .. 143

\* The text is cut into well-formed characters.
IsText(s) ==
    LET good[i \in 0 .. Len(s)] ==
            i = 0 \/ \E k \in 1 .. Min({i, 4}) :
                        good[i - k] /\ WellFormed(SubSeq(s, i - k + 1, i))
    IN  good[Len(s)]

\* _dbus_string_validate_utf8 accepts exactly the ranges that are well-formed
\* UTF-8 without NUL: no overlong form, no surrogate, nothing beyond the last
\* plane, no character cut at the end of the range.
Utf8IsExact ==
    \A start \in 0 .. Len(check_a) : \A len \in 0 .. Len(check_a) - start :
        ValidateUtf8(check_a, start, len) = IsText(SubSeq(check_a, start + 1, start + len))

\* What two of the checks accept, the third does too; a range that is
\* accepted stays so when the string grows behind it.
ChecksAgree ==
    \A start \in 0 .. Len(check_a) : \A len \in 1 .. Len(check_a) - start + 1 :
        /\ ValidateNul(check_a, start, len) => ValidateAscii(check_a, start, len) /\ ~ValidateUtf8(check_a, start, len)
        /\ ValidateAscii(check_a, start, len) /\ ~Contains(SubSeq(check_a, start + 1, start + len), 0)
             => ValidateUtf8(check_a, start, len)

\* The comparisons mean what they say: equal_len compares the first len bytes
\* of strings that may be shorter, equal_substring looks only at what exists,
\* and a string with a NUL inside is not equal to a C string.
ComparisonsAreExact ==
    /\ \A len \in 0 .. 4 :
         EqualLen(check_a, check_b, len) <=>
            SubSeq(check_a, 1, Min({len, Len(check_a)})) = SubSeq(check_b, 1, Min({len, Len(check_b)}))
    /\ \A i \in 0 .. Len(check_a) : \A len \in 0 .. Len(check_a) - i : \A j \in 0 .. Len(check_b) :
         EqualSubstring(check_a, i, len, check_b, j) <=>
            j + len <= Len(check_b) /\ SubSeq(check_a, i + 1, i + len) = SubSeq(check_b, j + 1, j + len)

\* A string equals a C string only when it has all of its bytes and no NUL,
\* and begins with every C string it is equal to.
CStringsAreWhole ==
    /\ EqualCStr(check_a, check_b) <=> check_a = CString(check_b)
    /\ StartsWithCStr(check_a, check_b) <=> IsPrefix(CString(check_b), check_a)
=============================================================================
