---------------------------- MODULE MCMessages ----------------------------
(***************************************************************************)
(* Small instances of the message half of libdbus: loader, marshalling,    *)
(* header, arguments, life of a message, and the texts of a message.       *)
(*                                                                         *)
(* A behaviour is one of the component named by focus, chosen at the start *)
(* with one of the sets of bounds below; the other components stand still. *)
(* So the states are the sum, never the product, of those of the components.*)
(* Each component is instantiated with the bounds that make its own hard   *)
(* cases happen; a part of a property is about the component it names.     *)
(***************************************************************************)
EXTENDS Naturals, Sequences

VARIABLES
    focus,      \* the component of this behaviour
    sent, wire, data, fds, messages, popped, corrupted, maxSize, loading, closed, gone,
    loader_oom,
    order, marshal_sig, marshal_body, stack, values,
    fields, array_len, length, padding, cache, got, ref,
    header, args_body, str, iters, n_unix_fds, append_open, state, left,
    args, spec, get_i, at, out, get_open, arrays, j, pc, args_oom,
    msg, message_cache, message_cache_count, message_cache_shutdown_registered, counter, open,
    text_sig,
    name_text,
    addr_text, result, lost

loaderVars == <<sent, wire, data, fds, messages, popped, corrupted, maxSize, loading, closed, gone,
    loader_oom>>
marshalVars == <<order, marshal_sig, marshal_body, stack, values>>
headerVars == <<fields, array_len, length, padding, cache, got, ref>>
appendVars == <<header, args_body, str, iters, n_unix_fds, append_open, state, left>>
getVars == <<args, spec, get_i, at, out, get_open, arrays, j, pc, args_oom>>
lifeVars == <<msg, message_cache, message_cache_count, message_cache_shutdown_registered, counter, open>>
sigVars == <<text_sig>>
nameVars == <<name_text>>
addrVars == <<addr_text, result, lost>>
vars == <<focus, loaderVars, marshalVars, headerVars, appendVars, getVars, lifeVars, sigVars,
    nameVars, addrVars>>

Loader1 == INSTANCE MessageLoader WITH
    NMessages <- 3, Types <- {"other"}, Codes <- {}, Values <- {}, MaxFields <- 0,
    Flaws <- {"none"}, Bodies <- {0, 1}, Fds <- {0, 1, 2}, Missing <- {0}, MaxSizes <- {},
    MaxFds <- 1, MaxMessageLength <- 6, OomAt <- {}, oom <- loader_oom
Loader2 == INSTANCE MessageLoader WITH
    NMessages <- 2, Types <- {"other"}, Codes <- {}, Values <- {}, MaxFields <- 0,
    Flaws <- {"none", "order", "body"}, Bodies <- {0, 1}, Fds <- {0, 1, 2}, Missing <- {0, 1},
    MaxSizes <- {2, 9}, MaxFds <- 2, MaxMessageLength <- 3, OomAt <- {}, oom <- loader_oom
Loader3 == INSTANCE MessageLoader WITH
    NMessages <- 1, Types <- {"call", "return", "error", "signal", "other", "invalid"},
    Codes <- {"PATH", "MEMBER", "REPLY_SERIAL", "UNIX_FDS", "unknown", "INVALID"},
    Values <- {"good", "bad", "type", "local"}, MaxFields <- 2, Flaws <- {"none"},
    Bodies <- {0}, Fds <- {0}, Missing <- {0}, MaxSizes <- {}, MaxFds <- 1,
    MaxMessageLength <- 9, OomAt <- {}, oom <- loader_oom
Loader4 == INSTANCE MessageLoader WITH
    NMessages <- 1, Types <- {"call", "return", "error", "signal", "other", "invalid"},
    Codes <- {"PATH", "INTERFACE", "MEMBER", "REPLY_SERIAL", "ERROR_NAME"}, Values <- {"good"},
    MaxFields <- 3, Flaws <- {"none", "order", "serial"}, Bodies <- {0}, Fds <- {0},
    Missing <- {0}, MaxSizes <- {}, MaxFds <- 1, MaxMessageLength <- 9, OomAt <- {},
    oom <- loader_oom
Loader5 == INSTANCE MessageLoader WITH
    NMessages <- 2, Types <- {"other"}, Codes <- {}, Values <- {}, MaxFields <- 0,
    Flaws <- {"none"}, Bodies <- {0, 1}, Fds <- {0, 1}, Missing <- {0}, MaxSizes <- {},
    MaxFds <- 1, MaxMessageLength <- 6, OomAt <- {"header", "fds"}, oom <- loader_oom
Loader6 == INSTANCE MessageLoader WITH
    NMessages <- 2, Types <- {"other"}, Codes <- {}, Values <- {}, MaxFields <- 0,
    Flaws <- {"none"}, Bodies <- {0, 1}, Fds <- {0, 1}, Missing <- {0}, MaxSizes <- {},
    MaxFds <- 2, MaxMessageLength <- 6, OomAt <- {"signature", "list", "body"},
    oom <- loader_oom
Marshal1 == INSTANCE Marshalling WITH
    Basics <- {"y", "u"}, Containers <- {"a", "v", "("}, Orders <- {"l", "B"},
    StringLens <- {0, 3}, MaxTypeLen <- 3, MaxValues <- 4, MaxDepth <- 64, sig <- marshal_sig,
    body <- marshal_body
Marshal2 == INSTANCE Marshalling WITH
    Basics <- {"s", "t"}, Containers <- {"a", "{"}, Orders <- {"l", "B"}, StringLens <- {1},
    MaxTypeLen <- 4, MaxValues <- 5, MaxDepth <- 64, sig <- marshal_sig, body <- marshal_body
Marshal3 == INSTANCE Marshalling WITH
    Basics <- {"y", "b", "t"}, Containers <- {"a", "v"}, Orders <- {"l", "B"},
    StringLens <- {0, 3}, MaxTypeLen <- 2, MaxValues <- 4, MaxDepth <- 64, sig <- marshal_sig,
    body <- marshal_body
Marshal4 == INSTANCE Marshalling WITH
    Basics <- {"y", "s", "g"}, Containers <- {"a", "v"}, Orders <- {"l", "B"},
    StringLens <- {0, 3}, MaxTypeLen <- 2, MaxValues <- 4, MaxDepth <- 64, sig <- marshal_sig,
    body <- marshal_body
Marshal5 == INSTANCE Marshalling WITH
    Basics <- {"y"}, Containers <- {"v", "("}, Orders <- {"l", "B"}, StringLens <- {0, 3},
    MaxTypeLen <- 3, MaxValues <- 7, MaxDepth <- 2, sig <- marshal_sig, body <- marshal_body
Header1 == INSTANCE MessageHeader WITH
    Used <- {"path", "member", "reply_serial", "signature"}, Lengths <- {1, 5},
    MayFail <- {"reserve", "write"}
Header2 == INSTANCE MessageHeader WITH
    Used <- {"destination", "sender", "interface", "unix_fds"}, Lengths <- {1, 5},
    MayFail <- {"reserve", "write"}
Header3 == INSTANCE MessageHeader WITH
    Used <- {"error_name", "path", "unix_fds"}, Lengths <- {1, 2, 5, 8}, MayFail <- {"reserve"}
Args1 == INSTANCE MessageArguments WITH
    Basics <- {"i", "h"}, Containers <- {"a", "(", "v"}, Element <- "i", MaxBody <- 4,
    MaxDepth <- 4, MaxFds <- 2, Fails <- {"alloc", "write", "field"},
    ArgTypes <- {"i", "h", "H", "as", "ai"}, SpecTypes <- {"i", "h", "as", "ai", "(i)"},
    MaxArgs <- 2, MayFail <- TRUE, body <- args_body, oom <- args_oom
Args2 == INSTANCE MessageArguments WITH
    Basics <- {"i", "h"}, Containers <- {"a", "(", "v"}, Element <- "i", MaxBody <- 4,
    MaxDepth <- 4, MaxFds <- 2, Fails <- {"alloc", "dup", "write", "recurse", "field"},
    ArgTypes <- {"i", "h", "H", "as", "ai"}, SpecTypes <- {"i", "h", "as", "ai", "(i)"},
    MaxArgs <- 2, MayFail <- TRUE, body <- args_body, oom <- args_oom
Life1 == INSTANCE MessageLife WITH
    Msgs <- {"m1", "m2"}, Counters <- {"c", "d"}, MaxSize <- 2, MaxFds <- 1, MaxRefs <- 1,
    CacheSize <- 1, MaxCharges <- 2, Uses <- {}
Life2 == INSTANCE MessageLife WITH
    Msgs <- {"m1", "m2", "m3"}, Counters <- {"c"}, MaxSize <- 2, MaxFds <- 0, MaxRefs <- 1,
    CacheSize <- 2, MaxCharges <- 0, Uses <- {"lock", "serial"}
Life3 == INSTANCE MessageLife WITH
    Msgs <- {"m1", "m2"}, Counters <- {"c"}, MaxSize <- 2, MaxFds <- 2, MaxRefs <- 2,
    CacheSize <- 1, MaxCharges <- 0, Uses <- {"data"}
Text1 == INSTANCE TextFormats WITH
    SigChars <- {"i", "v", "a", "(", ")", "x"}, MaxLen <- 6, MaxSigLen <- 5, MaxDepth <- 2,
    NameChars <- {"A", "0", "-", ".", "/", ":"}, MaxText <- 5, MaxNameLen <- 4,
    AddrChars <- {"a", ":", "=", ",", ";"}, MaxLength <- 6, sig <- text_sig
Text2 == INSTANCE TextFormats WITH
    SigChars <- {"i", "a", "(", ")", "{", "}"}, MaxLen <- 7, MaxSigLen <- 7, MaxDepth <- 2,
    NameChars <- {"A", ".", "/", "x", "u"}, MaxText <- 4, MaxNameLen <- 3,
    AddrChars <- {"a", ":", "=", "%", "4", " "}, MaxLength <- 5, sig <- text_sig

-----------------------------------------------------------------------------
Init ==
    /\ focus \in {"loader", "bad bytes", "fields", "mandatory", "loader oom", "late oom",
                  "containers", "dicts", "small", "texts", "depth", "header of a call",
                  "header of a reply", "alignment", "append", "append fails", "get args",
                  "counters", "cache", "descriptors", "signatures", "dict signatures", "names",
                  "name errors", "addresses", "escapes"}
    /\ IF focus = "loader" THEN Loader1!Init
       ELSE IF focus = "bad bytes" THEN Loader2!Init
       ELSE IF focus = "fields" THEN Loader3!Init
       ELSE IF focus = "mandatory" THEN Loader4!Init
       ELSE IF focus = "loader oom" THEN Loader5!Init
       ELSE IF focus = "late oom" THEN Loader6!Init
       ELSE sent = 0 /\ wire = 0 /\ data = 0 /\ fds = 0 /\ messages = 0 /\ popped = 0
            /\ corrupted = 0 /\ maxSize = 0 /\ loading = 0 /\ closed = 0 /\ gone = 0
            /\ loader_oom = 0
    /\ IF focus = "containers" THEN Marshal1!Init
       ELSE IF focus = "dicts" THEN Marshal2!Init
       ELSE IF focus = "small" THEN Marshal3!Init
       ELSE IF focus = "texts" THEN Marshal4!Init
       ELSE IF focus = "depth" THEN Marshal5!Init
       ELSE order = 0 /\ marshal_sig = 0 /\ marshal_body = 0 /\ stack = 0 /\ values = 0
    /\ IF focus = "header of a reply" THEN Header2!Init
       ELSE IF focus = "alignment" THEN Header3!Init
       ELSE Header1!Init
    /\ IF focus = "append fails" THEN Args2!AppendInit
       ELSE Args1!AppendInit
    /\ IF focus = "get args" THEN Args1!GetInit
       ELSE args = 0 /\ spec = 0 /\ get_i = 0 /\ at = 0 /\ out = 0 /\ get_open = 0
            /\ arrays = 0 /\ j = 0 /\ pc = 0 /\ args_oom = 0
    /\ IF focus = "cache" THEN Life2!Init
       ELSE IF focus = "descriptors" THEN Life3!Init
       ELSE Life1!Init
    /\ IF focus = "dict signatures" THEN Text2!SigInit
       ELSE Text1!SigInit
    /\ IF focus = "name errors" THEN Text2!NameInit
       ELSE Text1!NameInit
    /\ IF focus = "escapes" THEN Text2!AddrInit
       ELSE Text1!AddrInit

Next ==
    /\ UNCHANGED focus
    /\ IF focus = "loader" THEN Loader1!Next
       ELSE IF focus = "bad bytes" THEN Loader2!Next
       ELSE IF focus = "fields" THEN Loader3!Next
       ELSE IF focus = "mandatory" THEN Loader4!Next
       ELSE IF focus = "loader oom" THEN Loader5!Next
       ELSE IF focus = "late oom" THEN Loader6!Next ELSE UNCHANGED loaderVars
    /\ IF focus = "containers" THEN Marshal1!Next
       ELSE IF focus = "dicts" THEN Marshal2!Next
       ELSE IF focus = "small" THEN Marshal3!Next
       ELSE IF focus = "texts" THEN Marshal4!Next
       ELSE IF focus = "depth" THEN Marshal5!Next ELSE UNCHANGED marshalVars
    /\ IF focus = "header of a call" THEN Header1!Next
       ELSE IF focus = "header of a reply" THEN Header2!Next
       ELSE IF focus = "alignment" THEN Header3!Next ELSE UNCHANGED headerVars
    /\ IF focus = "append" THEN Args1!AppendNext
       ELSE IF focus = "append fails" THEN Args2!AppendNext ELSE UNCHANGED appendVars
    /\ IF focus = "get args" THEN Args1!GetNext ELSE UNCHANGED getVars
    /\ IF focus = "counters" THEN Life1!Next
       ELSE IF focus = "cache" THEN Life2!Next
       ELSE IF focus = "descriptors" THEN Life3!Next ELSE UNCHANGED lifeVars
    /\ IF focus = "signatures" THEN Text1!SigNext
       ELSE IF focus = "dict signatures" THEN Text2!SigNext ELSE UNCHANGED sigVars
    /\ IF focus = "names" THEN Text1!NameNext
       ELSE IF focus = "name errors" THEN Text2!NameNext ELSE UNCHANGED nameVars
    /\ IF focus = "addresses" THEN Text1!AddrNext
       ELSE IF focus = "escapes" THEN Text2!AddrNext ELSE UNCHANGED addrVars

Spec == Init /\ [][Next]_vars

-----------------------------------------------------------------------------

\* What a writer was given a reader returns, in either byte order and for every nesting
\* (dbus-marshal-recursive.c); the message that leaves the loader is the one that was sent,
\* whatever the chunks it came in (dbus-message.c, load_message), with its own descriptors but
\* where a late failure of memory has closed some: then it takes those of the messages behind
\* it (dbus-message.c:4246); deleting and setting header fields keeps the others
\* (dbus-marshal-header.c), and an argument that is appended is in the body and in the signature.
WrittenIsRead ==
    /\ focus = "loader" => Loader1!TypeOK /\ Loader1!AsSent
    /\ focus = "loader oom" => Loader5!AsSent
    /\ focus = "late oom" => Loader6!AsSent
    /\ focus = "containers" => Marshal1!RoundTrip /\ Marshal1!SkipsToTheEnd /\ Marshal1!OneEncoding
            /\ Marshal1!SwapKeepsValues
    /\ focus = "dicts" => Marshal2!RoundTrip /\ Marshal2!SwapKeepsValues
    /\ focus = "small" => Marshal3!RoundTrip /\ Marshal3!OneEncoding
    /\ focus = "texts" => Marshal4!RoundTrip
    /\ focus = "header of a call" => Header1!StillReadable
    /\ focus = "header of a reply" => Header2!StillReadable
    /\ focus = "alignment" => Header3!HeaderIsAligned
    /\ focus = "append" => Args1!HeaderTellsTheBody
    /\ focus = "get args" => Args1!SucceedsWhenItShould
    /\ focus = "addresses" => Text1!NothingIsLost

\* The checks of a body, of a header, of paths and addresses accept exactly the texts of the grammar,
\* those of signatures and unique names these and what ScanAgrees and NamesAgree say: arrays nested too
\* deep with something between them, containers that overlap, and unique names without two elements.
\* None of several checks of the same thing disagrees with another (dbus-marshal-validate.c,
\* dbus-signature.c, dbus-address.c, dbus-message.c).
OnlyValidIsAccepted ==
    /\ focus = "bad bytes" => Loader2!CorruptedIsBad /\ Loader2!OnlyWellFormed
    /\ focus = "fields" => Loader3!OnlyWellFormed /\ Loader3!CorruptedIsBad
    /\ focus = "mandatory" => Loader4!OnlyWellFormed /\ Loader4!NeededIsEnough
    /\ focus = "loader oom" => Loader5!CorruptedIsBad
    /\ focus = "late oom" => Loader6!CorruptedIsBad /\ Loader6!OnlyWellFormed
    /\ focus = "containers" => Marshal1!ChecksTheWhole
    /\ focus = "dicts" => Marshal2!ChecksTheWhole
    /\ focus = "texts" => Marshal4!ChecksTheWhole
    /\ focus = "depth" => Marshal5!DepthLimited
    /\ focus = "signatures" => Text1!ScanAgrees /\ Text1!SkipsWhole /\ Text1!SingleIsOne /\ Text1!WalkVisitsAll
    /\ focus = "dict signatures" => Text2!ScanAgrees /\ Text2!WalkVisitsAll
    /\ focus = "names" => Text1!PathsAgree /\ Text1!NamesAgree /\ Text1!PrefixesAgree
    /\ focus = "name errors" => Text2!NamesAgree /\ Text2!ErrorsAreText
    /\ focus = "addresses" => Text1!ParsesTheGrammar
    /\ focus = "escapes" => Text2!ParsesTheGrammar /\ Text2!ValuesAreClean

\* File descriptors, counters and cached messages add up: whatever fails in the middle, a
\* descriptor belongs to one message or to the loader, or was closed with the message that memory did
\* not suffice to load; a counter has what the messages that hold it use, a message in the cache is of
\* nobody (dbus-message.c).  A failed read of arguments takes everything back; a failed append all but
\* the signature, where a descriptor or a container fails outside every container.
NothingIsLeft ==
    /\ focus = "loader" => Loader1!TypeOK
    /\ focus = "bad bytes" => Loader2!DescriptorsAccounted
    /\ focus = "loader oom" => Loader5!DescriptorsAccounted
    /\ focus = "late oom" => Loader6!DescriptorsAccounted
    /\ focus = "append fails" => Args2!NothingLeaked
    /\ focus = "get args" => Args1!FailureTakesAllBack
    /\ focus = "counters" => Life1!CountersAddUp
    /\ focus = "cache" => Life2!CacheIsSound
    /\ focus = "descriptors" => Life3!DescriptorsBelong

\* A getter returns what the argument list names and nothing of an earlier call
\* (_dbus_message_iter_get_args_valist); a message that comes out of the cache has nothing
\* of its earlier life (dbus_message_new_empty_header).
GettersTellTheTruth ==
    [][/\ focus = "header of a call" => Header1!GettersTellTheTruth
       /\ focus = "header of a reply" => Header2!GettersTellTheTruth
       /\ focus = "cache" => Life2!NewLifeIsFresh]_vars
=============================================================================
