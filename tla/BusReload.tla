------------------------------ MODULE BusReload ------------------------------
(***************************************************************************)
(* Signals and the reload of the configuration in a daemon that runs       *)
(* (signal_handler and handle_reload_watch of bus/main.c,                  *)
(* bus_context_reload_config and process_config_every_time of bus/bus.c).  *)
(* A signal handler writes one byte to a pipe that the main loop reads;    *)
(* ReloadConfig of the driver reloads at once.                             *)
(*                                                                         *)
(* The configuration file is known by its version; the context is known by *)
(* the version each of its parts comes from.                               *)
(***************************************************************************)
EXTENDS Naturals, Sequences, FiniteSets, SequencesExt, TLAPS

CONSTANTS
    MaxVersion,     \* versions of the file: 0 .. MaxVersion
    Broken,         \* versions that cannot be loaded
    PipeSize,       \* bytes the pipe holds
    MaxSignals,     \* bound on the signals that are sent
    Failures        \* where an allocation may fail in a reload, a subset of Points

\* the parts of the context, in the order in which a reload sets them
Parts == <<"limits", "policy", "clients", "address", "servicehelper", "activation",
           "contexts", "dirs">>
\* parts that a reload cannot fail to set, and the place where the address is copied
Points == (Range(Parts) \ {"limits", "policy"}) \cup {"copy"}

VARIABLES
    file,           \* the version of the file
    told,           \* TRUE if a signal was sent after the last change of the file
    pipe,           \* bytes in the pipe, "r" and "q"
    signals,        \* number of signals sent
    terminated,     \* a SIGTERM was sent
    phase,          \* "loop", "read" (the byte 'r' is read), "loaded" or "exited"
    parser,         \* the version a reload has loaded
    caller,         \* "signal" or "driver", whose reload it is
    part,           \* [part of the context]: the version it comes from
    freed,          \* context->address points to memory that was given back, for good: the
                    \* next reload gives it back again
    error,          \* the error of the last reload is set
    returned        \* what the last bus_context_reload_config returned

vars == <<file, told, pipe, signals, terminated, phase, parser, caller, part, freed, error,
          returned>>
context == <<part, freed, error, returned>>

Init ==
    /\ file = 0 /\ told = TRUE /\ pipe = <<>> /\ signals = 0 /\ terminated = FALSE
    /\ phase = "loop" /\ parser = 0 /\ caller = "signal"
    /\ part = [p \in Range(Parts) |-> 0]
    /\ freed = FALSE /\ error = FALSE /\ returned = TRUE

----------------------------------------------------------------------------
(* Outside.                                                                *)

Edit ==
    /\ file < MaxVersion /\ signals < MaxSignals
    /\ file' = file + 1 /\ told' = FALSE
    /\ UNCHANGED <<pipe, signals, terminated, phase, parser, caller, context>>

\* _dbus_write_socket of one byte: the socket does not block, and says -1 when it is full
Written(b) == IF Len(pipe) < PipeSize THEN Append(pipe, b) ELSE pipe

\* signal_handler: it runs at any time; a byte that does not fit is given up
Hangup ==
    /\ phase # "exited" /\ signals < MaxSignals
    /\ pipe' = Written("r") /\ signals' = signals + 1 /\ told' = TRUE
    /\ UNCHANGED <<file, terminated, phase, parser, caller, context>>

\* signal_handler: -1 is not 0, so the branch that exits is not taken
Terminate ==
    /\ phase # "exited" /\ signals < MaxSignals
    /\ pipe' = Written("q") /\ signals' = signals + 1 /\ terminated' = TRUE
    /\ UNCHANGED <<file, told, phase, parser, caller, context>>

----------------------------------------------------------------------------
(* The main loop.                                                          *)

\* handle_reload_watch: one byte is read, then acted upon
HandleReloadWatch ==
    /\ phase = "loop" /\ pipe # <<>>
    /\ pipe' = Tail(pipe)
    /\ phase' = IF Head(pipe) = "r" THEN "read" ELSE "exited"
    /\ caller' = "signal"
    /\ UNCHANGED <<file, told, signals, terminated, parser, context>>

\* ReloadConfig of the driver
ReloadConfig ==
    /\ phase = "loop" /\ signals < MaxSignals
    /\ phase' = "read" /\ caller' = "driver"
    /\ signals' = signals + 1 /\ told' = TRUE
    /\ UNCHANGED <<file, pipe, terminated, parser, context>>


\* bus_context_reload_config: bus_config_load
Load ==
    /\ phase = "read"
    /\ IF file \in Broken
       THEN /\ phase' = "loop" /\ error' = TRUE /\ returned' = FALSE
            /\ UNCHANGED <<parser, part, freed>>
       ELSE phase' = "loaded" /\ parser' = file /\ UNCHANGED context
    /\ UNCHANGED <<file, told, pipe, signals, terminated, caller>>

\* the parts that are set before point f fails
Before(f) == LET at == SelectInSeq(Parts, LAMBDA p : p = f)
             IN {Parts[i] : i \in 1 .. at - 1}
Set(S) == [p \in DOMAIN part |-> IF p \in S THEN parser ELSE part[p]]

\* Faulty variant: the pipe is emptied once the file has been applied.
ApplyDrains ==
    /\ phase = "loaded" /\ phase' = "loop"
    /\ part' = Set(DOMAIN part) /\ error' = FALSE /\ returned' = TRUE
    /\ pipe' = SelectSeq(pipe, LAMBDA b : b # "r")
    /\ UNCHANGED <<file, told, signals, terminated, parser, caller, freed>>

\* process_config_every_time and process_config_postinit
Apply ==
    /\ phase = "loaded" /\ phase' = "loop"
    /\ part' = Set(DOMAIN part) /\ error' = FALSE /\ returned' = TRUE
    /\ UNCHANGED <<file, told, pipe, signals, terminated, parser, caller, freed>>

\* process_config_every_time: retval is TRUE once the clients' policies are set, so a later
\* failure is not returned, and process_config_postinit goes on
ApplyFails(f) ==
    /\ phase = "loaded" /\ phase' = "loop"
    /\ f \in Failures \cap {"clients", "address", "copy", "servicehelper", "activation"}
    /\ returned' = (f # "clients")
    /\ part' = Set((IF f = "copy" THEN Before("address") ELSE Before(f))
                   \cup (IF returned' THEN {"contexts", "dirs"} ELSE {}))
    /\ freed' = (freed \/ f = "copy")
    /\ error' = TRUE
    /\ UNCHANGED <<file, told, pipe, signals, terminated, parser, caller>>

\* process_config_postinit
PostinitFails(f) ==
    /\ phase = "loaded" /\ phase' = "loop"
    /\ f \in Failures \cap {"contexts", "dirs"}
    /\ part' = Set(Before(f)) /\ returned' = FALSE /\ error' = TRUE
    /\ UNCHANGED <<file, told, pipe, signals, terminated, parser, caller, freed>>

Daemon ==
    \/ HandleReloadWatch \/ Load \/ Apply
    \/ \E f \in Points : ApplyFails(f) \/ PostinitFails(f)
Next == Edit \/ Hangup \/ Terminate \/ ReloadConfig \/ Daemon

\* Whoever has edited the file tells the daemon.
TellDaemon == Hangup /\ ~told

Spec == Init /\ [][Next]_vars

----------------------------------------------------------------------------
(* Properties.                                                             *)

TypeOK ==
    /\ file \in 0 .. MaxVersion /\ parser \in 0 .. MaxVersion \ Broken
    /\ pipe \in Seq({"r", "q"}) /\ Len(pipe) <= PipeSize
    /\ phase \in {"loop", "read", "loaded", "exited"}
    /\ part \in [Range(Parts) -> 0 .. MaxVersion]

\* The parts of the context come from one version of the file, and from one that can be loaded,
\* whenever the main loop is at rest, with edits and signals in any order and broken files.
OneVersion ==
    phase \in {"loop", "exited"} =>
        \E v \in 0 .. MaxVersion \ Broken : \A p \in Range(Parts) : part[p] = v

\* A reload that returns TRUE has set every part, and has not set the error.
TrueMeansReloaded ==
    (phase = "loop" /\ returned)
        => ~error /\ ~freed /\ \A p \in Range(Parts) : part[p] = part["limits"]

\* What a reload leaves behind when memory runs out anywhere in it (process_config_every_time,
\* process_config_postinit).  One that sets no error has set every part.  One that returns TRUE
\* has set the limits, the policies and what process_config_postinit sets, and at most the parts
\* between them are older.  Otherwise the parts are the older the later a reload sets them.
OlderInOrder ==
    LET between == {"address", "servicehelper", "activation"}
        postinit == {"contexts", "dirs"}
    IN  /\ ~error => returned /\ \A p \in Range(Parts) : part[p] = part["limits"]
        /\ returned => \A p \in Range(Parts) \ between : part[p] = part["limits"]
        /\ \A i, j \in DOMAIN Parts :
              i < j => \/ part[Parts[i]] >= part[Parts[j]]
                       \/ Parts[i] \in between /\ Parts[j] \in postinit

\* A signal that came after the last change of the file was not in vain, although the handler
\* gives up its byte when the pipe is full (the comment in signal_handler promises that "new
\* changes will be picked up"): once the pipe is empty the daemon has read that version.
ChangesArePickedUp ==
    (told /\ ~terminated /\ phase = "loop" /\ pipe = <<>> /\ file \notin Broken)
        => part["limits"] = file

\* Once the daemon is told of a change it takes it over, even if the pipe was full: there is a
\* byte in it whose reload comes after the change.  A reload for which memory runs out takes the
\* limits over and sets the error; nobody tries again.
Told(v) == v \notin Broken /\ file = v /\ told /\ ~terminated
TakenOver(v) ==
    \/ part["limits"] >= v /\ (error \/ part["dirs"] >= v)
    \/ file > v \/ terminated

\* A SIGTERM whose byte the pipe has taken ends the daemon; one that finds the pipe full is lost
\* (signal_handler).
TermWritten == "q" \in Range(pipe)
Exited == phase = "exited"

----------------------------------------------------------------------------
(***************************************************************************)
(* Proofs.  The inductive invariant: the parts of the context come from    *)
(* one version unless memory fails; what the last reload returned tells    *)
(* what it did; and a signal since the last change is still in the pipe,   *)
(* or its reload is under way, or done.                                    *)
(***************************************************************************)
Whole == Failures = {} => \E v \in 0 .. MaxVersion \ Broken : \A p \in Range(Parts) : part[p] = v

Honest ==
    (Failures \subseteq {"clients", "contexts", "dirs"} /\ returned)
        => ~error /\ \A p \in Range(Parts) : part[p] = part["limits"]
NothingIsFreed == "copy" \notin Failures => ~freed

Heard ==
    ~terminated =>
        /\ phase # "exited" /\ \A i \in DOMAIN pipe : pipe[i] = "r"
        /\ told => \/ pipe # <<>> \/ phase = "read"
                   \/ phase = "loaded" /\ parser = file
                   \/ phase = "loop" /\ (file \in Broken \/ part["limits"] = file)

IInv == TypeOK /\ Whole /\ Honest /\ NothingIsFreed /\ Heard

\* The versions of the file and the pipe: there is a first version, which loads, and a byte fits.
Sensible == MaxVersion \in Nat /\ PipeSize \in Nat \ {0} /\ 0 \notin Broken

LEMMA PartNames ==
    Range(Parts) = {"limits", "policy", "clients", "address", "servicehelper", "activation",
                    "contexts", "dirs"}
BY DEF Range, Parts

\* A reload sets the limits before anything of it can fail.
LEMMA LimitsFirst ==
    ASSUME NEW f \in Range(Parts), f # "limits"
    PROVE  "limits" \in Before(f) /\ Before(f) \subseteq Range(Parts)
<1> DEFINE I == {i \in 1 .. Len(Parts) : Parts[i] = f}
           at == SelectInSeq(Parts, LAMBDA p : p = f)
<1>1. PICK k \in 1 .. 8 : Parts[k] = f
  BY DEF Range, Parts
<1>2. k \in I /\ I \subseteq 2 .. 8
  BY <1>1 DEF Parts
<1>3. at \in I
  <2>1. \E m \in I : \A i \in I : m <= i
    BY <1>2
  <2> QED
    BY <1>2, <2>1 DEF SelectInSeq, Min
<1>4. 1 \in 1 .. at - 1 /\ Parts[1] = "limits"
  BY <1>2, <1>3 DEF Parts
<1>5. \A i \in 1 .. at - 1 : i \in DOMAIN Parts
  BY <1>2, <1>3 DEF Parts
<1> QED
  BY <1>4, <1>5 DEF Before, Range

LEMMA InitInv == Sensible /\ Init => IInv
<1> SUFFICES ASSUME Sensible, Init PROVE IInv
  OBVIOUS
<1> USE DEF Init, Sensible
<1>1. \A p \in Range(Parts) : part[p] = 0
  OBVIOUS
<1>2. TypeOK
  BY DEF TypeOK
<1>3. Whole /\ Honest /\ NothingIsFreed
  BY <1>1, PartNames DEF Whole, Honest, NothingIsFreed
<1>4. Heard
  BY <1>1, PartNames DEF Heard
<1> QED
  BY <1>2, <1>3, <1>4 DEF IInv

\* What is outside changes neither the context nor what the daemon is doing.
LEMMA OutsideKeeps ==
    ASSUME Sensible, IInv, Edit \/ Hangup \/ Terminate
    PROVE  IInv'
<1> USE DEF Sensible, IInv, context
<1>1. UNCHANGED <<phase, parser, part, freed, error, returned>>
  BY DEF Edit, Hangup, Terminate
<1>2. Whole' /\ Honest' /\ NothingIsFreed'
  BY <1>1 DEF Whole, Honest, NothingIsFreed
<1>3. CASE Edit
  BY <1>1, <1>2, <1>3 DEF Edit, TypeOK, Heard
<1>4. ASSUME NEW b \in {"r", "q"}, pipe' = Written(b)
      PROVE  /\ pipe' \in Seq({"r", "q"}) /\ Len(pipe') <= PipeSize /\ pipe' # <<>>
             /\ \A i \in DOMAIN pipe' : pipe'[i] = b \/ (i \in DOMAIN pipe /\ pipe'[i] = pipe[i])
  BY <1>4 DEF Written, TypeOK
<1>5. CASE Hangup
  <2>1. TypeOK'
    BY <1>1, <1>4, <1>5 DEF Hangup, TypeOK
  <2>2. Heard'
    BY <1>1, <1>4, <1>5 DEF Hangup, Heard
  <2> QED
    BY <1>2, <2>1, <2>2
<1>6. CASE Terminate
  <2>1. TypeOK'
    BY <1>1, <1>4, <1>6 DEF Terminate, TypeOK
  <2>2. Heard'
    BY <1>6 DEF Terminate, Heard
  <2> QED
    BY <1>2, <2>1, <2>2
<1> QED
  BY <1>3, <1>5, <1>6

\* A byte is read, or the driver is asked: the reload is under way.
LEMMA RequestKeeps ==
    ASSUME Sensible, IInv, HandleReloadWatch \/ ReloadConfig
    PROVE  IInv'
<1> USE DEF Sensible, IInv, context
<1>1. UNCHANGED <<file, parser, part, freed, error, returned>>
  BY DEF HandleReloadWatch, ReloadConfig
<1>2. Whole' /\ Honest' /\ NothingIsFreed'
  BY <1>1 DEF Whole, Honest, NothingIsFreed
<1>3. CASE HandleReloadWatch
  <2>1. /\ pipe' \in Seq({"r", "q"}) /\ Len(pipe') <= PipeSize /\ 1 \in DOMAIN pipe
        /\ \A i \in DOMAIN pipe' : i + 1 \in DOMAIN pipe /\ pipe'[i] = pipe[i + 1]
    BY <1>3 DEF HandleReloadWatch, TypeOK
  <2>2. TypeOK'
    BY <1>1, <1>3, <2>1 DEF HandleReloadWatch, TypeOK
  <2>3. Heard'
    BY <1>3, <2>1 DEF HandleReloadWatch, Heard
  <2> QED
    BY <1>2, <2>2, <2>3
<1>4. CASE ReloadConfig
  BY <1>1, <1>2, <1>4 DEF ReloadConfig, TypeOK, Heard
<1> QED
  BY <1>3, <1>4

LEMMA LoadKeeps == ASSUME Sensible, IInv, Load PROVE IInv'
<1> USE DEF Sensible, IInv, Load, context
<1>1. TypeOK' /\ Heard'
  BY DEF TypeOK, Heard
<1>2. Whole' /\ Honest' /\ NothingIsFreed'
  BY DEF Whole, Honest, NothingIsFreed
<1> QED
  BY <1>1, <1>2

\* A reload that ends has set the limits at least.
LEMMA SettingKeeps ==
    ASSUME IInv, NEW S \in SUBSET Range(Parts), "limits" \in S, part' = Set(S)
    PROVE  /\ part' \in [Range(Parts) -> 0 .. MaxVersion] /\ part'["limits"] = parser
           /\ S = Range(Parts) => \A p \in Range(Parts) : part'[p] = parser
BY DEF IInv, TypeOK, Set

LEMMA ApplyKeeps == ASSUME Sensible, IInv, Apply PROVE IInv'
<1> USE DEF IInv, Apply
<1>1. "limits" \in Range(Parts) /\ DOMAIN part = Range(Parts)
  BY PartNames DEF TypeOK
<1>2. /\ part' \in [Range(Parts) -> 0 .. MaxVersion] /\ part'["limits"] = parser
      /\ \A p \in Range(Parts) : part'[p] = parser
  BY <1>1, SettingKeeps
<1>3. TypeOK' /\ Heard'
  BY <1>2 DEF TypeOK, Heard
<1>4. Whole' /\ Honest' /\ NothingIsFreed'
  BY <1>1, <1>2 DEF TypeOK, Whole, Honest, NothingIsFreed
<1> QED
  BY <1>3, <1>4

LEMMA FailureKeeps ==
    ASSUME Sensible, IInv, NEW f \in Points, ApplyFails(f) \/ PostinitFails(f)
    PROVE  IInv'
<1> USE DEF IInv
<1>1. /\ f \in Failures /\ f \in {"clients", "address", "copy", "servicehelper", "activation",
                                 "contexts", "dirs"}
      /\ phase = "loaded" /\ phase' = "loop" /\ error' = TRUE
      /\ f # "copy" /\ ~freed => ~freed'
      /\ f \in {"clients", "contexts", "dirs"} => ~returned'
      /\ UNCHANGED <<file, told, pipe, terminated, parser>>
  <2>1. CASE ApplyFails(f)
    BY <2>1 DEF ApplyFails
  <2>2. CASE PostinitFails(f)
    BY <2>2 DEF PostinitFails
  <2> QED
    BY <2>1, <2>2
<1>2. PICK S \in SUBSET Range(Parts) : "limits" \in S /\ part' = Set(S)
  <2> DEFINE g == IF f = "copy" THEN "address" ELSE f
  <2>1. "limits" \in Before(g) /\ Before(g) \subseteq Range(Parts)
    BY <1>1, LimitsFirst, PartNames
  <2>2. \/ part' = Set(Before(g) \cup (IF returned' THEN {"contexts", "dirs"} ELSE {}))
        \/ part' = Set(Before(g))
    BY <1>1 DEF ApplyFails, PostinitFails
  <2>3. {"contexts", "dirs"} \subseteq Range(Parts)
    BY PartNames
  <2> QED
    BY <2>1, <2>2, <2>3
<1>3. part' \in [Range(Parts) -> 0 .. MaxVersion] /\ part'["limits"] = parser
  BY <1>2, SettingKeeps
<1>4. TypeOK' /\ Heard'
  BY <1>1, <1>3 DEF TypeOK, Heard
<1>5. Whole' /\ Honest' /\ NothingIsFreed'
  BY <1>1 DEF Whole, Honest, NothingIsFreed
<1> QED
  BY <1>4, <1>5

LEMMA Inductive == ASSUME Sensible PROVE Spec => []IInv
<1>1. Init => IInv
  BY InitInv
<1>2. IInv /\ [Next]_vars => IInv'
  <2> SUFFICES ASSUME IInv, [Next]_vars PROVE IInv'
    OBVIOUS
  <2>1. ASSUME UNCHANGED vars PROVE IInv'
    BY <2>1 DEF vars, context, IInv, TypeOK, Whole, Honest, NothingIsFreed, Heard
  <2> QED
    BY <2>1, OutsideKeeps, RequestKeeps, LoadKeeps, ApplyKeeps, FailureKeeps DEF Next, Daemon
<1> QED
  BY <1>1, <1>2, PTL DEF Spec

\* The parts of the context come from one version of the file that can be loaded, whatever is
\* edited, however often it is broken and whoever asks for the reload (bus.c), as long as memory
\* lasts.
THEOREM ContextIsWhole == ASSUME Sensible, Failures = {} PROVE Spec => [](TypeOK /\ OneVersion)
<1>1. IInv => TypeOK /\ OneVersion
  BY DEF IInv, Whole, OneVersion
<1> QED
  BY <1>1, Inductive, PTL

\* A reload that says TRUE has set every part, when memory runs out at a place from which
\* process_config_every_time still returns FALSE, or in process_config_postinit.
THEOREM TrueReloadsAreWhole ==
    ASSUME Sensible, Failures \subseteq {"clients", "contexts", "dirs"}
    PROVE  Spec => []TrueMeansReloaded
<1>1. IInv => TrueMeansReloaded
  BY DEF IInv, Honest, NothingIsFreed, TrueMeansReloaded
<1> QED
  BY <1>1, Inductive, PTL

\* However many signals come, and however full the pipe is when they do: the last change of the
\* file before the last signal has been picked up when the pipe is empty (signal_handler).
THEOREM NoSignalIsMissed == ASSUME Sensible PROVE Spec => []ChangesArePickedUp
<1>1. IInv => ChangesArePickedUp
  BY DEF IInv, Heard, ChangesArePickedUp
<1> QED
  BY <1>1, Inductive, PTL
=============================================================================
