--------------------------- MODULE CompareWindow ---------------------------
(***************************************************************************)
(* The example window of SAPDBLibTest: each button reads one value of an   *)
(* order from SAP (through SAPDBLib) and from the flash database and       *)
(* colours a group box when the two disagree.  A slot blocks the window    *)
(* but not the databases, so it is split where the second database is      *)
(* read.  A value is a small number, 0 stands for the missing row; what    *)
(* the two sides turn it into is a text with a form, and two texts are     *)
(* equal only if number and form are.                                      *)
(***************************************************************************)
EXTENDS Naturals

CONSTANTS MaxValue, MaxChanges   \* largest value; bound on changes of rows

VARIABLES
    sap, flash,     \* the rows of the two databases, per group
    bus,            \* can SAPDBLib reach SAP at all?
    fieldSap, fieldFlash, red, status, orderType,   \* what the window shows
    busy,           \* the group whose slot has read SAP but not the flash database
    shown,          \* history: the group queried last
    seen,           \* history: the rows that query read, <<sap, flash>>; -1 not read
    changes

vars == <<sap, flash, bus, fieldSap, fieldFlash, red, status, orderType, busy,
          shown, seen, changes>>
window == <<fieldSap, fieldFlash, red, status, orderType>>
databases == <<sap, flash, bus, changes>>

Groups == {"mkt", "type", "qty"}
Values == 0..MaxValue
None == "none"
NotRead == 100      \* no row has this value

Text(form, n) == [form |-> form, n |-> n]
Empty == Text("empty", 0)
NoEntry(where) == Text(where, 0)
Texts == [form : {"plain", "padded", "char", "empty", "noSap", "noFlash"}, n : Values]
-----------------------------------------------------------------------------
\* What SAPDBLib hands out for a row: SAP pads its numbers, the Materialkurztext
\* is text; a missing row is the empty string and the call still succeeds.
SapText(g, n) ==
    IF n = 0 THEN Empty ELSE Text(IF g = "mkt" THEN "plain" ELSE "padded", n)

\* toInt and QString::number, as getOrderTypeNrTest applies them: an empty
\* string becomes 0.
Normalised(t) == Text("plain", t.n)

\* The text of the SAP side as the slot shows and compares it.
SapSide(g, n) == IF g = "type" THEN Normalised(SapText(g, n)) ELSE SapText(g, n)

\* The text of the flash side as the slot compares it: QString(int) is the
\* character with that code.
FlashSide(g, n) == IF g = "qty" THEN Text("char", n) ELSE Text("plain", n)

\* The note a slot puts into the field when SAPDBLib fails, and when the flash
\* database has no entry; getOrderQty writes none.
SapNote(g) == CASE g = "mkt" -> NoEntry("noSap")
                [] g = "type" -> NoEntry("noFlash")
                [] g = "qty" -> Empty
FlashNote(g) == CASE g = "mkt" -> NoEntry("noFlash")
                  [] g = "type" -> NoEntry("noSap")
                  [] g = "qty" -> Empty
-----------------------------------------------------------------------------
Init ==
    /\ sap \in [Groups -> Values] /\ flash \in [Groups -> Values]
    /\ bus \in BOOLEAN
    /\ fieldSap = [g \in Groups |-> Empty] /\ fieldFlash = [g \in Groups |-> Empty]
    /\ red = {} /\ orderType = Empty
    /\ status = IF bus THEN "" ELSE "not available"
    /\ busy = None /\ shown = None /\ seen = <<NotRead, NotRead>>
    /\ changes = 0

\* As resetGui below, but what the other groups showed stays.
ShowOver(g, t, isRed) ==
    /\ fieldSap' = [fieldSap EXCEPT ![g] = t]
    /\ fieldFlash' = [fieldFlash EXCEPT ![g] = Empty]
    /\ red' = IF isRed THEN {g} ELSE {}
    /\ status' = "" /\ orderType' = Empty

\* resetGui, the first statement of every slot, followed by what the slot shows.
Show(g, t, isRed) ==
    /\ fieldSap' = [h \in Groups |-> IF h = g THEN t ELSE Empty]
    /\ fieldFlash' = [h \in Groups |-> Empty]
    /\ red' = IF isRed THEN {g} ELSE {}
    /\ status' = "" /\ orderType' = Empty

\* A slot up to the answer of SAPDBLib: bad input or an unreachable SAP end it,
\* and getOrderQty then leaves its group as resetGui coloured it.
AskSap(g) ==
    /\ busy = None
    /\ shown' = g
    /\ \/ /\ bus
          /\ Show(g, SapSide(g, sap[g]), FALSE)
          /\ busy' = g /\ seen' = <<sap[g], NotRead>>
       \/ /\ Show(g, SapNote(g), g # "qty")
          /\ busy' = None /\ seen' = <<NotRead, NotRead>>
    /\ UNCHANGED databases

\* Colours the group when the texts differ, and shows the flash side.
Verdict(g, n) ==
    /\ red' = IF SapSide(g, seen[1]) # FlashSide(g, n) THEN red \cup {g} ELSE red
    /\ fieldFlash' = [fieldFlash EXCEPT ![g] = Text("plain", n)]

\* The rest of the slot: read the flash database and compare.
AskFlash(g) ==
    /\ busy = g
    /\ IF flash[g] # 0
       THEN Verdict(g, flash[g])
       ELSE /\ fieldFlash' = [fieldFlash EXCEPT ![g] = FlashNote(g)]
            /\ red' = IF g = "qty" THEN red ELSE red \cup {g}
    /\ seen' = [seen EXCEPT ![2] = flash[g]]
    /\ busy' = None
    /\ UNCHANGED <<databases, fieldSap, status, orderType, shown>>

\* PingTest.
PingTest ==
    /\ busy = None
    /\ fieldSap' = [g \in Groups |-> Empty] /\ fieldFlash' = [g \in Groups |-> Empty]
    /\ red' = {} /\ orderType' = Empty
    /\ status' = IF bus THEN "ping erfolgreich" ELSE "ping NICHT erfolgreich"
    /\ shown' = None /\ seen' = <<NotRead, NotRead>>
    /\ UNCHANGED <<databases, busy>>

\* getOrderType: shown only, there is nothing to compare it with.
OrderType(n) ==
    /\ busy = None
    /\ fieldSap' = [g \in Groups |-> Empty] /\ fieldFlash' = [g \in Groups |-> Empty]
    /\ red' = {} /\ status' = ""
    /\ orderType' = IF bus THEN SapText("mkt", n) ELSE Empty
    /\ shown' = None /\ seen' = <<NotRead, NotRead>>
    /\ UNCHANGED <<databases, busy>>

\* A row changes while the window runs; SAP becomes reachable or unreachable.
Change ==
    /\ changes < MaxChanges
    /\ changes' = changes + 1
    /\ \/ \E g \in Groups, n \in Values : sap' = [sap EXCEPT ![g] = n] /\ UNCHANGED <<flash, bus>>
       \/ \E g \in Groups, n \in Values : flash' = [flash EXCEPT ![g] = n] /\ UNCHANGED <<sap, bus>>
       \/ bus' = ~bus /\ UNCHANGED <<sap, flash>>
    /\ UNCHANGED <<window, busy, shown, seen>>

Next ==
    \/ \E g \in Groups : AskSap(g) \/ AskFlash(g)
    \/ PingTest
    \/ \E n \in Values : OrderType(n)
    \/ Change

Spec == Init /\ [][Next]_vars
-----------------------------------------------------------------------------
\* Type invariant of the window.
TypeOK ==
    /\ sap \in [Groups -> Values] /\ flash \in [Groups -> Values] /\ bus \in BOOLEAN
    /\ fieldSap \in [Groups -> Texts] /\ fieldFlash \in [Groups -> Texts]
    /\ red \subseteq Groups /\ orderType \in Texts
    /\ busy \in Groups \cup {None} /\ shown \in Groups \cup {None}
    /\ changes \in 0..MaxChanges

\* Did the latest query find both entries, with one value?
Agree == seen[1] = seen[2] /\ seen[1] \notin {0, NotRead}

\* After the slots getMKTTest and getOrderTypeNrTest the group is red exactly
\* when the rows they read differ or one of them is missing - also for the row
\* that SAP does not have, which SAPDBLib reports as a success.  After getOrderQty
\* the colour is no verdict: the group is red exactly when both databases were
\* asked and the flash database has an entry, although it says the same as SAP,
\* and a missing entry or an unreachable SAP looks like agreement.
ColourIsVerdict ==
    busy = None =>
        /\ shown \in {"mkt", "type"} => (shown \in red <=> ~Agree)
        /\ shown = "qty" => (shown \in red <=> seen[2] \notin {0, NotRead})

\* The window never shows values of two queries side by side: whatever is shown
\* or coloured belongs to the slot that ran last.
OneQueryShown ==
    /\ red \subseteq {shown}
    /\ \A g \in Groups \ {shown} : fieldSap[g] = Empty /\ fieldFlash[g] = Empty
=============================================================================
