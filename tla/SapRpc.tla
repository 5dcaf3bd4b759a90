------------------------------- MODULE SapRpc -------------------------------
(***************************************************************************)
(* What SAPDBLib promises its callers: a remote read of one row of SAP.    *)
(*                                                                         *)
(* A call is refused at once, or blocks; a blocked call succeeds with a    *)
(* value that its row had at some moment since the call, or fails, or ends *)
(* with its process.  Rows are represented by version numbers.             *)
(***************************************************************************)
EXTENDS Naturals

CONSTANTS Clients, Methods, Args, Empty

VARIABLES
    pc,      \* [Clients]: "idle" or "waiting"
    cur,     \* [Clients]: method and argument of the latest call
    start,   \* [Clients]: version of its row when the call was made
    ret,     \* [Clients]: "none", "true" or "false"
    val,     \* [Clients]: the version handed out, 0 if there is none
    sap      \* [Args]: version of the row

vars == <<pc, cur, start, ret, val, sap>>

Init ==
    /\ pc = [c \in Clients |-> "idle"]
    /\ cur = [c \in Clients |-> [method |-> "ping", arg |-> Empty]]
    /\ start = [c \in Clients |-> 0]
    /\ ret = [c \in Clients |-> "none"]
    /\ val = [c \in Clients |-> 0]
    /\ sap = [a \in Args |-> 0]

\* A call begins; r is "none" if it blocks and "false" if it is refused.
Begin(c, m, a, p, r) ==
    /\ pc[c] = "idle"
    /\ pc' = [pc EXCEPT ![c] = p]
    /\ cur' = [cur EXCEPT ![c] = [method |-> m, arg |-> a]]
    /\ start' = [start EXCEPT ![c] = sap[a]]
    /\ ret' = [ret EXCEPT ![c] = r]
    /\ val' = [val EXCEPT ![c] = 0]
    /\ UNCHANGED sap

Request(c, m, a) == Begin(c, m, a, "waiting", "none")
Refuse(c, m, a) == Begin(c, m, a, "idle", "false")

\* The call returns true.  A ping reads no row.
Succeed(c) ==
    /\ pc[c] = "waiting"
    /\ pc' = [pc EXCEPT ![c] = "idle"]
    /\ ret' = [ret EXCEPT ![c] = "true"]
    /\ val'[c] \in Nat
    /\ val' = [val EXCEPT ![c] = val'[c]]
    /\ cur[c].method # "ping" => start[c] <= val'[c] /\ val'[c] <= sap[cur[c].arg]
    /\ UNCHANGED <<cur, start, sap>>

\* The call returns false and hands nothing out.
Fail(c) ==
    /\ pc[c] = "waiting"
    /\ pc' = [pc EXCEPT ![c] = "idle"]
    /\ ret' = [ret EXCEPT ![c] = "false"]
    /\ UNCHANGED <<cur, start, val, sap>>

\* The caller's process ends.
Abort(c) ==
    /\ pc[c] = "waiting"
    /\ pc' = [pc EXCEPT ![c] = "idle"]
    /\ UNCHANGED <<cur, start, ret, val, sap>>

Change(a) ==
    /\ sap' = [sap EXCEPT ![a] = @ + 1]
    /\ UNCHANGED <<pc, cur, start, ret, val>>

Next ==
    \/ \E c \in Clients : \/ \E m \in Methods, a \in Args : Request(c, m, a) \/ Refuse(c, m, a)
                          \/ Succeed(c) \/ Fail(c) \/ Abort(c)
    \/ \E a \in Args : Change(a)

Spec == Init /\ [][Next]_vars

\* Every blocked call ends.
EveryCallEnds == \A c \in Clients : pc[c] = "waiting" ~> pc[c] = "idle"
============================================================================
