----------------------------- MODULE ObjectTree -----------------------------
(***************************************************************************)
(* dbus/dbus-object-tree.c: the handlers of a connection by object path,   *)
(* a tree of sorted arrays of children, and the dispatch of a message to   *)
(* the handler of its path and to the fallbacks above it.  The lock of the *)
(* connection is dropped while a handler runs: the handler, or another     *)
(* thread, may then register and unregister paths.                         *)
(***************************************************************************)
EXTENDS Integers, Sequences, FiniteSets, SequencesExt

CONSTANTS
    Names,          \* subset of DOMAIN Spell: the path elements in use
    MaxDepth,       \* bound on the elements of a path
    MaxNodes,       \* bound on the subtrees allocated at a time
    MaxRegs,        \* bound on the registrations
    MaxDispatch,    \* bound on the messages dispatched
    MayFail         \* an allocation may fail

\* the characters of the path elements; strcmp orders them by character, a prefix first
Spell == [a |-> <<1>>, ab |-> <<1, 2>>, b |-> <<2>>]
Slash == 0
Elements == {Spell[n] : n \in Names}
Paths == UNION {[1 .. d -> Elements] : d \in 0 .. MaxDepth}

VARIABLES
    node,           \* the subtrees; node 1 is the root, refs 0 is free memory
    regs,           \* every registration: path, fallback, calls of its unregister function
    owed,           \* registrations taken from the tree whose unregister function has not run yet
    d,              \* the dispatch under way
    count,          \* messages dispatched
    failed,         \* an allocation failed in a registration
    alive           \* the connection has not been finalized
vars == <<node, regs, owed, d, count, failed, alive>>

Nil == 0
Root == 1
Free == [name |-> <<>>, parent |-> Nil, subtrees |-> <<>>, fn |-> Nil, invoke_as_fallback |-> FALSE, refs |-> 0]
Idle == [at |-> "idle", path |-> <<>>, list |-> <<>>, cur |-> Nil, called |-> <<>>, result |-> "none",
         found |-> FALSE, before |-> 0, kept |-> {}]

Init ==
    /\ node = [n \in 1 .. MaxNodes |-> IF n = Root THEN [Free EXCEPT !.refs = 1, !.invoke_as_fallback = TRUE] ELSE Free]
    /\ regs = <<>> /\ owed = {} /\ d = Idle /\ count = 0 /\ failed = FALSE /\ alive = TRUE

----------------------------------------------------------------------------
(* Paths as text: _dbus_decompose_path and flatten_path                    *)

RECURSIVE flatten(_)
flatten(p) == IF p = <<>> THEN <<>> ELSE <<Slash>> \o Head(p) \o flatten(Tail(p))
flatten_path(p) == IF p = <<>> THEN <<Slash>> ELSE flatten(p)

\* the first position from i on that is a slash or the end
ComponentEnd(text, i) == LET ends == {k \in i .. Len(text) : text[k] = Slash} IN
                         IF ends = {} THEN Len(text) + 1 ELSE CHOOSE k \in ends : \A l \in ends : k <= l

\* as many components as there are slashes, except in "/"
RECURSIVE Components(_, _, _)
Components(text, i, n) ==
    IF n = 0 THEN <<>>
    ELSE LET from == IF text[i] = Slash THEN i + 1 ELSE i
             to   == ComponentEnd(text, from) IN
         <<SubSeq(text, from, to - 1)>> \o Components(text, to, n - 1)

_dbus_decompose_path(text) ==
    Components(text, 1, IF Len(text) > 1 THEN Cardinality({k \in DOMAIN text : text[k] = Slash}) ELSE 0)

----------------------------------------------------------------------------
(* Searching                                                               *)

\* strcmp of two different elements
Before(x, y) == \/ IsStrictPrefix(x, y)
                \/ \E k \in 1 .. Len(x) : /\ k <= Len(y) /\ x[k] < y[k]
                                          /\ \A l \in 1 .. k - 1 : x[l] = y[l]

\* the binary search over the children from i up to but not j: a child, or the place for a new one
RECURSIVE Search(_, _, _, _, _)
Search(t, kids, name, i, j) ==
    IF i >= j THEN [found |-> FALSE, at |-> i]
    ELSE LET k == (i + j) \div 2
             c == t[kids[k + 1]].name IN
         IF c = name THEN [found |-> TRUE, at |-> k]
         ELSE IF Before(name, c) THEN Search(t, kids, name, i, k)
         ELSE Search(t, kids, name, k + 1, j)
Child(t, n, name) == Search(t, t[n].subtrees, name, 0, Len(t[n].subtrees))

\* when nothing below fits, the node itself if it is a fallback
OrFallback(t, n, next, deepest) ==
    IF next.n # Nil THEN next
    ELSE [n |-> IF deepest /\ t[n].invoke_as_fallback THEN n ELSE Nil, exact |-> FALSE]

RECURSIVE find_subtree_recurse(_, _, _, _)
find_subtree_recurse(t, n, p, deepest) ==
    IF p = <<>> THEN [n |-> n, exact |-> TRUE]
    ELSE LET s == Child(t, n, Head(p)) IN
         OrFallback(t, n, IF s.found THEN find_subtree_recurse(t, t[n].subtrees[s.at + 1], Tail(p), deepest)
                          ELSE [n |-> Nil, exact |-> FALSE], deepest)

lookup_subtree(t, p) == find_subtree_recurse(t, Root, p, FALSE).n
find_handler(t, p) == find_subtree_recurse(t, Root, p, TRUE)

get_user_data(t, p) == LET f == find_handler(t, p) IN IF f.n # Nil /\ f.exact THEN t[f.n].fn ELSE Nil

\* _dbus_object_tree_list_registered: the names of the children
list_registered(t, p) ==
    LET n == lookup_subtree(t, p) IN
    IF n = Nil THEN <<>> ELSE [i \in DOMAIN t[n].subtrees |-> t[t[n].subtrees[i]].name]

----------------------------------------------------------------------------
(* Registering                                                             *)

FreeNodes(t) == {n \in DOMAIN t : t[n].refs = 0}
Smallest(S) == CHOOSE n \in S : \A m \in S : n <= m

\* the children from the place on move up by one
InsertChild(kids, at, c) == SubSeq(kids, 1, at) \o <<c>> \o SubSeq(kids, at + 1, Len(kids))

\* find_subtree_recurse creating what is missing, with memory for only so many subtrees
RECURSIVE ensure_subtree(_, _, _, _)
ensure_subtree(t, n, p, room) ==
    IF p = <<>> THEN [t |-> t, n |-> n]
    ELSE LET s == Child(t, n, Head(p)) IN
         IF s.found THEN ensure_subtree(t, t[n].subtrees[s.at + 1], Tail(p), room)
         ELSE IF room = 0 THEN [t |-> t, n |-> Nil]
         ELSE LET c  == Smallest(FreeNodes(t))
                  t2 == [t EXCEPT ![c] = [Free EXCEPT !.name = Head(p), !.parent = n, !.refs = 1],
                                  ![n].subtrees = InsertChild(@, s.at, c)] IN
              ensure_subtree(t2, c, Tail(p), room - 1)

Missing(t, p) == Len(p) - (CHOOSE k \in 0 .. Len(p) : /\ lookup_subtree(t, SubSeq(p, 1, k)) # Nil
                                                      /\ k < Len(p) => lookup_subtree(t, SubSeq(p, 1, k + 1)) = Nil)

\* _dbus_object_tree_register; what was created stays when memory runs out half way
Register(path, fallback, room) ==
    /\ alive /\ Len(regs) < MaxRegs
    /\ LET p == _dbus_decompose_path(flatten_path(path))
           e == ensure_subtree(node, Root, p, room) IN
       /\ room <= Missing(node, p) /\ (~MayFail => room = Missing(node, p))
       /\ room <= Cardinality(FreeNodes(node))
       /\ IF e.n = Nil THEN node' = e.t /\ failed' = TRUE /\ UNCHANGED regs
          ELSE /\ node[e.n].fn = Nil
               /\ regs' = Append(regs, [path |-> path, fallback |-> fallback, calls |-> 0])
               /\ node' = [e.t EXCEPT ![e.n].fn = Len(regs'), ![e.n].invoke_as_fallback = fallback]
               /\ UNCHANGED failed
    /\ UNCHANGED <<owed, d, count, alive>>

----------------------------------------------------------------------------
(* Unregistering                                                           *)

\* _dbus_object_subtree_unref
subtree_unref(t, n) == IF t[n].refs = 1 THEN [t EXCEPT ![n] = Free] ELSE [t EXCEPT ![n].refs = @ - 1]

Removable(c) == c.subtrees = <<>> /\ c.fn = Nil

\* attempt_child_removal
attempt_child_removal(t, n, at) ==
    LET c == t[n].subtrees[at + 1] IN
    IF Removable(t[c])
      THEN [t |-> subtree_unref([t EXCEPT ![n].subtrees = RemoveAt(@, at + 1), ![c].parent = Nil], c), removed |-> TRUE]
      ELSE [t |-> t, removed |-> FALSE]

\* the registration taken out, and whether the levels above go on removing
RECURSIVE unregister_and_free_path_recurse(_, _, _)
unregister_and_free_path_recurse(t, n, p) ==
    IF p = <<>> THEN [t |-> [t EXCEPT ![n].fn = Nil], reg |-> t[n].fn, go |-> t[n].fn # Nil]
    ELSE LET s == Child(t, n, Head(p)) IN
         IF ~s.found THEN [t |-> t, reg |-> Nil, go |-> FALSE]
         ELSE LET r == unregister_and_free_path_recurse(t, t[n].subtrees[s.at + 1], Tail(p)) IN
              IF ~r.go THEN r
              ELSE LET a == attempt_child_removal(r.t, n, s.at) IN [t |-> a.t, reg |-> r.reg, go |-> a.removed]

\* unregister_and_unlock: the function of the application runs after the lock is dropped
Unregister(path) ==
    /\ alive
    /\ LET r == unregister_and_free_path_recurse(node, Root, _dbus_decompose_path(flatten_path(path))) IN
       /\ r.reg # Nil
       /\ node' = r.t
       /\ owed' = owed \cup {r.reg}
       /\ d' = [d EXCEPT !.kept = @ \ {r.reg}]
    /\ UNCHANGED <<regs, count, failed, alive>>

UnregisterFunction(r) ==
    /\ r \in owed
    /\ owed' = owed \ {r}
    /\ regs' = [regs EXCEPT ![r].calls = @ + 1]
    /\ UNCHANGED <<node, d, count, failed, alive>>

Attached(t) == {t[n].fn : n \in {m \in DOMAIN t : t[m].fn # Nil}}

\* free_subtree_recurse: the unregister functions it calls, children before their parent
free_subtree_recurse(t) == Attached(t)

\* the last reference to the connection is dropped: no dispatch and no unregistering is under way
Finalize ==
    /\ alive /\ d.at = "idle" /\ owed = {}
    /\ alive' = FALSE
    /\ regs' = [r \in DOMAIN regs |-> IF r \in free_subtree_recurse(node) THEN [regs[r] EXCEPT !.calls = @ + 1] ELSE regs[r]]
    /\ node' = [n \in DOMAIN node |-> Free]
    /\ UNCHANGED <<owed, d, count, failed>>

----------------------------------------------------------------------------
(* Dispatching                                                             *)

AddToList(l, n) == Append(l, n)

\* the handlers from the node found up to the root, each with a reference
RECURSIVE Collect(_, _, _, _)
Collect(t, n, exact, l) ==
    IF n = Nil THEN l
    ELSE Collect(t, t[n].parent, FALSE,
                 IF t[n].fn # Nil /\ (exact \/ t[n].invoke_as_fallback) THEN AddToList(l, [n |-> n, fn |-> t[n].fn]) ELSE l)

Live(r) == r \notin owed /\ regs[r].calls = 0
Fits(r, p) == regs[r].path = p \/ (regs[r].fallback /\ IsPrefix(regs[r].path, p))

DispatchBegin(p) ==
    /\ alive /\ d.at = "idle" /\ count < MaxDispatch
    /\ count' = count + 1
    /\ LET f == find_handler(node, p)
           l == Collect(node, f.n, f.exact, <<>>) IN
       /\ d' = [Idle EXCEPT !.at = "next", !.path = p, !.list = l, !.found = (f.n # Nil), !.before = Len(regs),
                            !.kept = {r \in DOMAIN regs : Live(r) /\ Fits(r, p)}]
       /\ node' = [n \in DOMAIN node |-> [node[n] EXCEPT !.refs = @ + Cardinality({i \in DOMAIN l : l[i].n = n})]]
    /\ UNCHANGED <<regs, owed, failed, alive>>

\* the list could not be built: the references are given back and the message is tried again
DispatchNoMemory(p) ==
    /\ alive /\ d.at = "idle" /\ MayFail /\ count < MaxDispatch
    /\ Collect(node, find_handler(node, p).n, find_handler(node, p).exact, <<>>) # <<>>
    /\ count' = count + 1
    /\ d' = [Idle EXCEPT !.path = p, !.result = "need memory"]
    /\ UNCHANGED <<node, regs, owed, failed, alive>>

\* the handler of the node as it is now
HandlerNow(e) == node[e.n].fn

\* how many entries have been passed: those whose handler has gone are skipped
DispatchNext ==
    /\ d.at = "next"
    /\ LET rest == {i \in DOMAIN d.list : i > d.cur /\ HandlerNow(d.list[i]) # Nil} IN
       IF rest = {} THEN d' = [d EXCEPT !.at = "introspect"]
       ELSE d' = [d EXCEPT !.at = "call", !.cur = Smallest(rest), !.called = Append(@, HandlerNow(d.list[Smallest(rest)]))]
    /\ UNCHANGED <<node, regs, owed, count, failed, alive>>

\* the handler, called without the lock, returns; the lock is taken again
HandlerReturns(result) ==
    /\ d.at = "call"
    /\ d' = IF result = "not yet" THEN [d EXCEPT !.at = "next"] ELSE [d EXCEPT !.at = "free", !.result = result]
    /\ UNCHANGED <<node, regs, owed, count, failed, alive>>

\* handle_default_introspect_and_unlock answers a call of Introspect and nothing else
DefaultIntrospect(result) ==
    /\ d.at = "introspect"
    /\ d' = [d EXCEPT !.at = "free", !.result = result]
    /\ UNCHANGED <<node, regs, owed, count, failed, alive>>

ReleaseAll(t, l) == FoldLeft(LAMBDA acc, e : subtree_unref(acc, e.n), t, l)

DispatchEnd ==
    /\ d.at = "free"
    /\ node' = ReleaseAll(node, d.list)
    /\ d' = Idle
    /\ UNCHANGED <<regs, owed, count, failed, alive>>

Results == {"handled", "not yet", "need memory"}

Next ==
    \/ \E p \in Paths, f \in BOOLEAN, room \in 0 .. MaxDepth : Register(p, f, room)
    \/ \E p \in Paths : Unregister(p) \/ DispatchBegin(p) \/ DispatchNoMemory(p)
    \/ \E r \in owed : UnregisterFunction(r)
    \/ Finalize
    \/ DispatchNext
    \/ \E x \in Results : HandlerReturns(x) \/ DefaultIntrospect(x)
    \/ DispatchEnd
Spec == Init /\ [][Next]_vars

----------------------------------------------------------------------------

InTree(n) == n = Root \/ node[n].parent # Nil

\* The children of a node are in the order of strcmp and point back to it, and a node is held once by
\* the tree and once by each entry of a dispatch, so no memory in use is freed and none is kept.
TreeShape ==
    /\ alive => \A n \in DOMAIN node :
        /\ \A i \in DOMAIN node[n].subtrees : /\ node[node[n].subtrees[i]].parent = n
                                              /\ i > 1 => Before(node[node[n].subtrees[i - 1]].name, node[node[n].subtrees[i]].name)
        /\ node[n].refs = (IF InTree(n) THEN 1 ELSE 0) + Cardinality({i \in DOMAIN d.list : d.list[i].n = n})

\* Whatever was registered and unregistered before, the binary search finds the handler of every path:
\* dbus_connection_get_object_path_data gives the data of the live registration of exactly that path.
DataOfPath ==
    alive => \A p \in Paths : LET here == {r \in DOMAIN regs : Live(r) /\ regs[r].path = p} IN
                              get_user_data(node, p) = IF here = {} THEN Nil ELSE CHOOSE r \in here : TRUE

\* Unregistering a path takes away the nodes nobody needs and no others: the children of a path, which
\* introspection shows, are the next elements of the registered paths below it.
ListedAreRegistered ==
    (alive /\ ~failed) => \A p \in Paths :
        Range(list_registered(node, p)) =
            {regs[r].path[Len(p) + 1] : r \in {q \in DOMAIN regs : Live(q) /\ IsStrictPrefix(p, regs[q].path)}}

\* The unregister function of a registration is called exactly once, after it has left the tree, also
\* when the connection is finalized with handlers still registered.
UnregisteredOnce ==
    \A r \in DOMAIN regs : /\ regs[r].calls <= 1
                           /\ r \in Attached(node) => r \notin owed /\ regs[r].calls = 0
                           /\ ~alive => regs[r].calls = 1

\* A message goes to the handler of its path first and then to the fallbacks outwards.
InnermostFirst ==
    \A i \in DOMAIN d.called : /\ IsPrefix(regs[d.called[i]].path, d.path)
                               /\ i > 1 => Len(regs[d.called[i]].path) < Len(regs[d.called[i - 1]].path)

\* A handler that an earlier handler, or another thread, has unregistered is not called any more: the
\* lock is held from the look at the handler to the decision to call it.
CalledAreLive == Len(d'.called) > Len(d.called) => Live(Last(d'.called))

\* When nobody took the message, every handler that fitted it and stayed registered was asked.
NobodySkipped == d.at = "introspect" => d.kept \subseteq Range(d.called)
=============================================================================
