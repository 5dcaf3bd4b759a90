-------------------- MODULE Containers --------------------
(***************************************************************************)
(* The containers of libdbus: lists, hash tables, memory pools and data    *)
(* slots.  They share no state; each part has an Init and a Next of its own.*)
(***************************************************************************)
EXTENDS Integers, Sequences, FiniteSets, SequencesExt

-----------------------------------------------------------------------------
(***************************************************************************)
(* dbus/dbus-list.c: a circular doubly linked list with a pointer to its   *)
(* first link, and a walk over it that allows the link it stands on to be  *)
(* removed.  "seq" is the list as its users see it.                        *)
(***************************************************************************)

CONSTANTS
    Links,          \* the links that can be allocated, numbers
    Data,           \* what the links carry
    MaxOps          \* bound on the operations

Null == 0

VARIABLES
    head,           \* *list
    prev, next, list_data, \* of every link
    seq,            \* the links in order, as the operations are documented
    used,           \* links allocated
    walk,           \* links a walk with a saved next link has visited, and that next link
    ops
listVars == <<head, prev, next, list_data, seq, used, walk, ops>>

NoWalk == [on |-> FALSE, seen |-> <<>>, next |-> Null, expect |-> <<>>]
ListInit ==
    /\ head = Null /\ prev = [l \in Links |-> Null] /\ next = [l \in Links |-> Null]
    /\ list_data = [l \in Links |-> Null] /\ seq = <<>> /\ used = {} /\ walk = NoWalk /\ ops = 0

Tick == ops < MaxOps /\ ops' = ops + 1

\* _dbus_list_get_next_link
get_next_link(h, n, l) == IF n[l] = h THEN Null ELSE n[l]

HeadBefore(h, b, l) == IF b = h THEN l ELSE h

\* link_before and link_after as the new values of head, next and prev
link_before(h, n, p, b, l) ==
    IF h = Null THEN [head |-> l, next |-> [n EXCEPT ![l] = l], prev |-> [p EXCEPT ![l] = l]]
    ELSE LET n1 == [n EXCEPT ![l] = b]
             p1 == [p EXCEPT ![l] = p[b]]
             p2 == [p1 EXCEPT ![b] = l] IN
         [head |-> HeadBefore(h, b, l), next |-> [n1 EXCEPT ![p2[l]] = l], prev |-> p2]

link_after(h, n, p, a, l) ==
    IF h = Null THEN [head |-> l, next |-> [n EXCEPT ![l] = l], prev |-> [p EXCEPT ![l] = l]]
    ELSE LET n1 == [n EXCEPT ![l] = n[a]]
             n2 == [n1 EXCEPT ![a] = l] IN
         [head |-> h, next |-> n2, prev |-> [p EXCEPT ![l] = a, ![n1[l]] = l]]

Set(r) == head' = r.head /\ next' = r.next /\ prev' = r.prev
Take(l, x) == l \notin used /\ used' = used \cup {l} /\ list_data' = [list_data EXCEPT ![l] = x]

Prepend(l, x) ==
    /\ Tick /\ ~walk.on /\ Take(l, x)
    /\ Set(link_before(head, next, prev, head, l))
    /\ seq' = <<l>> \o seq
    /\ UNCHANGED walk

\* append is a prepend after which the next link is the first
Turn(r) == [r EXCEPT !.head = r.next[r.head]]

Append1(l, x) ==
    /\ Tick /\ ~walk.on /\ Take(l, x)
    /\ Set(Turn(link_before(head, next, prev, head, l)))
    /\ seq' = Append(seq, l)
    /\ UNCHANGED walk

IndexOf(l) == CHOOSE i \in DOMAIN seq : seq[i] = l

\* _dbus_list_insert_after; after nothing is at the start
InsertAfter(a, l, x) ==
    /\ Tick /\ ~walk.on /\ Take(l, x)
    /\ a \in Range(seq)
    /\ Set(link_after(head, next, prev, a, l))
    /\ seq' = InsertAt(seq, IndexOf(a) + 1, l)
    /\ UNCHANGED walk

\* _dbus_list_insert_before_link
InsertBefore(b, l, x) ==
    /\ Tick /\ ~walk.on /\ Take(l, x)
    /\ b \in Range(seq)
    /\ Set(link_before(head, next, prev, b, l))
    /\ seq' = InsertAt(seq, IndexOf(b), l)
    /\ UNCHANGED walk

HeadWithout(h, n, l) == IF h = l THEN n[l] ELSE h

_dbus_list_unlink(h, n, p, l) ==
    LET gone == [next |-> [n EXCEPT ![l] = Null], prev |-> [p EXCEPT ![l] = Null]] IN
    IF n[l] = l THEN [head |-> Null, next |-> gone.next, prev |-> gone.prev]
    ELSE LET n1 == [n EXCEPT ![p[l]] = n[l]]
             p1 == [p EXCEPT ![n1[l]] = p[l]] IN
         [head |-> HeadWithout(h, n1, l), next |-> [n1 EXCEPT ![l] = Null], prev |-> [p1 EXCEPT ![l] = Null]]

\* remove_link: the walk may stand on the link, and has its next one already
RemoveLink(l) ==
    /\ Set(_dbus_list_unlink(head, next, prev, l))
    /\ seq' = SelectSeq(seq, LAMBDA x : x # l)
    /\ used' = used \ {l}
    /\ UNCHANGED list_data

\* _dbus_list_remove: the first link with the data, found along the pointers
First(x) == CHOOSE l \in used : /\ list_data[l] = x
                                /\ \A i \in 1 .. IndexOf(l) - 1 : list_data[seq[i]] # x
ListRemove1(x) ==
    /\ Tick /\ ~walk.on /\ \E l \in Range(seq) : list_data[l] = x
    /\ RemoveLink(First(x))
    /\ UNCHANGED walk

\* _dbus_list_pop_first and _dbus_list_pop_last
PopFirst == Tick /\ ~walk.on /\ head # Null /\ RemoveLink(head) /\ UNCHANGED walk
PopLast == Tick /\ ~walk.on /\ head # Null /\ RemoveLink(prev[head]) /\ UNCHANGED walk

\* _dbus_list_clear
Clear ==
    /\ Tick /\ ~walk.on /\ head # Null
    /\ head' = Null /\ seq' = <<>> /\ used' = used \ Range(seq)
    /\ UNCHANGED <<prev, next, list_data, walk>>

\* a walk: the next link is read before the current one is worked on, and perhaps removed
WalkStart ==
    /\ ~walk.on /\ head # Null /\ Tick
    /\ walk' = [on |-> TRUE, seen |-> <<>>, next |-> head, expect |-> seq]
    /\ UNCHANGED <<head, prev, next, list_data, seq, used>>

SavedNext(l) == get_next_link(head, next, l)

WalkStep(remove) ==
    /\ walk.on /\ walk.next # Null
    /\ IF remove THEN RemoveLink(walk.next) ELSE UNCHANGED <<head, prev, next, list_data, seq, used>>
    /\ walk' = [walk EXCEPT !.seen = Append(@, walk.next), !.next = SavedNext(walk.next)]
    /\ UNCHANGED ops
WalkEnd ==
    /\ walk.on /\ walk.next = Null
    /\ walk' = NoWalk
    /\ UNCHANGED <<head, prev, next, list_data, seq, used, ops>>

ListNext ==
    \/ \E l \in Links, x \in Data : \/ Prepend(l, x) \/ Append1(l, x)
                                    \/ \E o \in used : InsertAfter(o, l, x) \/ InsertBefore(o, l, x)
    \/ \E x \in Data : ListRemove1(x)
    \/ PopFirst \/ PopLast \/ Clear
    \/ WalkStart \/ WalkEnd
    \/ \E r \in BOOLEAN : WalkStep(r)
ListSpec == ListInit /\ [][ListNext]_listVars

----------------------------------------------------------------------------

\* After every sequence of operations the pointers, followed forwards from the first link and
\* backwards from the last, give exactly the list the operations promise.
PointersAreTheList ==
    IF seq = <<>> THEN head = Null
    ELSE /\ head = seq[1]
         /\ \A i \in DOMAIN seq : /\ next[seq[i]] = (IF i = Len(seq) THEN head ELSE seq[i + 1])
                                  /\ prev[seq[i]] = (IF i = 1 THEN seq[Len(seq)] ELSE seq[i - 1])

\* A walk visits every link that was there once and in order, also when it removes some of them.
WalkVisitsAll == (walk.on /\ walk.next = Null) => walk.seen = walk.expect

-----------------------------------------------------------------------------
(***************************************************************************)
(* dbus/dbus-hash.c: a chained hash table that is rebuilt, four times as   *)
(* large or as small, when an entry is added; a table of keys with copies  *)
(* (strings) that it frees, entries that are allocated beforehand, and     *)
(* iterators.  A number stands for the hash of a key; an entry is known by *)
(* the key it holds.                                                       *)
(***************************************************************************)

CONSTANTS
    Keys,           \* what keys say, numbers
    Copies,         \* two keys that say the same are different memory
    Values,         \* for each key, positive numbers; 0 is NULL
    SMALL,          \* DBUS_SMALL_HASH_TABLE
    MULTIPLIER,     \* REBUILD_MULTIPLIER
    HashMayFail,        \* dbus_new0 may fail to allocate the buckets
    Lookups         \* whether the iterators of _dbus_hash_iter_lookup are used

NULL == 0
NoIter == [on |-> FALSE, entry |-> NULL, left |-> <<>>, next_bucket |-> 0, stale |-> FALSE, seen |-> <<>>, expect |-> {}]

VARIABLES
    buckets,        \* chains of [key, copy, value]
    n_entries, hi_rebuild_size, lo_rebuild_size,
    elements,       \* elements of the pool in use
    preallocated,   \* entries allocated beforehand
    iter,           \* entry is the key of the current one, left the chain after it
    owned,          \* keys and values the table was given and has not freed
    hash_badFree,        \* something was freed that the table does not own
    ref             \* the map from keys to values the callers believe in
table == <<buckets, n_entries, hi_rebuild_size, lo_rebuild_size>>
hashVars == <<table, elements, preallocated, iter, owned, hash_badFree, ref>>

KeyMem(k, c) == <<"key", k, c>>
ValueMem(k, v) == <<"value", k, v>>

HashInit ==
    /\ buckets = [i \in 1 .. SMALL |-> <<>>] /\ n_entries = 0
    /\ hi_rebuild_size = SMALL * MULTIPLIER /\ lo_rebuild_size = 0
    /\ elements = 0 /\ preallocated = 0 /\ iter = NoIter /\ owned = {} /\ hash_badFree = FALSE
    /\ ref = [k \in Keys |-> NULL]

Index(k, n) == (k % n) + 1
Chain(b, k) == b[Index(k, Len(b))]
Has(b, k) == \E i \in DOMAIN Chain(b, k) : Chain(b, k)[i].key = k
PlaceOf(b, k) == CHOOSE i \in DOMAIN Chain(b, k) : Chain(b, k)[i].key = k
EntryOf(b, k) == Chain(b, k)[PlaceOf(b, k)]
AllEntries(b) == UNION {ToSet(b[i]) : i \in DOMAIN b}

\* Faulty variant: the chains keep the place they had in the smaller table.
RehashNot(b, n) == [i \in 1 .. n |-> IF i <= Len(b) THEN b[i] ELSE <<>>]

\* every entry, from the first bucket to the last, is put at the front of its new chain
Rehash(b, n) ==
    LET order == FoldLeft(LAMBDA acc, c : acc \o c, <<>>, b) IN
    [i \in 1 .. n |-> Reverse(SelectSeq(order, LAMBDA e : Index(e.key, n) = i))]

Limits(growing, hi, lo) == IF growing THEN [hi |-> hi * 4, lo |-> hi] ELSE [hi |-> lo, lo |-> lo \div 4]

\* rebuild_table on the buckets b with n entries; nothing happens when there is no memory
rebuild_table(b, n, ok) ==
    LET growing == n >= hi_rebuild_size
        size == IF growing THEN Len(b) * 4 ELSE Len(b) \div 4
        limits == Limits(growing, hi_rebuild_size, lo_rebuild_size) IN
    IF size < SMALL \/ ~ok THEN [b |-> b, hi |-> hi_rebuild_size, lo |-> lo_rebuild_size]
    ELSE [b |-> Rehash(b, size), hi |-> limits.hi, lo |-> limits.lo]

MustRebuild(n) == n >= hi_rebuild_size \/ n < lo_rebuild_size

\* add_allocated_entry: at the front of its chain, then perhaps a rebuild
AddEntry(e, ok) ==
    LET added == [buckets EXCEPT ![Index(e.key, Len(buckets))] = <<e>> \o @]
        new == IF MustRebuild(n_entries + 1) THEN rebuild_table(added, n_entries + 1, ok)
               ELSE [b |-> added, hi |-> hi_rebuild_size, lo |-> lo_rebuild_size] IN
    /\ ok \/ (HashMayFail /\ MustRebuild(n_entries + 1))
    /\ buckets' = new.b /\ hi_rebuild_size' = new.hi /\ lo_rebuild_size' = new.lo
    /\ n_entries' = n_entries + 1

Replace(e) ==
    /\ buckets' = [buckets EXCEPT ![Index(e.key, Len(buckets))][PlaceOf(buckets, e.key)] = e]
    /\ UNCHANGED <<n_entries, hi_rebuild_size, lo_rebuild_size>>

\* the table takes "given" and calls the free functions on "freed"
Memory(given, freed) ==
    /\ hash_badFree' = (hash_badFree \/ ~(freed \subseteq owned \cup given))
    /\ owned' = (owned \cup given) \ freed

\* the key and the value that are replaced, unless they are the very same memory
FreedByInsert(e, c, v) == (IF e.copy # c THEN {KeyMem(e.key, e.copy)} ELSE {})
                          \cup (IF e.value \notin {v, NULL} THEN {ValueMem(e.key, e.value)} ELSE {})

Unused(k, c, v) == KeyMem(k, c) \notin owned /\ ValueMem(k, v) \notin owned

\* _dbus_hash_table_insert_string_preallocated, which the other inserts share after they have an entry;
\* an entry allocated beforehand that is not needed goes back to the pool.
\* A caller hands in fresh memory, or the key or the value that is there already.
InsertWith(k, c, v, ok) ==
    /\ ~iter.on
    /\ IF Has(buckets, k)
       THEN LET old == EntryOf(buckets, k) IN
            /\ ok
            /\ KeyMem(k, c) \in owned => old.copy = c
            /\ ValueMem(k, v) \in owned => old.value = v
            /\ Replace([key |-> k, copy |-> c, value |-> v])
            /\ Memory({KeyMem(k, c), ValueMem(k, v)}, FreedByInsert(old, c, v))
       ELSE /\ Unused(k, c, v)
            /\ AddEntry([key |-> k, copy |-> c, value |-> v], ok)
            /\ Memory({KeyMem(k, c), ValueMem(k, v)}, {})
    /\ ref' = [ref EXCEPT ![k] = v]
    /\ UNCHANGED iter

PoolAfterInsert(was, n) == IF was THEN n - 1 ELSE n

Insert(k, c, v, ok) ==
    /\ InsertWith(k, c, v, ok)
    /\ elements' = PoolAfterInsert(Has(buckets, k), elements + 1)
    /\ UNCHANGED preallocated

Preallocate ==
    /\ preallocated = 0 /\ ~iter.on
    /\ preallocated' = 1 /\ elements' = elements + 1
    /\ UNCHANGED <<table, iter, owned, hash_badFree, ref>>
InsertPreallocated(k, c, v, ok) ==
    /\ preallocated = 1 /\ InsertWith(k, c, v, ok)
    /\ preallocated' = 0 /\ elements' = PoolAfterInsert(Has(buckets, k), elements)
FreePreallocated ==
    /\ preallocated = 1 /\ ~iter.on
    /\ preallocated' = 0 /\ elements' = elements - 1
    /\ UNCHANGED <<table, iter, owned, hash_badFree, ref>>

\* remove_entry, with free_entry
RemoveEntry(k) ==
    LET e == EntryOf(buckets, k) IN
    /\ buckets' = [buckets EXCEPT ![Index(k, Len(buckets))] = SelectSeq(@, LAMBDA x : x # e)]
    /\ n_entries' = n_entries - 1 /\ elements' = elements - 1
    /\ Memory({}, {KeyMem(k, e.copy)} \cup (IF e.value = NULL THEN {} ELSE {ValueMem(e.key, e.value)}))
    /\ ref' = [ref EXCEPT ![k] = NULL]
    /\ UNCHANGED <<hi_rebuild_size, lo_rebuild_size, preallocated>>

HashRemove1(k) == ~iter.on /\ Has(buckets, k) /\ RemoveEntry(k) /\ UNCHANGED iter

\* _dbus_hash_iter_init
IterInit ==
    /\ ~iter.on
    /\ iter' = [NoIter EXCEPT !.on = TRUE, !.expect = {e.key : e \in AllEntries(buckets)}]
    /\ UNCHANGED <<table, elements, preallocated, owned, hash_badFree, ref>>

\* the first bucket after number n that is not empty
NextFilled(n) == SelectInSubSeq(buckets, n + 1, Len(buckets), LAMBDA c : c # <<>>)

RestOfChain(c) == Tail(c)

\* _dbus_hash_iter_next: the entry after the current one is remembered before the caller works on it
IterNext ==
    /\ iter.on /\ ~iter.stale
    /\ LET b == IF iter.left # <<>> THEN iter.next_bucket ELSE NextFilled(iter.next_bucket)
           c == IF iter.left # <<>> THEN iter.left ELSE buckets[b] IN
       IF b = 0 /\ iter.left = <<>>
       THEN iter' = NoIter
       ELSE iter' = [iter EXCEPT !.entry = c[1].key, !.left = RestOfChain(c), !.next_bucket = b, !.seen = Append(@, c[1].key)]
    /\ UNCHANGED <<table, elements, preallocated, owned, hash_badFree, ref>>
IterRemove ==
    /\ iter.on /\ iter.entry # NULL /\ ~iter.stale
    /\ RemoveEntry(iter.entry)
    /\ iter' = [iter EXCEPT !.entry = NULL]
IterSet(v) ==
    /\ iter.on /\ iter.entry # NULL
    /\ LET e == EntryOf(buckets, iter.entry) IN
       /\ ValueMem(iter.entry, v) \in owned => e.value = v
       /\ Replace([e EXCEPT !.value = v])
       /\ Memory({ValueMem(iter.entry, v)}, IF e.value \in {v, NULL} THEN {} ELSE {ValueMem(e.key, e.value)})
       /\ ref' = [ref EXCEPT ![iter.entry] = v]
    /\ UNCHANGED <<elements, preallocated, iter>>

\* _dbus_hash_iter_lookup; the bucket is remembered before the table is rebuilt
IterLookup(k, c, v, ok) ==
    /\ Lookups /\ ~iter.on
    /\ IF Has(buckets, k)
       THEN /\ ok
            /\ iter' = [NoIter EXCEPT !.on = TRUE, !.entry = k]
            /\ UNCHANGED <<table, elements, owned, hash_badFree, ref>>
       ELSE /\ Unused(k, c, v)
            /\ AddEntry([key |-> k, copy |-> c, value |-> NULL], ok)
            /\ elements' = elements + 1
            /\ Memory({KeyMem(k, c)}, {})
            /\ iter' = [NoIter EXCEPT !.on = TRUE, !.entry = k, !.stale = Len(buckets') # Len(buckets)]
            /\ UNCHANGED ref
    /\ UNCHANGED preallocated
IterForget == Lookups /\ iter.on /\ iter' = NoIter /\ UNCHANGED <<table, elements, preallocated, owned, hash_badFree, ref>>

HashNext ==
    \/ Preallocate \/ FreePreallocated \/ IterInit \/ IterNext \/ IterRemove \/ IterForget
    \/ \E k \in Keys : HashRemove1(k)
    \/ \E v \in Values : IterSet(v)
    \/ \E k \in Keys, c \in Copies, v \in Values, ok \in BOOLEAN :
          Insert(k, c, v, ok) \/ InsertPreallocated(k, c, v, ok) \/ IterLookup(k, c, v, ok)
HashSpec == HashInit /\ [][HashNext]_hashVars

----------------------------------------------------------------------------

\* However the table was rebuilt, and whether or not there was memory for it, a lookup finds exactly what
\* was inserted last under the key and not removed since.
LookupRight == \A k \in Keys : ref[k] = (IF Has(buckets, k) THEN EntryOf(buckets, k).value ELSE NULL)

\* Keys and values are freed exactly once, when their entry goes or is replaced, and the pool's elements
\* are the entries of the table and those allocated beforehand.
FreedOnce == /\ ~hash_badFree
             /\ owned = UNION {{KeyMem(e.key, e.copy)} \cup (IF e.value = NULL THEN {} ELSE {ValueMem(e.key, e.value)})
                               : e \in AllEntries(buckets)}
             /\ elements = n_entries + preallocated /\ n_entries = Cardinality(AllEntries(buckets))

\* An iteration visits every entry once, also when it removes some as it goes.
IterationComplete ==
    (iter.on /\ ~iter.stale /\ iter.expect # {} /\ iter.left = <<>> /\ NextFilled(iter.next_bucket) = 0)
       => (ToSet(iter.seen) = iter.expect /\ Len(iter.seen) = Cardinality(iter.expect))

\* As long as there is memory the chains stay short: the entries per bucket never reach the multiplier, and a
\* table that can shrink keeps the limit it shrinks at below the one it grows at.
ChainsStayShort == /\ ~HashMayFail => n_entries < Len(buckets) * MULTIPLIER
                   /\ lo_rebuild_size < hi_rebuild_size

-----------------------------------------------------------------------------
(***************************************************************************)
(* dbus/dbus-mempool.c: elements of one size cut from blocks that double   *)
(* in size; freed elements are used again before a block is cut further.   *)
(* Sizes are counted in elements.                                          *)
(***************************************************************************)

CONSTANTS
    FirstSize,      \* block_size at the start; the first block has twice as much
    MaxElements,    \* bound on the elements in use
    MaxBlocks,      \* bound on the blocks
    PoolMayFail         \* malloc may fail

VARIABLES
    blocks,         \* the blocks, the most recent one last: used_so_far, and the size it really has
    block_size,
    free_elements,  \* the list of freed elements, <<block, place>>
    in_use,         \* the elements handed out
    allocated_elements,
    dead            \* the pool has been freed
poolVars == <<blocks, block_size, free_elements, in_use, allocated_elements, dead>>

PoolInit ==
    /\ blocks = <<>> /\ block_size = FirstSize /\ free_elements = <<>> /\ in_use = {}
    /\ allocated_elements = 0 /\ dead = FALSE

\* a new block is needed
Full(b, size) == b # <<>> => Last(b).used_so_far = size

RestOfFree(f) == Tail(f)

\* an element freed before is taken first
AllocFreed ==
    /\ ~dead /\ Cardinality(in_use) < MaxElements
    /\ free_elements # <<>>
    /\ in_use' = in_use \cup {Head(free_elements)}
    /\ free_elements' = RestOfFree(free_elements)
    /\ allocated_elements' = allocated_elements + 1
    /\ UNCHANGED <<blocks, block_size, dead>>

Cut(b) ==
    /\ in_use' = in_use \cup {<<Len(b), Last(b).used_so_far>>}
    /\ blocks' = [b EXCEPT ![Len(b)].used_so_far = @ + 1]
    /\ allocated_elements' = allocated_elements + 1
    /\ UNCHANGED <<free_elements, dead>>

\* the most recent block is cut further
AllocCut ==
    /\ ~dead /\ Cardinality(in_use) < MaxElements
    /\ free_elements = <<>> /\ ~Full(blocks, block_size)
    /\ Cut(blocks)
    /\ UNCHANGED block_size

\* a new block, twice the size; the size is doubled before malloc is asked
AllocBlock(ok) ==
    /\ ~dead /\ Cardinality(in_use) < MaxElements
    /\ free_elements = <<>> /\ Full(blocks, block_size) /\ Len(blocks) < MaxBlocks
    /\ block_size' = 2 * block_size
    /\ IF ok THEN Cut(Append(blocks, [used_so_far |-> 0, size |-> block_size']))
       ELSE PoolMayFail /\ UNCHANGED <<blocks, free_elements, in_use, allocated_elements, dead>>

\* the owner frees the pool when its last element is gone, as the lists do with their links
Dealloc(e) ==
    /\ ~dead /\ e \in in_use
    /\ in_use' = in_use \ {e}
    /\ free_elements' = <<e>> \o free_elements
    /\ allocated_elements' = allocated_elements - 1
    /\ UNCHANGED <<blocks, block_size, dead>>

Free ==
    /\ ~dead /\ allocated_elements = 0 /\ blocks # <<>>
    /\ dead' = TRUE /\ blocks' = <<>> /\ free_elements' = <<>>
    /\ UNCHANGED <<block_size, in_use, allocated_elements>>

PoolNext == \/ AllocFreed \/ AllocCut \/ Free
        \/ \E ok \in BOOLEAN : AllocBlock(ok)
        \/ \E e \in in_use : Dealloc(e)
PoolSpec == PoolInit /\ [][PoolNext]_poolVars

----------------------------------------------------------------------------

\* _dbus_mem_pool_get_stats: the most recent block counts whole, the others by what was cut from them
StatAllocated(b, size) == IF b = <<>> THEN 0 ELSE size + FoldLeft(LAMBDA acc, x : acc + x.used_so_far, 0, Front(b))

\* Every element lies within the block it was cut from.
WithinBlock == \A e \in in_use : e[2] < blocks[e[1]].size

\* An element is in use or free, never both and never twice, and the count that decides when the pool
\* can be freed is the number in use.
EachOnce == /\ \A i \in DOMAIN free_elements : /\ free_elements[i] \notin in_use
                                               /\ \A j \in 1 .. i - 1 : free_elements[j] # free_elements[i]
            /\ allocated_elements = Cardinality(in_use)

\* The statistics add up: what is in use and what is on the list of free elements was cut from blocks.
StatsAddUp == ~dead => Cardinality(in_use) + Len(free_elements) <= StatAllocated(blocks, block_size)

-----------------------------------------------------------------------------
(***************************************************************************)
(* dbus/dbus-dataslot.c: numbers under which the users of the library keep *)
(* data of their own on connections, servers, pending calls and messages.  *)
(* A user's number is -1 until it allocates one; allocating again counts.  *)
(***************************************************************************)

CONSTANTS
    Users,          \* each with a slot variable of its own
    Objects,        \* connections, messages, ...
    MaxRefs,        \* bound on the allocations of one user
    MaxSets,        \* bound on the data set
    ObjectsEnd      \* whether objects are cleared and freed as well

VARIABLES
    allocated_slots, \* slot_id (-1 when free) and refcount
    n_used_slots,
    slot,           \* the users' variables
    refs,           \* how often each user has allocated
    slots,          \* per object, what is stored: [data, by]; NoData when nothing is
    live,           \* data that was handed over and not freed: pairs
    slot_badFree,        \* data freed that was not live
    sets
slotVars == <<allocated_slots, n_used_slots, slot, refs, slots, live, slot_badFree, sets>>

NoData == [data |-> 0, by |-> "nobody"]
SlotInit ==
    /\ allocated_slots = <<>> /\ n_used_slots = 0
    /\ slot = [u \in Users |-> -1] /\ refs = [u \in Users |-> 0]
    /\ slots = [o \in Objects |-> <<>>] /\ live = {} /\ slot_badFree = FALSE /\ sets = 0

\* slots are numbered from 0
At(i) == allocated_slots[i + 1]

\* the first slot that is free, or one more
FreeSlot ==
    IF n_used_slots < Len(allocated_slots)
    THEN (CHOOSE i \in DOMAIN allocated_slots : /\ allocated_slots[i].slot_id < 0
                                                /\ \A j \in 1 .. i - 1 : allocated_slots[j].slot_id >= 0) - 1
    ELSE Len(allocated_slots)

UsedAfterAlloc(n) == n + 1

\* _dbus_data_slot_allocator_alloc
Alloc(u, ok) ==
    /\ refs[u] < MaxRefs
    /\ IF slot[u] >= 0
       THEN /\ ok
            /\ allocated_slots' = [allocated_slots EXCEPT ![slot[u] + 1].refcount = @ + 1]
            /\ refs' = [refs EXCEPT ![u] = @ + 1]
            /\ UNCHANGED <<n_used_slots, slot>>
       ELSE LET i == FreeSlot
                new == [slot_id |-> i, refcount |-> 1] IN
            /\ ~ok => i = Len(allocated_slots)
            /\ IF ok
               THEN /\ allocated_slots' = (IF i = Len(allocated_slots) THEN Append(allocated_slots, new)
                                           ELSE [allocated_slots EXCEPT ![i + 1] = new])
                    /\ n_used_slots' = UsedAfterAlloc(n_used_slots)
                    /\ slot' = [slot EXCEPT ![u] = i]
                    /\ refs' = [refs EXCEPT ![u] = @ + 1]
               ELSE UNCHANGED <<allocated_slots, n_used_slots, slot, refs>>
    /\ UNCHANGED <<slots, live, slot_badFree, sets>>

\* _dbus_data_slot_allocator_free; the variable goes back to -1 with the last reference
FreeSlotOf(u) ==
    /\ refs[u] > 0
    /\ refs' = [refs EXCEPT ![u] = @ - 1]
    /\ IF At(slot[u]).refcount > 1
       THEN /\ allocated_slots' = [allocated_slots EXCEPT ![slot[u] + 1].refcount = @ - 1]
            /\ UNCHANGED <<n_used_slots, slot>>
       ELSE /\ n_used_slots' = n_used_slots - 1
            /\ slot' = [slot EXCEPT ![u] = -1]
            /\ allocated_slots' = (IF n_used_slots = 1 THEN <<>>
                                   ELSE [allocated_slots EXCEPT ![slot[u] + 1] = [slot_id |-> -1, refcount |-> 0]])
    /\ UNCHANGED <<slots, live, slot_badFree, sets>>

FreeAll(S) ==
    /\ slot_badFree' = (slot_badFree \/ \E d \in S : d \notin live)
    /\ live' = live \ S

Padded(s, i) == IF i < Len(s) THEN s ELSE s \o [j \in 1 .. i + 1 - Len(s) |-> NoData]

Replaced(s, i) == {Padded(s, i)[i + 1]} \ {NoData}

\* _dbus_data_slot_list_set, and its caller that frees what was there
SetData(u, o) ==
    /\ slot[u] >= 0 /\ sets < MaxSets
    /\ sets' = sets + 1
    /\ LET d == [data |-> sets + 1, by |-> u] IN
       /\ slots' = [slots EXCEPT ![o] = [Padded(@, slot[u]) EXCEPT ![slot[u] + 1] = d]]
       /\ slot_badFree' = (slot_badFree \/ ~(Replaced(slots[o], slot[u]) \subseteq live))
       /\ live' = (live \ Replaced(slots[o], slot[u])) \cup {d}
    /\ UNCHANGED <<allocated_slots, n_used_slots, slot, refs>>

\* _dbus_data_slot_list_clear, for a message that goes to the cache
ClearedSlots(s) == [i \in DOMAIN s |-> NoData]
ListClear(o) ==
    /\ ObjectsEnd /\ slots[o] # <<>>
    /\ FreeAll(ToSet(slots[o]) \ {NoData})
    /\ slots' = [slots EXCEPT ![o] = ClearedSlots(@)]
    /\ UNCHANGED <<allocated_slots, n_used_slots, slot, refs, sets>>

\* _dbus_data_slot_list_free, for the others
ListFree(o) ==
    /\ ObjectsEnd /\ slots[o] # <<>>
    /\ FreeAll(ToSet(slots[o]) \ {NoData})
    /\ slots' = [slots EXCEPT ![o] = <<>>]
    /\ UNCHANGED <<allocated_slots, n_used_slots, slot, refs, sets>>

SlotNext ==
    \/ \E u \in Users : \/ \E ok \in BOOLEAN : Alloc(u, ok)
                        \/ FreeSlotOf(u)
                        \/ \E o \in Objects : SetData(u, o)
    \/ \E o \in Objects : ListClear(o) \/ ListFree(o)
SlotSpec == SlotInit /\ [][SlotNext]_slotVars

----------------------------------------------------------------------------
\* _dbus_data_slot_list_get: what user u finds on object o
Get(u, o) == IF slot[u] < 0 \/ slot[u] >= Len(slots[o]) THEN NoData ELSE slots[o][slot[u] + 1]

\* Two users never have the same slot at the same time, and a slot is in use exactly as often as it was
\* allocated and not freed.
SlotsAreDistinct ==
    /\ \A u, w \in Users : (u # w /\ slot[u] >= 0) => slot[u] # slot[w]
    /\ \A u \in Users : slot[u] >= 0 => (At(slot[u]).slot_id = slot[u] /\ At(slot[u]).refcount = refs[u])
    /\ n_used_slots = Cardinality({i \in DOMAIN allocated_slots : allocated_slots[i].slot_id >= 0})

\* Whatever happens to slots and objects, data is freed exactly once: it is stored on one object until then.
DataFreedOnce == ~slot_badFree /\ live = UNION {ToSet(slots[o]) : o \in Objects} \ {NoData}
=============================================================================
