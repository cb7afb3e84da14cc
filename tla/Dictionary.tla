----------------------------- MODULE Dictionary -----------------------------
(***************************************************************************)
(* The hash table of common/dictionary.c, down to its nodes and pointers,  *)
(* and one client with one iterator, as registry.c and strtab.c have: it   *)
(* installs and removes keys between the steps of an iteration, removes    *)
(* the entry the iterator is at, or moves it to another table.             *)
(*                                                                         *)
(* Every call is a step: there is one thread and no call is made from      *)
(* inside another.  Ops says which calls the client makes.  It never uses  *)
(* a pointer to a node that was freed, and removes or moves at an iterator *)
(* only if that has no cmp and no entry came or went since it was set.     *)
(***************************************************************************)
EXTENDS Integers, FiniteSets, FiniteSetsExt

CONSTANTS
    Keys,       \* 16 bit keys (DICTIONARY_KEYSPEC_USHORT), so they are ordered
    HashSize,   \* hashsize
    Nodes,      \* the memory there is for entries
    Nil,        \* the null pointer
    Stale,      \* a pointer to a node that was freed
    Dicts,      \* the tables: 1, and perhaps 2 for entries to be moved to
    Ops         \* the calls the client makes

OpKinds == {"install", "remove", "removeAll", "first", "sorted", "next", "at",
            "itRemove", "itMove",
            "inner"}    \* itMove of an entry that is not the head of its chain

ASSUME KeysAssumption == Keys \subseteq Nat /\ Keys # {} /\ IsFiniteSet(Keys)
ASSUME HashSizeAssumption == HashSize \in Nat \ {0}
ASSUME NodesAssumption ==
    IsFiniteSet(Nodes) /\ Nil \notin Nodes /\ Stale \notin Nodes /\ Stale # Nil
ASSUME DictsAssumption == Dicts \in {{1}, {1, 2}}
ASSUME OpsAssumption == Ops \subseteq OpKinds

Buckets == 0 .. HashSize-1
NoBucket == -1
Pointers == Nodes \cup {Nil}

VARIABLES
    hashtab, count,     \* struct dictionary, of every table
    key, next,          \* struct dlist, of every node
    used,               \* the nodes that are allocated
    it,                 \* struct dictionary_it: np, prev, idx and whether it has a cmp
    edited,             \* ghost: entries came or went since the iterator was set
    seen, must          \* ghosts: the keys this iteration has returned, and those
                        \* that have been in the table since it began

table == <<hashtab, count, key, next, used>>
vars == <<table, it, edited, seen, must>>

-----------------------------------------------------------------------------
Hash(k) == k % HashSize

\* The nodes from p on: the least set with p that nx does not lead out of.
Closed(nx, S) == \A n \in S : nx[n] \in S \cup {Nil}
Reach(nx, p) ==
    LET C == {S \in SUBSET Nodes : p \in S \cup {Nil} /\ Closed(nx, S)}
    IN  {n \in Nodes : \A S \in C : n \in S}

From(p) == Reach(next, p)
NodesIn(d, b) == From(hashtab[d][b])
NodesOf(d) == UNION {NodesIn(d, b) : b \in Buckets}
KeysOf(d) == {key[n] : n \in NodesOf(d)}

\* dict_lookup: the first node of the chain with the key.
Find(d, k) ==
    LET S == {n \in NodesIn(d, Hash(k)) : key[n] = k}
    IN  IF S = {} THEN Nil ELSE CHOOSE n \in S : S \subseteq From(n)

\* The node before n in a chain, or Nil.
Before(d, b, n) ==
    LET P == {p \in NodesIn(d, b) : next[p] = n} IN IF P = {} THEN Nil ELSE CHOOSE p \in P : TRUE

\* Deliberate errors, for the mutants of the checks: install does not look the
\* key up; a node in the middle of a chain is unlinked as if it were its head.
PresentWrong(d, k) == FALSE
UnlinkWrong(d, b, p, n) ==
    hashtab' = [hashtab EXCEPT ![d][b] = next[n]] /\ UNCHANGED next

Present(d, k) == Find(d, k) # Nil

\* Unlinking n from bucket b of table d, where p is the node before it.
Unlink(d, b, p, n) ==
    IF p = Nil
    THEN hashtab' = [hashtab EXCEPT ![d][b] = next[n]] /\ UNCHANGED next
    ELSE next' = [next EXCEPT ![p] = next[n]] /\ UNCHANGED hashtab

\* What becomes of a pointer when the nodes of S are freed.
Dangle(p, S) == IF p \in S THEN Stale ELSE p

\* Deliberate error, for the mutants of the checks: memory is not given back.
FreeWrong(S) ==
    /\ it' = [it EXCEPT !.np = Dangle(it.np, S), !.prev = Dangle(it.prev, S)]
    /\ edited' = TRUE /\ UNCHANGED used

Free(S) ==
    /\ used' = used \ S
    /\ it' = [it EXCEPT !.np = Dangle(it.np, S), !.prev = Dangle(it.prev, S)]
    /\ edited' = TRUE

-----------------------------------------------------------------------------
(***************************************************************************)
(* Calls on a table.  dictionary_install_size stands for                   *)
(* dictionary_replace and dictionary_lookup too: they treat keys alike.    *)
(***************************************************************************)
Install(d, k) ==
    /\ "install" \in Ops /\ ~Present(d, k)
    /\ \E n \in Nodes \ used :
          /\ used' = used \cup {n}
          /\ key' = [key EXCEPT ![n] = k]
          /\ next' = [next EXCEPT ![n] = hashtab[d][Hash(k)]]
          /\ hashtab' = [hashtab EXCEPT ![d][Hash(k)] = n]
    /\ count' = [count EXCEPT ![d] = @ + 1]
    /\ edited' = TRUE
    /\ UNCHANGED <<it, seen, must>>

\* The key is there already, or malloc fails.
InstallNothing(d, k) ==
    /\ "install" \in Ops
    /\ Present(d, k) \/ used = Nodes
    /\ UNCHANGED vars

RemoveKey(d, k) ==
    LET n == Find(d, k) IN
    /\ "remove" \in Ops /\ n # Nil
    /\ Unlink(d, Hash(k), Before(d, Hash(k), n), n)
    /\ count' = [count EXCEPT ![d] = @ - 1]
    /\ Free({n})
    /\ must' = IF d = 1 THEN must \ {k} ELSE must
    /\ UNCHANGED <<key, seen>>

\* Also the part of dictionary_destroy that is about entries.
RemoveAll(d) ==
    /\ "removeAll" \in Ops
    /\ hashtab' = [hashtab EXCEPT ![d] = [b \in Buckets |-> Nil]]
    /\ count' = [count EXCEPT ![d] = @ - Cardinality(NodesOf(d))]
    /\ Free(NodesOf(d))
    /\ must' = IF d = 1 THEN {} ELSE must
    /\ UNCHANGED <<key, next, seen>>

-----------------------------------------------------------------------------
(***************************************************************************)
(* Iterating over table 1.                                                 *)
(***************************************************************************)
\* Deliberate errors, for the mutants of the checks: the next chain is passed
\* over; a smaller key is not passed over.
PlainNextWrong(i) ==
    LET B == {b \in Buckets : b > i.idx + 1 /\ hashtab[1][b] # Nil} IN
    IF i.np # Nil /\ next[i.np] # Nil THEN [i EXCEPT !.prev = i.np, !.np = next[i.np]]
    ELSE IF B = {} THEN [i EXCEPT !.prev = Nil, !.np = Nil]
    ELSE [i EXCEPT !.prev = Nil, !.np = hashtab[1][Min(B)], !.idx = Min(B)]
GreaterWrong(n) == NodesOf(1) \ {n}

\* _it_next: the next node of the chain, or else the head of the next chain.
PlainNext(i) ==
    LET B == {b \in Buckets : b > i.idx /\ hashtab[1][b] # Nil} IN
    IF i.np # Nil /\ next[i.np] # Nil THEN [i EXCEPT !.prev = i.np, !.np = next[i.np]]
    ELSE IF B = {} THEN [i EXCEPT !.prev = Nil, !.np = Nil]
    ELSE [i EXCEPT !.prev = Nil, !.np = hashtab[1][Min(B)], !.idx = Min(B)]

\* The entries the comparison puts behind node n.
Greater(n) == {m \in NodesOf(1) : key[m] > key[n]}
Least(S) == CHOOSE n \in S : \A m \in S : key[n] <= key[m]
BucketOf(n) == CHOOSE b \in Buckets : n \in NodesIn(1, b)

\* dictionary_it_next with a cmp: it->prev stays as it is.
SortedNext(i) ==
    LET S == Greater(i.np) IN
    IF S = {} THEN [i EXCEPT !.np = Nil, !.idx = NoBucket]
    ELSE [i EXCEPT !.np = Least(S), !.idx = BucketOf(Least(S))]

NextOf(i) == IF i.cmp THEN SortedNext(i) ELSE PlainNext(i)

\* Deliberate error, for the mutants of the checks: off by one.
StartWrong(sorted) == [np |-> Nil, prev |-> Nil, idx |-> NoBucket - 1, cmp |-> sorted]

Start(sorted) == [np |-> Nil, prev |-> Nil, idx |-> NoBucket, cmp |-> sorted]

\* What the iterator is set to by dictionary_it_first.  With a cmp, idx is not
\* initialised if the first entry of the table is the smallest.
Firsts(sorted) ==
    LET i == PlainNext(Start(sorted))
        n == Least(NodesOf(1))
    IN  IF ~sorted \/ i.np = Nil THEN {i}
        ELSE {[Start(sorted) EXCEPT !.np = n, !.idx = b] :
                 b \in IF n = i.np THEN Buckets ELSE {BucketOf(n)}}

Returned(i) == IF i.np = Nil THEN {} ELSE {key[i.np]}

ItFirst(sorted) ==
    /\ (IF sorted THEN "sorted" ELSE "first") \in Ops
    /\ it' \in Firsts(sorted)
    /\ edited' = FALSE /\ seen' = Returned(it') /\ must' = KeysOf(1)
    /\ UNCHANGED table

Usable == it.np \notin {Nil, Stale}

ItNext ==
    /\ "next" \in Ops /\ Usable
    /\ it' = NextOf(it)
    /\ edited' = FALSE /\ seen' = seen \cup Returned(it')
    /\ UNCHANGED <<table, must>>

\* dictionary_it_at leaves the cmp of the iterator as it was.  It takes prev along
\* the chain to the node before the key, or to the last one if the key is not there.
ItAt(k) ==
    LET n == Find(1, k) IN
    /\ "at" \in Ops
    /\ it' = [Start(it.cmp) EXCEPT !.np = n, !.prev = Before(1, Hash(k), n),
                                   !.idx = IF n = Nil THEN NoBucket ELSE Hash(k)]
    /\ edited' = FALSE /\ seen' = Returned(it') /\ must' = {}
    /\ UNCHANGED table

\* dictionary_it_remove: the iterator is left at the node that was freed.
ItRemove ==
    /\ "itRemove" \in Ops /\ Usable /\ ~edited /\ ~it.cmp
    /\ Unlink(1, it.idx, it.prev, it.np)
    /\ count' = [count EXCEPT ![1] = @ - 1]
    /\ Free({it.np})
    /\ must' = must \ {key[it.np]}
    /\ UNCHANGED <<key, seen>>

\* dictionary_it_move to table 2: first the iterator goes on, then the node is
\* unlinked and prev put back.  An entry whose key table 2 has stays.
ItMove ==
    LET n == it.np
        h == Hash(key[n])
    IN
    /\ 2 \in Dicts /\ Usable /\ ~edited
    /\ "itMove" \in Ops /\ ~it.cmp /\ (it.prev = Nil \/ "inner" \in Ops)
    /\ seen' = seen \cup Returned(NextOf(it))
    /\ UNCHANGED <<key, used, edited>>
    /\ IF Present(2, key[n])
       THEN /\ it' = NextOf(it)
            /\ UNCHANGED <<hashtab, count, next, must>>
       ELSE /\ it' = [NextOf(it) EXCEPT !.prev = it.prev]
            /\ count' = [count EXCEPT ![1] = @ - 1, ![2] = @ + 1]
            /\ hashtab' = [hashtab EXCEPT ![1][it.idx] = IF it.prev = Nil THEN next[n] ELSE @,
                                          ![2][h] = n]
            /\ next' = [p \in Nodes |-> IF p = n THEN hashtab[2][h]
                                        ELSE IF p = it.prev THEN next[n] ELSE next[p]]
            /\ must' = must \ {key[n]}

-----------------------------------------------------------------------------
\* dictionary_init.
Init ==
    /\ hashtab = [d \in Dicts |-> [b \in Buckets |-> Nil]]
    /\ count = [d \in Dicts |-> 0]
    /\ key \in [Nodes -> {Min(Keys)}] /\ next = [n \in Nodes |-> Nil] /\ used = {}
    /\ it = Start(FALSE) /\ edited = FALSE /\ seen = {} /\ must = {}

Next ==
    \/ \E d \in Dicts, k \in Keys : Install(d, k) \/ InstallNothing(d, k) \/ RemoveKey(d, k)
    \/ \E d \in Dicts : RemoveAll(d)
    \/ \E sorted \in BOOLEAN : ItFirst(sorted)
    \/ ItNext \/ ItRemove \/ ItMove
    \/ \E k \in Keys : ItAt(k)

Spec == Init /\ [][Next]_vars

-----------------------------------------------------------------------------
(***************************************************************************)
(* Properties.                                                             *)
(***************************************************************************)
\* Every variable has its type.
TypeOK ==
    /\ hashtab \in [Dicts -> [Buckets -> Pointers]]
    /\ count \in [Dicts -> Int]
    /\ key \in [Nodes -> Keys] /\ next \in [Nodes -> Pointers]
    /\ used \subseteq Nodes
    /\ it \in [np : Pointers \cup {Stale}, prev : Pointers \cup {Stale},
               idx : Buckets \cup {NoBucket}, cmp : BOOLEAN]
    /\ edited \in BOOLEAN /\ seen \subseteq Keys /\ must \subseteq Keys

\* The DBG_CHECKV of dictionary_remove_all holds whenever it is called: count,
\* which nvol3 takes for the number of keys, is the number of entries in the
\* chains.
CountIsRight == \A d \in Dicts : count[d] = Cardinality(NodesOf(d))

\* dict_lookup finds every entry that is in a table under its key: no key is
\* there twice and none is in the chain of another hash.
EveryEntryIsFound == \A d \in Dicts : \A n \in NodesOf(d) : Find(d, key[n]) = n

\* Memory is allocated to entries of exactly one table: nothing is lost, freed
\* while it is linked, or linked from two tables.
NothingIsLost ==
    /\ used = UNION {NodesOf(d) : d \in Dicts}
    /\ \A c, d \in Dicts : c # d => NodesOf(c) \cap NodesOf(d) = {}

\* An iteration, sorted or not, returns no key twice, whatever is installed and
\* removed meanwhile.
VisitsOnce == [][ItNext => Returned(it') \cap seen = {}]_vars

\* An iteration that has come to its end has returned every key that was in
\* the table from its beginning to its end.
VisitsAll == it.np = Nil => must \subseteq seen
=============================================================================
