-------------------------- MODULE DictionaryProofs --------------------------
(***************************************************************************)
(* Proofs about the hash table of common/dictionary.c and its iterator,    *)
(* for any keys, table size and memory.  The first part is about chains:   *)
(* what is reachable from a node along the next pointers, and what becomes *)
(* of it when a node is pushed or unlinked.  The second is about a table,  *)
(* and the third about the iterator.                                       *)
(***************************************************************************)
EXTENDS Dictionary, TLAPS, FiniteSetTheorems, WellFoundedInduction

-----------------------------------------------------------------------------
(***************************************************************************)
(* The inductive invariant.                                                *)
(***************************************************************************)
\* The nodes of bucket b of table d.
Chain(ht, nx, d, b) == Reach(nx, ht[d][b])

\* No chain runs in a circle.
Acyclic(ht, nx) ==
    \A d \in Dicts, b \in Buckets : \A n \in Chain(ht, nx, d, b) : n \notin Reach(nx, nx[n])

\* Every entry is in the chain of its hash, and none has the key of another.
Filed(ht, nx, ky) ==
    \A d \in Dicts, b \in Buckets : \A n \in Chain(ht, nx, d, b) :
       /\ Hash(ky[n]) = b
       /\ \A m \in Chain(ht, nx, d, b) : ky[m] = ky[n] => m = n

\* No entry is in two tables.
Apart(ht, nx) ==
    \A c, d \in Dicts : \A a, b \in Buckets :
       c # d => Chain(ht, nx, c, a) \cap Chain(ht, nx, d, b) = {}

HeapType(ht, nx, ky) ==
    /\ ht \in [Dicts -> [Buckets -> Pointers]]
    /\ nx \in [Nodes -> Pointers]
    /\ ky \in [Nodes -> Keys]

Sound(ht, nx, ky) ==
    /\ HeapType(ht, nx, ky)
    /\ Acyclic(ht, nx)
    /\ Filed(ht, nx, ky)
    /\ Apart(ht, nx)

\* The tables are sound and hold the nodes in use, and count says how many.
TableInv ==
    /\ Sound(hashtab, next, key)
    /\ used = UNION {NodesOf(d) : d \in Dicts}
    /\ CountIsRight

\* Iterator i is at an entry of table 1, which without a cmp is in the bucket idx.
Placed(i) ==
    i.np \in Nodes =>
       /\ i.np \in NodesOf(1)
       /\ ~i.cmp => i.idx \in Buckets /\ i.np \in NodesIn(1, i.idx)

\* prev is the node before it.
AtPrev(i) ==
    i.np \in Nodes /\ ~i.cmp =>
       \/ i.prev = Nil /\ hashtab[1][i.idx] = i.np
       \/ i.prev \in NodesIn(1, i.idx) /\ next[i.prev] = i.np

\* The entries of its bucket that i has not come to.
Ahead(i) == From(i.np) \ {i.np}

\* Without a cmp: no key of s is ahead of i, and every key of m that is not in s
\* is ahead of it.
Passed(i, s) == (\A k \in s : Hash(k) <= i.idx) /\ \A n \in Ahead(i) : key[n] \notin s
ToCome(i, s, m) == \A k \in m \ s : Hash(k) > i.idx \/ \E n \in Ahead(i) : key[n] = k

\* The same with or without a cmp; and at the end of the iteration all of m is in s.
Unseen(i, s) ==
    i.np \in Nodes =>
       /\ i.cmp => \A k \in s : k <= key[i.np]
       /\ ~i.cmp => Passed(i, s)
Owed(i, s, m) ==
    /\ i.np = Nil => m \subseteq s
    /\ i.np \in Nodes =>
          /\ i.cmp => \A k \in m \ s : k > key[i.np]
          /\ ~i.cmp => ToCome(i, s, m)

\* prev is right as long as no entry came or went; no key that was returned is
\* ahead; and every key that has to be returned is in the table, and has been
\* returned or is ahead.
ItInv ==
    /\ Placed(it)
    /\ ~edited => AtPrev(it)
    /\ Unseen(it, seen)
    /\ must \subseteq KeysOf(1)
    /\ Owed(it, seen, must)

DictInv == TypeOK /\ TableInv /\ ItInv

-----------------------------------------------------------------------------
(***************************************************************************)
(* Chains.                                                                 *)
(***************************************************************************)
LEMMA ReachType ==
    ASSUME NEW nx, NEW p
    PROVE  Reach(nx, p) \in SUBSET Nodes
BY DEF Reach

LEMMA ReachLeast ==
    ASSUME NEW nx, NEW p, NEW S \in SUBSET Nodes, p \in S \cup {Nil}, Closed(nx, S)
    PROVE  Reach(nx, p) \subseteq S
BY DEF Reach

LEMMA ReachNil ==
    ASSUME NEW nx
    PROVE  Reach(nx, Nil) = {}
<1>1. Closed(nx, {})
  BY DEF Closed
<1>2. QED
  BY <1>1, ReachLeast

LEMMA ReachFrom ==
    ASSUME NEW nx, NEW p \in Nodes
    PROVE  p \in Reach(nx, p)
BY NodesAssumption DEF Reach

LEMMA ReachClosed ==
    ASSUME NEW nx \in [Nodes -> Pointers], NEW p, NEW n \in Reach(nx, p)
    PROVE  nx[n] \in Reach(nx, p) \cup {Nil}
<1>1. n \in Nodes /\ nx[n] \in Nodes \cup {Nil}
  BY ReachType DEF Pointers
<1>2. CASE nx[n] = Nil
  BY <1>2
<1>3. CASE nx[n] \in Nodes
  <2>1. ASSUME NEW S \in SUBSET Nodes, p \in S \cup {Nil}, Closed(nx, S)
        PROVE  nx[n] \in S
    <3>1. n \in S
      BY <2>1, ReachLeast
    <3>2. nx[n] \in S \cup {Nil}
      BY <2>1, <3>1 DEF Closed
    <3>3. QED
      BY <3>2, <1>3, NodesAssumption
  <2>2. QED
    BY <2>1, <1>3 DEF Reach
<1>4. QED
  BY <1>1, <1>2, <1>3

\* What is reachable from a node is reachable from where the node is reachable.
LEMMA ReachTrans ==
    ASSUME NEW nx \in [Nodes -> Pointers], NEW p, NEW n \in Reach(nx, p) \cup {Nil}
    PROVE  Reach(nx, n) \subseteq Reach(nx, p)
<1>1. Closed(nx, Reach(nx, p))
  BY ReachClosed DEF Closed
<1>2. QED
  BY <1>1, ReachType, ReachLeast

LEMMA ReachStep ==
    ASSUME NEW nx \in [Nodes -> Pointers], NEW p \in Nodes
    PROVE  Reach(nx, p) = {p} \cup Reach(nx, nx[p])
<1> DEFINE S == {p} \cup Reach(nx, nx[p])
<1>1. nx[p] \in Nodes \cup {Nil}
  BY DEF Pointers
<1>2. nx[p] \in S \cup {Nil}
  BY <1>1, ReachFrom
<1>3. S \in SUBSET Nodes
  BY ReachType
<1>4. Closed(nx, S)
  <2>1. ASSUME NEW n \in S PROVE nx[n] \in S \cup {Nil}
    BY <2>1, <1>2, ReachClosed
  <2>2. QED
    BY <2>1 DEF Closed
<1>5. Reach(nx, p) \subseteq S
  BY <1>3, <1>4, ReachLeast
<1>6. p \in Reach(nx, p)
  BY ReachFrom
<1>7. Reach(nx, nx[p]) \subseteq Reach(nx, p)
  BY <1>6, ReachClosed, ReachTrans
<1>8. QED
  BY <1>5, <1>6, <1>7

\* Only the pointers of the nodes of a chain matter to it.
LEMMA ReachSame ==
    ASSUME NEW nx \in [Nodes -> Pointers], NEW mx \in [Nodes -> Pointers], NEW p,
           \A n \in Reach(nx, p) : mx[n] = nx[n]
    PROVE  Reach(mx, p) = Reach(nx, p)
<1>2. CASE p \in Nodes \cup {Nil}
  <2>1. p \in Reach(nx, p) \cup {Nil} /\ p \in Reach(mx, p) \cup {Nil}
    BY <1>2, ReachFrom
  <2>2. Closed(mx, Reach(nx, p))
    BY ReachClosed DEF Closed
  <2>3. Reach(mx, p) \subseteq Reach(nx, p)
    BY <2>1, <2>2, ReachType, ReachLeast
  <2>4. Closed(nx, Reach(mx, p))
    <3>1. ASSUME NEW n \in Reach(mx, p) PROVE nx[n] \in Reach(mx, p) \cup {Nil}
      BY <2>3, ReachClosed
    <3>2. QED
      BY <3>1 DEF Closed
  <2>5. Reach(nx, p) \subseteq Reach(mx, p)
    BY <2>1, <2>4, ReachType, ReachLeast
  <2>6. QED
    BY <2>3, <2>5
<1>3. CASE p \notin Nodes \cup {Nil}
  <2>1. \A S \in SUBSET Nodes : p \notin S \cup {Nil}
    BY <1>3
  <2>2. Reach(nx, p) = Nodes /\ Reach(mx, p) = Nodes
    BY <2>1 DEF Reach
  <2>3. QED
    BY <2>2
<1>4. QED
  BY <1>2, <1>3

\* Of two nodes of a chain one comes after the other.
LEMMA ReachOrder ==
    ASSUME NEW nx \in [Nodes -> Pointers], NEW p \in Nodes,
           NEW m \in Reach(nx, p), NEW n \in Reach(nx, p)
    PROVE  m \in Reach(nx, n) \/ n \in Reach(nx, m)
<1> DEFINE S == {a \in Reach(nx, p) : m \in Reach(nx, a) \/ a \in Reach(nx, m)}
<1>1. S \in SUBSET Nodes
  BY ReachType
<1>2. p \in S
  BY ReachFrom
<1>3. ASSUME NEW a \in S PROVE nx[a] \in S \cup {Nil}
  <2>1. a \in Nodes /\ a \in Reach(nx, p) /\ m \in Nodes
    BY ReachType
  <2>2. nx[a] \in Reach(nx, p) \cup {Nil}
    BY <2>1, ReachClosed
  <2>3. CASE a \in Reach(nx, m)
    <3>1. nx[a] \in Reach(nx, m) \cup {Nil}
      BY <2>3, ReachClosed
    <3>2. QED
      BY <2>2, <3>1
  <2>4. CASE m \in Reach(nx, a)
    <3>1. m = a \/ m \in Reach(nx, nx[a])
      BY <2>1, <2>4, ReachStep
    <3>2. CASE m = a
      BY <2>3, <3>2, <2>1, ReachFrom
    <3>3. CASE m \in Reach(nx, nx[a])
      BY <2>2, <3>3
    <3>4. QED
      BY <3>1, <3>2, <3>3
  <2>5. QED
    BY <2>3, <2>4
<1>4. Closed(nx, S)
  BY <1>3 DEF Closed
<1> HIDE DEF S
<1>5. Reach(nx, p) \subseteq S
  BY <1>1, <1>2, <1>4, ReachLeast
<1>6. n \in S
  BY <1>5
<1>7. QED
  BY <1>6 DEF S

\* The nodes of a chain that does not run in a circle have different successors.
LEMMA OneBefore ==
    ASSUME NEW nx \in [Nodes -> Pointers], NEW p \in Nodes,
           \A n \in Reach(nx, p) : n \notin Reach(nx, nx[n]),
           NEW a \in Reach(nx, p), NEW b \in Reach(nx, p), nx[a] = nx[b]
    PROVE  a = b
<1>1. a \in Nodes /\ b \in Nodes
  BY ReachType
<1>2. a \in Reach(nx, b) \/ b \in Reach(nx, a)
  BY ReachOrder
<1>3. QED
  BY <1>1, <1>2, ReachStep

\* Every node of a chain but the first has one before it.
LEMMA SomeBefore ==
    ASSUME NEW nx \in [Nodes -> Pointers], NEW p \in Nodes, NEW n \in Reach(nx, p), n # p
    PROVE  \E a \in Reach(nx, p) : nx[a] = n
<1> DEFINE S == Reach(nx, p) \ {n}
<1>1. SUFFICES ASSUME \A a \in Reach(nx, p) : nx[a] # n PROVE FALSE
  OBVIOUS
<1>2. Closed(nx, S)
  BY <1>1, ReachClosed DEF Closed
<1>3. S \in SUBSET Nodes /\ p \in S
  BY ReachType, ReachFrom
<1>4. QED
  BY <1>2, <1>3, ReachLeast

\* Unlinking a node that has one before it takes that node out of the chain, and
\* out of what is reachable from the others.
LEMMA ReachUnlinked ==
    ASSUME NEW nx \in [Nodes -> Pointers], NEW p \in Nodes,
           \A x \in Reach(nx, p) : x \notin Reach(nx, nx[x]),
           NEW q \in Reach(nx, p), NEW n \in Nodes, nx[q] = n,
           NEW mx \in [Nodes -> Pointers], mx[q] = nx[n],
           \A x \in Nodes : x # q => mx[x] = nx[x],
           NEW m \in Reach(nx, p), m # n
    PROVE  Reach(mx, m) = Reach(nx, m) \ {n}
<1> DEFINE T == Reach(nx, m) \ {n}
           U == Reach(mx, m) \cup (IF q \in Reach(mx, m) THEN {n} ELSE {})
<1>1. q \in Nodes /\ m \in Nodes /\ n \in Reach(nx, p)
  BY ReachType, ReachClosed, NodesAssumption
<1>2. mx \in [Nodes -> Pointers] /\ mx[q] = nx[n] /\ \A x \in Nodes \ {q} : mx[x] = nx[x]
  BY <1>1
<1>3. q # n
  BY <1>1, ReachFrom
<1>4. \A x \in Reach(nx, p) : x # q => nx[x] # n
  BY OneBefore
<1>5. Reach(nx, m) \subseteq Reach(nx, p)
  BY ReachTrans
<1>6. nx[n] # n
  BY <1>1, <1>3, <1>4
<1>7. Closed(mx, T)
  <2>1. ASSUME NEW x \in T PROVE mx[x] \in T \cup {Nil}
    <3>1. x \in Nodes /\ x \in Reach(nx, m) /\ x \in Reach(nx, p)
      BY <1>5, ReachType
    <3>2. nx[x] \in Reach(nx, m) \cup {Nil}
      BY <3>1, ReachClosed
    <3>3. CASE x = q
      <4>1. n \in Reach(nx, m)
        BY <3>2, <3>3, NodesAssumption
      <4>2. nx[n] \in Reach(nx, m) \cup {Nil}
        BY <4>1, ReachClosed
      <4>3. QED
        BY <4>2, <1>6, <1>2, <3>3
    <3>4. CASE x # q
      BY <3>1, <3>2, <3>4, <1>2, <1>4
    <3>5. QED
      BY <3>3, <3>4
  <2>2. QED
    BY <2>1 DEF Closed
<1>8. m \in T /\ T \in SUBSET Nodes
  BY <1>1, ReachFrom, ReachType
<1> HIDE DEF T
<1>9. Reach(mx, m) \subseteq T
  BY <1>7, <1>8, ReachLeast
<1>10. m \in U /\ U \in SUBSET Nodes
  BY <1>1, ReachFrom, ReachType
<1>11. Closed(nx, U)
  <2>1. ASSUME NEW x \in U PROVE nx[x] \in U \cup {Nil}
    <3>1. CASE x \in Reach(mx, m)
      <4>1. mx[x] \in Reach(mx, m) \cup {Nil} /\ x \in Nodes
        BY <3>1, <1>2, ReachClosed, ReachType
      <4>2. CASE x = q
        BY <4>2, <3>1
      <4>3. CASE x # q
        BY <4>1, <4>3, <1>2
      <4>4. QED
        BY <4>2, <4>3
    <3>2. CASE x = n /\ q \in Reach(mx, m)
      <4>1. mx[q] \in Reach(mx, m) \cup {Nil}
        BY <3>2, <1>2, ReachClosed
      <4>2. QED
        BY <4>1, <3>2, <1>2
    <3>3. QED
      BY <3>1, <3>2
  <2>2. QED
    BY <2>1 DEF Closed
<1> HIDE DEF U
<1>12. Reach(nx, m) \subseteq U
  BY <1>10, <1>11, ReachLeast
<1>13. U \subseteq Reach(mx, m) \cup {n}
  BY DEF U
<1>14. QED
  BY <1>9, <1>12, <1>13 DEF T

-----------------------------------------------------------------------------
(***************************************************************************)
(* Tables.                                                                 *)
(***************************************************************************)
LEMMA HashType ==
    ASSUME NEW k \in Keys
    PROVE  Hash(k) \in Buckets
<1>1. k \in Nat /\ HashSize \in Nat /\ HashSize > 0
  BY KeysAssumption, HashSizeAssumption
<1>2. k % HashSize \in 0 .. HashSize-1
  BY <1>1
<1>3. QED
  BY <1>2 DEF Hash, Buckets

\* The chains of different buckets, of one table or of two, have no node in common.
LEMMA ChainsApart ==
    ASSUME NEW ht, NEW nx, NEW ky, Sound(ht, nx, ky),
           NEW c \in Dicts, NEW d \in Dicts, NEW a \in Buckets, NEW b \in Buckets,
           NEW n \in Chain(ht, nx, c, a), n \in Chain(ht, nx, d, b)
    PROVE  c = d /\ a = b
<1>1. c = d
  BY DEF Sound, Apart
<1>2. Hash(ky[n]) = a /\ Hash(ky[n]) = b
  BY DEF Sound, Filed
<1>3. QED
  BY <1>1, <1>2

\* What is said of a chain that is not empty.
LEMMA ChainFacts ==
    ASSUME NEW ht, NEW nx, NEW ky, Sound(ht, nx, ky),
           NEW d \in Dicts, NEW b \in Buckets, NEW n \in Chain(ht, nx, d, b)
    PROVE  /\ nx \in [Nodes -> Pointers]
           /\ ht[d][b] \in Nodes /\ n \in Nodes
           /\ Chain(ht, nx, d, b) = Reach(nx, ht[d][b])
           /\ \A m \in Reach(nx, ht[d][b]) : m \notin Reach(nx, nx[m])
           /\ nx[n] \in Chain(ht, nx, d, b) \cup {Nil}
           /\ Reach(nx, n) \subseteq Chain(ht, nx, d, b)
           /\ n \in Reach(nx, n)
<1>1. nx \in [Nodes -> Pointers] /\ ht[d][b] \in Pointers /\ n \in Nodes
  BY ReachType DEF Sound, HeapType, Chain
<1>2. ht[d][b] # Nil
  BY ReachNil DEF Chain
<1>3. \A m \in Reach(nx, ht[d][b]) : m \notin Reach(nx, nx[m])
  BY DEF Sound, Acyclic, Chain
<1>4. nx[n] \in Chain(ht, nx, d, b) \cup {Nil}
  BY <1>1, ReachClosed DEF Chain
<1>5. Reach(nx, n) \subseteq Chain(ht, nx, d, b) /\ n \in Reach(nx, n)
  BY <1>1, ReachTrans, ReachFrom DEF Chain
<1>6. QED
  BY <1>1, <1>2, <1>3, <1>4, <1>5 DEF Pointers, Chain

\* A heap whose chains are parts of those of a sound one.
LEMMA PartSound ==
    ASSUME NEW ht, NEW nx, NEW ky, Sound(ht, nx, ky),
           NEW ht2, NEW nx2, HeapType(ht2, nx2, ky), Acyclic(ht2, nx2),
           \A c \in Dicts, a \in Buckets : Chain(ht2, nx2, c, a) \subseteq Chain(ht, nx, c, a)
    PROVE  Sound(ht2, nx2, ky)
<1>1. Filed(ht2, nx2, ky)
  BY DEF Sound, Filed
<1>2. Apart(ht2, nx2)
  BY DEF Sound, Apart
<1>3. QED
  BY <1>1, <1>2 DEF Sound

\* Node n of a chain is unlinked, where q is the node before it or Nil.
Unlinks(d, b, q, n, ht, nx, ht2, nx2) ==
    \/ q = Nil /\ ht[d][b] = n /\ ht2 = [ht EXCEPT ![d][b] = nx[n]] /\ nx2 = nx
    \/ /\ q \in Chain(ht, nx, d, b) /\ nx[q] = n
       /\ nx2 = [nx EXCEPT ![q] = nx[n]] /\ ht2 = ht

\* It leaves its chain, and every other chain is as it was.
LEMMA UnlinkSound ==
    ASSUME NEW ht, NEW nx, NEW ky, Sound(ht, nx, ky),
           NEW d \in Dicts, NEW b \in Buckets, NEW n \in Chain(ht, nx, d, b),
           NEW q, NEW ht2, NEW nx2, Unlinks(d, b, q, n, ht, nx, ht2, nx2)
    PROVE  /\ Sound(ht2, nx2, ky)
           /\ \A c \in Dicts, a \in Buckets : Chain(ht2, nx2, c, a) = Chain(ht, nx, c, a) \ {n}
           /\ \A c \in Dicts, a \in Buckets : \A m \in Chain(ht, nx, c, a) :
                 m # n => Reach(nx2, m) = Reach(nx, m) \ {n}
<1> DEFINE h == ht[d][b]
           Ch(c, a) == Chain(ht, nx, c, a)
<1>0. \/ q = Nil /\ ht[d][b] = n /\ ht2 = [ht EXCEPT ![d][b] = nx[n]] /\ nx2 = nx
      \/ /\ q \in Ch(d, b) /\ nx[q] = n
         /\ nx2 = [nx EXCEPT ![q] = nx[n]] /\ ht2 = ht
  BY DEF Unlinks
<1>1. /\ nx \in [Nodes -> Pointers] /\ h \in Nodes /\ n \in Nodes
      /\ Ch(d, b) = Reach(nx, h)
      /\ \A m \in Reach(nx, h) : m \notin Reach(nx, nx[m])
      /\ nx[n] \in Ch(d, b) \cup {Nil}
  BY ChainFacts
<1>2. ht \in [Dicts -> [Buckets -> Pointers]] /\ ky \in [Nodes -> Keys]
  BY DEF Sound, HeapType
<1>3. nx[n] \in Pointers /\ nx[n] # n
  <2>1. n \notin Reach(nx, nx[n])
    BY <1>1
  <2>2. QED
    BY <1>1, <2>1, ReachFrom
<1>4. HeapType(ht2, nx2, ky)
  <2>1. CASE q = Nil /\ ht2 = [ht EXCEPT ![d][b] = nx[n]] /\ nx2 = nx
    BY <2>1, <1>1, <1>2, <1>3 DEF HeapType
  <2>2. CASE q \in Ch(d, b) /\ nx2 = [nx EXCEPT ![q] = nx[n]] /\ ht2 = ht
    BY <2>2, <1>1, <1>2, <1>3 DEF HeapType
  <2>3. QED
    BY <1>0, <2>1, <2>2
\* The chains of other buckets.
<1>5. ASSUME NEW c \in Dicts, NEW a \in Buckets, c # d \/ a # b
      PROVE  /\ n \notin Ch(c, a)
             /\ ht2[c][a] = ht[c][a]
             /\ \A m \in Ch(c, a) : nx2[m] = nx[m]
  <2>1. n \notin Ch(c, a)
    BY <1>5, ChainsApart
  <2>2. q \in Ch(d, b) => q \notin Ch(c, a)
    BY <1>5, ChainsApart
  <2>3. ht2[c][a] = ht[c][a]
    <3>1. CASE ht2 = ht
      BY <3>1
    <3>2. CASE ht2 = [ht EXCEPT ![d][b] = nx[n]]
      BY <3>2, <1>2, <1>5
    <3>3. QED
      BY <1>0, <3>1, <3>2
  <2>4. \A m \in Ch(c, a) : m \in Nodes
    BY ReachType DEF Chain
  <2>5. \A m \in Ch(c, a) : nx2[m] = nx[m]
    BY <1>0, <2>2, <2>4, <1>1
  <2>6. QED
    BY <2>1, <2>2, <2>3, <2>5
<1>6. ASSUME NEW c \in Dicts, NEW a \in Buckets, c # d \/ a # b, NEW m \in Ch(c, a)
      PROVE  Reach(nx2, m) = Reach(nx, m) \ {n}
  <2>1. Reach(nx, m) \subseteq Ch(c, a)
    BY ChainFacts
  <2>2. Reach(nx2, m) = Reach(nx, m)
    <3>1. \A x \in Reach(nx, m) : nx2[x] = nx[x]
      BY <2>1, <1>5, <1>6
    <3>2. nx2 \in [Nodes -> Pointers]
      BY <1>4 DEF HeapType
    <3>3. QED
      BY <3>1, <3>2, <1>1, ReachSame
  <2>3. n \notin Ch(c, a)
    BY <1>6, ChainsApart
  <2>4. QED
    BY <2>1, <2>2, <2>3
\* The chain of the node.
<1>7. ASSUME NEW m \in Ch(d, b), m # n
      PROVE  Reach(nx2, m) = Reach(nx, m) \ {n}
  <2>1. CASE q = Nil /\ ht[d][b] = n /\ nx2 = nx
    <3>1. m \in Reach(nx, nx[n])
      <4>1. Reach(nx, n) = {n} \cup Reach(nx, nx[n])
        BY <1>1, ReachStep
      <4>2. m \in Reach(nx, n)
        BY <2>1, <1>1, <1>7
      <4>3. QED
        BY <4>1, <4>2, <1>7
    <3>2. Reach(nx, m) \subseteq Reach(nx, nx[n])
      BY <1>1, <3>1, ReachTrans
    <3>3. n \notin Reach(nx, nx[n])
      BY <1>1
    <3>4. QED
      BY <2>1, <3>2, <3>3
  <2>2. CASE q \in Ch(d, b) /\ nx[q] = n /\ nx2 = [nx EXCEPT ![q] = nx[n]]
    <3> HIDE DEF h
    <3>1. /\ m \in Reach(nx, h) /\ q \in Reach(nx, h) /\ m # n
          /\ nx \in [Nodes -> Pointers] /\ h \in Nodes /\ n \in Nodes
          /\ \A x \in Reach(nx, h) : x \notin Reach(nx, nx[x])
      BY <2>2, <1>1, <1>7
    <3>2. /\ nx2 \in [Nodes -> Pointers] /\ nx2[q] = nx[n] /\ nx[q] = n
          /\ \A x \in Nodes : x # q => nx2[x] = nx[x]
      BY <2>2, <3>1, <1>4, ReachType DEF HeapType
    <3>3. QED
      BY <3>1, <3>2, ReachUnlinked
  <2>3. QED
    BY <1>0, <2>1, <2>2
<1>8. ASSUME NEW c \in Dicts, NEW a \in Buckets, NEW m \in Ch(c, a), m # n
      PROVE  Reach(nx2, m) = Reach(nx, m) \ {n}
  BY <1>6, <1>7, <1>8
<1>9. ASSUME NEW c \in Dicts, NEW a \in Buckets
      PROVE  Chain(ht2, nx2, c, a) = Ch(c, a) \ {n}
  <2>1. CASE c # d \/ a # b
    <3>1. Chain(ht2, nx2, c, a) = Chain(ht, nx, c, a)
      BY <2>1, <1>1, <1>4, <1>5, ReachSame DEF HeapType, Chain
    <3>2. n \notin Ch(c, a)
      BY <2>1, ChainsApart
    <3>3. QED
      BY <3>1, <3>2
  <2>2. CASE c = d /\ a = b
    <3>1. CASE q = Nil /\ ht[d][b] = n /\ ht2 = [ht EXCEPT ![d][b] = nx[n]] /\ nx2 = nx
      <4>1. ht2[d][b] = nx[n]
        BY <3>1, <1>2
      <4>2. Reach(nx, n) = {n} \cup Reach(nx, nx[n]) /\ n \notin Reach(nx, nx[n])
        BY <1>1, ReachStep
      <4>3. QED
        BY <2>2, <3>1, <4>1, <4>2 DEF Chain
    <3>2. CASE q \in Ch(d, b) /\ nx[q] = n /\ ht2 = ht /\ nx2 = [nx EXCEPT ![q] = nx[n]]
      <4>1. h # n
        BY <3>2, <1>1
      <4>2. h \in Reach(nx, h)
        BY <1>1, ReachFrom
      <4>3. Reach(nx2, h) = Reach(nx, h) \ {n}
        BY <4>1, <4>2, <1>1, <1>7
      <4>4. QED
        BY <4>3, <2>2, <3>2 DEF Chain
    <3>3. QED
      BY <1>0, <3>1, <3>2
  <2>3. QED
    BY <2>1, <2>2
<1>10. Acyclic(ht2, nx2)
  <2>1. ASSUME NEW c \in Dicts, NEW a \in Buckets, NEW m \in Chain(ht2, nx2, c, a)
        PROVE  m \notin Reach(nx2, nx2[m])
    <3>1. m \in Ch(c, a) /\ m # n
      BY <2>1, <1>9
    <3>2. m \in Nodes /\ m \notin Reach(nx, nx[m]) /\ nx[m] \in Ch(c, a) \cup {Nil}
      BY <3>1, ChainFacts
    <3>3. Reach(nx2, m) = Reach(nx, m) \ {n}
      BY <1>8, <3>1
    <3>4. nx2[m] \in Reach(nx2, m) \cup {Nil}
      BY <1>4, <3>1, <3>2, ReachFrom, ReachClosed DEF HeapType
    <3>5. nx2[m] \in Reach(nx, nx[m]) \cup {Nil}
      <4>1. CASE nx2[m] = nx[m]
        BY <4>1, <3>2, ReachFrom, ChainFacts DEF Pointers
      <4>2. CASE nx2[m] # nx[m]
        <5>1. nx[m] = n /\ nx2[m] = nx[n]
          BY <1>0, <4>2, <3>2, <1>1, <1>4 DEF HeapType
        <5>2. QED
          BY <5>1, <1>1, ReachFrom, ReachClosed
      <4>3. QED
        BY <4>1, <4>2
    <3>6. CASE nx2[m] = Nil
      BY <3>6, ReachNil
    <3>7. CASE nx2[m] # Nil
      <4>1. nx2[m] \in Ch(c, a) /\ nx2[m] # n
        BY <3>3, <3>4, <3>7, <3>1, ChainFacts
      <4>2. Reach(nx2, nx2[m]) \subseteq Reach(nx, nx2[m])
        BY <4>1, <1>8
      <4>3. Reach(nx, nx2[m]) \subseteq Reach(nx, nx[m])
        BY <3>5, <1>1, ReachTrans
      <4>4. QED
        BY <4>2, <4>3, <3>2
    <3>8. QED
      BY <3>6, <3>7
  <2>2. QED
    BY <2>1 DEF Acyclic
<1>11. Sound(ht2, nx2, ky)
  BY <1>4, <1>9, <1>10, PartSound
<1>12. QED
  BY <1>8, <1>9, <1>11

\* Node n of no chain is pushed with key k, which the table does not have.
Pushes(d, k, n, ht, nx, ky, ht2, nx2, ky2) ==
    /\ \A c \in Dicts, a \in Buckets : n \notin Chain(ht, nx, c, a)
    /\ \A m \in Chain(ht, nx, d, Hash(k)) : ky[m] # k
    /\ HeapType(ht2, nx2, ky2)
    /\ ht2[d][Hash(k)] = n /\ nx2[n] = ht[d][Hash(k)] /\ ky2[n] = k
    /\ \A c \in Dicts, a \in Buckets : c # d \/ a # Hash(k) => ht2[c][a] = ht[c][a]
    /\ \A x \in Nodes : x # n => nx2[x] = nx[x] /\ ky2[x] = ky[x]

LEMMA PushSound ==
    ASSUME NEW ht, NEW nx, NEW ky, Sound(ht, nx, ky),
           NEW d \in Dicts, NEW k \in Keys, NEW n \in Nodes,
           NEW ht2, NEW nx2, NEW ky2, Pushes(d, k, n, ht, nx, ky, ht2, nx2, ky2)
    PROVE  /\ Sound(ht2, nx2, ky2)
           /\ Chain(ht2, nx2, d, Hash(k)) = Chain(ht, nx, d, Hash(k)) \cup {n}
           /\ \A c \in Dicts, a \in Buckets :
                 c # d \/ a # Hash(k) => Chain(ht2, nx2, c, a) = Chain(ht, nx, c, a)
           /\ \A c \in Dicts, a \in Buckets : \A m \in Chain(ht, nx, c, a) :
                 Reach(nx2, m) = Reach(nx, m)
<1> DEFINE b == Hash(k)
           h == ht[d][b]
<1>1. /\ ht \in [Dicts -> [Buckets -> Pointers]] /\ nx \in [Nodes -> Pointers]
      /\ b \in Buckets /\ h \in Pointers
  BY HashType DEF Sound, HeapType
<1>2. HeapType(ht2, nx2, ky2) /\ nx2 \in [Nodes -> Pointers]
  BY DEF Pushes, HeapType
<1> HIDE DEF b
<1>3. ht2[d][b] = n /\ \A c \in Dicts, a \in Buckets : c # d \/ a # b => ht2[c][a] = ht[c][a]
  BY DEF Pushes, b
<1> HIDE DEF h
<1>4. nx2[n] = h
  BY DEF Pushes, b, h
<1>5. ASSUME NEW c \in Dicts, NEW a \in Buckets
      PROVE  /\ Reach(nx2, ht[c][a]) = Chain(ht, nx, c, a)
             /\ \A m \in Chain(ht, nx, c, a) :
                   m \in Nodes /\ m # n /\ nx2[m] = nx[m] /\ ky2[m] = ky[m]
  <2>1. \A m \in Chain(ht, nx, c, a) : m \in Nodes /\ m # n
    BY ReachType DEF Pushes, Chain
  <2>2. \A m \in Chain(ht, nx, c, a) : nx2[m] = nx[m] /\ ky2[m] = ky[m]
    BY <2>1 DEF Pushes
  <2>3. \A m \in Reach(nx, ht[c][a]) : nx2[m] = nx[m]
    BY <2>2 DEF Chain
  <2>4. Reach(nx2, ht[c][a]) = Reach(nx, ht[c][a])
    BY <1>1, <1>2, <2>3, ReachSame
  <2>5. QED
    BY <2>1, <2>2, <2>4 DEF Chain
<1>6. ASSUME NEW c \in Dicts, NEW a \in Buckets, NEW m \in Chain(ht, nx, c, a)
      PROVE  Reach(nx2, m) = Reach(nx, m)
  <2>1. Reach(nx, m) \subseteq Chain(ht, nx, c, a)
    BY ChainFacts
  <2>2. \A x \in Reach(nx, m) : nx2[x] = nx[x]
    BY <2>1, <1>5
  <2>3. QED
    BY <2>2, <1>1, <1>2, ReachSame
<1>7. ASSUME NEW c \in Dicts, NEW a \in Buckets, c # d \/ a # b
      PROVE  Chain(ht2, nx2, c, a) = Chain(ht, nx, c, a)
  BY <1>3, <1>5, <1>7 DEF Chain
<1>8. Chain(ht2, nx2, d, b) = Chain(ht, nx, d, b) \cup {n}
  <2>1. Reach(nx2, n) = {n} \cup Reach(nx2, h)
    BY <1>2, <1>4, ReachStep
  <2>2. Reach(nx2, h) = Chain(ht, nx, d, b)
    BY <1>1, <1>5 DEF h
  <2>3. QED
    BY <2>1, <2>2, <1>3 DEF Chain
<1>9. n \notin Chain(ht, nx, d, b) /\ \A m \in Chain(ht, nx, d, b) : ky[m] # k
  BY <1>1 DEF Pushes, b
<1>10. Acyclic(ht2, nx2)
  <2>1. ASSUME NEW c \in Dicts, NEW a \in Buckets, NEW m \in Chain(ht2, nx2, c, a)
        PROVE  m \notin Reach(nx2, nx2[m])
    <3>1. CASE m = n
      <4>1. Reach(nx2, nx2[m]) = Chain(ht, nx, d, b)
        BY <3>1, <1>4, <1>1, <1>5 DEF h
      <4>2. QED
        BY <4>1, <3>1, <1>9
    <3>2. CASE m # n
      <4>1. m \in Chain(ht, nx, c, a)
        BY <2>1, <3>2, <1>7, <1>8
      <4>2. m \notin Reach(nx, nx[m]) /\ nx[m] \in Chain(ht, nx, c, a) \cup {Nil}
        BY <4>1, ChainFacts DEF Sound, Acyclic
      <4>3. nx2[m] = nx[m]
        BY <4>1, <1>5
      <4>4. CASE nx[m] = Nil
        BY <4>3, <4>4, ReachNil
      <4>5. CASE nx[m] \in Chain(ht, nx, c, a)
        BY <4>2, <4>3, <4>5, <1>6
      <4>6. QED
        BY <4>2, <4>4, <4>5
    <3>3. QED
      BY <3>1, <3>2
  <2>2. QED
    BY <2>1 DEF Acyclic
<1>11. Filed(ht2, nx2, ky2)
  <2>1. ASSUME NEW c \in Dicts, NEW a \in Buckets, NEW m \in Chain(ht2, nx2, c, a)
        PROVE  Hash(ky2[m]) = a
    <3>1. CASE m \in Chain(ht, nx, c, a)
      BY <3>1, <1>5 DEF Sound, Filed
    <3>2. CASE m \notin Chain(ht, nx, c, a)
      <4>1. c = d /\ a = b /\ m = n
        BY <2>1, <3>2, <1>7, <1>8
      <4>2. QED
        BY <4>1 DEF Pushes, b
    <3>3. QED
      BY <3>1, <3>2
  <2>2. ASSUME NEW c \in Dicts, NEW a \in Buckets,
               NEW l \in Chain(ht2, nx2, c, a), NEW m \in Chain(ht2, nx2, c, a), ky2[m] = ky2[l]
        PROVE  m = l
    <3>1. CASE c # d \/ a # b
      <4>1. l \in Chain(ht, nx, c, a) /\ m \in Chain(ht, nx, c, a)
        BY <2>2, <3>1, <1>7
      <4>2. ky[m] = ky[l]
        BY <4>1, <2>2, <1>5
      <4>3. QED
        BY <4>1, <4>2 DEF Sound, Filed
    <3>2. CASE c = d /\ a = b
      <4>1. CASE l = n \/ m = n
        <5>1. ky2[n] = k /\ \A x \in Chain(ht, nx, d, b) : ky2[x] # k
          BY <1>1, <1>5, <1>9 DEF Pushes
        <5>2. QED
          BY <2>2, <3>2, <4>1, <5>1, <1>8
      <4>2. CASE l # n /\ m # n
        <5>1. l \in Chain(ht, nx, d, b) /\ m \in Chain(ht, nx, d, b)
          BY <2>2, <3>2, <4>2, <1>8
        <5>2. ky[m] = ky[l]
          BY <5>1, <2>2, <1>1, <1>5
        <5>3. QED
          <6>1. \A x \in Chain(ht, nx, d, b) : \A y \in Chain(ht, nx, d, b) : ky[y] = ky[x] => y = x
            BY <1>1 DEF Sound, Filed
          <6>2. QED
            BY <5>1, <5>2, <6>1
      <4>3. QED
        BY <4>1, <4>2
    <3>3. QED
      BY <3>1, <3>2
  <2>3. QED
    BY <2>1, <2>2 DEF Filed
<1>12. Apart(ht2, nx2)
  <2>1. ASSUME NEW c \in Dicts, NEW e \in Dicts, NEW a \in Buckets, NEW f \in Buckets, c # e,
               NEW m \in Chain(ht2, nx2, c, a), m \in Chain(ht2, nx2, e, f)
        PROVE  FALSE
    <3>1. m = n \/ m \in Chain(ht, nx, c, a)
      BY <1>7, <1>8
    <3>2. m = n \/ m \in Chain(ht, nx, e, f)
      BY <2>1, <1>7, <1>8
    <3>3. CASE m = n
      <4>1. c = d /\ e = d
        BY <3>3, <2>1, <1>5, <1>7
      <4>2. QED
        BY <4>1, <2>1
    <3>4. CASE m # n
      BY <3>1, <3>2, <3>4, <2>1, ChainsApart
    <3>5. QED
      BY <3>3, <3>4
  <2>2. QED
    BY <2>1 DEF Apart
<1>13. Sound(ht2, nx2, ky2)
  BY <1>2, <1>10, <1>11, <1>12 DEF Sound
<1>14. QED
  BY <1>6, <1>7, <1>8, <1>13 DEF b

\* dict_lookup finds a key if and only if the table has it.
LEMMA FindFacts ==
    ASSUME TableInv, NEW d \in Dicts, NEW k \in Keys
    PROVE  /\ \/ Find(d, k) = Nil
              \/ Find(d, k) \in NodesIn(d, Hash(k)) /\ key[Find(d, k)] = k
           /\ \A n \in NodesIn(d, Hash(k)) : key[n] = k => Find(d, k) = n
<1> DEFINE C == NodesIn(d, Hash(k))
           S == {n \in C : key[n] = k}
<1>1. Sound(hashtab, next, key) /\ Hash(k) \in Buckets /\ C = Chain(hashtab, next, d, Hash(k))
  BY HashType DEF TableInv, NodesIn, From, Chain
<1>2. \A m, n \in S : m = n
  BY <1>1 DEF Sound, Filed
<1>3. \A n \in S : n \in From(n) /\ n \in Nodes
  BY <1>1, ReachFrom, ReachType DEF From, Chain
<1>4. \A n \in S : S \subseteq From(n)
  BY <1>2, <1>3
<1>5. CASE S = {}
  <2>1. Find(d, k) = Nil
    BY <1>5 DEF Find
  <2>2. QED
    BY <1>5, <2>1
<1>6. CASE S # {}
  <2>1. Find(d, k) = CHOOSE n \in S : S \subseteq From(n)
    BY <1>6 DEF Find
  <2>2. Find(d, k) \in S
    BY <2>1, <1>6, <1>4
  <2>3. QED
    BY <2>2, <1>2
<1>7. QED
  BY <1>5, <1>6

\* The node before a node of a chain.
LEMMA BeforeFacts ==
    ASSUME TableInv, NEW d \in Dicts, NEW b \in Buckets, NEW n \in NodesIn(d, b)
    PROVE  \/ Before(d, b, n) = Nil /\ hashtab[d][b] = n
           \/ Before(d, b, n) \in NodesIn(d, b) /\ next[Before(d, b, n)] = n
<1> DEFINE P == {p \in NodesIn(d, b) : next[p] = n}
<1>1. /\ Sound(hashtab, next, key)
      /\ NodesIn(d, b) = Chain(hashtab, next, d, b)
      /\ NodesIn(d, b) = Reach(next, hashtab[d][b])
      /\ n \in Chain(hashtab, next, d, b)
  BY DEF TableInv, NodesIn, From, Chain
<1>2. next \in [Nodes -> Pointers] /\ hashtab[d][b] \in Nodes
  BY <1>1, ChainFacts
<1>3. CASE P = {}
  <2>1. hashtab[d][b] = n
    BY <1>1, <1>2, <1>3, SomeBefore
  <2>2. QED
    BY <1>3, <2>1 DEF Before
<1>4. CASE P # {}
  <2>1. Before(d, b, n) = CHOOSE p \in P : TRUE
    BY <1>4 DEF Before
  <2>2. Before(d, b, n) \in P
    BY <2>1, <1>4
  <2>3. QED
    BY <2>2
<1>5. QED
  BY <1>3, <1>4

\* Counting nodes.
LEMMA NodesFinite ==
    ASSUME NEW S \in SUBSET Nodes
    PROVE  /\ IsFiniteSet(S) /\ Cardinality(S) \in Nat
           /\ \A n \in S : Cardinality(S \ {n}) = Cardinality(S) - 1
           /\ \A n \in Nodes \ S : Cardinality(S \cup {n}) = Cardinality(S) + 1
<1>1. IsFiniteSet(S)
  BY NodesAssumption, FS_Subset
<1>2. \A n \in S : Cardinality(S \ {n}) = Cardinality(S) - 1
  BY <1>1, FS_RemoveElement
<1>3. \A n \in Nodes \ S : Cardinality(S \cup {n}) = Cardinality(S) + 1
  BY <1>1, FS_AddElement
<1>4. QED
  BY <1>1, <1>2, <1>3, FS_CardinalityType

\* The names of the model for the chains of a heap.
LEMMA ChainNames ==
    /\ \A d \in Dicts, b \in Buckets : NodesIn(d, b) = Chain(hashtab, next, d, b)
    /\ \A d \in Dicts, b \in Buckets : NodesIn(d, b)' = Chain(hashtab', next', d, b)
    /\ \A n : From(n) = Reach(next, n)
    /\ \A n : From(n)' = Reach(next', n)
    /\ \A d \in Dicts : \A n : n \in NodesOf(d) <=> \E b \in Buckets : n \in NodesIn(d, b)
    /\ \A d \in Dicts : \A n : n \in NodesOf(d)' <=> \E b \in Buckets : n \in NodesIn(d, b)'
    /\ \A d \in Dicts : NodesOf(d) \in SUBSET Nodes
    /\ \A d \in Dicts : NodesOf(d)' \in SUBSET Nodes
<1>1. /\ \A d \in Dicts, b \in Buckets : NodesIn(d, b) = Chain(hashtab, next, d, b)
      /\ \A d \in Dicts, b \in Buckets : NodesIn(d, b)' = Chain(hashtab', next', d, b)
  BY DEF NodesIn, From, Chain
<1>2. \A d \in Dicts : \A n : n \in NodesOf(d) <=> \E b \in Buckets : n \in NodesIn(d, b)
  BY DEF NodesOf
<1>3. \A d \in Dicts : \A n : n \in NodesOf(d)' <=> \E b \in Buckets : n \in NodesIn(d, b)'
  BY DEF NodesOf
<1>4. \A d \in Dicts : NodesOf(d) \in SUBSET Nodes
  BY <1>1, <1>2, ReachType DEF Chain
<1>5. \A d \in Dicts : NodesOf(d)' \in SUBSET Nodes
  BY <1>1, <1>3, ReachType DEF Chain
<1>6. QED
  BY <1>1, <1>2, <1>3, <1>4, <1>5 DEF From

\* Two tables have no node in common.
LEMMA TablesApart ==
    ASSUME TableInv, NEW c \in Dicts, NEW d \in Dicts, c # d
    PROVE  NodesOf(c) \cap NodesOf(d) = {}
<1>1. Sound(hashtab, next, key)
  BY DEF TableInv
<1>2. \A n : n \in NodesOf(c) => n \notin NodesOf(d)
  BY <1>1, ChainNames, ChainsApart
<1>3. QED
  BY <1>2

\* An entry is taken out of a table and its node is freed.
LEMMA TableAfterUnlink ==
    ASSUME TypeOK, TableInv,
           NEW d \in Dicts, NEW b \in Buckets, NEW n \in NodesIn(d, b), NEW q,
           \/ q = Nil /\ hashtab[d][b] = n
           \/ q \in NodesIn(d, b) /\ next[q] = n,
           Unlink(d, b, q, n), count' = [count EXCEPT ![d] = @ - 1],
           used' = used \ {n}, key' = key
    PROVE  /\ TableInv'
           /\ \A c \in Dicts, a \in Buckets : NodesIn(c, a)' = NodesIn(c, a) \ {n}
           /\ \A c \in Dicts, a \in Buckets : \A m \in NodesIn(c, a) :
                 m # n => From(m)' = From(m) \ {n}
<1>1. Sound(hashtab, next, key) /\ n \in Chain(hashtab, next, d, b)
  BY ChainNames DEF TableInv
<1>2. Unlinks(d, b, q, n, hashtab, next, hashtab', next')
  <2>1. CASE q = Nil
    <3>1. Nil \notin NodesIn(d, b)
      BY ChainNames, ReachType, NodesAssumption DEF Chain
    <3>2. QED
      BY <2>1, <3>1 DEF Unlink, Unlinks
  <2>2. CASE q # Nil
    BY <2>2, ChainNames DEF Unlink, Unlinks
  <2>3. QED
    BY <2>1, <2>2
<1>3. /\ Sound(hashtab', next', key)
      /\ \A c \in Dicts, a \in Buckets :
            Chain(hashtab', next', c, a) = Chain(hashtab, next, c, a) \ {n}
      /\ \A c \in Dicts, a \in Buckets : \A m \in Chain(hashtab, next, c, a) :
            m # n => Reach(next', m) = Reach(next, m) \ {n}
  BY <1>1, <1>2, UnlinkSound
<1>4. \A c \in Dicts, a \in Buckets : NodesIn(c, a)' = NodesIn(c, a) \ {n}
  BY <1>3, ChainNames
<1>5. \A c \in Dicts, a \in Buckets : \A m \in NodesIn(c, a) : m # n => From(m)' = From(m) \ {n}
  BY <1>3, ChainNames
<1>6. n \in NodesOf(d)
  BY ChainNames
<1>7. \A c \in Dicts : NodesOf(c)' = NodesOf(c) \ {n}
  BY <1>4, ChainNames
<1>8. used' = UNION {NodesOf(c)' : c \in Dicts}
  BY <1>7 DEF TableInv
<1>9. ASSUME NEW c \in Dicts PROVE count'[c] = Cardinality(NodesOf(c)')
  <2>1. count[c] = Cardinality(NodesOf(c)) /\ count \in [Dicts -> Int]
    BY DEF TableInv, CountIsRight, TypeOK
  <2>2. NodesOf(c) \in SUBSET Nodes
    BY ChainNames
  <2>3. CASE c = d
    BY <2>1, <2>2, <2>3, <1>6, <1>7, NodesFinite
  <2>4. CASE c # d
    <3>1. n \notin NodesOf(c)
      BY <2>4, <1>6, TablesApart
    <3>2. NodesOf(c)' = NodesOf(c)
      BY <3>1, <1>7
    <3>3. QED
      BY <3>2, <2>1, <2>4
  <2>5. QED
    BY <2>3, <2>4
<1>10. TableInv'
  BY <1>3, <1>8, <1>9 DEF TableInv, CountIsRight
<1>11. QED
  BY <1>4, <1>5, <1>10

\* An entry is put into a table.
LEMMA TableAfterInstall ==
    ASSUME TypeOK, TableInv, NEW d \in Dicts, NEW k \in Keys, Install(d, k)
    PROVE  /\ TableInv'
           /\ \A c \in Dicts, a \in Buckets : \A m \in NodesIn(c, a) :
                 m \in NodesIn(c, a)' /\ From(m)' = From(m) /\ key'[m] = key[m]
<1> DEFINE b == Hash(k)
<1>1. PICK n \in Nodes \ used :
         /\ used' = used \cup {n}
         /\ key' = [key EXCEPT ![n] = k]
         /\ next' = [next EXCEPT ![n] = hashtab[d][b]]
         /\ hashtab' = [hashtab EXCEPT ![d][b] = n]
  BY DEF Install
<1>2. /\ Sound(hashtab, next, key) /\ b \in Buckets
      /\ hashtab \in [Dicts -> [Buckets -> Pointers]]
      /\ next \in [Nodes -> Pointers] /\ key \in [Nodes -> Keys]
  BY HashType DEF TableInv, TypeOK
<1>3. \A c \in Dicts, a \in Buckets : n \notin Chain(hashtab, next, c, a)
  BY <1>1, ChainNames DEF TableInv
<1>4. \A m \in Chain(hashtab, next, d, b) : key[m] # k
  <2>1. Find(d, k) = Nil
    BY DEF Install, Present
  <2>2. \A m \in NodesIn(d, b) : m # Nil
    BY <1>2, ChainNames, ReachType, NodesAssumption DEF Chain
  <2>3. QED
    BY <1>2, <2>1, <2>2, FindFacts, ChainNames
<1>5. hashtab[d][b] \in Pointers
  BY <1>2
<1>6. /\ next' \in [Nodes -> Pointers] /\ next'[n] = hashtab[d][b]
      /\ \A x \in Nodes : x # n => next'[x] = next[x]
  BY <1>1, <1>2, <1>5
<1>7. /\ key' \in [Nodes -> Keys] /\ key'[n] = k
      /\ \A x \in Nodes : x # n => key'[x] = key[x]
  BY <1>1, <1>2
<1>8. /\ Sound(hashtab', next', key')
      /\ Chain(hashtab', next', d, b) = Chain(hashtab, next, d, b) \cup {n}
      /\ \A c \in Dicts, a \in Buckets :
            c # d \/ a # b => Chain(hashtab', next', c, a) = Chain(hashtab, next, c, a)
      /\ \A c \in Dicts, a \in Buckets : \A m \in Chain(hashtab, next, c, a) :
            Reach(next', m) = Reach(next, m)
  <2>1. /\ hashtab' \in [Dicts -> [Buckets -> Pointers]] /\ hashtab'[d][b] = n
        /\ \A c \in Dicts, a \in Buckets : c # d \/ a # b => hashtab'[c][a] = hashtab[c][a]
    BY <1>1, <1>2 DEF Pointers
  <2>2. Pushes(d, k, n, hashtab, next, key, hashtab', next', key')
    BY <2>1, <1>3, <1>4, <1>6, <1>7 DEF Pushes, HeapType
  <2>3. Sound(hashtab, next, key) /\ n \in Nodes
    BY <1>1, <1>2
  <2>4. QED
    BY <2>2, <2>3, PushSound
<1> HIDE DEF b
<1>9. NodesOf(d)' = NodesOf(d) \cup {n} /\ n \notin NodesOf(d)
  <2>1. NodesIn(d, b)' = NodesIn(d, b) \cup {n}
    BY <1>2, <1>8, ChainNames
  <2>2. \A a \in Buckets : a # b => NodesIn(d, a)' = NodesIn(d, a)
    BY <1>8, ChainNames
  <2>3. \A m : m \in NodesOf(d)' <=> m \in NodesOf(d) \cup {n}
    BY <1>2, <2>1, <2>2, ChainNames
  <2>4. n \notin NodesOf(d)
    BY <1>3, ChainNames
  <2>5. QED
    BY <2>3, <2>4
<1>10. ASSUME NEW c \in Dicts, c # d PROVE NodesOf(c)' = NodesOf(c)
  <2>1. \A a \in Buckets : NodesIn(c, a)' = NodesIn(c, a)
    BY <1>8, <1>10, ChainNames
  <2>2. \A m : m \in NodesOf(c)' <=> m \in NodesOf(c)
    BY <2>1, ChainNames
  <2>3. QED
    BY <2>2
<1>11. used' = UNION {NodesOf(c)' : c \in Dicts}
  <2>1. used = UNION {NodesOf(c) : c \in Dicts}
    BY DEF TableInv
  <2>2. \A m : m \in used' <=> \E c \in Dicts : m \in NodesOf(c)'
    BY <2>1, <1>1, <1>9, <1>10
  <2>3. QED
    BY <2>2
<1>12. ASSUME NEW c \in Dicts PROVE count'[c] = Cardinality(NodesOf(c)')
  <2>1. /\ count[c] = Cardinality(NodesOf(c)) /\ count \in [Dicts -> Int]
        /\ count' = [count EXCEPT ![d] = @ + 1]
    BY DEF TableInv, CountIsRight, TypeOK, Install
  <2>2. NodesOf(c) \in SUBSET Nodes
    BY ChainNames
  <2>3. CASE c = d
    BY <2>1, <2>2, <2>3, <1>1, <1>9, NodesFinite
  <2>4. CASE c # d
    BY <2>1, <2>4, <1>10
  <2>5. QED
    BY <2>3, <2>4
<1>13. TableInv'
  BY <1>8, <1>11, <1>12 DEF TableInv, CountIsRight
<1>14. ASSUME NEW c \in Dicts, NEW a \in Buckets, NEW m \in NodesIn(c, a)
       PROVE  m \in NodesIn(c, a)' /\ From(m)' = From(m) /\ key'[m] = key[m]
  <2>1. m \in Chain(hashtab, next, c, a) /\ m \in Nodes
    BY ChainNames, ReachType DEF Chain
  <2>2. m \in NodesIn(c, a)'
    BY <2>1, <1>8, ChainNames
  <2>3. From(m)' = From(m)
    BY <2>1, <1>8, ChainNames
  <2>4. QED
    BY <2>1, <2>2, <2>3, <1>3, <1>7
<1>15. QED
  BY <1>13, <1>14

\* All entries of a table are freed.
LEMMA TableAfterRemoveAll ==
    ASSUME TypeOK, TableInv, NEW d \in Dicts, RemoveAll(d)
    PROVE  /\ TableInv'
           /\ \A c \in Dicts, a \in Buckets : NodesIn(c, a)' = NodesIn(c, a) \ NodesOf(d)
           /\ \A c \in Dicts, a \in Buckets : \A m \in NodesIn(c, a) :
                 m \notin NodesOf(d) => From(m)' = From(m) \ NodesOf(d)
<1>1. /\ hashtab' = [hashtab EXCEPT ![d] = [b \in Buckets |-> Nil]]
      /\ count' = [count EXCEPT ![d] = @ - Cardinality(NodesOf(d))]
      /\ used' = used \ NodesOf(d) /\ key' = key /\ next' = next
  BY DEF RemoveAll, Free
<1>2. /\ hashtab \in [Dicts -> [Buckets -> Pointers]] /\ Sound(hashtab, next, key)
      /\ next \in [Nodes -> Pointers] /\ key \in [Nodes -> Keys]
  BY DEF TypeOK, TableInv
<1>3. \A a \in Buckets : hashtab'[d][a] = Nil
  BY <1>1, <1>2
<1>4. \A c \in Dicts, a \in Buckets : c # d => hashtab'[c][a] = hashtab[c][a]
  BY <1>1, <1>2
<1>5. \A a \in Buckets : NodesIn(d, a)' = {}
  BY <1>3, ChainNames, ReachNil DEF Chain
<1>6. \A c \in Dicts, a \in Buckets : c # d => NodesIn(c, a)' = NodesIn(c, a)
  BY <1>1, <1>4, ChainNames DEF Chain
<1>7. \A c \in Dicts : c # d => NodesOf(c) \cap NodesOf(d) = {}
  BY TablesApart
<1>8. \A c \in Dicts, a \in Buckets : NodesIn(c, a) \subseteq NodesOf(c)
  BY ChainNames
<1>9. ASSUME NEW c \in Dicts, NEW a \in Buckets
      PROVE  NodesIn(c, a)' = NodesIn(c, a) \ NodesOf(d)
  <2>1. CASE c = d
    BY <2>1, <1>5, <1>8
  <2>2. CASE c # d
    <3>1. NodesIn(c, a)' = NodesIn(c, a)
      BY <2>2, <1>6
    <3>2. NodesIn(c, a) \cap NodesOf(d) = {}
      BY <2>2, <1>7, <1>8
    <3>3. QED
      BY <3>1, <3>2
  <2>3. QED
    BY <2>1, <2>2
<1>10. ASSUME NEW c \in Dicts, NEW a \in Buckets, NEW m \in NodesIn(c, a), m \notin NodesOf(d)
       PROVE  From(m)' = From(m) \ NodesOf(d)
  <2>1. c # d
    BY <1>10, <1>8
  <2>2. From(m) \subseteq NodesIn(c, a)
    BY <1>2, ChainFacts, ChainNames
  <2>3. From(m)' = From(m)
    BY <1>1, ChainNames
  <2>4. From(m) \cap NodesOf(d) = {}
    BY <2>1, <2>2, <1>7, <1>8
  <2>5. QED
    BY <2>3, <2>4
<1>11. Sound(hashtab', next', key')
  <2>1. HeapType(hashtab', next', key)
    <3>1. [b \in Buckets |-> Nil] \in [Buckets -> Pointers]
      BY DEF Pointers
    <3>2. QED
      BY <3>1, <1>1, <1>2 DEF HeapType
  <2>2. \A c \in Dicts, a \in Buckets :
           Chain(hashtab', next', c, a) \subseteq Chain(hashtab, next, c, a)
    BY <1>9, ChainNames
  <2>3. Acyclic(hashtab', next')
    BY <2>2, <1>1, <1>2 DEF Acyclic, Sound
  <2>4. QED
    BY <2>1, <2>2, <2>3, <1>1, <1>2, PartSound
<1>12. NodesOf(d)' = {} /\ \A c \in Dicts : c # d => NodesOf(c)' = NodesOf(c)
  <2>1. \A m : m \notin NodesOf(d)'
    BY <1>5, ChainNames
  <2>2. ASSUME NEW c \in Dicts, c # d PROVE NodesOf(c)' = NodesOf(c)
    <3>1. \A m : m \in NodesOf(c)' <=> m \in NodesOf(c)
      BY <2>2, <1>6, ChainNames
    <3>2. QED
      BY <3>1
  <2>3. QED
    BY <2>1, <2>2
<1>13. used' = UNION {NodesOf(c)' : c \in Dicts}
  <2>1. used = UNION {NodesOf(c) : c \in Dicts}
    BY DEF TableInv
  <2>2. \A m : m \in used' <=> \E c \in Dicts : m \in NodesOf(c)'
    BY <2>1, <1>1, <1>7, <1>12
  <2>3. QED
    BY <2>2
<1>14. ASSUME NEW c \in Dicts PROVE count'[c] = Cardinality(NodesOf(c)')
  <2>1. count[c] = Cardinality(NodesOf(c)) /\ count \in [Dicts -> Int]
    BY DEF TableInv, CountIsRight, TypeOK
  <2>2. CASE c = d
    <3>1. count'[c] = count[c] - Cardinality(NodesOf(c))
      BY <1>1, <2>1, <2>2
    <3>2. QED
      BY <3>1, <2>1, <2>2, <1>12, FS_EmptySet
  <2>3. CASE c # d
    BY <1>1, <1>12, <2>1, <2>3
  <2>4. QED
    BY <2>2, <2>3
<1>15. TableInv'
  BY <1>11, <1>13, <1>14 DEF TableInv, CountIsRight
<1>16. QED
  BY <1>9, <1>10, <1>15

\* Node n, the head of bucket b of table 1, is moved to table 2, which lacks its key.
Moves(b, n) ==
    /\ 2 \in Dicts /\ b \in Buckets /\ n \in NodesIn(1, b) /\ hashtab[1][b] = n
    /\ Find(2, key[n]) = Nil
    /\ hashtab' = [hashtab EXCEPT ![1][b] = next[n], ![2][Hash(key[n])] = n]
    /\ next' = [next EXCEPT ![n] = hashtab[2][Hash(key[n])]]
    /\ count' = [count EXCEPT ![1] = @ - 1, ![2] = @ + 1]
    /\ key' = key /\ used' = used

LEMMA TableAfterMove ==
    ASSUME TypeOK, TableInv, NEW b, NEW n, Moves(b, n)
    PROVE  /\ TableInv'
           /\ \A a \in Buckets : NodesIn(1, a)' = NodesIn(1, a) \ {n}
           /\ \A a \in Buckets : \A m \in NodesIn(1, a) : m # n => From(m)' = From(m) \ {n}
           /\ hashtab'[1][b] = next[n]
           /\ \A a \in Buckets : a # b => hashtab'[1][a] = hashtab[1][a]
<1> DEFINE k == key[n]
           h == Hash(k)
           ht == [hashtab EXCEPT ![1][b] = next[n]]
<1>1. /\ hashtab \in [Dicts -> [Buckets -> Pointers]] /\ count \in [Dicts -> Int]
      /\ next \in [Nodes -> Pointers] /\ key \in [Nodes -> Keys]
      /\ Sound(hashtab, next, key)
  BY DEF TypeOK, TableInv
<1>2. 1 \in Dicts /\ 2 \in Dicts /\ b \in Buckets /\ hashtab[1][b] = n /\ key' = key
  BY DictsAssumption DEF Moves
<1>3. n \in Chain(hashtab, next, 1, b) /\ n \in Nodes
  BY <1>2, ChainNames, ReachType DEF Moves, Chain
<1>4. k \in Keys /\ h \in Buckets
  BY <1>1, <1>3, HashType
\* It is unlinked from table 1.
<1>5. /\ Sound(ht, next, key)
      /\ \A c \in Dicts, a \in Buckets :
            Chain(ht, next, c, a) = Chain(hashtab, next, c, a) \ {n}
      /\ \A c \in Dicts, a \in Buckets : \A m \in Chain(hashtab, next, c, a) :
            m # n => Reach(next, m) = Reach(next, m) \ {n}
  <2>1. Unlinks(1, b, Nil, n, hashtab, next, ht, next)
    BY <1>2 DEF Unlinks
  <2> HIDE DEF ht
  <2>2. QED
    BY <2>1, <1>1, <1>2, <1>3, UnlinkSound
\* It is pushed on table 2.
<1>6. /\ ht[1][b] = next[n]
      /\ \A c \in Dicts, a \in Buckets : c # 1 \/ a # b => ht[c][a] = hashtab[c][a]
  BY <1>1, <1>2
<1>7. /\ hashtab' = [ht EXCEPT ![2][h] = n] /\ next' = [next EXCEPT ![n] = hashtab[2][h]]
      /\ ht \in [Dicts -> [Buckets -> Pointers]]
  BY <1>1, <1>2, <1>3 DEF Moves
<1> HIDE DEF ht
<1>8. Pushes(2, k, n, ht, next, key, hashtab', next', key)
  <2>1. \A c \in Dicts, a \in Buckets : n \notin Chain(ht, next, c, a)
    BY <1>5
  <2>2. \A m \in Chain(ht, next, 2, h) : key[m] # k
    <3>1. Find(2, k) = Nil
      BY DEF Moves
    <3>2. \A m \in NodesIn(2, h) : m # Nil
      BY <1>2, <1>4, ChainNames, ReachType, NodesAssumption DEF Chain
    <3>3. \A m \in NodesIn(2, h) : key[m] # k
      BY <1>2, <1>4, <3>1, <3>2, FindFacts
    <3>4. \A m \in Chain(hashtab, next, 2, h) : key[m] # k
      BY <1>2, <1>4, <3>3, ChainNames
    <3>5. QED
      BY <1>2, <1>4, <1>5, <3>4
  <2>3. hashtab[2][h] \in Pointers
    BY <1>1, <1>2, <1>4
  <2>4. next' \in [Nodes -> Pointers] /\ \A x \in Nodes : x # n => next'[x] = next[x]
    BY <1>1, <1>3, <1>7, <2>3
  <2>5. next'[n] = ht[2][h]
    BY <1>1, <1>2, <1>3, <1>4, <1>6, <1>7
  <2>6. hashtab' \in [Dicts -> [Buckets -> Pointers]] /\ hashtab'[2][h] = n
    BY <1>2, <1>3, <1>4, <1>7 DEF Pointers
  <2>7. \A c \in Dicts, a \in Buckets : c # 2 \/ a # h => hashtab'[c][a] = ht[c][a]
    BY <1>7
  <2>8. HeapType(hashtab', next', key)
    BY <2>4, <2>6, <1>1 DEF HeapType
  <2>9. QED
    BY <2>1, <2>2, <2>4, <2>5, <2>6, <2>7, <2>8 DEF Pushes
<1>9. /\ Sound(hashtab', next', key)
      /\ Chain(hashtab', next', 2, h) = Chain(ht, next, 2, h) \cup {n}
      /\ \A c \in Dicts, a \in Buckets :
            c # 2 \/ a # h => Chain(hashtab', next', c, a) = Chain(ht, next, c, a)
      /\ \A c \in Dicts, a \in Buckets : \A m \in Chain(ht, next, c, a) :
            Reach(next', m) = Reach(next, m)
  <2> HIDE DEF k
  <2>1. Sound(ht, next, key)
    BY <1>5
  <2>2. QED
    BY <2>1, <1>2, <1>3, <1>4, <1>8, PushSound
<1>10. ASSUME NEW a \in Buckets PROVE NodesIn(1, a)' = NodesIn(1, a) \ {n}
  BY <1>2, <1>5, <1>9, ChainNames
<1>11. ASSUME NEW a \in Buckets, NEW m \in NodesIn(1, a), m # n
       PROVE  From(m)' = From(m) \ {n}
  <2>1. m \in Chain(hashtab, next, 1, a)
    BY <1>2, ChainNames
  <2>2. m \in Chain(ht, next, 1, a) /\ Reach(next, m) = Reach(next, m) \ {n}
    BY <1>2, <1>5, <1>11, <2>1
  <2>3. Reach(next', m) = Reach(next, m)
    BY <1>2, <1>9, <2>2
  <2>4. QED
    BY <2>2, <2>3, ChainNames
<1>12. n \in NodesOf(1) /\ n \notin NodesOf(2)
  <2>1. n \in NodesOf(1)
    BY <1>2, ChainNames DEF Moves
  <2>2. QED
    BY <1>2, <2>1, TablesApart
<1>13. NodesOf(1)' = NodesOf(1) \ {n}
  <2>1. \A m : m \in NodesOf(1)' <=> m \in NodesOf(1) \ {n}
    BY <1>2, <1>10, ChainNames
  <2>2. QED
    BY <2>1
<1>14. NodesOf(2)' = NodesOf(2) \cup {n}
  <2>1. \A a \in Buckets : n \notin Chain(hashtab, next, 2, a)
    BY <1>2, <1>12, ChainNames
  <2>2. \A a \in Buckets : Chain(ht, next, 2, a) = Chain(hashtab, next, 2, a)
    BY <1>2, <1>5, <2>1
  <2>3. NodesIn(2, h)' = NodesIn(2, h) \cup {n}
    BY <1>2, <1>4, <1>9, <2>2, ChainNames
  <2>4. \A a \in Buckets : a # h => NodesIn(2, a)' = NodesIn(2, a)
    BY <1>2, <1>9, <2>2, ChainNames
  <2>5. \A m : m \in NodesOf(2)' <=> m \in NodesOf(2) \cup {n}
    BY <1>2, <1>4, <2>3, <2>4, ChainNames
  <2>6. QED
    BY <2>5
<1>15. Dicts = {1, 2}
  BY <1>2, DictsAssumption
<1>16. used' = UNION {NodesOf(c)' : c \in Dicts}
  <2>1. used = UNION {NodesOf(c) : c \in Dicts} /\ used' = used
    BY DEF TableInv, Moves
  <2>2. \A m : m \in used' <=> \E c \in Dicts : m \in NodesOf(c)'
    BY <2>1, <1>12, <1>13, <1>14, <1>15
  <2>3. QED
    BY <2>2
<1>17. ASSUME NEW c \in Dicts PROVE count'[c] = Cardinality(NodesOf(c)')
  <2>1. count[c] = Cardinality(NodesOf(c)) /\ NodesOf(c) \in SUBSET Nodes
    BY ChainNames DEF TableInv, CountIsRight
  <2>2. count' = [count EXCEPT ![1] = @ - 1, ![2] = @ + 1]
    BY DEF Moves
  <2>3. CASE c = 1
    <3>1. count'[c] = count[c] - 1
      BY <2>2, <2>3, <1>1, <1>2
    <3>2. QED
      BY <3>1, <2>1, <2>3, <1>12, <1>13, NodesFinite
  <2>4. CASE c = 2
    <3>1. count'[c] = count[c] + 1
      BY <2>2, <2>4, <1>1, <1>2
    <3>2. QED
      BY <3>1, <2>1, <2>4, <1>3, <1>12, <1>14, NodesFinite
  <2>5. QED
    BY <2>3, <2>4, <1>15
<1>18. TableInv'
  BY <1>2, <1>9, <1>16, <1>17 DEF TableInv, CountIsRight
<1>19. /\ hashtab'[1][b] = next[n]
       /\ \A a \in Buckets : a # b => hashtab'[1][a] = hashtab[1][a]
  BY <1>2, <1>4, <1>6, <1>7
<1>20. QED
  BY <1>10, <1>11, <1>18, <1>19

-----------------------------------------------------------------------------
(***************************************************************************)
(* The iterator.                                                           *)
(***************************************************************************)
ItType == [np : Pointers \cup {Stale}, prev : Pointers \cup {Stale},
           idx : Buckets \cup {NoBucket}, cmp : BOOLEAN]

LEMMA MinOfNat ==
    ASSUME NEW S \in SUBSET Nat, S # {}
    PROVE  Min(S) \in S /\ \A j \in S : Min(S) <= j
<1> DEFINE R == {p \in Nat \X Nat : p[1] < p[2]}
<1>1. IsWellFoundedOn(R, Nat)
  BY NatLessThanWellFounded DEF OpToRel
<1> HIDE DEF R
<1>2. PICK m \in S : \A j \in S : ~(<<j, m>> \in R)
  BY <1>1, WFMin
<1>3. ASSUME NEW a \in Nat, NEW b \in Nat, a < b PROVE <<a, b>> \in R
  BY <1>3 DEF R
<1>4. ASSUME NEW j \in S PROVE m <= j
  <2>1. m \in Nat /\ j \in Nat
    OBVIOUS
  <2>2. ~(j < m)
    BY <1>2, <1>3, <2>1
  <2>3. QED
    BY <2>1, <2>2
<1>5. QED
  BY <1>4 DEF Min

LEMMA LeastFacts ==
    ASSUME TypeOK, NEW S \in SUBSET Nodes, S # {}
    PROVE  Least(S) \in S /\ \A m \in S : key[Least(S)] <= key[m]
<1> DEFINE K == {key[n] : n \in S}
<1>1. key \in [Nodes -> Keys]
  BY DEF TypeOK
<1>2. K \in SUBSET Nat /\ K # {}
  BY <1>1, KeysAssumption
<1>3. Min(K) \in K /\ \A j \in K : Min(K) <= j
  BY <1>2, MinOfNat
<1>4. PICK n \in S : key[n] = Min(K)
  BY <1>3
<1>5. \A m \in S : key[n] <= key[m]
  BY <1>3, <1>4
<1>6. QED
  BY <1>5 DEF Least

\* What a node of table 1 is.
LEMMA NodeFacts ==
    ASSUME TypeOK, TableInv, NEW b \in Buckets, NEW n \in NodesIn(1, b)
    PROVE  /\ n \in Nodes /\ n # Nil /\ n # Stale /\ n \in NodesOf(1)
           /\ key[n] \in Keys /\ key[n] \in Nat /\ Hash(key[n]) = b
           /\ \A m \in NodesIn(1, b) : key[m] = key[n] => m = n
           /\ next[n] \in NodesIn(1, b) \cup {Nil}
           /\ From(n) = {n} \cup From(next[n]) /\ n \notin From(next[n])
           /\ From(n) \subseteq NodesIn(1, b)
           /\ hashtab[1][b] \in Nodes
<1>1. 1 \in Dicts /\ Sound(hashtab, next, key) /\ n \in Chain(hashtab, next, 1, b)
  BY DictsAssumption, ChainNames DEF TableInv
<1>2. n \in Nodes /\ n # Nil /\ n # Stale /\ n \in NodesOf(1)
  BY <1>1, ChainFacts, ChainNames, NodesAssumption
<1>3. key[n] \in Keys /\ key[n] \in Nat
  BY <1>2, KeysAssumption DEF TypeOK
<1>4. Hash(key[n]) = b /\ \A m \in Chain(hashtab, next, 1, b) : key[m] = key[n] => m = n
  BY <1>1 DEF Sound, Filed
<1>5. /\ next[n] \in Chain(hashtab, next, 1, b) \cup {Nil}
      /\ Reach(next, n) \subseteq Chain(hashtab, next, 1, b)
      /\ n \notin Reach(next, next[n]) /\ next \in [Nodes -> Pointers]
      /\ hashtab[1][b] \in Nodes
  BY <1>1, ChainFacts DEF Sound, Acyclic
<1>6. Reach(next, n) = {n} \cup Reach(next, next[n])
  BY <1>2, <1>5, ReachStep
<1>7. QED
  BY <1>1, <1>2, <1>3, <1>4, <1>5, <1>6, ChainNames

LEMMA HeadFacts ==
    ASSUME TypeOK, NEW b \in Buckets
    PROVE  /\ hashtab[1][b] \in Nodes \cup {Nil}
           /\ NodesIn(1, b) = From(hashtab[1][b])
           /\ hashtab[1][b] \in Nodes => hashtab[1][b] \in NodesIn(1, b)
           /\ hashtab[1][b] = Nil => NodesIn(1, b) = {}
<1>1. hashtab[1][b] \in Nodes \cup {Nil}
  BY DictsAssumption DEF TypeOK, Pointers
<1>2. NodesIn(1, b) = From(hashtab[1][b]) /\ From(hashtab[1][b]) = Reach(next, hashtab[1][b])
  BY DEF NodesIn, From
<1>3. QED
  BY <1>1, <1>2, ReachFrom, ReachNil

\* An iterator without a cmp may be at no entry, but only before the first.
Plain(i) ==
    /\ i \in ItType /\ i.np \in Pointers
    /\ i.np \in Nodes => i.idx \in Buckets /\ i.np \in NodesIn(1, i.idx)

\* _it_next goes on in the chain, comes to the end, or to the head of another chain.
WithinChain(i, j) ==
    /\ i.np \in Nodes /\ next[i.np] \in Nodes
    /\ j.np = next[i.np] /\ j.prev = i.np /\ j.idx = i.idx
ToTheEnd(i, j) ==
    /\ i.np \in Nodes => next[i.np] = Nil
    /\ j.np = Nil
    /\ \A b \in Buckets : b > i.idx => hashtab[1][b] = Nil
ToAnotherChain(i, j) ==
    /\ i.np \in Nodes => next[i.np] = Nil
    /\ j.idx \in Buckets /\ j.idx > i.idx
    /\ j.np = hashtab[1][j.idx] /\ j.np \in Nodes /\ j.prev = Nil
    /\ \A b \in Buckets : b > i.idx /\ b < j.idx => hashtab[1][b] = Nil

LEMMA PlainCases ==
    ASSUME TypeOK, TableInv, NEW i, Plain(i), NEW j, j = PlainNext(i)
    PROVE  /\ j \in ItType /\ j.cmp = i.cmp
           /\ WithinChain(i, j) \/ ToTheEnd(i, j) \/ ToAnotherChain(i, j)
<1> DEFINE B == {b \in Buckets : b > i.idx /\ hashtab[1][b] # Nil}
<1>1. /\ i \in ItType /\ i.np \in Nodes \cup {Nil} /\ Nil \notin Nodes
      /\ i.np \in Nodes => i.idx \in Buckets /\ i.np \in NodesIn(1, i.idx)
  BY NodesAssumption DEF Plain, Pointers
<1>2. i.np \in Nodes => next[i.np] \in Nodes \cup {Nil}
  BY DEF TypeOK, Pointers
<1>3. Buckets \in SUBSET Nat
  BY HashSizeAssumption DEF Buckets
<1>4. CASE i.np # Nil /\ next[i.np] # Nil
  <2>1. i.np \in Nodes /\ next[i.np] \in Nodes
    BY <1>1, <1>2, <1>4
  <2>2. j = [i EXCEPT !.prev = i.np, !.np = next[i.np]]
    BY <1>4 DEF PlainNext
  <2>3. j.np = next[i.np] /\ j.prev = i.np /\ j.idx = i.idx /\ j.cmp = i.cmp /\ j \in ItType
    BY <2>1, <2>2, <1>1 DEF ItType, Pointers
  <2>4. QED
    BY <2>1, <2>3 DEF WithinChain
<1>5. CASE ~(i.np # Nil /\ next[i.np] # Nil) /\ B = {}
  <2>1. j = [i EXCEPT !.prev = Nil, !.np = Nil]
    BY <1>5 DEF PlainNext
  <2>2. j.np = Nil /\ j.cmp = i.cmp /\ j \in ItType
    BY <2>1, <1>1 DEF ItType, Pointers
  <2>3. \A b \in Buckets : b > i.idx => hashtab[1][b] = Nil
    BY <1>5
  <2>4. QED
    BY <2>2, <2>3, <1>1, <1>5 DEF ToTheEnd
<1>6. CASE ~(i.np # Nil /\ next[i.np] # Nil) /\ B # {}
  <2>1. B \in SUBSET Nat
    BY <1>3
  <2>2. Min(B) \in B /\ \A b \in B : Min(B) <= b
    BY <2>1, <1>6, MinOfNat
  <2>3. j = [i EXCEPT !.prev = Nil, !.np = hashtab[1][Min(B)], !.idx = Min(B)]
    BY <1>6 DEF PlainNext
  <2>4. hashtab[1][Min(B)] \in Nodes
    BY <2>2, HeadFacts
  <2>5. /\ j.np = hashtab[1][Min(B)] /\ j.prev = Nil /\ j.idx = Min(B) /\ j.cmp = i.cmp
        /\ j \in ItType
    BY <2>2, <2>3, <2>4, <1>1 DEF ItType, Pointers
  <2>6. \A b \in Buckets : b > i.idx /\ b < Min(B) => hashtab[1][b] = Nil
    BY <2>1, <2>2, <1>3
  <2>7. QED
    BY <2>2, <2>4, <2>5, <2>6, <1>1, <1>6 DEF ToAnotherChain
<1>7. QED
  BY <1>4, <1>5, <1>6

\* What holds of an iterator that has just been moved, when s has been returned and
\* m has to be.
Moved(j, s, m) ==
    /\ j \in ItType /\ j.np \in Pointers
    /\ Placed(j) /\ AtPrev(j) /\ Unseen(j, s) /\ Owed(j, s, m)

LEMMA Numbers ==
    /\ Buckets \in SUBSET Int /\ NoBucket \in Int
    /\ \A b \in Buckets : NoBucket < b
BY HashSizeAssumption DEF Buckets, NoBucket

LEMMA PlainStep ==
    ASSUME TypeOK, TableInv, NEW i, Plain(i), ~i.cmp, NEW j, j = PlainNext(i),
           NEW s \in SUBSET Keys, NEW m, m \subseteq KeysOf(1), Passed(i, s), ToCome(i, s, m)
    PROVE  /\ Moved(j, s \cup Returned(j), m)
           /\ Returned(j) \cap s = {}
           /\ j.cmp = i.cmp
<1> DEFINE t == s \cup Returned(j)
<1>1. /\ j \in ItType /\ j.cmp = i.cmp /\ ~j.cmp
      /\ WithinChain(i, j) \/ ToTheEnd(i, j) \/ ToAnotherChain(i, j)
  BY PlainCases
<1>2. /\ i.np \in Nodes \cup {Nil} /\ i.idx \in Buckets \cup {NoBucket} /\ i.idx \in Int
      /\ i.np \in Nodes => i.idx \in Buckets /\ i.np \in NodesIn(1, i.idx)
  BY Numbers DEF Plain, ItType, Pointers
<1>3. \A k \in Keys : Hash(k) \in Buckets /\ Hash(k) \in Int
  BY HashType, Numbers
<1>4. \A k \in s : Hash(k) <= i.idx
  BY DEF Passed
<1>5. ASSUME i.np \in Nodes => next[i.np] = Nil PROVE Ahead(i) = {}
  <2>1. CASE i.np = Nil
    BY <2>1, ReachNil DEF Ahead, From
  <2>2. CASE i.np \in Nodes
    <3>1. From(i.np) = {i.np} \cup From(next[i.np])
      BY <2>2, <1>2, NodeFacts
    <3>2. From(next[i.np]) = {}
      BY <2>2, <1>5, ReachNil DEF From
    <3>3. QED
      BY <3>1, <3>2 DEF Ahead
  <2>3. QED
    BY <1>2, <2>1, <2>2
\* A key that is owed and not ahead is in a later bucket.
<1>6. ASSUME NEW k \in m \ s, Ahead(i) = {}
      PROVE  Hash(k) > i.idx /\ \E n \in NodesIn(1, Hash(k)) : key[n] = k
  <2>1. Hash(k) > i.idx
    BY <1>6 DEF ToCome
  <2>2. PICK n \in NodesOf(1) : key[n] = k
    BY DEF KeysOf
  <2>3. PICK b \in Buckets : n \in NodesIn(1, b)
    BY DEF NodesOf
  <2>4. Hash(k) = b
    BY <2>2, <2>3, NodeFacts
  <2>5. QED
    BY <2>1, <2>2, <2>3, <2>4
<1>7. CASE WithinChain(i, j)
  <2>1. /\ i.np \in Nodes /\ next[i.np] \in Nodes /\ next[i.np] # Nil
        /\ j.np = next[i.np] /\ j.prev = i.np /\ j.idx = i.idx
    BY <1>7, NodesAssumption DEF WithinChain
  <2>2. i.idx \in Buckets /\ i.np \in NodesIn(1, i.idx) /\ j.np \in NodesIn(1, i.idx)
    BY <1>2, <2>1, NodeFacts
  <2>3. Ahead(i) = From(j.np)
    <3>1. From(i.np) = {i.np} \cup From(next[i.np]) /\ i.np \notin From(next[i.np])
      BY <2>2, NodeFacts
    <3>2. QED
      BY <3>1, <2>1 DEF Ahead
  <2>4. /\ j.np \in From(j.np) /\ From(j.np) \subseteq NodesIn(1, i.idx)
        /\ Hash(key[j.np]) = i.idx /\ key[j.np] \in Keys
        /\ \A n \in NodesIn(1, i.idx) : key[n] = key[j.np] => n = j.np
    BY <2>2, NodeFacts
  <2>5. Returned(j) = {key[j.np]}
    BY <2>1 DEF Returned
  <2>6. key[j.np] \notin s
    BY <2>3, <2>4 DEF Passed
  <2>7. Placed(j) /\ AtPrev(j)
    BY <2>1, <2>2, NodeFacts DEF Placed, AtPrev
  <2>8. Passed(j, t)
    <3>1. \A k \in t : Hash(k) <= j.idx
      BY <2>1, <2>4, <2>5, <1>2, <1>4
    <3>2. \A n \in Ahead(j) : key[n] \notin s
      BY <2>3 DEF Passed, Ahead
    <3>3. \A n \in Ahead(j) : key[n] # key[j.np]
      BY <2>4 DEF Ahead
    <3>4. QED
      BY <3>1, <3>2, <3>3, <2>5 DEF Passed
  <2>9. ToCome(j, t, m)
    <3>1. ASSUME NEW k \in m \ t PROVE Hash(k) > j.idx \/ \E n \in Ahead(j) : key[n] = k
      <4>1. k \in m \ s /\ k # key[j.np]
        BY <2>5, <3>1
      <4>2. Hash(k) > i.idx \/ \E n \in Ahead(i) : key[n] = k
        BY <4>1 DEF ToCome
      <4>3. ASSUME NEW n \in Ahead(i), key[n] = k PROVE n \in Ahead(j)
        BY <4>1, <4>3, <2>3 DEF Ahead
      <4>4. QED
        BY <4>2, <4>3, <2>1
    <3>2. QED
      BY <3>1 DEF ToCome
  <2>10. j.np # Nil /\ j.np \in Pointers
    BY <2>1 DEF Pointers
  <2>11. Unseen(j, t) /\ Owed(j, t, m)
    BY <2>8, <2>9, <2>10, <1>1 DEF Unseen, Owed
  <2>12. QED
    BY <1>1, <2>5, <2>6, <2>7, <2>10, <2>11 DEF Moved
<1>8. CASE ToTheEnd(i, j)
  <2>1. Ahead(i) = {} /\ j.np = Nil /\ Nil \notin Nodes
    BY <1>5, <1>8, NodesAssumption DEF ToTheEnd
  <2>2. Returned(j) = {}
    BY <2>1 DEF Returned
  <2>3. ASSUME NEW k \in m \ s PROVE FALSE
    <3>1. PICK n \in NodesIn(1, Hash(k)) : key[n] = k
      BY <1>6, <2>1
    <3>2. Hash(k) > i.idx
      BY <1>6, <2>1
    <3>3. Hash(k) \in Buckets
      <4>1. k \in Keys
        BY ChainNames, DictsAssumption DEF KeysOf, TypeOK
      <4>2. QED
        BY <4>1, HashType
    <3>4. hashtab[1][Hash(k)] = Nil
      BY <1>8, <3>2, <3>3 DEF ToTheEnd
    <3>5. QED
      BY <3>1, <3>3, <3>4, HeadFacts
  <2>4. Placed(j) /\ AtPrev(j) /\ Unseen(j, t) /\ Owed(j, t, m)
    BY <2>1, <2>3 DEF Placed, AtPrev, Unseen, Owed
  <2>5. QED
    BY <1>1, <2>1, <2>2, <2>4 DEF Moved, Pointers
<1>9. CASE ToAnotherChain(i, j)
  <2>1. /\ j.idx \in Buckets /\ j.idx > i.idx /\ j.np = hashtab[1][j.idx]
        /\ j.np \in Nodes /\ j.prev = Nil /\ j.np # Nil
        /\ Ahead(i) = {} /\ j.idx \in Int
    BY <1>5, <1>9, NodesAssumption, Numbers DEF ToAnotherChain
  <2>2. j.np \in NodesIn(1, j.idx) /\ NodesIn(1, j.idx) = From(j.np)
    BY <2>1, HeadFacts
  <2>3. /\ Hash(key[j.np]) = j.idx /\ key[j.np] \in Keys
        /\ \A n \in NodesIn(1, j.idx) : Hash(key[n]) = j.idx
        /\ \A n \in NodesIn(1, j.idx) : key[n] = key[j.np] => n = j.np
        /\ j.np \in NodesOf(1)
    BY <2>1, <2>2, NodeFacts
  <2>4. Returned(j) = {key[j.np]}
    BY <2>1 DEF Returned
  <2>5. \A k \in s : Hash(k) < j.idx
    BY <1>2, <1>3, <1>4, <2>1
  <2>6. key[j.np] \notin s
    BY <2>3, <2>5, <1>3, <2>1
  <2>7. Placed(j) /\ AtPrev(j)
    BY <2>1, <2>2, <2>3 DEF Placed, AtPrev
  <2>8. Passed(j, t)
    <3>1. \A k \in t : Hash(k) <= j.idx
      BY <2>1, <2>3, <2>4, <2>5, <1>3
    <3>2. \A n \in Ahead(j) : key[n] \notin s
      BY <2>1, <2>2, <2>3, <2>5 DEF Ahead
    <3>3. \A n \in Ahead(j) : key[n] # key[j.np]
      BY <2>2, <2>3 DEF Ahead
    <3>4. QED
      BY <3>1, <3>2, <3>3, <2>4 DEF Passed
  <2>9. ToCome(j, t, m)
    <3>1. ASSUME NEW k \in m \ t PROVE Hash(k) > j.idx \/ \E n \in Ahead(j) : key[n] = k
      <4>1. k \in m \ s /\ k # key[j.np]
        BY <2>4, <3>1
      <4>2. Hash(k) > i.idx /\ \E n \in NodesIn(1, Hash(k)) : key[n] = k
        BY <4>1, <1>6, <2>1
      <4>3. k \in Keys /\ Hash(k) \in Buckets /\ Hash(k) \in Int
        <5>1. k \in Keys
          BY ChainNames, DictsAssumption DEF KeysOf, TypeOK
        <5>2. QED
          BY <5>1, <1>3
      <4>4. hashtab[1][Hash(k)] # Nil
        BY <4>2, <4>3, HeadFacts
      <4>5. Hash(k) >= j.idx
        BY <4>2, <4>3, <4>4, <2>1, <1>9 DEF ToAnotherChain
      <4>6. CASE Hash(k) = j.idx
        BY <4>1, <4>2, <4>6, <2>2 DEF Ahead
      <4>7. CASE Hash(k) # j.idx
        BY <4>3, <4>5, <4>7, <2>1
      <4>8. QED
        BY <4>6, <4>7
    <3>2. QED
      BY <3>1 DEF ToCome
  <2>10. Unseen(j, t) /\ Owed(j, t, m)
    BY <2>1, <2>8, <2>9, <1>1 DEF Unseen, Owed
  <2>11. QED
    BY <1>1, <2>1, <2>4, <2>6, <2>7, <2>10 DEF Moved, Pointers
<1>10. QED
  BY <1>1, <1>7, <1>8, <1>9

LEMMA KeyType ==
    ASSUME TypeOK, NEW n \in Nodes
    PROVE  key[n] \in Keys /\ key[n] \in Int
<1>1. key[n] \in Keys
  BY DEF TypeOK
<1>2. key[n] \in Nat
  BY <1>1, KeysAssumption
<1>3. QED
  BY <1>1, <1>2

LEMMA BucketFacts ==
    ASSUME NEW n \in NodesOf(1)
    PROVE  BucketOf(n) \in Buckets
<1>1. \E b \in Buckets : n \in NodesIn(1, b)
  BY DEF NodesOf
<1>2. QED
  BY <1>1 DEF BucketOf

LEMMA SortedStep ==
    ASSUME TypeOK, TableInv, NEW i \in ItType, i.cmp, i.np \in NodesOf(1),
           NEW j, j = SortedNext(i), NEW s \in SUBSET Keys, NEW m, m \subseteq KeysOf(1),
           \A k \in s : k <= key[i.np], \A k \in m \ s : k > key[i.np]
    PROVE  /\ Moved(j, s \cup Returned(j), m)
           /\ Returned(j) \cap s = {}
           /\ j.cmp
<1> DEFINE S == Greater(i.np)
           t == s \cup Returned(j)
<1>1. 1 \in Dicts /\ NodesOf(1) \in SUBSET Nodes /\ S \in SUBSET Nodes
  BY DictsAssumption, ChainNames DEF Greater
<1>2. \A n \in Nodes : key[n] \in Keys /\ key[n] \in Int
  BY KeyType
<1>3. s \subseteq Int /\ m \subseteq Int
  BY <1>1, <1>2, KeysAssumption DEF KeysOf
<1>4. CASE S = {}
  <2>1. j = [i EXCEPT !.np = Nil, !.idx = NoBucket]
    BY <1>4 DEF SortedNext
  <2>2. j.np = Nil /\ j.cmp /\ j \in ItType /\ Nil \notin Nodes
    BY <2>1, NodesAssumption DEF ItType, Pointers
  <2>3. Returned(j) = {}
    BY <2>2 DEF Returned
  <2>4. m \subseteq s
    <3>1. ASSUME NEW k \in m \ s PROVE FALSE
      <4>1. PICK n \in NodesOf(1) : key[n] = k
        BY DEF KeysOf
      <4>2. n \in S
        BY <4>1, <3>1 DEF Greater
      <4>3. QED
        BY <4>2, <1>4
    <3>2. QED
      BY <3>1
  <2>5. Placed(j) /\ AtPrev(j) /\ Unseen(j, t) /\ Owed(j, t, m)
    BY <2>2, <2>4 DEF Placed, AtPrev, Unseen, Owed
  <2>6. QED
    BY <2>2, <2>3, <2>5 DEF Moved, Pointers
<1>5. CASE S # {}
  <2> DEFINE n == Least(S)
  <2>1. n \in S /\ \A l \in S : key[n] <= key[l]
    BY <1>1, <1>5, LeastFacts
  <2>2. n \in NodesOf(1) /\ n \in Nodes /\ key[n] > key[i.np]
    BY <1>1, <2>1 DEF Greater
  <2>3. BucketOf(n) \in Buckets
    BY <2>2, BucketFacts
  <2>4. j = [i EXCEPT !.np = n, !.idx = BucketOf(n)]
    BY <1>5 DEF SortedNext
  <2> HIDE DEF n
  <2>5. j.np = n /\ j.cmp /\ j \in ItType /\ n # Nil
    BY <2>2, <2>3, <2>4, NodesAssumption DEF ItType, Pointers
  <2>6. Returned(j) = {key[n]}
    BY <2>5 DEF Returned
  <2>7. \A k \in s : k < key[n]
    BY <1>1, <1>2, <1>3, <2>2
  <2>8. Returned(j) \cap s = {} /\ \A k \in t : k <= key[n]
    BY <1>2, <1>3, <2>2, <2>6, <2>7
  <2>9. \A k \in m \ t : k > key[n]
    <3>1. ASSUME NEW k \in m \ t PROVE k > key[n]
      <4>1. k > key[i.np] /\ k # key[n] /\ k \in Int
        BY <1>3, <2>6, <3>1
      <4>2. PICK l \in NodesOf(1) : key[l] = k
        BY <3>1 DEF KeysOf
      <4>3. l \in S
        BY <4>1, <4>2 DEF Greater
      <4>4. key[n] <= k
        BY <2>1, <4>2, <4>3
      <4>5. QED
        BY <4>1, <4>4, <1>2, <2>2
    <3>2. QED
      BY <3>1
  <2>10. Placed(j) /\ AtPrev(j) /\ Unseen(j, t) /\ Owed(j, t, m)
    BY <2>2, <2>5, <2>8, <2>9 DEF Placed, AtPrev, Unseen, Owed
  <2>11. QED
    BY <2>2, <2>5, <2>8, <2>10 DEF Moved, Pointers
<1>6. QED
  BY <1>4, <1>5

\* Moving the iterator on.
LEMMA NextFacts ==
    ASSUME DictInv, Usable, NEW j, j = NextOf(it)
    PROVE  /\ Moved(j, seen \cup Returned(j), must)
           /\ Returned(j) \cap seen = {}
           /\ j.cmp = it.cmp
<1>1. /\ TypeOK /\ TableInv /\ it \in ItType /\ it.np \in Nodes
      /\ seen \in SUBSET Keys /\ must \subseteq KeysOf(1)
  BY DEF DictInv, ItInv, TypeOK, ItType, Usable, Pointers
<1>2. Placed(it) /\ Unseen(it, seen) /\ Owed(it, seen, must)
  BY DEF DictInv, ItInv
<1>3. CASE it.cmp
  <2>1. j = SortedNext(it)
    BY <1>3 DEF NextOf
  <2>2. /\ it.np \in NodesOf(1)
        /\ \A k \in seen : k <= key[it.np]
        /\ \A k \in must \ seen : k > key[it.np]
    BY <1>1, <1>2, <1>3 DEF Placed, Unseen, Owed
  <2>3. QED
    BY <1>1, <1>3, <2>1, <2>2, SortedStep
<1>4. CASE ~it.cmp
  <2>1. j = PlainNext(it)
    BY <1>4 DEF NextOf
  <2>2. Plain(it) /\ Passed(it, seen) /\ ToCome(it, seen, must)
    BY <1>1, <1>2, <1>4 DEF Placed, Unseen, Owed, Plain, Pointers
  <2>3. QED
    BY <1>1, <1>4, <2>1, <2>2, PlainStep
<1>5. QED
  BY <1>3, <1>4

\* Setting it to the first entry.
LEMMA FirstFacts ==
    ASSUME TypeOK, TableInv, NEW sorted \in BOOLEAN, NEW j \in Firsts(sorted)
    PROVE  Moved(j, Returned(j), KeysOf(1)) /\ j.cmp = sorted
<1> DEFINE i == Start(sorted)
           n == Least(NodesOf(1))
<1>1. /\ i \in ItType /\ i.np = Nil /\ i.prev = Nil /\ i.idx = NoBucket /\ i.cmp = sorted
      /\ Nil \notin Nodes /\ i.np \in Pointers
  BY NodesAssumption DEF Start, ItType, Pointers
<1>2. 1 \in Dicts /\ NodesOf(1) \in SUBSET Nodes
  BY DictsAssumption, ChainNames
<1>3. \A l \in NodesOf(1) : key[l] \in Keys /\ key[l] \in Int
  BY <1>2, KeyType
<1> HIDE DEF i
<1>4. Plain(i)
  BY <1>1 DEF Plain
<1>5. CASE ~sorted
  <2>1. j = PlainNext(i)
    BY <1>5 DEF Firsts, i
  <2>2. Passed(i, {}) /\ ToCome(i, {}, KeysOf(1))
    <3>1. Ahead(i) = {}
      BY <1>1, ReachNil DEF Ahead, From
    <3>2. \A k \in KeysOf(1) : Hash(k) > i.idx
      BY <1>1, <1>3, HashType, Numbers DEF KeysOf
    <3>3. QED
      BY <3>1, <3>2 DEF Passed, ToCome
  <2>3. Moved(j, {} \cup Returned(j), KeysOf(1)) /\ j.cmp = i.cmp
    BY <1>1, <1>4, <1>5, <2>1, <2>2, PlainStep
  <2>4. QED
    BY <1>1, <2>3
<1>6. CASE sorted /\ PlainNext(i).np = Nil
  <2>1. j = PlainNext(i) /\ j.np = Nil
    BY <1>6 DEF Firsts, i
  <2>2. j \in ItType /\ j.cmp = sorted /\ (WithinChain(i, j) \/ ToTheEnd(i, j) \/ ToAnotherChain(i, j))
    BY <1>1, <1>4, <2>1, PlainCases
  <2>3. ToTheEnd(i, j)
    BY <2>1, <2>2, <1>1 DEF WithinChain, ToAnotherChain
  <2>4. NodesOf(1) = {}
    <3>1. \A b \in Buckets : b > i.idx
      BY <1>1, Numbers
    <3>2. \A b \in Buckets : hashtab[1][b] = Nil
      BY <2>3, <3>1 DEF ToTheEnd
    <3>3. \A b \in Buckets : NodesIn(1, b) = {}
      BY <3>2, HeadFacts
    <3>4. QED
      BY <3>3 DEF NodesOf
  <2>5. KeysOf(1) = {}
    BY <2>4 DEF KeysOf
  <2>6. QED
    BY <1>1, <2>1, <2>2, <2>5 DEF Moved, Placed, AtPrev, Unseen, Owed, Pointers
<1>7. CASE sorted /\ PlainNext(i).np # Nil
  <2> DEFINE q == PlainNext(i)
  <2>1. WithinChain(i, q) \/ ToTheEnd(i, q) \/ ToAnotherChain(i, q)
    BY <1>4, PlainCases
  <2>2. q.np \in NodesOf(1)
    <3>1. q.idx \in Buckets /\ q.np = hashtab[1][q.idx] /\ q.np \in Nodes
      BY <2>1, <1>1, <1>7 DEF WithinChain, ToTheEnd, ToAnotherChain
    <3>2. q.np \in NodesIn(1, q.idx)
      BY <3>1, HeadFacts
    <3>3. QED
      BY <1>2, <3>1, <3>2, ChainNames
  <2>3. n \in NodesOf(1) /\ \A l \in NodesOf(1) : key[n] <= key[l]
    BY <1>2, <2>2, LeastFacts
  <2>4. BucketOf(n) \in Buckets
    BY <2>3, BucketFacts
  <2>5. PICK b \in Buckets : j = [i EXCEPT !.np = n, !.idx = b]
    <3>1. j \in {[i EXCEPT !.np = n, !.idx = b] :
                    b \in IF n = q.np THEN Buckets ELSE {BucketOf(n)}}
      BY <1>7 DEF Firsts, i
    <3>2. \E b \in IF n = q.np THEN Buckets ELSE {BucketOf(n)} :
             j = [i EXCEPT !.np = n, !.idx = b]
      BY <3>1
    <3>3. QED
      BY <2>4, <3>2
  <2> HIDE DEF n, q
  <2>6. j.np = n /\ j.cmp /\ j \in ItType /\ n \in Nodes /\ n # Nil
    BY <1>1, <1>2, <1>7, <2>3, <2>5 DEF ItType, Pointers
  <2>7. Returned(j) = {key[n]} /\ key[n] \in Int
    BY <2>6, KeyType DEF Returned
  <2>8. \A k \in KeysOf(1) \ Returned(j) : k > key[n]
    <3>1. ASSUME NEW k \in KeysOf(1) \ Returned(j) PROVE k > key[n]
      <4>1. PICK l \in NodesOf(1) : key[l] = k
        BY DEF KeysOf
      <4>2. key[n] <= k /\ k \in Int /\ k # key[n]
        BY <4>1, <2>3, <2>7, <1>3
      <4>3. QED
        BY <4>2, <2>7
    <3>2. QED
      BY <3>1
  <2>9. Placed(j) /\ AtPrev(j) /\ Unseen(j, Returned(j)) /\ Owed(j, Returned(j), KeysOf(1))
    BY <2>3, <2>6, <2>7, <2>8 DEF Placed, AtPrev, Unseen, Owed
  <2>10. QED
    BY <1>7, <2>6, <2>9 DEF Moved, Pointers
<1>8. QED
  BY <1>5, <1>6, <1>7

\* What the iterator needs to hold again after a step, when it is j, and s and m have
\* become the ghosts.
LEMMA ItNow ==
    ASSUME NEW j, j = it', NEW s, s = seen', NEW m, m = must',
           Placed(j)', edited' \/ AtPrev(j)', Unseen(j, s)', Owed(j, s, m)', m \subseteq KeysOf(1)'
    PROVE  ItInv'
<1>1. Placed(it)' /\ (~edited' => AtPrev(it)')
  BY DEF Placed, AtPrev
<1>2. Unseen(it, seen)'
  BY DEF Unseen, Passed, Ahead
<1>3. Owed(it, seen, must)'
  BY DEF Owed, ToCome, Ahead
<1>4. QED
  BY <1>1, <1>2, <1>3 DEF ItInv

LEMMA TypeNow ==
    ASSUME TableInv', count' \in [Dicts -> Int], it' \in ItType, edited' \in BOOLEAN,
           seen' \subseteq Keys, must' \subseteq KeysOf(1)'
    PROVE  TypeOK'
<1>1. /\ hashtab' \in [Dicts -> [Buckets -> Pointers]]
      /\ key' \in [Nodes -> Keys] /\ next' \in [Nodes -> Pointers]
  BY DEF TableInv, Sound, HeapType
<1>2. used' \subseteq Nodes
  BY ChainNames DEF TableInv
<1>3. must' \subseteq Keys
  <2>1. NodesOf(1)' \in SUBSET Nodes
    BY ChainNames, DictsAssumption
  <2>2. \A n \in NodesOf(1)' : key'[n] \in Keys
    BY <2>1, <1>1
  <2>3. QED
    BY <2>2 DEF KeysOf
<1>4. QED
  BY <1>1, <1>2, <1>3 DEF TypeOK, ItType

\* A step that leaves the table alone.
LEMMA TableUnchanged ==
    ASSUME UNCHANGED table
    PROVE  /\ hashtab' = hashtab /\ key' = key /\ next' = next /\ count' = count /\ used' = used
           /\ \A n : From(n)' = From(n)
           /\ \A d, b : NodesIn(d, b)' = NodesIn(d, b)
           /\ \A d : NodesOf(d)' = NodesOf(d) /\ KeysOf(d)' = KeysOf(d)
           /\ TableInv => TableInv'
BY DEF table, From, NodesIn, NodesOf, KeysOf, TableInv, CountIsRight

\* The iterator has been moved.
LEMMA InvAfterMoved ==
    ASSUME TypeOK, TableInv, UNCHANGED table, edited' \in BOOLEAN,
           NEW j, j = it', NEW s, s = seen', NEW m, m = must',
           Moved(j, s, m), s \subseteq Keys, m \subseteq KeysOf(1)
    PROVE  DictInv'
<1>1. Placed(j)' /\ AtPrev(j)'
  BY TableUnchanged DEF Moved, Placed, AtPrev
<1>2. Unseen(j, s)' /\ Owed(j, s, m)'
  <2>1. Unseen(j, s)'
    BY TableUnchanged DEF Moved, Unseen, Passed, Ahead
  <2>2. Owed(j, s, m)'
    BY TableUnchanged DEF Moved, Owed, ToCome, Ahead
  <2>3. QED
    BY <2>1, <2>2
<1>3. m \subseteq KeysOf(1)' /\ TableInv'
  BY TableUnchanged
<1>4. ItInv'
  BY <1>1, <1>2, <1>3, ItNow
<1>5. count' \in [Dicts -> Int] /\ it' \in ItType
  BY TableUnchanged DEF TypeOK, Moved
<1>6. TypeOK'
  BY <1>3, <1>5, TypeNow
<1>7. QED
  BY <1>3, <1>4, <1>6 DEF DictInv

\* What an iterator that has been moved returns.
LEMMA ReturnedType ==
    ASSUME TypeOK, NEW j, j.np \in Pointers
    PROVE  Returned(j) \in SUBSET Keys
BY DEF Returned, Pointers, TypeOK

\* The nodes of S leave table 1, or were never there.
Shrinks(S) ==
    /\ \A a \in Buckets : NodesIn(1, a)' = NodesIn(1, a) \ S
    /\ \A a \in Buckets : \A m \in NodesIn(1, a) : m \notin S => From(m)' = From(m) \ S
    /\ key' = key

\* An iterator that is at none of them is as right as before.
LEMMA ItAfterShrinking ==
    ASSUME TypeOK, TableInv, NEW S \in SUBSET Nodes, Shrinks(S),
           NEW j, j.np \notin S, Placed(j),
           NEW s, NEW m, NEW m2, m \subseteq KeysOf(1), m2 \subseteq m,
           \A n \in S \cap NodesOf(1) : key[n] \notin m2,
           Unseen(j, s), Owed(j, s, m)
    PROVE  /\ Placed(j)' /\ Unseen(j, s)' /\ Owed(j, s, m2)'
           /\ m2 \subseteq KeysOf(1)'
<1>1. NodesOf(1)' = NodesOf(1) \ S
  <2>1. \A n : n \in NodesOf(1)' <=> n \in NodesOf(1) \ S
    BY ChainNames, DictsAssumption DEF Shrinks
  <2>2. QED
    BY <2>1
<1>2. key' = key /\ \A a \in Buckets : NodesIn(1, a)' = NodesIn(1, a) \ S
  BY DEF Shrinks
<1>3. ASSUME j.np \in Nodes, ~j.cmp
      PROVE  /\ Ahead(j)' = Ahead(j) \ S
             /\ Ahead(j) \subseteq NodesOf(1)
  <2>1. j.idx \in Buckets /\ j.np \in NodesIn(1, j.idx)
    BY <1>3 DEF Placed
  <2>2. From(j.np)' = From(j.np) \ S
    BY <2>1 DEF Shrinks
  <2>3. From(j.np) \subseteq NodesIn(1, j.idx)
    BY <2>1, NodeFacts
  <2>4. From(j.np) \subseteq NodesOf(1)
    BY <2>1, <2>3, ChainNames, DictsAssumption
  <2>5. QED
    BY <2>2, <2>4 DEF Ahead
<1>4. Placed(j)'
  BY <1>1, <1>2 DEF Placed
<1>5. Unseen(j, s)'
  <2>1. CASE j.np \in Nodes /\ ~j.cmp
    <3>1. Passed(j, s)'
      BY <2>1, <1>2, <1>3 DEF Unseen, Passed
    <3>2. QED
      BY <2>1, <3>1 DEF Unseen
  <2>2. CASE j.np \notin Nodes \/ j.cmp
    BY <2>2, <1>2 DEF Unseen
  <2>3. QED
    BY <2>1, <2>2
<1>6. Owed(j, s, m2)'
  <2>1. CASE j.np \in Nodes /\ ~j.cmp
    <3>1. ASSUME NEW k \in m2 \ s PROVE Hash(k) > j.idx \/ \E n \in Ahead(j)' : key[n] = k
      <4>1. Hash(k) > j.idx \/ \E n \in Ahead(j) : key[n] = k
        BY <2>1, <3>1 DEF Owed, ToCome
      <4>2. ASSUME NEW n \in Ahead(j), key[n] = k PROVE n \in Ahead(j)'
        BY <2>1, <1>3, <4>2
      <4>3. QED
        BY <4>1, <4>2
    <3>2. ToCome(j, s, m2)'
      BY <3>1, <1>2 DEF ToCome
    <3>3. QED
      BY <2>1, <3>2, NodesAssumption DEF Owed
  <2>2. CASE j.np \notin Nodes \/ j.cmp
    BY <2>2, <1>2 DEF Owed
  <2>3. QED
    BY <2>1, <2>2
<1>7. m2 \subseteq KeysOf(1)'
  <2>1. ASSUME NEW k \in m2 PROVE k \in KeysOf(1)'
    <3>1. PICK n \in NodesOf(1) : key[n] = k
      BY DEF KeysOf
    <3>2. n \in NodesOf(1)' /\ key'[n] = k
      BY <3>1, <1>1, <1>2
    <3>3. QED
      BY <3>2 DEF KeysOf
  <2>2. QED
    BY <2>1
<1>8. QED
  BY <1>4, <1>5, <1>6, <1>7

\* Nodes are freed.
LEMMA ItAfterFree ==
    ASSUME DictInv, NEW S \in SUBSET Nodes, Shrinks(S), Free(S), seen' = seen,
           must' \subseteq must, \A n \in S \cap NodesOf(1) : key[n] \notin must'
    PROVE  ItInv' /\ it' \in ItType /\ edited' \in BOOLEAN
<1>1. /\ it \in ItType /\ TypeOK /\ TableInv /\ Placed(it) /\ Unseen(it, seen)
      /\ Owed(it, seen, must) /\ must \subseteq KeysOf(1)
  BY DEF DictInv, TypeOK, ItType, ItInv
<1>2. /\ it' = [it EXCEPT !.np = Dangle(it.np, S), !.prev = Dangle(it.prev, S)]
      /\ edited' = TRUE
  BY DEF Free
<1>3. Dangle(it.np, S) \in Pointers \cup {Stale} /\ Dangle(it.prev, S) \in Pointers \cup {Stale}
  BY <1>1 DEF Dangle, ItType
<1>4. PICK j : j = it'
  OBVIOUS
<1>5. /\ j \in ItType /\ j.np = Dangle(it.np, S) /\ j.idx = it.idx /\ j.cmp = it.cmp
  BY <1>1, <1>2, <1>3, <1>4 DEF ItType
<1>6. j.np \notin S /\ (j.np = it.np \/ j.np = Stale)
  BY <1>5, NodesAssumption DEF Dangle
<1>7. Placed(j) /\ Unseen(j, seen) /\ Owed(j, seen, must)
  <2>1. CASE j.np = it.np
    <3>1. Placed(j)
      BY <1>1, <1>5, <2>1 DEF Placed
    <3>2. Unseen(j, seen)
      BY <1>1, <1>5, <2>1 DEF Unseen, Passed, Ahead
    <3>3. Owed(j, seen, must)
      BY <1>1, <1>5, <2>1 DEF Owed, ToCome, Ahead
    <3>4. QED
      BY <3>1, <3>2, <3>3
  <2>2. CASE j.np = Stale
    BY <2>2, NodesAssumption DEF Placed, Unseen, Owed
  <2>3. QED
    BY <1>6, <2>1, <2>2
<1>8. PICK s, m2 : s = seen /\ m2 = must'
  OBVIOUS
<1>9. /\ Placed(j)' /\ Unseen(j, s)' /\ Owed(j, s, m2)' /\ m2 \subseteq KeysOf(1)'
  BY <1>1, <1>6, <1>7, <1>8, ItAfterShrinking
<1>10. ItInv'
  BY <1>2, <1>4, <1>8, <1>9, ItNow
<1>11. QED
  BY <1>2, <1>4, <1>5, <1>10

-----------------------------------------------------------------------------
(***************************************************************************)
(* Every call keeps the invariant.                                         *)
(***************************************************************************)
LEMMA InstallStep ==
    ASSUME DictInv, NEW d \in Dicts, NEW k \in Keys, Install(d, k)
    PROVE  DictInv'
<1>1. TypeOK /\ TableInv /\ 1 \in Dicts
  BY DictsAssumption DEF DictInv
<1>2. /\ TableInv'
      /\ \A a \in Buckets : \A m \in NodesIn(1, a) :
            m \in NodesIn(1, a)' /\ From(m)' = From(m) /\ key'[m] = key[m]
  BY <1>1, TableAfterInstall
<1>3. /\ it' = it /\ edited' = TRUE /\ seen' = seen /\ must' = must
      /\ count' = [count EXCEPT ![d] = @ + 1]
  BY DEF Install
<1>4. \A m \in NodesOf(1) : m \in NodesOf(1)' /\ key'[m] = key[m]
  BY <1>1, <1>2, ChainNames
<1>5. PICK j, s, m : j = it /\ s = seen /\ m = must
  OBVIOUS
<1>6. Placed(j) /\ Unseen(j, s) /\ Owed(j, s, m) /\ m \subseteq KeysOf(1)
  BY <1>5 DEF DictInv, ItInv
<1>7. Placed(j)'
  BY <1>2, <1>4, <1>6 DEF Placed
<1>8. ASSUME j.np \in Nodes, ~j.cmp
      PROVE  Ahead(j)' = Ahead(j) /\ \A n \in Ahead(j) : key'[n] = key[n]
  <2>1. j.idx \in Buckets /\ j.np \in NodesIn(1, j.idx)
    BY <1>6, <1>8 DEF Placed
  <2>2. From(j.np)' = From(j.np) /\ From(j.np) \subseteq NodesIn(1, j.idx)
    BY <1>1, <1>2, <2>1, NodeFacts
  <2>3. QED
    BY <1>2, <2>1, <2>2 DEF Ahead
<1>9. j.np \in Nodes => key'[j.np] = key[j.np]
  BY <1>4, <1>6 DEF Placed
<1>10. Unseen(j, s)'
  BY <1>6, <1>8, <1>9 DEF Unseen, Passed
<1>11. Owed(j, s, m)'
  BY <1>6, <1>8, <1>9 DEF Owed, ToCome
<1>12. m \subseteq KeysOf(1)'
  <2>1. ASSUME NEW x \in m PROVE x \in KeysOf(1)'
    <3>1. PICK n \in NodesOf(1) : key[n] = x
      BY <1>6 DEF KeysOf
    <3>2. n \in NodesOf(1)' /\ key'[n] = x
      BY <3>1, <1>4
    <3>3. QED
      BY <3>2 DEF KeysOf
  <2>2. QED
    BY <2>1
<1>13. ItInv'
  BY <1>3, <1>5, <1>7, <1>10, <1>11, <1>12, ItNow
<1>14. TypeOK'
  <2>1. count' \in [Dicts -> Int] /\ it' \in ItType /\ seen' \subseteq Keys
    BY <1>1, <1>3 DEF TypeOK, ItType
  <2>2. QED
    BY <2>1, <1>2, <1>3, <1>5, <1>12, TypeNow
<1>15. QED
  BY <1>2, <1>13, <1>14 DEF DictInv

\* Removing an entry of table d that q is the node before of.
LEMMA UnlinkStep ==
    ASSUME DictInv, NEW d \in Dicts, NEW b \in Buckets, NEW n \in NodesIn(d, b), NEW q,
           \/ q = Nil /\ hashtab[d][b] = n
           \/ q \in NodesIn(d, b) /\ next[q] = n,
           Unlink(d, b, q, n), count' = [count EXCEPT ![d] = @ - 1], Free({n}), key' = key,
           seen' = seen, must' \subseteq must, d = 1 => key[n] \notin must'
    PROVE  DictInv'
<1>1. TypeOK /\ TableInv /\ 1 \in Dicts /\ used' = used \ {n}
  BY DictsAssumption DEF DictInv, Free
<1>2. /\ TableInv'
      /\ \A c \in Dicts, a \in Buckets : NodesIn(c, a)' = NodesIn(c, a) \ {n}
      /\ \A c \in Dicts, a \in Buckets : \A m \in NodesIn(c, a) :
            m # n => From(m)' = From(m) \ {n}
  BY <1>1, TableAfterUnlink
<1>3. Shrinks({n})
  BY <1>1, <1>2 DEF Shrinks
<1>4. n \in NodesOf(d) /\ {n} \in SUBSET Nodes
  BY ChainNames
<1>5. d # 1 => n \notin NodesOf(1)
  BY <1>1, <1>4, TablesApart
<1>6. ItInv' /\ it' \in ItType /\ edited' \in BOOLEAN
  BY <1>3, <1>4, <1>5, ItAfterFree
<1>7. count' \in [Dicts -> Int]
  BY <1>1 DEF TypeOK
<1>8. seen' \subseteq Keys /\ must' \subseteq KeysOf(1)'
  BY <1>1, <1>6 DEF TypeOK, ItInv
<1>9. QED
  BY <1>2, <1>6, <1>7, <1>8, TypeNow DEF DictInv

LEMMA RemoveKeyStep ==
    ASSUME DictInv, NEW d \in Dicts, NEW k \in Keys, RemoveKey(d, k)
    PROVE  DictInv'
<1> DEFINE n == Find(d, k)
           b == Hash(k)
           q == Before(d, b, n)
<1>1. TypeOK /\ TableInv /\ b \in Buckets
  BY HashType DEF DictInv
<1>2. /\ n # Nil /\ Unlink(d, b, q, n) /\ count' = [count EXCEPT ![d] = @ - 1]
      /\ Free({n}) /\ must' = (IF d = 1 THEN must \ {k} ELSE must)
      /\ key' = key /\ seen' = seen
  BY DEF RemoveKey
<1>3. n \in NodesIn(d, b) /\ key[n] = k
  BY <1>1, <1>2, FindFacts
<1> HIDE DEF n, b
<1>4. \/ q = Nil /\ hashtab[d][b] = n
      \/ q \in NodesIn(d, b) /\ next[q] = n
  BY <1>1, <1>3, BeforeFacts
<1> HIDE DEF q
<1>5. must' \subseteq must /\ (d = 1 => key[n] \notin must')
  BY <1>2, <1>3
<1>6. QED
  BY <1>1, <1>2, <1>3, <1>4, <1>5, UnlinkStep

LEMMA ItRemoveStep ==
    ASSUME DictInv, ItRemove
    PROVE  DictInv'
<1>1. /\ it.np \in Nodes /\ ~it.cmp /\ ~edited /\ 1 \in Dicts
  BY DictsAssumption DEF DictInv, TypeOK, ItRemove, Usable, Pointers
<1>2. /\ it.idx \in Buckets /\ it.np \in NodesIn(1, it.idx)
      /\ \/ it.prev = Nil /\ hashtab[1][it.idx] = it.np
         \/ it.prev \in NodesIn(1, it.idx) /\ next[it.prev] = it.np
  BY <1>1 DEF DictInv, ItInv, Placed, AtPrev
<1>3. /\ Unlink(1, it.idx, it.prev, it.np) /\ count' = [count EXCEPT ![1] = @ - 1]
      /\ Free({it.np}) /\ must' = must \ {key[it.np]} /\ key' = key /\ seen' = seen
  BY DEF ItRemove
<1>4. QED
  BY <1>1, <1>2, <1>3, UnlinkStep

LEMMA RemoveAllStep ==
    ASSUME DictInv, NEW d \in Dicts, RemoveAll(d)
    PROVE  DictInv'
<1>1. TypeOK /\ TableInv /\ 1 \in Dicts
  BY DictsAssumption DEF DictInv
<1>2. /\ count' = [count EXCEPT ![d] = @ - Cardinality(NodesOf(d))]
      /\ Free(NodesOf(d)) /\ must' = (IF d = 1 THEN {} ELSE must)
      /\ key' = key /\ seen' = seen
  BY DEF RemoveAll
<1>3. /\ TableInv'
      /\ \A c \in Dicts, a \in Buckets : NodesIn(c, a)' = NodesIn(c, a) \ NodesOf(d)
      /\ \A c \in Dicts, a \in Buckets : \A m \in NodesIn(c, a) :
            m \notin NodesOf(d) => From(m)' = From(m) \ NodesOf(d)
  BY <1>1, TableAfterRemoveAll
<1>4. Shrinks(NodesOf(d)) /\ NodesOf(d) \in SUBSET Nodes
  BY <1>1, <1>2, <1>3, ChainNames DEF Shrinks
<1>5. d # 1 => NodesOf(d) \cap NodesOf(1) = {}
  BY <1>1, TablesApart
<1>6. must' \subseteq must /\ \A n \in NodesOf(d) \cap NodesOf(1) : key[n] \notin must'
  BY <1>2, <1>5
<1>7. ItInv' /\ it' \in ItType /\ edited' \in BOOLEAN
  BY <1>2, <1>4, <1>6, ItAfterFree
<1>8. count' \in [Dicts -> Int]
  <2>1. Cardinality(NodesOf(d)) \in Nat
    BY <1>4, NodesFinite
  <2>2. QED
    BY <1>1, <1>2, <2>1 DEF TypeOK
<1>9. seen' \subseteq Keys /\ must' \subseteq KeysOf(1)'
  BY <1>1, <1>2, <1>7 DEF TypeOK, ItInv
<1>10. QED
  BY <1>3, <1>7, <1>8, <1>9, TypeNow DEF DictInv

LEMMA ItFirstStep ==
    ASSUME DictInv, NEW sorted \in BOOLEAN, ItFirst(sorted)
    PROVE  DictInv'
<1>1. TypeOK /\ TableInv
  BY DEF DictInv
<1>2. PICK j, s, m : j = it' /\ s = seen' /\ m = must'
  OBVIOUS
<1>3. /\ j \in Firsts(sorted) /\ edited' = FALSE /\ s = Returned(j) /\ m = KeysOf(1)
      /\ UNCHANGED table
  BY <1>2 DEF ItFirst
<1>4. Moved(j, s, m)
  BY <1>1, <1>3, FirstFacts
<1>5. s \subseteq Keys
  BY <1>1, <1>3, <1>4, ReturnedType DEF Moved
<1>6. QED
  BY <1>1, <1>2, <1>3, <1>4, <1>5, InvAfterMoved

LEMMA ItNextStep ==
    ASSUME DictInv, ItNext
    PROVE  DictInv' /\ Returned(it') \cap seen = {}
<1>1. TypeOK /\ TableInv /\ seen \subseteq Keys /\ must \subseteq KeysOf(1)
  BY DEF DictInv, TypeOK, ItInv
<1>2. PICK j, s, m : j = it' /\ s = seen' /\ m = must'
  OBVIOUS
<1>3. /\ Usable /\ j = NextOf(it) /\ edited' = FALSE /\ s = seen \cup Returned(j) /\ m = must
      /\ UNCHANGED table
  BY <1>2 DEF ItNext
<1>4. Moved(j, s, m) /\ Returned(j) \cap seen = {}
  BY <1>3, NextFacts
<1>5. s \subseteq Keys
  BY <1>1, <1>3, <1>4, ReturnedType DEF Moved
<1>6. DictInv'
  BY <1>1, <1>2, <1>3, <1>4, <1>5, InvAfterMoved
<1>7. QED
  BY <1>2, <1>4, <1>6

LEMMA ItAtStep ==
    ASSUME DictInv, NEW k \in Keys, ItAt(k)
    PROVE  DictInv'
<1> DEFINE n == Find(1, k)
           b == Hash(k)
           q == Before(1, b, n)
<1>1. TypeOK /\ TableInv /\ 1 \in Dicts /\ b \in Buckets /\ it.cmp \in BOOLEAN
  BY HashType, DictsAssumption DEF DictInv, TypeOK
<1>2. PICK j, s, m : j = it' /\ s = seen' /\ m = must'
  OBVIOUS
<1>3. /\ j = [Start(it.cmp) EXCEPT !.np = n, !.prev = q, !.idx = IF n = Nil THEN NoBucket ELSE b]
      /\ edited' = FALSE /\ s = Returned(j) /\ m = {} /\ UNCHANGED table
  BY <1>2 DEF ItAt
<1>4. n = Nil \/ (n \in NodesIn(1, b) /\ key[n] = k)
  BY <1>1, FindFacts
<1> HIDE DEF n, b
<1>5. q \in Pointers
  <2>1. NodesIn(1, b) \subseteq Nodes
    BY <1>1, NodeFacts
  <2>2. QED
    BY <2>1 DEF Before, Pointers
<1>6. n \in NodesIn(1, b) => \/ q = Nil /\ hashtab[1][b] = n
                             \/ q \in NodesIn(1, b) /\ next[q] = n
  BY <1>1, BeforeFacts
<1> HIDE DEF q
<1>7. n \in NodesIn(1, b) => n \in Nodes /\ n # Nil /\ n \in NodesOf(1) /\ key[n] \in Int
  BY <1>1, NodeFacts
<1>8. /\ j.np = n /\ j.prev = q /\ j.cmp = it.cmp
      /\ j.idx = IF n = Nil THEN NoBucket ELSE b
      /\ j \in ItType /\ n \in Pointers
  <2>1. n \in Pointers
    BY <1>4, <1>7 DEF Pointers
  <2>2. QED
    BY <2>1, <1>1, <1>3, <1>5 DEF Start, ItType
<1>9. Moved(j, s, m)
  <2>1. CASE n = Nil
    BY <2>1, <1>3, <1>8, NodesAssumption DEF Moved, Placed, AtPrev, Unseen, Owed
  <2>2. CASE n # Nil
    <3>1. /\ n \in NodesIn(1, b) /\ n \in Nodes /\ n \in NodesOf(1) /\ key[n] = k
          /\ key[n] \in Int /\ j.idx = b
      BY <2>2, <1>4, <1>7, <1>8
    <3>2. s = {k}
      BY <2>2, <3>1, <1>3, <1>8 DEF Returned
    <3>3. Placed(j) /\ AtPrev(j)
      BY <3>1, <1>1, <1>6, <1>8 DEF Placed, AtPrev
    <3>4. Passed(j, s)
      <4>1. Hash(k) <= j.idx
        <5>1. Hash(k) = j.idx /\ j.idx \in Int
          BY <3>1, <1>1, Numbers DEF b
        <5>2. QED
          BY <5>1
      <4>2. From(n) \subseteq NodesIn(1, b) /\ \A l \in NodesIn(1, b) : key[l] = key[n] => l = n
        BY <3>1, <1>1, NodeFacts
      <4>3. QED
        BY <4>1, <4>2, <3>1, <3>2, <1>8 DEF Passed, Ahead
    <3>5. Unseen(j, s) /\ Owed(j, s, m)
      BY <3>1, <3>2, <3>4, <1>3, <1>8 DEF Unseen, Owed, ToCome
    <3>6. QED
      BY <3>3, <3>5, <1>8 DEF Moved
  <2>3. QED
    BY <2>1, <2>2
<1>10. s \subseteq Keys /\ m \subseteq KeysOf(1)
  BY <1>1, <1>3, <1>9, ReturnedType DEF Moved
<1>11. QED
  BY <1>1, <1>2, <1>3, <1>9, <1>10, InvAfterMoved

LEMMA ItMoveStep ==
    ASSUME "inner" \notin Ops, DictInv, ItMove
    PROVE  DictInv'
<1> DEFINE n == it.np
           b == it.idx
           h == Hash(key[n])
<1>1. /\ TypeOK /\ TableInv /\ 1 \in Dicts /\ 2 \in Dicts /\ it \in ItType /\ Usable
      /\ n \in Nodes /\ ~it.cmp /\ ~edited /\ it.prev = Nil
      /\ seen \in SUBSET Keys /\ must \subseteq KeysOf(1)
  BY DictsAssumption DEF DictInv, ItInv, TypeOK, ItType, ItMove, Usable, Pointers
<1>2. b \in Buckets /\ n \in NodesIn(1, b) /\ hashtab[1][b] = n
  <2>1. Nil \notin NodesIn(1, b) \/ b \notin Buckets
    BY <1>1, NodeFacts
  <2>2. QED
    BY <1>1, <2>1 DEF DictInv, ItInv, Placed, AtPrev
<1>3. PICK i : i = NextOf(it)
  OBVIOUS
<1>4. /\ Moved(i, seen \cup Returned(i), must)
      /\ i.cmp = it.cmp
  BY <1>1, <1>3, NextFacts
<1>5. PICK j, s, m : j = it' /\ s = seen' /\ m = must'
  OBVIOUS
<1>6. s = seen \cup Returned(i) /\ key' = key /\ used' = used /\ edited' = edited
  BY <1>3, <1>5 DEF ItMove
<1>7. s \subseteq Keys /\ edited' \in BOOLEAN
  <2>1. edited \in BOOLEAN
    BY <1>1 DEF TypeOK
  <2>2. edited' \in BOOLEAN
    BY <1>6, <2>1, Zenon
  <2>3. QED
    BY <2>2, <1>1, <1>4, <1>6, ReturnedType DEF Moved
<1>8. CASE Present(2, key[n])
  <2>1. j = i /\ m = must /\ UNCHANGED table
    BY <1>3, <1>5, <1>6, <1>8 DEF ItMove, table
  <2>2. Moved(j, s, m) /\ m \subseteq KeysOf(1)
    BY <2>1, <1>1, <1>4, <1>6
  <2>3. QED
    BY <1>1, <1>5, <1>7, <2>1, <2>2, InvAfterMoved
<1>9. CASE ~Present(2, key[n])
  <2>1. /\ j = [i EXCEPT !.prev = Nil] /\ m = must \ {key[n]}
        /\ count' = [count EXCEPT ![1] = @ - 1, ![2] = @ + 1]
        /\ hashtab' = [hashtab EXCEPT ![1][b] = next[n], ![2][h] = n]
        /\ next' = [p \in Nodes |-> IF p = n THEN hashtab[2][h]
                                    ELSE IF p = it.prev THEN next[n] ELSE next[p]]
    BY <1>1, <1>3, <1>5, <1>9 DEF ItMove
  <2>2. next' = [next EXCEPT ![n] = hashtab[2][h]]
    <3>1. next \in [Nodes -> Pointers]
      BY <1>1 DEF TypeOK
    <3>2. next' = [p \in Nodes |-> IF p = n THEN hashtab[2][h] ELSE next[p]]
      BY <1>1, <2>1, NodesAssumption
    <3>3. QED
      BY <3>1, <3>2
  <2>3. Find(2, key[n]) = Nil
    BY <1>9 DEF Present
  <2>4. Moves(b, n)
    BY <1>1, <1>2, <1>6, <2>1, <2>2, <2>3 DEF Moves
  <2> HIDE DEF b, n, h
  <2>5. /\ TableInv'
        /\ \A a \in Buckets : NodesIn(1, a)' = NodesIn(1, a) \ {n}
        /\ \A a \in Buckets : \A l \in NodesIn(1, a) : l # n => From(l)' = From(l) \ {n}
        /\ hashtab'[1][b] = next[n]
        /\ \A a \in Buckets : a # b => hashtab'[1][a] = hashtab[1][a]
    BY <1>1, <2>4, TableAfterMove
  <2>6. Shrinks({n})
    BY <1>6, <2>5 DEF Shrinks
  <2>7. j.np = i.np /\ j.idx = i.idx /\ j.cmp = i.cmp /\ j.prev = Nil /\ j \in ItType
    BY <1>4, <2>1 DEF Moved, ItType, Pointers
  \* Where it has gone.
  <2>8. WithinChain(it, i) \/ ToTheEnd(it, i) \/ ToAnotherChain(it, i)
    <3>1. i = PlainNext(it)
      BY <1>1, <1>3 DEF NextOf
    <3>2. Plain(it)
      BY <1>1, <1>2 DEF Plain, Pointers, b, n
    <3>3. QED
      BY <1>1, <3>1, <3>2, PlainCases
  <2>9. i.np # n /\ (i.np \in Nodes => hashtab'[1][i.idx] = i.np)
    <3>1. CASE WithinChain(it, i)
      <4>1. i.np = next[n] /\ i.idx = b /\ i.np \in Nodes
        BY <3>1 DEF WithinChain, n, b
      <4>2. n \notin From(next[n])
        BY <1>1, <1>2, NodeFacts
      <4>3. i.np \in From(i.np)
        BY <4>1, ReachFrom DEF From
      <4>4. QED
        BY <4>1, <4>2, <4>3, <2>5
    <3>2. CASE ToTheEnd(it, i)
      BY <3>2, <1>1, NodesAssumption DEF ToTheEnd
    <3>3. CASE ToAnotherChain(it, i)
      <4>1. /\ i.idx \in Buckets /\ i.idx > b /\ i.np = hashtab[1][i.idx] /\ i.np \in Nodes
        BY <3>3 DEF ToAnotherChain, b
      <4>2. i.idx # b
        BY <4>1, <1>2, Numbers
      <4>3. i.np \in NodesIn(1, i.idx)
        BY <1>1, <4>1, HeadFacts
      <4>4. i.np # n
        BY <1>1, <1>2, <4>1, <4>2, <4>3, NodeFacts
      <4>5. QED
        BY <2>5, <4>1, <4>2, <4>4
    <3>4. QED
      BY <2>8, <3>1, <3>2, <3>3
  <2>10. AtPrev(j)'
    BY <2>7, <2>9 DEF AtPrev
  <2>11. Placed(i)' /\ Unseen(i, s)' /\ Owed(i, s, m)' /\ m \subseteq KeysOf(1)'
    <3>1. Placed(i) /\ Unseen(i, s) /\ Owed(i, s, must)
      BY <1>4, <1>6 DEF Moved
    <3>2. {n} \in SUBSET Nodes /\ i.np \notin {n} /\ m \subseteq must
      BY <1>1, <2>1, <2>9
    <3>3. \A l \in {n} \cap NodesOf(1) : key[l] \notin m
      BY <2>1
    <3>4. PICK m0 : m0 = must
      OBVIOUS
    <3>5. QED
      BY <1>1, <2>6, <3>1, <3>2, <3>3, <3>4, ItAfterShrinking
  <2>12. Placed(j)' /\ Unseen(j, s)' /\ Owed(j, s, m)'
    <3>1. Placed(j)'
      BY <2>7, <2>11 DEF Placed
    <3>2. Unseen(j, s)'
      BY <2>7, <2>11 DEF Unseen, Passed, Ahead
    <3>3. Owed(j, s, m)'
      BY <2>7, <2>11 DEF Owed, ToCome, Ahead
    <3>4. QED
      BY <3>1, <3>2, <3>3
  <2>13. ItInv'
    BY <1>5, <2>10, <2>11, <2>12, ItNow
  <2>14. count' \in [Dicts -> Int]
    BY <1>1, <2>1 DEF TypeOK
  <2>15. it' \in ItType /\ edited' \in BOOLEAN /\ seen' \subseteq Keys /\ must' \subseteq KeysOf(1)'
    BY <1>5, <1>7, <2>7, <2>11
  <2>16. QED
    BY <2>5, <2>13, <2>14, <2>15, TypeNow DEF DictInv
<1>10. QED
  BY <1>8, <1>9

-----------------------------------------------------------------------------
(***************************************************************************)
(* The theorems.  "inner" is the move of an entry that is not the head of  *)
(* its chain, which dictionary_it_move gets wrong.                         *)
(***************************************************************************)
LEMMA DictInit ==
    ASSUME Init
    PROVE  DictInv
<1>1. \A d \in Dicts, b \in Buckets : hashtab[d][b] = Nil
  BY DEF Init
<1>2. \A d \in Dicts, b \in Buckets : Chain(hashtab, next, d, b) = {}
  BY <1>1, ReachNil DEF Chain
<1>3. \A d \in Dicts, b \in Buckets : NodesIn(d, b) = {}
  BY <1>2, ChainNames
<1>4. \A d \in Dicts : NodesOf(d) = {} /\ KeysOf(d) = {}
  <2>1. ASSUME NEW d \in Dicts PROVE NodesOf(d) = {}
    BY <1>3 DEF NodesOf
  <2>2. QED
    BY <2>1 DEF KeysOf
<1>5. Min(Keys) \in Keys
  BY KeysAssumption, MinOfNat
<1>6. HeapType(hashtab, next, key)
  <2>1. hashtab \in [Dicts -> [Buckets -> Pointers]] /\ next \in [Nodes -> Pointers]
    BY DEF Init, Pointers
  <2>2. key \in [Nodes -> Keys]
    BY <1>5 DEF Init
  <2>3. QED
    BY <2>1, <2>2 DEF HeapType
<1>7. Sound(hashtab, next, key)
  BY <1>2, <1>6 DEF Sound, Acyclic, Filed, Apart
<1>8. TableInv
  <2>1. used = UNION {NodesOf(d) : d \in Dicts}
    BY <1>4 DEF Init
  <2>2. CountIsRight
    BY <1>4, FS_EmptySet DEF Init, CountIsRight
  <2>3. QED
    BY <1>7, <2>1, <2>2 DEF TableInv
<1>9. it \in ItType /\ it.np = Nil
  BY DEF Init, Start, ItType, Pointers
<1>10. TypeOK
  <2>1. /\ hashtab \in [Dicts -> [Buckets -> Pointers]]
        /\ key \in [Nodes -> Keys] /\ next \in [Nodes -> Pointers]
    BY <1>6 DEF HeapType
  <2>2. count \in [Dicts -> Int]
    BY DEF Init
  <2>3. used \subseteq Nodes /\ seen \subseteq Keys /\ must \subseteq Keys /\ edited \in BOOLEAN
    BY DEF Init
  <2>4. QED
    BY <1>9, <2>1, <2>2, <2>3 DEF TypeOK, ItType
<1>11. ItInv
  BY <1>9, NodesAssumption DEF Init, ItInv, Placed, AtPrev, Unseen, Owed
<1>12. QED
  BY <1>8, <1>10, <1>11 DEF DictInv

LEMMA DictNext ==
    ASSUME "inner" \notin Ops, DictInv, [Next]_vars
    PROVE  DictInv'
<1>1. CASE UNCHANGED vars
  <2>1. UNCHANGED table
    BY <1>1 DEF vars, table
  <2>2. DictInv' <=> DictInv
    BY <1>1 DEF vars, table, DictInv, TypeOK, TableInv, CountIsRight, ItInv, Placed, AtPrev,
        Unseen, Passed, Owed, ToCome, Ahead, KeysOf, NodesOf, NodesIn, From
  <2>3. QED
    BY <2>2
<1>2. ASSUME NEW d \in Dicts, NEW k \in Keys, Install(d, k) PROVE DictInv'
  BY <1>2, InstallStep
<1>3. ASSUME NEW d \in Dicts, NEW k \in Keys, InstallNothing(d, k) PROVE DictInv'
  BY <1>1, <1>3 DEF InstallNothing
<1>4. ASSUME NEW d \in Dicts, NEW k \in Keys, RemoveKey(d, k) PROVE DictInv'
  BY <1>4, RemoveKeyStep
<1>5. ASSUME NEW d \in Dicts, RemoveAll(d) PROVE DictInv'
  BY <1>5, RemoveAllStep
<1>6. ASSUME NEW sorted \in BOOLEAN, ItFirst(sorted) PROVE DictInv'
  BY <1>6, ItFirstStep
<1>7. CASE ItNext
  BY <1>7, ItNextStep
<1>8. CASE ItRemove
  BY <1>8, ItRemoveStep
<1>9. CASE ItMove
  BY <1>9, ItMoveStep
<1>10. ASSUME NEW k \in Keys, ItAt(k) PROVE DictInv'
  BY <1>10, ItAtStep
<1>11. QED
  BY <1>1, <1>2, <1>3, <1>4, <1>5, <1>6, <1>7, <1>8, <1>9, <1>10 DEF Next

LEMMA DictAlways ==
    ASSUME "inner" \notin Ops
    PROVE  Spec => []DictInv
BY DictInit, DictNext, PTL DEF Spec

\* Every variable has its type.
THEOREM DictionaryTypes ==
    ASSUME "inner" \notin Ops
    PROVE  Spec => []TypeOK
<1>1. DictInv => TypeOK
  BY DEF DictInv
<1>2. QED
  BY <1>1, DictAlways, PTL

\* count is the number of entries, as dictionary_remove_all checks and nvol3 relies on.
THEOREM CountIsAlwaysRight ==
    ASSUME "inner" \notin Ops
    PROVE  Spec => []CountIsRight
<1>1. DictInv => CountIsRight
  BY DEF DictInv, TableInv
<1>2. QED
  BY <1>1, DictAlways, PTL

\* dict_lookup finds every entry of a table under its key, whatever has been
\* installed, removed and moved, also while iterating.
THEOREM EveryEntryIsAlwaysFound ==
    ASSUME "inner" \notin Ops
    PROVE  Spec => []EveryEntryIsFound
<1>1. DictInv => EveryEntryIsFound
  <2>1. ASSUME DictInv, NEW d \in Dicts, NEW n \in NodesOf(d) PROVE Find(d, key[n]) = n
    <3>1. TypeOK /\ TableInv /\ n \in Nodes
      BY <2>1, ChainNames DEF DictInv
    <3>2. key[n] \in Keys
      BY <3>1 DEF TypeOK
    <3>3. n \in NodesIn(d, Hash(key[n]))
      BY <3>1, ChainNames DEF TableInv, Sound, Filed
    <3>4. QED
      BY <3>1, <3>2, <3>3, FindFacts
  <2>2. QED
    BY <2>1 DEF EveryEntryIsFound
<1>2. QED
  BY <1>1, DictAlways, PTL

\* A node is allocated if and only if it is an entry of a table, and of one only: no
\* call leaks a node, and none leaves one linked that was freed.
THEOREM NothingIsEverLost ==
    ASSUME "inner" \notin Ops
    PROVE  Spec => []NothingIsLost
<1>1. DictInv => NothingIsLost
  BY TablesApart DEF DictInv, TableInv, NothingIsLost
<1>2. QED
  BY <1>1, DictAlways, PTL

\* An iteration that has come to its end has returned every key that was there all
\* the time, whatever was installed and removed meanwhile.
THEOREM IterationIsComplete ==
    ASSUME "inner" \notin Ops
    PROVE  Spec => []VisitsAll
<1>1. DictInv => VisitsAll
  BY DEF DictInv, ItInv, Owed, VisitsAll
<1>2. QED
  BY <1>1, DictAlways, PTL

\* No iteration returns a key twice.
THEOREM IterationRepeatsNothing ==
    ASSUME "inner" \notin Ops
    PROVE  Spec => VisitsOnce
<1>1. DictInv /\ [Next]_vars => [ItNext => Returned(it') \cap seen = {}]_vars
  BY ItNextStep
<1>2. QED
  BY <1>1, DictAlways, PTL DEF Spec, VisitsOnce

=============================================================================
