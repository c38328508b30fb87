--------------------------- MODULE FlatTrie_proofs ---------------------------
(***************************************************************************)
(* The trie, for every set of keys and values and every order of calls:    *)
(* it is the canonical trie of its map, its cached references are those    *)
(* of the nodes, and it implements KvStore.                                *)
(*                                                                         *)
(* The invariant says of every node which keys go through it (Shape), not  *)
(* what the operations did.  No induction over paths is needed: a position *)
(* is known by the keys below it.                                          *)
(***************************************************************************)
EXTENDS FlatTrie, HpPaths_proofs

-----------------------------------------------------------------------------
(* Positions *)

Position == Seq(Nibble)

(* The common prefix is no longer than either sequence. *)
LEMMA LcpBounds ==
  ASSUME NEW a \in Seq(Nibble), NEW b \in Seq(Nibble)
  PROVE  lcp(a, b) \in Nat /\ lcp(a, b) <= Len(a) /\ lcp(a, b) <= Len(b)
<1> DEFINE n == IF Len(a) < Len(b) THEN Len(a) ELSE Len(b)
           diff == {i \in 1..n : a[i] # b[i]}
<1>1. n \in Nat /\ n =< Len(a) /\ n =< Len(b)
  OBVIOUS
<1>2. CASE diff = {}
  BY <1>1, <1>2 DEF lcp
<1>3. CASE diff # {}
  <2>1. Min(diff) \in diff
    <3>1. diff \in SUBSET Nat
      OBVIOUS
    <3> HIDE DEF diff
    <3> QED BY <1>3, <3>1, LeastPosition
  <2>2. lcp(a, b) = Min(diff) - 1
    BY <1>3 DEF lcp
  <2>3. Min(diff) \in 1..n
    BY <2>1
  <2> HIDE DEF diff
  <2> QED BY <1>1, <2>2, <2>3
<1> QED BY <1>2, <1>3

(* The root is a prefix of every position and has no other prefix. *)
LEMMA PrefixBasic ==
  ASSUME NEW p \in Position
  PROVE  Prefix(p, p) /\ Prefix(Root, p) /\ (Prefix(p, Root) => p = Root) /\ Root \in Position
BY DEF Prefix, Position, Root

(* Prefix, nibble by nibble. *)
LEMMA PrefixPoint ==
  ASSUME NEW p \in Position, NEW q \in Position
  PROVE  Prefix(p, q) <=> Len(p) <= Len(q) /\ \A i \in 1..Len(p) : p[i] = q[i]
<1>1. ASSUME Len(p) <= Len(q)
      PROVE  SubSeq(q, 1, Len(p)) = p <=> \A i \in 1..Len(p) : p[i] = q[i]
  <2>1. /\ SubSeq(q, 1, Len(p)) \in Seq(Nibble)
        /\ Len(SubSeq(q, 1, Len(p))) = Len(p)
        /\ \A i \in 1..Len(p) : SubSeq(q, 1, Len(p))[i] = q[i]
    BY <1>1 DEF Position
  <2> QED BY <2>1, SameElements DEF Position
<1> QED BY <1>1 DEF Prefix

(* Prefixes are ordered, and those of one position are comparable. *)
LEMMA PrefixOrder ==
  ASSUME NEW p \in Position, NEW q \in Position, NEW k \in Position
  PROVE  /\ Prefix(p, q) /\ Prefix(q, k) => Prefix(p, k)
         /\ Prefix(p, q) /\ Prefix(q, p) => p = q
         /\ Prefix(p, k) /\ Prefix(q, k) => Prefix(p, q) \/ Prefix(q, p)
<1> Len(p) \in Nat /\ Len(q) \in Nat /\ Len(k) \in Nat
  BY DEF Position
<1>1. Prefix(p, q) /\ Prefix(q, k) => Prefix(p, k)
  BY PrefixPoint
<1>2. Prefix(p, q) /\ Prefix(q, p) => p = q
  BY PrefixPoint, SameElements DEF Position
<1>3. Prefix(p, k) /\ Prefix(q, k) => Prefix(p, q) \/ Prefix(q, p)
  BY PrefixPoint
<1> QED BY <1>1, <1>2, <1>3

(* The slot i below p. *)
LEMMA DownFacts ==
  ASSUME NEW p \in Position, NEW i \in Nibble
  PROVE  /\ Down(p, i) \in Position
         /\ Prefix(p, Down(p, i))
         /\ ~Prefix(Down(p, i), p)
         /\ Down(p, i) # Root
         /\ Up(Down(p, i)) = p
         /\ Step(p, Down(p, i)) = i
<1> DEFINE d == Down(p, i)
<1>1. /\ d \in Position
      /\ Len(d) = Len(p) + 1 /\ Len(p) \in Nat
      /\ \A j \in 1..Len(p) : d[j] = p[j]
      /\ d[Len(p) + 1] = i
  BY DEF Down, Position
<1>2. Len(Root) = 0
  BY DEF Root
<1> HIDE DEF d
<1>3. Prefix(p, d) /\ ~Prefix(d, p) /\ d # Root
  BY <1>1, <1>2, PrefixPoint
<1>4. Up(d) = p
  BY <1>1, <1>3 DEF Up, Prefix
<1> QED BY <1>1, <1>3, <1>4 DEF Step, d

(* The slot through which k goes on below p. *)
LEMMA StepFacts ==
  ASSUME NEW p \in Position, NEW k \in Position, Prefix(p, k), p # k
  PROVE  Step(p, k) \in Nibble /\ Prefix(Down(p, Step(p, k)), k)
<1> DEFINE i == Step(p, k)
           d == Down(p, i)
<1>1. Len(p) \in Nat /\ Len(k) \in Nat /\ Len(p) <= Len(k) /\ \A j \in 1..Len(p) : p[j] = k[j]
  BY PrefixPoint DEF Position
<1>2. Len(p) + 1 <= Len(k)
  BY <1>1, SameElements DEF Position
<1>3. i \in Nibble
  BY <1>1, <1>2 DEF Step, Position
<1>4. /\ d \in Position
      /\ Len(d) = Len(p) + 1
      /\ \A j \in 1..Len(p) : d[j] = p[j]
      /\ d[Len(p) + 1] = k[Len(p) + 1]
  BY <1>3 DEF Down, Position, Step
<1> HIDE DEF d
<1>5. Prefix(d, k)
  BY <1>1, <1>2, <1>4, PrefixPoint
<1> QED BY <1>3, <1>5 DEF d

(* What goes through the slot i of p goes through p, and on with i. *)
LEMMA DownPrefix ==
  ASSUME NEW p \in Position, NEW i \in Nibble, NEW k \in Position, Prefix(Down(p, i), k)
  PROVE  Prefix(p, k) /\ p # k /\ Step(p, k) = i
<1> DEFINE d == Down(p, i)
<1>1. /\ d \in Position
      /\ Len(d) = Len(p) + 1 /\ Len(p) \in Nat /\ Len(k) \in Nat
      /\ \A j \in 1..Len(p) : d[j] = p[j]
      /\ d[Len(p) + 1] = i
  BY DEF Down, Position
<1> HIDE DEF d
<1>2. Len(d) <= Len(k) /\ \A j \in 1..Len(d) : d[j] = k[j]
  BY <1>1, PrefixPoint DEF d
<1>3. Prefix(p, k) /\ p # k
  BY <1>1, <1>2, PrefixPoint
<1> QED BY <1>1, <1>2, <1>3 DEF Step

(* Above a slot are the slot itself and what is above its branch. *)
LEMMA BelowDown ==
  ASSUME NEW p \in Position, NEW i \in Nibble, NEW q \in Position, Prefix(q, Down(p, i))
  PROVE  q = Down(p, i) \/ Prefix(q, p)
<1> DEFINE d == Down(p, i)
<1>1. /\ d \in Position
      /\ Len(d) = Len(p) + 1 /\ Len(p) \in Nat /\ Len(q) \in Nat
      /\ \A j \in 1..Len(p) : d[j] = p[j]
  BY DEF Down, Position
<1> HIDE DEF d
<1>2. Len(q) <= Len(d) /\ \A j \in 1..Len(q) : q[j] = d[j]
  BY <1>1, PrefixPoint DEF d
<1>3. CASE Len(q) = Len(d)
  BY <1>1, <1>2, <1>3, SameElements DEF d, Position
<1>4. CASE Len(q) <= Len(p)
  BY <1>1, <1>2, <1>4, PrefixPoint
<1> QED BY <1>1, <1>2, <1>3, <1>4

(* Every position but the root is a slot of the one above. *)
LEMMA UpFacts ==
  ASSUME NEW p \in Position, p # Root
  PROVE  /\ Up(p) \in Position
         /\ Step(Up(p), p) \in Nibble
         /\ p = Down(Up(p), Step(Up(p), p))
<1> DEFINE u == Up(p)
<1>1. Len(p) \in Nat /\ Len(p) # 0
  BY DEF Position, Root
<1>2. /\ u \in Position
      /\ Len(u) = Len(p) - 1
      /\ \A j \in 1..Len(u) : u[j] = p[j]
  <2>1. Len(p) - 1 \in Nat /\ Len(p) - 1 <= Len(p)
    BY <1>1
  <2>2. ASSUME NEW n \in Nat, n <= Len(p)
        PROVE  /\ SubSeq(p, 1, n) \in Position /\ Len(SubSeq(p, 1, n)) = n
               /\ \A j \in 1..n : SubSeq(p, 1, n)[j] = p[j]
    BY <2>2 DEF Position
  <2> QED BY <2>1, <2>2 DEF Up
<1> HIDE DEF u
<1>3. Prefix(u, p) /\ u # p
  BY <1>1, <1>2, PrefixPoint
<1>4. Step(u, p) \in Nibble /\ Prefix(Down(u, Step(u, p)), p)
  BY <1>2, <1>3, StepFacts
<1>5. Down(u, Step(u, p)) \in Position /\ Len(Down(u, Step(u, p))) = Len(p)
  BY <1>1, <1>2, <1>4 DEF Down, Position
<1>6. \A j \in 1..Len(p) : Down(u, Step(u, p))[j] = p[j]
  BY <1>4, <1>5, PrefixPoint
<1>7. Down(u, Step(u, p)) = p
  BY <1>5, <1>6, SameElements DEF Position
<1> QED BY <1>2, <1>4, <1>7 DEF u

(* Two positions part where they meet, unless one is a prefix of the       *)
(* other.                                                                  *)
LEMMA MeetFacts ==
  ASSUME NEW a \in Position, NEW b \in Position
  PROVE  /\ Meet(a, b) \in Position
         /\ Prefix(Meet(a, b), a)
         /\ Prefix(Meet(a, b), b)
         /\ Meet(a, b) # a /\ Meet(a, b) # b => Step(Meet(a, b), a) # Step(Meet(a, b), b)
<1> DEFINE n == lcp(a, b)
           q == Meet(a, b)
<1>1. /\ SubSeq(a, 1, n) = SubSeq(b, 1, n)
      /\ n = Len(a) \/ n = Len(b) \/ a[n + 1] # b[n + 1]
  BY PartsHolds DEF Parts, Position
<1>2. n \in Nat /\ n <= Len(a) /\ n <= Len(b) /\ Len(a) \in Nat /\ Len(b) \in Nat
  BY LcpBounds DEF Position
<1> HIDE DEF n
<1>3. q = SubSeq(a, 1, n)
  BY DEF Meet, n, q
<1>4. /\ q \in Position /\ Len(q) = n
      /\ \A j \in 1..n : q[j] = a[j]
  BY <1>2, <1>3 DEF Position
<1>5. \A j \in 1..n : q[j] = b[j]
  BY <1>1, <1>2, <1>3 DEF Position
<1> HIDE DEF q
<1>6. Prefix(q, a) /\ Prefix(q, b)
  BY <1>2, <1>4, <1>5, PrefixPoint
<1>7. ASSUME q # a, q # b
      PROVE  Step(q, a) # Step(q, b)
  <2>1. n # Len(a) /\ n # Len(b)
    BY <1>4, <1>5, <1>7, SameElements DEF Position
  <2> QED BY <1>1, <1>4, <2>1 DEF Step
<1> QED BY <1>4, <1>6, <1>7 DEF q

(* Prefixes, without the numbers. *)
LEMMA PrefixesFacts ==
  ASSUME NEW K, K \subseteq Position, NEW p
  PROVE  p \in Prefixes(K) <=> p \in Position /\ \E k \in K : Prefix(p, k)
<1>1. ASSUME NEW k \in K, NEW n \in 0..Len(k), p = SubSeq(k, 1, n)
      PROVE  p \in Position /\ Prefix(p, k)
  <2>1. k \in Position /\ Len(k) \in Nat
    BY DEF Position
  <2>2. p \in Position /\ Len(p) = n
    BY <1>1, <2>1 DEF Position
  <2> QED BY <1>1, <2>1, <2>2 DEF Prefix
<1>2. ASSUME p \in Position, NEW k \in K, Prefix(p, k)
      PROVE  \E n \in 0..Len(k) : p = SubSeq(k, 1, n)
  <2>1. Len(p) \in 0..Len(k) /\ p = SubSeq(k, 1, Len(p))
    BY <1>2 DEF Prefix, Position
  <2> QED BY <2>1
<1> QED BY <1>1, <1>2 DEF Prefixes

-----------------------------------------------------------------------------
(* The shape of a trie: what a node says of the keys below it *)

(* The four kinds of nodes differ, and a node tells what it was made from. *)
LEMMA Kinds ==
  /\ Null.k = "null"
  /\ \A k, v : Leaf(k, v).k = "leaf" /\ Leaf(k, v).key = k /\ Leaf(k, v).value = v
  /\ \A q : Extension(q).k = "ext" /\ Extension(q).child = q
  /\ \A s : Branch(s).k = "branch" /\ Branch(s).kids = s
BY DEF Null, Leaf, Extension, Branch

NullOk(K, x, n) == n = Null /\ \A k \in K : ~Prefix(x, k)
LeafOk(K, m, x, n) ==
  \E k \in K : n = Leaf(k, m[k]) /\ Prefix(x, k) /\ \A l \in K : Prefix(x, l) => l = k
Kids(K, x) == {i \in Nibble : \E k \in K : Prefix(Down(x, i), k)}
BranchOk(K, x, n) == IsFork(K, x) /\ n = Branch(Kids(K, x))
ExtOk(K, x, n) ==
  \E q \in Position : /\ n = Extension(q)
                      /\ Prefix(x, q) /\ x # q
                      /\ IsFork(K, q)
                      /\ \A k \in K : Prefix(x, k) => Prefix(q, k)
NodeOk(K, m, x, n) ==
  NullOk(K, x, n) \/ LeafOk(K, m, x, n) \/ BranchOk(K, x, n) \/ ExtOk(K, x, n)

Slot(K, x) == \E q \in Position, i \in Nibble :
                x = Down(q, i) /\ IsFork(K, q) /\ i \in Kids(K, q)
Holds(K, x) == x \in Position /\ (x = Root \/ IsFork(K, x) \/ Slot(K, x))

IsFunction(f) == f = [x \in DOMAIN f |-> f[x]]

Shape(d, K, m) ==
  /\ IsFunction(d)
  /\ \A x : x \in DOMAIN d <=> Holds(K, x)
  /\ \A x \in DOMAIN d : NodeOk(K, m, x, d[x])

KeySet(K) == K \subseteq Position /\ \A k, l \in K : Prefix(k, l) => k = l

(* A fork is a position with two slots in use. *)
LEMMA ForkFacts ==
  ASSUME NEW K, K \subseteq Position, NEW x \in Position
  PROVE  IsFork(K, x) <=> \E i, j \in Kids(K, x) : i # j
<1>1. ASSUME NEW k \in K, NEW l \in K, Prefix(x, k), Prefix(x, l), x # k, x # l,
             Step(x, k) # Step(x, l)
      PROVE  \E i, j \in Kids(K, x) : i # j
  <2>1. /\ Step(x, k) \in Nibble /\ Prefix(Down(x, Step(x, k)), k)
        /\ Step(x, l) \in Nibble /\ Prefix(Down(x, Step(x, l)), l)
    BY <1>1, StepFacts
  <2> QED BY <1>1, <2>1 DEF Kids
<1>2. ASSUME NEW i \in Kids(K, x), NEW j \in Kids(K, x), i # j
      PROVE  IsFork(K, x)
  <2>1. PICK k \in K, l \in K : Prefix(Down(x, i), k) /\ Prefix(Down(x, j), l)
    BY DEF Kids
  <2>2. i \in Nibble /\ j \in Nibble /\ k \in Position /\ l \in Position
    BY DEF Kids
  <2>3. /\ Prefix(x, k) /\ x # k /\ Step(x, k) = i
        /\ Prefix(x, l) /\ x # l /\ Step(x, l) = j
    BY <2>1, <2>2, DownPrefix
  <2> QED BY <1>2, <2>3 DEF IsFork, Under
<1> QED BY <1>1, <1>2 DEF IsFork, Under

(* The slots in use are the ones that keys go through; no slot of a fork   *)
(* has them all.                                                           *)
LEMMA KidFacts ==
  ASSUME NEW K, K \subseteq Position, NEW x \in Position
  PROVE  /\ \A k \in K : Prefix(x, k) /\ x # k =>
              Step(x, k) \in Kids(K, x) /\ Prefix(Down(x, Step(x, k)), k)
         /\ \A i \in Kids(K, x) : /\ i \in Nibble
                                  /\ Down(x, i) \in Position
                                  /\ \E k \in K : Prefix(Down(x, i), k) /\ Prefix(x, k) /\ x # k
         /\ IsFork(K, x) => \A i \in Nibble : \E k \in K : Prefix(x, k) /\ ~Prefix(Down(x, i), k)
<1>1. ASSUME NEW k \in K, Prefix(x, k), x # k
      PROVE  Step(x, k) \in Kids(K, x) /\ Prefix(Down(x, Step(x, k)), k)
  BY <1>1, StepFacts DEF Kids
<1>2. ASSUME NEW i \in Kids(K, x)
      PROVE  /\ i \in Nibble /\ Down(x, i) \in Position
             /\ \E k \in K : Prefix(Down(x, i), k) /\ Prefix(x, k) /\ x # k
  BY DownFacts, DownPrefix DEF Kids
<1>3. ASSUME IsFork(K, x), NEW i \in Nibble
      PROVE  \E k \in K : Prefix(x, k) /\ ~Prefix(Down(x, i), k)
  <2>1. PICK j \in Kids(K, x) : j # i
    BY <1>3, ForkFacts
  <2>2. PICK k \in K : Prefix(Down(x, j), k)
    BY DEF Kids
  <2>3. j \in Nibble /\ k \in Position
    BY DEF Kids
  <2>4. Prefix(x, k) /\ Step(x, k) = j
    BY <2>2, <2>3, DownPrefix
  <2>5. ~Prefix(Down(x, i), k)
    BY <2>1, <2>3, <2>4, DownPrefix
  <2> QED BY <2>4, <2>5
<1> QED BY <1>1, <1>2, <1>3

(* Forks with the same keys below are one. *)
LEMMA ForkAboveFork ==
  ASSUME NEW K, K \subseteq Position, NEW x \in Position, NEW y \in Position,
         IsFork(K, x), Prefix(x, y), x # y
  PROVE  \E k \in K : Prefix(x, k) /\ ~Prefix(y, k)
<1>1. Step(x, y) \in Nibble /\ Prefix(Down(x, Step(x, y)), y)
  BY StepFacts
<1>2. PICK k \in K : Prefix(x, k) /\ ~Prefix(Down(x, Step(x, y)), k)
  BY <1>1, KidFacts
<1>3. k \in Position /\ Down(x, Step(x, y)) \in Position
  BY <1>1, DownFacts
<1> QED BY <1>1, <1>2, <1>3, PrefixOrder

(* Two keys go through a fork. *)
LEMMA ForkKeys ==
  ASSUME NEW K, K \subseteq Position, NEW x \in Position, IsFork(K, x)
  PROVE  \E k, l \in K : k # l /\ Prefix(x, k) /\ Prefix(x, l)
<1>1. PICK k \in K, l \in K : Prefix(x, k) /\ Prefix(x, l) /\ Step(x, k) # Step(x, l)
  BY DEF IsFork, Under
<1> QED BY <1>1

(* What is known of a node other than the root. *)
LEMMA NodeBelowFork ==
  ASSUME NEW K, K \subseteq Position, NEW x, Holds(K, x), x # Root
  PROVE  /\ \E k \in K : Prefix(x, k)
         /\ \A y \in Position : Prefix(y, x) /\ y # x =>
              \E f \in Position : IsFork(K, f) /\ Prefix(y, f) /\ Prefix(f, x)
<1>1. x \in Position /\ (IsFork(K, x) \/ Slot(K, x))
  BY DEF Holds
<1>2. CASE IsFork(K, x)
  BY <1>1, <1>2, ForkKeys, PrefixBasic
<1>3. CASE Slot(K, x)
  <2>1. PICK q \in Position, i \in Nibble : x = Down(q, i) /\ IsFork(K, q) /\ i \in Kids(K, q)
    BY <1>3 DEF Slot
  <2>2. \E k \in K : Prefix(x, k)
    BY <2>1 DEF Kids
  <2>3. Prefix(q, x)
    BY <2>1, DownFacts
  <2>4. ASSUME NEW y \in Position, Prefix(y, x), y # x
        PROVE  Prefix(y, q)
    BY <2>1, <2>4, BelowDown
  <2> QED BY <2>1, <2>2, <2>3, <2>4
<1> QED BY <1>1, <1>2, <1>3

(* There is nothing below a leaf. *)
LEMMA LeafIsBottom ==
  ASSUME NEW K, K \subseteq Position, NEW m, NEW d, Shape(d, K, m),
         NEW x \in DOMAIN d, LeafOk(K, m, x, d[x]), NEW y \in DOMAIN d, Prefix(x, y)
  PROVE  y = x
<1> SUFFICES ASSUME y # x PROVE FALSE
  OBVIOUS
<1>1. Holds(K, x) /\ Holds(K, y) /\ x \in Position /\ y \in Position
  BY DEF Shape, Holds
<1>2. y # Root
  BY <1>1, PrefixBasic
<1>3. PICK f \in Position : IsFork(K, f) /\ Prefix(x, f)
  BY <1>1, <1>2, NodeBelowFork
<1>4. PICK k \in K, l \in K : k # l /\ Prefix(f, k) /\ Prefix(f, l)
  BY <1>3, ForkKeys
<1>5. k \in Position /\ l \in Position
  OBVIOUS
<1>6. Prefix(x, k) /\ Prefix(x, l)
  BY <1>1, <1>3, <1>4, <1>5, PrefixOrder
<1> QED BY <1>4, <1>6 DEF LeafOk

(* Between a node and the position all its keys go through there is        *)
(* nothing.                                                                *)
LEMMA ExtGap ==
  ASSUME NEW K, K \subseteq Position, NEW m, NEW d, Shape(d, K, m),
         NEW x \in DOMAIN d, NEW q \in Position, Prefix(x, q),
         \A k \in K : Prefix(x, k) => Prefix(q, k),
         NEW y \in DOMAIN d, Prefix(x, y), y # x
  PROVE  Prefix(q, y)
<1>1. Holds(K, x) /\ Holds(K, y) /\ x \in Position /\ y \in Position
  BY DEF Shape, Holds
<1>2. y # Root
  BY <1>1, PrefixBasic
<1>3. PICK f \in Position : IsFork(K, f) /\ Prefix(x, f) /\ Prefix(f, y)
  BY <1>1, <1>2, NodeBelowFork
<1>4. PICK k \in K : Prefix(f, k)
  BY <1>3, ForkKeys
<1>5. Prefix(q, k) /\ k \in Position
  BY <1>1, <1>3, <1>4, PrefixOrder
<1>6. Prefix(q, f) \/ Prefix(f, q)
  BY <1>4, <1>5, PrefixOrder
<1>7. ASSUME Prefix(f, q), f # q
      PROVE  FALSE
  <2>1. PICK l \in K : Prefix(f, l) /\ ~Prefix(q, l)
    BY <1>3, <1>7, ForkAboveFork
  <2>2. Prefix(x, l)
    BY <1>1, <1>3, <2>1, PrefixOrder
  <2> QED BY <2>1, <2>2
<1> QED BY <1>1, <1>3, <1>6, <1>7, PrefixOrder, PrefixBasic

(* The trie has a branch at every fork, with the slots in use as children. *)
LEMMA ForkIsBranch ==
  ASSUME NEW K, K \subseteq Position, NEW m, NEW d, Shape(d, K, m),
         NEW x \in Position, IsFork(K, x)
  PROVE  x \in DOMAIN d /\ d[x] = Branch(Kids(K, x))
<1>1. x \in DOMAIN d
  BY DEF Shape, Holds
<1>2. PICK k \in K, l \in K : k # l /\ Prefix(x, k) /\ Prefix(x, l)
  BY ForkKeys
<1>3. ~NullOk(K, x, d[x]) /\ ~LeafOk(K, m, x, d[x])
  BY <1>2 DEF NullOk, LeafOk
<1>4. ~ExtOk(K, x, d[x])
  BY ForkAboveFork DEF ExtOk
<1>5. BranchOk(K, x, d[x])
  BY <1>1, <1>3, <1>4 DEF Shape, NodeOk
<1> QED BY <1>1, <1>5 DEF BranchOk

(* The kind of a node says what is below it. *)
LEMMA NodeKinds ==
  ASSUME NEW K, NEW m, NEW d, Shape(d, K, m), NEW x \in DOMAIN d
  PROVE  /\ d[x].k \in {"null", "leaf", "branch", "ext"}
         /\ d[x].k = "null" => NullOk(K, x, d[x])
         /\ d[x].k = "leaf" => LeafOk(K, m, x, d[x])
         /\ d[x].k = "branch" => BranchOk(K, x, d[x])
         /\ d[x].k = "ext" => ExtOk(K, x, d[x])
<1>1. NodeOk(K, m, x, d[x])
  BY DEF Shape
<1>2. NullOk(K, x, d[x]) => d[x].k = "null"
  BY Kinds DEF NullOk
<1>3. LeafOk(K, m, x, d[x]) => d[x].k = "leaf"
  BY Kinds DEF LeafOk
<1>4. BranchOk(K, x, d[x]) => d[x].k = "branch"
  BY Kinds DEF BranchOk
<1>5. ExtOk(K, x, d[x]) => d[x].k = "ext"
  BY Kinds DEF ExtOk
<1> QED BY <1>1, <1>2, <1>3, <1>4, <1>5 DEF NodeOk

(* Of some prefixes of one position, one is the longest. *)
LEMMA Longest ==
  ASSUME NEW k \in Position, NEW W, W \subseteq Position, W # {}, \A p \in W : Prefix(p, k)
  PROVE  \E p \in W : \A q \in W : Prefix(q, p)
<1> DEFINE D == {Len(k) - Len(p) : p \in W}
<1>1. \A p \in W : Len(p) \in Nat /\ Len(k) \in Nat /\ Len(p) <= Len(k)
  BY PrefixPoint DEF Position
<1>2. D \in SUBSET Nat /\ D # {}
  BY <1>1
<1>3. Min(D) \in D /\ \A y \in D : Min(D) <= y
  <2> HIDE DEF D
  <2> QED BY <1>2, LeastPosition
<1>4. PICK p \in W : Min(D) = Len(k) - Len(p)
  BY <1>3
<1>5. ASSUME NEW q \in W
      PROVE  Prefix(q, p)
  <2>1. Len(k) - Len(p) <= Len(k) - Len(q)
    BY <1>3, <1>4
  <2>2. Len(q) <= Len(p)
    BY <1>1, <2>1
  <2>3. p \in Position /\ q \in Position
    OBVIOUS
  <2>4. CASE Prefix(p, q)
    <3>1. Len(p) <= Len(q) /\ \A i \in 1..Len(p) : p[i] = q[i]
      BY <2>3, <2>4, PrefixPoint
    <3>2. Len(p) = Len(q)
      BY <1>1, <2>2, <3>1
    <3> QED BY <2>3, <3>1, <3>2, PrefixPoint
  <2> QED BY <2>3, <2>4, PrefixOrder
<1> QED BY <1>5

(* A walk ends at the deepest node above the key. *)
LEMMA LastFacts ==
  ASSUME NEW K, NEW m, Shape(data, K, m), NEW k \in Position
  PROVE  /\ Last(k) \in DOMAIN data
         /\ Prefix(Last(k), k)
         /\ \A q \in DOMAIN data : Prefix(q, k) => Prefix(q, Last(k))
<1>1. Walk(k) \subseteq Position /\ \A p \in Walk(k) : Prefix(p, k)
  BY DEF Walk, Shape, Holds
<1>2. Root \in Walk(k)
  BY PrefixBasic DEF Walk, Shape, Holds
<1>3. \E p \in Walk(k) : \A q \in Walk(k) : Prefix(q, p)
  BY <1>1, <1>2, Longest
<1>4. Last(k) \in Walk(k) /\ \A q \in Walk(k) : Prefix(q, Last(k))
  BY <1>3 DEF Last
<1> QED BY <1>4 DEF Walk

-----------------------------------------------------------------------------
(* A new key *)

(* The walk for k through the trie d ends at p. *)
AtEnd(d, K, m, k, p) ==
  /\ Shape(d, K, m)
  /\ K \subseteq Position
  /\ k \in Position
  /\ p \in DOMAIN d
  /\ Prefix(p, k)
  /\ \A q \in DOMAIN d : Prefix(q, k) => Prefix(q, p)

(* A new key adds at most the slots that it goes through. *)
LEMMA KidsGrow ==
  ASSUME NEW K, K \subseteq Position, NEW k \in Position, NEW x \in Position
  PROVE  /\ Kids(K, x) \subseteq Kids(K \cup {k}, x)
         /\ Prefix(x, k) /\ x # k => Kids(K \cup {k}, x) = Kids(K, x) \cup {Step(x, k)}
         /\ ~(Prefix(x, k) /\ x # k) => Kids(K \cup {k}, x) = Kids(K, x)
         /\ IsFork(K, x) => IsFork(K \cup {k}, x)
<1>1. ASSUME NEW i \in Nibble, Prefix(Down(x, i), k)
      PROVE  Prefix(x, k) /\ x # k /\ i = Step(x, k)
  BY <1>1, DownPrefix
<1>2. ASSUME Prefix(x, k), x # k
      PROVE  Step(x, k) \in Nibble /\ Prefix(Down(x, Step(x, k)), k)
  BY <1>2, StepFacts
<1>3. Kids(K \cup {k}, x) = Kids(K, x) \cup {i \in Nibble : Prefix(Down(x, i), k)}
  BY DEF Kids
<1>4. Kids(K, x) \subseteq Kids(K \cup {k}, x)
  BY <1>3
<1>5. IsFork(K, x) => IsFork(K \cup {k}, x)
  BY <1>4, ForkFacts
<1> QED BY <1>1, <1>2, <1>3, <1>4, <1>5

(* What goes through p takes the same step at every position above p. *)
LEMMA StepThrough ==
  ASSUME NEW x \in Position, NEW p \in Position, NEW k \in Position,
         Prefix(x, p), x # p, Prefix(p, k)
  PROVE  Prefix(x, k) /\ x # k /\ Step(x, k) = Step(x, p)
<1>1. Step(x, p) \in Nibble /\ Prefix(Down(x, Step(x, p)), p)
  BY StepFacts
<1>2. Down(x, Step(x, p)) \in Position
  BY <1>1, DownFacts
<1>3. Prefix(Down(x, Step(x, p)), k)
  BY <1>1, <1>2, PrefixOrder
<1> QED BY <1>1, <1>3, DownPrefix

Occupied(K, p) == \E l \in K : Prefix(p, l)

(* A key that goes on below p leaves the nodes above p as they are. *)
LEMMA InsertElsewhere ==
  ASSUME NEW d, NEW K, NEW m, NEW k, NEW p, AtEnd(d, K, m, k, p), k \notin K,
         NEW n, \A l \in K : n[l] = m[l],
         Occupied(K, p),
         NEW x \in DOMAIN d, x # p
  PROVE  NodeOk(K \cup {k}, n, x, d[x])
<1> USE DEF AtEnd
<1>1. x \in Position /\ p \in Position
  BY DEF Shape, Holds
<1>2. NodeOk(K, m, x, d[x])
  BY DEF Shape
<1>3. CASE ~Prefix(x, k)
  <2>1. CASE NullOk(K, x, d[x])
    BY <1>3, <2>1 DEF NullOk, NodeOk
  <2>2. CASE LeafOk(K, m, x, d[x])
    BY <1>3, <2>2 DEF LeafOk, NodeOk
  <2>3. CASE BranchOk(K, x, d[x])
    BY <1>1, <1>3, <2>3, KidsGrow DEF BranchOk, NodeOk
  <2>4. CASE ExtOk(K, x, d[x])
    BY <1>3, <2>4, KidsGrow DEF ExtOk, NodeOk
  <2> QED BY <1>2, <2>1, <2>2, <2>3, <2>4 DEF NodeOk
<1>4. CASE Prefix(x, k)
  <2>1. Prefix(x, p)
    BY <1>4
  <2>2. PICK l \in K : Prefix(p, l)
    BY DEF Occupied
  <2>3. l \in Position /\ Prefix(x, l) /\ x # l /\ x # k /\ Step(x, l) = Step(x, k)
    BY <1>1, <2>1, <2>2, StepThrough
  <2>4. ~NullOk(K, x, d[x])
    BY <2>3 DEF NullOk
  <2>5. ~LeafOk(K, m, x, d[x])
    BY <2>1, LeafIsBottom
  <2>6. CASE BranchOk(K, x, d[x])
    <3>1. Step(x, k) \in Kids(K, x)
      BY <1>1, <2>3, KidFacts
    <3>2. Kids(K \cup {k}, x) = Kids(K, x)
      <4>1. Kids(K \cup {k}, x) = Kids(K, x) \cup {Step(x, k)}
        BY <1>1, <1>4, <2>3, KidsGrow
      <4> QED BY <3>1, <4>1
    <3> QED BY <1>1, <2>6, <3>2, KidsGrow DEF BranchOk, NodeOk
  <2>7. CASE ExtOk(K, x, d[x])
    <3>1. PICK q \in Position : /\ d[x] = Extension(q)
                                /\ Prefix(x, q) /\ x # q
                                /\ IsFork(K, q)
                                /\ \A j \in K : Prefix(x, j) => Prefix(q, j)
      BY <2>7 DEF ExtOk
    <3>2. Prefix(q, p)
      BY <2>1, <3>1, ExtGap
    <3>3. Prefix(q, k)
      BY <1>1, <3>2, PrefixOrder
    <3>4. IsFork(K \cup {k}, q)
      BY <3>1, KidsGrow
    <3> QED BY <3>1, <3>3, <3>4 DEF ExtOk, NodeOk
  <2> QED BY <1>2, <2>4, <2>5, <2>6, <2>7 DEF NodeOk
<1> QED BY <1>3, <1>4

(* Where a new key makes a fork: at or below the end of the walk. *)
LEMMA NewFork ==
  ASSUME NEW d, NEW K, NEW m, NEW k, NEW p, AtEnd(d, K, m, k, p), k \notin K,
         Occupied(K, p),
         NEW x \in Position, IsFork(K \cup {k}, x), ~IsFork(K, x)
  PROVE  /\ Prefix(p, x) /\ Prefix(x, k) /\ x # k
         /\ \E l \in K : Prefix(x, l) /\ x # l /\ Step(x, l) # Step(x, k)
<1> USE DEF AtEnd
<1>1. p \in Position
  BY DEF Shape, Holds
<1>2. PICK i \in Kids(K \cup {k}, x), j \in Kids(K \cup {k}, x) : i # j
  BY ForkFacts
<1>3. ~(i \in Kids(K, x) /\ j \in Kids(K, x))
  BY <1>2, ForkFacts
<1>4. Prefix(x, k) /\ x # k /\ Kids(K \cup {k}, x) = Kids(K, x) \cup {Step(x, k)}
  BY <1>2, <1>3, KidsGrow
<1>5. PICK h \in Kids(K, x) : h # Step(x, k)
  BY <1>2, <1>4
<1>6. PICK l \in K : Prefix(Down(x, h), l)
  BY DEF Kids
<1>7. Prefix(x, l) /\ x # l /\ Step(x, l) = h /\ Step(x, l) \in Kids(K, x)
  BY <1>5, <1>6, DownPrefix DEF Kids
<1>8. Prefix(p, x)
  <2> SUFFICES ASSUME ~Prefix(p, x) PROVE FALSE
    OBVIOUS
  <2>1. Prefix(x, p) /\ x # p
    BY <1>1, <1>4, PrefixOrder, PrefixBasic
  <2>2. PICK o \in K : Prefix(p, o)
    BY DEF Occupied
  <2>3. Prefix(x, o) /\ x # o /\ Step(x, o) = Step(x, k)
    BY <1>1, <2>1, <2>2, StepThrough
  <2>4. Step(x, k) \in Kids(K, x)
    BY <2>3, KidFacts
  <2> QED BY <1>5, <2>4, ForkFacts
<1> QED BY <1>4, <1>5, <1>7, <1>8

(* A new key gives a slot to no old fork but the end of the walk. *)
LEMMA NewKid ==
  ASSUME NEW d, NEW K, NEW m, NEW k, NEW p, AtEnd(d, K, m, k, p), k \notin K,
         Occupied(K, p),
         NEW x \in Position, IsFork(K, x), x # p
  PROVE  Kids(K \cup {k}, x) = Kids(K, x)
<1> USE DEF AtEnd
<1>1. p \in Position /\ x \in DOMAIN d
  BY DEF Shape, Holds
<1>2. CASE Prefix(x, k) /\ x # k
  <2>1. Prefix(x, p)
    BY <1>1, <1>2
  <2>2. PICK o \in K : Prefix(p, o)
    BY DEF Occupied
  <2>3. Prefix(x, o) /\ x # o /\ Step(x, o) = Step(x, k)
    BY <1>1, <2>1, <2>2, StepThrough
  <2>4. Step(x, k) \in Kids(K, x)
    BY <2>3, KidFacts
  <2> QED BY <1>2, <2>4, KidsGrow
<1> QED BY <1>2, KidsGrow

(* Two keys part at one position only. *)
LEMMA PartOnce ==
  ASSUME NEW a \in Position, NEW b \in Position, NEW x \in Position, NEW y \in Position,
         Prefix(x, a), Prefix(x, b), x # a, x # b, Step(x, a) # Step(x, b),
         Prefix(y, a), Prefix(y, b), y # a, y # b, Step(y, a) # Step(y, b)
  PROVE  x = y
<1>1. Prefix(x, y) \/ Prefix(y, x)
  BY PrefixOrder
<1>2. ASSUME Prefix(x, y), x # y PROVE FALSE
  BY <1>2, StepThrough
<1>3. ASSUME Prefix(y, x), x # y PROVE FALSE
  BY <1>3, StepThrough
<1> QED BY <1>1, <1>2, <1>3

-----------------------------------------------------------------------------
(* Inserting below a branch *)

(* With the key k, the forks are those of K and q. *)
ForkAdded(K, k, q) ==
  \A x \in Position : IsFork(K \cup {k}, x) <=> IsFork(K, x) \/ x = q

(* ... and the positions are those of the trie d, q, and the slots of q. *)
DomainAdded(d, K, k, q) ==
  \A x : Holds(K \cup {k}, x) <=>
           \/ x \in DOMAIN d
           \/ x = q
           \/ \E i \in Kids(K \cup {k}, q) : x = Down(q, i)

(* The positions of a trie with one more fork. *)
LEMMA InsertDomain ==
  ASSUME NEW d, NEW K, NEW m, NEW k, NEW p, AtEnd(d, K, m, k, p), k \notin K,
         Occupied(K, p),
         NEW q \in Position,
         ForkAdded(K, k, q),
         p = q \/ ~IsFork(K, p)
  PROVE  DomainAdded(d, K, k, q)
<1> DEFINE K2 == K \cup {k}
<1> USE DEF ForkAdded
<1>0. K2 \subseteq Position
  BY DEF AtEnd
<1>1. ASSUME NEW x, Holds(K2, x)
      PROVE  x \in DOMAIN d \/ x = q \/ \E i \in Kids(K2, q) : x = Down(q, i)
  <2>1. CASE x = Root
    BY <1>1, <2>1 DEF AtEnd, Shape, Holds
  <2>2. CASE IsFork(K2, x)
    BY <1>1, <2>2 DEF AtEnd, Shape, Holds
  <2>3. CASE Slot(K2, x)
    <3>1. PICK f \in Position, i \in Nibble : x = Down(f, i) /\ IsFork(K2, f) /\ i \in Kids(K2, f)
      BY <2>3 DEF Slot
    <3>2. CASE f = q
      BY <3>1, <3>2
    <3>3. CASE f # q
      <4>1. IsFork(K, f) /\ f # p
        BY <3>1, <3>3
      <4>2. Kids(K2, f) = Kids(K, f)
        BY <4>1, NewKid
      <4>3. Slot(K, x)
        BY <3>1, <4>1, <4>2 DEF Slot
      <4> QED BY <1>1, <4>3 DEF AtEnd, Shape, Holds
    <3> QED BY <3>2, <3>3
  <2> QED BY <1>1, <2>1, <2>2, <2>3 DEF Holds
<1>2. ASSUME NEW x \in DOMAIN d
      PROVE  Holds(K2, x)
  <2>1. Holds(K, x)
    BY DEF AtEnd, Shape
  <2>2. CASE Slot(K, x)
    <3>1. PICK f \in Position, i \in Nibble : x = Down(f, i) /\ IsFork(K, f) /\ i \in Kids(K, f)
      BY <2>2 DEF Slot
    <3>2. IsFork(K2, f) /\ i \in Kids(K2, f)
      BY <3>1, KidsGrow DEF AtEnd
    <3> QED BY <2>1, <3>1, <3>2 DEF Holds, Slot
  <2> QED BY <2>1, <2>2 DEF Holds
<1>3. IsFork(K2, q)
  OBVIOUS
<1>4. Holds(K2, q)
  BY <1>3 DEF Holds
<1>5. ASSUME NEW i \in Kids(K2, q)
      PROVE  Holds(K2, Down(q, i))
  BY <1>0, <1>3, KidFacts DEF Holds, Slot, Kids
<1> QED BY <1>1, <1>2, <1>4, <1>5 DEF DomainAdded

(* Nothing of the trie lies on the rest of the key. *)
LEMMA NoPrefixEnd ==
  ASSUME NEW d, NEW K, NEW m, NEW k, NEW p, AtEnd(d, K, m, k, p),
         NEW y \in Position, Prefix(p, y), y # p, Prefix(y, k)
  PROVE  y \notin DOMAIN d
BY PrefixOrder DEF AtEnd, Shape, Holds

(* insert_internal at a branch with a free slot. *)
LEMMA InsertBranchShape ==
  ASSUME NEW K, NEW m, NEW k, NEW p, AtEnd(data, K, m, k, p), k \notin K,
         data[p].k = "branch", p # k,
         NEW v, NEW n, n[k] = v, \A l \in K : n[l] = m[l]
  PROVE  Shape(InsertInBranch(p, k, v), K \cup {k}, n)
<1> DEFINE K2 == K \cup {k}
           i == Step(p, k)
           y == Down(p, i)
           e1 == Put(data, p, Branch(data[p].kids \cup {i}))
           e == Put(e1, y, Leaf(k, v))
<1>0. /\ Shape(data, K, m) /\ K \subseteq Position /\ k \in Position /\ p \in DOMAIN data
      /\ Prefix(p, k) /\ p \in Position /\ K2 \subseteq Position
  BY DEF AtEnd, Shape, Holds
<1>1. IsFork(K, p) /\ data[p] = Branch(Kids(K, p)) /\ data[p].kids = Kids(K, p)
  BY <1>0, NodeKinds, Kinds DEF BranchOk
<1>2. i \in Nibble /\ y \in Position /\ Prefix(y, k) /\ Prefix(p, y) /\ y # p
  BY <1>0, StepFacts, DownFacts
<1>3. y \notin DOMAIN data
  BY <1>2, NoPrefixEnd
<1>4. i \notin Kids(K, p)
  BY <1>0, <1>1, <1>2, <1>3 DEF Shape, Holds, Slot
<1>5. Occupied(K, p)
  BY <1>0, <1>1, ForkKeys DEF Occupied
<1>6. Kids(K2, p) = Kids(K, p) \cup {i}
  BY <1>0, KidsGrow
<1>7. ASSUME NEW x \in Position, IsFork(K2, x), ~IsFork(K, x)
      PROVE  FALSE
  <2>1. PICK l \in K : Prefix(x, l) /\ x # l /\ Step(x, l) # Step(x, k)
    BY <1>5, <1>7, NewFork
  <2>2. Prefix(p, x) /\ Prefix(x, k) /\ x # p
    BY <1>1, <1>5, <1>7, NewFork
  <2>3. Step(p, k) = Step(p, x) /\ Step(p, l) = Step(p, x) /\ Prefix(p, l) /\ p # l
    BY <1>0, <2>1, <2>2, StepThrough
  <2> QED BY <1>0, <1>4, <2>3, KidFacts
<1>8. ForkAdded(K, k, p)
  <2>1. ASSUME NEW x \in Position, IsFork(K, x)
        PROVE  IsFork(K2, x)
    BY <1>0, <2>1, KidsGrow
  <2> QED BY <1>0, <1>1, <1>7, <2>1 DEF ForkAdded
<1>9. DomainAdded(data, K, k, p)
  BY <1>0, <1>5, <1>8, InsertDomain
<1>10. \A j \in Kids(K, p) : Down(p, j) \in DOMAIN data
  BY <1>0, <1>1, KidFacts DEF Shape, Holds, Slot
<1>11. \A x : Holds(K2, x) <=> x \in DOMAIN data \/ x = y
  BY <1>0, <1>6, <1>9, <1>10 DEF DomainAdded
<1>12. /\ DOMAIN e = DOMAIN data \cup {y}
       /\ e[y] = Leaf(k, v)
       /\ e[p] = Branch(Kids(K2, p))
       /\ \A x \in DOMAIN data : x # p => e[x] = data[x]
       /\ IsFunction(e)
  <2> HIDE DEF y, i, e1, e
  <2>1. /\ DOMAIN e1 = DOMAIN data /\ e1[p] = Branch(Kids(K2, p))
        /\ \A x \in DOMAIN data : x # p => e1[x] = data[x]
    BY <1>0, <1>1, <1>6 DEF e1, Put
  <2>2. /\ DOMAIN e = DOMAIN e1 \cup {y} /\ e[y] = Leaf(k, v)
        /\ \A x \in DOMAIN e1 : x # y => e[x] = e1[x]
        /\ IsFunction(e)
    BY DEF e, Put, IsFunction
  <2> QED BY <1>0, <1>2, <1>3, <2>1, <2>2
<1>13. e = InsertInBranch(p, k, v)
  BY DEF InsertInBranch
<1> HIDE DEF e
<1>14. LeafOk(K2, n, y, e[y])
  <2>1. ASSUME NEW l \in K, Prefix(y, l)
        PROVE  FALSE
    BY <1>2, <1>4, <2>1 DEF Kids
  <2> QED BY <1>2, <1>12, <2>1 DEF LeafOk
<1>15. BranchOk(K2, p, e[p])
  BY <1>0, <1>1, <1>8, <1>12 DEF BranchOk, ForkAdded
<1>16. ASSUME NEW x \in DOMAIN data, x # p
       PROVE  NodeOk(K2, n, x, e[x])
  BY <1>5, <1>12, <1>16, InsertElsewhere
<1>17. Shape(e, K2, n)
  BY <1>11, <1>12, <1>14, <1>15, <1>16 DEF Shape, NodeOk
<1> QED BY <1>13, <1>17

-----------------------------------------------------------------------------
(* Splitting a path *)

(* The keys below p go through c, and k parts from them at q. *)
Parting(K, k, p, c, q) ==
  /\ ~IsFork(K, p)
  /\ c \in Position /\ Prefix(p, c)
  /\ \A l \in K : Prefix(p, l) => Prefix(c, l)
  /\ q = Meet(c, k) /\ q # c /\ q # k

(* What follows for q. *)
PartsAt(K, k, p, c, q) ==
  /\ q \in Position /\ Prefix(p, q) /\ Prefix(q, c) /\ Prefix(q, k) /\ q # k
  /\ Step(q, c) \in Nibble /\ Step(q, k) \in Nibble /\ Step(q, c) # Step(q, k)
  /\ \A l \in K : Prefix(p, l) => Prefix(q, l) /\ q # l /\ Step(q, l) = Step(q, c)
  /\ Kids(K \cup {k}, q) = {Step(q, c), Step(q, k)}

(* A key that parts from all the others below p makes one fork, at q. *)
LEMMA PartingFacts ==
  ASSUME NEW d, NEW K, NEW m, NEW k, NEW p, AtEnd(d, K, m, k, p), k \notin K,
         Occupied(K, p), NEW c, NEW q, Parting(K, k, p, c, q)
  PROVE  PartsAt(K, k, p, c, q) /\ ForkAdded(K, k, q) /\ DomainAdded(d, K, k, q)
<1> DEFINE K2 == K \cup {k}
<1>0. /\ Shape(d, K, m) /\ K \subseteq Position /\ k \in Position /\ p \in DOMAIN d
      /\ Prefix(p, k) /\ p \in Position /\ K2 \subseteq Position
  BY DEF AtEnd, Shape, Holds
<1>1. /\ ~IsFork(K, p)
      /\ c \in Position /\ Prefix(p, c)
      /\ \A l \in K : Prefix(p, l) => Prefix(c, l)
      /\ q = Meet(c, k) /\ q # c /\ q # k
  BY DEF Parting
<1>2. q \in Position /\ Prefix(q, c) /\ Prefix(q, k) /\ Step(q, c) # Step(q, k)
  BY <1>0, <1>1, MeetFacts
<1>3. Step(q, c) \in Nibble /\ Step(q, k) \in Nibble
  BY <1>0, <1>1, <1>2, StepFacts
<1>4. Prefix(p, q)
  <2>1. Prefix(p, q) \/ Prefix(q, p)
    BY <1>0, <1>2, PrefixOrder
  <2>2. ASSUME Prefix(q, p), q # p
        PROVE  FALSE
    <3>1. Step(q, c) = Step(q, p) /\ Step(q, k) = Step(q, p)
      BY <1>0, <1>1, <1>2, <2>2, StepThrough
    <3> QED BY <1>2, <3>1
  <2> QED BY <1>0, <2>1, <2>2, PrefixBasic
<1>5. ASSUME NEW l \in K, Prefix(p, l)
      PROVE  Prefix(q, l) /\ q # l /\ Step(q, l) = Step(q, c)
  <2>1. l \in Position /\ Prefix(c, l)
    BY <1>0, <1>1, <1>5
  <2> QED BY <1>1, <1>2, <2>1, StepThrough
<1>6. PICK o \in K : Prefix(p, o)
  BY DEF Occupied
<1>7. Kids(K, q) = {Step(q, c)}
  <2>1. Step(q, c) \in Kids(K, q)
    BY <1>0, <1>2, <1>5, <1>6, KidFacts
  <2>2. ASSUME NEW i \in Kids(K, q)
        PROVE  i = Step(q, c)
    <3>1. PICK l \in K : Prefix(Down(q, i), l)
      BY DEF Kids
    <3>2. Prefix(q, l) /\ Step(q, l) = i
      BY <1>0, <1>2, <3>1, DownPrefix DEF Kids
    <3>3. Prefix(p, l)
      BY <1>0, <1>2, <1>4, <3>2, PrefixOrder
    <3> QED BY <1>5, <3>2, <3>3
  <2> QED BY <2>1, <2>2
<1>8. Kids(K2, q) = {Step(q, c), Step(q, k)}
  BY <1>0, <1>1, <1>2, <1>7, KidsGrow
<1>9. IsFork(K2, q)
  BY <1>0, <1>2, <1>8, ForkFacts
<1>10. ASSUME NEW x \in Position, IsFork(K2, x), ~IsFork(K, x)
       PROVE  x = q
  <2>1. Prefix(p, x) /\ Prefix(x, k) /\ x # k
    BY <1>10, NewFork
  <2>2. PICK l \in K : Prefix(x, l) /\ x # l /\ Step(x, l) # Step(x, k)
    BY <1>10, NewFork
  <2>3. l \in Position /\ Prefix(p, l)
    BY <1>0, <2>1, <2>2, PrefixOrder
  <2>4. Prefix(q, l) /\ q # l /\ Step(q, l) # Step(q, k)
    BY <1>2, <1>5, <2>3
  <2> QED BY <1>0, <1>1, <1>2, <2>1, <2>2, <2>3, <2>4, PartOnce
<1>11. ForkAdded(K, k, q)
  <2>1. ASSUME NEW x \in Position, IsFork(K, x)
        PROVE  IsFork(K2, x)
    BY <1>0, <2>1, KidsGrow
  <2> QED BY <1>9, <1>10, <2>1 DEF ForkAdded
<1>12. DomainAdded(d, K, k, q)
  BY <1>1, <1>2, <1>11, InsertDomain
<1> HIDE DEF K2
<1> QED BY <1>1, <1>2, <1>3, <1>4, <1>5, <1>8, <1>11, <1>12 DEF K2, PartsAt

SplitOf(K, m, k, v, n, p, c, q, e) ==
  LET z == Down(q, Step(q, c))
      y == Down(q, Step(q, k))
  IN  /\ IsFunction(e)
      /\ DOMAIN e = DOMAIN data \cup {p, q, z, y}
      /\ e[y] = Leaf(k, v)
      /\ e[q] = Branch({Step(q, c), Step(q, k)})
      /\ p # q => e[p] = Extension(q)
      /\ NodeOk(K \cup {k}, n, z, e[z])
      /\ \A x \in DOMAIN data \ {p, q, z, y} : e[x] = data[x]

(* What the split puts into the trie, for whatever hangs on the old side. *)
LEMMA SplitShape ==
  ASSUME NEW K, NEW m, NEW k, NEW p, AtEnd(data, K, m, k, p), k \notin K,
         Occupied(K, p), NEW c, NEW q, Parting(K, k, p, c, q),
         NEW v, NEW n, n[k] = v, \A l \in K : n[l] = m[l],
         NEW e, SplitOf(K, m, k, v, n, p, c, q, e)
  PROVE  Shape(e, K \cup {k}, n)
<1> DEFINE K2 == K \cup {k}
           y == Down(q, Step(q, k))
           z == Down(q, Step(q, c))
<1> USE DEF SplitOf
<1>0. /\ Shape(data, K, m) /\ K \subseteq Position /\ k \in Position /\ p \in DOMAIN data
      /\ Prefix(p, k) /\ p \in Position /\ K2 \subseteq Position
  BY DEF AtEnd, Shape, Holds
<1>1. /\ q \in Position /\ Prefix(p, q) /\ Prefix(q, c) /\ Prefix(q, k) /\ q # k
      /\ Step(q, c) \in Nibble /\ Step(q, k) \in Nibble /\ Step(q, c) # Step(q, k)
      /\ \A l \in K : Prefix(p, l) => Prefix(q, l) /\ q # l /\ Step(q, l) = Step(q, c)
      /\ Kids(K2, q) = {Step(q, c), Step(q, k)}
      /\ ForkAdded(K, k, q)
      /\ DomainAdded(data, K, k, q)
  <2>1. PartsAt(K, k, p, c, q) /\ ForkAdded(K, k, q) /\ DomainAdded(data, K, k, q)
    BY PartingFacts
  <2> QED BY <2>1 DEF PartsAt
<1>2. \A x : Holds(K2, x) <=> x \in DOMAIN e
  <2>1. \A x : Holds(K2, x) <=> x \in DOMAIN data \/ x = q \/ x = z \/ x = y
    BY <1>1 DEF DomainAdded
  <2> HIDE DEF y, z
  <2> QED BY <1>0, <2>1 DEF y, z
<1>3. IsFork(K2, q)
  BY <1>1 DEF ForkAdded
<1>4. BranchOk(K2, q, e[q])
  BY <1>1, <1>3 DEF BranchOk
<1>5. LeafOk(K2, n, y, e[y])
  <2>1. Prefix(y, k)
    BY <1>0, <1>1, StepFacts
  <2>2. ASSUME NEW l \in K, Prefix(y, l)
        PROVE  FALSE
    <3>1. Prefix(q, l) /\ Step(q, l) = Step(q, k) /\ l \in Position
      BY <1>0, <1>1, <2>2, DownPrefix
    <3>2. Prefix(p, l)
      BY <1>0, <1>1, <3>1, PrefixOrder
    <3> QED BY <1>1, <3>1, <3>2
  <2> QED BY <2>1, <2>2 DEF LeafOk
<1>6. p # q => ExtOk(K2, p, e[p])
  BY <1>0, <1>1, <1>3 DEF ExtOk
<1>7. ASSUME NEW x \in DOMAIN data \ {p, q, z, y}
      PROVE  NodeOk(K2, n, x, e[x])
  BY <1>7, InsertElsewhere
<1>8. ASSUME NEW x \in DOMAIN e
      PROVE  NodeOk(K2, n, x, e[x])
  <2> HIDE DEF y, z
  <2>1. x \in DOMAIN data \cup {p, q, z, y} /\ NodeOk(K2, n, z, e[z])
    BY DEF y, z
  <2> HIDE DEF K2
  <2> QED BY <1>4, <1>5, <1>6, <1>7, <2>1 DEF NodeOk
<1> QED BY <1>2, <1>8 DEF Shape

(* The positions that a split writes differ. *)
LEMMA SplitPositions ==
  ASSUME NEW p \in Position, NEW q \in Position, Prefix(p, q),
         NEW i \in Nibble, NEW j \in Nibble, i # j
  PROVE  /\ Down(q, i) # Down(q, j)
         /\ Down(q, i) \notin {p, q} /\ Down(q, j) \notin {p, q}
<1>1. Down(q, i) # Down(q, j)
  BY DownFacts
<1>2. ASSUME NEW h \in Nibble PROVE Down(q, h) \notin {p, q}
  <2>1. Down(q, h) \in Position /\ Prefix(q, Down(q, h)) /\ ~Prefix(Down(q, h), q)
    BY DownFacts
  <2> QED BY <2>1
<1> QED BY <1>1, <1>2

(* Only branches are at forks. *)
LEMMA NotFork ==
  ASSUME NEW d, NEW K, K \subseteq Position, NEW m, Shape(d, K, m),
         NEW x \in DOMAIN d, d[x].k # "branch"
  PROVE  ~IsFork(K, x)
<1>1. x \in Position
  BY DEF Shape, Holds
<1> QED BY <1>1, ForkIsBranch, Kinds

(* insert_internal at a leaf with another key. *)
LEMMA SplitLeafShape ==
  ASSUME NEW K, NEW m, NEW k, NEW p, AtEnd(data, K, m, k, p), k \notin K,
         data[p].k = "leaf", Meet(data[p].key, k) \notin {data[p].key, k},
         NEW v, NEW n, n[k] = v, \A l \in K : n[l] = m[l]
  PROVE  Shape(SplitLeaf(p, data[p].key, k, v), K \cup {k}, n)
<1>0. /\ Shape(data, K, m) /\ K \subseteq Position /\ k \in Position /\ p \in DOMAIN data
      /\ Prefix(p, k) /\ p \in Position
  BY DEF AtEnd, Shape, Holds
<1>1. PICK l \in K : /\ data[p] = Leaf(l, m[l]) /\ Prefix(p, l)
                     /\ \A j \in K : Prefix(p, j) => j = l
  BY <1>0, NodeKinds DEF LeafOk
<1>2. data[p].key = l /\ data[p].value = n[l] /\ l \in Position
  BY <1>0, <1>1, Kinds
<1>3. ~IsFork(K, p)
  BY <1>0, NotFork
<1>4. PICK q : q = Meet(l, k)
  OBVIOUS
<1>5. Occupied(K, p) /\ Parting(K, k, p, l, q)
  BY <1>1, <1>2, <1>3, <1>4, PrefixBasic DEF Occupied, Parting
<1>6. PartsAt(K, k, p, l, q)
  BY <1>5, PartingFacts
<1>7. PICK i, j : i = Step(q, l) /\ j = Step(q, k)
  OBVIOUS
<1>8. PICK z, y : z = Down(q, i) /\ y = Down(q, j)
  OBVIOUS
<1>9. /\ q \in Position /\ Prefix(p, q) /\ Prefix(q, l) /\ Prefix(q, k) /\ q # k /\ q # l
      /\ i \in Nibble /\ j \in Nibble /\ i # j
  BY <1>1, <1>6, <1>7 DEF PartsAt
<1>10. y # z /\ z \notin {p, q} /\ y \notin {p, q}
  BY <1>0, <1>8, <1>9, SplitPositions
<1>11. PICK e : e = SplitLeaf(p, l, k, v)
  OBVIOUS
<1>12. e = Put(Put(Fork(p, q, {i, j}), z, Leaf(l, n[l])), y, Leaf(k, v))
  BY <1>2, <1>4, <1>7, <1>8, <1>11 DEF SplitLeaf
<1>13. PICK f : f = Fork(p, q, {i, j})
  OBVIOUS
<1>14. /\ DOMAIN f = DOMAIN data \cup {p, q}
       /\ f[q] = Branch({i, j})
       /\ p # q => f[p] = Extension(q)
       /\ \A x \in DOMAIN data \ {p, q} : f[x] = data[x]
  BY <1>13 DEF Fork, Put
<1>15. /\ IsFunction(e)
       /\ DOMAIN e = DOMAIN data \cup {p, q, z, y}
       /\ e[y] = Leaf(k, v)
       /\ e[z] = Leaf(l, n[l])
       /\ e[q] = Branch({i, j})
       /\ p # q => e[p] = Extension(q)
       /\ \A x \in DOMAIN data \ {p, q, z, y} : e[x] = data[x]
  BY <1>10, <1>12, <1>13, <1>14 DEF Put, IsFunction
<1>16. LeafOk(K \cup {k}, n, z, e[z])
  <2>1. Prefix(z, l)
    BY <1>2, <1>7, <1>8, <1>9, StepFacts
  <2>2. ~Prefix(z, k)
    BY <1>0, <1>7, <1>8, <1>9, DownPrefix
  <2>3. ASSUME NEW o \in K, Prefix(z, o)
        PROVE  o = l
    <3>1. Prefix(q, o) /\ o \in Position
      BY <1>0, <1>8, <1>9, <2>3, DownPrefix
    <3>2. Prefix(p, o)
      BY <1>0, <1>9, <3>1, PrefixOrder
    <3> QED BY <1>1, <3>2
  <2> QED BY <1>15, <2>1, <2>2, <2>3 DEF LeafOk
<1>17. Shape(e, K \cup {k}, n)
  <2>1. NodeOk(K \cup {k}, n, z, e[z])
    BY <1>16 DEF NodeOk
  <2>2. SplitOf(K, m, k, v, n, p, l, q, e)
    BY <1>7, <1>8, <1>15, <2>1 DEF SplitOf
  <2> QED BY <1>5, <2>2, SplitShape
<1> QED BY <1>2, <1>11, <1>17

(* insert_internal at an extension that the key leaves. *)
LEMMA SplitExtensionShape ==
  ASSUME NEW K, NEW m, NEW k, NEW p, AtEnd(data, K, m, k, p), k \notin K,
         data[p].k = "ext", Meet(data[p].child, k) # k,
         NEW v, NEW n, n[k] = v, \A l \in K : n[l] = m[l]
  PROVE  Shape(SplitExtension(p, data[p].child, k, v), K \cup {k}, n)
<1>0. /\ Shape(data, K, m) /\ K \subseteq Position /\ k \in Position /\ p \in DOMAIN data
      /\ Prefix(p, k) /\ p \in Position
  BY DEF AtEnd, Shape, Holds
<1>1. PICK c \in Position : /\ data[p] = Extension(c) /\ Prefix(p, c) /\ p # c
                            /\ IsFork(K, c)
                            /\ \A j \in K : Prefix(p, j) => Prefix(c, j)
  BY <1>0, NodeKinds DEF ExtOk
<1>2. data[p].child = c /\ c \in DOMAIN data
  BY <1>0, <1>1, Kinds, ForkIsBranch
<1>3. ~IsFork(K, p)
  BY <1>0, NotFork
<1>4. PICK q : q = Meet(c, k)
  OBVIOUS
<1>5. q # c
  BY <1>0, <1>1, <1>2, <1>4, MeetFacts, PrefixOrder DEF AtEnd
<1>50. Occupied(K, p)
  <2>1. PICK l \in K : Prefix(c, l)
    BY <1>0, <1>1, ForkKeys
  <2> QED BY <1>0, <1>1, <2>1, PrefixOrder DEF Occupied
<1>51. Parting(K, k, p, c, q)
  BY <1>1, <1>2, <1>3, <1>4, <1>5 DEF Parting
<1>6. PartsAt(K, k, p, c, q) /\ ForkAdded(K, k, q)
  BY <1>50, <1>51, PartingFacts
<1>7. PICK i, j : i = Step(q, c) /\ j = Step(q, k)
  OBVIOUS
<1>8. PICK z, y : z = Down(q, i) /\ y = Down(q, j)
  OBVIOUS
<1>9. /\ q \in Position /\ Prefix(p, q) /\ Prefix(q, c) /\ Prefix(q, k) /\ q # k
      /\ i \in Nibble /\ j \in Nibble /\ i # j
  BY <1>6, <1>7 DEF PartsAt
<1>10. y # z /\ z \notin {p, q} /\ y \notin {p, q} /\ z \in Position
  BY <1>0, <1>8, <1>9, SplitPositions, DownFacts
<1>101. c # y
  <2>1. Prefix(z, c)
    BY <1>1, <1>5, <1>7, <1>8, <1>9, StepFacts
  <2>2. ~Prefix(y, c)
    BY <1>1, <1>7, <1>8, <1>9, DownPrefix
  <2> QED BY <1>1, <2>2, PrefixBasic
<1>11. PICK e : e = SplitExtension(p, c, k, v)
  OBVIOUS
<1>13. PICK f : f = Fork(p, q, {i, j})
  OBVIOUS
<1>12. e = Put(IF z = c THEN f ELSE Put(f, z, Extension(c)), y, Leaf(k, v))
  BY <1>4, <1>7, <1>8, <1>11, <1>13 DEF SplitExtension
<1>14. /\ DOMAIN f = DOMAIN data \cup {p, q}
       /\ f[q] = Branch({i, j})
       /\ p # q => f[p] = Extension(q)
       /\ \A x \in DOMAIN data \ {p, q} : f[x] = data[x]
  BY <1>13 DEF Fork, Put
<1>15. /\ IsFunction(e)
       /\ DOMAIN e = DOMAIN data \cup {p, q, z, y}
       /\ e[y] = Leaf(k, v)
       /\ e[z] = IF z = c THEN data[c] ELSE Extension(c)
       /\ e[q] = Branch({i, j})
       /\ p # q => e[p] = Extension(q)
       /\ \A x \in DOMAIN data \ {p, q, z, y} : e[x] = data[x]
  <2>1. CASE z = c
    BY <1>2, <1>10, <1>12, <1>14, <2>1 DEF Put, IsFunction
  <2>2. CASE z # c
    BY <1>10, <1>12, <1>14, <2>2 DEF Put, IsFunction
  <2> QED BY <2>1, <2>2
<1>16. NodeOk(K \cup {k}, n, z, e[z])
  <2>1. CASE z = c
    BY <1>1, <1>2, <1>15, <1>50, <2>1, InsertElsewhere
  <2>2. CASE z # c
    <3>1. Prefix(z, c)
      BY <1>1, <1>5, <1>7, <1>8, <1>9, StepFacts
    <3>2. ~Prefix(z, k)
      BY <1>0, <1>7, <1>8, <1>9, DownPrefix
    <3>3. ASSUME NEW o \in K, Prefix(z, o)
          PROVE  Prefix(c, o)
      <4>1. Prefix(q, o) /\ o \in Position
        BY <1>0, <1>8, <1>9, <3>3, DownPrefix
      <4>2. Prefix(p, o)
        BY <1>0, <1>9, <4>1, PrefixOrder
      <4> QED BY <1>1, <4>2
    <3>4. IsFork(K \cup {k}, c)
      BY <1>1, <1>6 DEF ForkAdded
    <3>5. e[z] = Extension(c)
      BY <1>15, <2>2
    <3>6. ExtOk(K \cup {k}, z, e[z])
      BY <1>1, <2>2, <3>1, <3>2, <3>3, <3>4, <3>5 DEF ExtOk
    <3> QED BY <3>6 DEF NodeOk
  <2> QED BY <2>1, <2>2
<1>17. Shape(e, K \cup {k}, n)
  <2>2. SplitOf(K, m, k, v, n, p, c, q, e)
    BY <1>7, <1>8, <1>15, <1>16 DEF SplitOf
  <2> QED BY <1>50, <1>51, <2>2, SplitShape
<1> QED BY <1>2, <1>11, <1>17

-----------------------------------------------------------------------------
(* The other inserts, and the leaf to delete *)

(* With at most one key there is one position. *)
LEMMA OnePosition ==
  ASSUME NEW K, K \subseteq Position, \A k, l \in K : k = l, NEW x
  PROVE  Holds(K, x) <=> x = Root
<1>1. \A y \in Position : ~IsFork(K, y)
  BY ForkKeys
<1>2. Root \in Position
  BY DEF Root, Position
<1> QED BY <1>1, <1>2 DEF Holds, Slot

(* Only the empty trie has an empty node, at the root. *)
LEMMA NullIsEmpty ==
  ASSUME NEW d, NEW K, K \subseteq Position, NEW m, Shape(d, K, m),
         NEW x \in DOMAIN d, d[x].k = "null"
  PROVE  x = Root /\ K = {} /\ d[x] = Null
<1>1. NullOk(K, x, d[x]) /\ Holds(K, x)
  BY NodeKinds DEF Shape
<1>2. x = Root
  BY <1>1, NodeBelowFork DEF NullOk
<1> QED BY <1>1, <1>2, PrefixBasic DEF NullOk

(* insert_internal at the empty root. *)
LEMMA FirstShape ==
  ASSUME NEW K, NEW m, NEW k, NEW p, AtEnd(data, K, m, k, p),
         data[p].k = "null", NEW v, NEW n, n[k] = v
  PROVE  Shape(Put(data, p, Leaf(k, v)), K \cup {k}, n)
<1>1. /\ Shape(data, K, m) /\ K \subseteq Position /\ k \in Position /\ p \in DOMAIN data
  BY DEF AtEnd
<1>2. p = Root /\ K = {}
  BY <1>1, NullIsEmpty
<1>3. \A x : x \in DOMAIN data <=> x = Root
  BY <1>1, <1>2, OnePosition DEF Shape
<1>4. \A x : Holds({k}, x) <=> x = Root
  BY <1>1, OnePosition
<1>5. PICK e : e = Put(data, p, Leaf(k, v))
  OBVIOUS
<1>6. /\ IsFunction(e) /\ e[Root] = Leaf(k, v)
      /\ \A x : x \in DOMAIN e <=> x = Root
  BY <1>2, <1>3, <1>5 DEF Put, IsFunction
<1>7. LeafOk({k}, n, Root, e[Root])
  BY <1>1, <1>6, PrefixBasic DEF LeafOk
<1>8. Shape(e, {k}, n)
  BY <1>4, <1>6, <1>7 DEF Shape, NodeOk
<1> QED BY <1>2, <1>5, <1>8

(* A leaf on the walk for a stored key is where the walk ends. *)
LEMMA LeafAtEnd ==
  ASSUME NEW d, NEW K, NEW m, NEW k, NEW p, AtEnd(d, K, m, k, p),
         NEW x \in DOMAIN d, LeafOk(K, m, x, d[x]), Prefix(x, k)
  PROVE  x = p
BY LeafIsBottom DEF AtEnd

(* insert_internal at the leaf of its key. *)
LEMMA OverwriteShape ==
  ASSUME NEW K, NEW m, NEW k, NEW p, AtEnd(data, K, m, k, p),
         data[p].k = "leaf", data[p].key = k,
         NEW v, NEW n, n[k] = v, \A l \in K : l # k => n[l] = m[l]
  PROVE  k \in K /\ Shape(Put(data, p, Leaf(k, v)), K, n)
<1>1. /\ Shape(data, K, m) /\ K \subseteq Position /\ k \in Position /\ p \in DOMAIN data
  BY DEF AtEnd
<1>2. /\ k \in K /\ Prefix(p, k) /\ \A l \in K : Prefix(p, l) => l = k
  BY <1>1, NodeKinds, Kinds DEF LeafOk
<1>3. PICK e : e = Put(data, p, Leaf(k, v))
  OBVIOUS
<1>4. /\ IsFunction(e) /\ e[p] = Leaf(k, v) /\ DOMAIN e = DOMAIN data
      /\ \A x \in DOMAIN data : x # p => e[x] = data[x]
  BY <1>1, <1>3 DEF Put, IsFunction
<1>5. LeafOk(K, n, p, e[p])
  BY <1>2, <1>4 DEF LeafOk
<1>6. ASSUME NEW x \in DOMAIN data, x # p
      PROVE  NodeOk(K, n, x, e[x])
  <2>1. e[x] = data[x] /\ NodeOk(K, m, x, data[x])
    BY <1>1, <1>4, <1>6 DEF Shape
  <2>2. CASE LeafOk(K, m, x, data[x])
    <3>1. PICK j \in K : /\ data[x] = Leaf(j, m[j]) /\ Prefix(x, j)
                         /\ \A l \in K : Prefix(x, l) => l = j
      BY <2>2 DEF LeafOk
    <3>2. j # k
      BY <1>6, <2>2, <3>1, LeafAtEnd
    <3> QED BY <2>1, <3>1, <3>2 DEF LeafOk, NodeOk
  <2> QED BY <2>1, <2>2 DEF NodeOk
<1>7. Shape(e, K, n)
  BY <1>1, <1>4, <1>5, <1>6 DEF Shape, NodeOk
<1> QED BY <1>2, <1>3, <1>7

(* The leaf of k hangs at p in the slot i of the branch at b. *)
Hangs(d, K, m, k, p, b, i) ==
  /\ AtEnd(d, K, m, k, p)
  /\ LeafOk(K, m, p, d[p]) /\ d[p].key = k
  /\ b \in Position /\ i \in Nibble /\ p = Down(b, i)
  /\ IsFork(K, b) /\ i \in Kids(K, b)

(* A leaf below the root hangs in a slot of a branch. *)
LEMMA HangsFacts ==
  ASSUME NEW d, NEW K, NEW m, NEW k, NEW p, AtEnd(d, K, m, k, p),
         d[p].k = "leaf", d[p].key = k, p # Root
  PROVE  Hangs(d, K, m, k, p, Up(p), Step(Up(p), p))
<1>1. /\ Shape(d, K, m) /\ K \subseteq Position /\ k \in Position /\ p \in DOMAIN d
      /\ Holds(K, p) /\ p \in Position
  BY DEF AtEnd, Shape, Holds
<1>2. LeafOk(K, m, p, d[p])
  BY <1>1, NodeKinds
<1>3. ~IsFork(K, p)
  BY <1>1, NotFork
<1>4. PICK b \in Position, i \in Nibble : p = Down(b, i) /\ IsFork(K, b) /\ i \in Kids(K, b)
  BY <1>1, <1>3 DEF Holds, Slot
<1>5. Up(p) = b /\ Step(b, p) = i
  BY <1>4, DownFacts
<1> QED BY <1>2, <1>4, <1>5 DEF Hangs

-----------------------------------------------------------------------------
(* A key less *)

(* Without the key k: b loses the slot i, the other forks lose nothing. *)
ForkRemoved(K, k, b, i) ==
  /\ Kids(K \ {k}, b) = Kids(K, b) \ {i}
  /\ \A x \in Position : x # b =>
       /\ IsFork(K \ {k}, x) <=> IsFork(K, x)
       /\ IsFork(K, x) => Kids(K \ {k}, x) = Kids(K, x)

(* A key that goes takes at most the slots that it went through. *)
LEMMA KidsShrink ==
  ASSUME NEW K, K \subseteq Position, NEW k \in Position, NEW x \in Position
  PROVE  /\ Kids(K \ {k}, x) \subseteq Kids(K, x)
         /\ \A i \in Kids(K, x) : i \in Kids(K \ {k}, x) \/ Prefix(Down(x, i), k)
         /\ IsFork(K \ {k}, x) => IsFork(K, x)
<1>1. Kids(K \ {k}, x) \subseteq Kids(K, x)
  BY DEF Kids
<1>2. \A i \in Kids(K, x) : i \in Kids(K \ {k}, x) \/ Prefix(Down(x, i), k)
  BY DEF Kids
<1>3. IsFork(K \ {k}, x) => IsFork(K, x)
  BY DEF IsFork, Under
<1> QED BY <1>1, <1>2, <1>3

(* The leaf's branch loses a slot, and no other fork does. *)
LEMMA DeleteForks ==
  ASSUME NEW d, NEW K, NEW m, NEW k, NEW p, NEW b, NEW i, Hangs(d, K, m, k, p, b, i)
  PROVE  ForkRemoved(K, k, b, i)
<1>0. /\ Shape(d, K, m) /\ K \subseteq Position /\ k \in Position /\ p \in DOMAIN d
      /\ p \in Position /\ Prefix(p, k)
      /\ b \in Position /\ i \in Nibble /\ p = Down(b, i)
      /\ IsFork(K, b) /\ i \in Kids(K, b)
      /\ K \ {k} \subseteq Position
  BY DEF Hangs, AtEnd, Shape, Holds
<1>1. /\ k \in K /\ \A l \in K : Prefix(p, l) => l = k
  BY Kinds DEF Hangs, LeafOk
<1>2. Prefix(b, p) /\ b # p /\ Prefix(b, k) /\ b # k /\ Step(b, k) = i
  BY <1>0, DownFacts, DownPrefix
<1>3. PICK o \in K : Prefix(b, o) /\ ~Prefix(p, o)
  BY <1>0, KidFacts
<1>4. Kids(K \ {k}, b) = Kids(K, b) \ {i}
  <2>1. i \notin Kids(K \ {k}, b)
    BY <1>0, <1>1 DEF Kids
  <2>2. ASSUME NEW j \in Kids(K, b), j # i
        PROVE  j \in Kids(K \ {k}, b)
    <3>1. ~Prefix(Down(b, j), k)
      BY <1>0, <1>2, <2>2, DownPrefix DEF Kids
    <3> QED BY <1>0, <3>1, KidsShrink
  <2>3. Kids(K \ {k}, b) \subseteq Kids(K, b)
    BY <1>0, KidsShrink
  <2> QED BY <2>1, <2>2, <2>3
<1>5. ASSUME NEW x \in Position, x # b, IsFork(K, x)
      PROVE  Kids(K \ {k}, x) = Kids(K, x)
  <2>1. ASSUME NEW j \in Kids(K, x), Prefix(Down(x, j), k)
        PROVE  j \in Kids(K \ {k}, x)
    <3>1. j \in Nibble /\ Prefix(x, k) /\ x # k /\ Step(x, k) = j
      BY <1>0, <2>1, DownPrefix DEF Kids
    <3>2. Prefix(x, p)
      BY <1>0, <1>5, <3>1, ForkIsBranch DEF Hangs, AtEnd
    <3>3. Prefix(x, b) \/ x = p
      BY <1>0, <3>2, BelowDown
    <3>4. x # p
      BY <1>0, <1>1, <1>5, ForkKeys
    <3>5. Prefix(x, b)
      BY <3>3, <3>4
    <3>6. /\ o \in Position /\ Prefix(x, o) /\ x # o
          /\ Step(x, o) = Step(x, b) /\ Step(x, k) = Step(x, b)
      BY <1>0, <1>2, <1>3, <1>5, <3>5, StepThrough
    <3>7. Prefix(Down(x, j), o)
      BY <3>1, <3>6, StepFacts
    <3>8. o \in K \ {k}
      BY <1>0, <1>3
    <3> QED BY <3>1, <3>7, <3>8 DEF Kids
  <2>2. /\ Kids(K \ {k}, x) \subseteq Kids(K, x)
        /\ \A j \in Kids(K, x) : j \in Kids(K \ {k}, x) \/ Prefix(Down(x, j), k)
    BY <1>0, KidsShrink
  <2> QED BY <2>1, <2>2
<1>6. ASSUME NEW x \in Position, x # b
      PROVE  IsFork(K \ {k}, x) <=> IsFork(K, x)
  <2>1. IsFork(K \ {k}, x) => IsFork(K, x)
    BY <1>0, KidsShrink
  <2>2. ASSUME IsFork(K, x) PROVE IsFork(K \ {k}, x)
    <3>1. Kids(K \ {k}, x) = Kids(K, x)
      BY <1>5, <1>6, <2>2
    <3> QED BY <1>0, <2>2, <3>1, ForkFacts
  <2> QED BY <2>1, <2>2
<1> QED BY <1>4, <1>5, <1>6 DEF ForkRemoved

(* The slots that remain. *)
LEMMA DeleteSlots ==
  ASSUME NEW d, NEW K, NEW m, NEW k, NEW p, NEW b, NEW i, Hangs(d, K, m, k, p, b, i),
         NEW x \in Position
  PROVE  /\ IsFork(K \ {k}, b) => (Slot(K \ {k}, x) <=> Slot(K, x) /\ x # p)
         /\ ~IsFork(K \ {k}, b) =>
              (Slot(K \ {k}, x) <=> Slot(K, x) /\ \A j \in Kids(K, b) : x # Down(b, j))
<1>0. /\ b \in Position /\ i \in Nibble /\ p = Down(b, i) /\ K \subseteq Position
      /\ IsFork(K, b) /\ i \in Kids(K, b)
  BY DEF Hangs, AtEnd
<1>1. ForkRemoved(K, k, b, i)
  BY DeleteForks
<1>2. ASSUME Slot(K \ {k}, x)
      PROVE  /\ Slot(K, x) /\ x # p
             /\ ~IsFork(K \ {k}, b) => \A j \in Kids(K, b) : x # Down(b, j)
  <2>1. PICK f \in Position, h \in Nibble :
          x = Down(f, h) /\ IsFork(K \ {k}, f) /\ h \in Kids(K \ {k}, f)
    BY <1>2 DEF Slot
  <2>2. CASE f = b
    <3>1. h \in Kids(K, b) /\ h # i
      BY <1>1, <2>1, <2>2 DEF ForkRemoved
    <3>2. x # p
      BY <1>0, <2>1, <2>2, <3>1, DownFacts
    <3> QED BY <1>0, <2>1, <2>2, <3>1, <3>2 DEF Slot
  <2>3. CASE f # b
    <3>1. IsFork(K, f) /\ h \in Kids(K, f)
      BY <1>1, <2>1, <2>3 DEF ForkRemoved
    <3>2. \A j \in Nibble : x # Down(b, j)
      BY <1>0, <2>1, <2>3, DownFacts
    <3> QED BY <1>0, <2>1, <3>1, <3>2 DEF Slot, Kids
  <2> QED BY <2>2, <2>3
<1>3. ASSUME Slot(K, x), x # p, ~Slot(K \ {k}, x)
      PROVE  /\ ~IsFork(K \ {k}, b)
             /\ \E j \in Kids(K, b) : x = Down(b, j)
  <2>1. PICK f \in Position, h \in Nibble : x = Down(f, h) /\ IsFork(K, f) /\ h \in Kids(K, f)
    BY <1>3 DEF Slot
  <2>2. f = b
    BY <1>1, <1>3, <2>1 DEF ForkRemoved, Slot
  <2>3. h # i
    BY <1>0, <1>3, <2>1, <2>2
  <2>4. h \in Kids(K \ {k}, b)
    BY <1>1, <2>1, <2>2, <2>3 DEF ForkRemoved
  <2> QED BY <1>3, <2>1, <2>2, <2>4 DEF Slot
<1> QED BY <1>0, <1>2, <1>3

(* A node other than p and b stays, unless it is an extension to a branch  *)
(* that goes.                                                              *)
LEMMA DeleteElsewhere ==
  ASSUME NEW d, NEW K, NEW m, NEW k, NEW p, NEW b, NEW i, Hangs(d, K, m, k, p, b, i),
         NEW n, \A l \in K : l # k => n[l] = m[l],
         NEW x \in DOMAIN d, x # p, x # b,
         IsFork(K \ {k}, b) \/ d[x] # Extension(b)
  PROVE  NodeOk(K \ {k}, n, x, d[x])
<1>0. /\ Shape(d, K, m) /\ K \subseteq Position /\ k \in Position /\ AtEnd(d, K, m, k, p)
      /\ x \in Position /\ NodeOk(K, m, x, d[x]) /\ b \in Position
  BY DEF Hangs, AtEnd, Shape, Holds
<1>1. ForkRemoved(K, k, b, i)
  BY DeleteForks
<1>2. CASE NullOk(K, x, d[x])
  BY <1>2 DEF NullOk, NodeOk
<1>3. CASE LeafOk(K, m, x, d[x])
  <2>1. PICK j \in K : /\ d[x] = Leaf(j, m[j]) /\ Prefix(x, j)
                       /\ \A l \in K : Prefix(x, l) => l = j
    BY <1>3 DEF LeafOk
  <2>2. j # k
    BY <1>0, <1>3, <2>1, LeafAtEnd
  <2> QED BY <2>1, <2>2 DEF LeafOk, NodeOk
<1>4. CASE BranchOk(K, x, d[x])
  BY <1>0, <1>1, <1>4 DEF BranchOk, NodeOk, ForkRemoved
<1>5. CASE ExtOk(K, x, d[x])
  <2>1. PICK q \in Position : /\ d[x] = Extension(q) /\ Prefix(x, q) /\ x # q
                              /\ IsFork(K, q) /\ \A l \in K : Prefix(x, l) => Prefix(q, l)
    BY <1>5 DEF ExtOk
  <2>2. IsFork(K \ {k}, q)
    BY <1>1, <2>1 DEF ForkRemoved
  <2> QED BY <2>1, <2>2 DEF ExtOk, NodeOk
<1> QED BY <1>0, <1>2, <1>3, <1>4, <1>5 DEF NodeOk

-----------------------------------------------------------------------------
(* Deleting *)

(* A branch with two children left stays. *)
LEMMA ShrinkShape ==
  ASSUME NEW K, NEW m, NEW k, NEW p, NEW b, NEW i, Hangs(data, K, m, k, p, b, i),
         NEW n, \A l \in K : l # k => n[l] = m[l],
         IsFork(K \ {k}, b)
  PROVE  Shape(Put(Drop(data, {p}), b, Branch(Kids(K, b) \ {i})), K \ {k}, n)
<1>0. /\ Shape(data, K, m) /\ K \subseteq Position /\ k \in Position /\ p \in DOMAIN data
      /\ p \in Position /\ Prefix(p, k)
      /\ b \in Position /\ i \in Nibble /\ p = Down(b, i)
      /\ IsFork(K, b) /\ i \in Kids(K, b)
  BY DEF Hangs, AtEnd, Shape, Holds
<1>1. b \in DOMAIN data /\ b # p /\ p # Root
  BY <1>0, ForkIsBranch, DownFacts
<1>2. ~IsFork(K, p)
  BY <1>0, ForkKeys DEF Hangs, LeafOk
<1>3. ForkRemoved(K, k, b, i)
  BY DeleteForks
<1>4. PICK e : e = Put(Drop(data, {p}), b, Branch(Kids(K, b) \ {i}))
  OBVIOUS
<1>5. /\ IsFunction(e) /\ DOMAIN e = DOMAIN data \ {p}
      /\ e[b] = Branch(Kids(K, b) \ {i})
      /\ \A x \in DOMAIN data : x # p /\ x # b => e[x] = data[x]
  BY <1>1, <1>4 DEF Put, Drop, IsFunction
<1>6. BranchOk(K \ {k}, b, e[b])
  BY <1>3, <1>5 DEF BranchOk, ForkRemoved
<1>7. ASSUME NEW x \in DOMAIN data, x # p, x # b
      PROVE  NodeOk(K \ {k}, n, x, e[x])
  <2>1. NodeOk(K \ {k}, n, x, data[x])
    BY <1>7, DeleteElsewhere
  <2> QED BY <1>5, <1>7, <2>1
<1>8. ASSUME NEW x
      PROVE  x \in DOMAIN e <=> Holds(K \ {k}, x)
  <2>1. CASE x \in Position
    <3>1. Slot(K \ {k}, x) <=> Slot(K, x) /\ x # p
      BY <2>1, DeleteSlots
    <3>2. IsFork(K \ {k}, x) <=> IsFork(K, x)
      BY <1>0, <1>3, <2>1 DEF ForkRemoved
    <3> QED BY <1>0, <1>1, <1>2, <1>5, <2>1, <3>1, <3>2 DEF Shape, Holds
  <2>2. CASE x \notin Position
    BY <1>0, <1>5, <2>2 DEF Shape, Holds
  <2> QED BY <2>1, <2>2
<1>9. Shape(e, K \ {k}, n)
  BY <1>5, <1>6, <1>7, <1>8 DEF Shape, NodeOk
<1> QED BY <1>4, <1>9

(* A fork that is neither the root nor in a slot hangs below an extension. *)
LEMMA ExtensionAbove ==
  ASSUME NEW d, NEW K, NEW m, Shape(d, K, m), K \subseteq Position,
         NEW b \in Position, IsFork(K, b), b # Root, ~Slot(K, b)
  PROVE  \E e \in DOMAIN d : d[e] = Extension(b)
<1> DEFINE W == {x \in DOMAIN d : Prefix(x, b) /\ x # b}
<1>1. b \in DOMAIN d /\ Root \in DOMAIN d /\ Prefix(Root, b) /\ DOMAIN d \subseteq Position
  BY ForkIsBranch, PrefixBasic DEF Shape, Holds
<1>2. PICK e \in W : \A q \in W : Prefix(q, e)
  <2>1. W \subseteq Position /\ W # {} /\ \A q \in W : Prefix(q, b)
    BY <1>1
  <2> HIDE DEF W
  <2> QED BY <2>1, Longest
<1>3. e \in DOMAIN d /\ e \in Position /\ Prefix(e, b) /\ e # b
  BY <1>1, <1>2
<1>4. \A k \in K : Prefix(b, k) => Prefix(e, k)
  BY <1>3, PrefixOrder
<1>5. PICK k, l \in K : k # l /\ Prefix(b, k) /\ Prefix(b, l)
  BY ForkKeys
<1>6. NodeOk(K, m, e, d[e])
  BY <1>3 DEF Shape
<1>7. ~NullOk(K, e, d[e]) /\ ~LeafOk(K, m, e, d[e])
  BY <1>4, <1>5 DEF NullOk, LeafOk
<1>8. ~BranchOk(K, e, d[e])
  <2> SUFFICES ASSUME IsFork(K, e) PROVE FALSE
    BY DEF BranchOk
  <2>1. PICK j : j = Step(e, k)
    OBVIOUS
  <2>2. j \in Kids(K, e) /\ j = Step(e, b)
    BY <1>3, <1>5, <2>1, StepThrough, KidFacts
  <2>3. j \in Nibble /\ Down(e, j) \in Position /\ Prefix(Down(e, j), b) /\ ~Prefix(Down(e, j), e)
    BY <1>3, <2>2, StepFacts, DownFacts
  <2>4. Slot(K, Down(e, j)) /\ Down(e, j) \in DOMAIN d
    BY <1>3, <2>2, <2>3 DEF Slot, Shape, Holds
  <2>5. Down(e, j) # b
    BY <2>4
  <2>6. Down(e, j) \in W
    BY <2>3, <2>4, <2>5
  <2> QED BY <1>2, <2>3, <2>6
<1>9. PICK q \in Position : /\ d[e] = Extension(q) /\ Prefix(e, q) /\ e # q
                            /\ IsFork(K, q) /\ \A j \in K : Prefix(e, j) => Prefix(q, j)
  BY <1>6, <1>7, <1>8 DEF NodeOk, ExtOk
<1>10. Prefix(b, q) \/ Prefix(q, b)
  BY <1>4, <1>5, <1>9, PrefixOrder
<1>11. Prefix(b, q) => b = q
  BY <1>4, <1>9, ForkAboveFork
<1>12. ASSUME Prefix(q, b), q # b PROVE FALSE
  <2>1. q \in W
    BY <1>9, <1>12, ForkIsBranch
  <2>2. Prefix(q, e)
    BY <1>2, <2>1
  <2> QED BY <1>3, <1>9, <2>2, PrefixOrder
<1>13. q = b
  BY <1>10, <1>11, <1>12
<1> QED BY <1>3, <1>9, <1>13

(* What an extension to b says of b. *)
LEMMA BelowExtension ==
  ASSUME NEW d, NEW K, NEW m, Shape(d, K, m), K \subseteq Position,
         NEW b \in Position, NEW e \in DOMAIN d, d[e] = Extension(b)
  PROVE  /\ Prefix(e, b) /\ e # b /\ e \in Position
         /\ \A k \in K : Prefix(e, k) => Prefix(b, k)
         /\ ~IsFork(K, e)
         /\ b # Root /\ ~Slot(K, b)
         /\ \A x \in DOMAIN d : d[x] = Extension(b) => x = e
<1>0. DOMAIN d \subseteq Position
  BY DEF Shape, Holds
<1>1. ASSUME NEW x \in DOMAIN d, d[x] = Extension(b)
      PROVE  /\ Prefix(x, b) /\ x # b /\ \A k \in K : Prefix(x, k) => Prefix(b, k)
             /\ ~IsFork(K, x)
  <2>1. d[x].k = "ext" /\ d[x].child = b
    BY <1>1, Kinds
  <2>2. ~IsFork(K, x)
    BY <2>1, NotFork
  <2>3. ExtOk(K, x, d[x])
    BY <2>1, NodeKinds
  <2> QED BY <2>1, <2>2, <2>3, Kinds DEF ExtOk
<1>2. b # Root
  BY <1>0, <1>1, PrefixBasic
<1>3. ASSUME Slot(K, b) PROVE FALSE
  <2>1. PICK f \in Position, h \in Nibble : b = Down(f, h) /\ IsFork(K, f) /\ h \in Kids(K, f)
    BY <1>3 DEF Slot
  <2>2. e \in Position /\ Prefix(e, f)
    BY <1>0, <1>1, <2>1, BelowDown
  <2>3. PICK k \in K : Prefix(f, k) /\ ~Prefix(b, k)
    BY <2>1, KidFacts
  <2>4. Prefix(e, k)
    BY <2>1, <2>2, <2>3, PrefixOrder
  <2> QED BY <1>1, <2>3, <2>4
<1>4. ASSUME NEW x \in DOMAIN d, NEW y \in DOMAIN d,
             d[x] = Extension(b), d[y] = Extension(b), Prefix(x, y)
      PROVE  x = y
  <2>1. Prefix(x, b) /\ Prefix(y, b) /\ y # b
    BY <1>1, <1>4
  <2>2. \A k \in K : Prefix(x, k) => Prefix(b, k)
    BY <1>1, <1>4
  <2>3. y # x => Prefix(b, y)
    BY <1>4, <2>1, <2>2, ExtGap
  <2> QED BY <1>0, <2>1, <2>3, PrefixOrder
<1>5. ASSUME NEW x \in DOMAIN d, d[x] = Extension(b) PROVE x = e
  <2>1. Prefix(x, e) \/ Prefix(e, x)
    BY <1>0, <1>1, <1>5, PrefixOrder
  <2> QED BY <1>4, <1>5, <2>1
<1> QED BY <1>0, <1>1, <1>2, <1>3, <1>5

(* The slot o of b is the only one left, and t is where its node goes. *)
Folds(d, K, b, i, o, s, t) ==
  /\ Kids(K, b) = {i, o} /\ o # i /\ s = Down(b, o)
  /\ t \in DOMAIN d /\ t \in Position /\ Prefix(t, b)
  /\ \A l \in K : Prefix(t, l) => Prefix(b, l)
  /\ t = b => b = Root \/ Slot(K, b)
  /\ t # b => b # Root /\ ~Slot(K, b) /\ ~IsFork(K, t)
  /\ \A x \in DOMAIN d : d[x] = Extension(b) => x = t

(* The nodes that remain where they are. *)
Stay(d, K, p, b, s) ==
  {x \in DOMAIN d : /\ x # p
                    /\ x = s => IsFork(K, s)
                    /\ x = b => b = Root \/ Slot(K, b)}

FoldResult(d, K, k, p, b, s, t) ==
  /\ s \in DOMAIN d /\ s \in Position /\ Prefix(b, s) /\ ~Prefix(s, b)
  /\ s # p /\ s # b /\ p # b /\ t # s /\ t # p
  /\ ~IsFork(K \ {k}, b)
  /\ \A l \in K \ {k} : Prefix(t, l) => Prefix(s, l)
  /\ \A x : x \in Stay(d, K, p, b, s) <=> Holds(K \ {k}, x)
  /\ t \in Stay(d, K, p, b, s)

Folded(d, s) == IF d[s].k = "branch" THEN Extension(s) ELSE d[s]

(* What a fold leaves where it is, and that it is what the other keys      *)
(* need.                                                                   *)
LEMMA FoldFacts ==
  ASSUME NEW d, NEW K, NEW m, NEW k, NEW p, NEW b, NEW i, Hangs(d, K, m, k, p, b, i),
         NEW o, NEW s, NEW t, Folds(d, K, b, i, o, s, t),
         KeySet(K)
  PROVE  FoldResult(d, K, k, p, b, s, t)
<1>0. /\ Shape(d, K, m) /\ K \subseteq Position /\ k \in Position /\ p \in DOMAIN d
      /\ p \in Position /\ Prefix(p, k)
      /\ b \in Position /\ i \in Nibble /\ p = Down(b, i)
      /\ IsFork(K, b) /\ i \in Kids(K, b) /\ K \ {k} \subseteq Position
  BY DEF Hangs, AtEnd, Shape, Holds
<1>1. /\ Kids(K, b) = {i, o} /\ o # i /\ s = Down(b, o) /\ o \in Nibble
      /\ t \in DOMAIN d /\ t \in Position /\ Prefix(t, b)
      /\ \A l \in K : Prefix(t, l) => Prefix(b, l)
  BY <1>0 DEF Folds, Kids
<1>2. /\ s \in Position /\ Prefix(b, s) /\ ~Prefix(s, b) /\ ~Prefix(p, b)
      /\ s # p /\ s # b /\ p # b
  BY <1>0, <1>1, SplitPositions, DownFacts, PrefixBasic
<1>3. s \in DOMAIN d
  BY <1>0, <1>1, <1>2 DEF Slot, Shape, Holds
<1>4. t # s /\ t # p
  BY <1>1, <1>2
<1>5. ForkRemoved(K, k, b, i)
  BY DeleteForks
<1>6. Kids(K \ {k}, b) = {o}
  BY <1>1, <1>5 DEF ForkRemoved
<1>7. ~IsFork(K \ {k}, b)
  BY <1>0, <1>6, ForkFacts
<1>8. ASSUME NEW l \in K \ {k}, Prefix(t, l)
      PROVE  Prefix(s, l)
  <2>1. Prefix(b, l) /\ l \in Position
    BY <1>0, <1>1, <1>8
  <2>2. b # l
    <3>1. Prefix(b, k) /\ k \in K /\ b # k
      BY <1>0, DownPrefix, Kinds DEF Hangs, LeafOk
    <3> SUFFICES ASSUME b = l PROVE FALSE
      OBVIOUS
    <3> QED BY <1>0, <1>8, <3>1 DEF KeySet
  <2>3. Step(b, l) = o /\ Prefix(Down(b, Step(b, l)), l)
    BY <1>0, <1>6, <2>1, <2>2, KidFacts
  <2> QED BY <1>1, <2>3
<1>9. ~IsFork(K, p)
  BY <1>0, ForkKeys DEF Hangs, LeafOk
<1>10. ASSUME NEW x
       PROVE  x \in Stay(d, K, p, b, s) <=> Holds(K \ {k}, x)
  <2>1. CASE x \in Position
    <3>1. Slot(K \ {k}, x) <=> Slot(K, x) /\ x # p /\ x # s
      BY <1>0, <1>1, <1>7, <2>1, DeleteSlots
    <3>2. IsFork(K \ {k}, x) <=> IsFork(K, x) /\ x # b
      BY <1>5, <1>7, <2>1 DEF ForkRemoved
    <3>3. x \in DOMAIN d <=> x = Root \/ IsFork(K, x) \/ Slot(K, x)
      BY <1>0, <2>1 DEF Shape, Holds
    <3>4. p # Root /\ s # Root
      BY <1>0, <1>1, DownFacts
    <3> QED BY <1>0, <1>1, <1>2, <1>9, <2>1, <3>1, <3>2, <3>3, <3>4 DEF Stay, Holds
  <2>2. CASE x \notin Position
    BY <1>0, <2>2 DEF Shape, Holds, Stay
  <2> QED BY <2>1, <2>2
<1>11. t \in Stay(d, K, p, b, s)
  BY <1>1, <1>4 DEF Stay, Folds
<1> QED BY <1>2, <1>3, <1>4, <1>7, <1>8, <1>10, <1>11 DEF FoldResult

(* The node that takes the branch's place. *)
LEMMA FoldedNode ==
  ASSUME NEW d, NEW K, NEW m, NEW k, NEW p, NEW b, NEW i, Hangs(d, K, m, k, p, b, i),
         NEW o, NEW s, NEW t, Folds(d, K, b, i, o, s, t), KeySet(K),
         NEW n, \A l \in K : l # k => n[l] = m[l]
  PROVE  NodeOk(K \ {k}, n, t, Folded(d, s))
<1> USE DEF Folded
<1>0. /\ Shape(d, K, m) /\ K \subseteq Position /\ k \in Position /\ b \in Position
      /\ K \ {k} \subseteq Position /\ t \in Position /\ Prefix(t, b)
  BY DEF Hangs, AtEnd, Folds
<1>1. /\ s \in DOMAIN d /\ s \in Position /\ Prefix(b, s) /\ ~Prefix(s, b)
      /\ s # p /\ s # b /\ t # s
      /\ \A l \in K \ {k} : Prefix(t, l) => Prefix(s, l)
  <2>1. FoldResult(d, K, k, p, b, s, t)
    BY FoldFacts
  <2> QED BY <2>1 DEF FoldResult
<1>2. Prefix(t, s)
  BY <1>0, <1>1, PrefixOrder
<1>3. ForkRemoved(K, k, b, i)
  BY DeleteForks
<1>4. NodeOk(K \ {k}, n, s, d[s])
  <2>1. d[s] # Extension(b)
    BY <1>0, <1>1, BelowExtension
  <2> QED BY <1>1, <2>1, DeleteElsewhere
<1>5. CASE NullOk(K \ {k}, s, d[s])
  BY <1>1, <1>5, Kinds DEF NullOk, NodeOk
<1>6. CASE LeafOk(K \ {k}, n, s, d[s])
  <2>1. PICK j \in K \ {k} : /\ d[s] = Leaf(j, n[j]) /\ Prefix(s, j)
                             /\ \A l \in K \ {k} : Prefix(s, l) => l = j
    BY <1>6 DEF LeafOk
  <2>2. Prefix(t, j)
    BY <1>0, <1>1, <1>2, <2>1, PrefixOrder
  <2>3. d[s].k # "branch"
    BY <2>1, Kinds
  <2> QED BY <1>1, <2>1, <2>2, <2>3 DEF LeafOk, NodeOk
<1>7. CASE BranchOk(K \ {k}, s, d[s])
  BY <1>1, <1>2, <1>7, Kinds DEF BranchOk, ExtOk, NodeOk
<1>8. CASE ExtOk(K \ {k}, s, d[s])
  <2>1. PICK q \in Position : /\ d[s] = Extension(q) /\ Prefix(s, q) /\ s # q
                              /\ IsFork(K \ {k}, q)
                              /\ \A l \in K \ {k} : Prefix(s, l) => Prefix(q, l)
    BY <1>8 DEF ExtOk
  <2>2. Prefix(t, q) /\ t # q
    BY <1>0, <1>1, <1>2, <2>1, PrefixOrder
  <2>3. d[s].k # "branch"
    BY <2>1, Kinds
  <2> QED BY <1>1, <2>1, <2>2, <2>3 DEF ExtOk, NodeOk
<1> QED BY <1>4, <1>5, <1>6, <1>7, <1>8 DEF NodeOk

(* Where delete_internal puts the node of the last slot: in the branch's   *)
(* place, or in that of the extension above it.                            *)
LEMMA FoldTo ==
  ASSUME NEW K, NEW m, NEW k, NEW p, NEW b, NEW i, Hangs(data, K, m, k, p, b, i), KeySet(K),
         NEW o, o # i, Kids(K, b) = {i, o}
  PROVE  \E t : /\ Folds(data, K, b, i, o, Down(b, o), t)
               /\ FoldBranch(p, b, Down(b, o)) =
                    Put(Drop(data, ({p} \cup IF data[Down(b, o)].k = "branch" THEN {} ELSE {Down(b, o)})
                                      \cup IF t = b THEN {} ELSE {b}),
                        t,
                        IF data[Down(b, o)].k = "branch" THEN Extension(Down(b, o))
                        ELSE data[Down(b, o)])
<1>0. /\ Shape(data, K, m) /\ K \subseteq Position /\ b \in Position /\ IsFork(K, b)
      /\ b \in DOMAIN data
  BY ForkIsBranch DEF Hangs, AtEnd
<1>1. PICK s : s = Down(b, o)
  OBVIOUS
<1>2. PICK above : above = {e \in DOMAIN data : data[e] = Extension(b)}
  OBVIOUS
<1>3. PICK gone : gone = IF data[s].k = "branch" THEN {p} ELSE {p, s}
  OBVIOUS
<1>4. PICK one : one = IF data[s].k = "branch" THEN Extension(s) ELSE data[s]
  OBVIOUS
<1>5. FoldBranch(p, b, s) = IF above = {} THEN Put(Drop(data, gone), b, one)
                            ELSE Put(Drop(data, gone \cup {b}), CHOOSE e \in above : TRUE, one)
  BY <1>2, <1>3, <1>4 DEF FoldBranch
<1>6. gone = {p} \cup IF data[s].k = "branch" THEN {} ELSE {s}
  BY <1>3
<1>7. CASE above = {}
  <2>1. Folds(data, K, b, i, o, s, b)
    <3>1. b = Root \/ Slot(K, b)
      BY <1>0, <1>2, <1>7, ExtensionAbove
    <3> QED BY <1>0, <1>1, <1>2, <1>7, <3>1, PrefixBasic DEF Folds
  <2>2. FoldBranch(p, b, s) = Put(Drop(data, gone \cup IF b = b THEN {} ELSE {b}), b, one)
    BY <1>5, <1>7
  <2> QED BY <1>1, <1>4, <1>6, <2>1, <2>2
<1>8. CASE above # {}
  <2>1. PICK t : t = CHOOSE e \in above : TRUE
    OBVIOUS
  <2>2. t \in DOMAIN data /\ data[t] = Extension(b)
    BY <1>2, <1>8, <2>1
  <2>3. /\ Prefix(t, b) /\ t # b /\ t \in Position
        /\ \A l \in K : Prefix(t, l) => Prefix(b, l)
        /\ ~IsFork(K, t) /\ b # Root /\ ~Slot(K, b)
        /\ \A x \in DOMAIN data : data[x] = Extension(b) => x = t
    BY <1>0, <2>2, BelowExtension
  <2>4. Folds(data, K, b, i, o, s, t)
    BY <1>1, <2>2, <2>3 DEF Folds
  <2>5. FoldBranch(p, b, s) = Put(Drop(data, gone \cup IF t = b THEN {} ELSE {b}), t, one)
    BY <1>5, <1>8, <2>1, <2>3
  <2> QED BY <1>1, <1>4, <1>6, <2>4, <2>5
<1> QED BY <1>7, <1>8

(* A branch with one child left gives its place to the child. *)
LEMMA FoldShape ==
  ASSUME NEW K, NEW m, NEW k, NEW p, NEW b, NEW i, Hangs(data, K, m, k, p, b, i), KeySet(K),
         NEW n, \A l \in K : l # k => n[l] = m[l],
         NEW o, o # i, Kids(K, b) = {i, o}
  PROVE  Shape(FoldBranch(p, b, Down(b, o)), K \ {k}, n)
<1>0. /\ Shape(data, K, m) /\ K \subseteq Position /\ b \in Position /\ IsFork(K, b)
      /\ b \in DOMAIN data /\ p \in DOMAIN data
  BY ForkIsBranch DEF Hangs, AtEnd
<1>1. PICK s : s = Down(b, o)
  OBVIOUS
<1>2. PICK one : one = IF data[s].k = "branch" THEN Extension(s) ELSE data[s]
  OBVIOUS
<1>3. PICK t : /\ Folds(data, K, b, i, o, s, t)
               /\ FoldBranch(p, b, s) =
                    Put(Drop(data, ({p} \cup IF data[s].k = "branch" THEN {} ELSE {s})
                                      \cup IF t = b THEN {} ELSE {b}), t, one)
  BY <1>1, <1>2, FoldTo
<1>4. PICK e : e = FoldBranch(p, b, s)
  OBVIOUS
<1>5. /\ s \in DOMAIN data /\ s \in Position
      /\ s # p /\ s # b /\ p # b /\ t # s /\ t # p
      /\ ~IsFork(K \ {k}, b)
      /\ \A x : x \in Stay(data, K, p, b, s) <=> Holds(K \ {k}, x)
      /\ t \in Stay(data, K, p, b, s)
  <2>1. FoldResult(data, K, k, p, b, s, t)
    BY <1>3, FoldFacts
  <2> QED BY <2>1 DEF FoldResult
<1>6. data[s].k = "branch" <=> IsFork(K, s)
  BY <1>0, <1>5, NotFork, NodeKinds DEF BranchOk
<1>7. t = b <=> b = Root \/ Slot(K, b)
  BY <1>3 DEF Folds
<1>8. DOMAIN e = Stay(data, K, p, b, s)
  <2>1. DOMAIN e = (DOMAIN data \ (({p} \cup IF data[s].k = "branch" THEN {} ELSE {s})
                                     \cup IF t = b THEN {} ELSE {b})) \cup {t}
    BY <1>3, <1>4 DEF Put, Drop
  <2> QED BY <1>5, <1>6, <1>7, <2>1 DEF Stay
<1>9. /\ IsFunction(e) /\ e[t] = one
      /\ \A x \in DOMAIN e : x # t => e[x] = data[x]
  BY <1>3, <1>4 DEF Put, Drop, IsFunction
<1>10. NodeOk(K \ {k}, n, t, e[t])
  <2>1. NodeOk(K \ {k}, n, t, Folded(data, s))
    BY <1>3, FoldedNode
  <2> QED BY <1>2, <1>9, <2>1 DEF Folded
<1>11. ASSUME NEW x \in DOMAIN e, x # t
       PROVE  NodeOk(K \ {k}, n, x, e[x])
  <2>1. x \in DOMAIN data /\ x # p /\ x # b /\ data[x] # Extension(b)
    BY <1>3, <1>7, <1>8, <1>11 DEF Stay, Folds
  <2>2. NodeOk(K \ {k}, n, x, data[x])
    BY <2>1, DeleteElsewhere
  <2> QED BY <1>9, <1>11, <2>2
<1>12. Shape(e, K \ {k}, n)
  BY <1>5, <1>8, <1>9, <1>10, <1>11 DEF Shape
<1> QED BY <1>1, <1>4, <1>12

-----------------------------------------------------------------------------
(* What a call finds at the end of its walk *)

(* Deleting the key of the leaf at the end of its walk. *)
LEMMA RemoveShape ==
  ASSUME NEW K, NEW m, NEW k, NEW p, AtEnd(data, K, m, k, p), KeySet(K),
         data[p].k = "leaf", data[p].key = k,
         NEW n, \A l \in K : l # k => n[l] = m[l]
  PROVE  /\ Shape(RemoveLeaf(p), K \ {k}, n)
         /\ p # Root => data[Up(p)].kids # {Step(Up(p), p)}
<1>0. /\ Shape(data, K, m) /\ K \subseteq Position /\ k \in Position /\ p \in DOMAIN data
      /\ p \in Position /\ LeafOk(K, m, p, data[p])
  BY NodeKinds DEF AtEnd, Shape, Holds
<1>1. CASE p = Root
  <2>1. \A l \in K : l = k
    BY <1>0, <1>1, PrefixBasic, Kinds DEF LeafOk
  <2>2. K \ {k} = {} /\ K \ {k} \subseteq Position
    BY <2>1
  <2>3. \A x : x \in DOMAIN data <=> x = Root
    BY <1>0, <2>1, OnePosition DEF Shape
  <2>4. \A x : Holds(K \ {k}, x) <=> x = Root
    BY <2>2, OnePosition
  <2>5. PICK e : e = RemoveLeaf(p)
    OBVIOUS
  <2>6. e = Put(data, p, Null)
    BY <1>1, <2>5 DEF RemoveLeaf
  <2>7. /\ IsFunction(e) /\ e[Root] = Null /\ \A x : x \in DOMAIN e <=> x = Root
    BY <1>1, <2>3, <2>6 DEF Put, IsFunction
  <2>8. NullOk(K \ {k}, Root, e[Root])
    BY <2>2, <2>7 DEF NullOk
  <2>9. Shape(e, K \ {k}, n)
    BY <2>4, <2>7, <2>8 DEF Shape, NodeOk
  <2> QED BY <1>1, <2>5, <2>9
<1>2. CASE p # Root
  <2>1. PICK b : b = Up(p)
    OBVIOUS
  <2>2. PICK i : i = Step(b, p)
    OBVIOUS
  <2>3. Hangs(data, K, m, k, p, b, i)
    BY <1>2, <2>1, <2>2, HangsFacts
  <2>4. /\ b \in Position /\ i \in Nibble /\ p = Down(b, i)
        /\ IsFork(K, b) /\ i \in Kids(K, b)
        /\ data[b].kids = Kids(K, b)
    BY <1>0, <2>3, ForkIsBranch, Kinds DEF Hangs
  <2>5. PICK j \in Kids(K, b) : j # i
    BY <1>0, <2>4, ForkFacts
  <2>6. PICK left : left = Kids(K, b) \ {i}
    OBVIOUS
  <2>7. PICK only : only = CHOOSE j1 \in left : TRUE
    OBVIOUS
  <2>8. RemoveLeaf(p) = IF left = {only} THEN FoldBranch(p, b, Down(b, only))
                        ELSE Put(Drop(data, {p}), b, Branch(left))
    <3>1. left = data[b].kids \ {i}
      BY <2>4, <2>6
    <3> QED BY <1>2, <2>1, <2>2, <2>7, <3>1 DEF RemoveLeaf
  <2>9. only \in left
    BY <2>5, <2>6, <2>7
  <2>10. CASE left = {only}
    <3>1. Kids(K, b) = {i, only} /\ only # i
      BY <2>4, <2>6, <2>10
    <3>2. Shape(FoldBranch(p, b, Down(b, only)), K \ {k}, n)
      BY <2>3, <3>1, FoldShape
    <3> QED BY <1>2, <2>1, <2>2, <2>4, <2>5, <2>8, <2>10, <3>2
  <2>11. CASE left # {only}
    <3>1. PICK h \in left : h # only
      BY <2>9, <2>11
    <3>2. Kids(K \ {k}, b) = left
      <4>1. ForkRemoved(K, k, b, i)
        BY <2>3, DeleteForks
      <4> QED BY <2>6, <4>1 DEF ForkRemoved
    <3>3. K \ {k} \subseteq Position
      BY <1>0
    <3>4. IsFork(K \ {k}, b)
      BY <2>4, <2>9, <3>1, <3>2, <3>3, ForkFacts
    <3>5. Shape(Put(Drop(data, {p}), b, Branch(Kids(K, b) \ {i})), K \ {k}, n)
      BY <2>3, <3>4, ShrinkShape
    <3> QED BY <1>2, <2>1, <2>2, <2>4, <2>5, <2>6, <2>8, <2>11, <3>5
  <2> QED BY <2>10, <2>11
<1> QED BY <1>1, <1>2

(* Another stored key extends k or is extended by it. *)
Extends(K, k) == \E l \in K : l # k /\ Prefix(k, l)
Clash(K, k) == Extends(K, k) \/ \E l \in K : l # k /\ Prefix(l, k)

(* The leaf of a stored key is where its walk ends. *)
LEMMA KeyFound ==
  ASSUME NEW d, NEW K, NEW m, NEW k, NEW p, AtEnd(d, K, m, k, p), KeySet(K), k \in K
  PROVE  d[p] = Leaf(k, m[k]) /\ LeafOk(K, m, p, d[p])
<1>0. /\ Shape(d, K, m) /\ K \subseteq Position /\ k \in Position /\ p \in DOMAIN d
      /\ p \in Position /\ Prefix(p, k) /\ NodeOk(K, m, p, d[p])
      /\ \A q \in DOMAIN d : Prefix(q, k) => Prefix(q, p)
  BY DEF AtEnd, Shape, Holds
<1>1. ~NullOk(K, p, d[p])
  BY <1>0 DEF NullOk
<1>2. ~BranchOk(K, p, d[p])
  <2> SUFFICES ASSUME IsFork(K, p) PROVE FALSE
    BY DEF BranchOk
  <2>1. p # k
    <3>1. PICK l \in K : Prefix(p, l) /\ l # k
      BY <1>0, ForkKeys
    <3> QED BY <3>1 DEF KeySet
  <2>2. PICK i : i = Step(p, k)
    OBVIOUS
  <2>3. i \in Kids(K, p) /\ Prefix(Down(p, i), k) /\ i \in Nibble
    BY <1>0, <2>1, <2>2, KidFacts
  <2>4. Down(p, i) \in DOMAIN d
    BY <1>0, <2>3, DownFacts DEF Shape, Holds, Slot
  <2> QED BY <1>0, <2>3, <2>4, DownFacts
<1>3. ~ExtOk(K, p, d[p])
  <2> SUFFICES ASSUME NEW q \in Position, Prefix(p, q), p # q, IsFork(K, q),
                      \A l \in K : Prefix(p, l) => Prefix(q, l)
               PROVE  FALSE
    BY DEF ExtOk
  <2>1. q \in DOMAIN d
    BY <1>0, ForkIsBranch
  <2> QED BY <1>0, <2>1, PrefixOrder
<1>4. LeafOk(K, m, p, d[p])
  BY <1>0, <1>1, <1>2, <1>3 DEF NodeOk
<1> QED BY <1>0, <1>4 DEF LeafOk

(* A stored key that k extends has its leaf where the walk for k ends. *)
LEMMA ShorterKeyFound ==
  ASSUME NEW K, NEW m, NEW k, NEW p, AtEnd(data, K, m, k, p), KeySet(K),
         NEW l \in K, Prefix(l, k)
  PROVE  data[p] = Leaf(l, m[l])
<1>0. Shape(data, K, m) /\ K \subseteq Position /\ k \in Position /\ l \in Position
  BY DEF AtEnd
<1>1. PICK x : x = Last(l)
  OBVIOUS
<1>2. AtEnd(data, K, m, l, x)
  BY <1>0, <1>1, LastFacts DEF AtEnd
<1>3. data[x] = Leaf(l, m[l]) /\ LeafOk(K, m, x, data[x])
  BY <1>2, KeyFound
<1>4. x \in DOMAIN data /\ x \in Position /\ Prefix(x, l)
  BY <1>2 DEF AtEnd, Shape, Holds
<1>5. Prefix(x, k)
  BY <1>0, <1>4, PrefixOrder
<1>6. x = p
  BY <1>3, <1>4, <1>5, LeafAtEnd
<1> QED BY <1>3, <1>6

(* A walk that ends at a branch: the key is not stored, and it clashes     *)
(* with others just when it ends there.                                    *)
LEMMA BranchEnd ==
  ASSUME NEW K, NEW m, NEW k, NEW p, AtEnd(data, K, m, k, p), KeySet(K),
         data[p].k = "branch"
  PROVE  /\ k \notin K
         /\ p = k => Extends(K, k)
         /\ p # k => ~Clash(K, k)
<1>0. /\ Shape(data, K, m) /\ K \subseteq Position /\ k \in Position /\ p \in DOMAIN data
      /\ p \in Position /\ Prefix(p, k)
      /\ \A q \in DOMAIN data : Prefix(q, k) => Prefix(q, p)
  BY DEF AtEnd, Shape, Holds
<1>1. IsFork(K, p)
  BY <1>0, NodeKinds DEF BranchOk
<1>2. k \notin K
  BY KeyFound, Kinds
<1>3. p = k => Extends(K, k)
  BY <1>0, <1>1, ForkKeys DEF Extends
<1>4. ASSUME p # k, NEW l \in K, Prefix(k, l), l # k PROVE FALSE
  <2>1. l \in Position /\ Prefix(p, l) /\ p # l /\ Step(p, l) = Step(p, k)
    BY <1>0, <1>4, StepThrough
  <2>2. PICK i : i = Step(p, k)
    OBVIOUS
  <2>3. i \in Kids(K, p) /\ Prefix(Down(p, i), k) /\ i \in Nibble
    BY <1>0, <1>4, <2>1, <2>2, KidFacts, StepFacts
  <2>4. Down(p, i) \in DOMAIN data
    BY <1>0, <1>1, <2>3, DownFacts DEF Shape, Holds, Slot
  <2> QED BY <1>0, <2>3, <2>4, DownFacts
<1>5. ASSUME NEW l \in K, Prefix(l, k) PROVE FALSE
  BY <1>5, ShorterKeyFound, Kinds
<1> QED BY <1>2, <1>3, <1>4, <1>5 DEF Clash, Extends

(* A walk that ends at a leaf: the key is the leaf's, or it is not stored  *)
(* and clashes just when one of the two extends the other.                 *)
LEMMA LeafEnd ==
  ASSUME NEW K, NEW m, NEW k, NEW p, AtEnd(data, K, m, k, p), KeySet(K),
         data[p].k = "leaf"
  PROVE  /\ data[p].key = k => k \in K /\ data[p].value = m[k]
         /\ data[p].key # k =>
              k \notin K /\ (Clash(K, k) <=> Meet(data[p].key, k) \in {data[p].key, k})
<1>0. /\ Shape(data, K, m) /\ K \subseteq Position /\ k \in Position /\ p \in DOMAIN data
      /\ p \in Position /\ Prefix(p, k)
  BY DEF AtEnd, Shape, Holds
<1>1. PICK l \in K : /\ data[p] = Leaf(l, m[l]) /\ Prefix(p, l)
                     /\ \A j \in K : Prefix(p, j) => j = l
  BY <1>0, NodeKinds DEF LeafOk
<1>2. data[p].key = l /\ data[p].value = m[l] /\ l \in Position
  BY <1>0, <1>1, Kinds
<1>3. ASSUME l # k
      PROVE  k \notin K /\ (Clash(K, k) <=> Meet(l, k) \in {l, k})
  <2>1. k \notin K
    BY <1>0, <1>1, <1>3
  <2>2. PICK q : q = Meet(l, k)
    OBVIOUS
  <2>3. /\ q \in Position /\ Prefix(q, l) /\ Prefix(q, k)
        /\ q # l /\ q # k => Step(q, l) # Step(q, k)
    BY <1>0, <1>2, <2>2, MeetFacts
  <2>4. q \in {l, k} => Clash(K, k)
    BY <1>1, <1>3, <2>3 DEF Clash, Extends
  <2>5. ASSUME q \notin {l, k}, Prefix(l, k) \/ Prefix(k, l) PROVE FALSE
    BY <1>0, <1>2, <2>3, <2>5, StepThrough
  <2>6. ASSUME NEW j \in K, Prefix(k, j) PROVE j = l
    BY <1>0, <1>1, <2>6, PrefixOrder
  <2>7. ASSUME NEW j \in K, Prefix(j, k) PROVE j = l
    BY <1>2, <2>7, ShorterKeyFound, Kinds
  <2> QED BY <2>1, <2>2, <2>4, <2>5, <2>6, <2>7 DEF Clash, Extends
<1> QED BY <1>1, <1>2, <1>3

(* A walk that ends at an extension: the key is not stored, and it clashes *)
(* just when it ends inside the extension.                                 *)
LEMMA ExtEnd ==
  ASSUME NEW K, NEW m, NEW k, NEW p, AtEnd(data, K, m, k, p), KeySet(K),
         data[p].k = "ext"
  PROVE  k \notin K /\ (Clash(K, k) <=> Meet(data[p].child, k) = k)
<1>0. /\ Shape(data, K, m) /\ K \subseteq Position /\ k \in Position /\ p \in DOMAIN data
      /\ p \in Position /\ Prefix(p, k)
      /\ \A x \in DOMAIN data : Prefix(x, k) => Prefix(x, p)
  BY DEF AtEnd, Shape, Holds
<1>1. PICK c \in Position : /\ data[p] = Extension(c) /\ Prefix(p, c) /\ p # c
                            /\ IsFork(K, c) /\ \A j \in K : Prefix(p, j) => Prefix(c, j)
  BY <1>0, NodeKinds DEF ExtOk
<1>2. data[p].child = c /\ c \in DOMAIN data
  BY <1>0, <1>1, Kinds, ForkIsBranch
<1>3. k \notin K
  BY KeyFound, Kinds
<1>4. PICK q : q = Meet(c, k)
  OBVIOUS
<1>5. /\ q \in Position /\ Prefix(q, c) /\ Prefix(q, k)
      /\ q # c /\ q # k => Step(q, c) # Step(q, k)
  BY <1>0, <1>1, <1>4, MeetFacts
<1>6. q # c
  BY <1>0, <1>1, <1>2, <1>5, PrefixOrder
<1>7. ASSUME q = k PROVE Clash(K, k)
  <2>1. PICK l \in K : Prefix(c, l)
    BY <1>0, <1>1, ForkKeys
  <2>2. Prefix(k, l)
    BY <1>0, <1>1, <1>5, <1>7, <2>1, PrefixOrder
  <2> QED BY <1>3, <2>1, <2>2 DEF Clash, Extends
<1>8. ASSUME q # k, NEW j \in K, Prefix(k, j) PROVE FALSE
  <2>1. j \in Position /\ Prefix(c, j)
    BY <1>0, <1>1, <1>8, PrefixOrder
  <2>2. Step(q, j) = Step(q, c) /\ Step(q, j) = Step(q, k)
    BY <1>0, <1>5, <1>6, <1>8, <2>1, StepThrough
  <2> QED BY <1>5, <1>6, <1>8, <2>2
<1>9. ASSUME NEW j \in K, Prefix(j, k) PROVE FALSE
  BY <1>9, ShorterKeyFound, Kinds
<1> QED BY <1>2, <1>3, <1>4, <1>7, <1>8, <1>9 DEF Clash, Extends

-----------------------------------------------------------------------------
(* The trie of a map is the canonical one *)

(* The positions of a trie are those of its keys. *)
LEMMA PositionsHeld ==
  ASSUME NEW K, K \subseteq Position, NEW x
  PROVE  x \in Positions(K) <=> Holds(K, x)
<1>0. Root \in Position
  BY DEF Root, Position
<1>1. ASSUME NEW y \in Position
      PROVE  y \in Forks(K) <=> IsFork(K, y)
  BY ForkKeys, PrefixesFacts DEF Forks
<1>2. \A y \in Forks(K) : y \in Position
  BY PrefixesFacts DEF Forks
<1>3. ASSUME x \in Prefixes(K), x # Root, Up(x) \in Forks(K)
      PROVE  Holds(K, x)
  <2>1. x \in Position /\ \E k \in K : Prefix(x, k)
    BY <1>3, PrefixesFacts
  <2>2. /\ Up(x) \in Position /\ Step(Up(x), x) \in Nibble
        /\ x = Down(Up(x), Step(Up(x), x))
    BY <1>3, <2>1, UpFacts
  <2>3. Step(Up(x), x) \in Kids(K, Up(x))
    BY <2>1, <2>2 DEF Kids
  <2> QED BY <1>1, <1>3, <2>1, <2>2, <2>3 DEF Holds, Slot
<1>4. ASSUME Slot(K, x), x \in Position
      PROVE  x \in Prefixes(K) /\ x # Root /\ Up(x) \in Forks(K)
  <2>1. PICK q \in Position, i \in Nibble : x = Down(q, i) /\ IsFork(K, q) /\ i \in Kids(K, q)
    BY <1>4 DEF Slot
  <2>2. Up(x) = q /\ x # Root
    BY <2>1, DownFacts
  <2>3. \E k \in K : Prefix(x, k)
    BY <2>1 DEF Kids
  <2> QED BY <1>1, <1>4, <2>1, <2>2, <2>3, PrefixesFacts
<1> QED BY <1>0, <1>1, <1>2, <1>3, <1>4 DEF Positions, Holds

(* What a position holds is determined by the map. *)
LEMMA NodeDetermined ==
  ASSUME NEW m, KeySet(Stored(m)), NEW x \in Position, NEW z, NodeOk(Stored(m), m, x, z)
  PROVE  z = NodeAt(m, x)
<1>0. PICK K : K = Stored(m)
  OBVIOUS
<1>1. K \subseteq Position
  BY <1>0 DEF KeySet
<1>2. PICK under : under = Under(K, x)
  OBVIOUS
<1>3. \A l : l \in under <=> l \in K /\ Prefix(x, l)
  BY <1>2 DEF Under
<1>4. PICK k : k = CHOOSE l \in under : TRUE
  OBVIOUS
<1>5. NodeAt(m, x) =
        IF under = {} THEN Null
        ELSE IF under = {k} THEN Leaf(k, m[k])
        ELSE IF IsFork(K, x) THEN Branch({Step(x, l) : l \in under})
        ELSE Extension(CHOOSE q \in Forks(K) : under = Under(K, q) /\ Prefix(x, q))
  BY <1>0, <1>2, <1>4 DEF NodeAt
<1>6. CASE NullOk(K, x, z)
  BY <1>3, <1>5, <1>6 DEF NullOk
<1>7. CASE LeafOk(K, m, x, z)
  <2>1. PICK j \in K : z = Leaf(j, m[j]) /\ Prefix(x, j) /\ \A l \in K : Prefix(x, l) => l = j
    BY <1>7 DEF LeafOk
  <2>2. under = {j}
    BY <1>3, <2>1
  <2>3. k = j
    BY <1>4, <2>2
  <2> QED BY <1>5, <2>1, <2>2, <2>3
<1>8. CASE BranchOk(K, x, z)
  <2>1. IsFork(K, x) /\ z = Branch(Kids(K, x))
    BY <1>8 DEF BranchOk
  <2>2. PICK j, l \in K : j # l /\ Prefix(x, j) /\ Prefix(x, l)
    BY <1>1, <2>1, ForkKeys
  <2>3. under # {} /\ under # {k}
    BY <1>3, <2>2
  <2>4. x \notin K
    BY <1>0, <2>2 DEF KeySet
  <2>5. ASSUME NEW h \in under PROVE Step(x, h) \in Kids(K, x)
    BY <1>1, <1>3, <2>4, KidFacts
  <2>6. ASSUME NEW i \in Kids(K, x) PROVE \E h \in under : i = Step(x, h)
    <3>1. PICK h \in K : Prefix(Down(x, i), h) /\ i \in Nibble
      BY DEF Kids
    <3>2. Prefix(x, h) /\ Step(x, h) = i
      BY <1>1, <3>1, DownPrefix
    <3> QED BY <1>3, <3>2
  <2>7. Kids(K, x) = {Step(x, h) : h \in under}
    BY <2>5, <2>6
  <2> QED BY <1>5, <2>1, <2>3, <2>7
<1>9. CASE ExtOk(K, x, z)
  <2>1. PICK q \in Position : /\ z = Extension(q) /\ Prefix(x, q) /\ x # q
                              /\ IsFork(K, q) /\ \A l \in K : Prefix(x, l) => Prefix(q, l)
    BY <1>9 DEF ExtOk
  <2>2. PICK j, l \in K : j # l /\ Prefix(q, j) /\ Prefix(q, l)
    BY <1>1, <2>1, ForkKeys
  <2>3. \A h \in K : Prefix(q, h) => Prefix(x, h)
    BY <1>1, <2>1, PrefixOrder
  <2>4. under # {} /\ under # {k}
    BY <1>3, <2>2, <2>3
  <2>5. ~IsFork(K, x)
    BY <1>1, <2>1, ForkAboveFork
  <2>6. q \in Forks(K)
    BY <1>1, <2>1, <2>2, PrefixesFacts DEF Forks
  <2>7. under = Under(K, q)
    BY <1>3, <2>1, <2>3 DEF Under
  <2>8. ASSUME NEW r \in Forks(K), under = Under(K, r)
        PROVE  r = q
    <3>1. r \in Position /\ IsFork(K, r)
      BY <1>1, PrefixesFacts DEF Forks
    <3>2. \A h \in K : Prefix(r, h) <=> Prefix(q, h)
      BY <2>7, <2>8 DEF Under
    <3>3. Prefix(r, q) \/ Prefix(q, r)
      BY <1>1, <2>2, <3>1, <3>2, PrefixOrder
    <3> QED BY <1>1, <2>1, <3>1, <3>2, <3>3, ForkAboveFork
  <2>9. (CHOOSE r \in Forks(K) : under = Under(K, r) /\ Prefix(x, r)) = q
    BY <2>1, <2>6, <2>7, <2>8
  <2> QED BY <1>5, <2>1, <2>4, <2>5, <2>9
<1> QED BY <1>0, <1>6, <1>7, <1>8, <1>9 DEF NodeOk

(* The trie of a map is the canonical one. *)
LEMMA ShapeIsCanonical ==
  ASSUME NEW d, NEW m, KeySet(Stored(m)), Shape(d, Stored(m), m)
  PROVE  d = Canonical(m)
<1>1. d = [x \in DOMAIN d |-> d[x]]
  BY DEF Shape, IsFunction
<1>2. Stored(m) \subseteq Position
  BY DEF KeySet
<1>3. \A x : x \in DOMAIN d <=> x \in Positions(Stored(m))
  BY <1>2, PositionsHeld DEF Shape
<1>4. ASSUME NEW x \in DOMAIN d PROVE d[x] = NodeAt(m, x)
  BY NodeDetermined DEF Shape, Holds
<1>5. DOMAIN d = Positions(Stored(m))
  BY <1>3
<1> QED BY <1>1, <1>4, <1>5 DEF Canonical

(* Content, of any trie. *)
LeavesIn(d, k) == {p \in DOMAIN d : d[p].k = "leaf" /\ d[p].key = k}
ContentIn(d) == [k \in Keys |-> IF LeavesIn(d, k) = {} THEN Absent
                                ELSE d[CHOOSE p \in LeavesIn(d, k) : TRUE].value]

IsMap(m) == m \in [Keys -> Values \cup {Absent}]

(* Every walk ends somewhere. *)
LEMMA WalkEnds ==
  ASSUME NEW d, NEW K, NEW m, Shape(d, K, m), K \subseteq Position, NEW k \in Position
  PROVE  \E p : AtEnd(d, K, m, k, p)
<1> DEFINE W == {x \in DOMAIN d : Prefix(x, k)}
<1>1. W \subseteq Position /\ W # {} /\ \A x \in W : Prefix(x, k)
  BY PrefixBasic DEF Shape, Holds
<1>2. PICK p \in W : \A q \in W : Prefix(q, p)
  <2> HIDE DEF W
  <2> QED BY <1>1, Longest
<1> QED BY <1>2 DEF AtEnd

(* The leaves of the trie of m are m. *)
LEMMA ShapeContent ==
  ASSUME NEW d, NEW m, IsMap(m), KeySet(Stored(m)), Shape(d, Stored(m), m)
  PROVE  ContentIn(d) = m
<1>0. PICK K : K = Stored(m)
  OBVIOUS
<1>1. K \subseteq Position /\ Shape(d, K, m) /\ KeySet(K)
  BY <1>0 DEF KeySet
<1>2. \A k : k \in K <=> k \in Keys /\ m[k] # Absent
  BY <1>0 DEF Stored, IsMap
<1>3. ASSUME NEW k \in Keys, LeavesIn(d, k) = {}
      PROVE  m[k] = Absent
  <2> SUFFICES ASSUME k \in K PROVE FALSE
    BY <1>2
  <2>1. PICK p : AtEnd(d, K, m, k, p)
    BY <1>1, WalkEnds
  <2>2. d[p] = Leaf(k, m[k])
    BY <1>1, <2>1, KeyFound
  <2> QED BY <1>3, <2>1, <2>2, Kinds DEF LeavesIn, AtEnd
<1>4. ASSUME NEW k \in Keys, NEW p \in LeavesIn(d, k)
      PROVE  d[p].value = m[k]
  <2>1. p \in DOMAIN d /\ d[p].k = "leaf" /\ d[p].key = k
    BY DEF LeavesIn
  <2>2. LeafOk(K, m, p, d[p])
    BY <1>1, <2>1, NodeKinds
  <2> QED BY <2>1, <2>2, Kinds DEF LeafOk
<1>5. \A k \in Keys : ContentIn(d)[k] = m[k]
  BY <1>3, <1>4 DEF ContentIn
<1>6. m = [k \in Keys |-> m[k]] /\ ContentIn(d) = [k \in Keys |-> ContentIn(d)[k]]
  BY DEF IsMap, ContentIn
<1> QED BY <1>5, <1>6

-----------------------------------------------------------------------------
(* References *)

(* The maps m and n differ at most in k. *)
Differ(m, n, k) ==
  \A l : l # k => /\ l \in Stored(m) <=> l \in Stored(n)
                  /\ l \in Stored(m) => m[l] = n[l]

(* Where k does not go, it changes nothing. *)
LEMMA ForkElsewhere ==
  ASSUME NEW K, NEW L, K \subseteq Position, L \subseteq Position,
         NEW k \in Position, \A l : l # k => (l \in K <=> l \in L),
         NEW x \in Position, ~Prefix(x, k)
  PROVE  Kids(K, x) = Kids(L, x) /\ (IsFork(K, x) <=> IsFork(L, x))
<1>1. ASSUME NEW i \in Nibble PROVE ~Prefix(Down(x, i), k)
  BY DownPrefix
<1>2. Kids(K, x) = Kids(L, x)
  BY <1>1 DEF Kids
<1> QED BY <1>2, ForkFacts

(* A node that k does not go through is the same with k and without. *)
LEMMA NodeElsewhere ==
  ASSUME NEW m, NEW n, NEW k \in Position, KeySet(Stored(m)), KeySet(Stored(n)),
         Differ(m, n, k), NEW x \in Position, ~Prefix(x, k),
         NEW z, NodeOk(Stored(m), m, x, z)
  PROVE  NodeOk(Stored(n), n, x, z)
<1>1. PICK K, L : K = Stored(m) /\ L = Stored(n)
  OBVIOUS
<1>2. /\ K \subseteq Position /\ L \subseteq Position
      /\ \A l : l # k => (l \in K <=> l \in L) /\ (l \in K => m[l] = n[l])
  BY <1>1 DEF KeySet, Differ
<1>3. CASE NullOk(K, x, z)
  BY <1>2, <1>3, <1>1 DEF NullOk, NodeOk
<1>4. CASE LeafOk(K, m, x, z)
  <2>1. PICK j \in K : z = Leaf(j, m[j]) /\ Prefix(x, j) /\ \A l \in K : Prefix(x, l) => l = j
    BY <1>4 DEF LeafOk
  <2>2. j # k
    BY <2>1
  <2>3. LeafOk(L, n, x, z)
    BY <1>2, <2>1, <2>2 DEF LeafOk
  <2> QED BY <1>1, <2>3 DEF NodeOk
<1>5. CASE BranchOk(K, x, z)
  <2>1. Kids(K, x) = Kids(L, x) /\ (IsFork(K, x) <=> IsFork(L, x))
    BY <1>2, ForkElsewhere
  <2> QED BY <1>1, <1>5, <2>1 DEF BranchOk, NodeOk
<1>6. CASE ExtOk(K, x, z)
  <2>1. PICK q \in Position : /\ z = Extension(q) /\ Prefix(x, q) /\ x # q
                              /\ IsFork(K, q) /\ \A l \in K : Prefix(x, l) => Prefix(q, l)
    BY <1>6 DEF ExtOk
  <2>2. ~Prefix(q, k)
    BY <2>1, PrefixOrder
  <2>3. IsFork(L, q)
    BY <1>2, <2>1, <2>2, ForkElsewhere
  <2>4. ExtOk(L, x, z)
    BY <1>2, <2>1, <2>2, <2>3 DEF ExtOk
  <2> QED BY <1>1, <2>4 DEF NodeOk
<1> QED BY <1>1, <1>3, <1>4, <1>5, <1>6 DEF NodeOk

(* Below a node that is there with k and without, and that k does not go   *)
(* through, the positions are the same.                                    *)
LEMMA HeldElsewhere ==
  ASSUME NEW K, NEW L, K \subseteq Position, L \subseteq Position,
         NEW k \in Position, \A l : l # k => (l \in K <=> l \in L),
         NEW p \in Position, ~Prefix(p, k), Holds(K, p), Holds(L, p),
         NEW x \in Position, Prefix(p, x)
  PROVE  Holds(K, x) => Holds(L, x)
<1>1. ~Prefix(x, k)
  BY PrefixOrder
<1>2. p # Root /\ x # Root
  BY PrefixBasic
<1>3. CASE IsFork(K, x)
  BY <1>1, <1>3, ForkElsewhere DEF Holds
<1>4. CASE Slot(K, x)
  <2>1. PICK q \in Position, i \in Nibble : x = Down(q, i) /\ IsFork(K, q) /\ i \in Kids(K, q)
    BY <1>4 DEF Slot
  <2>2. CASE Prefix(q, k)
    <3>1. ~Prefix(p, q)
      BY <2>2, PrefixOrder
    <3>2. p = x
      BY <2>1, <3>1, BelowDown
    <3> QED BY <3>2
  <2>3. CASE ~Prefix(q, k)
    <3>1. Kids(K, q) = Kids(L, q) /\ (IsFork(K, q) <=> IsFork(L, q))
      BY <2>3, ForkElsewhere
    <3> QED BY <2>1, <3>1 DEF Holds, Slot
  <2> QED BY <2>2, <2>3
<1> QED BY <1>2, <1>3, <1>4 DEF Holds

(* The subtrie at a position that is not on the walk for k, and is there   *)
(* before and after, is the same.                                          *)
LEMMA SubTrieKept ==
  ASSUME NEW d, NEW e, NEW m, NEW n, NEW k \in Position,
         KeySet(Stored(m)), KeySet(Stored(n)), Differ(m, n, k),
         Shape(d, Stored(m), m), Shape(e, Stored(n), n),
         NEW p \in DOMAIN d, p \in DOMAIN e, ~Prefix(p, k)
  PROVE  SubTrie(d, p) = SubTrie(e, p)
<1>1. PICK K, L : K = Stored(m) /\ L = Stored(n)
  OBVIOUS
<1>2. /\ K \subseteq Position /\ L \subseteq Position
      /\ \A l : l # k => (l \in K <=> l \in L)
      /\ \A l : l # k => (l \in L <=> l \in K)
  BY <1>1 DEF KeySet, Differ
<1>3. /\ \A x : x \in DOMAIN d <=> Holds(K, x)
      /\ \A x : x \in DOMAIN e <=> Holds(L, x)
      /\ p \in Position
  BY <1>1 DEF Shape, Holds
<1>4. ASSUME NEW x, Prefix(p, x)
      PROVE  x \in DOMAIN d <=> x \in DOMAIN e
  <2>1. CASE x \in Position
    <3>1. Holds(K, x) => Holds(L, x)
      BY <1>2, <1>3, <1>4, <2>1, HeldElsewhere
    <3>2. Holds(L, x) => Holds(K, x)
      BY <1>2, <1>3, <1>4, <2>1, HeldElsewhere
    <3> QED BY <1>3, <3>1, <3>2
  <2>2. CASE x \notin Position
    BY <1>3, <2>2 DEF Holds
  <2> QED BY <2>1, <2>2
<1>5. ASSUME NEW x \in DOMAIN d, x \in DOMAIN e, Prefix(p, x)
      PROVE  d[x] = e[x]
  <2>1. x \in Position
    BY <1>3 DEF Holds
  <2>2. ~Prefix(x, k)
    BY <1>3, <1>5, <2>1, PrefixOrder
  <2>3. NodeOk(Stored(m), m, x, d[x]) /\ NodeOk(Stored(n), n, x, e[x])
    BY <1>5 DEF Shape
  <2>4. NodeOk(Stored(n), n, x, d[x])
    BY <2>1, <2>2, <2>3, NodeElsewhere
  <2>5. d[x] = NodeAt(n, x)
    BY <2>1, <2>4, NodeDetermined
  <2>6. e[x] = NodeAt(n, x)
    BY <2>1, <2>3, NodeDetermined
  <2> QED BY <2>5, <2>6
<1> QED BY <1>4, <1>5 DEF SubTrie

(* The cached references r are those of the trie d. *)
Coherent(d, r) ==
  /\ DOMAIN r = DOMAIN d
  /\ \A p \in DOMAIN d : r[p] # None => r[p] = Some(SubTrie(d, p))

(* Of some prefixes of one position, one is the shortest. *)
LEMMA Shortest ==
  ASSUME NEW k \in Position, NEW W, W \subseteq Position, W # {}, \A p \in W : Prefix(p, k)
  PROVE  \E p \in W : \A q \in W : Prefix(p, q)
<1> DEFINE D == {Len(p) : p \in W}
<1>1. \A p \in W : Len(p) \in Nat
  BY DEF Position
<1>2. D \in SUBSET Nat /\ D # {}
  BY <1>1
<1>3. Min(D) \in D /\ \A y \in D : Min(D) <= y
  <2> HIDE DEF D
  <2> QED BY <1>2, LeastPosition
<1>4. PICK p \in W : Min(D) = Len(p)
  BY <1>3
<1>5. ASSUME NEW q \in W
      PROVE  Prefix(p, q)
  <2>1. Len(p) <= Len(q)
    BY <1>3, <1>4
  <2>2. p \in Position /\ q \in Position
    OBVIOUS
  <2>3. CASE Prefix(q, p)
    <3>1. Len(q) <= Len(p) /\ \A i \in 1..Len(q) : q[i] = p[i]
      BY <2>2, <2>3, PrefixPoint
    <3>2. Len(p) = Len(q)
      BY <1>1, <2>1, <3>1
    <3> QED BY <2>1, <2>2, <3>1, <3>2, PrefixPoint
  <2> QED BY <2>2, <2>3, PrefixOrder
<1> QED BY <1>5

(* With coherent references, encoding a node gives the nodes at and below  *)
(* it, whatever is cached.                                                 *)
LEMMA EncodedIsSubTrie ==
  ASSUME Coherent(data, ref), DOMAIN data \subseteq Position, NEW p \in DOMAIN data
  PROVE  Encoded(p) = SubTrie(data, p)
<1>1. PICK below : below = {q \in DOMAIN data : Prefix(p, q)}
  OBVIOUS
<1>2. PICK seen, stop : /\ seen = {x \in below : Visited(p, x)}
                        /\ stop = {x \in below : Hides(p, x)}
  OBVIOUS
<1>3. Encoded(p) = {<<q, data[q]>> : q \in seen} \cup UNION {UNION ref[c] : c \in stop}
  BY <1>1, <1>2 DEF Encoded
<1>4. SubTrie(data, p) = {<<q, data[q]>> : q \in below}
  BY <1>1 DEF SubTrie
<1>5. ASSUME NEW c \in stop
      PROVE  UNION ref[c] = {<<q, data[q]>> : q \in {x \in DOMAIN data : Prefix(c, x)}}
  <2>1. c \in DOMAIN data /\ ref[c] # None
    BY <1>1, <1>2 DEF Hides
  <2>2. ref[c] = {SubTrie(data, c)}
    BY <2>1 DEF Coherent, Some
  <2> QED BY <2>2 DEF SubTrie
<1>6. ASSUME NEW c \in stop, NEW q \in DOMAIN data, Prefix(c, q)
      PROVE  q \in below
  BY <1>1, <1>2, <1>6, PrefixOrder
<1>7. ASSUME NEW q \in below, q \notin seen
      PROVE  \E c \in stop : Prefix(c, q)
  <2> DEFINE W == {a \in DOMAIN data : Prefix(p, a) /\ Prefix(a, q) /\ ref[a] # None}
  <2>1. W # {}
    BY <1>2, <1>7 DEF Visited
  <2>2. W \subseteq Position /\ q \in Position /\ \A a \in W : Prefix(a, q)
    BY <1>1
  <2>3. PICK c \in W : \A a \in W : Prefix(c, a)
    <3> HIDE DEF W
    <3> QED BY <2>1, <2>2, Shortest
  <2>4. ASSUME NEW a \in DOMAIN data, Prefix(p, a), Prefix(a, c), a # c
        PROVE  ref[a] = None
    <3>1. Prefix(a, q)
      BY <2>2, <2>3, <2>4, PrefixOrder
    <3>2. a \in W => Prefix(c, a)
      BY <2>3
    <3> QED BY <2>2, <2>3, <2>4, <3>1, <3>2, PrefixOrder
  <2>5. Hides(p, c)
    BY <2>3, <2>4 DEF Hides
  <2> QED BY <1>1, <1>2, <2>3, <2>5
<1>8. ASSUME NEW y \in Encoded(p) PROVE y \in SubTrie(data, p)
  <2>1. CASE y \in {<<q, data[q]>> : q \in seen}
    BY <1>2, <1>4, <2>1
  <2>2. CASE y \in UNION {UNION ref[c] : c \in stop}
    <3>1. PICK c \in stop : y \in UNION ref[c]
      BY <2>2
    <3>2. PICK q \in DOMAIN data : Prefix(c, q) /\ y = <<q, data[q]>>
      BY <1>5, <3>1
    <3> QED BY <1>4, <1>6, <3>1, <3>2
  <2> QED BY <1>3, <2>1, <2>2
<1>9. ASSUME NEW y \in SubTrie(data, p) PROVE y \in Encoded(p)
  <2>1. PICK q \in below : y = <<q, data[q]>>
    BY <1>4
  <2>2. CASE q \in seen
    BY <1>3, <2>1, <2>2
  <2>3. CASE q \notin seen
    <3>1. PICK c \in stop : Prefix(c, q)
      BY <1>7, <2>3
    <3>2. y \in UNION ref[c]
      BY <1>1, <1>5, <2>1, <3>1
    <3> QED BY <1>3, <3>1, <3>2
  <2> QED BY <2>2, <2>3
<1> QED BY <1>8, <1>9

-----------------------------------------------------------------------------
(* The invariant *)

(* The trie d with the cached references r holds the map m. *)
TrieOf(d, r, m) ==
  /\ IsMap(m)
  /\ KeySet(Stored(m))
  /\ Shape(d, Stored(m), m)
  /\ Coherent(d, r)

Inv == TrieOf(data, ref, Content)

(* The map of the trie, as a function of its nodes. *)
LEMMA ContentFromLeaves == Content = ContentIn(data)
BY DEF Content, ContentIn, LeavesOf, LeavesIn

(* A proper prefix is a prefix that differs. *)
LEMMA ProperMeans ==
  ASSUME NEW p \in Position, NEW k \in Position
  PROVE  KV!ProperPrefix(p, k) <=> Prefix(p, k) /\ p # k
<1>1. Len(p) \in Nat /\ Len(k) \in Nat
  BY DEF Position
<1>2. ASSUME Prefix(p, k), Len(p) = Len(k) PROVE p = k
  <2>1. \A i \in 1..Len(p) : p[i] = k[i]
    BY <1>2, PrefixPoint
  <2>2. Prefix(k, p)
    BY <1>1, <1>2, <2>1, PrefixPoint
  <2> QED BY <1>2, <2>2, PrefixOrder
<1> QED BY <1>1, <1>2 DEF KV!ProperPrefix, Prefix

(* The terms of KvStore. *)
LEMMA ClashMeans ==
  ASSUME IsMap(Content), KeySet(Stored(Content)), NEW k \in Keys
  PROVE  /\ KV!Present = Stored(Content)
         /\ KV!Clashes(k) <=> Clash(Stored(Content), k)
         /\ (\E l \in KV!Present : KV!ProperPrefix(k, l)) <=> Extends(Stored(Content), k)
<1>1. KV!Present = Stored(Content)
  BY DEF KV!Present, Stored, IsMap
<1>2. k \in Position /\ \A l \in Stored(Content) : l \in Position
  BY KeysAssumption DEF KeySet, Position
<1>3. \A l \in Stored(Content) : /\ KV!ProperPrefix(k, l) <=> Prefix(k, l) /\ l # k
                                 /\ KV!ProperPrefix(l, k) <=> Prefix(l, k) /\ l # k
  BY <1>2, ProperMeans
<1> QED BY <1>1, <1>3 DEF KV!Clashes, Clash, Extends

(* A write that leaves the trie of a map that differs in k keeps the       *)
(* references coherent.                                                    *)
LEMMA WriteKeeps ==
  ASSUME NEW m, TrieOf(data, ref, m), NEW k \in Keys, NEW n, IsMap(n), KeySet(Stored(n)),
         Differ(m, n, k), NEW e, Shape(e, Stored(n), n), Write(k, e)
  PROVE  TrieOf(data', ref', n) /\ Content' = n
<1>1. k \in Position
  BY KeysAssumption DEF Position
<1>2. PICK r : r = [p \in DOMAIN e |-> IF p \in DOMAIN data \ Walk(k) THEN ref[p] ELSE None]
  OBVIOUS
<1>3. data' = e /\ ref' = r
  BY <1>2 DEF Write
<1>4. /\ KeySet(Stored(m)) /\ Shape(data, Stored(m), m)
      /\ DOMAIN ref = DOMAIN data
      /\ \A p \in DOMAIN data : ref[p] # None => ref[p] = Some(SubTrie(data, p))
  BY DEF TrieOf, Coherent
<1>5. ASSUME NEW p \in DOMAIN e, r[p] # None
      PROVE  r[p] = Some(SubTrie(e, p))
  <2>1. p \in DOMAIN data /\ p \notin Walk(k) /\ r[p] = ref[p]
    BY <1>2, <1>5
  <2>2. ~Prefix(p, k)
    BY <2>1 DEF Walk
  <2>3. SubTrie(data, p) = SubTrie(e, p)
    BY <1>1, <1>4, <2>1, <2>2, SubTrieKept
  <2> QED BY <1>4, <1>5, <2>1, <2>3
<1>6. Coherent(e, r)
  BY <1>2, <1>5 DEF Coherent
<1>7. TrieOf(e, r, n)
  BY <1>6 DEF TrieOf
<1>8. ContentIn(e) = n
  BY ShapeContent
<1>9. Content' = ContentIn(data')
  BY ContentFromLeaves DEF Content, ContentIn, LeavesOf, LeavesIn
<1> QED BY <1>3, <1>7, <1>8, <1>9

(* What a call returns or changes, in terms of the map. *)
LEMMA EndOfWalk ==
  ASSUME NEW m, TrieOf(data, ref, m), NEW k \in Keys
  PROVE  /\ AtEnd(data, Stored(m), m, k, Last(k))
         /\ KeySet(Stored(m)) /\ k \in Position
         /\ data[Last(k)].k \in {"null", "leaf", "branch", "ext"}
<1>1. /\ k \in Position /\ Stored(m) \subseteq Position
      /\ Shape(data, Stored(m), m) /\ KeySet(Stored(m))
  BY KeysAssumption DEF Position, TrieOf, KeySet
<1>2. /\ Last(k) \in DOMAIN data /\ Prefix(Last(k), k)
      /\ \A q \in DOMAIN data : Prefix(q, k) => Prefix(q, Last(k))
  BY <1>1, LastFacts
<1>3. AtEnd(data, Stored(m), m, k, Last(k))
  BY <1>1, <1>2 DEF AtEnd
<1> QED BY <1>1, <1>2, <1>3, NodeKinds

(* The map n is m with v at k. *)
Replaced(m, n, k, v) ==
  /\ IsMap(n) /\ n[k] = v /\ Differ(m, n, k)
  /\ \A l \in Stored(m) : l # k => n[l] = m[l]
  /\ v # Absent => Stored(n) = Stored(m) \cup {k}
  /\ v = Absent => Stored(n) = Stored(m) \ {k}

(* A map with one key replaced. *)
LEMMA StoredFacts ==
  ASSUME NEW m, IsMap(m), NEW k \in Keys, NEW v \in Values \cup {Absent}
  PROVE  Replaced(m, [m EXCEPT ![k] = v], k, v)
<1>0. PICK n : n = [m EXCEPT ![k] = v]
  OBVIOUS
<1>1. IsMap(n) /\ n[k] = v /\ DOMAIN n = Keys /\ DOMAIN m = Keys
  BY <1>0 DEF IsMap
<1>2. \A l \in Keys : l # k => n[l] = m[l]
  BY <1>0 DEF IsMap
<1>3. Replaced(m, n, k, v)
  BY <1>1, <1>2 DEF Stored, Differ, Replaced
<1> QED BY <1>0, <1>3

-----------------------------------------------------------------------------
(* The calls *)

(* A key that clashes with no other keeps the keys prefix-free. *)
LEMMA KeySetGrows ==
  ASSUME NEW K, KeySet(K), NEW k \in Position, ~Clash(K, k)
  PROVE  KeySet(K \cup {k})
BY DEF KeySet, Clash, Extends

(* What Insert does to the trie of m. *)
Inserted(m, k, v) ==
  LET n == [m EXCEPT ![k] = v]
  IN  \/ /\ Clash(Stored(m), k)
         /\ Fail("ValueInBranch")
      \/ /\ ~Clash(Stored(m), k) /\ m[k] = v
         /\ Fail("false")
      \/ /\ ~Clash(Stored(m), k) /\ m[k] # v
         /\ \E e : Write(k, e) /\ Shape(e, Stored(n), n)

(* Insert fails just when the key clashes, and else leaves the trie of the *)
(* new map.                                                                *)
LEMMA InsertEffect ==
  ASSUME NEW m, TrieOf(data, ref, m), NEW k \in Keys, NEW v \in Values, Insert(k, v)
  PROVE  Inserted(m, k, v)
<1>1. PICK K, p, n : K = Stored(m) /\ p = Last(k) /\ n = [m EXCEPT ![k] = v]
  OBVIOUS
<1>2. /\ AtEnd(data, K, m, k, p) /\ KeySet(K) /\ k \in Position
      /\ data[p].k \in {"null", "leaf", "branch", "ext"}
  BY <1>1, EndOfWalk
<1>3. v # Absent
  BY KeysAssumption
<1>4. /\ n[k] = v /\ \A l \in K : l # k => n[l] = m[l]
      /\ Stored(n) = K \cup {k}
  <2>1. Replaced(m, n, k, v)
    BY <1>1, StoredFacts DEF TrieOf
  <2> QED BY <1>1, <1>3, <2>1 DEF Replaced
<1>5. \A l : l \in K <=> l \in Keys /\ m[l] # Absent
  BY <1>1 DEF TrieOf, IsMap, Stored
<1>6. ASSUME k \notin K, ~Clash(K, k), NEW e, Write(k, e), Shape(e, K \cup {k}, n)
      PROVE  Inserted(m, k, v)
  BY <1>1, <1>3, <1>4, <1>5, <1>6 DEF Inserted
<1>7. k \notin K => \A l \in K : n[l] = m[l]
  BY <1>4
<1>8. CASE data[p].k = "null"
  <2>1. Write(k, Put(data, p, Leaf(k, v)))
    BY <1>1, <1>8 DEF Insert
  <2>2. K = {}
    BY <1>2, <1>8, NullIsEmpty DEF AtEnd
  <2>3. Shape(Put(data, p, Leaf(k, v)), K \cup {k}, n)
    BY <1>2, <1>4, <1>8, FirstShape
  <2> QED BY <1>6, <2>1, <2>2, <2>3 DEF Clash, Extends
<1>9. CASE data[p].k = "branch"
  <2>1. k \notin K /\ (p = k => Extends(K, k)) /\ (p # k => ~Clash(K, k))
    BY <1>2, <1>9, BranchEnd
  <2>2. CASE p = k
    <3>1. Fail("ValueInBranch")
      BY <1>1, <1>9, <2>2 DEF Insert
    <3> QED BY <1>1, <2>1, <2>2, <3>1 DEF Inserted, Clash
  <2>3. CASE p # k
    <3>1. Write(k, InsertInBranch(p, k, v))
      BY <1>1, <1>9, <2>3 DEF Insert
    <3>2. Shape(InsertInBranch(p, k, v), K \cup {k}, n)
      BY <1>2, <1>4, <1>7, <1>9, <2>1, <2>3, InsertBranchShape
    <3> QED BY <1>6, <2>1, <2>3, <3>1, <3>2
  <2> QED BY <2>2, <2>3
<1>10. CASE data[p].k = "leaf"
  <2>1. /\ data[p].key = k => k \in K /\ data[p].value = m[k]
        /\ data[p].key # k =>
             k \notin K /\ (Clash(K, k) <=> Meet(data[p].key, k) \in {data[p].key, k})
    BY <1>2, <1>10, LeafEnd
  <2>2. CASE data[p].key = k
    <3>1. ~Clash(K, k)
      BY <1>2, <2>1, <2>2 DEF Clash, Extends, KeySet
    <3>2. CASE m[k] = v
      <4>1. Fail("false")
        BY <1>1, <1>10, <2>1, <2>2, <3>2 DEF Insert
      <4> QED BY <1>1, <3>1, <3>2, <4>1 DEF Inserted
    <3>3. CASE m[k] # v
      <4>1. Write(k, Put(data, p, Leaf(k, v)))
        BY <1>1, <1>10, <2>1, <2>2, <3>3 DEF Insert
      <4>2. Shape(Put(data, p, Leaf(k, v)), K, n)
        <5>1. n[k] = v /\ \A l \in K : l # k => n[l] = m[l]
          BY <1>4
        <5> QED BY <1>2, <1>10, <2>2, <5>1, OverwriteShape
      <4>3. Stored(n) = K
        BY <1>4, <2>1, <2>2
      <4> QED BY <1>1, <3>1, <3>3, <4>1, <4>2, <4>3 DEF Inserted
    <3> QED BY <3>2, <3>3
  <2>3. CASE data[p].key # k /\ Meet(data[p].key, k) \in {data[p].key, k}
    <3>1. Fail("ValueInBranch")
      BY <1>1, <1>10, <2>3 DEF Insert
    <3> QED BY <1>1, <2>1, <2>3, <3>1 DEF Inserted
  <2>4. CASE data[p].key # k /\ Meet(data[p].key, k) \notin {data[p].key, k}
    <3>1. Write(k, SplitLeaf(p, data[p].key, k, v))
      BY <1>1, <1>10, <2>4 DEF Insert
    <3>2. Shape(SplitLeaf(p, data[p].key, k, v), K \cup {k}, n)
      BY <1>2, <1>4, <1>7, <1>10, <2>1, <2>4, SplitLeafShape
    <3> QED BY <1>6, <2>1, <2>4, <3>1, <3>2
  <2> QED BY <2>2, <2>3, <2>4
<1>11. CASE data[p].k = "ext"
  <2>1. k \notin K /\ (Clash(K, k) <=> Meet(data[p].child, k) = k)
    BY <1>2, <1>11, ExtEnd
  <2>2. CASE Meet(data[p].child, k) = k
    <3>1. Fail("ValueInBranch")
      BY <1>1, <1>11, <2>2 DEF Insert
    <3> QED BY <1>1, <2>1, <2>2, <3>1 DEF Inserted
  <2>3. CASE Meet(data[p].child, k) # k
    <3>1. Write(k, SplitExtension(p, data[p].child, k, v))
      BY <1>1, <1>11, <2>3 DEF Insert
    <3>2. Shape(SplitExtension(p, data[p].child, k, v), K \cup {k}, n)
      BY <1>2, <1>4, <1>7, <1>11, <2>1, <2>3, SplitExtensionShape
    <3> QED BY <1>6, <2>1, <2>3, <3>1, <3>2
  <2> QED BY <2>2, <2>3
<1> QED BY <1>2, <1>8, <1>9, <1>10, <1>11

(* What Delete does to the trie of m; no branch has a leaf as its only     *)
(* child, where the code would give up.                                    *)
Deleted(m, k) ==
  LET n == [m EXCEPT ![k] = Absent]
  IN  \/ /\ Extends(Stored(m), k) /\ k \notin Stored(m)
         /\ Fail("ValueInBranch")
      \/ /\ k \notin Stored(m)
         /\ Fail("false")
      \/ /\ k \in Stored(m)
         /\ \E e : Write(k, e) /\ Shape(e, Stored(n), n)

(* Delete leaves the trie of the map without the key; the arm of the code  *)
(* that gives up is never reached.                                         *)
LEMMA DeleteEffect ==
  ASSUME NEW m, TrieOf(data, ref, m), NEW k \in Keys, Delete(k)
  PROVE  Deleted(m, k)
<1>1. PICK K, p, n : K = Stored(m) /\ p = Last(k) /\ n = [m EXCEPT ![k] = Absent]
  OBVIOUS
<1>2. /\ AtEnd(data, K, m, k, p) /\ KeySet(K) /\ k \in Position
      /\ data[p].k \in {"null", "leaf", "branch", "ext"}
  BY <1>1, EndOfWalk
<1>3. /\ \A l \in K : l # k => n[l] = m[l]
      /\ Stored(n) = K \ {k}
  <2>1. Replaced(m, n, k, Absent)
    BY <1>1, StoredFacts DEF TrieOf
  <2> QED BY <1>1, <2>1 DEF Replaced
<1>4. CASE data[p].k = "leaf" /\ data[p].key = k
  <2>1. k \in K
    BY <1>2, <1>4, LeafEnd
  <2>2. /\ Shape(RemoveLeaf(p), K \ {k}, n)
        /\ p # Root => data[Up(p)].kids # {Step(Up(p), p)}
    BY <1>2, <1>3, <1>4, RemoveShape
  <2>3. Write(k, RemoveLeaf(p))
    BY <1>1, <1>4, <2>2 DEF Delete
  <2> QED BY <1>1, <1>3, <2>1, <2>2, <2>3 DEF Deleted
<1>5. CASE data[p].k = "branch" /\ p = k
  <2>1. Fail("ValueInBranch")
    BY <1>1, <1>5 DEF Delete
  <2>2. Extends(K, k) /\ k \notin K
    BY <1>2, <1>5, BranchEnd
  <2> QED BY <1>1, <2>1, <2>2 DEF Deleted
<1>6. CASE ~(data[p].k = "leaf" /\ data[p].key = k) /\ ~(data[p].k = "branch" /\ p = k)
  <2>1. Fail("false")
    BY <1>1, <1>6 DEF Delete
  <2>2. k \notin K
    BY <1>2, <1>6, KeyFound, Kinds
  <2> QED BY <1>1, <2>1, <2>2 DEF Deleted
<1> QED BY <1>4, <1>5, <1>6

(* Get returns what the map has. *)
LEMMA GetEffect ==
  ASSUME NEW m, TrieOf(data, ref, m), NEW k \in Keys
  PROVE  get_internal(k) = IF k \in Stored(m) THEN [ret |-> "some", value |-> m[k]]
                           ELSE [ret |-> "none"]
<1>1. PICK K, p : K = Stored(m) /\ p = Last(k)
  OBVIOUS
<1>2. AtEnd(data, K, m, k, p) /\ KeySet(K)
  BY <1>1, EndOfWalk
<1>3. CASE data[p].k = "leaf" /\ data[p].key = k
  <2>1. k \in K /\ data[p].value = m[k]
    BY <1>2, <1>3, LeafEnd
  <2> QED BY <1>1, <1>3, <2>1 DEF get_internal
<1>4. CASE ~(data[p].k = "leaf" /\ data[p].key = k)
  <2>1. k \notin K
    BY <1>2, <1>4, KeyFound, Kinds
  <2> QED BY <1>1, <1>4, <2>1 DEF get_internal
<1> QED BY <1>3, <1>4

(* Hash returns the root of the map and fills slots coherently. *)
LEMMA HashEffect ==
  ASSUME NEW m, TrieOf(data, ref, m), Hash
  PROVE  /\ TrieOf(data', ref', m) /\ UNCHANGED data
         /\ ret' = [ret |-> "root", root |-> RootOf(m)]
<1>1. /\ Coherent(data, ref) /\ DOMAIN data \subseteq Position /\ Root \in DOMAIN data
      /\ data = Canonical(m) /\ DOMAIN ref = DOMAIN data
  <2>1. Coherent(data, ref) /\ Shape(data, Stored(m), m) /\ KeySet(Stored(m))
    BY DEF TrieOf
  <2>2. data = Canonical(m)
    BY <2>1, ShapeIsCanonical
  <2>3. Root \in Position
    BY DEF Root, Position
  <2>4. DOMAIN data \subseteq Position /\ Root \in DOMAIN data
    BY <2>1, <2>3 DEF Shape, Holds
  <2> QED BY <2>1, <2>2, <2>4 DEF Coherent
<1>2. \A p \in DOMAIN data : Encoded(p) = SubTrie(data, p)
  BY <1>1, EncodedIsSubTrie
<1>3. ret' = [ret |-> "root", root |-> RootOf(m)]
  BY <1>1, <1>2 DEF Hash, RootOf
<1>4. UNCHANGED data
  BY DEF Hash
<1>5. Coherent(data, ref')
  <2>1. CASE data[Root] = Null
    BY <1>1, <2>1 DEF Hash
  <2>2. CASE data[Root] # Null
    <3>1. PICK r : r = [p \in DOMAIN data |-> IF Visited(Root, p) THEN Some(Encoded(p)) ELSE ref[p]]
      OBVIOUS
    <3>2. ref' = r
      BY <2>2, <3>1 DEF Hash
    <3>3. Coherent(data, r)
      BY <1>1, <1>2, <3>1 DEF Coherent
    <3> QED BY <3>2, <3>3
  <2> QED BY <2>1, <2>2
<1> QED BY <1>3, <1>4, <1>5 DEF TrieOf

-----------------------------------------------------------------------------
(* The theorems *)

(* The empty trie is the trie of the empty map. *)
LEMMA InitHolds == Init => Inv /\ KV!Init
<1> SUFFICES ASSUME Init PROVE Inv /\ KV!Init
  OBVIOUS
<1>1. PICK m : m = [k \in Keys |-> Absent]
  OBVIOUS
<1>2. data = [p \in {Root} |-> Null] /\ ref = [p \in {Root} |-> None] /\ ret = [ret |-> "none"]
  BY DEF Init
<1>3. Stored(m) = {}
  BY <1>1 DEF Stored
<1>4. IsMap(m) /\ KeySet(Stored(m))
  BY <1>1, <1>3 DEF IsMap, KeySet
<1>5. \A x : Holds({}, x) <=> x = Root
  BY OnePosition
<1>6. NullOk({}, Root, data[Root])
  BY <1>2 DEF NullOk
<1>7. Shape(data, {}, m)
  BY <1>2, <1>5, <1>6 DEF Shape, NodeOk, IsFunction
<1>8. Coherent(data, ref)
  BY <1>2 DEF Coherent
<1>9. Content = m
  BY <1>3, <1>4, <1>7, ContentFromLeaves, ShapeContent
<1> QED BY <1>1, <1>2, <1>3, <1>4, <1>7, <1>8, <1>9 DEF Inv, TrieOf, KV!Init

(* Every call leaves the trie of the map that KvStore says it leaves. *)
LEMMA StepHolds ==
  ASSUME Inv, [Next]_vars
  PROVE  Inv' /\ [KV!Next]_KV!vars /\ SameCall
<1>1. PICK m : m = Content
  OBVIOUS
<1>2. TrieOf(data, ref, m) /\ IsMap(m) /\ KeySet(Stored(m))
  BY <1>1 DEF Inv, TrieOf
<1>3. ASSUME UNCHANGED <<data, ref>> PROVE Inv' /\ Content' = m
  <2>1. Content' = m
    BY <1>1, <1>3 DEF Content, LeavesOf
  <2> QED BY <1>2, <1>3, <2>1 DEF Inv
<1>4. ASSUME NEW k \in Keys
      PROVE  /\ k \in Position /\ KV!Present = Stored(m)
             /\ KV!Clashes(k) <=> Clash(Stored(m), k)
             /\ (\E l \in KV!Present : KV!ProperPrefix(k, l)) <=> Extends(Stored(m), k)
  BY <1>1, <1>2, ClashMeans, KeysAssumption DEF Position
<1>5. ASSUME NEW k \in Keys, NEW n, IsMap(n), KeySet(Stored(n)), Differ(m, n, k),
             NEW e, Write(k, e), Shape(e, Stored(n), n)
      PROVE  Inv' /\ Content' = n /\ ret' = [ret |-> "true"]
  <2>1. TrieOf(data', ref', n) /\ Content' = n
    BY <1>2, <1>5, WriteKeeps
  <2> QED BY <1>5, <2>1 DEF Inv, Write
<1>6. ASSUME NEW k \in Keys, Get(k)
      PROVE  Inv' /\ KV!Get(k)
  <2>1. Inv' /\ Content' = m
    BY <1>3, <1>6 DEF Get
  <2>2. ret' = IF k \in Stored(m) THEN [ret |-> "some", value |-> m[k]] ELSE [ret |-> "none"]
    BY <1>2, <1>6, GetEffect DEF Get
  <2> QED BY <1>1, <1>4, <2>1, <2>2 DEF KV!Get
<1>7. ASSUME NEW k \in Keys, NEW v \in Values, Insert(k, v)
      PROVE  Inv' /\ KV!Insert(k, v)
  <2>1. PICK n : n = [m EXCEPT ![k] = v]
    OBVIOUS
  <2>2. Replaced(m, n, k, v) /\ v # Absent
    BY <1>2, <2>1, StoredFacts, KeysAssumption
  <2>3. Inserted(m, k, v)
    BY <1>2, <1>7, InsertEffect
  <2>4. CASE Clash(Stored(m), k) /\ Fail("ValueInBranch")
    <3>1. Inv' /\ Content' = m /\ ret' = [ret |-> "ValueInBranch"]
      BY <1>3, <2>4 DEF Fail
    <3> QED BY <1>1, <1>4, <2>4, <3>1 DEF KV!Insert
  <2>5. CASE ~Clash(Stored(m), k) /\ m[k] = v /\ Fail("false")
    <3>1. Inv' /\ Content' = m /\ ret' = [ret |-> "false"]
      BY <1>3, <2>5 DEF Fail
    <3>2. n = m
      BY <1>2, <2>1, <2>5 DEF IsMap
    <3> QED BY <1>1, <1>4, <2>1, <2>5, <3>1, <3>2 DEF KV!Insert
  <2>6. CASE /\ ~Clash(Stored(m), k) /\ m[k] # v
             /\ \E e : Write(k, e) /\ Shape(e, Stored(n), n)
    <3>1. PICK e : Write(k, e) /\ Shape(e, Stored(n), n)
      BY <2>6
    <3>2. KeySet(Stored(n))
      BY <1>2, <1>4, <2>2, <2>6, KeySetGrows DEF Replaced
    <3>3. Inv' /\ Content' = n /\ ret' = [ret |-> "true"]
      BY <1>5, <2>2, <3>1, <3>2 DEF Replaced
    <3> QED BY <1>1, <1>4, <2>1, <2>6, <3>3 DEF KV!Insert
  <2> QED BY <2>1, <2>3, <2>4, <2>5, <2>6 DEF Inserted
<1>8. ASSUME NEW k \in Keys, Delete(k)
      PROVE  Inv' /\ KV!Delete(k)
  <2>1. PICK n : n = [m EXCEPT ![k] = Absent]
    OBVIOUS
  <2>2. Replaced(m, n, k, Absent)
    BY <1>2, <2>1, StoredFacts
  <2>3. Deleted(m, k)
    BY <1>2, <1>8, DeleteEffect
  <2>4. CASE Extends(Stored(m), k) /\ k \notin Stored(m) /\ Fail("ValueInBranch")
    <3>1. Inv' /\ Content' = m /\ ret' = [ret |-> "ValueInBranch"]
      BY <1>3, <2>4 DEF Fail
    <3> QED BY <1>1, <1>4, <2>4, <3>1 DEF KV!Delete
  <2>5. CASE k \notin Stored(m) /\ Fail("false")
    <3>1. Inv' /\ Content' = m /\ ret' = [ret |-> "false"]
      BY <1>3, <2>5 DEF Fail
    <3> QED BY <1>1, <1>4, <2>5, <3>1 DEF KV!Delete
  <2>6. CASE k \in Stored(m) /\ \E e : Write(k, e) /\ Shape(e, Stored(n), n)
    <3>1. PICK e : Write(k, e) /\ Shape(e, Stored(n), n)
      BY <2>6
    <3>2. KeySet(Stored(n))
      BY <1>2, <2>2 DEF Replaced, KeySet
    <3>3. Inv' /\ Content' = n /\ ret' = [ret |-> "true"]
      BY <1>5, <2>2, <3>1, <3>2 DEF Replaced
    <3> QED BY <1>1, <1>4, <2>1, <2>6, <3>3 DEF KV!Delete
  <2> QED BY <2>1, <2>3, <2>4, <2>5, <2>6 DEF Deleted
<1>9. ASSUME Hash
      PROVE  Inv' /\ KV!Hash
  <2>1. /\ TrieOf(data', ref', m) /\ UNCHANGED data
        /\ ret' = [ret |-> "root", root |-> RootOf(m)]
    BY <1>2, <1>9, HashEffect
  <2>2. Content' = m
    BY <1>1, <2>1 DEF Content, LeavesOf
  <2> QED BY <1>1, <2>1, <2>2 DEF Inv, KV!Hash
<1>10. SameCall
  BY <1>6, <1>7, <1>8, <1>9 DEF SameCall
<1>11. CASE UNCHANGED vars
  <2>1. Inv' /\ Content' = m
    BY <1>3, <1>11 DEF vars
  <2> QED BY <1>1, <1>10, <1>11, <2>1 DEF vars, KV!vars
<1> QED BY <1>6, <1>7, <1>8, <1>9, <1>10, <1>11 DEF Next, KV!Next

(* The inductive invariant: the nodes of the trie are those that its map   *)
(* calls for, and its cached references are those of the nodes.            *)
THEOREM TrieInvariant == Spec => []Inv
<1>1. Inv /\ [Next]_vars => Inv'
  BY StepHolds
<1> QED BY InitHolds, <1>1, PTL DEF Spec

(* What the invariant says in terms of the checked properties. *)
LEMMA InvImplies == Inv => TrieIsCanonical /\ CacheCoherence
<1> SUFFICES ASSUME Inv PROVE TrieIsCanonical /\ CacheCoherence
  OBVIOUS
<1>1. /\ KeySet(Stored(Content)) /\ Shape(data, Stored(Content), Content)
      /\ Coherent(data, ref)
  BY DEF Inv, TrieOf
<1>2. data = Canonical(Content)
  BY <1>1, ShapeIsCanonical
<1> QED BY <1>1, <1>2 DEF TrieIsCanonical, CacheCoherence, Coherent

(* Whatever was inserted and deleted in whatever order, the trie is the    *)
(* one trie of the map it holds, node for node: splits, overwrites and     *)
(* the fold after a deletion leave no trace of their order.                *)
THEOREM TrieStaysCanonical == Spec => []TrieIsCanonical
BY TrieInvariant, InvImplies, PTL

(* No write leaves a stale reference: a filled slot of cached_references   *)
(* is what encoding the node afresh would give.                            *)
THEOREM CacheStaysCoherent == Spec => []CacheCoherence
BY TrieInvariant, InvImplies, PTL

(* The trie implements KvStore: get, insert, delete and hash answer as the *)
(* map does, call by call; an insert fails just when its key clashes with  *)
(* a stored one, the root is a function of the map, and no call panics.    *)
THEOREM TrieImplementsMap == Spec => ImplementsKvStore
<1>1. Inv /\ [Next]_vars => [KV!Next]_KV!vars /\ [SameCall]_vars
  BY StepHolds
<1>2. Init => KV!Init
  BY InitHolds
<1> QED BY <1>1, <1>2, TrieInvariant, PTL DEF Spec, ImplementsKvStore, KV!Spec

-----------------------------------------------------------------------------
(* The abstract map *)

LEMMA MapInit == KV!Init => KV!TypeOK /\ KV!PrefixFree
BY DEF KV!Init, KV!TypeOK, KV!PrefixFree, KV!Present

(* Every step of the map keeps it a map of prefix-free keys. *)
LEMMA MapStep ==
  ASSUME KV!TypeOK, KV!PrefixFree, [KV!Next]_KV!vars
  PROVE  KV!TypeOK' /\ KV!PrefixFree'
<1>1. ASSUME UNCHANGED Content
      PROVE  KV!TypeOK' /\ KV!PrefixFree'
  BY <1>1 DEF KV!TypeOK, KV!PrefixFree, KV!Present
<1>2. ASSUME NEW k \in Keys, NEW v \in Values, KV!Insert(k, v)
      PROVE  KV!TypeOK' /\ KV!PrefixFree'
  <2>1. CASE KV!Clashes(k)
    BY <1>1, <1>2, <2>1 DEF KV!Insert
  <2>2. CASE ~KV!Clashes(k)
    <3>1. Content' = [Content EXCEPT ![k] = v]
      BY <1>2, <2>2 DEF KV!Insert
    <3>2. KV!Present' \subseteq KV!Present \cup {k}
      BY <3>1 DEF KV!Present, KV!TypeOK
    <3>3. ~KV!ProperPrefix(k, k)
      BY KeysAssumption DEF KV!ProperPrefix, Nibble
    <3>4. KV!PrefixFree'
      BY <2>2, <3>2, <3>3 DEF KV!PrefixFree, KV!Clashes
    <3> QED BY <3>1, <3>4 DEF KV!TypeOK
  <2> QED BY <2>1, <2>2
<1>3. ASSUME NEW k \in Keys, KV!Delete(k)
      PROVE  KV!TypeOK' /\ KV!PrefixFree'
  <2>1. CASE Content' = [Content EXCEPT ![k] = Absent]
    <3>1. KV!Present' \subseteq KV!Present
      BY <2>1 DEF KV!Present, KV!TypeOK
    <3> QED BY <2>1, <3>1 DEF KV!TypeOK, KV!PrefixFree
  <2> QED BY <1>1, <1>3, <2>1 DEF KV!Delete
<1>4. CASE \E k \in Keys : KV!Get(k)
  BY <1>1, <1>4 DEF KV!Get
<1>5. CASE KV!Hash
  BY <1>1, <1>5 DEF KV!Hash
<1> QED BY <1>1, <1>2, <1>3, <1>4, <1>5 DEF KV!Next, KV!vars

(* The map is a map from keys to values or to the marker.                  *)
THEOREM MapTypes == KV!Spec => []KV!TypeOK
<1>1. KV!TypeOK /\ KV!PrefixFree /\ [KV!Next]_KV!vars => KV!TypeOK' /\ KV!PrefixFree'
  BY MapStep
<1> QED BY MapInit, <1>1, PTL DEF KV!Spec

(* No stored key is a proper prefix of another, whatever was inserted and  *)
(* deleted in whatever order: no branch of the trie ever needs a value.    *)
THEOREM KeysStayPrefixFree == KV!Spec => []KV!PrefixFree
<1>1. KV!TypeOK /\ KV!PrefixFree /\ [KV!Next]_KV!vars => KV!TypeOK' /\ KV!PrefixFree'
  BY MapStep
<1> QED BY MapInit, <1>1, PTL DEF KV!Spec

==============================================================================
