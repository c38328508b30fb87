------------------------------ MODULE FlatTrie ------------------------------
(***************************************************************************)
(* The trie of trie.rs seen from above: a node is known by its position,   *)
(* the nibbles that lead to it from the root.  The recursion of            *)
(* get_internal, insert_internal and delete_internal visits the nodes      *)
(* whose position is a prefix of the key, and what it rewrites lies around *)
(* the last of them; a path that splits or absorbs another leaves the      *)
(* nodes below where they are.  So every call is one step without          *)
(* recursion.  MptStore, which follows the code node by node, implements   *)
(* this specification, and this one implements KvStore.                    *)
(***************************************************************************)
EXTENDS Hp

CONSTANTS Keys,         \* nibble sequences
          Values,
          Absent        \* the marker for "no value"

ASSUME KeysAssumption == Keys \subseteq Seq(Nibble) /\ Absent \notin Values

VARIABLES data,         \* data[p]: the node at position p
          ref,          \* ref[p]: its slot of cached_references
          ret           \* what the last call returned

vars == <<data, ref, ret>>

-----------------------------------------------------------------------------
(* Positions *)

Root == <<>>
Prefix(p, q) == Len(p) <= Len(q) /\ SubSeq(q, 1, Len(p)) = p
Down(p, i) == Append(p, i)
Step(p, k) == k[Len(p) + 1]
Up(p) == SubSeq(p, 1, Len(p) - 1)
Meet(a, b) == SubSeq(a, 1, lcp(a, b))

(* Nodes.  The path of a leaf or an extension is what its key or its       *)
(* child's position has beyond the node's own.                             *)
Null == [k |-> "null"]
Leaf(k, v) == [k |-> "leaf", key |-> k, value |-> v]
Extension(q) == [k |-> "ext", child |-> q]
Branch(kids) == [k |-> "branch", kids |-> kids]

Put(d, p, x) == [q \in DOMAIN d \cup {p} |-> IF q = p THEN x ELSE d[q]]
Drop(d, P) == [q \in DOMAIN d \ P |-> d[q]]

-----------------------------------------------------------------------------
(* References.  The reference of a node stands for all that its encoding   *)
(* hangs on: the nodes at and below it.                                    *)

None == {}
Some(x) == {x}

SubTrie(d, p) == {<<q, d[q]>> : q \in {x \in DOMAIN d : Prefix(p, x)}}

(* No cached reference hides q from an encoder that comes from p.          *)
Visited(p, q) == \A a \in DOMAIN data : Prefix(p, a) /\ Prefix(a, q) => ref[a] = None
Hides(p, c) == /\ ref[c] # None
               /\ \A a \in DOMAIN data : Prefix(p, a) /\ Prefix(a, c) /\ a # c =>
                                           ref[a] = None

(* What reference_encode computes for p: the nodes it visits, and what the *)
(* cached references stand for where it stops.                             *)
Encoded(p) ==
  LET below == {q \in DOMAIN data : Prefix(p, q)}
  IN  {<<q, data[q]>> : q \in {x \in below : Visited(p, x)}}
        \cup UNION {UNION ref[c] : c \in {x \in below : Hides(p, x)}}

-----------------------------------------------------------------------------
(* The calls *)

Init == /\ data = [p \in {Root} |-> Null]
        /\ ref = [p \in {Root} |-> None]
        /\ ret = [ret |-> "none"]

Walk(k) == {p \in DOMAIN data : Prefix(p, k)}
Last(k) == CHOOSE p \in Walk(k) : \A q \in Walk(k) : Prefix(q, p)

Fail(err) == /\ ret' = [ret |-> err]
             /\ UNCHANGED <<data, ref>>

(* Mutant: an overwritten node keeps the reference of its old data.        *)
Write_keeping_ref(k, d) ==
  /\ data' = d
  /\ ref' = [p \in DOMAIN d |-> IF p \in DOMAIN data /\ p # Last(k) THEN ref[p] ELSE None]
  /\ ret' = [ret |-> "true"]

(* A change below a node empties its cache slot on the way back up.        *)
Write(k, d) ==
  /\ data' = d
  /\ ref' = [p \in DOMAIN d |-> IF p \in DOMAIN data \ Walk(k) THEN ref[p] ELSE None]
  /\ ret' = [ret |-> "true"]

(* Mutant: the rest of the path is not compared.                           *)
get_internal_any_leaf(k) ==
  LET d == data[Last(k)]
  IN  IF d.k = "leaf" THEN [ret |-> "some", value |-> d.value] ELSE [ret |-> "none"]

get_internal(k) ==
  LET d == data[Last(k)]
  IN  IF d.k = "leaf" /\ d.key = k THEN [ret |-> "some", value |-> d.value]
      ELSE [ret |-> "none"]

Get(k) == /\ ret' = get_internal(k)
          /\ UNCHANGED <<data, ref>>

(* The node at p parts at q: it becomes a branch, below an extension       *)
(* unless q is p.                                                          *)
Fork(p, q, kids) ==
  IF q = p THEN Put(data, p, Branch(kids))
  ELSE Put(Put(data, p, Extension(q)), q, Branch(kids))

InsertInBranch(p, k, v) ==
  LET i == Step(p, k)
  IN  Put(Put(data, p, Branch(data[p].kids \cup {i})), Down(p, i), Leaf(k, v))

SplitLeaf(p, l, k, v) ==
  LET q == Meet(l, k)
      forked == Fork(p, q, {Step(q, l), Step(q, k)})
  IN  Put(Put(forked, Down(q, Step(q, l)), Leaf(l, data[p].value)),
          Down(q, Step(q, k)), Leaf(k, v))

SplitExtension(p, c, k, v) ==
  LET q == Meet(c, k)
      below == Down(q, Step(q, c))
      forked == Fork(p, q, {Step(q, c), Step(q, k)})
  IN  Put(IF below = c THEN forked ELSE Put(forked, below, Extension(c)),
          Down(q, Step(q, k)), Leaf(k, v))

Insert(k, v) ==
  LET p == Last(k)
      d == data[p]
  IN
  CASE d.k = "null" -> Write(k, Put(data, p, Leaf(k, v)))
    [] d.k = "branch" -> IF p = k THEN Fail("ValueInBranch")
                         ELSE Write(k, InsertInBranch(p, k, v))
    [] d.k = "leaf" -> IF d.key = k
                       THEN IF d.value = v THEN Fail("false")
                            ELSE Write(k, Put(data, p, Leaf(k, v)))
                       ELSE IF Meet(d.key, k) \in {d.key, k} THEN Fail("ValueInBranch")
                       ELSE Write(k, SplitLeaf(p, d.key, k, v))
    [] d.k = "ext" -> IF Meet(d.child, k) = k THEN Fail("ValueInBranch")
                      ELSE Write(k, SplitExtension(p, d.child, k, v))

(* The branch at b with the one child s left: a leaf or an extension       *)
(* absorbs the path above it, a branch hangs below an extension; and an    *)
(* extension above b joins in.                                             *)
FoldBranch(p, b, s) ==
  LET one == IF data[s].k = "branch" THEN Extension(s) ELSE data[s]
      gone == IF data[s].k = "branch" THEN {p} ELSE {p, s}
      above == {e \in DOMAIN data : data[e] = Extension(b)}
  IN  IF above = {} THEN Put(Drop(data, gone), b, one)
      ELSE Put(Drop(data, gone \cup {b}), CHOOSE e \in above : TRUE, one)

(* Mutant: a branch with one child left stays.                             *)
RemoveLeaf_no_fold(p) ==
  LET b == Up(p)
      left == data[b].kids \ {Step(b, p)}
  IN  IF p = Root THEN Put(data, p, Null)
      ELSE Put(Drop(data, {p}), b, Branch(left))

RemoveLeaf(p) ==
  LET b == Up(p)
      left == data[b].kids \ {Step(b, p)}
      only == CHOOSE i \in left : TRUE
  IN  IF p = Root THEN Put(data, p, Null)
      ELSE IF left = {only} THEN FoldBranch(p, b, Down(b, only))
      ELSE Put(Drop(data, {p}), b, Branch(left))

Delete(k) ==
  LET p == Last(k)
      d == data[p]
  IN  IF d.k = "branch" /\ p = k THEN Fail("ValueInBranch")
      ELSE IF ~(d.k = "leaf" /\ d.key = k) THEN Fail("false")
      ELSE IF p # Root /\ data[Up(p)].kids = {Step(Up(p), p)} THEN Fail("panic")
      ELSE Write(k, RemoveLeaf(p))

(* hash fills the empty slots it comes by; an empty trie has a constant    *)
(* root.                                                                   *)
Hash ==
  /\ ret' = [ret |-> "root", root |-> Encoded(Root)]
  /\ ref' = IF data[Root] = Null THEN ref
            ELSE [p \in DOMAIN data |->
                    IF Visited(Root, p) THEN Some(Encoded(p)) ELSE ref[p]]
  /\ UNCHANGED data

Next == \/ \E k \in Keys : Get(k) \/ Delete(k)
        \/ \E k \in Keys, v \in Values : Insert(k, v)
        \/ Hash

Spec == Init /\ [][Next]_vars

-----------------------------------------------------------------------------
(* What a trie should be: the map it holds, and the one trie of a map.     *)
(* These definitions do not follow the code.                               *)

LeavesOf(k) == {p \in DOMAIN data : data[p].k = "leaf" /\ data[p].key = k}
Content == [k \in Keys |-> IF LeavesOf(k) = {} THEN Absent
                           ELSE data[CHOOSE p \in LeavesOf(k) : TRUE].value]

Stored(m) == {k \in DOMAIN m : m[k] # Absent}
Under(K, p) == {k \in K : Prefix(p, k)}
Prefixes(K) == UNION {{SubSeq(k, 1, n) : n \in 0..Len(k)} : k \in K}

(* Two keys part at p. *)
IsFork(K, p) ==
  \E k, l \in Under(K, p) : p # k /\ p # l /\ Step(p, k) # Step(p, l)
Forks(K) == {p \in Prefixes(K) : IsFork(K, p)}

(* The root, the forks, and the slots of the forks that keys go through.   *)
Positions(K) ==
  {Root} \cup Forks(K) \cup {p \in Prefixes(K) : p # Root /\ Up(p) \in Forks(K)}

NodeAt(m, p) ==
  LET K == Stored(m)
      under == Under(K, p)
      k == CHOOSE l \in under : TRUE
  IN  IF under = {} THEN Null
      ELSE IF under = {k} THEN Leaf(k, m[k])
      ELSE IF IsFork(K, p) THEN Branch({Step(p, l) : l \in under})
      ELSE Extension(CHOOSE q \in Forks(K) : under = Under(K, q) /\ Prefix(p, q))

Canonical(m) == [p \in Positions(Stored(m)) |-> NodeAt(m, p)]
RootOf(m) == SubTrie(Canonical(m), Root)

KV == INSTANCE KvStore WITH content <- Content

-----------------------------------------------------------------------------
(* The trie is the one trie of its map, node for node: it does not         *)
(* remember the order of insertions, and a deletion leaves what a rebuild  *)
(* would give (test_keccak_trie samples this).                             *)
TrieIsCanonical == data = Canonical(Content)

(* A cached reference is the one that recomputing it would give: a write   *)
(* has emptied every slot whose subtree it changed.                        *)
CacheCoherence ==
  \A p \in DOMAIN ref : ref[p] # None => ref[p] = Some(SubTrie(data, p))

(* A call of the trie is the same call of the map, with the same answer. *)
SameCall ==
  /\ \A k \in Keys : /\ Get(k) => KV!Get(k)
                     /\ Delete(k) => KV!Delete(k)
                     /\ \A v \in Values : Insert(k, v) => KV!Insert(k, v)
  /\ Hash => KV!Hash

(* The trie implements the abstract map, call by call.                     *)
ImplementsKvStore == KV!Spec /\ [][SameCall]_vars

=============================================================================
