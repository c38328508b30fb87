-------------------------------- MODULE Mpt ---------------------------------
(***************************************************************************)
(* The arena trie of crates/mpt/src/trie.rs.  A node is its data together  *)
(* with the slot of cached_references that belongs to it; the arena index  *)
(* of a child is abstracted by the child itself, since every node has one  *)
(* parent.  A digest is the (injective) keccak of an encoding, and an      *)
(* encoding keeps the structure that RLP serialises.                       *)
(***************************************************************************)
EXTENDS Hp, TLC, SequencesExt

CONSTANT ValueLength(_)     \* length in bytes of the RLP encoding of a value

-----------------------------------------------------------------------------
(* Nodes, references and digests *)

None == {}
Some(x) == {x}
The(opt) == CHOOSE x \in opt : TRUE

NullData == [k |-> "null"]
LeafData(path, value) == [k |-> "leaf", path |-> path, value |-> value]
ExtensionData(path, child) == [k |-> "ext", path |-> path, child |-> child]
BranchData(children) == [k |-> "branch", children |-> children]
DigestData(digest) == [k |-> "digest", digest |-> digest]

(* add_node pushes the data with an empty cache slot.                      *)
add_node(data) == [data |-> data, ref |-> None]
NullNode == add_node(NullData)

(* Mutant: the slot keeps the reference of the data that was there.        *)
invalidate_ref_cache_not(node, data) == [data |-> data, ref |-> node.ref]

(* A node whose data is overwritten in place loses its cached reference.   *)
invalidate_ref_cache(node, data) == [data |-> data, ref |-> None]

Keccak(enc) == [keccak |-> enc]
BytesRef(enc, len) == [k |-> "bytes", rlp |-> enc, len |-> len]
DigestRef(digest) == [k |-> "digest", digest |-> digest]

EMPTY_ROOT_HASH == Keccak(NullData)

-----------------------------------------------------------------------------
(* RLP lengths, encoding and references *)

(* RLP length of a byte string that is an encoded path (first byte < 128). *)
PathLength(path) == IF Len(path) = 1 THEN 1 ELSE 1 + Len(path)

length_of_length(n) == IF n < 56 THEN 1 ELSE IF n < 256 THEN 2 ELSE 3

RefLength(ref) == IF ref.k = "bytes" THEN ref.len ELSE 33

(* payload_length of a node whose children's references are known.         *)
payload_length(data) ==
  CASE data.k = "null" -> 0
    [] data.k = "branch" ->
         LET kids == DOMAIN data.children
         IN  1 + (16 - Cardinality(kids)) +
             MapThenSumSet(LAMBDA i : RefLength(The(data.children[i].ref)), kids)
    [] data.k = "leaf" -> PathLength(data.path) + ValueLength(data.value)
    [] data.k = "ext" -> PathLength(data.path) + RefLength(The(data.child.ref))
    [] data.k = "digest" -> 32

(* What a child slot of a branch holds in the encoding: the empty string   *)
(* for no child and for a child that is Null alike.                        *)
EncodedChildren(children) ==
  LET present == {i \in DOMAIN children : children[i].data.k # "null"}
  IN  [i \in present |-> The(children[i].ref)]

encode(data) ==
  CASE data.k = "null" -> NullData
    [] data.k = "branch" -> [k |-> "branch", refs |-> EncodedChildren(data.children)]
    [] data.k = "leaf" -> data
    [] data.k = "ext" -> [k |-> "ext", path |-> data.path, ref |-> The(data.child.ref)]
    [] data.k = "digest" -> DigestRef(data.digest)

calc_reference(data) ==
  CASE data.k = "null" -> BytesRef(NullData, 1)
    [] data.k = "digest" -> DigestRef(data.digest)
    [] OTHER ->
         LET payload == payload_length(data)
             len == payload + length_of_length(payload)
         IN  IF len < 32 THEN BytesRef(encode(data), len)
             ELSE DigestRef(Keccak(encode(data)))

(* reference_length and reference_encode fill a missing cache slot, and    *)
(* first those of the children; a slot that is full is used as it is.      *)
RECURSIVE WithReference(_)
WithChildReferences(data) ==
  CASE data.k = "branch" ->
         BranchData([i \in DOMAIN data.children |-> WithReference(data.children[i])])
    [] data.k = "ext" -> ExtensionData(data.path, WithReference(data.child))
    [] OTHER -> data
WithReference(node) ==
  IF node.ref # None THEN node
  ELSE LET data == WithChildReferences(node.data)
       IN  [data |-> data, ref |-> Some(calc_reference(data))]

RefHash(ref) == IF ref.k = "digest" THEN ref.digest ELSE Keccak(ref.rlp)

(* hash() of a root node, and the node with the caches that it leaves.     *)
hash(node) ==
  IF node.data.k = "null" THEN EMPTY_ROOT_HASH ELSE RefHash(The(WithReference(node).ref))
hash_caches(node) == IF node.data.k = "null" THEN node ELSE WithReference(node)

(* The nodes of a subtree, in the order of encode_trie_internal.           *)
RECURSIVE Nodes(_)
Nodes(node) ==
  LET data == node.data
  IN  <<data>> \o
      CASE data.k = "branch" ->
             FlattenSeq([n \in 1..16 |-> IF n - 1 \in DOMAIN data.children
                                         THEN Nodes(data.children[n - 1]) ELSE <<>>])
        [] data.k = "ext" -> Nodes(data.child)
        [] OTHER -> <<>>

-----------------------------------------------------------------------------
(* get, insert, delete.  A result is the node after the call and what the  *)
(* call returns: "true", "false", the name of an error, or "panic".        *)

Result(node, ret) == [node |-> node, ret |-> ret]

(* An early return: an error, or "false" for no change.                    *)
Unchanged(node, ret) == Result(node, ret)

Rest(key, n) == SubSeq(key, n + 1, Len(key))
Take(key, n) == SubSeq(key, 1, n)

LeafNode(nibs, value) == add_node(LeafData(to_encoded_path(nibs, TRUE), value))

(* Some(value), None or an error. *)
RECURSIVE get_internal(_, _)
get_internal(node, key) ==
  LET data == node.data
  IN  CASE data.k = "null" -> [ret |-> "none"]
        [] data.k = "branch" ->
             IF key = <<>> \/ key[1] \notin DOMAIN data.children THEN [ret |-> "none"]
             ELSE get_internal(data.children[key[1]], Tail(key))
        [] data.k = "leaf" ->
             IF encoded_path_eq_nibs(data.path, key)
             THEN [ret |-> "some", value |-> data.value] ELSE [ret |-> "none"]
        [] data.k = "ext" ->
             LET tail == encoded_path_strip_prefix(data.path, key)
             IN  IF tail = None THEN [ret |-> "none"]
                 ELSE get_internal(data.child, The(tail))
        [] data.k = "digest" -> [ret |-> "NodeNotResolved"]

(* The node that a leaf or extension becomes when a new key leaves its     *)
(* path after the first n nibbles: a branch, below an extension if n > 0.  *)
Fork(nibs, n, children) ==
  IF n = 0 THEN BranchData(children)
  ELSE ExtensionData(to_encoded_path(Take(nibs, n), FALSE), add_node(BranchData(children)))

RECURSIVE insert_internal(_, _, _)
insert_internal(node, key, value) ==
  LET data == node.data
      Fail(err) == Unchanged(node, err)
      Overwrite(d) == Result(invalidate_ref_cache(node, d), "true")
      (* the child's call, propagated: errors and "false" change nothing *)
      Through(res, d) == IF res.ret = "true" THEN Overwrite(d) ELSE Fail(res.ret)
  IN
  CASE data.k = "null" -> Overwrite(LeafData(to_encoded_path(key, TRUE), value))
    [] data.k = "branch" ->
         IF key = <<>> THEN Fail("ValueInBranch")
         ELSE IF key[1] \in DOMAIN data.children
         THEN LET res == insert_internal(data.children[key[1]], Tail(key), value)
              IN  Through(res, BranchData([data.children EXCEPT ![key[1]] = res.node]))
         ELSE Overwrite(BranchData((key[1] :> LeafNode(Tail(key), value)) @@ data.children))
    [] data.k = "leaf" ->
         LET nibs == prefix_to_nibs(data.path)
             n == lcp(nibs, key)
         IN  IF n = Len(nibs) /\ n = Len(key)
             THEN IF data.value = value THEN Fail("false")
                  ELSE Overwrite(LeafData(data.path, value))
             ELSE IF n = Len(nibs) \/ n = Len(key) THEN Fail("ValueInBranch")
             ELSE Overwrite(Fork(nibs, n,
                    nibs[n + 1] :> LeafNode(Rest(nibs, n + 1), data.value) @@
                    key[n + 1] :> LeafNode(Rest(key, n + 1), value)))
    [] data.k = "ext" ->
         LET nibs == prefix_to_nibs(data.path)
             n == lcp(nibs, key)
             below == IF n + 1 < Len(nibs)
                      THEN add_node(ExtensionData(
                             to_encoded_path(Rest(nibs, n + 1), FALSE), data.child))
                      ELSE data.child
         IN  IF n = Len(nibs)
             THEN LET res == insert_internal(data.child, Rest(key, n), value)
                  IN  Through(res, ExtensionData(data.path, res.node))
             ELSE IF n = Len(key) THEN Fail("ValueInBranch")
             ELSE Overwrite(Fork(nibs, n,
                    nibs[n + 1] :> below @@ key[n + 1] :> LeafNode(Rest(key, n + 1), value)))
    [] data.k = "digest" -> Fail("NodeNotResolved")

(* Mutant: an extension is put above an extension.                         *)
Absorb_stacking(nibs, child) ==
  IF child.data.k = "leaf"
  THEN LeafData(to_encoded_path(nibs \o prefix_to_nibs(child.data.path), TRUE),
                child.data.value)
  ELSE ExtensionData(to_encoded_path(nibs, FALSE), child)

(* A node that absorbs the path above it: a leaf or an extension gets a    *)
(* longer path, a branch or a digest an extension of its own.              *)
Absorb(nibs, child) ==
  LET joined == nibs \o prefix_to_nibs(child.data.path)
  IN  CASE child.data.k = "leaf" ->
             LeafData(to_encoded_path(joined, TRUE), child.data.value)
        [] child.data.k = "ext" ->
             ExtensionData(to_encoded_path(joined, FALSE), child.data.child)
        [] OTHER -> ExtensionData(to_encoded_path(nibs, FALSE), child)

(* A branch after a deletion below it: with one child left it is folded    *)
(* into that child; no child left, or a Null one, is a panic.              *)
FoldBranch(node, children) ==
  LET left == DOMAIN children
      i == Min(left)
  IN  IF left = {} THEN Result(node, "panic")
      ELSE IF Cardinality(left) > 1
      THEN Result(invalidate_ref_cache(node, BranchData(children)), "true")
      ELSE IF children[i].data.k = "null" THEN Result(node, "panic")
      ELSE Result(invalidate_ref_cache(node, Absorb(<<i>>, children[i])), "true")

RECURSIVE delete_internal(_, _)
delete_internal(node, key) ==
  LET data == node.data
      Fail(err) == Unchanged(node, err)
      Overwrite(d) == Result(invalidate_ref_cache(node, d), "true")
  IN
  CASE data.k = "null" -> Fail("false")
    [] data.k = "branch" ->
         IF key = <<>> THEN Fail("ValueInBranch")
         ELSE IF key[1] \notin DOMAIN data.children THEN Fail("false")
         ELSE LET i == key[1]
                  res == delete_internal(data.children[i], Tail(key))
                  kept == IF res.node.data.k = "null" THEN DOMAIN data.children \ {i}
                          ELSE DOMAIN data.children
              IN  IF res.ret # "true" THEN Fail(res.ret)
                  ELSE FoldBranch(node,
                         [j \in kept |-> IF j = i THEN res.node ELSE data.children[j]])
    [] data.k = "leaf" ->
         IF prefix_to_nibs(data.path) # key THEN Fail("false")
         ELSE Overwrite(NullData)
    [] data.k = "ext" ->
         LET nibs == prefix_to_nibs(data.path)
             res == delete_internal(data.child, Rest(key, Len(nibs)))
         IN  IF ~IsPrefix(nibs, key) THEN Fail("false")
             ELSE IF res.ret # "true" THEN Fail(res.ret)
             ELSE IF res.node.data.k = "null" THEN Overwrite(NullData)
             ELSE Overwrite(Absorb(nibs, res.node))
    [] data.k = "digest" -> Fail("NodeNotResolved")

=============================================================================
