------------------------------ MODULE Frontier ------------------------------
(***************************************************************************)
(* State chunks (trie.rs): build_frontier_weighted cuts a trie into a      *)
(* frontier of digests and the subtrees that hold the keys about to        *)
(* change; update_from_bundle_state (client/src/io.rs) updates the chunks  *)
(* one by one and puts each new root into the frontier with                *)
(* replace_frontier_slot.                                                  *)
(***************************************************************************)
EXTENDS Mpt

CONSTANTS Keys,         \* nibble sequences of one length
          Parents,      \* the maps a trie may start from
          Changes,      \* [set of keys -> value or Absent]
          Limits,       \* [max_nodes, max_bytes, max_keys]
          Weight,       \* update weight of a key: 1 + its storage slots
          Absent

VARIABLES trie,         \* the full trie, host side
          change,       \* what the block changes
          frontier,     \* the digest frontier
          chunks,       \* chunks not consumed yet
          todo,         \* changed keys from bundle_cursor on, in order
          folded,       \* history: an update left a shape its parent must fold
          status        \* "parent", "update", "done", or the error

vars == <<trie, change, frontier, chunks, todo, folded, status>>

-----------------------------------------------------------------------------
LexLess(a, b) == LET n == lcp(a, b)
                 IN  n < Len(b) /\ (n = Len(a) \/ a[n + 1] < b[n + 1])

subtree_hash(node) ==
  IF node.data.k = "null" THEN EMPTY_ROOT_HASH
  ELSE RefHash(calc_reference(WithChildReferences(node.data)))

(* Mutant: a subtree is cut out although its parent holds it inline.       *)
root_is_hash_addressed_always(node) == TRUE

root_is_hash_addressed(node) == calc_reference(WithChildReferences(node.data)).k = "digest"

subtree_num_nodes(node) == Len(Nodes(node))

(* encoded_subtrie pads every node to MIN_ALIGN bytes.                     *)
MIN_ALIGN == 4
encoded_subtrie_len(node) ==
  LET Padded(data) == LET payload == payload_length(WithChildReferences(data))
                          rlp == payload + length_of_length(payload)
                      IN  rlp + ((MIN_ALIGN - (rlp % MIN_ALIGN)) % MIN_ALIGN)
  IN  FoldLeft(LAMBDA sum, data : sum + Padded(data), 0, Nodes(node))

over_limit(node, keys, limits) ==
  \/ subtree_num_nodes(node) > limits.max_nodes
  \/ encoded_subtrie_len(node) > limits.max_bytes
  \/ MapThenSumSet(LAMBDA k : Weight[k], keys) > limits.max_keys

(* The boundaries of the subtrees that hold keys: a prefix, and the node   *)
(* there or None for an empty slot of a branch.  A node that is over the   *)
(* limits is cut into those of its children that hold keys, unless one of  *)
(* these is an inline reference.                                           *)
Boundary(prefix, slot) == <<[prefix |-> prefix, slot |-> slot]>>

(* Mutant: an empty slot gets no boundary.                                 *)
EmptySlot_skipped(prefix) == <<>>

(* An empty slot of a branch that keys will fill. *)
EmptySlot(prefix) == Boundary(prefix, None)

RECURSIVE collect_frontier_boundaries(_, _, _, _)
collect_frontier_boundaries(node, prefix, keys, limits) ==
  LET data == node.data
      At(i) == {k \in keys : k[Len(prefix) + 1] = i}
      Slot(i) ==
        IF At(i) = {} THEN <<>>
        ELSE IF i \notin DOMAIN data.children THEN EmptySlot(Append(prefix, i))
        ELSE collect_frontier_boundaries(data.children[i], Append(prefix, i), At(i), limits)
      parts ==
        CASE data.k = "branch" -> FlattenSeq([n \in 1..16 |-> Slot(n - 1)])
          [] data.k = "ext" ->
               collect_frontier_boundaries(data.child, prefix \o prefix_to_nibs(data.path),
                                           keys, limits)
          [] OTHER -> <<>>
      replaceable == \A b \in ToSet(parts) : \A slot \in b.slot : root_is_hash_addressed(slot)
  IN  IF over_limit(node, keys, limits) /\ parts # <<>> /\ replaceable
      THEN parts ELSE Boundary(prefix, Some(node))

(* A slot holds a digest, an empty branch slot or Null; every node above   *)
(* it loses its cached reference.                                          *)
RECURSIVE replace_frontier_slot(_, _, _, _)
replace_frontier_slot(node, prefix, expected_root, new_root) ==
  LET data == node.data
      Fail(err) == Result(node, err)
      Through(res, d) == IF res.ret = "ok" THEN Result(invalidate_ref_cache(node, d), "ok")
                         ELSE Fail(res.ret)
      digest == add_node(DigestData(new_root))
  IN
  IF prefix = <<>>
  THEN IF subtree_hash(node) # expected_root THEN Fail("NodeRefMismatch")
       ELSE Result(IF new_root = EMPTY_ROOT_HASH THEN NullNode ELSE digest, "ok")
  ELSE CASE data.k = "branch" ->
              LET i == Head(prefix)
              IN  IF i \in DOMAIN data.children
                  THEN LET res == replace_frontier_slot(data.children[i], Tail(prefix),
                                                        expected_root, new_root)
                       IN  Through(res, BranchData([data.children EXCEPT ![i] = res.node]))
                  ELSE IF Len(prefix) > 1 THEN Fail("InvalidFrontierPrefix")
                  ELSE IF expected_root # EMPTY_ROOT_HASH THEN Fail("NodeRefMismatch")
                  ELSE Result(invalidate_ref_cache(node, BranchData(
                                IF new_root = EMPTY_ROOT_HASH THEN data.children
                                ELSE (i :> digest) @@ data.children)), "ok")
         [] data.k = "ext" ->
              LET path == prefix_to_nibs(data.path)
                  res == replace_frontier_slot(data.child, Rest(prefix, Len(path)),
                                               expected_root, new_root)
              IN  IF ~IsPrefix(path, prefix) THEN Fail("InvalidFrontierPrefix")
                  ELSE Through(res, ExtensionData(data.path, res.node))
         [] OTHER -> Fail("InvalidFrontierPrefix")

(* Mutant: the boundaries are taken off the end.                           *)
boundaries_popped(root, keys, limits) ==
  IF keys = {} THEN <<>>
  ELSE Reverse(collect_frontier_boundaries(root, <<>>, keys, limits))

boundaries(root, keys, limits) ==
  IF keys = {} THEN <<>>
  ELSE SortSeq(collect_frontier_boundaries(root, <<>>, keys, limits),
               LAMBDA a, b : LexLess(a.prefix, b.prefix))

(* build_frontier_weighted: the frontier and the chunks, or an error.      *)
build_frontier_weighted(root, keys, limits) ==
  LET Cut(acc, b) ==
        LET node == IF b.slot = None THEN NullNode ELSE The(b.slot)
            expected == subtree_hash(node)
            res == replace_frontier_slot(acc.frontier, b.prefix, expected, expected)
        IN  IF acc.ret # "ok" THEN acc
            ELSE IF b.slot # None /\ b.prefix # <<>> /\ ~root_is_hash_addressed(node)
            THEN [acc EXCEPT !.ret = "InlineFrontierChunk"]
            ELSE [frontier |-> res.node, ret |-> res.ret,
                  chunks |-> Append(acc.chunks, [prefix |-> b.prefix, node |-> node,
                                                 expected_root |-> expected])]
  IN  FoldLeft(Cut, [frontier |-> root, ret |-> "ok", chunks |-> <<>>],
               boundaries(root, keys, limits))

-----------------------------------------------------------------------------
(* One update: insert the new value, or delete the key.                    *)
Apply(node, key, value) ==
  IF value = Absent THEN delete_internal(node, key).node
  ELSE insert_internal(node, key, value).node
ApplyAll(node, keys, depth, changes) ==
  FoldLeft(LAMBDA n, k : Apply(n, Rest(k, depth), changes[k]), node, keys)
Sorted(keys) == SetToSortSeq(keys, LexLess)

Init == \E map \in Parents :
  /\ trie = ApplyAll(NullNode, Sorted(DOMAIN map), 0, map)
  /\ change = <<>>
  /\ frontier = NullNode
  /\ chunks = <<>>
  /\ todo = <<>>
  /\ folded = FALSE
  /\ status = "parent"

(* The host cuts the trie; the guest decodes the frontier, which fills its *)
(* cached references.                                                      *)
build_frontier(c, limits) ==
  LET built == build_frontier_weighted(trie, DOMAIN c, limits)
  IN  /\ status = "parent"
      /\ change' = c
      /\ frontier' = hash_caches(built.frontier)
      /\ chunks' = built.chunks
      /\ todo' = Sorted(DOMAIN c)
      /\ status' = IF built.ret = "ok" THEN "update" ELSE "build failed"
      /\ UNCHANGED <<trie, folded>>

(* A chunk that is emptied, or that stops being a branch (which may hang   *)
(* below an extension), calls for a fold of the node above it.             *)
Folds(old, new) == old # "null" /\ (new = "null" \/ (old = "branch" /\ new # "branch"))

(* One turn of the loop over the chunks.                                   *)
update_chunk ==
  LET chunk == Head(chunks)
      depth == Len(chunk.prefix)
      taken == Max({n \in 0..Len(todo) : \A i \in 1..n : IsPrefix(chunk.prefix, todo[i])})
      new == ApplyAll(hash_caches(chunk.node), SubSeq(todo, 1, taken), depth, change)
      res == replace_frontier_slot(frontier, chunk.prefix, chunk.expected_root, hash(new))
      error == IF taken = 0 THEN "NoBundleAccounts"
               ELSE IF /\ depth > 0 /\ hash(new) # EMPTY_ROOT_HASH
                       /\ ~root_is_hash_addressed(new) THEN "InlineFrontierChunk"
               ELSE res.ret
  IN
  /\ status = "update"
  /\ chunks # <<>>
  /\ IF error # "ok"
     THEN /\ status' = error
          /\ UNCHANGED <<trie, change, frontier, chunks, todo, folded>>
     ELSE /\ frontier' = res.node
          /\ chunks' = Tail(chunks)
          /\ todo' = Rest(todo, taken)
          /\ folded' = (folded \/ (depth > 0 /\ Folds(chunk.node.data.k, new.data.k)))
          /\ UNCHANGED <<trie, change, status>>

finish_update ==
  /\ status = "update"
  /\ chunks = <<>>
  /\ status' = IF todo # <<>> THEN "BundleAccountsLeft" ELSE "done"
  /\ UNCHANGED <<trie, change, frontier, chunks, todo, folded>>

Next == \/ \E c \in Changes, limits \in Limits : build_frontier(c, limits)
        \/ update_chunk
        \/ finish_update

Spec == Init /\ [][Next]_vars

-----------------------------------------------------------------------------
(* Cutting never fails and never changes the root, and every slot is found *)
(* again: whatever is cut out is hash-addressed and sits at a slot of the  *)
(* frontier (the debug_assert of build_frontier_weighted, and the check of *)
(* write_ceno_client_input).                                               *)
CutKeepsRoot ==
  /\ status = "update" /\ todo = Sorted(DOMAIN change) => hash(frontier) = hash(trie)
  /\ status \notin {"build failed", "NodeRefMismatch", "InvalidFrontierPrefix"}

(* Chunks are disjoint and in key order: no prefix extends another one, so *)
(* no update of a chunk touches an account of another.                     *)
ChunksAreDisjoint ==
  \A i, j \in DOMAIN chunks : i < j =>
    /\ ~IsPrefix(chunks[i].prefix, chunks[j].prefix)
    /\ LexLess(chunks[i].prefix, chunks[j].prefix)

Updated == hash(ApplyAll(trie, Sorted(DOMAIN change), 0, change))

(* Updating the chunks one by one gives the root of updating the whole     *)
(* trie, unless a chunk lost the shape that the node above it relies on.   *)
ChunkwiseUpdateIsUpdate ==
  status = "done" /\ ~folded => hash(frontier) = Updated

(* Where the branches of a trie are. *)
RECURSIVE BranchPrefixes(_, _)
BranchPrefixes(node, above) ==
  LET data == node.data
  IN  CASE data.k = "branch" ->
             {above} \cup UNION {BranchPrefixes(data.children[i], Append(above, i)) :
                                   i \in DOMAIN data.children}
        [] data.k = "ext" -> BranchPrefixes(data.child, above \o prefix_to_nibs(data.path))
        [] OTHER -> {}

HasChunk(k) == \E c \in ToSet(chunks) : IsPrefix(c.prefix, k)

(* "Builds a digest frontier around the subtrees containing `keys`"        *)
(* (trie.rs, build_frontier): a changed key is in no chunk only if it is   *)
(* new and leaves the path of an extension that was cut below its path, so *)
(* that no chunk holds the place where the key would fork it; and only     *)
(* then is the guest left with accounts that belong to no chunk.           *)
ForksAnExtension(k) ==
  \E c \in ToSet(chunks) : /\ ~IsPrefix(k, c.prefix)
                           /\ Take(k, lcp(c.prefix, k)) \notin BranchPrefixes(trie, <<>>)
OnlyForkingKeysMissAChunk ==
  /\ status = "update" /\ todo = Sorted(DOMAIN change) =>
       \A k \in DOMAIN change : HasChunk(k) \/ ForksAnExtension(k)
  /\ status \in {"BundleAccountsLeft", "NoBundleAccounts"} =>
       \E k \in DOMAIN change : get_internal(trie, k).ret = "none"

(* What test_frontier_chunks_match_full_trie_updates asserts, a deletion   *)
(* among the changes: the frontier ends with the root of the updated trie. *)
FrontierMatchesFullTrie == status = "done" => hash(frontier) = Updated

=============================================================================
