------------------------------ MODULE ProofTrie ------------------------------
(***************************************************************************)
(* Tries that come from outside: from the nodes of RPC proofs              *)
(* (from_proof.rs), from a store of node payloads (resolver.rs), and from  *)
(* the byte stream in which the host sends them to the guest (encode_trie  *)
(* and decode_trie of trie.rs).  A node store is a function from digests;  *)
(* a proof is the sequence of the encodings of the nodes on a path.        *)
(***************************************************************************)
EXTENDS MptReference

EmptyStore == <<>>

-----------------------------------------------------------------------------
(* The node of an RLP item.  A reference that is a digest becomes the node *)
(* the store holds for it (resolve_internal), or stays a digest; with an   *)
(* empty store this is decode_from_proof_rlp_internal.                     *)
RECURSIVE FromRlp(_, _)
FromRef(ref, store) ==
  IF ref.k = "bytes" THEN FromRlp(ref.rlp, store)
  ELSE IF ref.digest \in DOMAIN store THEN FromRlp(store[ref.digest], store)
  ELSE add_node(DigestData(ref.digest))
FromRlp(rlp, store) ==
  CASE rlp.k = "null" -> NullNode
    [] rlp.k = "leaf" -> add_node(rlp)
    [] rlp.k = "ext" -> add_node(ExtensionData(rlp.path, FromRef(rlp.ref, store)))
    [] rlp.k = "branch" ->
         add_node(BranchData([i \in DOMAIN rlp.refs |-> FromRef(rlp.refs[i], store)]))

decode_from_proof_rlp(rlp) == FromRlp(rlp, EmptyStore)

(* Mutant: the payloads leave out what lies below an extension.            *)
payloads_above_extensions(node) ==
  {encode(WithChildReferences(n.data)) :
     n \in IF node.data.k = "ext" THEN {node} ELSE Subnodes(node)}

payloads(node) == {encode(WithChildReferences(n.data)) : n \in Subnodes(node)}

(* MptResolver::resolve over the store keccak(payload) -> payload. *)
resolve(root, rlps) ==
  FromRef(DigestRef(root), [d \in {Keccak(r) : r \in rlps} |-> d.keccak])

-----------------------------------------------------------------------------
(* from_proof.rs *)

parse_proof(proof) == [i \in DOMAIN proof |-> decode_from_proof_rlp(proof[i])]

(* The store after the insertion of nodes, each under its hash.            *)
Stored(nodes, store) ==
  [d \in {hash(n) : n \in nodes} |-> CHOOSE n \in nodes : hash(n) = d] @@ store

(* Mutant: what an extension points to is not looked up.                   *)
RECURSIVE resolve_nodes_above_extensions(_, _)
resolve_nodes_above_extensions(node, store) ==
  LET data == node.data
  IN  CASE data.k = "branch" ->
             add_node(BranchData([i \in DOMAIN data.children |->
                        resolve_nodes_above_extensions(data.children[i], store)]))
        [] data.k = "digest" /\ data.digest \in DOMAIN store ->
             resolve_nodes_above_extensions(store[data.digest], store)
        [] OTHER -> add_node(data)

RECURSIVE resolve_nodes(_, _)
resolve_nodes(node, store) ==
  LET data == node.data
  IN  CASE data.k = "branch" ->
             add_node(BranchData([i \in DOMAIN data.children |->
                                    resolve_nodes(data.children[i], store)]))
        [] data.k = "ext" ->
             add_node(ExtensionData(data.path, resolve_nodes(data.child, store)))
        [] data.k = "digest" /\ data.digest \in DOMAIN store ->
             resolve_nodes(store[data.digest], store)
        [] OTHER -> add_node(data)

mpt_from_proof(nodes) ==
  IF nodes = <<>> THEN NullNode
  ELSE resolve_nodes(nodes[1], Stored(ToSet(nodes), EmptyStore))

(* Mutant: the loop starts at 1 and stops before the empty path.           *)
shorten_node_path_partly(node) ==
  LET data == node.data
      nibs == prefix_to_nibs(data.path)
      Shortened(i) == to_encoded_path(Rest(nibs, i), data.k = "leaf")
  IN  IF data.k = "leaf"
      THEN {add_node(LeafData(Shortened(i), data.value)) : i \in 2..Len(nibs)}
      ELSE {}

(* The nodes whose path is a suffix of the path of a leaf or an extension. *)
shorten_node_path(node) ==
  LET data == node.data
      nibs == prefix_to_nibs(data.path)
      Shortened(i) == to_encoded_path(Rest(nibs, i), data.k = "leaf")
  IN  CASE data.k = "leaf" ->
             {add_node(LeafData(Shortened(i), data.value)) : i \in 0..Len(nibs)}
        [] data.k = "ext" ->
             {add_node(ExtensionData(Shortened(i), data.child)) : i \in 0..Len(nibs)}
        [] OTHER -> {}

(* "true", "false", or the error of get. *)
is_not_included(key, nodes) ==
  LET ret == get_internal(mpt_from_proof(nodes), key).ret
  IN  CASE ret = "none" -> "true" [] ret = "some" -> "false" [] OTHER -> ret

add_orphaned_leafs(key, proof, store) ==
  LET nodes == parse_proof(proof)
  IN  IF proof # <<>> /\ is_not_included(key, nodes) = "true"
      THEN Stored(shorten_node_path(Last(nodes)), store) ELSE store

(* The errors with which add_orphaned_leafs would end the conversion.      *)
OrphanErrors(fini) ==
  {is_not_included(p.key, parse_proof(p.proof)) : p \in {q \in fini : q.proof # <<>>}}
    \ {"true", "false"}

ZERO == [zero |-> 32]   \* B256::ZERO
node_from_digest(digest) ==
  IF digest \in {EMPTY_ROOT_HASH, ZERO} THEN NullNode ELSE add_node(DigestData(digest))

(* The trie of a set of parent proofs, given with their keys, and of the   *)
(* proofs after the block.  Which proof comes first does not matter: they  *)
(* share the root, and a store has one node for a digest.                  *)
TrieOfProofs(proofs, fini) ==
  LET nodes == UNION {ToSet(parse_proof(p.proof)) : p \in proofs}
      Orphans(store, p) == add_orphaned_leafs(p.key, p.proof, store)
      roots == {parse_proof(p.proof)[1] : p \in {q \in proofs : q.proof # <<>>}}
      root == IF roots = {} THEN NullNode ELSE CHOOSE r \in roots : TRUE
  IN  resolve_nodes(root, FoldLeft(Orphans, Stored(nodes, EmptyStore), SetToSeq(fini)))

build_storage_trie(proof, fini) ==
  IF proof.storage_proofs = {} THEN node_from_digest(proof.storage_root)
  ELSE TrieOfProofs(proof.storage_proofs, fini.storage_proofs)

(* The state trie and the storage tries of the accounts that have proofs,  *)
(* and the errors that a loop over them in some order may return.           *)
transition_proofs_to_tries(state_root, parent, fini) ==
  LET accounts == DOMAIN parent
      before == {[key |-> a, proof |-> parent[a].proof] : a \in accounts}
      after == {[key |-> a, proof |-> fini[a].proof] : a \in accounts}
  IN  [state_trie |-> IF accounts = {} THEN node_from_digest(state_root)
                      ELSE TrieOfProofs(before, after),
       storage_tries |-> [a \in accounts |-> build_storage_trie(parent[a], fini[a])],
       errors |-> UNION {OrphanErrors(fini[a].storage_proofs) :
                           a \in {b \in accounts : parent[b].storage_proofs # {}}}
                    \cup OrphanErrors(after)]

-----------------------------------------------------------------------------
(* encode_trie and decode_trie: the nodes in preorder, each with its RLP.  *)
(* A node is padded to a multiple of MIN_ALIGN bytes; the padding is not   *)
(* part of the node and both sides skip it.                                *)

Item(data) ==
  LET full == WithChildReferences(data)
      payload == payload_length(full)
  IN  [rlp |-> encode(full), len |-> payload + length_of_length(payload)]

encode_trie(node) ==
  LET nodes == Nodes(node) IN [i \in DOMAIN nodes |-> Item(nodes[i])]

(* The reference of an item, as its parent would hold it.                  *)
ItemRef(item) ==
  IF item.len < 32 THEN BytesRef(item.rlp, item.len)
  ELSE IF item.rlp.k = "digest" THEN item.rlp
  ELSE DigestRef(Keccak(item.rlp))

(* Mutant: the reference is taken from the parent without a look at the    *)
(* node.                                                                   *)
ref_matches_always(item, expected) == TRUE

ref_matches(item, expected) == ItemRef(item) = expected

(* The node that starts the items, the items after it, and "ok" or the     *)
(* error.  The children of a branch follow in the order of their nibbles.  *)
RECURSIVE decode_trie_internal(_, _)
decode_trie_internal(items, expected) ==
  LET Fail(err) == [node |-> NullNode, rest |-> items, ret |-> err]
      rlp == Head(items).rlp
      Node(data, rest) ==
        [node |-> [data |-> data, ref |-> Some(expected)], rest |-> rest, ret |-> "ok"]
      Child(acc, i) ==
        LET res == decode_trie_internal(acc.rest, rlp.refs[i])
        IN  IF acc.ret # "ok" THEN acc
            ELSE [res EXCEPT !.node = (i :> res.node) @@ acc.node]
  IN
  IF items = <<>> THEN Fail("RlpError")
  ELSE IF ~ref_matches(Head(items), expected) THEN Fail("NodeRefMismatch")
  ELSE CASE rlp.k = "null" -> [node |-> NullNode, rest |-> Tail(items), ret |-> "ok"]
         [] rlp.k = "digest" -> Node(DigestData(rlp.digest), Tail(items))
         [] rlp.k = "leaf" -> Node(rlp, Tail(items))
         [] rlp.k = "ext" ->
              LET res == decode_trie_internal(Tail(items), rlp.ref)
              IN  IF res.ret # "ok" THEN res
                  ELSE Node(ExtensionData(rlp.path, res.node), res.rest)
         [] rlp.k = "branch" ->
              LET kids == FoldLeft(Child, [node |-> <<>>, rest |-> Tail(items), ret |-> "ok"],
                                   SetToSortSeq(DOMAIN rlp.refs, <))
              IN  IF kids.ret # "ok" THEN Fail(kids.ret)
                  ELSE Node(BranchData(kids.node), kids.rest)

(* The root's reference is computed from its own bytes. *)
decode_trie(items) ==
  IF items = <<>> THEN [node |-> NullNode, ret |-> "RlpError"]
  ELSE LET res == decode_trie_internal(items, ItemRef(items[1]))
       IN  [node |-> res.node, ret |-> res.ret]

=============================================================================
