---------------------------- MODULE MptReference ----------------------------
(***************************************************************************)
(* What a trie should be: the map a node holds, and the one trie that a    *)
(* map has.  These definitions do not follow the code; the properties of   *)
(* EthState compare the code's tries with them.                            *)
(***************************************************************************)
EXTENDS Mpt

(* The map stored in a trie, read off its structure.                       *)
RECURSIVE Entries(_, _)
Entries(node, above) ==
  CASE node.data.k = "leaf" -> {<<above \o prefix_to_nibs(node.data.path), node.data.value>>}
    [] node.data.k = "ext" ->
         Entries(node.data.child, above \o prefix_to_nibs(node.data.path))
    [] node.data.k = "branch" ->
         UNION {Entries(node.data.children[i], Append(above, i)) :
                  i \in DOMAIN node.data.children}
    [] OTHER -> {}

(* The reference definition of the trie of a map m: nothing for no key, a  *)
(* leaf for one, an extension over a common prefix, a branch where keys    *)
(* part; every reference is computed afresh.                               *)
RECURSIVE Canonical(_, _)
Canonical(m, depth) ==
  LET ks == DOMAIN m
      one == CHOOSE k \in ks : TRUE
      shared == Min({lcp(one, k) : k \in ks})
  IN  CASE ks = {} -> NullNode
        [] Cardinality(ks) = 1 -> LeafNode(Rest(one, depth), m[one])
        [] Cardinality(ks) > 1 /\ shared > depth ->
             add_node(ExtensionData(
               to_encoded_path(SubSeq(one, depth + 1, shared), FALSE),
               Canonical(m, shared)))
        [] OTHER ->
             add_node(BranchData(
               [i \in {k[depth + 1] : k \in ks} |->
                  Canonical([k \in {l \in ks : l[depth + 1] = i} |-> m[k]], depth + 1)]))

(* A node and all nodes below it. *)
RECURSIVE Subnodes(_)
Subnodes(node) ==
  {node} \cup
  CASE node.data.k = "branch" ->
         UNION {Subnodes(node.data.children[i]) : i \in DOMAIN node.data.children}
    [] node.data.k = "ext" -> Subnodes(node.data.child)
    [] OTHER -> {}

=============================================================================
