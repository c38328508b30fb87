------------------------------ MODULE MptStore ------------------------------
(***************************************************************************)
(* The public operations of Mpt (trie.rs) on a trie that starts empty,     *)
(* called in any order: get, insert, delete and hash.                      *)
(***************************************************************************)
EXTENDS Mpt

CONSTANTS Keys, Values, Absent

VARIABLES trie,     \* the root node
          ret       \* what the last call returned

vars == <<trie, ret>>

Init == /\ trie = NullNode
        /\ ret = [ret |-> "none"]

Get(key) == /\ ret' = get_internal(trie, key)
            /\ UNCHANGED trie

Insert(key, value) ==
  LET res == insert_internal(trie, key, value)
  IN  /\ trie' = res.node
      /\ ret' = [ret |-> res.ret]

Delete(key) ==
  LET res == delete_internal(trie, key)
  IN  /\ trie' = res.node
      /\ ret' = [ret |-> res.ret]

Hash == /\ trie' = hash_caches(trie)
        /\ ret' = [ret |-> "root", root |-> hash(trie)]

Next == \/ \E k \in Keys : Get(k) \/ Delete(k)
        \/ \E k \in Keys, v \in Values : Insert(k, v)
        \/ Hash

Spec == Init /\ [][Next]_vars

-----------------------------------------------------------------------------
(* The same trie by positions: every node under the nibbles that lead to   *)
(* it, and every reference as what it was computed from, read back from    *)
(* the encoding that it holds or whose digest it is.                       *)

(* FlatTrie's kinds of nodes, which depend on none of its variables. *)
Form == INSTANCE FlatTrie WITH data <- trie, ref <- trie

Data(data, p) ==
  LET beyond == p \o prefix_to_nibs(data.path)
  IN  CASE data.k = "null" -> Form!Null
        [] data.k = "leaf" -> Form!Leaf(beyond, data.value)
        [] data.k = "ext" -> Form!Extension(beyond)
        [] data.k = "branch" -> Form!Branch(DOMAIN data.children)

RECURSIVE NodesAt(_, _)
NodesAt(node, p) ==
  {[at |-> p, node |-> node]} \cup
  CASE node.data.k = "branch" ->
         UNION {NodesAt(node.data.children[i], Append(p, i)) : i \in DOMAIN node.data.children}
    [] node.data.k = "ext" -> NodesAt(node.data.child, p \o prefix_to_nibs(node.data.path))
    [] OTHER -> {}

Decoded(ref) == IF ref.k = "digest" THEN ref.digest.keccak ELSE ref.rlp

RECURSIVE EncodedAt(_, _)
EncodedAt(enc, p) ==
  LET beyond == p \o prefix_to_nibs(enc.path)
  IN  CASE enc.k \in {"null", "leaf"} -> {<<p, Data(enc, p)>>}
        [] enc.k = "ext" ->
             {<<p, Data(enc, p)>>} \cup EncodedAt(Decoded(enc.ref), beyond)
        [] enc.k = "branch" ->
             {<<p, Form!Branch(DOMAIN enc.refs)>>} \cup
             UNION {EncodedAt(Decoded(enc.refs[i]), Append(p, i)) : i \in DOMAIN enc.refs}

ByPosition(f(_, _)) ==
  LET all == NodesAt(trie, <<>>)
  IN  [p \in {x.at : x \in all} |-> f((CHOOSE x \in all : x.at = p).node, p)]

FlatData == ByPosition(LAMBDA node, p : Data(node.data, p))
FlatRef == ByPosition(LAMBDA node, p : {EncodedAt(Decoded(r), p) : r \in node.ref})
FlatRet == IF ret.ret = "root" THEN [ret EXCEPT !.root = EncodedAt(@.keccak, <<>>)] ELSE ret

=============================================================================
