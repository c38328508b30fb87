----------------------------- MODULE MCMptStore -----------------------------
(* Keys that meet every case of insert and delete: a key that is empty, keys *)
(* that are prefixes of others, keys that part at a leaf, inside an          *)
(* extension and right after one.                                            *)
EXTENDS FlatTrie, HpPaths

CONSTANT ValueLength(_)

VARIABLES trie, answer

(* The code's trie. *)
Mpt == INSTANCE MptStore WITH ret <- answer

MCKeys == { <<>>, <<0, 0>>, <<0, 0, 1>>, <<0, 1, 2, 3>>, <<0, 1, 2, 4>>, <<1>> }

(* "s" is one byte, so small subtries are inline references; "l" is long.  *)
MCValues == {"s", "l"}
MCValueLength(v) == IF v = "s" THEN 1 ELSE 33

(* Every call is made to the code's trie and to the trie by positions; the *)
(* paths' steps are taken while the tries are empty.  Each is explored     *)
(* completely, without their product.                                      *)
tries == <<vars, trie, answer>>

MCInit == Init /\ Mpt!Init /\ Empty

TrieStep ==
  /\ Empty
  /\ \/ \E k \in Keys : \/ Get(k) /\ Mpt!Get(k)
                        \/ Delete(k) /\ Mpt!Delete(k)
     \/ \E k \in Keys, v \in Values : Insert(k, v) /\ Mpt!Insert(k, v)
     \/ Hash /\ Mpt!Hash
  /\ UNCHANGED <<path, key>>

PathStep == Init /\ PathNext /\ UNCHANGED tries

MCSpec == MCInit /\ [][PathStep \/ TrieStep]_<<tries, path, key>>

(* The code's trie is the trie by positions: every call finds, splits,       *)
(* folds and answers as FlatTrie says, fills and empties the same cache      *)
(* slots with the same references, and leaves all of them alone when it      *)
(* reports an error or "no change".                                          *)
CodeFollowsPositions ==
  data = Mpt!FlatData /\ ref = Mpt!FlatRef /\ ret = Mpt!FlatRet

=============================================================================
