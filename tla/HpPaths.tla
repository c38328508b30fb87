------------------------------- MODULE HpPaths -------------------------------
(***************************************************************************)
(* What the hex-prefix operators of module Hp promise of every path a node *)
(* may hold and every key that is looked up or inserted: the paths and the *)
(* keys are reached as the trie makes them, by joining and cutting nibbles.*)
(***************************************************************************)
EXTENDS Hp

CONSTANTS Nibbles,      \* the nibbles that occur
          MaxLength     \* bound on the length of a path and of a key

ASSUME NibblesAssumption == Nibbles \subseteq Nibble /\ MaxLength \in Nat

VARIABLES path,         \* the nibbles of a node's path
          key           \* the nibbles of a key

Empty == path = <<>> /\ key = <<>>

(* A nibble more at the end, or one less at the front. *)
Changed(nibs) == {Append(nibs, n) : n \in {m \in Nibbles : Len(nibs) < MaxLength}}
                   \cup {Tail(s) : s \in {nibs} \ {<<>>}}

PathNext == \/ path' \in Changed(path) /\ UNCHANGED key
            \/ key' \in Changed(key) /\ UNCHANGED path

PathSpec == Empty /\ [][PathNext]_<<path, key>>

-----------------------------------------------------------------------------
(* An encoded path decodes to what was encoded, whatever the parity of its *)
(* length, and its count and its leaf flag survive (prefix_to_nibs after   *)
(* to_encoded_path, as every split and every merge of the trie uses them). *)
RoundTrip(nibs, is_leaf) ==
  LET enc == to_encoded_path(nibs, is_leaf)
  IN  /\ prefix_to_nibs(enc) = nibs
      /\ encoded_path_nibble_count(enc) = Len(nibs)
      /\ (enc[1] >= HP_FLAG_LEAF) <=> is_leaf
EncodingRoundTrips == \A is_leaf \in BOOLEAN : RoundTrip(path, is_leaf)

(* Comparing an encoded path with a key in place, byte by byte, gives what *)
(* decoding first would give (encoded_path_eq_nibs and                     *)
(* encoded_path_strip_prefix, the two tests of every lookup).              *)
InPlace(enc, nibs) ==
  LET p == prefix_to_nibs(enc)
  IN  /\ encoded_path_eq_nibs(enc, nibs) <=> p = nibs
      /\ encoded_path_strip_prefix(enc, nibs) =
           IF Len(p) <= Len(nibs) /\ SubSeq(nibs, 1, Len(p)) = p
           THEN {SubSeq(nibs, Len(p) + 1, Len(nibs))} ELSE {}
ComparisonInPlace ==
  \A is_leaf \in BOOLEAN : InPlace(to_encoded_path(path, is_leaf), key)

(* lcp is the length of the longest common prefix: where a leaf or an      *)
(* extension is split, the two keys agree before it and part right after.  *)
Parts(a, b) ==
  LET n == lcp(a, b)
  IN  /\ SubSeq(a, 1, n) = SubSeq(b, 1, n)
      /\ n = Len(a) \/ n = Len(b) \/ a[n + 1] # b[n + 1]
CommonPrefixIsLongest == Parts(path, key)

=============================================================================
