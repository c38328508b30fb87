--------------------------------- MODULE Hp ---------------------------------
(* Hex-prefix paths of the Merkle Patricia trie: crates/mpt/src/hp.rs.      *)
(* A nibble is 0..15, a byte 0..255; a key is a sequence of nibbles and an  *)
(* encoded path a sequence of bytes whose first byte carries the flags.     *)
EXTENDS Integers, Sequences, FiniteSetsExt

HP_FLAG_ODD == 16
HP_FLAG_LEAF == 32

Nibble == 0..15

(* Mutant: counts the first nibble that differs. *)
lcp_off_by_one(a, b) ==
  LET n == IF Len(a) < Len(b) THEN Len(a) ELSE Len(b)
      diff == {i \in 1..n : a[i] # b[i]}
  IN  IF diff = {} THEN n ELSE Min(diff)

(* Length of the common prefix of two nibble slices. *)
lcp(a, b) ==
  LET n == IF Len(a) < Len(b) THEN Len(a) ELSE Len(b)
      diff == {i \in 1..n : a[i] # b[i]}
  IN  IF diff = {} THEN n ELSE Min(diff) - 1

(* High then low nibble of every byte. *)
to_nibs(bytes) ==
  [i \in 1..2 * Len(bytes) |->
     IF i % 2 = 1 THEN bytes[(i + 1) \div 2] \div 16 ELSE bytes[i \div 2] % 16]

is_odd_path(enc) == (enc[1] \div HP_FLAG_ODD) % 2 = 1

encoded_path_nibble_count(enc) ==
  IF enc = <<>> THEN 0
  ELSE 2 * (Len(enc) - 1) + (IF is_odd_path(enc) THEN 1 ELSE 0)

(* Decodes a path: the low nibble of the first byte when the count is odd,  *)
(* then both nibbles of every later byte.                                   *)
prefix_to_nibs(enc) ==
  IF enc = <<>> THEN <<>>
  ELSE (IF is_odd_path(enc) THEN <<enc[1] % 16>> ELSE <<>>) \o to_nibs(Tail(enc))

(* The i-th nibble of an encoded path, read in place (no decoding).         *)
nibble_at(enc, i) ==
  IF is_odd_path(enc)
  THEN IF i = 1 THEN enc[1] % 16
       ELSE IF i % 2 = 0 THEN enc[1 + i \div 2] \div 16 ELSE enc[1 + i \div 2] % 16
  ELSE IF i % 2 = 1 THEN enc[1 + (i + 1) \div 2] \div 16 ELSE enc[1 + i \div 2] % 16

encoded_path_eq_nibs(enc, nibs) ==
  /\ encoded_path_nibble_count(enc) = Len(nibs)
  /\ \A i \in 1..Len(nibs) : nibble_at(enc, i) = nibs[i]

(* Mutant: the tail starts one nibble late. *)
encoded_path_strip_prefix_late(enc, nibs) ==
  LET count == encoded_path_nibble_count(enc)
  IN  IF count <= Len(nibs) /\ \A i \in 1..count : nibble_at(enc, i) = nibs[i]
      THEN {SubSeq(nibs, count + 2, Len(nibs))}
      ELSE {}

(* None is {}, Some(tail) is {tail}. *)
encoded_path_strip_prefix(enc, nibs) ==
  LET count == encoded_path_nibble_count(enc)
  IN  IF count <= Len(nibs) /\ \A i \in 1..count : nibble_at(enc, i) = nibs[i]
      THEN {SubSeq(nibs, count + 1, Len(nibs))}
      ELSE {}

(* Mutant: the flag of an odd path is forgotten. *)
to_encoded_path_no_odd(nibs, is_leaf) ==
  LET odd == Len(nibs) % 2
      prefix == IF is_leaf THEN HP_FLAG_LEAF ELSE 0
  IN  <<IF odd = 1 THEN prefix + nibs[1] ELSE prefix>> \o
      [j \in 1..(Len(nibs) \div 2) |->
         nibs[odd + 2 * j - 1] * 16 + nibs[odd + 2 * j]]

(* to_encoded_path and to_encoded_path_with_bump differ in the allocator.   *)
to_encoded_path(nibs, is_leaf) ==
  LET odd == Len(nibs) % 2
      prefix == (IF is_leaf THEN HP_FLAG_LEAF ELSE 0) + odd * HP_FLAG_ODD
  IN  <<IF odd = 1 THEN prefix + nibs[1] ELSE prefix>> \o
      [j \in 1..(Len(nibs) \div 2) |->
         nibs[odd + 2 * j - 1] * 16 + nibs[odd + 2 * j]]

=============================================================================
