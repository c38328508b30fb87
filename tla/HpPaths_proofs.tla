--------------------------- MODULE HpPaths_proofs ---------------------------
(* Hex-prefix paths of every length: the two parities, and no induction,    *)
(* since every operator of Hp says what each nibble or byte is.             *)
EXTENDS HpPaths, WellFoundedInduction, TLAPS

Byte == 0..255

(* A byte and its two nibbles. *)
LEMMA ByteNibbles ==
  /\ \A b \in Byte : b \div 16 \in Nibble /\ b % 16 \in Nibble
  /\ \A h, l \in Nibble : /\ h * 16 + l \in Byte
                          /\ (h * 16 + l) \div 16 = h /\ (h * 16 + l) % 16 = l
BY DEF Byte, Nibble

(* The first byte of a path of odd length, a leaf's and an extension's. *)
LEMMA FirstByte ==
  \A x \in Nibble : /\ 48 + x \in Byte /\ 48 + x >= 32
                    /\ ((48 + x) \div 16) % 2 = 1 /\ (48 + x) % 16 = x
                    /\ 16 + x \in Byte /\ ~(16 + x >= 32)
                    /\ ((16 + x) \div 16) % 2 = 1 /\ (16 + x) % 16 = x
BY DEF Nibble, Byte

(* The nibbles of a byte string. *)
LEMMA ToNibs ==
  ASSUME NEW bytes \in Seq(Byte)
  PROVE  /\ to_nibs(bytes) \in Seq(Nibble)
         /\ Len(to_nibs(bytes)) = 2 * Len(bytes)
         /\ \A i \in 1..Len(bytes) : /\ to_nibs(bytes)[2 * i - 1] = bytes[i] \div 16
                                     /\ to_nibs(bytes)[2 * i] = bytes[i] % 16
<1> DEFINE n == Len(bytes)
           f == [i \in 1..2 * n |->
                   IF i % 2 = 1 THEN bytes[(i + 1) \div 2] \div 16 ELSE bytes[i \div 2] % 16]
<1>1. n \in Nat /\ f = to_nibs(bytes) /\ DOMAIN f = 1..2 * n /\ \A i \in 1..n : bytes[i] \in Byte
  BY DEF to_nibs
<1>2. ASSUME NEW i \in 1..2 * n
      PROVE  f[i] \in Nibble
  <2>1. CASE i % 2 = 1
    <3>1. (i + 1) \div 2 \in 1..n /\ f[i] = bytes[(i + 1) \div 2] \div 16
      BY <1>1, <2>1
    <3> QED BY <1>1, <3>1, ByteNibbles
  <2>2. CASE i % 2 = 0
    <3>1. i \div 2 \in 1..n /\ f[i] = bytes[i \div 2] % 16
      BY <1>1, <2>2
    <3> QED BY <1>1, <3>1, ByteNibbles
  <2> QED BY <2>1, <2>2, <1>1
<1>3. f \in [1..2 * n -> Nibble] /\ 2 * n \in Nat
  BY <1>1, <1>2
<1>4. f \in Seq(Nibble) /\ Len(f) = 2 * n
  BY <1>3
<1>5. ASSUME NEW i \in 1..n
      PROVE  f[2 * i - 1] = bytes[i] \div 16 /\ f[2 * i] = bytes[i] % 16
  <2>1. 2 * i - 1 \in 1..2 * n /\ 2 * i \in 1..2 * n
    BY <1>1
  <2>2. (2 * i - 1) % 2 = 1 /\ (2 * i) % 2 = 0 /\ (2 * i - 1 + 1) \div 2 = i /\ (2 * i) \div 2 = i
    BY <1>1
  <2> QED BY <2>1, <2>2
<1> QED BY <1>1, <1>4, <1>5

(* A sequence with a new head. *)
LEMMA Cons ==
  ASSUME NEW S, NEW x \in S, NEW s \in Seq(S)
  PROVE  /\ <<x>> \o s \in Seq(S)
         /\ Len(<<x>> \o s) = 1 + Len(s)
         /\ (<<x>> \o s)[1] = x
         /\ \A i \in 1..Len(s) : (<<x>> \o s)[i + 1] = s[i]
OBVIOUS

(* Decoding gives as many nibbles as are counted, the ones read in place.  *)
LEMMA Decode ==
  ASSUME NEW enc \in Seq(Byte), enc # <<>>
  PROVE  /\ prefix_to_nibs(enc) \in Seq(Nibble)
         /\ Len(prefix_to_nibs(enc)) = encoded_path_nibble_count(enc)
         /\ \A i \in 1..encoded_path_nibble_count(enc) : prefix_to_nibs(enc)[i] = nibble_at(enc, i)
<1> DEFINE rest == Tail(enc)
           n == Len(rest)
           low == to_nibs(rest)
<1>1. /\ rest \in Seq(Byte) /\ n = Len(enc) - 1 /\ n \in Nat
      /\ \A i \in 1..n : rest[i] = enc[i + 1]
      /\ enc[1] \in Byte
  OBVIOUS
<1>2. /\ low \in Seq(Nibble) /\ Len(low) = 2 * n
      /\ \A i \in 1..n : low[2 * i - 1] = enc[i + 1] \div 16 /\ low[2 * i] = enc[i + 1] % 16
  BY <1>1, ToNibs
<1> HIDE DEF low, n
<1>3. CASE is_odd_path(enc)
  <2>1. prefix_to_nibs(enc) = <<enc[1] % 16>> \o low
    BY <1>3 DEF prefix_to_nibs, low
  <2>2. enc[1] % 16 \in Nibble
    BY <1>1, ByteNibbles
  <2>3. /\ prefix_to_nibs(enc) \in Seq(Nibble) /\ Len(prefix_to_nibs(enc)) = 1 + 2 * n
        /\ prefix_to_nibs(enc)[1] = enc[1] % 16
        /\ \A i \in 1..2 * n : prefix_to_nibs(enc)[i + 1] = low[i]
    BY <1>2, <2>1, <2>2, Cons
  <2>4. encoded_path_nibble_count(enc) = 1 + 2 * n
    BY <1>1, <1>3 DEF encoded_path_nibble_count
  <2>5. ASSUME NEW i \in 1..1 + 2 * n
        PROVE  prefix_to_nibs(enc)[i] = nibble_at(enc, i)
    <3>1. CASE i = 1
      BY <1>3, <2>3, <3>1 DEF nibble_at
    <3>2. CASE i # 1 /\ i % 2 = 0
      <4>1. PICK k \in 1..n : i = 2 * k
        <5>1. i \div 2 \in 1..n /\ i = 2 * (i \div 2)
          BY <1>1, <3>2
        <5> QED BY <5>1
      <4>2. prefix_to_nibs(enc)[i] = enc[k + 1] \div 16
        BY <1>1, <1>2, <2>3, <4>1
      <4>3. i \div 2 = k
        BY <1>1, <4>1
      <4>4. nibble_at(enc, i) = enc[1 + k] \div 16
        BY <1>3, <3>2, <4>3 DEF nibble_at
      <4> QED BY <1>1, <4>2, <4>4
    <3>3. CASE i # 1 /\ i % 2 = 1
      <4>1. PICK k \in 1..n : i = 2 * k + 1
        <5>1. i \div 2 \in 1..n /\ i = 2 * (i \div 2) + 1
          BY <1>1, <3>3
        <5> QED BY <5>1
      <4>2. prefix_to_nibs(enc)[i] = enc[k + 1] % 16
        BY <1>1, <1>2, <2>3, <4>1
      <4>3. i \div 2 = k
        BY <1>1, <4>1
      <4>4. nibble_at(enc, i) = enc[1 + k] % 16
        BY <1>3, <3>3, <4>3 DEF nibble_at
      <4> QED BY <1>1, <4>2, <4>4
    <3> QED BY <1>1, <3>1, <3>2, <3>3
  <2> QED BY <2>3, <2>4, <2>5
<1>4. CASE ~is_odd_path(enc)
  <2>1. prefix_to_nibs(enc) = low
    BY <1>2, <1>4 DEF prefix_to_nibs, low
  <2>2. encoded_path_nibble_count(enc) = 2 * n
    BY <1>1, <1>4 DEF encoded_path_nibble_count
  <2>3. ASSUME NEW i \in 1..2 * n
        PROVE  low[i] = nibble_at(enc, i)
    <3>1. CASE i % 2 = 1
      <4>1. PICK k \in 1..n : i = 2 * k - 1
        <5>1. (i + 1) \div 2 \in 1..n /\ i = 2 * ((i + 1) \div 2) - 1
          BY <1>1, <3>1
        <5> QED BY <5>1
      <4>2. (i + 1) \div 2 = k
        BY <1>1, <4>1
      <4>3. nibble_at(enc, i) = enc[1 + k] \div 16
        BY <1>4, <3>1, <4>2 DEF nibble_at
      <4> QED BY <1>1, <1>2, <4>1, <4>3
    <3>2. CASE i % 2 = 0
      <4>1. PICK k \in 1..n : i = 2 * k
        <5>1. i \div 2 \in 1..n /\ i = 2 * (i \div 2)
          BY <1>1, <3>2
        <5> QED BY <5>1
      <4>2. i \div 2 = k
        BY <1>1, <4>1
      <4>3. nibble_at(enc, i) = enc[1 + k] % 16
        BY <1>4, <3>2, <4>2 DEF nibble_at
      <4> QED BY <1>1, <1>2, <4>1, <4>3
    <3> QED BY <1>1, <3>1, <3>2
  <2> QED BY <1>2, <2>1, <2>2, <2>3
<1> QED BY <1>3, <1>4

(* Two sequences with the same length and the same elements are equal.     *)
LEMMA SameElements ==
  ASSUME NEW S, NEW s \in Seq(S), NEW t \in Seq(S), Len(s) = Len(t),
         \A i \in 1..Len(s) : s[i] = t[i]
  PROVE  s = t
OBVIOUS

(* Encoding: the flags in the first byte, and the nibbles read in place.   *)
LEMMA Encode ==
  ASSUME NEW nibs \in Seq(Nibble), NEW is_leaf \in BOOLEAN
  PROVE  LET enc == to_encoded_path(nibs, is_leaf)
         IN  /\ enc \in Seq(Byte) /\ enc # <<>>
             /\ encoded_path_nibble_count(enc) = Len(nibs)
             /\ (enc[1] >= HP_FLAG_LEAF) <=> is_leaf
             /\ \A i \in 1..Len(nibs) : nibble_at(enc, i) = nibs[i]
<1> DEFINE n == Len(nibs)
           odd == n % 2
           half == n \div 2
           prefix == (IF is_leaf THEN HP_FLAG_LEAF ELSE 0) + odd * HP_FLAG_ODD
           first == IF odd = 1 THEN prefix + nibs[1] ELSE prefix
           body == [j \in 1..half |-> nibs[odd + 2 * j - 1] * 16 + nibs[odd + 2 * j]]
           enc == to_encoded_path(nibs, is_leaf)
<1>1. n \in Nat /\ odd \in {0, 1} /\ half \in Nat /\ n = 2 * half + odd /\ \A i \in 1..n : nibs[i] \in Nibble
  OBVIOUS
<1>2. enc = <<first>> \o body
  BY DEF to_encoded_path
<1>3. /\ first \in Byte
      /\ (first >= HP_FLAG_LEAF) <=> is_leaf
      /\ (first \div HP_FLAG_ODD) % 2 = 1 <=> odd = 1
      /\ odd = 1 => first % 16 = nibs[1]
  <2>1. CASE odd = 1
    <3>1. nibs[1] \in Nibble
      BY <1>1, <2>1
    <3>2. first = (IF is_leaf THEN 32 ELSE 0) + 16 + nibs[1]
      BY <2>1 DEF HP_FLAG_LEAF, HP_FLAG_ODD
    <3> HIDE DEF first, odd
    <3>3. CASE is_leaf
      <4>1. first = 48 + nibs[1]
        BY <3>1, <3>2, <3>3 DEF Nibble
      <4>2. first \in Byte /\ first >= 32 /\ (first \div 16) % 2 = 1 /\ first % 16 = nibs[1]
        BY <3>1, <4>1, FirstByte
      <4> QED BY <2>1, <3>3, <4>2 DEF HP_FLAG_LEAF, HP_FLAG_ODD
    <3>4. CASE ~is_leaf
      <4>1. first = 16 + nibs[1]
        BY <3>1, <3>2, <3>4 DEF Nibble
      <4>2. first \in Byte /\ ~(first >= 32) /\ (first \div 16) % 2 = 1 /\ first % 16 = nibs[1]
        BY <3>1, <4>1, FirstByte
      <4> QED BY <2>1, <3>4, <4>2 DEF HP_FLAG_LEAF, HP_FLAG_ODD
    <3> QED BY <3>3, <3>4
  <2>2. CASE odd = 0
    BY <2>2 DEF Byte, HP_FLAG_LEAF, HP_FLAG_ODD
  <2> QED BY <1>1, <2>1, <2>2
<1>4. ASSUME NEW j \in 1..half
      PROVE  /\ odd + 2 * j - 1 \in 1..n /\ odd + 2 * j \in 1..n
             /\ body[j] \in Byte
             /\ body[j] \div 16 = nibs[odd + 2 * j - 1] /\ body[j] % 16 = nibs[odd + 2 * j]
  <2>1. odd + 2 * j - 1 \in 1..n /\ odd + 2 * j \in 1..n
    BY <1>1
  <2>2. body[j] = nibs[odd + 2 * j - 1] * 16 + nibs[odd + 2 * j]
    OBVIOUS
  <2> QED BY <1>1, <2>1, <2>2, ByteNibbles
<1>5. body \in Seq(Byte) /\ Len(body) = half
  BY <1>1, <1>4
<1> HIDE DEF n, odd, half, first, body, enc
<1>6. /\ enc \in Seq(Byte) /\ Len(enc) = 1 + half /\ enc[1] = first
      /\ \A j \in 1..half : enc[j + 1] = body[j]
  BY <1>2, <1>3, <1>5, Cons
<1>7. enc # <<>> /\ (is_odd_path(enc) <=> odd = 1)
  BY <1>1, <1>3, <1>6 DEF is_odd_path
<1>8. encoded_path_nibble_count(enc) = n
  BY <1>1, <1>6, <1>7 DEF encoded_path_nibble_count
<1>9. ASSUME NEW i \in 1..n
      PROVE  nibble_at(enc, i) = nibs[i]
  <2>1. CASE odd = 1 /\ i = 1
    BY <1>3, <1>6, <1>7, <2>1 DEF nibble_at
  <2>2. CASE odd = 1 /\ i # 1 /\ i % 2 = 0
    <3>1. i \div 2 \in 1..half /\ i = 2 * (i \div 2)
      BY <1>1, <2>2
    <3>2. nibble_at(enc, i) = enc[1 + i \div 2] \div 16
      BY <1>7, <2>2 DEF nibble_at
    <3>3. enc[1 + i \div 2] = body[i \div 2] /\ odd + 2 * (i \div 2) - 1 = i
      BY <1>6, <2>2, <3>1
    <3> QED BY <1>4, <3>1, <3>2, <3>3
  <2>3. CASE odd = 1 /\ i # 1 /\ i % 2 = 1
    <3>1. i \div 2 \in 1..half /\ i = 2 * (i \div 2) + 1
      BY <1>1, <2>3
    <3>2. nibble_at(enc, i) = enc[1 + i \div 2] % 16
      BY <1>7, <2>3 DEF nibble_at
    <3>3. enc[1 + i \div 2] = body[i \div 2] /\ odd + 2 * (i \div 2) = i
      BY <1>6, <2>3, <3>1
    <3> QED BY <1>4, <3>1, <3>2, <3>3
  <2>4. CASE odd = 0 /\ i % 2 = 1
    <3>1. (i + 1) \div 2 \in 1..half /\ i = 2 * ((i + 1) \div 2) - 1
      BY <1>1, <2>4
    <3>2. nibble_at(enc, i) = enc[1 + (i + 1) \div 2] \div 16
      BY <1>7, <2>4 DEF nibble_at
    <3>3. enc[1 + (i + 1) \div 2] = body[(i + 1) \div 2] /\ odd + 2 * ((i + 1) \div 2) - 1 = i
      BY <1>6, <2>4, <3>1
    <3> QED BY <1>4, <3>1, <3>2, <3>3
  <2>5. CASE odd = 0 /\ i % 2 = 0
    <3>1. i \div 2 \in 1..half /\ i = 2 * (i \div 2)
      BY <1>1, <2>5
    <3>2. nibble_at(enc, i) = enc[1 + i \div 2] % 16
      BY <1>7, <2>5 DEF nibble_at
    <3>3. enc[1 + i \div 2] = body[i \div 2] /\ odd + 2 * (i \div 2) = i
      BY <1>6, <2>5, <3>1
    <3> QED BY <1>4, <3>1, <3>2, <3>3
  <2> QED BY <1>1, <2>1, <2>2, <2>3, <2>4, <2>5
<1> QED BY <1>3, <1>6, <1>7, <1>8, <1>9 DEF enc, n

(* Decoding undoes encoding, for nibbles of any length.                    *)
LEMMA RoundTripHolds ==
  ASSUME NEW nibs \in Seq(Nibble), NEW is_leaf \in BOOLEAN
  PROVE  RoundTrip(nibs, is_leaf)
<1> DEFINE enc == to_encoded_path(nibs, is_leaf)
<1>1. /\ enc \in Seq(Byte) /\ enc # <<>>
      /\ encoded_path_nibble_count(enc) = Len(nibs)
      /\ (enc[1] >= HP_FLAG_LEAF) <=> is_leaf
      /\ \A i \in 1..Len(nibs) : nibble_at(enc, i) = nibs[i]
  BY Encode
<1> HIDE DEF enc
<1>2. /\ prefix_to_nibs(enc) \in Seq(Nibble)
      /\ Len(prefix_to_nibs(enc)) = Len(nibs)
      /\ \A i \in 1..Len(nibs) : prefix_to_nibs(enc)[i] = nibs[i]
  BY <1>1, Decode
<1>3. prefix_to_nibs(enc) = nibs
  BY <1>2, SameElements
<1> QED BY <1>1, <1>3 DEF RoundTrip, enc

(* The comparisons in place are those of the decoded path, for any path    *)
(* and any key.                                                            *)
LEMMA InPlaceHolds ==
  ASSUME NEW enc \in Seq(Byte), enc # <<>>, NEW nibs \in Seq(Nibble)
  PROVE  InPlace(enc, nibs)
<1> DEFINE p == prefix_to_nibs(enc)
           count == encoded_path_nibble_count(enc)
<1>1. p \in Seq(Nibble) /\ Len(p) = count /\ \A i \in 1..count : p[i] = nibble_at(enc, i)
  BY Decode
<1>2. count \in Nat
  BY <1>1
<1> HIDE DEF p, count
<1>3. encoded_path_eq_nibs(enc, nibs) <=> count = Len(nibs) /\ \A i \in 1..Len(nibs) : p[i] = nibs[i]
  BY <1>1 DEF encoded_path_eq_nibs, count
<1>4. encoded_path_eq_nibs(enc, nibs) <=> p = nibs
  BY <1>1, <1>3, SameElements
<1>5. ASSUME count <= Len(nibs)
      PROVE  (\A i \in 1..count : nibble_at(enc, i) = nibs[i]) <=> SubSeq(nibs, 1, count) = p
  <2>1. SubSeq(nibs, 1, count) \in Seq(Nibble) /\ Len(SubSeq(nibs, 1, count)) = count
        /\ \A i \in 1..count : SubSeq(nibs, 1, count)[i] = nibs[i]
    BY <1>2, <1>5
  <2> QED BY <1>1, <2>1, SameElements
<1>6. encoded_path_strip_prefix(enc, nibs) =
        IF count <= Len(nibs) /\ SubSeq(nibs, 1, count) = p
        THEN {SubSeq(nibs, count + 1, Len(nibs))} ELSE {}
  BY <1>5 DEF encoded_path_strip_prefix, count
<1> QED BY <1>1, <1>4, <1>6 DEF InPlace, p

(* A set of positions that is not empty has a least one. *)
LEMMA LeastPosition ==
  ASSUME NEW D \in SUBSET Nat, D # {}
  PROVE  Min(D) \in D /\ \A y \in D : Min(D) =< y
<1> DEFINE Less == {ss \in Nat \X Nat : ss[1] < ss[2]}
<1>1. IsWellFoundedOn(Less, Nat)
  BY NatLessThanWellFounded DEF OpToRel
<1>2. \A x, y \in Nat : y < x => <<y, x>> \in Less
  OBVIOUS
<1> HIDE DEF Less
<1>3. PICK x \in D : \A y \in D : ~(<<y, x>> \in Less)
  BY <1>1, WFMin
<1>4. ASSUME NEW y \in D
      PROVE  x =< y
  <2>1. x \in Nat /\ y \in Nat
    OBVIOUS
  <2>2. ~(y < x)
    BY <1>2, <1>3, <2>1
  <2> QED BY <2>1, <2>2
<1> QED BY <1>4 DEF Min

(* lcp is what its name says, for nibbles of any length.                   *)
LEMMA PartsHolds ==
  ASSUME NEW a \in Seq(Nibble), NEW b \in Seq(Nibble)
  PROVE  Parts(a, b)
<1> DEFINE n == IF Len(a) < Len(b) THEN Len(a) ELSE Len(b)
           diff == {i \in 1..n : a[i] # b[i]}
<1>1. n \in Nat /\ n =< Len(a) /\ n =< Len(b) /\ (n = Len(a) \/ n = Len(b))
  OBVIOUS
<1>2. ASSUME NEW k \in 0..n, \A i \in 1..k : a[i] = b[i]
      PROVE  SubSeq(a, 1, k) = SubSeq(b, 1, k)
  <2>1. /\ SubSeq(a, 1, k) \in Seq(Nibble) /\ SubSeq(b, 1, k) \in Seq(Nibble)
        /\ Len(SubSeq(a, 1, k)) = k /\ Len(SubSeq(b, 1, k)) = k
        /\ \A i \in 1..k : SubSeq(a, 1, k)[i] = a[i] /\ SubSeq(b, 1, k)[i] = b[i]
    BY <1>1
  <2> QED BY <1>2, <2>1, SameElements
<1>3. CASE diff = {}
  <2>1. lcp(a, b) = n /\ \A i \in 1..n : a[i] = b[i]
    BY <1>3 DEF lcp
  <2> QED BY <1>1, <1>2, <2>1 DEF Parts
<1>4. CASE diff # {}
  <2>1. Min(diff) \in diff /\ \A y \in diff : Min(diff) =< y
    <3>1. diff \in SUBSET Nat
      OBVIOUS
    <3> HIDE DEF diff
    <3> QED BY <1>4, <3>1, LeastPosition
  <2>2. lcp(a, b) = Min(diff) - 1
    BY <1>4 DEF lcp
  <2> DEFINE k == Min(diff) - 1
  <2>3. k \in 0..n /\ k + 1 = Min(diff) /\ a[k + 1] # b[k + 1]
    BY <1>1, <2>1
  <2>5. ASSUME NEW i \in 1..k
        PROVE  a[i] = b[i]
    <3>1. i \in 1..n /\ i < Min(diff)
      BY <1>1, <2>3
    <3>2. i \notin diff
      BY <1>1, <2>1, <3>1
    <3> QED BY <3>1, <3>2
  <2> HIDE DEF k
  <2>4. SubSeq(a, 1, k) = SubSeq(b, 1, k)
    BY <1>2, <2>3, <2>5
  <2> QED BY <2>2, <2>3, <2>4 DEF Parts, k
<1> QED BY <1>3, <1>4

-----------------------------------------------------------------------------
(* A path or a key stays a sequence of nibbles when one is joined or cut.  *)
LEMMA ChangedNibbles ==
  ASSUME NEW nibs \in Seq(Nibble), NEW next \in Changed(nibs)
  PROVE  next \in Seq(Nibble)
BY NibblesAssumption DEF Changed

NibblePaths == path \in Seq(Nibble) /\ key \in Seq(Nibble)

LEMMA PathsAreNibbles == PathSpec => []NibblePaths
<1>1. Empty => NibblePaths
  BY DEF Empty, NibblePaths
<1>2. NibblePaths /\ [PathNext]_<<path, key>> => NibblePaths'
  BY ChangedNibbles DEF NibblePaths, PathNext
<1> QED BY <1>1, <1>2, PTL DEF PathSpec

(* Every path, of any length, survives its encoding.                       *)
THEOREM PathsRoundTrip == PathSpec => []EncodingRoundTrips
<1>1. NibblePaths => EncodingRoundTrips
  BY RoundTripHolds DEF NibblePaths, EncodingRoundTrips
<1> QED BY <1>1, PathsAreNibbles, PTL

(* Every key is compared with every encoded path as with the decoded one.  *)
THEOREM PathsCompareInPlace == PathSpec => []ComparisonInPlace
<1>1. NibblePaths => ComparisonInPlace
  BY Encode, InPlaceHolds DEF NibblePaths, ComparisonInPlace
<1> QED BY <1>1, PathsAreNibbles, PTL

(* Every split of a leaf or an extension is where the two keys part.       *)
THEOREM PathsPartAtLcp == PathSpec => []CommonPrefixIsLongest
<1>1. NibblePaths => CommonPrefixIsLongest
  BY PartsHolds DEF NibblePaths, CommonPrefixIsLongest
<1> QED BY <1>1, PathsAreNibbles, PTL

=============================================================================
