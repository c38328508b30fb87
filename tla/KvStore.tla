------------------------------- MODULE KvStore -------------------------------
(***************************************************************************)
(* What the trie promises its callers: a map from nibble keys to values,   *)
(* no key of which is a proper prefix of another, and a root that is a     *)
(* function of the map alone.                                              *)
(***************************************************************************)
EXTENDS Integers, Sequences

CONSTANTS Keys,         \* nibble sequences
          Values,
          Absent,       \* the marker for "no value"
          RootOf(_)     \* the root of a map

VARIABLES content,      \* the map
          ret           \* what the last call returned

vars == <<content, ret>>

ProperPrefix(p, k) == Len(p) < Len(k) /\ SubSeq(k, 1, Len(p)) = p

Present == {k \in Keys : content[k] # Absent}

(* A key that could be stored only in the value slot of a branch. *)
Clashes(k) == \E l \in Present : ProperPrefix(k, l) \/ ProperPrefix(l, k)

Init == /\ content = [k \in Keys |-> Absent]
        /\ ret = [ret |-> "none"]

Get(k) ==
  /\ ret' = IF k \in Present THEN [ret |-> "some", value |-> content[k]]
            ELSE [ret |-> "none"]
  /\ UNCHANGED content

Insert(k, v) ==
  IF Clashes(k)
  THEN /\ ret' = [ret |-> "ValueInBranch"]
       /\ UNCHANGED content
  ELSE /\ content' = [content EXCEPT ![k] = v]
       /\ ret' = [ret |-> IF content[k] = v THEN "false" ELSE "true"]

(* An absent key may be reported as an error when other keys extend it.    *)
Delete(k) ==
  \/ /\ k \in Present
     /\ content' = [content EXCEPT ![k] = Absent]
     /\ ret' = [ret |-> "true"]
  \/ /\ k \notin Present
     /\ ret' = [ret |-> "false"]
     /\ UNCHANGED content
  \/ /\ \E l \in Present : ProperPrefix(k, l)
     /\ ret' = [ret |-> "ValueInBranch"]
     /\ UNCHANGED content

Hash == /\ ret' = [ret |-> "root", root |-> RootOf(content)]
        /\ UNCHANGED content

Next == \/ \E k \in Keys : Get(k) \/ Delete(k)
        \/ \E k \in Keys, v \in Values : Insert(k, v)
        \/ Hash

Spec == Init /\ [][Next]_vars

-----------------------------------------------------------------------------
(* Type correctness of the map. *)
TypeOK == content \in [Keys -> Values \cup {Absent}]

(* No stored key is a proper prefix of another stored key: the reason why  *)
(* branches never carry a value (Error::ValueInBranch in trie.rs).         *)
PrefixFree == \A k, l \in Present : ~ProperPrefix(k, l)

=============================================================================
