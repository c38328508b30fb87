----------------------------- MODULE MCEthState -----------------------------
(* Keys under which the tries have a leaf, a branch and an extension as the  *)
(* sibling of what is deleted.  Each key has a fate; a scenario gives one to *)
(* every address (no storage), or to every slot of one contract.  A fifth    *)
(* key, with fewer fates, makes a subtree of every key deletable.            *)
EXTENDS EthState

MCKeys == { <<0, 0, 0>>, <<0, 0, 1>>, <<0, 1, 0>>, <<1, 0, 0>> }
MoreKeys == MCKeys \cup { <<0, 1, 1>> }

Fates == {"missing", "looked for", "created", "kept", "read", "changed", "removed"}
Present(fate) == {k \in DOMAIN fate : fate[k] \in {"kept", "read", "changed", "removed"}}
Touched(fate) == {k \in DOMAIN fate : fate[k] \notin {"missing", "kept"}}
Written(fate) == {k \in DOMAIN fate : fate[k] \in {"created", "changed", "removed"}}

(* Some values are so short that their leaf is an inline reference.          *)
OldValue(k) == [slot |-> IF k[3] = 1 THEN "s" ELSE "l"]
NewValue == [slot |-> "n"]
MCValueLength(v) ==
  IF "slot" \notin DOMAIN v THEN 70 ELSE IF v.slot = "s" THEN 1 ELSE 33

(* What nodes answer for an account that is missing.                         *)
Answer(storage_hash, code_hash) == [storage_hash |-> storage_hash, code_hash |-> code_hash]
EmptyCode == Keccak("code")
AccountScenario(fate, missing) ==
  [missing |-> missing,
   pre |-> [a \in Present(fate) |-> [info |-> "i", storage |-> <<>>]],
   used |-> [a \in Touched(fate) |-> {}],
   bundle |-> [a \in Written(fate) |->
                 [info |-> IF fate[a] = "removed" THEN None ELSE Some("j"),
                  destroyed |-> FALSE, storage |-> <<>>]]]

Contract == <<0, 0, 0>>
Neighbour == <<0, 0, 1>>
StorageScenario(fate, destroyed) ==
  [missing |-> Answer(EMPTY_ROOT_HASH, EmptyCode),
   pre |-> (Contract :> [info |-> "i", storage |-> [k \in Present(fate) |-> OldValue(k)]]) @@
           (Neighbour :> [info |-> "i", storage |-> <<>>]),
   used |-> Contract :> {k \in Touched(fate) : fate[k] # "created"},
   bundle |-> IF Written(fate) = {} /\ ~destroyed THEN <<>>
              ELSE Contract :>
                   [info |-> Some("j"), destroyed |-> destroyed,
                    storage |-> [k \in Written(fate) |->
                                   IF fate[k] = "removed" THEN Zero ELSE NewValue]]]

MCFates == [MCKeys -> Fates] \cup [MoreKeys -> {"missing", "created", "kept", "removed"}]
MCScenarios ==
  {AccountScenario(f, Answer(EMPTY_ROOT_HASH, EmptyCode)) : f \in MCFates} \cup
  {AccountScenario(f, Answer(ZERO, code)) :
     f \in [MCKeys -> {"missing", "looked for", "created", "kept"}], code \in {ZERO, EmptyCode}} \cup
  {StorageScenario(f, FALSE) : f \in MCFates} \cup
  {StorageScenario(f, TRUE) : f \in [MCKeys -> {"missing", "created", "kept", "changed"}]}

(* The stream is delivered as it is; for a block that changes nothing, also  *)
(* with an item lost, two items swapped or a leaf replaced.                  *)
Swapped(items, i, j) == [items EXCEPT ![i] = items[j], ![j] = items[i]]
Forged(item) == [item EXCEPT !.rlp.value = TrieAccount("f", EMPTY_ROOT_HASH)]
MCDeliveries(b, items) ==
  {items} \cup
  IF b.bundle # <<>> THEN {}
  ELSE {RemoveAt(items, i) : i \in DOMAIN items} \cup
       {Swapped(items, i, j) : i, j \in DOMAIN items} \cup
       {[items EXCEPT ![i] = Forged(@)] : i \in {j \in DOMAIN items : items[j].rlp.k = "leaf"}}

=============================================================================
