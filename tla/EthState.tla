------------------------------ MODULE EthState ------------------------------
(***************************************************************************)
(* The partial state of a block on its way from the RPC node to the new    *)
(* state root: the host turns proofs into tries                            *)
(* (transition_proofs_to_tries), encodes them (encode_to_state_bytes), the *)
(* guest decodes and checks them (ClientExecutorInputWithState::build) and *)
(* applies the bundle of the block (update_from_bundle_state, state.rs).   *)
(* Accounts and slots come out of hash maps, so in any order.              *)
(*                                                                         *)
(* A world maps the nibbles of a hashed address to an account; a scenario  *)
(* is a world, what the block touches of it, the bundle it leaves, and     *)
(* what the RPC node says of an account that is missing.                   *)
(***************************************************************************)
EXTENDS ProofTrie

CONSTANTS Scenarios,        \* [pre, used, bundle, missing] records
          Zero,             \* the value of a slot that is cleared
          Deliveries(_, _)  \* what the guest may receive for some items

VARIABLES block,        \* the scenario
          bytes,        \* EthereumStateBytes: the items of each trie
          received,     \* the items of the state trie that the guest got
          state,        \* EthereumState of the guest
          todo,         \* addresses of the bundle not yet visited
          cur,          \* the address being visited, if any
          slots,        \* its slots not yet written
          phase         \* "fetch", "sent", "update", "done", or the error

vars == <<block, bytes, received, state, todo, cur, slots, phase>>

-----------------------------------------------------------------------------
(* The world and the RPC node *)

StorageTrie(account) == Canonical(account.storage, 0)
TrieAccount(info, storage_root) == [info |-> info, storage_root |-> storage_root]
AccountLeaf(account) == TrieAccount(account.info, hash(StorageTrie(account)))
StateTrie(world) == Canonical([a \in DOMAIN world |-> AccountLeaf(world[a])], 0)

(* The nodes on the path of a key: the root, and what has a digest.        *)
RECURSIVE PathNodes(_, _, _)
PathNodes(node, key, is_root) ==
  LET data == node.data
      here == IF is_root \/ calc_reference(WithChildReferences(data)).k = "digest"
              THEN <<encode(WithChildReferences(data))>> ELSE <<>>
      nibs == prefix_to_nibs(data.path)
  IN  CASE data.k = "null" -> <<>>
        [] data.k = "leaf" -> here
        [] data.k = "branch" ->
             here \o IF Head(key) \in DOMAIN data.children
                     THEN PathNodes(data.children[Head(key)], Tail(key), FALSE) ELSE <<>>
        [] data.k = "ext" ->
             here \o IF IsPrefix(nibs, key)
                     THEN PathNodes(data.child, Rest(key, Len(nibs)), FALSE) ELSE <<>>
Proof(trie, key) == [key |-> key, proof |-> PathNodes(trie, key, TRUE)]

(* The answer of a node, converted by eip1186_proof_to_account_proof.  For *)
(* an account that does not exist nodes differ in the hashes they answer   *)
(* with (block.missing); its nonce and its balance are zero.               *)
StorageRoot(answer) ==
  IF answer.storage_hash = ZERO /\ answer.code_hash = ZERO THEN EMPTY_ROOT_HASH
  ELSE answer.storage_hash

get_proof(world, state_trie, address, keys) ==
  LET exists == address \in DOMAIN world
      trie == IF exists THEN StorageTrie(world[address]) ELSE NullNode
  IN  [proof |-> Proof(state_trie, address).proof,
       storage_root |-> IF exists THEN hash(trie) ELSE StorageRoot(block.missing),
       storage_proofs |-> {Proof(trie, k) : k \in keys}]

NoAccount == [info |-> "none", storage |-> <<>>]

(* What the bundle makes of the world. *)
NewStorage(account, change) ==
  LET old == IF change.destroyed THEN <<>> ELSE account.storage
      new == change.storage @@ old
  IN  [s \in {t \in DOMAIN new : new[t] # Zero} |-> new[s]]
Post(world, bundle) ==
  LET gone == {a \in DOMAIN bundle : bundle[a].info = None}
      Old(a) == IF a \in DOMAIN world THEN world[a] ELSE NoAccount
      New(a) == [info |-> The(bundle[a].info), storage |-> NewStorage(Old(a), bundle[a])]
  IN  [a \in (DOMAIN world \cup DOMAIN bundle) \ gone |->
         IF a \in DOMAIN bundle THEN New(a) ELSE world[a]]

-----------------------------------------------------------------------------
Init ==
  /\ block \in Scenarios
  /\ bytes = [state_trie |-> <<>>, storage_tries |-> <<>>]
  /\ received = <<>>
  /\ state = [state_trie |-> NullNode, storage_tries |-> <<>>]
  /\ todo = {}
  /\ cur = None
  /\ slots = {}
  /\ phase = "fetch"

Modified(a) == IF a \in DOMAIN block.bundle THEN DOMAIN block.bundle[a].storage ELSE {}

(* Mutant: only the slots that were read get a proof.                      *)
ProvedKeys_read_only(a) == block.used[a]

(* The slots of an account that get a parent proof. *)
ProvedKeys(a) == block.used[a] \cup Modified(a)

(* HostExecutor::execute after the run of the block, and the encoding.     *)
HostState ==
  LET touched == DOMAIN block.used
      post == Post(block.pre, block.bundle)
      before == StateTrie(block.pre)
      after == StateTrie(post)
  IN  transition_proofs_to_tries(
        hash(before),
        [a \in touched |-> get_proof(block.pre, before, a, ProvedKeys(a))],
        [a \in touched |-> get_proof(post, after, a, Modified(a))])

Failed(err) == /\ phase' = err
               /\ UNCHANGED <<block, bytes, received, state, todo, cur, slots>>

FetchState ==
  /\ phase = "fetch"
  /\ \E host \in {HostState} :
         IF host.errors # {} THEN \E err \in host.errors : Failed(err)
         ELSE /\ bytes' = [state_trie |-> encode_trie(host.state_trie),
                           storage_tries |-> [a \in DOMAIN host.storage_tries |->
                                                encode_trie(host.storage_tries[a])]]
              /\ phase' = "sent"
              /\ UNCHANGED <<block, received, state, todo, cur, slots>>

(* The storage root that the state trie has for an account. *)
ExpectedRoot(trie, a) ==
  LET got == get_internal(trie, a)
  IN  IF got.ret = "some" THEN got.value.storage_root ELSE EMPTY_ROOT_HASH

(* build: decode, compare the state root with the parent header, and each  *)
(* storage root with the account; a failure ends the run.                  *)
build(items) ==
  LET trie == decode_trie(items)
      tries == [a \in DOMAIN bytes.storage_tries |-> decode_trie(bytes.storage_tries[a])]
      errors == {IF get_internal(trie.node, a).ret = "NodeNotResolved" THEN "NodeNotResolved"
                 ELSE IF tries[a].ret # "ok" THEN tries[a].ret
                 ELSE IF hash(tries[a].node) # ExpectedRoot(trie.node, a)
                 THEN "ParentStorageRootMismatch" ELSE "ok" : a \in DOMAIN tries} \ {"ok"}
      Fail(err) == phase' = err /\ UNCHANGED <<state, todo>>
  IN
  /\ received' = items
  /\ IF trie.ret # "ok" THEN Fail(trie.ret)
     ELSE IF hash(trie.node) # hash(StateTrie(block.pre))
     THEN Fail("ParentStateRootMismatch")
     ELSE IF errors # {} THEN \E err \in errors : Fail(err)
     ELSE /\ state' = [state_trie |-> hash_caches(trie.node),
                       storage_tries |-> [a \in DOMAIN tries |-> hash_caches(tries[a].node)]]
          /\ todo' = DOMAIN block.bundle
          /\ phase' = "update"
  /\ UNCHANGED <<block, bytes, cur, slots>>

-----------------------------------------------------------------------------
(* update_from_bundle_state *)

Put(tries, a, trie) == (a :> trie) @@ tries

(* The loop takes an account that lives on: a trie that is missing, or     *)
(* whose account was destroyed, starts empty.                              *)
visit_account(a) ==
  LET change == block.bundle[a]
      old == IF a \in DOMAIN state.storage_tries THEN state.storage_tries[a] ELSE NullNode
  IN
  /\ phase = "update" /\ cur = None
  /\ a \in todo
  /\ change.info # None
  /\ cur' = Some(a)
  /\ slots' = DOMAIN change.storage
  /\ state' = [state EXCEPT !.storage_tries =
                 Put(@, a, IF change.destroyed THEN NullNode ELSE old)]
  /\ UNCHANGED <<block, bytes, received, todo, phase>>

write_slot(s) ==
  LET a == The(cur)
      trie == state.storage_tries[a]
      value == block.bundle[a].storage[s]
      res == IF value = Zero THEN delete_internal(trie, s) ELSE insert_internal(trie, s, value)
  IN
  /\ phase = "update" /\ cur # None
  /\ s \in slots
  /\ IF res.ret \notin {"true", "false"} THEN Failed(res.ret)
     ELSE /\ state' = [state EXCEPT !.storage_tries = Put(@, a, res.node)]
          /\ slots' = slots \ {s}
          /\ UNCHANGED <<block, bytes, received, todo, cur, phase>>

(* All slots written: the account's leaf gets the new storage root.        *)
write_account ==
  LET a == The(cur)
      trie == state.storage_tries[a]
      leaf == TrieAccount(The(block.bundle[a].info), hash(trie))
      res == insert_internal(state.state_trie, a, leaf)
  IN
  /\ phase = "update" /\ cur # None
  /\ slots = {}
  /\ IF res.ret \notin {"true", "false"} THEN Failed(res.ret)
     ELSE /\ state' = [state_trie |-> res.node,
                       storage_tries |-> Put(state.storage_tries, a, hash_caches(trie))]
          /\ todo' = todo \ {a}
          /\ cur' = None
          /\ UNCHANGED <<block, bytes, received, slots, phase>>

(* An account that is gone; a failure of delete is a panic (unwrap).       *)
remove_account(a) ==
  LET res == delete_internal(state.state_trie, a)
  IN
  /\ phase = "update" /\ cur = None
  /\ a \in todo
  /\ block.bundle[a].info = None
  /\ IF res.ret \notin {"true", "false"} THEN Failed("panic")
     ELSE /\ state' = [state_trie |-> res.node,
                       storage_tries |-> [b \in DOMAIN state.storage_tries \ {a} |->
                                            state.storage_tries[b]]]
          /\ todo' = todo \ {a}
          /\ UNCHANGED <<block, bytes, received, cur, slots, phase>>

finish ==
  /\ phase = "update" /\ cur = None
  /\ todo = {}
  /\ state' = [state EXCEPT !.state_trie = hash_caches(@)]
  /\ phase' = "done"
  /\ UNCHANGED <<block, bytes, received, todo, cur, slots>>

Next == \/ FetchState
        \/ phase = "sent" /\ \E items \in Deliveries(block, bytes.state_trie) : build(items)
        \/ \E a \in todo : visit_account(a) \/ remove_account(a)
        \/ \E s \in slots : write_slot(s)
        \/ write_account
        \/ finish

Spec == Init /\ [][Next]_vars

-----------------------------------------------------------------------------
Faithful == received = bytes.state_trie

(* What a lookup should give. *)
Lookup(map, key) == IF key \in DOMAIN map THEN [ret |-> "some", value |-> map[key]]
                    ELSE [ret |-> "none"]
Leaves(world) == [a \in DOMAIN world |-> AccountLeaf(world[a])]
Storage(world, a) == IF a \in DOMAIN world THEN world[a].storage ELSE <<>>
Started == phase = "update" /\ cur = None /\ todo = DOMAIN block.bundle

(* The tries hold what the block touches: every account and every slot,    *)
(* whether it exists or not, is read with its value in the parent state    *)
(* and never as an unresolved node (WitnessDb reads them so).              *)
TouchedStateIsResolved ==
  Started /\ Faithful => \A a \in DOMAIN block.used :
    /\ get_internal(state.state_trie, a) = Lookup(Leaves(block.pre), a)
    /\ \A s \in block.used[a] \cup Modified(a) :
         get_internal(state.storage_tries[a], s) = Lookup(Storage(block.pre, a), s)

(* "For valid proofs, the get must not fail" (is_not_included), and        *)
(* whatever order the hash maps give, no update runs into a node that the  *)
(* proofs did not resolve, and nothing panics.                             *)
UpdatesNeverFail == Faithful => phase \in {"fetch", "sent", "update", "done"}

(* The root after the last update is the root of the new state, in every   *)
(* order of the updates: a branch that a deletion folds has its sibling    *)
(* resolved, or its sibling is a branch, or a later insertion unfolds it   *)
(* (the point of add_orphaned_leafs).                                      *)
UpdatedRootIsPostRoot ==
  phase = "done" => hash(state.state_trie) = hash(StateTrie(Post(block.pre, block.bundle)))

(* Whatever items reach the guest, a state that it accepts answers with    *)
(* values of the parent state or reports an unresolved node                *)
(* (NodeRefMismatch, ParentStateRootMismatch, ParentStorageRootMismatch).  *)
AcceptedStateIsAuthentic ==
  Started => \A a \in DOMAIN block.pre \cup DOMAIN block.used :
    LET got == get_internal(state.state_trie, a)
    IN  got = Lookup(Leaves(block.pre), a) \/ got.ret = "NodeNotResolved"

(* A trie is rebuilt from its payloads: MptResolver finds every node by    *)
(* its digest (test_resolve_keccak_trie).                                  *)
ResolverRebuildsTheTrie ==
  phase = "fetch" =>
    \A trie \in {StateTrie(block.pre)} \cup {StorageTrie(block.pre[a]) : a \in DOMAIN block.pre} :
      resolve(hash(trie), payloads(trie)) = trie

=============================================================================
