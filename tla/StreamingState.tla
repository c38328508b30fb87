--------------------------- MODULE StreamingState ---------------------------
(***************************************************************************)
(* The guest's StreamingEthereumState (crates/executor/client/src/io.rs)   *)
(* as execute_from_reader (client/src/lib.rs) drives it: it replays a      *)
(* block while it reads account, storage and state-chunk witnesses from an *)
(* input stream that nobody has authenticated, and accepts or rejects.     *)
(*                                                                         *)
(* A trie is what its nodes commit to: a map, the keys whose path it       *)
(* reveals (a lookup of another key meets a Digest node and fails), and    *)
(* whether its shape is the canonical one.  Two tries have the same root   *)
(* iff they commit to the same map in the same shape.  Deleting a key      *)
(* whose neighbours are digests may leave a shape that is not canonical    *)
(* (modules MptStore and Frontier look at the shapes themselves): the key  *)
(* is then in bad, resp. canonical is FALSE.                               *)
(***************************************************************************)
EXTENDS Integers, FiniteSets

CONSTANTS Addr,         \* hashed addresses, in the order of their nibbles
          Regions,      \* the sets of addresses under one nibble prefix
          Info,         \* nonce, balance and code hash of an account
          Slot, Val,    \* hashed storage slots and their nonzero values
          Zero,         \* the value of an empty slot
          Code,         \* bytecodes; the hash of a bytecode stands for it
          None, Unknown,
          Parent,       \* the state behind ancestor_headers[0].state_root
          Headers, Items, StorageTries, StateTries,   \* what may arrive
          Bundles       \* what an execution may end with

Storage == [Slot -> Val \cup {Zero}]
StorageRoot == [map : Storage, canonical : BOOLEAN]
EMPTY_ROOT_HASH == [map |-> [s \in Slot |-> Zero], canonical |-> TRUE]

Account == [info : Info, storage_root : StorageRoot]
MaybeAccount == Account \cup {None}
StateMap == [Addr -> MaybeAccount]

StorageTrie == [map : Storage, open : SUBSET Slot, canonical : BOOLEAN]
StateTrie == [map : StateMap, open : SUBSET Addr, bad : SUBSET Addr]
StateRoot == [map : StateMap, bad : SUBSET Addr]

(* What execution says of a touched account: info None is a deletion, and  *)
(* Unknown marks a slot that did not change.                               *)
BundleAccount == [info : Info \cup {None}, destroyed : BOOLEAN,
                  storage : [Slot -> Val \cup {Zero, Unknown}]]
Bundle == [Addr -> BundleAccount \cup {None}]

(* The items read_witness_input may return; a state chunk is followed by   *)
(* raw bytes, and so is a storage trie header.                             *)
AccountItem == [kind : {"account"}, a : Addr, account : MaybeAccount]
StorageItem == [kind : {"storage"}, a : Addr]
BytecodeItem == [kind : {"bytecode"}, code : Code]
ChunkItem == [kind : {"chunk"}, region : Regions, expected : StateRoot, count : Nat]
Item == AccountItem \cup StorageItem \cup BytecodeItem \cup ChunkItem

Header == [version : Nat, chunk_count : Nat]
Lookup == [a : Addr, slot : Slot \cup {None}]

ASSUME AddrAssumption == Addr \subseteq Nat /\ Regions \subseteq SUBSET Addr
ASSUME MarkerAssumption ==
  /\ None # Unknown
  /\ None \notin Account \cup BundleAccount \cup Info \cup Slot
  /\ Unknown \notin MaybeAccount \cup StorageTrie \cup Val \cup {Zero} \cup Lookup
  /\ Zero \notin Val
ASSUME ParentAssumption == Parent \in StateMap
ASSUME ArrivalAssumption ==
  /\ Headers \subseteq Header
  /\ Items \subseteq Item
  /\ StorageTries \subseteq StorageTrie
  /\ StateTries \subseteq StateTrie
  /\ Bundles \subseteq Bundle

storage_root(account) == IF account = None THEN EMPTY_ROOT_HASH ELSE account.storage_root
RootOf(trie) == [map |-> trie.map, canonical |-> trie.canonical]

(* The part of a state trie below a prefix, and its root.                  *)
Below(map, region) == [a \in Addr |-> IF a \in region THEN map[a] ELSE None]
SubtreeRoot(trie, region) == [map |-> Below(trie.map, region), bad |-> trie.bad \cap region]

-----------------------------------------------------------------------------
VARIABLES
  pc,             \* where the guest is
  want,           \* the lookup being served; slot None for basic_ref
  header,         \* state_trie_header, chunk_count counted down
  account_cache,  \* [Addr -> MaybeAccount or Unknown]
  storage_tries,  \* [Addr -> StorageTrie or Unknown]
  state_trie,     \* the frontier
  chunk,          \* the state chunk being updated and its header
  bundle,         \* what the block changed
  todo,           \* bundle accounts from bundle_cursor on
  run,            \* bundle accounts of this chunk not applied yet
  seen,           \* history: every account value the guest worked with
  seenStorage     \* history: every storage trie the guest read slots from

vars == <<pc, want, header, account_cache, storage_tries, state_trie, chunk,
          bundle, todo, run, seen, seenStorage>>
exec_vars == <<want, account_cache, storage_tries, seen, seenStorage>>
update_vars == <<header, state_trie, chunk, bundle, todo, run>>

Chunk == [region : SUBSET Addr, expected : StateRoot, count : Nat,
          map : StateMap, open : SUBSET Addr, bad : SUBSET Addr]

(* An error is returned through every caller: the block is not accepted.   *)
Reject == /\ pc' = "rejected"
          /\ UNCHANGED <<exec_vars, update_vars>>
Panic == /\ pc' = "panic"
         /\ UNCHANGED <<exec_vars, update_vars>>

Init ==
  LET nowhere == [a \in Addr |-> None]
  IN
  /\ pc = "start"
  /\ want = Unknown
  /\ header = [version |-> 0, chunk_count |-> 0]
  /\ account_cache = [a \in Addr |-> Unknown]
  /\ storage_tries = [a \in Addr |-> Unknown]
  /\ state_trie = [map |-> nowhere, open |-> {}, bad |-> {}]
  /\ chunk = [region |-> {}, expected |-> [map |-> nowhere, bad |-> {}], count |-> 0,
              map |-> nowhere, open |-> {}, bad |-> {}]
  /\ bundle = [a \in Addr |-> None]
  /\ todo = {}
  /\ run = {}
  /\ seen = [a \in Addr |-> Unknown]
  /\ seenStorage = [a \in Addr |-> Unknown]

-----------------------------------------------------------------------------
(* Execution: the EVM asks for accounts, slots and code in any order.      *)

build_streaming_state(h) ==
  /\ pc = "start"
  /\ header' = h
  /\ pc' = "exec"
  /\ UNCHANGED <<exec_vars, state_trie, chunk, bundle, todo, run>>

(* A cached account is answered without a read, and changes nothing.       *)
basic_ref(a) ==
  /\ pc = "exec"
  /\ account_cache[a] = Unknown
  /\ want' = [a |-> a, slot |-> None]
  /\ pc' = "account"
  /\ UNCHANGED <<account_cache, storage_tries, seen, seenStorage, update_vars>>

(* One turn of the loop of read_account: items for other addresses are     *)
(* cached on the way to the one that is wanted.                            *)
read_account(item) ==
  /\ pc = "account"
  /\ IF item.kind # "account" THEN Reject
     ELSE IF account_cache[item.a] # Unknown THEN Reject
     ELSE /\ account_cache' = [account_cache EXCEPT ![item.a] = item.account]
          /\ seen' = [seen EXCEPT ![item.a] = item.account]
          /\ pc' = IF item.a # want.a THEN "account"
                   ELSE IF want.slot = None THEN "exec" ELSE "storage_bytes"
          /\ UNCHANGED <<want, storage_tries, seenStorage, update_vars>>

(* A slot of a storage trie that is loaded is read from it; a trie that    *)
(* does not reveal the slot is an expect() that fails.                     *)
storage_ref(a, s) ==
  /\ pc = "exec"
  /\ IF storage_tries[a] = Unknown
     THEN /\ want' = [a |-> a, slot |-> s]
          /\ pc' = "storage_header"
          /\ UNCHANGED <<account_cache, storage_tries, seen, seenStorage, update_vars>>
     ELSE /\ s \notin storage_tries[a].open
          /\ Panic

(* load_storage_trie reads the header before it asks for the account.      *)
load_storage_header(item) ==
  /\ pc = "storage_header"
  /\ IF item.kind # "storage" THEN Reject
     ELSE IF item.a # want.a THEN Reject
     ELSE /\ pc' = IF account_cache[want.a] = Unknown THEN "account" ELSE "storage_bytes"
          /\ UNCHANGED <<exec_vars, update_vars>>

load_storage_trie(trie) ==
  /\ pc = "storage_bytes"
  /\ IF RootOf(trie) # storage_root(account_cache[want.a]) THEN Reject
     ELSE /\ storage_tries' = [storage_tries EXCEPT ![want.a] = trie]
          /\ seenStorage' = [seenStorage EXCEPT ![want.a] = trie]
          /\ pc' = IF want.slot \in trie.open THEN "exec" ELSE "panic"
          /\ UNCHANGED <<want, account_cache, seen, update_vars>>

(* The bytecode is checked against the hash and handed on, never kept.     *)
read_bytecode(hash, item) ==
  /\ pc = "exec"
  /\ IF item.kind # "bytecode" THEN Reject
     ELSE IF item.code # hash THEN Reject
     ELSE UNCHANGED vars

(* Execution ends with a bundle (what the EVM computes is external).       *)
execute(b) ==
  /\ pc = "exec"
  /\ bundle' = b
  /\ todo' = {a \in Addr : b[a] # None}
  /\ pc' = "frontier"
  /\ UNCHANGED <<exec_vars, header, state_trie, chunk, run>>

-----------------------------------------------------------------------------
(* update_from_bundle_state *)

(* ensure_state_trie_loaded, then the version check.                       *)
load_frontier(trie) ==
  /\ pc = "frontier"
  /\ IF trie.map # Parent \/ trie.bad # {} THEN Reject
     ELSE IF header.version # 2 THEN Reject
     ELSE /\ state_trie' = trie
          /\ pc' = "chunk_header"
          /\ UNCHANGED <<exec_vars, header, chunk, bundle, todo, run>>

(* A mutant: one chunk too many is read.                                   *)
read_chunk_header_past_end(item) ==
  /\ pc = "chunk_header"
  /\ item.kind = "chunk"
  /\ chunk' = [chunk EXCEPT !.region = item.region, !.expected = item.expected,
                            !.count = item.count]
  /\ header' = [header EXCEPT !.chunk_count = @ - 1]
  /\ pc' = "chunk_bytes"
  /\ UNCHANGED <<exec_vars, state_trie, bundle, todo, run>>

read_chunk_header(item) ==
  /\ pc = "chunk_header"
  /\ header.chunk_count > 0
  /\ IF item.kind # "chunk" THEN Reject
     ELSE /\ chunk' = [region |-> item.region, expected |-> item.expected,
                       count |-> item.count,
                       map |-> chunk.map, open |-> chunk.open, bad |-> chunk.bad]
          /\ header' = [header EXCEPT !.chunk_count = @ - 1]
          /\ pc' = "chunk_bytes"
          /\ UNCHANGED <<exec_vars, state_trie, bundle, todo, run>>

(* A mutant: the accounts compared with the chunk stay in the cache.       *)
read_chunk_keeping_cache(trie) ==
  /\ pc = "chunk_bytes"
  /\ IF [map |-> trie.map, bad |-> trie.bad] # chunk.expected THEN Reject
     ELSE IF \E a \in chunk.region : /\ account_cache[a] # Unknown
                                     /\ a \notin trie.open \/ trie.map[a] # account_cache[a]
     THEN Reject
     ELSE /\ chunk' = [chunk EXCEPT !.map = trie.map, !.open = trie.open, !.bad = trie.bad]
          /\ pc' = "chunk_witness"
          /\ UNCHANGED <<exec_vars, header, state_trie, bundle, todo, run>>

(* The chunk is decoded and must have the root of its header; the accounts *)
(* cached for its region are compared with it and leave the cache.         *)
read_chunk(trie) ==
  /\ pc = "chunk_bytes"
  /\ IF [map |-> trie.map, bad |-> trie.bad] # chunk.expected THEN Reject
     ELSE IF \E a \in chunk.region : /\ account_cache[a] # Unknown
                                     /\ a \notin trie.open \/ trie.map[a] # account_cache[a]
     THEN Reject
     ELSE /\ account_cache' = [a \in Addr |-> IF a \in chunk.region THEN Unknown
                                              ELSE account_cache[a]]
          /\ chunk' = [chunk EXCEPT !.map = trie.map, !.open = trie.open, !.bad = trie.bad]
          /\ pc' = "chunk_witness"
          /\ UNCHANGED <<want, storage_tries, seen, seenStorage,
                         header, state_trie, bundle, todo, run>>

(* witness_count items follow.  The match on read_witness_input keeps its  *)
(* borrow of input until its end, so the arm of a storage trie, which      *)
(* borrows input again for the bytes, panics: no trie is ever added to     *)
(* post_storage_tries.                                                     *)
read_chunk_witness(item) ==
  /\ pc = "chunk_witness"
  /\ chunk.count > 0
  /\ CASE item.kind = "account" ->
            IF /\ item.a \in chunk.region \cap chunk.open
               /\ chunk.map[item.a] = item.account
            THEN /\ chunk' = [chunk EXCEPT !.count = @ - 1]
                 /\ UNCHANGED <<pc, exec_vars, header, state_trie, bundle, todo, run>>
            ELSE Reject
       [] item.kind = "storage" ->
            IF item.a \in chunk.region \cap chunk.open THEN Panic ELSE Reject
       [] OTHER -> Reject

(* The bundle accounts from the cursor on that lie in the chunk.           *)
take_bundle_accounts ==
  LET here == {a \in todo \cap chunk.region :
                 \A b \in todo : b < a => b \in chunk.region}
  IN  /\ pc = "chunk_witness"
      /\ chunk.count = 0
      /\ IF here = {} THEN Reject
         ELSE /\ run' = here
              /\ todo' = todo \ here
              /\ pc' = "apply"
              /\ UNCHANGED <<exec_vars, header, state_trie, chunk, bundle>>

Changed(b) == {s \in Slot : b.storage[s] # Unknown}
Written(b, map) == [s \in Slot |-> IF b.storage[s] = Unknown THEN map[s] ELSE b.storage[s]]

(* update_storage_trie: the roots that writing b's slots may give.  Only a *)
(* slot deleted from a trie with hidden nodes can spoil the shape.         *)
UpdatedRoots(b, trie) ==
  {root \in StorageRoot :
     /\ root.map = Written(b, trie.map)
     /\ \/ root.canonical = trie.canonical
        \/ /\ ~root.canonical
           /\ trie.open # Slot
           /\ \E s \in Slot : b.storage[s] = Zero}

FreshTrie == [map |-> [s \in Slot |-> Zero], open |-> Slot, canonical |-> TRUE]

(* The storage roots the new account may get; empty when an error stops    *)
(* the update.                                                             *)
NewStorageRoots(a, b, old) ==
  IF b.destroyed THEN UpdatedRoots(b, FreshTrie)
  ELSE IF Changed(b) = {}
  THEN IF storage_tries[a] # Unknown /\ RootOf(storage_tries[a]) # storage_root(old)
       THEN {} ELSE {storage_root(old)}
  ELSE IF storage_tries[a] # Unknown
  THEN IF Changed(b) \subseteq storage_tries[a].open
       THEN UpdatedRoots(b, storage_tries[a]) ELSE {}
  ELSE IF storage_root(old) = EMPTY_ROOT_HASH THEN UpdatedRoots(b, FreshTrie)
  ELSE {}

(* One turn of the loop over the bundle accounts of the chunk.             *)
apply_bundle_account(a) ==
  LET b == bundle[a]
      old == chunk.map[a]
      Write(account, bad) ==
        /\ chunk' = [chunk EXCEPT !.map = [chunk.map EXCEPT ![a] = account], !.bad = bad]
        /\ run' = run \ {a}
        /\ UNCHANGED <<pc, want, account_cache, seen, seenStorage, header,
                       state_trie, bundle, todo>>
  IN
  /\ pc = "apply"
  /\ a \in run
  /\ \A other \in run : a <= other
  /\ IF a \notin chunk.open THEN Reject
     ELSE IF b.info = None
     THEN /\ \E bad \in {chunk.bad} \cup (IF old = None THEN {} ELSE {chunk.bad \cup {a}}) :
               Write(None, bad)
          /\ storage_tries' = [storage_tries EXCEPT ![a] = Unknown]
     ELSE IF NewStorageRoots(a, b, old) = {} THEN Reject
     ELSE /\ \E root \in NewStorageRoots(a, b, old) :
               Write([info |-> b.info, storage_root |-> root], chunk.bad)
          /\ storage_tries' = IF b.destroyed THEN storage_tries
                              ELSE [storage_tries EXCEPT ![a] = Unknown]

(* A mutant: the root expected in the slot is not compared.                *)
replace_frontier_slot_unchecked ==
  /\ pc = "apply"
  /\ run = {}
  /\ state_trie' = [map |-> [a \in Addr |-> IF a \in chunk.region THEN chunk.map[a]
                                           ELSE state_trie.map[a]],
                    open |-> state_trie.open \ chunk.region,
                    bad |-> (state_trie.bad \ chunk.region) \cup chunk.bad]
  /\ pc' = "chunk_header"
  /\ UNCHANGED <<exec_vars, header, chunk, bundle, todo, run>>

(* replace_frontier_slot, after the check that the chunk's root can be a   *)
(* digest: the prefix may name no slot of this frontier, the slot must     *)
(* hold the root the chunk started from, and it becomes a digest, or Null  *)
(* when the chunk is empty.                                                *)
replace_frontier_slot ==
  /\ pc = "apply"
  /\ run = {}
  /\ \/ Reject
     \/ IF SubtreeRoot(state_trie, chunk.region) # chunk.expected THEN Reject
        ELSE /\ state_trie' =
                  [map |-> [a \in Addr |-> IF a \in chunk.region THEN chunk.map[a]
                                           ELSE state_trie.map[a]],
                   open |-> IF /\ chunk.bad = {}
                               /\ \A a \in chunk.region : chunk.map[a] = None
                            THEN state_trie.open \cup chunk.region
                            ELSE state_trie.open \ chunk.region,
                   bad |-> (state_trie.bad \ chunk.region) \cup chunk.bad]
             /\ pc' = "chunk_header"
             /\ UNCHANGED <<exec_vars, header, chunk, bundle, todo, run>>

(* A mutant: accounts outside every chunk are never validated.             *)
finish_update_unvalidated ==
  /\ pc = "chunk_header"
  /\ header.chunk_count = 0
  /\ IF todo # {} THEN Reject
     ELSE /\ storage_tries' = [a \in Addr |-> Unknown]
          /\ pc' = "root"
          /\ UNCHANGED <<want, account_cache, seen, seenStorage, update_vars>>

(* After the last chunk: every bundle account was consumed, and what is    *)
(* left in the cache agrees with the frontier (validate_account_cache).    *)
(* Then the root must be the state_root of the block's header.             *)
finish_update ==
  /\ pc = "chunk_header"
  /\ header.chunk_count = 0
  /\ IF todo # {} THEN Reject
     ELSE IF \E a \in Addr : /\ account_cache[a] # Unknown
                             /\ \/ a \notin state_trie.open
                                \/ state_trie.map[a] # account_cache[a]
     THEN Reject
     ELSE /\ storage_tries' = [a \in Addr |-> Unknown]
          /\ pc' = "root"
          /\ UNCHANGED <<want, account_cache, seen, seenStorage, update_vars>>

check_state_root ==
  /\ pc = "root"
  /\ \E root_matches \in BOOLEAN : pc' = IF root_matches THEN "accepted" ELSE "rejected"
  /\ UNCHANGED <<exec_vars, update_vars>>

-----------------------------------------------------------------------------
(* The stream: what the guest reads next is the choice of whoever wrote it.*)

ReadItem(item) ==
  \/ read_account(item)
  \/ load_storage_header(item)
  \/ \E hash \in Code : read_bytecode(hash, item)
  \/ read_chunk_header(item)
  \/ read_chunk_witness(item)

ReadBytes ==
  \/ \E trie \in StorageTries : load_storage_trie(trie)
  \/ \E trie \in StateTries : load_frontier(trie)
  \/ \E trie \in StateTries : read_chunk(trie)

Compute ==
  \/ \E a \in Addr : basic_ref(a)
  \/ \E a \in Addr, s \in Slot : storage_ref(a, s)
  \/ \E b \in Bundles : execute(b)
  \/ take_bundle_accounts
  \/ \E a \in Addr : apply_bundle_account(a)
  \/ replace_frontier_slot
  \/ finish_update
  \/ check_state_root

Next ==
  \/ \E h \in Headers : build_streaming_state(h)
  \/ \E item \in Items : ReadItem(item)
  \/ ReadBytes
  \/ Compute

Spec == Init /\ [][Next]_vars

-----------------------------------------------------------------------------
Executing == {"start", "exec", "account", "storage_header", "storage_bytes", "frontier"}
InChunk == {"chunk_witness", "apply"}
Updating == {"chunk_header", "chunk_bytes", "root", "accepted"} \cup InChunk

(* Types of the variables. *)
TypeOK ==
  /\ pc \in Executing \cup Updating \cup {"rejected", "panic"}
  /\ want \in Lookup \cup {Unknown}
  /\ header \in Header
  /\ account_cache \in [Addr -> MaybeAccount \cup {Unknown}]
  /\ storage_tries \in [Addr -> StorageTrie \cup {Unknown}]
  /\ state_trie \in StateTrie
  /\ chunk \in Chunk
  /\ bundle \in Bundle
  /\ todo \subseteq {a \in Addr : bundle[a] # None}
  /\ run \subseteq {a \in Addr : bundle[a] # None}
  /\ pc \in Executing => run = {}
  /\ seen \in [Addr -> MaybeAccount \cup {Unknown}]
  /\ seenStorage \in [Addr -> StorageTrie \cup {Unknown}]

(* The account that a block's change b makes of old.                       *)
PostAccount(old, b) ==
  IF b.info = None THEN None
  ELSE [info |-> b.info,
        storage_root |->
          [map |-> Written(b, IF b.destroyed THEN [s \in Slot |-> Zero]
                              ELSE storage_root(old).map),
           canonical |-> TRUE]]
PostState == [a \in Addr |-> IF bundle[a] = None THEN Parent[a]
                             ELSE PostAccount(Parent[a], bundle[a])]

(* Every account and every storage trie that execution worked with is the  *)
(* parent state's, whatever the stream held: read_account hands values out *)
(* long before they are authenticated, and every one of them is checked    *)
(* against the parent root before the block is accepted.                   *)
AcceptedReadsAreAuthentic ==
  pc = "accepted" =>
    \A a \in Addr :
      /\ seen[a] # Unknown => seen[a] = Parent[a]
      /\ seenStorage[a] # Unknown => RootOf(seenStorage[a]) = storage_root(Parent[a])

(* A block is accepted only with the root of its own post state: if the    *)
(* root in its header is that of a canonical state, that state is the      *)
(* parent state with the block's changes.                                  *)
CanonicalState(trie) ==
  /\ trie.bad = {}
  /\ \A a \in Addr : storage_root(trie.map[a]).canonical
AcceptedRootIsPostState ==
  pc = "accepted" /\ CanonicalState(state_trie) => state_trie.map = PostState

(* validate_account_cache runs after the frontier was updated, and is right *)
(* to compare with it: an account that an earlier chunk may have changed    *)
(* has left the cache by then.                                              *)
CachedAccountsAreNotUpdated ==
  pc \in Updating => \A a \in Addr : account_cache[a] # Unknown => state_trie.map[a] = Parent[a]

-----------------------------------------------------------------------------
(* The inductive invariant behind these properties. *)

(* A chunk that will be accepted started from what its slot holds.         *)
Matches == SubtreeRoot(state_trie, chunk.region) = chunk.expected

(* new is what b makes of old, up to the shape of its storage trie.        *)
Outcome(old, b, new) ==
  IF b.info = None THEN new = None
  ELSE /\ new # None
       /\ new.info = b.info
       /\ new.storage_root.map = Written(b, IF b.destroyed THEN [s \in Slot |-> Zero]
                                            ELSE storage_root(old).map)

(* A lookup in progress has its address, and a storage trie is loaded only *)
(* against an account that was read.                                       *)
LookupInv ==
  /\ pc \in {"account", "storage_header", "storage_bytes"} => want # Unknown
  /\ pc = "storage_bytes" => account_cache[want.a] # Unknown

(* What the history records: the cache, and storage tries with the roots   *)
(* of the accounts they were loaded for.                                   *)
HistoryInv ==
  \A a \in Addr :
    /\ account_cache[a] # Unknown => seen[a] = account_cache[a]
    /\ seenStorage[a] # Unknown => /\ seen[a] # Unknown
                                   /\ RootOf(seenStorage[a]) = storage_root(seen[a])
    /\ storage_tries[a] # Unknown => storage_tries[a] = seenStorage[a]

(* An account leaves the cache only after it was found equal to the        *)
(* parent's, or to that of a chunk whose slot is still to be compared.     *)
SeenInv ==
  /\ pc \in Executing => \A a \in Addr : seen[a] # Unknown => account_cache[a] = seen[a]
  /\ pc \in Updating =>
       \A a \in Addr : seen[a] # Unknown =>
         \/ account_cache[a] = seen[a]
         \/ seen[a] = Parent[a]
         \/ pc \in InChunk /\ ~Matches
  /\ pc \in InChunk => \A a \in chunk.region : account_cache[a] = Unknown

(* The frontier commits to the parent's account where the bundle has       *)
(* nothing or is not consumed yet, and to the changed account elsewhere;   *)
(* the chunk in hand may be ahead of it.                                   *)
FrontierInv ==
  /\ pc = "frontier" => todo = {a \in Addr : bundle[a] # None}
  /\ pc \in Updating =>
       \A a \in Addr :
         /\ bundle[a] = None \/ a \in todo \cup run => state_trie.map[a] = Parent[a]
         /\ bundle[a] # None /\ a \notin todo \cup run =>
              \/ Outcome(Parent[a], bundle[a], state_trie.map[a])
              \/ /\ pc = "apply" /\ a \in chunk.region
                 /\ Matches => Outcome(Parent[a], bundle[a], chunk.map[a])

(* Within a chunk that matches, an account is the frontier's or has been   *)
(* changed.                                                                *)
ChunkInv ==
  /\ pc \in InChunk /\ Matches =>
       \A a \in chunk.region :
         \/ chunk.map[a] = state_trie.map[a]
         \/ /\ bundle[a] # None /\ a \notin todo \cup run
            /\ Outcome(Parent[a], bundle[a], chunk.map[a])
  /\ pc = "apply" => run \subseteq chunk.region /\ run \cap todo = {}
  /\ pc # "apply" /\ pc \in Updating => run = {}

(* At the end nothing is left to apply or to validate.                     *)
FinalInv ==
  pc \in {"root", "accepted"} =>
    /\ todo = {}
    /\ \A a \in Addr : account_cache[a] # Unknown => state_trie.map[a] = account_cache[a]

IndInv == /\ TypeOK /\ LookupInv /\ HistoryInv /\ SeenInv /\ CachedAccountsAreNotUpdated
          /\ FrontierInv /\ ChunkInv /\ FinalInv

=============================================================================
