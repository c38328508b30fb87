------------------------ MODULE StreamingState_proofs ------------------------
(* Soundness of the guest for every stream, every set of accounts and every *)
(* cut of the state into chunks.                                            *)
EXTENDS StreamingState, TLAPS

(* The values that computations give have their types.                     *)
LEMMA RootTypes ==
  /\ EMPTY_ROOT_HASH \in StorageRoot
  /\ \A acc \in MaybeAccount : storage_root(acc) \in StorageRoot
  /\ \A t \in StorageTrie : RootOf(t) \in StorageRoot
  /\ FreshTrie \in StorageTrie
BY MarkerAssumption
   DEF EMPTY_ROOT_HASH, StorageRoot, Storage, storage_root, MaybeAccount, Account, RootOf,
       StorageTrie, FreshTrie

LEMMA WrittenType ==
  ASSUME NEW b \in BundleAccount, NEW map \in Storage
  PROVE  Written(b, map) \in Storage
BY MarkerAssumption DEF Written, BundleAccount, Storage

LEMMA UpdatedRootsType ==
  ASSUME NEW b \in BundleAccount, NEW trie \in StorageTrie, NEW root \in UpdatedRoots(b, trie)
  PROVE  root \in StorageRoot /\ root.map = Written(b, trie.map)
BY DEF UpdatedRoots

(* Writing no slot changes nothing.                                        *)
LEMMA WriteNothing ==
  ASSUME NEW b \in BundleAccount, NEW map \in Storage, Changed(b) = {}
  PROVE  Written(b, map) = map
BY DEF Changed, Written, Storage

LEMMA NewStorageRootsType ==
  ASSUME NEW a \in Addr, NEW b \in BundleAccount, NEW old \in MaybeAccount,
         storage_tries \in [Addr -> StorageTrie \cup {Unknown}],
         NEW root \in NewStorageRoots(a, b, old)
  PROVE  root \in StorageRoot
<1>1. CASE storage_tries[a] = Unknown
  BY <1>1, RootTypes, UpdatedRootsType DEF NewStorageRoots
<1>2. CASE storage_tries[a] \in StorageTrie
  BY <1>2, RootTypes, UpdatedRootsType DEF NewStorageRoots
<1> QED BY <1>1, <1>2

(* The types, as the definitions every step expands.                       *)
LEMMA FailTypes == TypeOK /\ (Reject \/ Panic \/ UNCHANGED vars) => TypeOK'
BY DEF TypeOK, Executing, Updating, Reject, Panic, exec_vars, update_vars, vars

LEMMA ReadItemTypes ==
  ASSUME TypeOK, NEW item \in Item, ReadItem(item)
  PROVE  TypeOK'
<1>2. CASE read_account(item)
  <2>1. CASE Reject
    BY <2>1, FailTypes
  <2>2. CASE ~Reject
    <3>1. item.a \in Addr /\ item.account \in MaybeAccount
      BY <1>2, <2>2 DEF read_account, Item, AccountItem, StorageItem, BytecodeItem, ChunkItem
    <3> QED BY <1>2, <2>2, <3>1 DEF read_account, TypeOK, Executing, Updating, update_vars
  <2> QED BY <2>1, <2>2
<1>3. CASE load_storage_header(item)
  BY <1>3, FailTypes DEF load_storage_header, TypeOK, Executing, Updating, exec_vars, update_vars
<1>4. CASE \E hash \in Code : read_bytecode(hash, item)
  BY <1>4, FailTypes DEF read_bytecode
<1>5. CASE read_chunk_header(item)
  <2>1. CASE Reject
    BY <2>1, FailTypes
  <2>2. CASE ~Reject
    <3>1. item.region \in Regions /\ item.expected \in StateRoot /\ item.count \in Nat
      BY <1>5, <2>2
         DEF read_chunk_header, Item, AccountItem, StorageItem, BytecodeItem, ChunkItem
    <3>2. item.region \in SUBSET Addr
      BY <3>1, AddrAssumption
    <3>3. chunk' \in Chunk
      BY <1>5, <2>2, <3>1, <3>2 DEF read_chunk_header, TypeOK, Chunk
    <3>4. header' \in Header
      BY <1>5, <2>2 DEF read_chunk_header, TypeOK, Header
    <3> QED BY <1>5, <2>2, <3>3, <3>4 DEF read_chunk_header, TypeOK, Executing, Updating, exec_vars
  <2> QED BY <2>1, <2>2
<1>6. CASE read_chunk_witness(item)
  <2>1. CASE Reject \/ Panic
    BY <2>1, FailTypes
  <2>2. CASE ~(Reject \/ Panic)
    <3>1. chunk' = [chunk EXCEPT !.count = @ - 1] /\ chunk.count > 0
          /\ UNCHANGED <<pc, exec_vars, header, state_trie, bundle, todo, run>>
      BY <1>6, <2>2 DEF read_chunk_witness
    <3>2. chunk' \in Chunk
      BY <3>1 DEF TypeOK, Chunk
    <3> QED BY <3>1, <3>2 DEF TypeOK, exec_vars
  <2> QED BY <2>1, <2>2
<1> QED BY <1>2, <1>3, <1>4, <1>5, <1>6 DEF ReadItem

(* Any bytes may follow a hint.                                            *)
AnyBytes ==
  \/ \E trie \in StorageTrie : load_storage_trie(trie)
  \/ \E trie \in StateTrie : load_frontier(trie) \/ read_chunk(trie)

LEMMA AnyBytesTypes ==
  ASSUME TypeOK, AnyBytes
  PROVE  TypeOK'
<1>1. ASSUME NEW trie \in StorageTrie, load_storage_trie(trie)
      PROVE  TypeOK'
  BY <1>1, FailTypes
     DEF load_storage_trie, TypeOK, Executing, Updating, update_vars
<1>2. ASSUME NEW trie \in StateTrie, load_frontier(trie)
      PROVE  TypeOK'
  BY <1>2, FailTypes DEF load_frontier, TypeOK, Executing, Updating, exec_vars
<1>3. ASSUME NEW trie \in StateTrie, read_chunk(trie)
      PROVE  TypeOK'
  <2>1. CASE Reject
    BY <2>1, FailTypes
  <2>2. CASE ~Reject
    <3>1. chunk' \in Chunk
      BY <1>3, <2>2 DEF read_chunk, TypeOK, Chunk, StateTrie
    <3>2. account_cache' \in [Addr -> MaybeAccount \cup {Unknown}]
      BY <1>3, <2>2 DEF read_chunk, TypeOK
    <3> QED BY <1>3, <2>2, <3>1, <3>2 DEF read_chunk, TypeOK, Executing, Updating, InChunk
  <2> QED BY <2>1, <2>2
<1> QED BY <1>1, <1>2, <1>3 DEF AnyBytes

LEMMA ApplyTypes ==
  ASSUME TypeOK, NEW a \in Addr, apply_bundle_account(a)
  PROVE  TypeOK'
<1>1. CASE Reject
  BY <1>1, FailTypes
<1>2. CASE ~Reject
  <2>1. bundle[a] \in BundleAccount /\ chunk.map[a] \in MaybeAccount
    BY DEF apply_bundle_account, TypeOK, Bundle, Chunk, StateMap
  <2>2. PICK account \in MaybeAccount, bad \in SUBSET Addr :
          chunk' = [chunk EXCEPT !.map = [chunk.map EXCEPT ![a] = account], !.bad = bad]
    <3>1. CASE bundle[a].info = None
      <4>1. chunk.bad \subseteq Addr /\ chunk.bad \cup {a} \subseteq Addr /\ None \in MaybeAccount
        BY DEF TypeOK, Chunk, MaybeAccount
      <4>2. PICK bad \in {chunk.bad, chunk.bad \cup {a}} :
              chunk' = [chunk EXCEPT !.map = [chunk.map EXCEPT ![a] = None], !.bad = bad]
        BY <1>2, <3>1 DEF apply_bundle_account
      <4> QED BY <4>1, <4>2
    <3>2. CASE bundle[a].info # None
      <4>1. PICK root \in NewStorageRoots(a, bundle[a], chunk.map[a]) :
              chunk' = [chunk EXCEPT !.map = [chunk.map EXCEPT ![a] =
                                       [info |-> bundle[a].info, storage_root |-> root]],
                                     !.bad = chunk.bad]
        BY <1>2, <3>2 DEF apply_bundle_account
      <4>2. root \in StorageRoot
        BY <2>1, <4>1, NewStorageRootsType DEF TypeOK
      <4>3. [info |-> bundle[a].info, storage_root |-> root] \in MaybeAccount
        BY <2>1, <3>2, <4>2 DEF BundleAccount, MaybeAccount, Account
      <4> QED BY <4>1, <4>3 DEF TypeOK, Chunk
    <3> QED BY <3>1, <3>2
  <2>3. chunk' \in Chunk
    BY <2>2 DEF TypeOK, Chunk, StateMap
  <2>4. storage_tries' \in [Addr -> StorageTrie \cup {Unknown}] /\ run' \subseteq run
    BY <1>2 DEF apply_bundle_account, TypeOK
  <2>5. UNCHANGED <<pc, want, account_cache, seen, seenStorage, header, state_trie, bundle, todo>>
    BY <1>2 DEF apply_bundle_account
  <2> QED BY <2>3, <2>4, <2>5 DEF TypeOK
<1> QED BY <1>1, <1>2

LEMMA ExecuteTypes ==
  ASSUME TypeOK, NEW b \in Bundle, execute(b)
  PROVE  TypeOK'
<1>1. run' = {}
  BY DEF execute, TypeOK, Executing
<1> QED BY <1>1 DEF execute, TypeOK, Executing, Updating, exec_vars

LEMMA ComputeTypes == TypeOK /\ Compute => TypeOK'
<1> SUFFICES ASSUME TypeOK, Compute
             PROVE  TypeOK'
  OBVIOUS
<1>1. ASSUME NEW a \in Addr, basic_ref(a)
      PROVE  TypeOK'
  BY <1>1 DEF basic_ref, TypeOK, Executing, Updating, Lookup, update_vars
<1>2. ASSUME NEW a \in Addr, NEW s \in Slot, storage_ref(a, s)
      PROVE  TypeOK'
  BY <1>2, FailTypes DEF storage_ref, TypeOK, Executing, Updating, Lookup, update_vars
<1>3. ASSUME NEW b \in Bundles, execute(b)
      PROVE  TypeOK'
  BY <1>3, ExecuteTypes, ArrivalAssumption
<1>4. CASE take_bundle_accounts
  <2>1. CASE Reject
    BY <2>1, FailTypes
  <2>2. CASE ~Reject
    <3>1. run' \subseteq todo /\ todo' \subseteq todo /\ pc' = "apply"
          /\ UNCHANGED <<exec_vars, header, state_trie, chunk, bundle>>
      BY <1>4, <2>2 DEF take_bundle_accounts
    <3> QED BY <3>1 DEF TypeOK, Executing, Updating, InChunk, exec_vars
  <2> QED BY <2>1, <2>2
<1>5. ASSUME NEW a \in Addr, apply_bundle_account(a)
      PROVE  TypeOK'
  BY <1>5, ApplyTypes
<1>6. CASE replace_frontier_slot
  <2>1. CASE Reject
    BY <2>1, FailTypes
  <2>2. CASE ~Reject
    <3>1. state_trie' \in StateTrie
      BY <1>6, <2>2 DEF replace_frontier_slot, TypeOK, StateTrie, StateMap, Chunk
    <3> QED BY <1>6, <2>2, <3>1 DEF replace_frontier_slot, TypeOK, Executing, Updating, exec_vars
  <2> QED BY <2>1, <2>2
<1>7. CASE finish_update
  BY <1>7, FailTypes DEF finish_update, TypeOK, Executing, Updating, update_vars
<1>8. CASE check_state_root
  BY <1>8 DEF check_state_root, TypeOK, Executing, Updating, exec_vars, update_vars
<1> QED BY <1>1, <1>2, <1>3, <1>4, <1>5, <1>6, <1>7, <1>8 DEF Compute

LEMMA HeaderTypes ==
  ASSUME TypeOK, NEW h \in Header, build_streaming_state(h)
  PROVE  TypeOK'
BY DEF build_streaming_state, TypeOK, Executing, exec_vars

LEMMA TypeStep == TypeOK /\ [Next]_vars => TypeOK'
<1>1. ReadBytes => AnyBytes
  BY ArrivalAssumption DEF ReadBytes, AnyBytes
<1> QED BY <1>1, ArrivalAssumption, HeaderTypes, ReadItemTypes, AnyBytesTypes, ComputeTypes, FailTypes
        DEF Next

LEMMA InitTypes == Init => TypeOK
BY MarkerAssumption
   DEF Init, TypeOK, Executing, Updating, InChunk, Header, StateTrie, StateMap, MaybeAccount,
       Chunk, StateRoot, Bundle

(* Type correctness of the guest.                                          *)
THEOREM TypeCorrect == Spec => []TypeOK
BY InitTypes, TypeStep, PTL DEF Spec

-----------------------------------------------------------------------------
(* The inductive invariant. *)

LEMMA FailStep == IndInv /\ (Reject \/ Panic \/ UNCHANGED vars) => IndInv'
<1> SUFFICES ASSUME IndInv, Reject \/ Panic \/ UNCHANGED vars
             PROVE  IndInv'
  OBVIOUS
<1>1. TypeOK'
  BY FailTypes DEF IndInv
<1>2. CASE UNCHANGED vars
  BY <1>2 DEF IndInv, vars, TypeOK, LookupInv, HistoryInv, SeenInv, CachedAccountsAreNotUpdated,
              FrontierInv, ChunkInv, FinalInv, Matches
<1>3. CASE Reject \/ Panic
  BY <1>1, <1>3
     DEF IndInv, Reject, Panic, Executing, Updating, InChunk, LookupInv, HistoryInv, SeenInv,
         CachedAccountsAreNotUpdated, FrontierInv, ChunkInv, FinalInv, exec_vars
<1> QED BY <1>2, <1>3

(* While the block executes, only the lookups and the history matter.      *)
LEMMA ExecutingStep ==
  ASSUME IndInv, TypeOK', pc \in Executing, pc' \in Executing \cup {"panic"},
         UNCHANGED <<bundle, todo>>, pc' # "frontier",
         LookupInv', HistoryInv',
         \A a \in Addr : seen[a]' # Unknown => account_cache[a]' = seen[a]'
  PROVE  IndInv'
BY DEF IndInv, Executing, Updating, InChunk, SeenInv, CachedAccountsAreNotUpdated, FrontierInv,
       ChunkInv, FinalInv

LEMMA LookupStep ==
  ASSUME IndInv, NEW a \in Addr, basic_ref(a) \/ \E s \in Slot : storage_ref(a, s)
  PROVE  IndInv'
<1>1. CASE basic_ref(a)
  <2>1. TypeOK'
    BY <1>1, ComputeTypes DEF IndInv, Compute
  <2>2. LookupInv'
    BY <1>1, <2>1, MarkerAssumption DEF basic_ref, LookupInv, TypeOK, Lookup
  <2>3. HistoryInv'
    BY <1>1 DEF basic_ref, IndInv, HistoryInv
  <2> QED BY <1>1, <2>1, <2>2, <2>3, ExecutingStep
          DEF basic_ref, Executing, IndInv, SeenInv, update_vars
<1>2. ASSUME NEW s \in Slot, storage_ref(a, s), ~Panic
      PROVE  IndInv'
  <2>1. TypeOK'
    BY <1>2, ComputeTypes DEF IndInv, Compute
  <2>2. LookupInv'
    BY <1>2, MarkerAssumption DEF storage_ref, LookupInv, Lookup
  <2>3. HistoryInv'
    BY <1>2 DEF storage_ref, IndInv, HistoryInv
  <2> QED BY <1>2, <2>1, <2>2, <2>3, ExecutingStep
          DEF storage_ref, Executing, IndInv, SeenInv, update_vars
<1> QED BY <1>1, <1>2, FailStep

LEMMA read_accountStep ==
  ASSUME IndInv, NEW item \in Item, read_account(item), ~Reject
  PROVE  IndInv'
<1>1. item.a \in Addr /\ item.account \in MaybeAccount /\ item.account # Unknown
  BY MarkerAssumption
     DEF read_account, Item, AccountItem, StorageItem, BytecodeItem, ChunkItem
<1>2. TypeOK'
  BY ReadItemTypes DEF IndInv, ReadItem
<1>3. account_cache[item.a] = Unknown /\ seen[item.a] = Unknown /\ seenStorage[item.a] = Unknown
  BY <1>1 DEF read_account, IndInv, SeenInv, HistoryInv, Executing
<1>4. LookupInv'
  BY <1>1 DEF read_account, IndInv, LookupInv, TypeOK
<1>5. HistoryInv'
  BY <1>1, <1>3 DEF read_account, IndInv, HistoryInv, TypeOK
<1>6. \A a \in Addr : seen[a]' # Unknown => account_cache[a]' = seen[a]'
  BY <1>1 DEF read_account, IndInv, SeenInv, TypeOK, Executing
<1> QED BY <1>2, <1>4, <1>5, <1>6, ExecutingStep DEF read_account, Executing, update_vars

LEMMA load_storage_headerStep ==
  ASSUME IndInv, NEW item \in Item, load_storage_header(item), ~Reject
  PROVE  IndInv'
<1>1. TypeOK'
  BY ReadItemTypes DEF IndInv, ReadItem
<1>2. LookupInv'
  BY DEF load_storage_header, IndInv, LookupInv, exec_vars
<1>3. HistoryInv'
  BY DEF load_storage_header, IndInv, HistoryInv, exec_vars
<1> QED BY <1>1, <1>2, <1>3, ExecutingStep
        DEF load_storage_header, Executing, IndInv, SeenInv, exec_vars, update_vars

LEMMA load_storage_trieStep ==
  ASSUME IndInv, NEW trie \in StorageTrie, load_storage_trie(trie), ~Reject
  PROVE  IndInv'
<1>1. TypeOK'
  BY AnyBytesTypes DEF IndInv, AnyBytes
<1>2. want.a \in Addr /\ account_cache[want.a] # Unknown
  BY DEF load_storage_trie, IndInv, LookupInv, TypeOK, Lookup
<1>3. HistoryInv'
  BY <1>2 DEF load_storage_trie, IndInv, HistoryInv, TypeOK
<1>4. LookupInv'
  BY DEF load_storage_trie, LookupInv
<1> QED BY <1>1, <1>3, <1>4, ExecutingStep
        DEF load_storage_trie, Executing, IndInv, SeenInv, update_vars

LEMMA ExecuteStep ==
  ASSUME IndInv, NEW b \in Bundle, execute(b)
  PROVE  IndInv'
<1>1. TypeOK'
  BY ExecuteTypes DEF IndInv
<1> QED BY <1>1
        DEF execute, IndInv, LookupInv, HistoryInv, SeenInv, CachedAccountsAreNotUpdated,
            FrontierInv, ChunkInv, FinalInv, Executing, Updating, InChunk, exec_vars

LEMMA load_frontierStep ==
  ASSUME IndInv, NEW trie \in StateTrie, load_frontier(trie), ~Reject
  PROVE  IndInv'
<1>1. TypeOK'
  BY AnyBytesTypes DEF IndInv, AnyBytes
<1>2. state_trie'.map = Parent /\ pc = "frontier" /\ pc' = "chunk_header" /\ run = {}
      /\ UNCHANGED <<exec_vars, header, chunk, bundle, todo, run>>
  BY DEF load_frontier, IndInv, TypeOK, Executing
<1>3. SeenInv'
  BY <1>2 DEF IndInv, SeenInv, Executing, Updating, InChunk, exec_vars
<1>4. FrontierInv'
  BY <1>2 DEF IndInv, FrontierInv
<1> QED BY <1>1, <1>2, <1>3, <1>4
        DEF IndInv, LookupInv, HistoryInv, CachedAccountsAreNotUpdated, ChunkInv, FinalInv,
            InChunk, exec_vars

(* The steps of an update keep the history.                                *)
LEMMA UpdateStep ==
  ASSUME IndInv, TypeOK', pc \in Updating, pc' \in Updating,
         UNCHANGED <<seen, seenStorage>>,
         \A a \in Addr : account_cache'[a] \in {account_cache[a], Unknown},
         \A a \in Addr : storage_tries'[a] \in {storage_tries[a], Unknown},
         SeenInv', CachedAccountsAreNotUpdated', FrontierInv', ChunkInv', FinalInv'
  PROVE  IndInv'
<1>1. HistoryInv'
  BY DEF IndInv, HistoryInv
<1> QED BY <1>1 DEF IndInv, LookupInv, Updating, InChunk

LEMMA read_chunk_headerStep ==
  ASSUME IndInv, NEW item \in Item, read_chunk_header(item), ~Reject
  PROVE  IndInv'
<1>1. TypeOK'
  BY ReadItemTypes DEF IndInv, ReadItem
<1>2. pc = "chunk_header" /\ pc' = "chunk_bytes" /\ UNCHANGED <<exec_vars, state_trie, bundle, todo, run>>
  BY DEF read_chunk_header
<1>3. SeenInv'
  BY <1>2 DEF IndInv, SeenInv, Executing, Updating, InChunk, exec_vars
<1>4. FrontierInv'
  BY <1>2 DEF IndInv, FrontierInv, Updating
<1>5. CachedAccountsAreNotUpdated' /\ ChunkInv' /\ FinalInv'
  BY <1>2 DEF IndInv, CachedAccountsAreNotUpdated, ChunkInv, FinalInv, Updating, InChunk, exec_vars
<1> QED BY <1>1, <1>2, <1>3, <1>4, <1>5, UpdateStep DEF Updating, exec_vars

LEMMA read_chunkStep ==
  ASSUME IndInv, NEW trie \in StateTrie, read_chunk(trie), ~Reject
  PROVE  IndInv'
<1>1. TypeOK'
  BY AnyBytesTypes DEF IndInv, AnyBytes
<1>2. /\ pc = "chunk_bytes" /\ pc' = "chunk_witness"
      /\ UNCHANGED <<want, storage_tries, seen, seenStorage, header, state_trie, bundle, todo, run>>
      /\ account_cache' = [a \in Addr |-> IF a \in chunk.region THEN Unknown ELSE account_cache[a]]
      /\ \A a \in chunk.region : account_cache[a] # Unknown => trie.map[a] = account_cache[a]
      /\ trie.map = chunk.expected.map
  BY DEF read_chunk
<1>3. /\ chunk'.region = chunk.region /\ chunk'.expected = chunk.expected /\ chunk'.map = trie.map
      /\ chunk.region \subseteq Addr
  BY DEF read_chunk, IndInv, TypeOK, Chunk
<1>4. Matches' => \A a \in chunk.region : trie.map[a] = state_trie.map[a]
  BY <1>2, <1>3 DEF Matches, SubtreeRoot, Below
<1>5. SeenInv'
  <2>1. ASSUME NEW a \in Addr, seen'[a] # Unknown
        PROVE  account_cache'[a] = seen'[a] \/ seen'[a] = Parent[a] \/ ~Matches'
    <3>1. account_cache[a] = seen[a] \/ seen[a] = Parent[a]
      BY <1>2, <2>1 DEF IndInv, SeenInv, Updating, InChunk
    <3>2. CASE a \in chunk.region /\ account_cache[a] = seen[a]
      <4>1. state_trie.map[a] = Parent[a]
        BY <1>2, <2>1, <3>2 DEF IndInv, CachedAccountsAreNotUpdated, Updating
      <4> QED BY <1>2, <1>4, <2>1, <3>2, <4>1
    <3> QED BY <1>2, <3>1, <3>2
  <2> QED BY <1>2, <1>3, <2>1 DEF SeenInv, Executing, Updating, InChunk
<1>6. FrontierInv'
  BY <1>2 DEF IndInv, FrontierInv, Updating
<1>7. ChunkInv'
  BY <1>2, <1>3, <1>4 DEF IndInv, ChunkInv, Updating
<1>8. CachedAccountsAreNotUpdated' /\ FinalInv'
  BY <1>2 DEF IndInv, CachedAccountsAreNotUpdated, FinalInv, Updating
<1> QED BY <1>1, <1>2, <1>5, <1>6, <1>7, <1>8, UpdateStep DEF Updating, InChunk

LEMMA read_chunk_witnessStep ==
  ASSUME IndInv, NEW item \in Item, read_chunk_witness(item), ~(Reject \/ Panic)
  PROVE  IndInv'
<1>1. TypeOK'
  BY ReadItemTypes DEF IndInv, ReadItem
<1>2. /\ pc = "chunk_witness" /\ chunk' = [chunk EXCEPT !.count = @ - 1]
      /\ UNCHANGED <<pc, exec_vars, header, state_trie, bundle, todo, run>>
  BY DEF read_chunk_witness
<1>3. chunk'.region = chunk.region /\ chunk'.expected = chunk.expected /\ chunk'.map = chunk.map
  BY <1>2 DEF IndInv, TypeOK, Chunk
<1>4. Matches' <=> Matches
  BY <1>2, <1>3 DEF Matches
<1>5. SeenInv' /\ CachedAccountsAreNotUpdated' /\ FinalInv'
  BY <1>2, <1>3, <1>4 DEF IndInv, SeenInv, CachedAccountsAreNotUpdated, FinalInv, exec_vars
<1>6. FrontierInv' /\ ChunkInv'
  BY <1>2, <1>3, <1>4 DEF IndInv, FrontierInv, ChunkInv
<1> QED BY <1>1, <1>2, <1>5, <1>6, UpdateStep DEF Updating, InChunk, exec_vars

LEMMA take_bundle_accountsStep ==
  ASSUME IndInv, take_bundle_accounts, ~Reject
  PROVE  IndInv'
<1>1. TypeOK'
  BY ComputeTypes DEF IndInv, Compute
<1>2. /\ pc = "chunk_witness" /\ pc' = "apply"
      /\ UNCHANGED <<exec_vars, header, state_trie, chunk, bundle>>
      /\ run' \subseteq todo \cap chunk.region /\ todo' = todo \ run'
  BY DEF take_bundle_accounts
<1>3. run = {}
  BY <1>2 DEF IndInv, ChunkInv, Updating, InChunk
<1>4. Matches' <=> Matches
  BY <1>2 DEF Matches
<1>5. SeenInv' /\ CachedAccountsAreNotUpdated' /\ FinalInv'
  BY <1>2, <1>4
     DEF IndInv, SeenInv, CachedAccountsAreNotUpdated, FinalInv, exec_vars, Executing, Updating, InChunk
<1>6. \A a \in Addr : a \in todo' \cup run' <=> a \in todo \cup run
  BY <1>2, <1>3
<1>7. FrontierInv'
  BY <1>2, <1>6 DEF IndInv, FrontierInv, Updating, InChunk
<1>8. ChunkInv'
  BY <1>2, <1>3, <1>4, <1>6 DEF IndInv, ChunkInv, Updating, InChunk
<1> QED BY <1>1, <1>2, <1>5, <1>7, <1>8, UpdateStep DEF Updating, InChunk, exec_vars

(* The storage root a chunk's account gets holds the block's writes on top *)
(* of the parent's storage, provided that the storage trie used for them   *)
(* is that of the parent's account.                                        *)
LEMMA NewStorageRootsMap ==
  ASSUME NEW a \in Addr, NEW b \in BundleAccount, NEW old \in MaybeAccount,
         storage_tries \in [Addr -> StorageTrie \cup {Unknown}],
         storage_tries[a] # Unknown => RootOf(storage_tries[a]) = storage_root(old),
         NEW root \in NewStorageRoots(a, b, old)
  PROVE  root.map = Written(b, IF b.destroyed THEN [s \in Slot |-> Zero] ELSE storage_root(old).map)
<1>1. FreshTrie \in StorageTrie /\ FreshTrie.map = [s \in Slot |-> Zero]
  BY RootTypes DEF FreshTrie
<1>2. storage_root(old).map \in Storage
  BY RootTypes DEF StorageRoot
<1>3. CASE b.destroyed
  BY <1>1, <1>3, UpdatedRootsType DEF NewStorageRoots
<1>4. CASE ~b.destroyed /\ Changed(b) = {}
  <2>1. root = storage_root(old)
    BY <1>4 DEF NewStorageRoots
  <2> QED BY <1>2, <1>4, <2>1, WriteNothing
<1>5. CASE ~b.destroyed /\ Changed(b) # {} /\ storage_tries[a] # Unknown
  <2>1. storage_tries[a] \in StorageTrie /\ root \in UpdatedRoots(b, storage_tries[a])
    BY <1>5 DEF NewStorageRoots
  <2>2. storage_tries[a].map = storage_root(old).map
    BY <1>5 DEF RootOf
  <2> QED BY <1>5, <2>1, <2>2, UpdatedRootsType
<1>6. CASE ~b.destroyed /\ Changed(b) # {} /\ storage_tries[a] = Unknown
  <2>1. storage_root(old) = EMPTY_ROOT_HASH /\ root \in UpdatedRoots(b, FreshTrie)
    BY <1>6 DEF NewStorageRoots
  <2> QED BY <1>1, <1>6, <2>1, UpdatedRootsType DEF EMPTY_ROOT_HASH
<1> QED BY <1>3, <1>4, <1>5, <1>6

LEMMA apply_bundle_accountStep ==
  ASSUME IndInv, NEW a \in Addr, apply_bundle_account(a), ~Reject
  PROVE  IndInv'
<1> DEFINE b == bundle[a]
           old == chunk.map[a]
<1>1. TypeOK'
  BY ApplyTypes DEF IndInv
<1>2. /\ pc = "apply" /\ a \in run /\ run' = run \ {a}
      /\ UNCHANGED <<pc, want, account_cache, seen, seenStorage, header, state_trie, bundle, todo>>
      /\ storage_tries' \in {storage_tries, [storage_tries EXCEPT ![a] = Unknown]}
  BY DEF apply_bundle_account
<1>3. b \in BundleAccount /\ old \in MaybeAccount /\ a \in chunk.region /\ a \notin todo
  BY <1>2 DEF IndInv, TypeOK, Bundle, Chunk, StateMap, ChunkInv
<1>4. PICK new, bad :
        /\ chunk' = [chunk EXCEPT !.map = [chunk.map EXCEPT ![a] = new], !.bad = bad]
        /\ IF b.info = None THEN new = None
           ELSE \E root \in NewStorageRoots(a, b, old) :
                  new = [info |-> b.info, storage_root |-> root]
  <2>1. CASE b.info = None
    BY <2>1 DEF apply_bundle_account
  <2>2. CASE b.info # None
    BY <2>2 DEF apply_bundle_account
  <2> QED BY <2>1, <2>2
<1>5. /\ chunk'.region = chunk.region /\ chunk'.expected = chunk.expected
      /\ chunk'.map[a] = new
      /\ \A c \in Addr \ {a} : chunk'.map[c] = chunk.map[c]
      /\ chunk.region \subseteq Addr
  BY <1>4 DEF IndInv, TypeOK, Chunk, StateMap
<1>6. Matches' <=> Matches
  BY <1>2, <1>5 DEF Matches
<1>7. Matches => Outcome(Parent[a], b, new)
  <2> SUFFICES ASSUME Matches
               PROVE  Outcome(Parent[a], b, new)
    OBVIOUS
  <2>1. old = Parent[a]
    BY <1>2, <1>3 DEF IndInv, ChunkInv, FrontierInv, Updating, InChunk
  <2>2. storage_tries[a] # Unknown => RootOf(storage_tries[a]) = storage_root(old)
    BY <1>2, <1>3, <2>1 DEF IndInv, HistoryInv, SeenInv, Updating, InChunk
  <2>3. CASE b.info = None
    BY <1>4, <2>3 DEF Outcome
  <2>4. CASE b.info # None
    <3>1. PICK root \in NewStorageRoots(a, b, old) : new = [info |-> b.info, storage_root |-> root]
      BY <1>4, <2>4
    <3>2. root.map = Written(b, IF b.destroyed THEN [s \in Slot |-> Zero] ELSE storage_root(old).map)
      BY <1>3, <2>2, <3>1, NewStorageRootsMap DEF IndInv, TypeOK
    <3>3. new \in Account
      BY <1>3, <2>4, <3>1, NewStorageRootsType DEF IndInv, TypeOK, Account, BundleAccount
    <3>4. new # None /\ new.info = b.info /\ new.storage_root = root
      BY <3>1, <3>3, MarkerAssumption
    <3> QED BY <2>1, <2>4, <3>2, <3>4 DEF Outcome
  <2> QED BY <2>3, <2>4
<1>8. bundle[a] # None
  BY <1>3, MarkerAssumption
<1>9. SeenInv' /\ CachedAccountsAreNotUpdated' /\ FinalInv'
  BY <1>2, <1>5, <1>6
     DEF IndInv, SeenInv, CachedAccountsAreNotUpdated, FinalInv, Executing, Updating, InChunk
<1>10. FrontierInv'
  BY <1>2, <1>3, <1>5, <1>6, <1>7, <1>8 DEF IndInv, FrontierInv
<1>11. ChunkInv'
  BY <1>2, <1>3, <1>5, <1>6, <1>7, <1>8 DEF IndInv, ChunkInv
<1>12. \A c \in Addr : storage_tries'[c] \in {storage_tries[c], Unknown}
  BY <1>2 DEF IndInv, TypeOK
<1> QED BY <1>1, <1>2, <1>9, <1>10, <1>11, <1>12, UpdateStep DEF Updating, InChunk

LEMMA replace_frontier_slotStep ==
  ASSUME IndInv, replace_frontier_slot, ~Reject
  PROVE  IndInv'
<1>1. TypeOK'
  BY ComputeTypes DEF IndInv, Compute
<1>2. /\ pc = "apply" /\ pc' = "chunk_header" /\ run = {} /\ Matches
      /\ state_trie'.map = [a \in Addr |-> IF a \in chunk.region THEN chunk.map[a]
                                           ELSE state_trie.map[a]]
      /\ UNCHANGED <<exec_vars, header, chunk, bundle, todo, run>>
  BY DEF replace_frontier_slot, Matches
<1>3. SeenInv'
  BY <1>2 DEF IndInv, SeenInv, Executing, Updating, InChunk, exec_vars
<1>4. CachedAccountsAreNotUpdated'
  BY <1>2 DEF IndInv, SeenInv, CachedAccountsAreNotUpdated, Updating, InChunk, exec_vars
<1>5. FrontierInv'
  <2>1. ASSUME NEW a \in Addr
        PROVE  /\ bundle[a] = None \/ a \in todo => state_trie'.map[a] = Parent[a]
               /\ bundle[a] # None /\ a \notin todo =>
                    Outcome(Parent[a], bundle[a], state_trie'.map[a])
    <3>1. CASE a \in chunk.region
      BY <1>2, <3>1 DEF IndInv, FrontierInv, ChunkInv, Updating, InChunk
    <3>2. CASE a \notin chunk.region
      BY <1>2, <3>2 DEF IndInv, FrontierInv, Updating, InChunk
    <3> QED BY <3>1, <3>2
  <2> QED BY <1>2, <2>1 DEF FrontierInv
<1>6. ChunkInv' /\ FinalInv'
  BY <1>2 DEF ChunkInv, FinalInv, InChunk
<1> QED BY <1>1, <1>2, <1>3, <1>4, <1>5, <1>6, UpdateStep DEF Updating, InChunk, exec_vars

LEMMA finish_updateStep ==
  ASSUME IndInv, finish_update, ~Reject
  PROVE  IndInv'
<1>1. TypeOK'
  BY ComputeTypes DEF IndInv, Compute
<1>2. /\ pc = "chunk_header" /\ pc' = "root" /\ todo = {}
      /\ \A a \in Addr : account_cache[a] # Unknown => state_trie.map[a] = account_cache[a]
      /\ storage_tries' = [a \in Addr |-> Unknown]
      /\ UNCHANGED <<want, account_cache, seen, seenStorage, header, state_trie, chunk, bundle, todo, run>>
  BY DEF finish_update, update_vars
<1>3. SeenInv' /\ CachedAccountsAreNotUpdated' /\ FinalInv'
  BY <1>2 DEF IndInv, SeenInv, CachedAccountsAreNotUpdated, FinalInv, Executing, Updating, InChunk
<1>4. FrontierInv' /\ ChunkInv'
  BY <1>2 DEF IndInv, FrontierInv, ChunkInv, Updating, InChunk
<1> QED BY <1>1, <1>2, <1>3, <1>4, UpdateStep DEF Updating

LEMMA check_state_rootStep ==
  ASSUME IndInv, check_state_root
  PROVE  IndInv'
<1>1. CASE Reject
  BY <1>1, FailStep
<1>2. CASE ~Reject
  <2>1. TypeOK'
    BY ComputeTypes DEF IndInv, Compute
  <2>2. pc = "root" /\ pc' = "accepted" /\ UNCHANGED <<exec_vars, update_vars>>
    BY <1>2 DEF check_state_root, Reject
  <2>3. SeenInv' /\ CachedAccountsAreNotUpdated' /\ FinalInv'
    BY <2>2 DEF IndInv, SeenInv, CachedAccountsAreNotUpdated, FinalInv, Executing, Updating, InChunk,
                exec_vars, update_vars
  <2>4. FrontierInv' /\ ChunkInv'
    BY <2>2 DEF IndInv, FrontierInv, ChunkInv, Updating, InChunk, update_vars
  <2> QED BY <2>1, <2>2, <2>3, <2>4, UpdateStep DEF Updating, exec_vars
<1> QED BY <1>1, <1>2

LEMMA HeaderStep ==
  ASSUME IndInv, NEW h \in Header, build_streaming_state(h)
  PROVE  IndInv'
<1>1. TypeOK'
  BY HeaderTypes DEF IndInv
<1>2. LookupInv' /\ HistoryInv'
  BY DEF build_streaming_state, IndInv, LookupInv, HistoryInv, exec_vars
<1> QED BY <1>1, <1>2, ExecutingStep
        DEF build_streaming_state, Executing, IndInv, SeenInv, exec_vars

LEMMA ReadItemStep ==
  ASSUME IndInv, NEW item \in Item, ReadItem(item)
  PROVE  IndInv'
BY FailStep, read_accountStep, load_storage_headerStep, read_chunk_headerStep,
   read_chunk_witnessStep
   DEF ReadItem, read_bytecode

LEMMA AnyBytesStep ==
  ASSUME IndInv, AnyBytes
  PROVE  IndInv'
BY FailStep, load_storage_trieStep, load_frontierStep, read_chunkStep DEF AnyBytes

LEMMA IndInvStep == IndInv /\ [Next]_vars => IndInv'
<1> SUFFICES ASSUME IndInv, [Next]_vars
             PROVE  IndInv'
  OBVIOUS
<1>1. CASE ReadBytes
  <2>1. AnyBytes
    BY <1>1, ArrivalAssumption DEF ReadBytes, AnyBytes
  <2> QED BY <2>1, AnyBytesStep
<1>2. CASE Compute
  BY <1>2, ArrivalAssumption, FailStep, LookupStep, ExecuteStep, take_bundle_accountsStep,
     apply_bundle_accountStep, replace_frontier_slotStep, finish_updateStep, check_state_rootStep
     DEF Compute
<1> QED BY <1>1, <1>2, ArrivalAssumption, HeaderStep, ReadItemStep, FailStep DEF Next

(* The inductive invariant holds in every run of the guest.                *)
THEOREM GuestInvariant == Spec => []IndInv
<1>1. Init => IndInv
  <2>1. Init => TypeOK
    BY InitTypes
  <2> QED BY <2>1
          DEF Init, IndInv, LookupInv, HistoryInv, SeenInv, CachedAccountsAreNotUpdated,
              FrontierInv, ChunkInv, FinalInv, Executing, Updating, InChunk
<1> QED BY <1>1, IndInvStep, PTL DEF Spec

(* Whatever the stream holds, a guest that accepts its block worked with   *)
(* the parent state's accounts and storage only.                           *)
THEOREM ReadsAreAuthentic == Spec => []AcceptedReadsAreAuthentic
<1>1. IndInv => AcceptedReadsAreAuthentic
  BY DEF IndInv, AcceptedReadsAreAuthentic, HistoryInv, SeenInv, CachedAccountsAreNotUpdated,
         FinalInv, Updating, InChunk
<1> QED BY <1>1, GuestInvariant, PTL

(* At the end of an update, a canonical frontier commits to the post state. *)
LEMMA FinalRoot ==
  ASSUME IndInv, pc \in {"root", "accepted"},
         \A a \in Addr : storage_root(state_trie.map[a]).canonical
  PROVE  state_trie.map = PostState
<1>1. todo = {} /\ run = {} /\ state_trie.map \in StateMap
  BY DEF IndInv, FinalInv, ChunkInv, Updating, TypeOK, StateTrie
<1>2. ASSUME NEW a \in Addr
      PROVE  state_trie.map[a] = PostState[a]
  <2>1. CASE bundle[a] = None
    BY <1>1, <2>1 DEF IndInv, FrontierInv, PostState, Updating
  <2>2. CASE bundle[a] # None
    <3>1. Outcome(Parent[a], bundle[a], state_trie.map[a])
      BY <1>1, <2>2 DEF IndInv, FrontierInv, Updating
    <3>2. CASE bundle[a].info = None
      BY <2>2, <3>1, <3>2 DEF Outcome, PostState, PostAccount
    <3>3. CASE bundle[a].info # None
      <4>1. state_trie.map[a] \in Account /\ state_trie.map[a] # None
        BY <1>1, <3>1, <3>3 DEF Outcome, StateMap, MaybeAccount
      <4>2. state_trie.map[a].storage_root.canonical = TRUE
        BY <4>1 DEF storage_root
      <4>3. state_trie.map[a] = PostAccount(Parent[a], bundle[a])
        BY <3>1, <3>3, <4>1, <4>2 DEF Outcome, PostAccount, Account, StorageRoot
      <4> QED BY <2>2, <4>3 DEF PostState
    <3> QED BY <3>2, <3>3
  <2> QED BY <2>1, <2>2
<1> QED BY <1>1, <1>2 DEF StateMap, PostState

(* Whatever the stream holds, a canonical state that a guest accepts is    *)
(* the parent state with the block's changes.                              *)
THEOREM RootIsPostState == Spec => []AcceptedRootIsPostState
<1>1. IndInv => AcceptedRootIsPostState
  BY FinalRoot DEF AcceptedRootIsPostState, CanonicalState
<1> QED BY <1>1, GuestInvariant, PTL

(* validate_account_cache compares with accounts the update left alone.    *)
THEOREM CacheIsNotUpdated == Spec => []CachedAccountsAreNotUpdated
<1>1. IndInv => CachedAccountsAreNotUpdated
  BY DEF IndInv
<1> QED BY <1>1, GuestInvariant, PTL

=============================================================================
