# Verification of ceno-reth-benchmark

TLA+ models of the parts of this repository that carry its own logic: the Merkle
Patricia trie, tries that come from RPC proofs and from byte streams, the frontier
of state chunks, the host that records a block and its input, the guest that
replays the block, and the service that keeps proving jobs alive. Every module was
translated from the source; `PROJECT.json` maps each definition to its lines.

## 1. Inventory

| Component | State | Operations | Interacts with |
|---|---|---|---|
| Hex-prefix paths (`crates/mpt/src/hp.rs`) | none | encode, decode, compare in place, longest common prefix | every trie operation |
| Trie (`crates/mpt/src/trie.rs`, `node.rs`) | arena of nodes, `cached_references`, root | `get`, `insert`, `delete`, `hash`, encode, decode | state and storage tries of host and guest |
| Frontier (`trie.rs`) | frontier trie, chunks | `build_frontier_weighted` (host), `replace_frontier_slot` (guest) | hint stream |
| Tries from proofs (`from_proof.rs`, `resolver.rs`, `account_proof.rs`) | node stores | `mpt_from_proof`, orphaned leaves, `build_storage_trie`, `resolve` | RPC database, host executor |
| Partial state (`state.rs`, `client/src/io.rs`) | state trie, storage tries | `encode_to_state_bytes`, `build`, `update_from_bundle_state` | host executor, guest |
| RPC database, host executor (`storage/rpc-db`, `executor/host`) | recorded accounts, slots, oldest ancestor | fetches, proofs for two blocks, headers | RPC node (external) |
| Ancestor headers (`client/src/io.rs`) | number to hash | `build_block_hashes`, `block_hash_ref` | host executor, EVM |
| Guest state (`client/src/io.rs`) | header, account cache, storage tries, frontier, reader | `read_account`, `load_storage_trie`, `read_bytecode`, `update_from_bundle_state` | EVM (external), stream |
| Recorder and writer (`client/src/lib.rs`, `host-bench/src/lib.rs`) | lookup orders, witness order, hints | lookups, bundle, `write_ceno_client_input` | guest |
| Benchmark driver (`host-bench`) | input cache, arguments | modes, prove, aggregate, verify | host executor, zkVM (external) |
| Proving service (`server/main.py`) | `JOBS`, `Job` objects, threads, processes, manifests | `start_proof`, `stop_proof`, `proof_state`, recovery | `prove_block.sh`, disk, supervisor |
| Block script (`server/prove_block.sh`) | files of the job, object store, `processed_block.txt` | input, prove, upload, status posts | status API (external) |
| Supervisor (`server/entrypoint.sh`, `check_gpu.sh`) | two processes, log watchers | wait for GPU, kill, restart, exit 75 | service, container runtime |

What is hard, and what makes each part correct:

* **Trie.** A root must be a function of the map, not of the history of calls.
  Deletions fold nodes, and every write must drop the cached references above
  it; a stale one shows only if the trie was hashed before the write.
* **Tries from proofs.** A proof shows the nodes on one path. A deletion folds a
  branch into a sibling that may be on no path; the proofs of the block after
  have to supply it, under a path that the parent state does not contain
  (`add_orphaned_leafs`), whatever order the hash maps give.
* **Frontier.** A chunk is cut out of a trie, updated alone and put back as a
  digest. Inline references, extensions and deletions at the boundary are where
  it can go wrong.
* **Host input.** The host asks the node dozens of questions by block number, and
  the chain may reorganise between two of them. Nothing on the host compares the
  state with the header. The input may also come from a file that an earlier run
  left. What was recorded must be all the guest asks for.
* **Guest.** Accounts are used before they are authenticated. They are checked
  later, against chunks that the stream itself describes, or at the end against
  a frontier that has been updated meanwhile.
* **Host and guest.** The stream is a recording of lookups. The guest has to ask
  in exactly the same order, through caches of its own.
* **Service.** Handlers, one thread per job and processes share `Job` objects
  without a lock. Manifests are overwritten in place, and the server may die
  between any two steps.
* **Supervisor.** Two processes end in any order, signals arrive while bash
  sleeps, pipelines outlive the script that started them, and the logs outlive
  the container.

The hazards are listed one by one, with their lines, in `PROJECT.json`.

## 2. Modules

| Module | Models | Uses |
|---|---|---|
| `Hp` | `hp.rs` | |
| `HpPaths`, `HpPaths_proofs` | a path and a key that grow and shrink nibble by nibble, what `Hp` says of them, and proofs | `Hp` |
| `KvStore` | abstract specification of a trie: a prefix-free map with a root | |
| `FlatTrie`, `FlatTrie_proofs` | the trie by positions: every call one step, without recursion; implements `KvStore` | `Hp`, `KvStore` |
| `Mpt` | nodes, references, RLP lengths, `get`/`insert`/`delete`/`hash` | `Hp` |
| `MptReference` | reference: the canonical trie of a map, the entries and subnodes of a trie | `Mpt` |
| `MptStore` | any sequence of public calls on the code's trie, and that trie by positions | `Mpt`, `FlatTrie` |
| `ProofTrie` | `from_proof.rs`, `resolver.rs`, `encode_trie`/`decode_trie` | `MptReference` |
| `EthState` | a block's state from RPC proofs over the byte stream to the new root | `ProofTrie` |
| `Frontier` | cutting a trie and updating it by chunks | `Mpt` |
| `StreamingState`, `StreamingState_proofs` | the guest on an arbitrary stream | |
| `HostStream`, `HostStream_proofs` | recorder, hint writer and guest together | `StreamingState` |
| `HostInput`, `HostInput_proofs` | driver, input cache, host executor, RPC database, and the guest's database | |
| `JobServer`, `JobServer_proofs` | the service, its threads, processes, manifests and restarts | |
| `ProveBlock`, `ProveBlock_proofs` | the script a job runs again and again, its files, the object store and the status API | |
| `Supervisor`, `Supervisor_proofs` | `entrypoint.sh`, `check_gpu.sh`, uvicorn, the scripts and the container | |

`MC*` modules give the constants of a run. `MCMptStore` runs three specifications:
every call is made to `MptStore` and to `FlatTrie` together, and the paths of `HpPaths`
step while the tries are empty, so each is explored completely. Definitions marked as mutants are faulty variants of
the definition that follows them; no run uses them, and each one breaks the
property it is listed for in `PROJECT.json`.

**Abstractions.** In `Mpt` an arena index is the child itself (a node has one
parent), and keccak is injective on encodings. A branch's children are a function
from the occupied nibbles. Lengths of encodings are kept, since they decide
whether a reference is inline. `FlatTrie` describes the same trie without
recursion: a node is known by its position (the nibbles from the root), leaves
and extensions name the key or the position they lead to, and a reference stands
for all nodes at and below its node, which is what an injective keccak makes of it.
It leaves out path bytes, lengths and the arena. `CodeFollowsPositions` says that
the code's trie, read by positions, is that trie after every call: nodes, answers,
and which cache slots are filled with what. In `ProofTrie` an RLP item is the node with the
references of its children, and `encode_trie` a sequence of such items with their
lengths; padding is skipped on both sides. In `StreamingState` a trie is what its
root commits to: a map, the keys whose path it reveals, and a mark where its shape
is not canonical. Deleting beside hidden nodes may set that mark, for an arbitrary
stream and for the host's own, so neither module assumes what `FrontierDelete` refutes:
a guest whose mark is set refuses the block at the last comparison. The EVM is external: any lookups in any
order, ending in any bundle. In `HostStream` the two executions are the same
calls, `CacheDB` asks for an account before its slots, and a changed slot has been
read unless its account was destroyed; the storage tries of the parent state are
canonical, being those of a chain. The chunks there cover the changed
accounts (`IsCut`). `OnlyForkingKeysMissAChunk` says exactly when
`build_frontier_weighted` does not achieve that: for a key that leaves the path of
an extension. The state trie of a large chain has branches at all depths where
chunks are cut, so this needs a small state.

**State and actions of the host's stream.** `calls` are the lookups of the recording
execution, each with the length that `witness_order` had when it was made (`at`, a
history for the proofs). `stream` has one element per access up to the marker, the
frontier in the place of the marker, and one per chunk; what is written right
behind a hint (the bytes of a trie, the witnesses of a chunk) is in its `after`. The
guest's reader is `cursor`, the elements it has begun, and `rest`, what is left of
the one it is in. `GuestCall` makes the calls again, `GuestRead` hands the next hint to
whatever the guest of `StreamingState` reads next, and `GuestCompute` is the rest of it,
with the comparisons that `StreamingState` leaves open for arbitrary hints decided: a
subtree equal to what its slot expects matches it, and the header's root is that of the
canonical trie of the post state.

**State and actions of the partial state.** A scenario of `EthState` is a world, what
the block touches, the bundle it leaves, and the hashes (empty or zero) with which the
node answers for a missing account. `FetchState` is the second half of
`HostExecutor::execute` (proofs before and after, `transition_proofs_to_tries`) with
`encode_to_state_bytes`. `build` decodes and checks; its argument is what was sent,
or what was sent with an item lost, moved or replaced. `visit_account`, `write_slot`,
`write_account`, `remove_account` and `finish` are the loop of
`update_from_bundle_state`, one step per trie operation, because the order of
accounts and slots is that of a hash map.

**State and actions of the host input.** One step per RPC call of
`HostExecutor::execute` and `RpcDb` (two per account for its proofs); `Reorg` between
any two. `head` is the branch the
node follows. A hash or a state root stands for its block, so comparing roots is
comparing blocks. `input.trace` is what the recording execution was told: the EVM
is deterministic, so as long as the guest is told the same it asks the same, and
after a difference (`diverged`) it may ask anything. `file` is the cache file, which
`create` leaves partial until the write. `Width` is one more than the largest u64:
`Pred(0)` wraps, as `block_number - 1` does in a release build.

**State and actions of the service.** `thread[j]` is the program counter of
`_run_loop`/`_run_once`, and `handler` that of the request under way. Handlers are
coroutines without `await`, so one runs at a time, interleaved with the threads.
A save is two steps, truncation and write. A save that overlaps another may
garble the file, and `_read_manifest` treats that as no job. `server_ends` empties
`live`: `setsid` and `kill -- -PID` in `entrypoint.sh` take the process group down
with the server. (`is_running` reads `current_proc` twice without a lock; the action
`state_error` has it, and it costs one 500 answer.)

**State and actions of the script.** `pc` is the place in `prove_block.sh`, `run` its
variables, `disk` the files of the job directory, `store` the objects, `reported`
what the API accepted. A command that fails either ends the script (`set -e`) or
is survived (`set +e`, `if !`, `|| true`), as the line says. The binary writes in
place, so a file is `none`, `partial` or `whole`. `terminate` is `Job.stop`, whose
signal does not reach the binary: it lives on in `orphans`, and `disturbed` marks the
runs that began beside one. `crash` is the kill of the process group. Variables
that are dead (the GPU counter after its function, what was read once it is
reported, everything after the end) are reset, which only merges states. Three
behaviours of the code follow from the model and limit what the properties
can say: a run that failed uploads a partial proof, which later runs take for a
proof (lines 392 and 167); a partial input is reused for ever (line 194); an
upload of metrics that fails ends the script before `upload_rc=$?` is reached
(line 403).

**State and actions of the supervisor.** `pc` is the place in the loop of
`entrypoint.sh`, `check` the state of `check_gpu.sh` with its pending signals, `readers`
the pipelines `tail | while` and `matched` those that have seen a matching line and not
yet signalled. A trap runs between two commands: a signal waits for the end of
`sleep`. `terminate_children` kills the shells that wait for the pipelines, and the
pipelines go on; one that matches later signals a script that is gone, and the
model lets that signal have no effect (the process id could be reused by then).
Jobs are those of `JobServer` with everything but the manifest, the thread and the
scripts left out; scripts are those of `ProveBlock` with everything but the lines on
stderr left out. A single failed query of `nvidia-smi` already writes a line that
matches a pattern, so `prove_block.sh` never gets to poll a second time; a query
that lists no device matches none, so only the scripts' own failures end that
container.

## 3. Runs

| Run | Shows |
|---|---|
| `MptStore` | paths: encoding round trip, comparison in place, longest common prefix; trie: the code's trie is the trie by positions after every call, which is canonical, has fresh caches and implements `KvStore` call by call |
| `Frontier` | cutting keeps the root, chunks are disjoint, chunkwise update is update, which keys miss a chunk |
| `EthState` | touched state is resolved, conversion and updates never fail, the root is the post root in every order, tampered items never give another value, the resolver rebuilds a trie |
| `HostInput` | only authentic input is executed, the recording is enough, a run after the last fault succeeds |
| `StreamingState` | accepted reads are authentic, accepted root is the post state, what is validated last was not updated |
| `HostStream` | the host's stream is read to its end and passes every check, the last one unless a deletion spoiled the shape; every block gets a verdict |
| `JobServer` | one running thread per uuid; one script per job directory; started jobs survive restarts; thread and processes of a stopped job end |
| `ProveBlock` | reports and successful uploads are of the block of the run; a block chosen again and again is settled |
| `Supervisor` | old errors do not end a container, no script outlives its stack, a stale GPU ends the container, the server comes back |

Three runs end in a violation; each is a finding in `PROJECT.json`:

* `FrontierDelete`: a deletion whose fold crosses a chunk boundary gives another
  root than the full trie. `ChunkwiseUpdateIsUpdate` says that this is the only
  way the two can differ.
* `HostStreamPanic`: a storage trie among the witnesses of a chunk makes the
  guest panic. The recorder asks for one only for an account with storage that
  the block destroys and creates again without reading a slot.
* `JobServerResurrect`: the thread of a stopped job saves its status after the
  handler saved "stopped", and the next restart runs the job again.

Properties that hold only under a condition name it, and the model has the other
case: `HostStreamIsAccepted` (no storage trie for a chunk, `HostStreamPanic`, and for the
comparison with the header's root no deletion that left another shape,
`FrontierDelete`), `OneScriptPerDirectory` (of two scripts one was abandoned by a thread
whose save failed, or was spawned around the moment at which stop read `current_proc`
and a start followed at once), `ChosenBlocksAreSettled` (a partial input, a partial proof
in the store, or a partial proof reported beside an orphan stays for ever),
`OneScriptPerJob` (`check_gpu.sh` did
not die by itself: the group is signalled once, and a server that is still up may
start one more script), `SettledRunSucceeds` (no file in the cache: a partial file, or
an input of two branches, fails every later run), `RecordedInputIsEnough` (no
reorganisation).

**Bounds.** Paths: every path and every key of up to four nibbles 0, 1 and 15.
`MptStore`: six keys, chosen to meet every case of insert and delete (the empty
key, prefixes, keys that part at a leaf, inside an extension and behind one), and
a short and a long value, so references are inline and hashed. `Frontier`: every
trie over five keys, every change of one key and long-valued changes of two, with
limits that cut everywhere and limits that cut some. `EthState`: every
assignment of fates (missing, looked for, created, kept, read, changed, removed) to
four keys, and of four fates to five, as accounts and as slots of a contract, so
that deletions fold a branch into a leaf, an extension and a branch, and insertions
unfold it again; for a block that changes nothing the items also arrive with one
lost, two swapped or a leaf forged. `HostInput`: a contract and another account, two
branches that differ in code, nonce and slot, block numbers 0, 1, 2 and 4 (above the
tip of one branch), a window of two, two reorganisations and one kill over two runs.
`StreamingState`: two accounts and the three regions over them, up to two chunks and
forged accounts, so chunks can follow, repeat and nest. `HostStream`: three accounts
(with storage, absent, without storage) and bundles that touch, store, delete and
recreate; one bytecode lookup and two chunks at most. `JobServer`: one uuid, because
jobs of different uuids share only `JOBS`; two `Job` objects (a stop followed by a start), two processes, one crash and
two faults (so a save may fail in the except clause too). `ProveBlock`: the heads 199
and 200, two blocks on either side of the rounding; one failing command and one
stop or crash (`MaxKills`), at any of the script's steps, which already reaches
partial inputs and proofs, stale metrics and a lost answer of the API. `Supervisor`:
one job (jobs share nothing but the watcher loop), two processes that die, hence
three stacks, one loss of the GPU and two containers. `MaxRuns`, `MaxReorgs`,
`MaxAborts`, `MaxJobs`, `MaxPids`, `MaxCrashes`, `MaxFaults`, `MaxStacks`, `MaxContainers`,
`MaxGpuLosses`, `MaxLength`, `MaxKills`, `MaxCodeReads` and `MaxChunks` are the named
bounds; they are arbitrary in the proofs.

**Deadlock.** The guest, the frontier and state updates, the host and the driver end
with a verdict, and the supervisor at its last container, so their runs do not
check deadlock. The service and the script must always be able to go on, and
their runs check that.

**Fairness.** `HostStream` assumes only that enabled steps are taken: two
sequential programs that nothing stops. `HostInput` assumes that the driver's process
is run (`WF` of `Step`, which has no fault in it). `JobServer` assumes that the kernel
runs each thread and the event loop, that a `prove_block.sh` process ends, and
that `entrypoint.sh` restarts the server. Nothing is assumed of clients, crashes
or faults. `ProveBlock` assumes that the script and an orphan are run and that
the job's thread starts the script again; the GPU and the node may fail for ever,
since the property speaks of blocks that are chosen infinitely often. `Supervisor`
assumes that every process of the container is run, bash and uvicorn included, and
that scripts write and end; nothing of the GPU, the container runtime or clients.

## 4. Proofs

* `HpPaths_proofs`: `PathsRoundTrip`, `PathsCompareInPlace` and `PathsPartAtLcp` for
  paths of every length. They rest on lemmas on the nibbles of a byte, on `to_nibs`,
  on the i-th nibble of an encoded path, by cases on parity, and on the least
  index at which two paths differ; no induction is needed because the operators
  are functions on indices.
* `FlatTrie_proofs`: `TrieStaysCanonical`, `CacheStaysCoherent` and `TrieImplementsMap` for
  every set of keys and values and every sequence of calls. Assumed: keys are
  sequences of nibbles, and the marker for "no value" is not a value. The invariant
  (`TrieInvariant`) does not speak of what the calls did. It says that there are nodes
  at the root, where stored keys part, and in the slots of those places that a key
  goes through; that each node is of the kind, and has the children, that the keys
  through it call for (`Shape`); that no stored key extends another (`KeySet`); and
  that a filled cache slot is the reference of its node (`Coherent`). `Shape` gives
  canonicity node by node, which is the form in which a step can keep it. There
  is a lemma for every form of a call: the leaf put into an empty slot, the split
  of a leaf and of an extension at the common prefix, the
  overwritten leaf, and the deletion with each of its folds. A shape determines its
  nodes, so the trie is the canonical one. A write leaves the nodes beside the
  walk alone, so the references that stay filled are still right; an encoder that
  stops at filled slots gives what a fresh one gives. `TrieImplementsMap` also
  shows that the panic of `delete` at a branch with one child is never reached.
  `MapTypes` and `KeysStayPrefixFree` are the invariants of the abstract map, whence no
  branch ever needs a value.
* `StreamingState_proofs`: `ReadsAreAuthentic`, `RootIsPostState` and
  `CacheIsNotUpdated` follow from `IndInv` (`GuestInvariant`). An account that
  execution saw is still in the cache, or is the parent's, or was compared with a
  chunk in hand that does not match its slot and will be refused (`SeenInv`). The
  frontier holds the parent's account until its bundle account is applied and the
  changed one afterwards (`FrontierInv`); a chunk that matches its slot is
  between the two (`ChunkInv`). Cached accounts are never in the region of an
  applied chunk, hence still the parent's. None of these is inductive alone: what
  a chunk says is worth something only if its slot will match, so every
  statement about it carries `Matches`. The assumptions are that the markers are
  not values and that what arrives has the type that the decoders give it.
* `HostInput_proofs`: `HostInputType` for every chain, width and bound.
  `GuestExecutesAuthenticInput` needs only what the guest checks itself: the root is
  the first header's, and every header is the parent of the one before it, down
  from the current block (`AuthenticInv`); the lemma on `Inserted` walks the links.
  `GuestFindsWhatTheHostRecorded` has the larger invariant `EnoughInv`: with no
  reorganisation so far, every RPC answer is of the one branch, the proofs cover
  the recorded accounts and slots, the codes are those of the accounts, the headers
  collected so far are the chain downwards from the parent, the oldest ancestor is
  below every hash asked for, and the same holds of the input in hand and of the
  one in the file. Each part is needed because the property speaks of a lookup that
  happens two processes and one file later.
* `JobServer_proofs`: `OneRunner` rests on `JobsAreOwned` (the request under way
  works on the job that `JOBS` holds, `Job.start` finds no thread). `WantedJobsAreKept`
  rests on `RecoveryIsAlone` (nobody stops a job during recovery) and
  `WantedJobsSurvive` (the manifest of a wanted job has a status that is
  recovered, or a save under way, or the job is marked lost). `OneScript`
  rests on two invariants. `OneProcessInv`: a thread has no process alive but the one it
  waits for, as long as nothing failed. `SignalledIsGone`: nothing that stop
  signalled is alive once it is past its wait of ten seconds, nor after the `Job` has
  left `JOBS`, so that its successor in the directory meets no script of it but one
  that stop missed. It is about the scripts that the service starts; the
  binary that outlives a terminated script is in `ProveBlock`.
* `HostStream_proofs`: `StreamUsedUp`, `StreamAccepted` and `GuestReachesPostState` for every
  execution, set of accounts and cut of the state, from `HInv` (`HostInvariant`). It
  contains the guest's `IndInv`; the rest ties the reader to the recording. Call i
  wrote its access at `calls[i].at + 1`, or none if it is a second lookup in a
  storage trie (`CallsInv`); the guest has cached exactly the answers of the calls
  made so far (`CacheInv`), so it reads exactly when the recorder wrote, and its
  cursor is where the next call wrote (`ReplayInv`). During the update the cursor
  counts chunks: the bundle accounts left lie in the chunks to come, the frontier
  holds the parent state there, and the accounts of the chunks passed have left the
  cache (`UpdateInv`, `FrontierAlignInv`, `ChunkAlignInv`). The order of the chunks is needed
  for the first of these, and that slots are read before they change for the
  storage trie that every update needs. After the marker only storage tries are
  recorded, so a chunk has a witness only in the case of the finding
  (`FirstWitness`). `HostDrivesTheGuest` is the refinement: host and guest implement the
  guest's specification on arbitrary hints of the right types. Assumed: the parent's
  storage tries are canonical; the chunks cover the changed accounts (`IsCut`); a
  matching subtree is recognised; the assumptions of `StreamingState`. Nothing is
  assumed of the shape that deletions leave: `HInv` keeps the mark of the state trie
  within the deleted accounts, and `GuestReachesPostState` says that accounts and
  storage tries are right all the same when the roots are compared.
* `ProveBlock_proofs`: `ScriptType`, and the action properties `ReportsAreOwn` and
  `SuccessIsOwn`, for any heads, failing commands, stops and crashes. The invariant
  `Own` says that a run which began without an orphan stays without one until it ends,
  and that from the end of the binary on, status "ok" means a whole root proof and
  metrics of the block on disk: the script reads and uploads files by name long
  after it checked the status.
* `Supervisor_proofs`: `SupervisorType`, `NoScriptIsLeftBehind` and `OldErrorsAreHarmless`.
  The invariant `OneInv` says that scripts are of the current stack only; that the
  group is signalled only when the server is dead, so that it starts no further
  script, or when the status is 75 and the container ends anyway; and that nothing
  is alive while the next stack is prepared. The property alone is not inductive:
  it says nothing of a script that is alive when the next stack starts.
  `OldErrorsAreHarmless` follows status 75 back to its cause (`CauseInv`): the status of
  `entrypoint.sh`, that of `check_gpu.sh`, the signal, and a pipeline that matched each
  exist only after the GPU or a binary failed in this container, and nothing of them
  outlives the container; the log, which does, is not on that way.

Only model-checked:

* liveness (`EveryBlockGetsAVerdict`, `StopTakesEffect`, `ChosenBlocksAreSettled`,
  `SettledRunSucceeds`, `StaleGpuEndsTheContainer`, `ServerComesBack`): `ENABLED` and
  fairness are beyond this prover;
* `CodeFollowsPositions`, that the recursive operators of `Mpt` do what `FlatTrie` says:
  an induction over the depth of a node;
* what `Frontier` and `EthState` check: where a trie is cut, and what of it a set of
  proofs reveals, is decided from the leaves upwards, and their operators are
  `RECURSIVE`.

## 5. Not modelled

* The EVM, consensus validation, provers and verifiers are external.
  `capacity.rs` reserves memory and runs reth's execution sequence over them.
* The proving modes of the driver (`prove-app`, `prove-stark`, fixtures) are
  straight-line calls of the zkVM with timing; only their files matter, and
  `ProveBlock` has those. `run_reth_benchmark` is the same driver for another prover.
* Reports, metrics and CI scripts are text processing; trie tools and the verifier
  benchmark only measure; chain specifications are constants; `print_trie` prints.
* `latency_ms.txt`, which `get_proof_state` reads while the script writes it, is in no
  model: the answer changes nothing.
