----------------------------- MODULE HostStream -----------------------------
(***************************************************************************)
(* Host and guest together.  The host executes the block on the full state *)
(* while it records the order of lookups (WitnessDb with an Eager provider *)
(* and execute_with_state, executor/client), writes the hint stream from   *)
(* that record (write_ceno_client_input, host-bench/src/lib.rs), and the   *)
(* guest of module StreamingState replays the same execution on it.        *)
(***************************************************************************)
EXTENDS StreamingState, Sequences

CONSTANTS MaxCodeReads,     \* bound on bytecode lookups of one execution
          MaxChunks         \* bound on the chunks of one block

ASSUME BoundAssumption == MaxCodeReads \in Nat /\ MaxChunks \in Nat

(* The parent state is that of a chain: its storage tries are canonical.   *)
ASSUME CanonicalParent == \A a \in Addr : storage_root(Parent[a]).canonical

VARIABLES
  hpc,            \* "record", "bundle", "write", or "done": the host's phase
  calls,          \* the EVM's database calls; the guest replays them
  witness_order,  \* WitnessAccess entries
  account_order,  \* account_lookup_order, as a set
  storage_order,  \* storage_lookup_order, as a set
  outcome,        \* the bundle of the host's execution
  unrecorded,     \* bundle accounts the recorder has not visited yet
  stream,         \* hints in the order written, each with those that follow it
  replayed,       \* calls the guest has made
  cursor,         \* elements of stream the guest has begun to read
  rest            \* what is left of the one it is reading

record_vars == <<calls, witness_order, account_order, storage_order>>
host_vars == <<hpc, record_vars, outcome, unrecorded, stream>>
reader_vars == <<replayed, cursor, rest>>
all_vars == <<vars, host_vars, reader_vars>>

HInit ==
  /\ Init
  /\ hpc = "record"
  /\ calls = <<>>
  /\ witness_order = <<>>
  /\ account_order = {}
  /\ storage_order = {}
  /\ outcome = [a \in Addr |-> None]
  /\ unrecorded = {}
  /\ stream = <<>>
  /\ replayed = 0
  /\ cursor = 0
  /\ rest = <<>>

Access(kind, x) == [access |-> kind, of |-> x]
Marker == [access |-> "state"]

-----------------------------------------------------------------------------
(* Recording.  CacheDB (external) asks for an account before it asks for   *)
(* any slot of it, and for neither of them twice.  A call keeps the length *)
(* that witness_order had when it was made.                                *)

Asked(a) == \E i \in DOMAIN calls : calls[i].op = "basic" /\ calls[i].a = a
AskedSlot(a, s) ==
  \E i \in DOMAIN calls : calls[i].op = "storage" /\ calls[i].a = a /\ calls[i].slot = s

record_basic(a) ==
  /\ hpc = "record"
  /\ ~Asked(a)
  /\ calls' = Append(calls, [op |-> "basic", a |-> a, at |-> Len(witness_order)])
  /\ account_order' = account_order \cup {a}
  /\ witness_order' = IF a \in account_order THEN witness_order
                      ELSE Append(witness_order, Access("account", a))
  /\ UNCHANGED <<vars, hpc, storage_order, outcome, unrecorded, stream, reader_vars>>

(* The access of a lookup that is the first of its kind for a.             *)
First(order, kind, a) == IF a \in order THEN <<>> ELSE <<Access(kind, a)>>

record_storage(a, s) ==
  /\ hpc = "record"
  /\ Asked(a) /\ ~AskedSlot(a, s)
  /\ calls' = Append(calls, [op |-> "storage", a |-> a, slot |-> s,
                             at |-> Len(witness_order)])
  /\ account_order' = account_order \cup {a}
  /\ storage_order' = storage_order \cup {a}
  /\ witness_order' = witness_order \o First(account_order, "account", a)
                                    \o First(storage_order, "storage", a)
  /\ UNCHANGED <<vars, hpc, outcome, unrecorded, stream, reader_vars>>

record_code(c) ==
  /\ hpc = "record"
  /\ Cardinality({i \in DOMAIN calls : calls[i].op = "code"}) < MaxCodeReads
  /\ calls' = Append(calls, [op |-> "code", code |-> c, at |-> Len(witness_order)])
  /\ witness_order' = Append(witness_order, Access("bytecode", c))
  /\ UNCHANGED <<vars, hpc, account_order, storage_order, outcome, unrecorded, stream,
                 reader_vars>>

(* Execution ends.  A slot changes only after it was read, unless the      *)
(* account was destroyed first (external: SSTORE loads the slot).          *)
record_outcome(b) ==
  /\ hpc = "record"
  /\ \A a \in Addr : b[a] # None =>
       /\ Asked(a)
       /\ b[a].destroyed \/ \A s \in Changed(b[a]) : AskedSlot(a, s)
  /\ outcome' = b
  /\ unrecorded' = {a \in Addr : b[a] # None}
  /\ witness_order' = Append(witness_order, Marker)
  /\ hpc' = "bundle"
  /\ UNCHANGED <<vars, calls, account_order, storage_order, stream, reader_vars>>

(* One turn of the loop over the bundle, which iterates in any order.      *)
record_bundle_account(a) ==
  LET b == outcome[a]
      post == /\ b.info # None
              /\ Changed(b) # {}
              /\ a \notin storage_order
              /\ storage_root(Parent[a]) # EMPTY_ROOT_HASH
      modified == Append(witness_order, Access("modified", a))
  IN
  /\ hpc = "bundle"
  /\ a \in unrecorded
  /\ unrecorded' = unrecorded \ {a}
  /\ hpc' = IF unrecorded' = {} THEN "write" ELSE hpc
  /\ IF post
     THEN /\ witness_order' = Append(modified \o First(account_order, "account", a),
                                     Access("storage", a))
          /\ account_order' = account_order \cup {a}
          /\ storage_order' = storage_order \cup {a}
     ELSE /\ witness_order' = modified
          /\ UNCHANGED <<account_order, storage_order>>
  /\ UNCHANGED <<vars, calls, outcome, stream, reader_vars>>

nothing_to_record ==
  /\ hpc = "bundle" /\ unrecorded = {}
  /\ hpc' = "write"
  /\ UNCHANGED <<vars, record_vars, outcome, unrecorded, stream, reader_vars>>

-----------------------------------------------------------------------------
(* Writing the hints. *)

Hint(item, after) == [hint |-> "item", item |-> item, after |-> after]
Bytes(trie, after) == [hint |-> "bytes", trie |-> trie, after |-> after]

FullStorage(a) == [map |-> storage_root(Parent[a]).map, open |-> Slot, canonical |-> TRUE]

(* A mutant: a bytecode is written as raw bytes.                           *)
WriteAccess_raw_code(access) ==
  CASE access.access = "account" ->
         Hint([kind |-> "account", a |-> access.of, account |-> Parent[access.of]], <<>>)
    [] access.access = "storage" ->
         Hint([kind |-> "storage", a |-> access.of], <<Bytes(FullStorage(access.of), <<>>)>>)
    [] access.access = "bytecode" ->
         Bytes(access.of, <<>>)

(* What is written for one access before the marker, or among the          *)
(* witnesses of a chunk.                                                   *)
WriteAccess(access) ==
  CASE access.access = "account" ->
         Hint([kind |-> "account", a |-> access.of, account |-> Parent[access.of]], <<>>)
    [] access.access = "storage" ->
         Hint([kind |-> "storage", a |-> access.of], <<Bytes(FullStorage(access.of), <<>>)>>)
    [] access.access = "bytecode" ->
         Hint([kind |-> "bytecode", code |-> access.of], <<>>)

state_marker ==
  CHOOSE i \in DOMAIN witness_order :
    /\ witness_order[i] = Marker
    /\ \A j \in 1 .. i - 1 : witness_order[j] # Marker

(* chunk_accesses: the positions, after the marker, of the accesses to     *)
(* addresses below the chunk's prefix, and what is written for them.       *)
PostAccesses(region) ==
  {i \in state_marker + 1 .. Len(witness_order) :
     /\ witness_order[i].access \in {"account", "storage"}
     /\ witness_order[i].of \in region}
Nth(S, n) == CHOOSE i \in S : Cardinality({j \in S : j < i}) = n - 1
Witnesses(region) ==
  [n \in 1 .. Cardinality(PostAccesses(region)) |->
     WriteAccess(witness_order[Nth(PostAccesses(region), n)])]

(* A mutant: the chunk header announces no witness.                        *)
WriteChunk_uncounted(region) ==
  Hint([kind |-> "chunk", region |-> region, count |-> 0,
        expected |-> [map |-> Below(Parent, region), bad |-> {}]],
       <<Bytes([map |-> Below(Parent, region), open |-> region, bad |-> {}],
               Witnesses(region))>>)

(* A chunk: header, its part of the state, and its witnesses.              *)
WriteChunk(region) ==
  Hint([kind |-> "chunk", region |-> region, count |-> Cardinality(PostAccesses(region)),
        expected |-> [map |-> Below(Parent, region), bad |-> {}]],
       <<Bytes([map |-> Below(Parent, region), open |-> region, bad |-> {}],
               Witnesses(region))>>)

(* build_frontier_weighted cuts the modified accounts into disjoint        *)
(* subtrees, each holding one of them (module Frontier), sorted by prefix. *)
IsCut(chunks, modified) ==
  /\ \A a \in modified : \E i \in DOMAIN chunks : a \in chunks[i]
  /\ \A i \in DOMAIN chunks : chunks[i] \cap modified # {}
  /\ \A i, j \in DOMAIN chunks :
       i < j => \A a \in chunks[i], b \in chunks[j] : a < b

(* The frontier keeps the rest of the state and hides the chunks; in the   *)
(* mutant it hides the whole state.                                        *)
StateFrontier_hidden(chunks) == [map |-> Parent, open |-> {}, bad |-> {}]
StateFrontier(chunks) ==
  [map |-> Parent, open |-> {a \in Addr : \A i \in DOMAIN chunks : a \notin chunks[i]},
   bad |-> {}]

write_ceno_client_input(chunks) ==
  /\ hpc = "write"
  /\ IsCut(chunks, {a \in Addr : outcome[a] # None})
  /\ stream' = [i \in 1 .. state_marker + Len(chunks) |->
                  IF i < state_marker THEN WriteAccess(witness_order[i])
                  ELSE IF i = state_marker THEN Bytes(StateFrontier(chunks), <<>>)
                  ELSE WriteChunk(chunks[i - state_marker])]
  /\ header' = [version |-> 2, chunk_count |-> Len(chunks)]
  /\ pc' = "exec"
  /\ hpc' = "done"
  /\ UNCHANGED <<exec_vars, state_trie, chunk, bundle, todo, run,
                 record_vars, outcome, unrecorded, reader_vars>>

-----------------------------------------------------------------------------
(* The guest on that stream. *)

Readable == rest # <<>> \/ cursor < Len(stream)
NextHint == IF rest # <<>> THEN Head(rest) ELSE stream[cursor + 1]
ReadHint ==
  IF rest # <<>>
  THEN /\ rest' = NextHint.after \o Tail(rest)
       /\ cursor' = cursor
  ELSE /\ rest' = NextHint.after
       /\ cursor' = cursor + 1

GuestCall ==
  LET call == calls[replayed + 1]
  IN
  /\ hpc = "done" /\ pc = "exec"
  /\ replayed < Len(calls)
  /\ replayed' = replayed + 1
  /\ UNCHANGED host_vars
  /\ CASE call.op = "basic" ->
            /\ IF account_cache[call.a] = Unknown THEN basic_ref(call.a)
               ELSE UNCHANGED vars
            /\ UNCHANGED <<cursor, rest>>
       [] call.op = "storage" ->
            /\ IF /\ storage_tries[call.a] # Unknown
                  /\ call.slot \in storage_tries[call.a].open
               THEN UNCHANGED vars ELSE storage_ref(call.a, call.slot)
            /\ UNCHANGED <<cursor, rest>>
       [] call.op = "code" ->
            /\ Readable /\ NextHint.hint = "item"
            /\ read_bytecode(call.code, NextHint.item)
            /\ ReadHint

GuestRead ==
  /\ hpc = "done"
  /\ Readable
  /\ ReadHint
  /\ UNCHANGED <<host_vars, replayed>>
  /\ \/ /\ NextHint.hint = "item"
        /\ \/ read_account(NextHint.item)
           \/ load_storage_header(NextHint.item)
           \/ read_chunk_header(NextHint.item)
           \/ read_chunk_witness(NextHint.item)
     \/ /\ NextHint.hint = "bytes"
        /\ \/ load_storage_trie(NextHint.trie)
           \/ load_frontier(NextHint.trie)
           \/ read_chunk(NextHint.trie)

(* The same execution ends with the same bundle; the host's chunks are     *)
(* named by slots of its frontier; the header's root is that of the        *)
(* block's post state.                                                     *)
GuestCompute ==
  /\ hpc = "done"
  /\ UNCHANGED <<host_vars, reader_vars>>
  /\ \/ replayed = Len(calls) /\ execute(outcome)
     \/ take_bundle_accounts
     \/ \E a \in Addr : apply_bundle_account(a)
     \/ /\ replace_frontier_slot
        /\ SubtreeRoot(state_trie, chunk.region) = chunk.expected => pc' = "chunk_header"
     \/ finish_update
     \/ /\ check_state_root
        /\ pc' = IF CanonicalState(state_trie) /\ state_trie.map = PostState
                 THEN "accepted" ELSE "rejected"

HNext ==
  \/ \E a \in Addr : record_basic(a) \/ record_bundle_account(a)
  \/ \E a \in Addr, s \in Slot : record_storage(a, s)
  \/ \E c \in Code : record_code(c)
  \/ \E b \in Bundles : record_outcome(b)
  \/ nothing_to_record
  \/ \E n \in 0 .. MaxChunks : \E chunks \in [1 .. n -> Regions] :
       write_ceno_client_input(chunks)
  \/ GuestCall
  \/ GuestRead
  \/ GuestCompute

HSpec == HInit /\ [][HNext]_all_vars /\ WF_all_vars(HNext)

-----------------------------------------------------------------------------
(* What the guest still has to read and what is left of the stream agree   *)
(* to the end: an accepted block leaves no hint and no call behind.        *)
StreamIsUsedUp == pc = "accepted" => ~Readable /\ replayed = Len(calls)

PostStorageWitness ==
  \E i, j \in DOMAIN witness_order :
    i < j /\ witness_order[i] = Marker /\ witness_order[j].access = "storage"

(* Deleted accounts left the state trie in a shape that is not the         *)
(* canonical one: a chunk emptied by a deletion puts Null in its slot, and *)
(* the branch above is not folded (run FrontierDelete).                    *)
Deleted == {a \in Addr : Parent[a] # None /\ outcome[a] # None /\ outcome[a].info = None}
DeletionSpoiledTheShape == state_trie.bad # {} /\ state_trie.bad \subseteq Deleted

(* The guest follows the host's own stream to the end, unless the stream   *)
(* holds a storage trie for an account whose slots changed without having  *)
(* been read.  It finds every hint of the kind it expects and every check  *)
(* of a chunk or of a cached account succeeds; if it refuses the block,    *)
(* that is at the comparison with the header's root, with every hint read  *)
(* and the post state's accounts in hand, because of a deletion.           *)
HostStreamIsAccepted ==
  ~PostStorageWitness =>
    /\ pc # "panic"
    /\ pc = "rejected" => /\ DeletionSpoiledTheShape
                          /\ state_trie.map = PostState
                          /\ ~Readable /\ replayed = Len(calls)

(* Every recorded execution is replayed to a verdict: the guest never      *)
(* waits for a hint that the host did not write.                           *)
EveryBlockGetsAVerdict == <>(pc \in {"accepted", "rejected", "panic"})

(* The guest does not panic on a stream that the host wrote: with a        *)
(* storage trie among the witnesses of a chunk (io.rs:626) it does.        *)
GuestNeverPanics == pc # "panic"

=============================================================================
