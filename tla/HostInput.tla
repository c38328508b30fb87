----------------------------- MODULE HostInput ------------------------------
(***************************************************************************)
(* How the input of a block comes about: the driver (host-bench lib.rs)    *)
(* loads it from the cache or has HostExecutor (executor/host) execute the *)
(* block over RpcDb (rpc-db), which asks the RPC node for every account,   *)
(* slot and block hash and remembers the questions; the proofs and the     *)
(* headers are fetched afterwards, and the guest executes the block again  *)
(* over WitnessDb (executor/client io.rs), which must have every answer.   *)
(*                                                                         *)
(* Each RPC call is a step, and the node may follow another branch of the  *)
(* chain before the next one.  A hash and a state root stand for their     *)
(* block.  The EVM is deterministic: while the answers are those of the    *)
(* recording execution, so are the questions.                              *)
(***************************************************************************)
EXTENDS Integers, Sequences, FiniteSets

CONSTANTS Addresses, Slots, Nonces, Codes, Values,
          EmptyCode,     \* the code of an account without code
          Branches,      \* branches of the chain, 0 among them
          Fork,          \* the first height at which they differ
          Tip,           \* Tip[b] is the height of the head of b
          AccountOf,     \* AccountOf[b][a]: the account in the states of b
          StorageOf,     \* StorageOf[b][a][s]: the value of its slot
          BlockNumbers,  \* --block-number of the runs, from these
          Window,        \* how far back BLOCKHASH reaches (256)
          Width,         \* one more than the largest u64
          MaxRuns, MaxReorgs, MaxAborts

Account == [nonce : Nonces, code : Codes]
Heights == 0 .. Width - 1

ASSUME HostInputAssumption ==
  /\ EmptyCode \in Codes /\ 0 \in Nonces /\ Nonces \subseteq Nat /\ Values \subseteq Nat
  /\ 0 \in Branches /\ Branches \subseteq Nat
  /\ Width \in Nat /\ Window \in Nat /\ Fork \in Nat
  /\ Tip \in [Branches -> 0 .. Width - 2]
  /\ BlockNumbers \subseteq Heights
  /\ AccountOf \in [Branches -> [Addresses -> Account]]
  /\ StorageOf \in [Branches -> [Addresses -> [Slots -> Values]]]
  /\ MaxRuns \in Nat /\ MaxReorgs \in Nat /\ MaxAborts \in Nat

-----------------------------------------------------------------------------
(* The chain.  A header holds its number and the hash of its parent.       *)

BlockAt(b, h) == [number |-> h, branch |-> IF h < Fork THEN 0 ELSE b]
Pred_unbounded(number) == number - 1
Pred(number) == (number + Width - 1) % Width

Absent == [nonce |-> 0, code |-> EmptyCode]

(* The maps are total: these stand for the keys that are not in them.      *)
NoAccount == [nonce |-> -1, code |-> EmptyCode]
NoValue == -1
NoBlock == [number |-> 0, branch |-> -1]
HeightsOf(f) == {h \in Heights : f[h] # NoBlock}
ProofsOf(f) == {a \in Addresses : f[a] # NoBlock}
AccountsOf(f) == {a \in Addresses : f[a] # NoAccount}
SlotsOf(f) == {k \in Addresses \X Slots : f[k] # NoValue}

parent_hash(block) ==
  IF block.number = 0 THEN NoBlock
  ELSE BlockAt(block.branch, block.number - 1)

-----------------------------------------------------------------------------
VARIABLES head,      \* the branch the RPC node follows
          n,         \* --block-number
          file,      \* <cache_dir>/input/<chain>/<block>.bin
          driver,    \* --mode, whether there is an RPC URL, and the runs so far
          pc, result,
          host,      \* HostExecutor::execute, RpcDb and the CacheDB above it
          input,     \* ClientExecutorInput
          guest,     \* WitnessDb and the CacheDB above it
          reorgs, aborts

vars == <<head, n, file, driver, pc, result, host, input, guest, reorgs, aborts>>

NoBlocks(S) == [x \in S |-> NoBlock]
NoTrace == [accounts |-> [a \in Addresses |-> NoAccount],
            storage |-> [k \in Addresses \X Slots |-> NoValue], hashes |-> NoBlocks(Heights)]
NoHost ==
  [current |-> NoBlock, previous |-> NoBlock,
   accounts |-> NoTrace.accounts, storage |-> NoTrace.storage, oldest_ancestor |-> 0,
   pending |-> {},         \* the proof fetch_account_info has, before the code
   hashes |-> NoTrace.hashes,     \* block_hashes of the CacheDB
   todo |-> {}, proofs |-> NoBlocks(Addresses), root |-> NoBlock, ancestor_headers |-> <<>>]
NoInput ==
  [current_block |-> NoBlock, ancestor_headers |-> <<>>, root |-> NoBlock,
   proofs |-> NoBlocks(Addresses), slots |-> {}, bytecodes |-> {}, trace |-> NoTrace]
NoGuest == [block_hashes |-> NoBlocks(Heights), loaded |-> {}, diverged |-> FALSE]

-----------------------------------------------------------------------------
(* What the RPC node answers, now *)

get_block_by_number(number) ==
  IF number <= Tip[head] THEN {BlockAt(head, number)} ELSE {}
StateBlock == BlockAt(head, Pred(n))      \* block_id of RpcDb
HasState == Pred(n) <= Tip[head]

Init ==
  /\ head \in Branches /\ n \in BlockNumbers
  /\ file = [kind |-> "absent", input |-> NoInput]
  /\ driver = [mode |-> "execute_host", rpc |-> TRUE, runs |-> 0]
  /\ pc = "idle" /\ result = "none"
  /\ host = NoHost /\ input = NoInput /\ guest = NoGuest
  /\ reorgs = 0 /\ aborts = 0

(* The process ends: what it held in memory is gone. *)
End(r) ==
  /\ pc' = "idle" /\ result' = r
  /\ host' = NoHost /\ input' = NoInput /\ guest' = NoGuest
Stop(r) == End(r) /\ UNCHANGED file

-----------------------------------------------------------------------------
(* run_ceno_reth_benchmark: where the input comes from *)

Start ==
  /\ pc = "idle" /\ driver.runs < MaxRuns
  /\ \E mode \in {"execute_host", "make_input"}, rpc \in BOOLEAN :
       driver' = [mode |-> mode, rpc |-> rpc, runs |-> driver.runs + 1]
  /\ pc' = "load" /\ result' = "none"
  /\ UNCHANGED <<head, n, file, host, input, guest, reorgs, aborts>>

WithInput == IF driver.mode = "make_input" THEN "output_create" ELSE "build"

try_load_input_from_cache ==
  /\ pc = "load"
  /\ \/ /\ file.kind = "whole"
        /\ input' = file.input /\ pc' = WithInput
        /\ UNCHANGED <<file, result, host, guest>>
     \/ /\ file.kind = "absent" /\ driver.rpc
        /\ pc' = "fetch_block"
        /\ UNCHANGED <<file, result, host, input, guest>>
     \/ /\ file.kind = "partial" \/ (file.kind = "absent" /\ ~driver.rpc)
        /\ Stop("failed")

(* The file is created, and the input written into it. *)
create(from, to) ==
  /\ pc = from
  /\ file' = [kind |-> "partial", input |-> NoInput] /\ pc' = to
  /\ UNCHANGED <<result, host, input, guest>>
whole == [kind |-> "whole", input |-> input]
create_cache == create("cache_create", "cache_write")
write_cache ==
  /\ pc = "cache_write"
  /\ file' = whole /\ pc' = WithInput
  /\ UNCHANGED <<result, host, input, guest>>
create_output == create("output_create", "output_write")
write_output == pc = "output_write" /\ file' = whole /\ End("made")

-----------------------------------------------------------------------------
(* HostExecutor::execute and RpcDb *)

(* The next step of the host, or the error of an RPC call. *)
Host(new) == host' = new /\ UNCHANGED <<file, pc, result, input, guest>>
HostTo(next, new) == host' = new /\ pc' = next /\ UNCHANGED <<file, result, input, guest>>
Fails(found) == ~found /\ Stop("failed")

fetch_block ==
  /\ pc = "fetch_block"
  /\ \/ \E b \in get_block_by_number(n) :
          HostTo("fetch_parent", [host EXCEPT !.current = b])
     \/ Fails(get_block_by_number(n) # {})

first_ancestor_current(number) == number
first_ancestor(number) == Pred(number)         \* RpcDb::new
fetch_parent ==
  /\ pc = "fetch_parent"
  /\ \/ \E b \in get_block_by_number(Pred(n)) :
          HostTo("execute", [host EXCEPT !.previous = b, !.oldest_ancestor = first_ancestor(n)])
     \/ Fails(get_block_by_number(Pred(n)) # {})

Executing == pc = "execute" /\ host.pending = {}

(* fetch_account_info: the proof, then, in a second call, the code.        *)
(* CacheDB asks once for an account, a slot and a number.                  *)
fetch_account_proof(a) ==
  /\ Executing /\ host.accounts[a] = NoAccount
  /\ \/ /\ HasState
        /\ Host([host EXCEPT !.pending =
             {[address |-> a, nonce |-> AccountOf[StateBlock.branch][a].nonce]}])
     \/ Fails(HasState)
fetch_account_code ==
  /\ pc = "execute"
  /\ \E p \in host.pending :
       LET info == [nonce |-> p.nonce, code |-> AccountOf[StateBlock.branch][p.address].code]
       IN  \/ /\ HasState
              /\ Host([host EXCEPT !.accounts[p.address] = info, !.pending = {}])
           \/ Fails(HasState)

(* CacheDB answers for an account that basic_ref did not find. *)
fetch_storage_at(a, s) ==
  /\ Executing /\ host.accounts[a] \notin {NoAccount, Absent}
  /\ host.storage[<<a, s>>] = NoValue
  /\ \/ /\ HasState
        /\ Host([host EXCEPT !.storage[<<a, s>>] = StorageOf[StateBlock.branch][a][s]])
     \/ Fails(HasState)

(* The numbers BLOCKHASH may ask for. *)
Asked(number) == {h \in 0 .. number - 1 : h + Window >= number}
min_ancestor_last(number, oldest) == number
min_ancestor(number, oldest) == IF number < oldest THEN number ELSE oldest
fetch_block_hash(h) ==
  /\ Executing /\ h \in Asked(n) /\ host.hashes[h] = NoBlock
  /\ \/ \E b \in get_block_by_number(h) :
          Host([host EXCEPT !.hashes[h] = b,
                            !.oldest_ancestor = min_ancestor(h, @)])
     \/ Fails(get_block_by_number(h) # {})

(* What the recording execution was told, and whether it is the truth.     *)
Trace == [accounts |-> host.accounts, storage |-> host.storage, hashes |-> host.hashes]
IsTrue(t, block) ==
  LET parent == parent_hash(block)
  IN  /\ \A a \in AccountsOf(t.accounts) : t.accounts[a] = AccountOf[parent.branch][a]
      /\ \A k \in SlotsOf(t.storage) : t.storage[k] = StorageOf[parent.branch][k[1]][k[2]]
      /\ \A h \in HeightsOf(t.hashes) : t.hashes[h] = BlockAt(block.branch, h)

get_state_requests(accounts, storage) == AccountsOf(accounts) \cup {k[1] : k \in SlotsOf(storage)}
get_bytecodes(accounts) == {accounts[a].code : a \in AccountsOf(accounts)}

(* The block is valid: only an execution that was misled may fail. *)
finish_execution ==
  /\ Executing
  /\ \/ HostTo("proofs",
                [host EXCEPT !.todo = get_state_requests(host.accounts, host.storage)])
     \/ Fails(IsTrue(Trace, host.current))

(* The proofs of an account, first at the parent's number and then at the  *)
(* block's; the tries keep the first one's root (the second only adds the  *)
(* leaves that EthState is about). One account is finished at a time.      *)
fetch_proof_before(a) ==
  /\ pc = "proofs" /\ a \in host.todo
  /\ \A b \in host.todo : host.proofs[b] = NoBlock
  /\ \/ HasState /\ Host([host EXCEPT !.proofs[a] = StateBlock])
     \/ Fails(HasState)

fetch_proof_after(a) ==
  /\ pc = "proofs" /\ a \in host.todo /\ host.proofs[a] # NoBlock
  /\ \/ n <= Tip[head] /\ Host([host EXCEPT !.todo = @ \ {a}])
     \/ Fails(n <= Tip[head])

(* transition_proofs_to_tries takes the root of one of the proofs, in the  *)
(* order of a hash map; then the derived header is asserted.               *)
Roots(proofs) == IF ProofsOf(proofs) = {} THEN {host.previous}
                 ELSE {proofs[a] : a \in ProofsOf(proofs)}
header_matches(current, previous) == parent_hash(current) = previous
derive_header ==
  /\ pc = "proofs" /\ host.todo = {}
  /\ \/ /\ header_matches(host.current, host.previous)
        /\ \E r \in Roots(host.proofs) : HostTo("headers", [host EXCEPT !.root = r])
     \/ Fails(header_matches(host.current, host.previous))

(* The headers from the parent down to the oldest ancestor. *)
Height == n - 1 - Len(host.ancestor_headers)
fetch_header ==
  /\ pc = "headers" /\ Height >= host.oldest_ancestor
  /\ \/ \E b \in get_block_by_number(Height) :
          Host([host EXCEPT !.ancestor_headers = Append(@, b)])
     \/ Fails(get_block_by_number(Height) # {})

finish_input ==
  /\ pc = "headers" /\ Height < host.oldest_ancestor
  /\ input' = [current_block |-> host.current, ancestor_headers |-> host.ancestor_headers,
               root |-> host.root, proofs |-> host.proofs, slots |-> SlotsOf(host.storage),
               bytecodes |-> get_bytecodes(host.accounts), trace |-> Trace]
  /\ pc' = "cache_create"
  /\ UNCHANGED <<file, result, host, guest>>

-----------------------------------------------------------------------------
(* ClientExecutor::execute, ClientExecutorInputWithState and WitnessDb *)

State(branch, a) == <<AccountOf[branch][a], StorageOf[branch][a]>>

(* A proof of another state than the root leaves its account unresolved,   *)
(* unless nothing on its path differs.                                     *)
Strays == {a \in ProofsOf(input.proofs) : input.proofs[a] # input.root}
root_matches(i) == i.ancestor_headers # <<>> /\ i.root = i.ancestor_headers[1]
build ==
  /\ pc = "build"
  /\ \/ /\ root_matches(input)
        /\ \A a \in Strays : State(input.proofs[a].branch, a) = State(input.root.branch, a)
        /\ pc' = "witness_db"
        /\ UNCHANGED <<file, result, host, input, guest>>
     \/ (~root_matches(input) \/ Strays # {}) /\ Stop("rejected")

is_parent_by_number(child, parent) == parent.number = Pred(child.number)
is_parent(child, parent) ==
  /\ parent.number = Pred(child.number)
  /\ parent = parent_hash(child)

(* The headers, the current one first. *)
Links(headers) == \A k \in 1 .. Len(headers) - 1 : is_parent(headers[k], headers[k + 1])
Inserted(headers) ==
  LET parents == 2 .. Len(headers)
      Position(h) == CHOOSE k \in parents : headers[k].number = h
  IN  [h \in Heights |-> IF h \in {headers[k].number : k \in parents}
                         THEN parent_hash(headers[Position(h) - 1]) ELSE NoBlock]

Headers == <<input.current_block>> \o input.ancestor_headers
build_block_hashes ==
  /\ pc = "witness_db"
  /\ \/ /\ Links(Headers)
        /\ guest' = [guest EXCEPT !.block_hashes = Inserted(Headers)] /\ pc' = "replay"
        /\ UNCHANGED <<file, result, host, input>>
     \/ ~Links(Headers) /\ Stop("rejected")

Guest(new) == guest' = new /\ UNCHANGED <<file, pc, result, host, input>>

basic_ref(a) ==
  LET asked == input.trace.accounts
      found == AccountOf[input.root.branch][a]
  IN  /\ pc = "replay" /\ a \notin guest.loaded /\ (asked[a] # NoAccount \/ guest.diverged)
      /\ \/ input.proofs[a] = NoBlock /\ Stop("panic")
         \/ Guest([guest EXCEPT !.loaded = @ \cup {a},
                                !.diverged = @ \/ found # asked[a]])

code_by_hash_ref(a) ==
  LET code == AccountOf[input.root.branch][a].code
  IN  /\ pc = "replay" /\ a \in guest.loaded /\ code # EmptyCode
      /\ code \notin input.bytecodes /\ Stop("panic")

storage_ref(a, s) ==
  LET asked == input.trace.storage
      found == StorageOf[input.root.branch][a][s]
  IN  /\ pc = "replay" /\ a \in guest.loaded /\ AccountOf[input.root.branch][a] # Absent
      /\ asked[<<a, s>>] # NoValue \/ guest.diverged
      /\ \/ (input.proofs[a] = NoBlock \/ <<a, s>> \notin input.slots) /\ Stop("panic")
         \/ Guest([guest EXCEPT !.diverged = @ \/ found # asked[<<a, s>>]])

block_hash_ref(h) ==
  LET asked == input.trace.hashes
  IN  /\ pc = "replay" /\ h \in Asked(input.current_block.number)
      /\ asked[h] # NoBlock \/ guest.diverged
      /\ \/ guest.block_hashes[h] = NoBlock /\ Stop("panic")
         \/ /\ guest.block_hashes[h] # NoBlock
            /\ Guest([guest EXCEPT !.diverged = @ \/ guest.block_hashes[h] # asked[h]])

(* The state and the hashes the guest answers from are those of the block. *)
Authentic ==
  /\ input.root = parent_hash(input.current_block)
  /\ \A h \in HeightsOf(guest.block_hashes) :
       guest.block_hashes[h] = BlockAt(input.current_block.branch, h)

(* The post-execution checks and the state root: a valid block passes when *)
(* it was executed on its own parent (OnlyAuthenticInputIsExecuted).       *)
finish_replay == pc = "replay" /\ Authentic /\ Stop("accepted")

-----------------------------------------------------------------------------
(* Faults: the node follows another branch; the process is killed, or an   *)
(* RPC call fails for good.                                                *)

Reorg(b) ==
  /\ reorgs < MaxReorgs /\ b # head
  /\ head' = b /\ reorgs' = reorgs + 1
  /\ UNCHANGED <<n, file, driver, pc, result, host, input, guest, aborts>>

Abort ==
  /\ pc # "idle" /\ aborts < MaxAborts /\ aborts' = aborts + 1
  /\ Stop("failed") /\ UNCHANGED <<head, n, driver, reorgs>>

Driver == try_load_input_from_cache \/ create_cache \/ write_cache
            \/ create_output \/ write_output
Executes == \/ fetch_block \/ fetch_parent
            \/ \E a \in Addresses : fetch_account_proof(a)
            \/ fetch_account_code
            \/ \E a \in Addresses, s \in Slots : fetch_storage_at(a, s)
            \/ \E h \in Heights : fetch_block_hash(h)
            \/ finish_execution
            \/ \E a \in Addresses : fetch_proof_before(a) \/ fetch_proof_after(a)
            \/ derive_header \/ fetch_header \/ finish_input
Replays == \/ build \/ build_block_hashes
           \/ \E a \in Addresses : basic_ref(a) \/ code_by_hash_ref(a)
           \/ \E a \in Addresses, s \in Slots : storage_ref(a, s)
           \/ \E h \in Heights : block_hash_ref(h)
           \/ finish_replay
Step == (Driver \/ Executes \/ Replays) /\ UNCHANGED <<head, n, driver, reorgs, aborts>>

Next == Start \/ Step \/ (\E b \in Branches : Reorg(b)) \/ Abort
Spec == Init /\ [][Next]_vars
FairSpec == Spec /\ WF_vars(Step)

-----------------------------------------------------------------------------
(* Properties *)

SomeBlock == [number : Heights, branch : Branches \cup {-1}]
TraceType ==
  [accounts : [Addresses -> Account \cup {NoAccount}],
   storage : [Addresses \X Slots -> Values \cup {NoValue}],
   hashes : [Heights -> SomeBlock]]
InputType ==
  [current_block : SomeBlock, ancestor_headers : Seq(SomeBlock), root : SomeBlock,
   proofs : [Addresses -> SomeBlock], slots : SUBSET (Addresses \X Slots),
   bytecodes : SUBSET Codes, trace : TraceType]
HostType ==
  [current : SomeBlock, previous : SomeBlock,
   accounts : [Addresses -> Account \cup {NoAccount}],
   storage : [Addresses \X Slots -> Values \cup {NoValue}], oldest_ancestor : Heights,
   pending : SUBSET [address : Addresses, nonce : Nonces], hashes : [Heights -> SomeBlock],
   todo : SUBSET Addresses, proofs : [Addresses -> SomeBlock], root : SomeBlock,
   ancestor_headers : Seq(SomeBlock)]

(* The variables of the driver, the host and the guest have their types.   *)
TypeOK ==
  /\ head \in Branches /\ n \in BlockNumbers
  /\ file \in [kind : {"absent", "partial", "whole"}, input : InputType]
  /\ driver \in [mode : {"execute_host", "make_input"}, rpc : BOOLEAN, runs : 0 .. MaxRuns]
  /\ pc \in {"idle", "load", "cache_create", "cache_write", "output_create",
              "output_write", "fetch_block", "fetch_parent", "execute", "proofs",
              "headers", "build", "witness_db", "replay"}
  /\ result \in {"none", "made", "accepted", "rejected", "panic", "failed"}
  /\ host \in HostType /\ input \in InputType
  /\ guest \in [block_hashes : [Heights -> SomeBlock], loaded : SUBSET Addresses,
                diverged : BOOLEAN]
  /\ reorgs \in 0 .. MaxReorgs /\ aborts \in 0 .. MaxAborts

(* WitnessDb, io.rs: whatever branches the RPC node followed while the     *)
(* input was fetched, and whichever run fetched it, a guest that gets as   *)
(* far as executing the block has the state of the parent of that block,   *)
(* and every hash it can answer BLOCKHASH with is that of an ancestor.     *)
OnlyAuthenticInputIsExecuted == pc = "replay" => Authentic

(* RpcDb records enough: if the chain stands still, the guest finds every  *)
(* account, slot, code and block hash that the execution on the host asked *)
(* for, and no check of the guest fails, in this run or from the cache.    *)
RecordedInputIsEnough == reorgs = 0 => result \notin {"rejected", "panic"}

(* Once the faults are over, a run that finds no cache file accepts the    *)
(* block or makes its input: whatever earlier runs left behind, nothing    *)
(* of it but the file survives.                                            *)
Settled == reorgs = MaxReorgs /\ aborts = MaxAborts /\ n \in 1 .. Tip[head]
SettledRunSucceeds ==
  (Settled /\ pc = "load" /\ file.kind = "absent" /\ driver.rpc)
    ~> (result \in {"accepted", "made"})

=============================================================================
